---------------------------- MODULE ThreadBarrier ----------------------------
(***************************************************************************)
(* class barrier of redist/threadbarrier.hpp: a monitor with one mutex and *)
(* one condition variable.  What runs between taking and releasing the     *)
(* mutex is one action.  A thread inside m_cond.wait is "sleeping"; a      *)
(* notify_all (or a spurious wake-up, which std::condition_variable        *)
(* allows) makes it "woken", and when it gets the mutex again it evaluates *)
(* the condition of the while loop.                                        *)
(*                                                                         *)
(* Threads are the callers: ThreadPool gives its barriers a threshold of   *)
(* n + 1 for its n workers and the thread that drives them, and nobody     *)
(* else waits there.  m_generation is an unsigned int: GenMod stands for   *)
(* 2^32, and two generations are enough.                                   *)
(***************************************************************************)
EXTENDS Naturals, FiniteSets

CONSTANTS Threads, GenMod

ASSUME BarrierAssumption == /\ IsFiniteSet(Threads) /\ Threads # {}
                            /\ GenMod \in Nat /\ GenMod >= 2

VARIABLES m_count, m_generation, m_unblocked,
          at,     \* where each thread is: outside, sleeping or woken
          gen     \* the local variable gen of each thread's last wait()

vars == <<m_count, m_generation, m_unblocked, at, gen>>

m_threshold == Cardinality(Threads)

Init == /\ m_count = m_threshold
        /\ m_generation = 0
        /\ m_unblocked = FALSE
        /\ at  = [t \in Threads |-> "out"]
        /\ gen = [t \in Threads |-> 0]

NotifyAll(w) == [t \in Threads |-> IF w[t] = "sleeping" THEN "woken" ELSE w[t]]

-----------------------------------------------------------------------------
\* wait(), up to its return or the first m_cond.wait.

EnterUnblocked(t) == /\ at[t] = "out"
                     /\ m_unblocked
                     /\ gen' = [gen EXCEPT ![t] = m_generation]
                     /\ UNCHANGED <<m_count, m_generation, m_unblocked, at>>

EnterLast_NotifyOne(t) ==      \* a bug to look for: notify_one, not notify_all
  /\ at[t] = "out" /\ ~m_unblocked /\ m_count = 1
  /\ m_generation' = (m_generation + 1) % GenMod
  /\ m_count' = m_threshold
  /\ \/ \E u \in Threads : /\ at[u] = "sleeping"
                            /\ at' = [at EXCEPT ![u] = "woken"]
     \/ at = NotifyAll(at) /\ UNCHANGED at
  /\ gen' = [gen EXCEPT ![t] = m_generation]
  /\ UNCHANGED m_unblocked

EnterLast(t) == /\ at[t] = "out"
                /\ ~m_unblocked
                /\ m_count = 1
                /\ m_generation' = (m_generation + 1) % GenMod
                /\ m_count' = m_threshold
                /\ at' = NotifyAll(at)
                /\ gen' = [gen EXCEPT ![t] = m_generation]
                /\ UNCHANGED m_unblocked

EnterWait(t) == /\ at[t] = "out"
                /\ ~m_unblocked
                /\ m_count # 1
                /\ m_count' = m_count - 1
                /\ at' = [at EXCEPT ![t] = "sleeping"]
                /\ gen' = [gen EXCEPT ![t] = m_generation]
                /\ UNCHANGED <<m_generation, m_unblocked>>

\* The condition of the while loop in wait().
MustWait(t) == ~m_unblocked /\ gen[t] = m_generation

SleepAgain(t) == /\ at[t] = "woken"
                 /\ MustWait(t)
                 /\ at' = [at EXCEPT ![t] = "sleeping"]
                 /\ UNCHANGED <<m_count, m_generation, m_unblocked, gen>>

Return_IfNotWhile(t) == /\ at[t] = "woken"    \* mutant: `if`, not `while`
                        /\ at' = [at EXCEPT ![t] = "out"]
                        /\ UNCHANGED <<m_count, m_generation, m_unblocked, gen>>

Return(t) == /\ at[t] = "woken"
             /\ ~MustWait(t)
             /\ at' = [at EXCEPT ![t] = "out"]
             /\ UNCHANGED <<m_count, m_generation, m_unblocked, gen>>

SpuriousWake(t) == /\ at[t] = "sleeping"
                   /\ at' = [at EXCEPT ![t] = "woken"]
                   /\ UNCHANGED <<m_count, m_generation, m_unblocked, gen>>

Unblock_NoNotify == /\ m_unblocked' = TRUE     \* mutant: nobody is woken
                    /\ UNCHANGED <<m_count, m_generation, at, gen>>

Unblock == /\ m_unblocked' = TRUE
           /\ at' = NotifyAll(at)
           /\ UNCHANGED <<m_count, m_generation, gen>>

-----------------------------------------------------------------------------
Step(t) == \/ EnterUnblocked(t) \/ EnterLast(t) \/ EnterWait(t)
           \/ SleepAgain(t) \/ Return(t) \/ SpuriousWake(t)

Next == Unblock \/ \E t \in Threads : Step(t)

Spec == Init /\ [][Next]_vars

\* A woken thread gets the mutex in the end.  Nobody is obliged to call
\* wait() or unblock(), and spurious wake-ups are never promised.
Fairness == \A t \in Threads : WF_vars(Return(t))

FairSpec == Spec /\ Fairness

-----------------------------------------------------------------------------
TypeOK == /\ m_count \in 1 .. m_threshold
          /\ m_generation \in 0 .. GenMod - 1
          /\ m_unblocked \in BOOLEAN
          /\ at \in [Threads -> {"out", "sleeping", "woken"}]
          /\ gen \in [Threads -> 0 .. GenMod - 1]

\* The mapping to Rendezvous: who is still held back, and who is not.
Arrived == {t \in Threads : at[t] # "out" /\ MustWait(t)}
Leaving == {t \in Threads : at[t] # "out" /\ ~MustWait(t)}

R == INSTANCE Rendezvous WITH arrived <- Arrived, leaving <- Leaving,
                              open <- m_unblocked

(* While it is not unblocked, m_count is the number of threads the barrier *)
(* still waits for (--m_count and its reset by the last thread).           *)
CountMatches == ~m_unblocked => m_count + Cardinality(Arrived) = m_threshold

(* No lost wake-up: a thread asleep on the condition variable is one that  *)
(* has to wait; whoever may go on has been notified.                       *)
NoLostWakeup == \A t \in Threads : at[t] = "sleeping" => MustWait(t)

(* A thread that may go on but has not returned is exactly one generation  *)
(* behind: the generations of two rounds of waiters are never confused,    *)
(* even when m_generation wraps round.                                     *)
OneBehind == ~m_unblocked => 
               \A t \in Leaving : (gen[t] + 1) % GenMod = m_generation

IInv == TypeOK /\ CountMatches /\ NoLostWakeup /\ OneBehind

(* The barrier keeps its users' contract, step by step ...                 *)
ImplementsRendezvous == R!RSafety

(* ... and, with a fair mutex, every thread that may go on returns.        *)
EveryoneReleased == \A t \in Threads : t \in Leaving ~> at[t] = "out"

(* unblock() frees every thread that waits and every one that will.        *)
UnblockFreesAll == m_unblocked ~> [](\A t \in Threads : at[t] = "out")
=============================================================================
