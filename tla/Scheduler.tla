----------------------------- MODULE Scheduler -----------------------------
(***************************************************************************)
(* asio::detail::scheduler without a reactor (task_ is null) and with more *)
(* than one thread, and its wakeup_event_, a std_event: how the threads in *)
(* run() share op_queue_, and how one that finds it empty sleeps and is    *)
(* woken again.  "client" is the thread that posts, holds a Work object    *)
(* and stops and restarts the scheduler, as ThreadPool does.               *)
(*                                                                         *)
(* mutex_ makes a monitor: what happens between taking and releasing it is *)
(* one action.  Three things happen outside: the counter outstanding_work_ *)
(* is atomic and changes without the mutex; notify_one() is called after   *)
(* the mutex was released; and the operation itself runs.                  *)
(***************************************************************************)
EXTENDS Naturals, Sequences, FiniteSets

CONSTANTS Workers, client,
          MaxPosts   \* bound: operations the client posts

ASSUME SchedulerAssumption == /\ IsFiniteSet(Workers)
                              /\ client \notin Workers
                              /\ MaxPosts \in Nat

Threads == Workers \cup {client}
Ops     == 1 .. MaxPosts
NoOp    == 0

VARIABLES
  op_queue_, outstanding_work_, stopped_,
  signalled,   \* wakeup_event_.state_ & 1
  waiters,     \* wakeup_event_.state_ >> 1
  pc,          \* the next step of each thread
  op,          \* the operation a worker has taken
  work,        \* the client holds a Work object
  posted       \* operations posted so far

event  == <<signalled, waiters>>
clients == <<work, posted>>
vars == <<op_queue_, outstanding_work_, stopped_, event, pc, op, clients>>

Init == /\ op_queue_ = <<>> /\ outstanding_work_ = 0 /\ stopped_ = FALSE
        /\ signalled = FALSE /\ waiters = 0
        /\ pc = [t \in Threads |-> IF t = client THEN "idle" ELSE "out"]
        /\ op = [w \in Workers |-> NoOp]
        /\ work = FALSE /\ posted = 0

At(t, l) == pc[t] = l
Go(t, l) == pc' = [pc EXCEPT ![t] = l]

\* Blocked in cond_.wait(); one that was woken is still counted in state_.
Asleep == {w \in Workers : At(w, "asleep")}
InWait == {w \in Workers : pc[w] \in {"asleep", "woken"}}

\* They have taken an operation and not finished it.
Executing == {w \in Workers : pc[w] \in {"notify", "execute"}}

-----------------------------------------------------------------------------
\* run(), the workers

EnterRun(w) == /\ At(w, "out")
               /\ Go(w, IF outstanding_work_ = 0 THEN "stop, leave" ELSE "loop")
               /\ UNCHANGED <<op_queue_, outstanding_work_, stopped_, event, op, clients>>

\* do_run_one() takes an operation; n others are in wait().  If it leaves
\* operations in the queue it signals the event, and wakes somebody once it
\* has released the mutex.
TakeOp(w, n) == /\ ~stopped_ /\ op_queue_ # <<>>
                /\ op' = [op EXCEPT ![w] = Head(op_queue_)]
                /\ op_queue_' = Tail(op_queue_)
                /\ signalled' = (signalled \/ Tail(op_queue_) # <<>>)
                /\ waiters' = n
                /\ Go(w, IF Tail(op_queue_) # <<>> /\ n > 0 THEN "notify" ELSE "execute")

LeaveRun(w, n) == /\ stopped_
                  /\ waiters' = n
                  /\ Go(w, "out")
                  /\ UNCHANGED <<op_queue_, signalled, op>>

\* wakeup_event_.clear(lock); wakeup_event_.wait(lock)
Sleep(w, n) == /\ ~stopped_ /\ op_queue_ = <<>>
               /\ signalled' = FALSE
               /\ waiters' = n + 1
               /\ Go(w, "asleep")
               /\ UNCHANGED <<op_queue_, op>>

\* One turn of do_run_one()'s loop with the mutex held.
Turn(w, n) == /\ TakeOp(w, n) \/ LeaveRun(w, n) \/ Sleep(w, n)
              /\ UNCHANGED <<outstanding_work_, stopped_, clients>>

TakeMutex(w) == At(w, "loop") /\ Turn(w, waiters)

\* A thread that was woken gets the mutex, and goes on if the event is
\* signalled or else waits again.
WakeUp(w) == At(w, "woken") /\ signalled /\ Turn(w, waiters - 1)

SleepAgain(w) == /\ At(w, "woken") /\ ~signalled
                 /\ Go(w, "asleep")
                 /\ UNCHANGED <<op_queue_, outstanding_work_, stopped_, event, op, clients>>

SpuriousWake(w) == /\ At(w, "asleep")
                   /\ Go(w, "woken")
                   /\ UNCHANGED <<op_queue_, outstanding_work_, stopped_, event, op, clients>>

\* cond_.notify_one(), without the mutex; t goes on at l.
NotifyOne(t, l) == /\ \/ \E s \in Asleep : pc' = [pc EXCEPT ![s] = "woken", ![t] = l]
                      \/ Asleep = {} /\ Go(t, l)
                   /\ UNCHANGED <<op_queue_, outstanding_work_, stopped_, event, op, clients>>

NotifyOther(w) == At(w, "notify") /\ NotifyOne(w, "execute")

\* A bug to look for: work_cleanup also pushes back what it took.
FinishOp_Requeue(w) ==
  /\ At(w, "execute")
  /\ outstanding_work_' = outstanding_work_ - 1
  /\ op_queue_' = Append(op_queue_, op[w])
  /\ op' = [op EXCEPT ![w] = NoOp]
  /\ \E threw \in BOOLEAN :
       Go(w, IF outstanding_work_ = 1
             THEN IF threw THEN "stop, leave" ELSE "stop, loop"
             ELSE IF threw THEN "out" ELSE "loop")
  /\ UNCHANGED <<stopped_, event, clients>>

\* o->complete(), which may throw, and work_cleanup: work_finished()
FinishOp(w) == /\ At(w, "execute")
               /\ outstanding_work_' = outstanding_work_ - 1
               /\ op' = [op EXCEPT ![w] = NoOp]
               /\ \E threw \in BOOLEAN :
                    Go(w, IF outstanding_work_ = 1
                          THEN IF threw THEN "stop, leave" ELSE "stop, loop"
                          ELSE IF threw THEN "out" ELSE "loop")
               /\ UNCHANGED <<op_queue_, stopped_, event, clients>>

\* A bug to look for: stop() wakes one thread only.
StopAllThreads_One(t, l) ==
  /\ stopped_' = TRUE /\ signalled' = TRUE
  /\ \/ \E s \in Asleep : pc' = [pc EXCEPT ![s] = "woken", ![t] = l]
     \/ Asleep = {} /\ Go(t, l)
  /\ UNCHANGED <<op_queue_, outstanding_work_, waiters, op, work, posted>>

\* stop(): stop_all_threads() under the mutex; t goes on at l.
StopAllThreads(t, l) ==
  /\ stopped_' = TRUE
  /\ signalled' = TRUE
  /\ pc' = [u \in Threads |-> IF u = t THEN l
                              ELSE IF u \in Asleep THEN "woken" ELSE pc[u]]
  /\ UNCHANGED <<op_queue_, outstanding_work_, waiters, op, clients>>

StopLast(w) == \/ At(w, "stop, loop") /\ StopAllThreads(w, "loop")
               \/ At(w, "stop, leave") /\ StopAllThreads(w, "out")

\* What w does inside run().
Running(w) == \/ TakeMutex(w) \/ WakeUp(w) \/ SleepAgain(w) \/ NotifyOther(w)
              \/ FinishOp(w) \/ StopLast(w)

Worker(w) == EnterRun(w) \/ SpuriousWake(w) \/ Running(w)

-----------------------------------------------------------------------------
\* The client

NewWork == /\ At(client, "idle") /\ ~work
           /\ work' = TRUE
           /\ outstanding_work_' = outstanding_work_ + 1
           /\ UNCHANGED <<op_queue_, stopped_, event, pc, op, posted>>

\* post(): work_started() first ...
PostBegin == /\ At(client, "idle") /\ work /\ posted < MaxPosts
             /\ posted' = posted + 1
             /\ outstanding_work_' = outstanding_work_ + 1
             /\ Go(client, "push")
             /\ UNCHANGED <<op_queue_, stopped_, event, op, work>>

PostPush_Quiet == /\ At(client, "push")   \* a bug to look for: no notify_one()
                  /\ op_queue_' = Append(op_queue_, posted)
                  /\ signalled' = TRUE
                  /\ Go(client, "idle")
                  /\ UNCHANGED <<outstanding_work_, stopped_, waiters, op, clients>>

\* ... then the push under the mutex, with wake_one_thread_and_unlock()
PostPush == /\ At(client, "push")
            /\ op_queue_' = Append(op_queue_, posted)
            /\ signalled' = TRUE
            /\ Go(client, IF waiters > 0 THEN "notify" ELSE "idle")
            /\ UNCHANGED <<outstanding_work_, stopped_, waiters, op, clients>>

NotifyWorker == At(client, "notify") /\ NotifyOne(client, "idle")

\* ~work(): work_finished()
DropWork == /\ At(client, "idle") /\ work
            /\ work' = FALSE
            /\ outstanding_work_' = outstanding_work_ - 1
            /\ Go(client, IF outstanding_work_ = 1 THEN "stop" ELSE "idle")
            /\ UNCHANGED <<op_queue_, stopped_, event, op, posted>>

StopByWork == At(client, "stop") /\ StopAllThreads(client, "idle")

StopService == At(client, "idle") /\ StopAllThreads(client, "idle")

\* restart(), which its users call only when no thread is in run()
Restart == /\ At(client, "idle")
           /\ \A w \in Workers : At(w, "out")
           /\ stopped_' = FALSE
           /\ UNCHANGED <<op_queue_, outstanding_work_, event, pc, op, clients>>

InCall == PostPush \/ NotifyWorker \/ StopByWork

Client == NewWork \/ PostBegin \/ DropWork \/ StopService \/ Restart \/ InCall

Next == Client \/ \E w \in Workers : Worker(w)

Spec == Init /\ [][Next]_vars

\* Threads are scheduled, one that waits for the mutex gets it, operations are
\* finite.  Nobody has to call run() or post(), or to wake spuriously.
Fairness == WF_vars(InCall) /\ \A w \in Workers : WF_vars(Running(w))

FairSpec == Spec /\ Fairness

-----------------------------------------------------------------------------
WorkerPCs == {"out", "loop", "asleep", "woken", "notify", "execute",
              "stop, loop", "stop, leave"}
ClientPCs == {"idle", "push", "notify", "stop"}

TypeOK == /\ op_queue_ \in Seq(Ops)
          /\ outstanding_work_ \in Nat
          /\ stopped_ \in BOOLEAN /\ signalled \in BOOLEAN
          /\ waiters \in Nat
          /\ pc \in [Threads -> WorkerPCs \cup ClientPCs]
          /\ pc[client] \in ClientPCs
          /\ \A w \in Workers : pc[w] \in WorkerPCs
          /\ op \in [Workers -> Ops \cup {NoOp}]
          /\ work \in BOOLEAN
          /\ posted \in 0 .. MaxPosts

\* outstanding_work_ without the operation that is being posted
Counted == outstanding_work_ - (IF At(client, "push") THEN 1 ELSE 0)

(* The counter is exact, also when operations throw; a post in progress is *)
(* covered by a Work object.                                               *)
Accounting == /\ Counted = Len(op_queue_) + Cardinality(Executing) + (IF work THEN 1 ELSE 0)
              /\ At(client, "push") => work /\ posted > 0

(* The event counts those in its wait(), and is never cleared while there  *)
(* is something to do.                                                     *)
EventMatches == /\ waiters = Cardinality(InWait)
                /\ op_queue_ # <<>> \/ stopped_ => signalled

\* t is about to look at the queue, or about to wake somebody who will.
OnItsWay(t) == \/ pc[t] \in {"loop", "notify"}
               \/ At(t, "woken") /\ signalled

(* No thread sleeps in run() past its reason: while operations wait in the *)
(* queue somebody is on the way to it, whoever else is busy, and once the  *)
(* scheduler has been stopped nobody sleeps.                               *)
NoLostWakeup == /\ op_queue_ # <<>> /\ Asleep # {} => \E t \in Threads : OnItsWay(t)
                /\ stopped_ => Asleep = {}

\* A worker's phase as the users of the scheduler see it.
Phase(w) == CASE pc[w] \in {"loop", "asleep", "woken"} -> "in"
              [] pc[w] \in {"notify", "execute"} -> "busy"
              [] At(w, "stop, loop") -> "ending"
              [] At(w, "stop, leave") -> "leaving"
              [] OTHER -> "out"

Contract == INSTANCE WorkQueue WITH
              queue <- op_queue_, outstanding <- Counted, stopped <- stopped_,
              phase <- [w \in Workers |-> Phase(w)]

(* Sleeping, waking and the mutex cannot be told from the queue's contract: *)
(* every step is one of WorkQueue's or invisible to its users.              *)
ImplementsWorkQueue == Contract!QSafety

(* A worker inside run() that could take an operation, or leave, in the end *)
(* does so, whatever wake-ups come early, late or for nothing.              *)
WorkersServe == Contract!QServes
=============================================================================
