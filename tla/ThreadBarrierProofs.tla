------------------------ MODULE ThreadBarrierProofs ------------------------
(***************************************************************************)
(* ThreadBarrier, for every finite set of threads and every width of       *)
(* m_generation: its inductive invariant, that it implements Rendezvous,   *)
(* and, with MCThreadBarrier's history variable, that it keeps its threads *)
(* in lockstep.                                                            *)
(***************************************************************************)
EXTENDS MCThreadBarrier, FiniteSetTheorems, TLAPS

USE BarrierAssumption

(* There is at least one thread, and any set of them can be counted.       *)
LEMMA Counting ==
  /\ m_threshold \in Nat /\ m_threshold >= 1
  /\ \A S \in SUBSET Threads : /\ IsFiniteSet(S)
                               /\ Cardinality(S) \in 0 .. m_threshold
                               /\ Cardinality(S) = m_threshold => S = Threads
<1>1. m_threshold \in Nat
  BY FS_CardinalityType DEF m_threshold
<1>2. m_threshold # 0
  BY FS_EmptySet DEF m_threshold
<1>3. ASSUME NEW S \in SUBSET Threads
      PROVE  /\ IsFiniteSet(S)
             /\ Cardinality(S) \in 0 .. m_threshold
             /\ Cardinality(S) = m_threshold => S = Threads
  <2>1. IsFiniteSet(S)
    BY FS_Subset
  <2>2. Cardinality(S) \in Nat /\ Cardinality(S) <= m_threshold
    BY <2>1, FS_Subset, FS_CardinalityType DEF m_threshold
  <2>3. S # Threads => Cardinality(S) # m_threshold
    BY FS_Subset, <2>2 DEF m_threshold
  <2> QED
    BY <1>1, <2>1, <2>2, <2>3
<1> QED
  BY <1>1, <1>2, <1>3

(* Adding a thread to a set of threads counts it once.                     *)
LEMMA CountingOneMore ==
  ASSUME NEW S \in SUBSET Threads, NEW t \in Threads, t \notin S
  PROVE  Cardinality(S \cup {t}) = Cardinality(S) + 1
BY Counting, FS_AddElement

-----------------------------------------------------------------------------
(* The constructor establishes the invariant.                              *)
LEMMA InitIInv == Init => IInv
<1> SUFFICES ASSUME Init PROVE IInv
  OBVIOUS
<1>1. TypeOK
  <2>1. m_threshold \in Nat /\ m_threshold >= 1 /\ 0 \in 0 .. GenMod - 1
    BY Counting
  <2>2. m_count \in 1 .. m_threshold
    BY <2>1 DEF Init
  <2>3. at \in [Threads -> {"out", "sleeping", "woken"}]
    BY DEF Init
  <2>4. gen \in [Threads -> 0 .. GenMod - 1]
    BY <2>1 DEF Init
  <2> QED
    BY <2>1, <2>2, <2>3, <2>4 DEF Init, TypeOK
<1>2. Arrived = {} /\ Leaving = {}
  BY DEF Init, Arrived, Leaving
<1>3. CountMatches
  BY <1>2, Counting, FS_EmptySet DEF Init, CountMatches
<1> QED
  BY <1>1, <1>2, <1>3 DEF Init, IInv, NoLostWakeup, OneBehind

(* The successor of a generation is another one, and is a generation.      *)
LEMMA NextGeneration ==
  ASSUME NEW g \in 0 .. GenMod - 1
  PROVE  /\ (g + 1) % GenMod \in 0 .. GenMod - 1
         /\ (g + 1) % GenMod # g
<1>1. CASE g + 1 < GenMod
  <2>1. (g + 1) % GenMod = g + 1
    BY <1>1
  <2> QED
    BY <2>1, <1>1
<1>2. CASE g + 1 = GenMod
  <2>1. (g + 1) % GenMod = 0
    BY <1>2
  <2> QED
    BY <2>1, <1>2
<1> QED
  BY <1>1, <1>2

-----------------------------------------------------------------------------
(* Every action of the code is an action of Rendezvous or changes nothing  *)
(* that Rendezvous sees.                                                   *)

LEMMA EnterUnblockedPasses ==
  ASSUME IInv, NEW t \in Threads, EnterUnblocked(t)
  PROVE  R!Pass(t)
<1>1. Arrived = {} /\ Arrived' = {}
  BY DEF EnterUnblocked, Arrived, MustWait
<1>2. Leaving' = Leaving
  BY DEF EnterUnblocked, Leaving, MustWait
<1> QED
  BY <1>1, <1>2 DEF EnterUnblocked, R!Pass, R!Inside, R!rvars, Leaving

(* The last thread finds all the others arrived, so nobody of an earlier   *)
(* generation is still inside when the generation changes.                 *)
LEMMA EnterLastCompletes ==
  ASSUME IInv, NEW t \in Threads, EnterLast(t)
  PROVE  R!Complete(t) /\ Leaving = {} /\ Arrived' = {}
<1> USE DEF IInv
<1>1. t \notin Arrived /\ t \notin Leaving
  BY DEF EnterLast, Arrived, Leaving
<1>2. Arrived \cup {t} = Threads
  <2>1. Arrived \in SUBSET Threads /\ Arrived \cup {t} \in SUBSET Threads
    BY DEF Arrived
  <2>2. Cardinality(Arrived \cup {t}) = Cardinality(Arrived) + 1
    BY <1>1, <2>1, CountingOneMore
  <2>3. 1 + Cardinality(Arrived) = m_threshold
    BY DEF EnterLast, CountMatches
  <2>4. Cardinality(Arrived) \in Nat
    BY <2>1, Counting
  <2>5. Cardinality(Arrived \cup {t}) = m_threshold
    BY <2>2, <2>3, <2>4
  <2> QED
    BY <2>1, <2>5, Counting
<1>3. Leaving = {}
  BY <1>1, <1>2 DEF Arrived, Leaving
<1>4. \A u \in Threads \ {t} : gen'[u] = m_generation /\ at'[u] # "out"
  BY <1>2 DEF Arrived, MustWait, EnterLast, NotifyAll, TypeOK
<1>5. m_generation' # m_generation
  BY NextGeneration DEF EnterLast, TypeOK
<1>6. at'[t] = "out"
  BY DEF EnterLast, NotifyAll
<1>7. Arrived' = {}
  BY <1>4, <1>5, <1>6 DEF Arrived, MustWait
<1>8. Leaving' = Threads \ {t}
  BY <1>4, <1>5, <1>6 DEF Leaving, MustWait
<1> QED
  BY <1>1, <1>2, <1>3, <1>7, <1>8 DEF EnterLast, R!Complete, R!Inside

LEMMA EnterWaitArrives ==
  ASSUME IInv, NEW t \in Threads, EnterWait(t)
  PROVE  R!Arrive(t) /\ Arrived' = Arrived \cup {t} /\ Leaving' = Leaving
<1> USE DEF IInv
<1>1. t \notin Arrived /\ t \notin Leaving
  BY DEF EnterWait, Arrived, Leaving
<1>2. Arrived \cup {t} # Threads
  <2>1. Arrived \in SUBSET Threads
    BY DEF Arrived
  <2>2. Cardinality(Arrived \cup {t}) = Cardinality(Arrived) + 1
    BY <1>1, <2>1, CountingOneMore
  <2>3. m_count + Cardinality(Arrived) = m_threshold
    BY DEF EnterWait, CountMatches
  <2>4. Cardinality(Arrived) \in Nat /\ m_threshold \in Nat
    BY <2>1, Counting
  <2>5. m_count \in 1 .. m_threshold /\ m_count # 1
    BY DEF TypeOK, EnterWait
  <2>6. Cardinality(Arrived \cup {t}) # m_threshold
    BY <2>2, <2>3, <2>4, <2>5
  <2> QED
    BY <2>6 DEF m_threshold
<1>3. \A u \in Threads : /\ u # t => at'[u] = at[u] /\ gen'[u] = gen[u]
                         /\ at'[t] = "sleeping" /\ gen'[t] = m_generation
  BY DEF EnterWait, TypeOK
<1>4. Arrived' = Arrived \cup {t}
  BY <1>3 DEF EnterWait, Arrived, MustWait
<1>5. Leaving' = Leaving
  BY <1>1, <1>3 DEF EnterWait, Leaving, MustWait
<1> QED
  BY <1>1, <1>2, <1>4, <1>5 DEF EnterWait, R!Arrive, R!Inside

LEMMA ReturnDeparts ==
  ASSUME IInv, NEW t \in Threads, Return(t)
  PROVE  R!Depart(t) /\ Arrived' = Arrived /\ Leaving' = Leaving \ {t}
<1> USE DEF IInv
<1>1. t \in Leaving
  BY DEF Return, Leaving
<1>2. at'[t] = "out" /\ \A u \in Threads : u # t => at'[u] = at[u]
  BY DEF Return, TypeOK
<1>3. Arrived' = Arrived /\ Leaving' = Leaving \ {t}
  BY <1>2 DEF Return, Arrived, Leaving, MustWait
<1> QED
  BY <1>1, <1>3 DEF Return, R!Depart

(* Falling asleep again and waking up for nothing are invisible.           *)
LEMMA WakeUpsStutter ==
  ASSUME IInv, NEW t \in Threads, SleepAgain(t) \/ SpuriousWake(t)
  PROVE  Arrived' = Arrived /\ Leaving' = Leaving
<1>1. at[t] # "out" /\ at'[t] # "out" /\ \A u \in Threads : u # t => at'[u] = at[u]
  BY DEF SleepAgain, SpuriousWake, IInv, TypeOK
<1>2. UNCHANGED <<m_generation, m_unblocked, gen>>
  BY DEF SleepAgain, SpuriousWake
<1> QED
  BY <1>1, <1>2 DEF Arrived, Leaving, MustWait

LEMMA UnblockCancels ==
  ASSUME IInv, Unblock
  PROVE  R!Cancel /\ Arrived' = {}
<1>1. \A u \in Threads : at'[u] = "out" <=> at[u] = "out"
  BY DEF Unblock, NotifyAll, IInv, TypeOK
<1>2. Arrived' = {} /\ Leaving' = Arrived \cup Leaving
  BY <1>1 DEF Unblock, Arrived, Leaving, MustWait
<1> QED
  BY <1>2 DEF Unblock, R!Cancel, R!Inside

-----------------------------------------------------------------------------
(* The invariant is inductive: its four conjuncts, one action at a time.   *)

LEMMA StepKeepsType ==
  ASSUME IInv, [Next]_vars
  PROVE  TypeOK'
<1> USE DEF IInv, TypeOK
<1>1. m_threshold \in Nat /\ m_threshold >= 1
  BY Counting
<1>2. (m_generation + 1) % GenMod \in 0 .. GenMod - 1
  BY NextGeneration
<1>3. NotifyAll(at) \in [Threads -> {"out", "sleeping", "woken"}]
  BY DEF NotifyAll
<1>4. \A t \in Threads :
        [gen EXCEPT ![t] = m_generation] \in [Threads -> 0 .. GenMod - 1]
  OBVIOUS
<1>5. CASE Unblock
  BY <1>3, <1>5 DEF Unblock
<1>6. ASSUME NEW t \in Threads, EnterUnblocked(t) PROVE TypeOK'
  BY <1>4, <1>6 DEF EnterUnblocked
<1>7. ASSUME NEW t \in Threads, EnterLast(t) PROVE TypeOK'
  <2>1. m_count' \in 1 .. m_threshold
    BY <1>1, <1>7 DEF EnterLast
  <2> QED
    BY <2>1, <1>2, <1>3, <1>4, <1>7 DEF EnterLast
<1>8. ASSUME NEW t \in Threads, EnterWait(t) PROVE TypeOK'
  <2>1. m_count' \in 1 .. m_threshold
    BY <1>1, <1>8 DEF EnterWait
  <2> QED
    BY <2>1, <1>4, <1>8 DEF EnterWait
<1>9. ASSUME NEW t \in Threads, SleepAgain(t) \/ SpuriousWake(t) \/ Return(t)
      PROVE TypeOK'
  BY <1>9 DEF SleepAgain, SpuriousWake, Return
<1>10. CASE UNCHANGED vars
  BY <1>10 DEF vars
<1> QED
  BY <1>5, <1>6, <1>7, <1>8, <1>9, <1>10 DEF Next, Step

LEMMA StepKeepsCount ==
  ASSUME IInv, [Next]_vars
  PROVE  CountMatches'
<1> USE DEF CountMatches
<1>1. m_count \in Nat /\ m_threshold \in Nat
  BY Counting DEF IInv, TypeOK
<1>2. CASE Unblock
  BY <1>2 DEF Unblock
<1>3. ASSUME NEW t \in Threads, EnterUnblocked(t) PROVE CountMatches'
  BY <1>3 DEF EnterUnblocked
<1>4. ASSUME NEW t \in Threads, EnterLast(t) PROVE CountMatches'
  <2>1. Cardinality(Arrived') = 0
    BY <1>4, EnterLastCompletes, FS_EmptySet
  <2> QED
    BY <2>1, <1>1, <1>4 DEF EnterLast, m_threshold
<1>5. ASSUME NEW t \in Threads, EnterWait(t) PROVE CountMatches'
  <2>1. t \notin Arrived /\ Arrived \in SUBSET Threads
    BY <1>5 DEF EnterWait, Arrived
  <2>2. Cardinality(Arrived') = Cardinality(Arrived) + 1
    BY <2>1, <1>5, EnterWaitArrives, CountingOneMore
  <2>3. Cardinality(Arrived) \in Nat
    BY <2>1, Counting
  <2>4. m_count + Cardinality(Arrived) = m_threshold /\ m_count' = m_count - 1
    BY <1>5 DEF EnterWait, IInv
  <2>5. m_count' + Cardinality(Arrived') = m_threshold
    BY <2>2, <2>3, <2>4, <1>1
  <2> QED
    BY <2>5 DEF m_threshold
<1>6. ASSUME NEW t \in Threads, SleepAgain(t) \/ SpuriousWake(t)
      PROVE CountMatches'
  <2>1. Arrived' = Arrived
    BY <1>6, WakeUpsStutter
  <2> QED
    BY <2>1, <1>6 DEF SleepAgain, SpuriousWake, IInv, m_threshold
<1>7. ASSUME NEW t \in Threads, Return(t) PROVE CountMatches'
  <2>1. Arrived' = Arrived
    BY <1>7, ReturnDeparts
  <2> QED
    BY <2>1, <1>7 DEF Return, IInv, m_threshold
<1>8. CASE UNCHANGED vars
  BY <1>8 DEF vars, IInv, Arrived, MustWait, m_threshold
<1> QED
  BY <1>2, <1>3, <1>4, <1>5, <1>6, <1>7, <1>8 DEF Next, Step

LEMMA StepLosesNoWakeup ==
  ASSUME IInv, [Next]_vars
  PROVE  NoLostWakeup'
<1> USE DEF NoLostWakeup, MustWait
<1>1. IInv /\ TypeOK
  BY DEF IInv
<1>2. \A u \in Threads : NotifyAll(at)[u] # "sleeping"
  BY DEF NotifyAll
<1>3. CASE Unblock
  BY <1>2, <1>3 DEF Unblock
<1>4. ASSUME NEW t \in Threads, EnterUnblocked(t) PROVE NoLostWakeup'
  <2>1. \A u \in Threads : at[u] # "sleeping"
    BY <1>4, <1>1 DEF EnterUnblocked, IInv
  <2> QED
    BY <2>1, <1>4 DEF EnterUnblocked
<1>5. ASSUME NEW t \in Threads, EnterLast(t) PROVE NoLostWakeup'
  BY <1>2, <1>5 DEF EnterLast
<1>6. ASSUME NEW t \in Threads, EnterWait(t) PROVE NoLostWakeup'
  BY <1>1, <1>6 DEF EnterWait, IInv, TypeOK
<1>7. ASSUME NEW t \in Threads, SleepAgain(t) \/ SpuriousWake(t) \/ Return(t)
      PROVE NoLostWakeup'
  BY <1>1, <1>7 DEF SleepAgain, SpuriousWake, Return, IInv, TypeOK
<1>8. CASE UNCHANGED vars
  BY <1>1, <1>8 DEF vars, IInv
<1> QED
  BY <1>3, <1>4, <1>5, <1>6, <1>7, <1>8 DEF Next, Step

LEMMA StepKeepsOneBehind ==
  ASSUME IInv, [Next]_vars
  PROVE  OneBehind'
<1> USE DEF OneBehind
<1>1. IInv /\ TypeOK
  BY DEF IInv
<1>2. CASE Unblock
  BY <1>2 DEF Unblock
<1>3. ASSUME NEW t \in Threads, EnterUnblocked(t) PROVE OneBehind'
  BY <1>3 DEF EnterUnblocked
<1>4. ASSUME NEW t \in Threads, EnterLast(t) PROVE OneBehind'
  <2>1. Leaving' = Arrived /\ t \notin Arrived
    BY <1>1, <1>4, EnterLastCompletes DEF R!Complete, R!Inside
  <2>2. \A u \in Arrived : gen'[u] = m_generation
    BY <2>1, <1>1, <1>4 DEF EnterLast, Arrived, MustWait, TypeOK
  <2> QED
    BY <2>1, <2>2, <1>4 DEF EnterLast
<1>5. ASSUME NEW t \in Threads, EnterWait(t) PROVE OneBehind'
  <2>1. Leaving' = Leaving /\ t \notin Leaving
    BY <1>1, <1>5, EnterWaitArrives DEF EnterWait, Leaving
  <2>2. \A u \in Leaving : gen'[u] = gen[u]
    BY <2>1, <1>1, <1>5 DEF EnterWait, Leaving, TypeOK
  <2> QED
    BY <2>1, <2>2, <1>1, <1>5 DEF EnterWait, IInv
<1>6. ASSUME NEW t \in Threads, SleepAgain(t) \/ SpuriousWake(t)
      PROVE OneBehind'
  <2>1. Leaving' = Leaving
    BY <1>1, <1>6, WakeUpsStutter
  <2> QED
    BY <2>1, <1>1, <1>6 DEF SleepAgain, SpuriousWake, IInv
<1>7. ASSUME NEW t \in Threads, Return(t) PROVE OneBehind'
  <2>1. Leaving' = Leaving \ {t}
    BY <1>1, <1>7, ReturnDeparts
  <2> QED
    BY <2>1, <1>1, <1>7 DEF Return, IInv
<1>8. CASE UNCHANGED vars
  BY <1>1, <1>8 DEF vars, IInv, Leaving, MustWait
<1> QED
  BY <1>2, <1>3, <1>4, <1>5, <1>6, <1>7, <1>8 DEF Next, Step

-----------------------------------------------------------------------------
(* The barrier's invariant holds for every number of threads: the count of *)
(* wait() is right, no wake-up is lost, and threads inside wait() are at   *)
(* most one generation behind.                                             *)
THEOREM BarrierInvariant == Spec => []IInv
<1>1. Init => IInv
  BY InitIInv
<1>2. IInv /\ [Next]_vars => IInv'
  BY StepKeepsType, StepKeepsCount, StepLosesNoWakeup, StepKeepsOneBehind
     DEF IInv
<1> QED
  BY <1>1, <1>2, PTL DEF Spec

(* In particular the state has its type ...                                *)
THEOREM BarrierType == Spec => []TypeOK
<1>1. IInv => TypeOK
  BY DEF IInv
<1> QED
  BY <1>1, BarrierInvariant, PTL

(* ... and notify_all in wait() and unblock() loses no wake-up.            *)
THEOREM BarrierLosesNoWakeup == Spec => []NoLostWakeup
<1>1. IInv => NoLostWakeup
  BY DEF IInv
<1> QED
  BY <1>1, BarrierInvariant, PTL

(* Unless the barrier is unblocked, a released thread that has not yet     *)
(* returned is one generation behind, so comparing generations is right    *)
(* at any width of m_generation that tells two of them apart.              *)
THEOREM BarrierOneBehind == Spec => []OneBehind
<1>1. IInv => OneBehind
  BY DEF IInv
<1> QED
  BY <1>1, BarrierInvariant, PTL

(* wait() and unblock() implement the rendezvous that ThreadPool uses: the *)
(* initial state maps to its initial state, each step to one of its steps  *)
(* or to no change.                                                        *)
THEOREM BarrierImplementsRendezvous == Spec => ImplementsRendezvous
<1>1. Init => R!RInit
  BY DEF Init, R!RInit, Arrived, Leaving
<1>2. IInv /\ [Next]_vars => [R!RNext]_R!rvars
  <2> SUFFICES ASSUME IInv, [Next]_vars PROVE [R!RNext]_R!rvars
    OBVIOUS
  <2>1. CASE Unblock
    BY <2>1, UnblockCancels DEF R!RNext
  <2>2. ASSUME NEW t \in Threads, EnterUnblocked(t)
        PROVE  [R!RNext]_R!rvars
    BY <2>2, EnterUnblockedPasses DEF R!RNext
  <2>3. ASSUME NEW t \in Threads, EnterLast(t)
        PROVE  [R!RNext]_R!rvars
    BY <2>3, EnterLastCompletes DEF R!RNext
  <2>4. ASSUME NEW t \in Threads, EnterWait(t)
        PROVE  [R!RNext]_R!rvars
    BY <2>4, EnterWaitArrives DEF R!RNext
  <2>5. ASSUME NEW t \in Threads, Return(t)
        PROVE  [R!RNext]_R!rvars
    BY <2>5, ReturnDeparts DEF R!RNext
  <2>6. ASSUME NEW t \in Threads, SleepAgain(t) \/ SpuriousWake(t)
        PROVE  [R!RNext]_R!rvars
    BY <2>6, WakeUpsStutter DEF R!rvars, SleepAgain, SpuriousWake
  <2>7. CASE UNCHANGED vars
    BY <2>7 DEF vars, R!rvars, Arrived, Leaving, MustWait
  <2> QED
    BY <2>1, <2>2, <2>3, <2>4, <2>5, <2>6, <2>7 DEF Next, Step
<1> QED
  BY <1>1, <1>2, BarrierInvariant, PTL DEF Spec, ImplementsRendezvous, R!RSafety

-----------------------------------------------------------------------------
(* Lockstep.  A released thread that has not returned has its wait() still *)
(* to be counted; with that one added, all threads have come through the   *)
(* same number of times.                                                   *)
Turns(t) == IF t \in Leaving THEN crossed[t] + 1 ELSE crossed[t]

InStep == /\ crossed \in [Threads -> Nat]
          /\ ~m_unblocked => \A t, u \in Threads : Turns(t) = Turns(u)

(* A bounded step of a thread is a step of the barrier, and counts for it   *)
(* alone.                                                                  *)
LEMMA CountedStep ==
  ASSUME InStep, NEW t \in Threads, MCStep(t)
  PROVE  /\ Next
         /\ crossed' \in [Threads -> Nat]
         /\ crossed'[t] = IF at'[t] = "out" THEN crossed[t] + 1 ELSE crossed[t]
         /\ \A u \in Threads : u # t => crossed'[u] = crossed[u]
BY DEF InStep, MCStep, Next

LEMMA MCNextIsNext ==
  ASSUME [MCNext]_<<vars, crossed>>
  PROVE  [Next]_vars
BY DEF MCNext, MCStep, Next

(* The last thread is counted at once and makes all others leave, when none *)
(* was leaving before ...                                                  *)
LEMMA EnterLastInStep ==
  ASSUME IInv, InStep, NEW t \in Threads, MCStep(t), EnterLast(t)
  PROVE  InStep'
<1>1. /\ \A u \in Threads : crossed[u] \in Nat
      /\ \A u, v \in Threads : Turns(u) = Turns(v)
  BY DEF InStep, EnterLast
<1>2. Leaving = {} /\ Leaving' = Threads \ {t}
  <2>1. Leaving = {} /\ Arrived' = {} /\ R!Complete(t)
    BY EnterLastCompletes
  <2>2. at'[t] = "out" /\ \A u \in Threads \ {t} : at[u] # "out"
    <3>1. Leaving' = Arrived /\ Arrived \cup {t} = Threads /\ t \notin Arrived
      BY <2>1 DEF R!Complete, R!Inside
    <3> QED
      BY <3>1 DEF EnterLast, NotifyAll, Arrived
  <2>3. \A u \in Threads \ {t} : at'[u] # "out"
    BY <2>2 DEF EnterLast, NotifyAll
  <2>4. \A u \in Threads : u \in Leaving' <=> u # t
    BY <2>1, <2>2, <2>3 DEF Leaving, Arrived
  <2> QED
    BY <2>1, <2>4 DEF Leaving
<1>3. \A u \in Threads : crossed[u] = crossed[t]
  BY <1>1, <1>2 DEF Turns
<1>4. at'[t] = "out"
  BY DEF EnterLast, NotifyAll
<1>5. \A u \in Threads : Turns(u)' = crossed[t] + 1
  BY <1>2, <1>3, <1>4, CountedStep DEF Turns
<1> QED
  BY <1>5, CountedStep DEF InStep

(* ... a thread that returns stops leaving and is counted, and no other    *)
(* step changes a count or who is leaving.                                 *)
LEMMA ReturnInStep ==
  ASSUME IInv, InStep, NEW t \in Threads, MCStep(t), Return(t)
  PROVE  InStep'
<1>1. t \in Leaving /\ Leaving' = Leaving \ {t} /\ m_unblocked' = m_unblocked
  BY ReturnDeparts DEF Return, Leaving
<1>2. at'[t] = "out"
  BY DEF Return, IInv, TypeOK
<1>3. \A u \in Threads : Turns(u)' = Turns(u)
  BY <1>1, <1>2, CountedStep DEF Turns
<1> QED
  BY <1>1, <1>3, CountedStep DEF InStep

LEMMA WaitInStep ==
  ASSUME IInv, InStep, NEW t \in Threads, MCStep(t),
         EnterWait(t) \/ SleepAgain(t) \/ SpuriousWake(t)
  PROVE  InStep'
<1>1. Leaving' = Leaving /\ m_unblocked' = m_unblocked
  BY EnterWaitArrives, WakeUpsStutter DEF EnterWait, SleepAgain, SpuriousWake
<1>2. at'[t] # "out"
  BY DEF EnterWait, SleepAgain, SpuriousWake, IInv, TypeOK
<1>3. \A u \in Threads : Turns(u)' = Turns(u)
  BY <1>1, <1>2, CountedStep DEF Turns
<1> QED
  BY <1>1, <1>3, CountedStep DEF InStep

LEMMA StepKeepsInStep ==
  ASSUME IInv, InStep, [MCNext]_<<vars, crossed>>
  PROVE  InStep'
<1>1. CASE Unblock /\ UNCHANGED crossed
  BY <1>1 DEF InStep, Unblock
<1>2. ASSUME NEW t \in Threads, MCStep(t) PROVE InStep'
  <2>1. CASE EnterUnblocked(t)
    BY <1>2, <2>1, CountedStep DEF EnterUnblocked, InStep
  <2> QED
    BY <1>2, <2>1, EnterLastInStep, ReturnInStep, WaitInStep DEF MCStep, Step
<1>3. CASE UNCHANGED <<vars, crossed>>
  <2>1. \A t \in Threads : Turns(t)' = Turns(t)
    BY <1>3 DEF vars, Turns, Leaving, MustWait
  <2> QED
    BY <1>3, <2>1 DEF vars, InStep
<1> QED
  BY <1>1, <1>2, <1>3 DEF MCNext

(* Until it is unblocked the barrier keeps its threads in lockstep, however *)
(* many they are and however often they come: nobody comes through a wait() *)
(* that another thread has not at least reached.                           *)
THEOREM BarrierLockstep == MCSpec => []Lockstep
<1>1. MCInit => IInv /\ InStep
  <2> SUFFICES ASSUME MCInit PROVE IInv /\ InStep
    OBVIOUS
  <2>1. IInv /\ Leaving = {}
    BY InitIInv DEF MCInit, Init, Leaving
  <2> QED
    BY <2>1 DEF MCInit, InStep, Turns
<1>2. IInv /\ InStep /\ [MCNext]_<<vars, crossed>> => IInv' /\ InStep'
  <2> SUFFICES ASSUME IInv, InStep, [MCNext]_<<vars, crossed>>
               PROVE  IInv' /\ InStep'
    OBVIOUS
  <2>1. [Next]_vars
    BY MCNextIsNext
  <2> QED
    BY <2>1, StepKeepsType, StepKeepsCount, StepLosesNoWakeup,
       StepKeepsOneBehind, StepKeepsInStep DEF IInv
<1>3. InStep => Lockstep
  BY DEF InStep, Turns, Lockstep
<1> QED
  BY <1>1, <1>2, <1>3, PTL DEF MCSpec
=============================================================================
