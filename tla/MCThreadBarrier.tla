--------------------------- MODULE MCThreadBarrier ---------------------------
(* ThreadBarrier with a history variable for TLC: how many times each      *)
(* thread has come through wait().                                         *)
EXTENDS ThreadBarrier

CONSTANT MaxCrossings   \* bound: no thread calls wait() more often

VARIABLE crossed

MCInit == Init /\ crossed = [t \in Threads |-> 0]

MCStep(t) ==
  /\ crossed[t] < MaxCrossings
  /\ Step(t)
  /\ crossed' = [crossed EXCEPT ![t] = IF at'[t] = "out" THEN @ + 1 ELSE @]

MCNext == \/ Unblock /\ UNCHANGED crossed
          \/ \E t \in Threads : MCStep(t)

\* Whoever is inside has come through less than MaxCrossings times, so that
\* the bound never keeps a thread from returning.
MCFairness == \A t \in Threads : WF_<<vars, crossed>>(MCStep(t) /\ Return(t))

MCSpec == MCInit /\ [][MCNext]_<<vars, crossed>> /\ MCFairness

(* Until it is unblocked the barrier keeps its threads in lockstep: nobody *)
(* comes through a wait() that another thread has not at least reached, so *)
(* no two threads are ever more than one wait() apart.                     *)
Lockstep ==
  ~m_unblocked => \A t, u \in Threads : crossed[t] <= crossed[u] + 1
=============================================================================
