----------------------------- MODULE Rendezvous -----------------------------
(***************************************************************************)
(* What the users of a `barrier` (redist/threadbarrier.hpp) rely on, with  *)
(* no counter, generation number or condition variable.  Every thread of   *)
(* Threads waits at the rendezvous; nobody goes on before the last one has *)
(* arrived, and Cancel lets everybody through, now and from then on.       *)
(*                                                                         *)
(* ThreadPool is composed from two of these; ThreadBarrier is the code and *)
(* is shown to implement this module.                                      *)
(***************************************************************************)
CONSTANT Threads

VARIABLES arrived,   \* threads that wait for the others
          leaving,   \* threads that may go on and have not returned yet
          open       \* the rendezvous has been cancelled

rvars == <<arrived, leaving, open>>

Inside == arrived \cup leaving

RTypeOK == /\ arrived \in SUBSET Threads
           /\ leaving \in SUBSET Threads
           /\ arrived \cap leaving = {}
           /\ open \in BOOLEAN

RInit == arrived = {} /\ leaving = {} /\ open = FALSE

\* t calls wait() and is not the last: it has to wait.
Arrive(t) == /\ ~open
             /\ t \notin Inside
             /\ arrived \cup {t} # Threads
             /\ arrived' = arrived \cup {t}
             /\ UNCHANGED <<leaving, open>>

\* t calls wait() and is the last: it goes on at once, the others may follow.
Complete(t) == /\ ~open
               /\ t \notin Inside
               /\ arrived \cup {t} = Threads
               /\ arrived' = {}
               /\ leaving' = leaving \cup arrived
               /\ UNCHANGED open

\* t calls wait() on a cancelled rendezvous and goes on at once.
Pass(t) == open /\ t \notin Inside /\ UNCHANGED rvars

\* t returns from wait().
Depart(t) == /\ t \in leaving
             /\ leaving' = leaving \ {t}
             /\ UNCHANGED <<arrived, open>>

Cancel == /\ open' = TRUE
          /\ arrived' = {}
          /\ leaving' = Inside

RNext == Cancel \/ \E t \in Threads : \/ Arrive(t) \/ Complete(t)
                                      \/ Pass(t)   \/ Depart(t)

\* The safety part, which ThreadBarrier is proved to implement, ...
RSafety == RInit /\ [][RNext]_rvars

\* ... and with it the promise that a thread that may return does return.
RSpec == RSafety /\ \A t \in Threads : WF_rvars(Depart(t))
=============================================================================
