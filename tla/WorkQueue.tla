----------------------------- MODULE WorkQueue -----------------------------
(***************************************************************************)
(* What the users of asio's scheduler (an io_service without a reactor)    *)
(* rely on: threads inside run() take the queued operations in order, each *)
(* operation once; a thread stays in run() until the scheduler is stopped  *)
(* or its operation throws; the thread that finishes the last outstanding  *)
(* work stops the scheduler.  There is no mutex here and nobody sleeps.    *)
(*                                                                         *)
(* Scheduler is the code and is shown to implement this module; ThreadPool *)
(* is shown to use it only as this module allows (Restart is the step with *)
(* a condition on the user).                                               *)
(***************************************************************************)
EXTENDS Naturals, Sequences

CONSTANTS Workers,  \* the threads that call run()
          Ops,      \* operations that may be posted
          NoOp

VARIABLES queue,        \* operations nobody has taken
          outstanding,  \* operations not finished, and Work objects
          stopped,
          phase,        \* of each worker: "out" of run(), "in" it with nothing
                        \* to do, "busy", or about to stop the scheduler and
                        \* then go on ("ending") or leave run() ("leaving")
          op            \* the operation of a busy worker

qvars == <<queue, outstanding, stopped, phase, op>>

QInit == /\ queue = <<>> /\ outstanding = 0 /\ stopped = FALSE
         /\ phase = [w \in Workers |-> "out"]
         /\ op = [w \in Workers |-> NoOp]

Post(o) == /\ queue' = Append(queue, o)
           /\ outstanding' = outstanding + 1
           /\ UNCHANGED <<stopped, phase, op>>

\* A Work object keeps the threads in run(); whoever drops the last one stops
\* the scheduler.
Hold    == outstanding' = outstanding + 1 /\ UNCHANGED <<queue, stopped, phase, op>>
Release == outstanding' = outstanding - 1 /\ UNCHANGED <<queue, stopped, phase, op>>
Stop    == stopped' = TRUE /\ UNCHANGED <<queue, outstanding, phase, op>>

\* Only while nobody is in run().
Restart == /\ \A w \in Workers : phase[w] = "out"
           /\ stopped' = FALSE
           /\ UNCHANGED <<queue, outstanding, phase, op>>

Enter(w) == /\ phase[w] = "out"
            /\ phase' = [phase EXCEPT ![w] = IF outstanding = 0 THEN "leaving" ELSE "in"]
            /\ UNCHANGED <<queue, outstanding, stopped, op>>

Take(w) == /\ phase[w] = "in" /\ ~stopped /\ queue # <<>>
           /\ op' = [op EXCEPT ![w] = Head(queue)]
           /\ queue' = Tail(queue)
           /\ phase' = [phase EXCEPT ![w] = "busy"]
           /\ UNCHANGED <<outstanding, stopped>>

Leave(w) == /\ phase[w] = "in" /\ stopped
            /\ phase' = [phase EXCEPT ![w] = "out"]
            /\ UNCHANGED <<queue, outstanding, stopped, op>>

\* The operation has ended; one that threw takes its worker out of run().
Finish(w) == /\ phase[w] = "busy"
             /\ outstanding' = outstanding - 1
             /\ op' = [op EXCEPT ![w] = NoOp]
             /\ \E threw \in BOOLEAN :
                  phase' = [phase EXCEPT ![w] =
                              IF outstanding = 1
                              THEN IF threw THEN "leaving" ELSE "ending"
                              ELSE IF threw THEN "out" ELSE "in"]
             /\ UNCHANGED <<queue, stopped>>

StopLast(w) == /\ phase[w] \in {"ending", "leaving"}
               /\ stopped' = TRUE
               /\ phase' = [phase EXCEPT ![w] = IF @ = "ending" THEN "in" ELSE "out"]
               /\ UNCHANGED <<queue, outstanding, op>>

\* What a worker does once it is inside run().
Serve(w) == Take(w) \/ Leave(w) \/ Finish(w) \/ StopLast(w)

QNext == \/ \E o \in Ops : Post(o)
         \/ Hold \/ Release \/ Stop \/ Restart
         \/ \E w \in Workers : Enter(w) \/ Serve(w)

\* The safety part ...
QSafety == QInit /\ [][QNext]_qvars

\* ... and the promise that a worker which has something to do inside run(),
\* be it to take an operation or to leave, does it.
QServes == \A w \in Workers : WF_qvars(Serve(w))
=============================================================================
