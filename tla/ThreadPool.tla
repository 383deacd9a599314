----------------------------- MODULE ThreadPool -----------------------------
(***************************************************************************)
(* class ThreadPool of vc2hqencode/ThreadPool.hpp: workers that run _run() *)
(* and the thread of the encoder ("main") that calls                       *)
(*                                                                         *)
(*     ready(); post(f) ... post(f); execute();          a round, or       *)
(*     stop();                                           the end           *)
(*                                                                         *)
(* on it, over the part of asio's io_service they use: op_queue_,          *)
(* outstanding_work_ and stopped_ of detail::scheduler.  The two barriers  *)
(* are Rendezvous, which ThreadBarrier implements.  A worker that finds    *)
(* the queue empty waits on asio's event until there is a job or the       *)
(* scheduler is stopped; here its step is not enabled until then.          *)
(*                                                                         *)
(* A job is <<round, number>>.  It is the encoder's code: it ends, or it   *)
(* throws.                                                                 *)
(***************************************************************************)
EXTENDS Naturals, Sequences, FiniteSets

CONSTANTS Workers, main,
          NJobs,       \* jobs posted in a round
          MaxRounds    \* bound: rounds main starts before it stops the pool

ASSUME PoolAssumption == /\ IsFiniteSet(Workers) /\ Workers # {}
                         /\ main \notin Workers
                         /\ NJobs \in Nat /\ MaxRounds \in Nat

Threads == Workers \cup {main}
Rounds  == 1 .. MaxRounds
JobIds  == Rounds \X (1 .. NJobs)

VARIABLES
  op_queue, outstanding_work, stopped,   \* asio::detail::scheduler
  work,         \* ThreadPool::work: null, a live Work, or not yet assigned
  stop_flag,    \* ThreadPool::_stop
  exceptions,   \* ThreadPool::exceptions
  pc,           \* the next step of each thread
  job,          \* the job a worker executes
  threw,        \* the job that a worker has just left threw
  startArrived, startLeaving, startOpen,   \* start_barrier
  stopArrived,  stopLeaving,  stopOpen,    \* stop_barrier
  round,        \* history: rounds started
  posted,       \* jobs posted in this round
  done,         \* history: jobs that ended, with the round that ran them
  failed,       \* history: jobs that threw, with the round that ran them
  result        \* history: what execute() returned in each round

scheduler  == <<op_queue, outstanding_work, stopped>>
startVars  == <<startArrived, startLeaving, startOpen>>
stopVars   == <<stopArrived, stopLeaving, stopOpen>>
history    == <<round, posted, done, failed, result>>
poolFields == <<work, stop_flag, exceptions>>
locals     == <<job, threw>>
vars == <<scheduler, startVars, stopVars, poolFields, pc, locals, history>>

Start == INSTANCE Rendezvous WITH
           arrived <- startArrived, leaving <- startLeaving, open <- startOpen
Stop  == INSTANCE Rendezvous WITH
           arrived <- stopArrived, leaving <- stopLeaving, open <- stopOpen

NoJob == <<0, 0>>

Init == /\ op_queue = <<>> /\ outstanding_work = 0 /\ stopped = FALSE
        /\ work \in {"null", "unassigned"}   \* no constructor sets it
        /\ stop_flag = FALSE /\ exceptions = 0
        /\ pc = [t \in Threads |-> IF t = main THEN "idle" ELSE "start"]
        /\ job = [w \in Workers |-> NoJob]
        /\ threw = [w \in Workers |-> FALSE]
        /\ Start!RInit /\ Stop!RInit
        /\ round = 0 /\ posted = 0 /\ done = {} /\ failed = {}
        /\ result = <<>>

At(t, l) == pc[t] = l
Go(t, l) == pc' = [pc EXCEPT ![t] = l]

\* t is in a barrier's wait() and goes on at l when it returns.
StartWait(t, l) == /\ \/ Start!Arrive(t) /\ UNCHANGED pc
                      \/ Start!Complete(t) /\ Go(t, l)
                      \/ Start!Pass(t) /\ Go(t, l)
                      \/ Start!Depart(t) /\ Go(t, l)
                   /\ UNCHANGED <<scheduler, stopVars, poolFields, locals>>

StopWait(t, l) == /\ \/ Stop!Arrive(t) /\ UNCHANGED pc
                     \/ Stop!Complete(t) /\ Go(t, l)
                     \/ Stop!Pass(t) /\ Go(t, l)
                     \/ Stop!Depart(t) /\ Go(t, l)
                  /\ UNCHANGED <<scheduler, startVars, poolFields, locals>>

-----------------------------------------------------------------------------
\* _run(), the workers

WaitForStart(w) == /\ At(w, "start")
                   /\ StartWait(w, "check start")
                   /\ UNCHANGED history

\* `if (_stop) return;`, three times in the loop
CheckStop(w) == /\ \/ At(w, "check start") /\ Go(w, IF stop_flag THEN "exited" ELSE "run")
                   \/ At(w, "check run")   /\ Go(w, IF stop_flag THEN "exited" ELSE "stop")
                   \/ At(w, "check stop")  /\ Go(w, IF stop_flag THEN "exited" ELSE "start")
                /\ UNCHANGED <<scheduler, startVars, stopVars, poolFields, locals, history>>

\* io_service::run(): nothing outstanding means stop and return
Run(w) == /\ At(w, "run")
          /\ Go(w, IF outstanding_work = 0 THEN "stop scheduler" ELSE "loop")
          /\ UNCHANGED <<scheduler, startVars, stopVars, poolFields, locals, history>>

\* do_run_one(): take a job ...
TakeJob(w) == /\ At(w, "loop")
              /\ ~stopped /\ op_queue # <<>>
              /\ op_queue' = Tail(op_queue)
              /\ job' = [job EXCEPT ![w] = Head(op_queue)]
              /\ Go(w, "execute")
              /\ UNCHANGED <<outstanding_work, stopped, startVars, stopVars, poolFields, threw, history>>

\* Mutant: poll(), which does not wait for jobs, instead of run().
LeaveRun_Poll(w) == /\ At(w, "loop")
                    /\ stopped \/ op_queue = <<>>
                    /\ Go(w, "check run")
                    /\ UNCHANGED <<scheduler, startVars, stopVars, poolFields, locals, history>>

\* ... or leave run() because the scheduler has been stopped.
LeaveRun(w) == /\ At(w, "loop")
               /\ stopped
               /\ Go(w, "check run")
               /\ UNCHANGED <<scheduler, startVars, stopVars, poolFields, locals, history>>

\* o->complete(): the job runs to its end or throws
RunJob(w) == /\ At(w, "execute")
             /\ \/ /\ done' = done \cup {<<job[w], round>>}
                   /\ threw' = [threw EXCEPT ![w] = FALSE]
                   /\ UNCHANGED failed
                \/ /\ failed' = failed \cup {<<job[w], round>>}
                   /\ threw' = [threw EXCEPT ![w] = TRUE]
                   /\ UNCHANGED done
             /\ Go(w, "finish")
             /\ UNCHANGED <<scheduler, startVars, stopVars, poolFields, job, round, posted, result>>

\* Where a worker goes on after a job: an exception leaves run().
AfterJob(w) == IF threw[w] THEN "caught" ELSE "loop"

\* Bugs to look for: an exception skips work_finished(); the last one is the one
\* that leaves the queue empty.
FinishJob_NotOnThrow(w) ==
  /\ At(w, "finish")
  /\ outstanding_work' = IF threw[w] THEN outstanding_work ELSE outstanding_work - 1
  /\ job' = [job EXCEPT ![w] = NoJob]
  /\ Go(w, IF outstanding_work' = 0 THEN "last job" ELSE AfterJob(w))
  /\ UNCHANGED <<op_queue, stopped, startVars, stopVars, poolFields, threw, history>>
FinishJob_WhenEmpty(w) ==
  /\ At(w, "finish")
  /\ outstanding_work' = outstanding_work - 1
  /\ job' = [job EXCEPT ![w] = NoJob]
  /\ Go(w, IF op_queue = <<>> THEN "last job" ELSE AfterJob(w))
  /\ UNCHANGED <<op_queue, stopped, startVars, stopVars, poolFields, threw, history>>

\* work_cleanup, whichever way the job ended: work_finished()
FinishJob(w) == /\ At(w, "finish")
                /\ outstanding_work' = outstanding_work - 1
                /\ job' = [job EXCEPT ![w] = NoJob]
                /\ Go(w, IF outstanding_work = 1 THEN "last job" ELSE AfterJob(w))
                /\ UNCHANGED <<op_queue, stopped, startVars, stopVars, poolFields, threw, history>>

\* scheduler::stop(), called by a worker
StopScheduler(w) == /\ \/ At(w, "last job") /\ Go(w, AfterJob(w))
                       \/ At(w, "stop scheduler") /\ Go(w, "check run")
                    /\ stopped' = TRUE
                    /\ UNCHANGED <<op_queue, outstanding_work, startVars, stopVars, poolFields, locals, history>>

\* catch(...) { ++exceptions; }
Catch(w) == /\ At(w, "caught")
            /\ exceptions' = exceptions + 1
            /\ Go(w, "check run")
            /\ UNCHANGED <<scheduler, startVars, stopVars, work, stop_flag, locals, history>>

WaitForStop(w) == /\ At(w, "stop")
                  /\ StopWait(w, "check stop")
                  /\ UNCHANGED history

Worker(w) == \/ WaitForStart(w) \/ CheckStop(w) \/ Run(w) \/ TakeJob(w) \/ LeaveRun(w)
             \/ RunJob(w) \/ FinishJob(w) \/ StopScheduler(w) \/ Catch(w) \/ WaitForStop(w)

-----------------------------------------------------------------------------
\* ready()

BeginRound_KeepCount ==                        \* mutant: exceptions not reset
  /\ At(main, "idle") /\ round < MaxRounds
  /\ round' = round + 1 /\ posted' = 0
  /\ Go(main, "reset")
  /\ UNCHANGED <<scheduler, startVars, stopVars, poolFields, locals, done, failed, result>>

BeginRound == /\ At(main, "idle")
              /\ round < MaxRounds
              /\ exceptions' = 0
              /\ round' = round + 1
              /\ posted' = 0
              /\ Go(main, "reset")
              /\ UNCHANGED <<scheduler, startVars, stopVars, work, stop_flag, locals, done, failed, result>>

Reset_Not == /\ At(main, "reset")              \* mutant: no m_io_service.reset()
             /\ Go(main, "new work")
             /\ UNCHANGED <<scheduler, startVars, stopVars, poolFields, locals, history>>

Reset == /\ At(main, "reset")
         /\ stopped' = FALSE
         /\ Go(main, "new work")
         /\ UNCHANGED <<op_queue, outstanding_work, startVars, stopVars, poolFields, locals, history>>

NewWork == /\ At(main, "new work")
           /\ work' = "live"
           /\ outstanding_work' = outstanding_work + 1
           /\ Go(main, "release")
           /\ UNCHANGED <<op_queue, stopped, startVars, stopVars, stop_flag, exceptions, locals, history>>

ReleaseWorkers == /\ At(main, "release")
                  /\ StartWait(main, "post")
                  /\ UNCHANGED history

\* post(f): work_started(), then the push; work is live, so nothing can see
\* the count between the two.
Post == /\ At(main, "post")
        /\ posted < NJobs
        /\ posted' = posted + 1
        /\ op_queue' = Append(op_queue, <<round, posted + 1>>)
        /\ outstanding_work' = outstanding_work + 1
        /\ UNCHANGED <<stopped, startVars, stopVars, poolFields, pc, locals, round, done, failed, result>>

\* execute(): `delete work` is work_finished(), then wait, then the result

DeleteWork == /\ At(main, "post")
              /\ posted = NJobs
              /\ outstanding_work' = outstanding_work - 1
              /\ work' = "null"
              /\ Go(main, IF outstanding_work = 1 THEN "stop scheduler" ELSE "collect")
              /\ UNCHANGED <<op_queue, stopped, startVars, stopVars, stop_flag, exceptions, locals, history>>

MainStopsScheduler == /\ At(main, "stop scheduler")
                      /\ stopped' = TRUE
                      /\ Go(main, "collect")
                      /\ UNCHANGED <<op_queue, outstanding_work, startVars, stopVars, poolFields, locals, history>>

WaitForWorkers_Not == /\ At(main, "collect")   \* mutant: no stop_barrier.wait()
                      /\ Go(main, "return")
                      /\ UNCHANGED <<scheduler, startVars, stopVars, poolFields, locals, history>>

WaitForWorkers == /\ At(main, "collect")
                  /\ StopWait(main, "return")
                  /\ UNCHANGED history

ReturnExceptions == /\ At(main, "return")
                    /\ result' = Append(result, exceptions)
                    /\ Go(main, "idle")
                    /\ UNCHANGED <<scheduler, startVars, stopVars, poolFields, locals, round, posted, done, failed>>

-----------------------------------------------------------------------------
\* stop(), between rounds

SetStop == /\ At(main, "idle")
           /\ stop_flag' = TRUE
           /\ Go(main, "unblock start")
           /\ UNCHANGED <<scheduler, startVars, stopVars, work, exceptions, locals, history>>

UnblockStart_Not == /\ At(main, "unblock start")  \* mutant: no start_barrier.unblock()
                    /\ Go(main, "unblock stop")
                    /\ UNCHANGED <<scheduler, startVars, stopVars, poolFields, locals, history>>

UnblockStart == /\ At(main, "unblock start")
                /\ Start!Cancel
                /\ Go(main, "unblock stop")
                /\ UNCHANGED <<scheduler, stopVars, poolFields, locals, history>>

UnblockStop == /\ At(main, "unblock stop")
               /\ Stop!Cancel
               /\ Go(main, "drop work")
               /\ UNCHANGED <<scheduler, startVars, poolFields, locals, history>>

\* `if (work) delete work;` with a pointer nobody assigned may be harmless
\* (it happens to be null) or end the program.
DropWork == /\ At(main, "drop work")
            /\ \/ Go(main, "stop service")
               \/ work = "unassigned" /\ Go(main, "crashed")
            /\ UNCHANGED <<scheduler, startVars, stopVars, poolFields, locals, history>>

StopService == /\ At(main, "stop service")
               /\ stopped' = TRUE
               /\ Go(main, "join")
               /\ UNCHANGED <<op_queue, outstanding_work, startVars, stopVars, poolFields, locals, history>>

JoinAll == /\ At(main, "join")
           /\ \A w \in Workers : At(w, "exited")
           /\ Go(main, "stopped")
           /\ UNCHANGED <<scheduler, startVars, stopVars, poolFields, locals, history>>

\* What main does inside ready(), its posts, execute() and stop() ...
MainInCall == \/ Reset \/ NewWork \/ ReleaseWorkers \/ Post \/ DeleteWork
              \/ MainStopsScheduler \/ WaitForWorkers \/ ReturnExceptions
              \/ UnblockStart \/ UnblockStop \/ DropWork \/ StopService \/ JoinAll

\* ... and what it does of its own accord: start a round, or the end.
Main == BeginRound \/ SetStop \/ MainInCall

\* The end: the pool is gone, or the program is.
Over == (At(main, "stopped") \/ At(main, "crashed")) /\ UNCHANGED vars

Next == Over \/ Main \/ \E w \in Workers : Worker(w)

Spec == Init /\ [][Next]_vars

\* Threads are scheduled fairly, a wait() that may return does (EveryoneReleased
\* of ThreadBarrier), and the encoder's jobs are finite.  Main need not start
\* another round but, once in a round or in stop(), it goes on.
Fairness == /\ \A w \in Workers : WF_vars(Worker(w))
            /\ WF_vars(MainInCall)

FairSpec == Spec /\ Fairness

-----------------------------------------------------------------------------
WorkerPCs == {"start", "check start", "run", "loop", "execute", "finish",
              "last job", "stop scheduler", "caught", "check run", "stop",
              "check stop", "exited"}
MainPCs == {"idle", "reset", "new work", "release", "post", "stop scheduler",
            "collect", "return", "unblock start", "unblock stop", "drop work",
            "stop service", "join", "stopped", "crashed"}

TypeOK == /\ op_queue \in Seq(JobIds)
          /\ outstanding_work \in Nat
          /\ stopped \in BOOLEAN
          /\ work \in {"null", "live", "unassigned"}
          /\ stop_flag \in BOOLEAN
          /\ exceptions \in Nat
          /\ pc \in [Threads -> WorkerPCs \cup MainPCs]
          /\ pc[main] \in MainPCs
          /\ \A w \in Workers : pc[w] \in WorkerPCs
          /\ job \in [Workers -> JobIds \cup {NoJob}]
          /\ threw \in [Workers -> BOOLEAN]
          /\ Start!RTypeOK /\ Stop!RTypeOK
          /\ round \in 0 .. MaxRounds
          /\ posted \in 0 .. NJobs
          /\ done \subseteq JobIds \X Rounds
          /\ failed \subseteq JobIds \X Rounds
          /\ result \in Seq(Nat)

InRun(w) == pc[w] \in {"check start", "run", "loop", "execute", "finish", "last job",
                       "stop scheduler", "caught", "check run"}

\* w takes part in the round: it is past the start barrier, and the stop
\* barrier has not let it go.
InRound(w) == InRun(w) \/ (At(w, "stop") /\ w \notin stopLeaving)

BetweenRounds == pc[main] \in {"idle", "reset", "new work"}

(* Between execute() and the next ready(), and while ready() prepares the  *)
(* scheduler, no worker is in run(): reset() never meets a running         *)
(* scheduler, and main alone touches what the jobs share.                  *)
Quiescent == BetweenRounds => \A w \in Workers : ~InRound(w)

(* outstanding_work_ counts the queued jobs, the jobs in execution and the *)
(* Work object, also when jobs throw.                                      *)
Accounting ==
  outstanding_work = Len(op_queue)
                     + Cardinality({w \in Workers : pc[w] \in {"execute", "finish"}})
                     + (IF work = "live" THEN 1 ELSE 0)

(* In a round the scheduler is stopped only when all its jobs are done and *)
(* no more can come: no worker leaves run() early.                         *)
StoppedMeansDone ==
  stopped /\ ~stop_flag /\ pc[main] \in {"new work", "release", "post", "collect"}
     => outstanding_work = 0

\* The jobs of round r that ran in it.
RanIn(r) == {j \in 1 .. NJobs : <<<<r, j>>, r>> \in done \cup failed}

(* execute() reports fewer failures than there are workers only when every *)
(* job posted in the round has run in it.  (When every worker has caught   *)
(* an exception nobody is left to empty the queue.)                        *)
RoundComplete ==
  \A r \in 1 .. Len(result) : result[r] # Cardinality(Workers)
                                => RanIn(r) = 1 .. NJobs

(* execute() returns the number of jobs that threw in that round.          *)
ResultCountsFailures ==
  \A r \in 1 .. Len(result) :
    result[r] = Cardinality({f \in failed : f[2] = r})

(* A job runs in a later round than its own only after a round in which    *)
(* every worker had caught an exception.                                   *)
NoStrangers ==
  \A w \in Workers : At(w, "execute") /\ job[w][1] # round
                        => result[job[w][1]] = Cardinality(Workers)

(* stop() deletes a pointer that was never assigned only in a pool that    *)
(* was never used; after a round the pointer is null.                      *)
CrashOnlyUnused == At(main, "crashed") => round = 0

\* A worker's phase in run() as WorkQueue has it.
Phase(w) == CASE At(w, "loop") -> "in"
              [] pc[w] \in {"execute", "finish"} -> "busy"
              [] At(w, "last job") -> IF threw[w] THEN "leaving" ELSE "ending"
              [] At(w, "stop scheduler") -> "leaving"
              [] OTHER -> "out"

Queue == INSTANCE WorkQueue WITH
           Ops <- JobIds, NoOp <- NoJob,
           queue <- op_queue, outstanding <- outstanding_work, stopped <- stopped,
           phase <- [w \in Workers |-> Phase(w)], op <- job

(* The pool uses the scheduler only as its contract allows, in whatever    *)
(* order its threads come: it restarts it when nobody is in run(), and     *)
(* what its workers meet in run() is what asio's scheduler (Scheduler,     *)
(* shown to implement the same contract) does.                             *)
UsesWorkQueue == Queue!QSafety

(* Every round comes to its end: execute() returns.                        *)
ExecuteReturns == At(main, "reset") ~> At(main, "idle")

(* stop() comes to its end, all workers joined (or the program has ended). *)
StopReturns == At(main, "unblock start") ~> (At(main, "stopped") \/ At(main, "crashed"))
=============================================================================
