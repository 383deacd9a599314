--------------------------- MODULE ThreadPoolProofs ---------------------------
(***************************************************************************)
(* ThreadPool, for every number of workers, jobs and rounds.  There are    *)
(* five invariants, each of them inductive with the help of those before   *)
(* it: whose work is outstanding, the phases of the pool, why the          *)
(* scheduler is stopped, what becomes of the jobs of a round, and that no  *)
(* job runs twice.                                                         *)
(***************************************************************************)
EXTENDS ThreadPool, FiniteSetTheorems, SequenceTheorems, TLAPS

USE PoolAssumption

\* 1. Types, and whose work is outstanding.
WorkLive == work = "live" <=> pc[main] \in {"release", "post"}

SinceRound == (1 .. round) \X (1 .. NJobs)

JobsKnown == /\ \A n \in 1 .. Len(op_queue) : op_queue[n] \in SinceRound
             /\ \A w \in Workers : pc[w] \in {"execute", "finish"} => job[w] \in SinceRound
             /\ pc[main] \in {"reset", "new work", "release", "post", "stop scheduler", "collect", "return"}
                   => round > 0

UnassignedUnused == /\ work = "unassigned" => round = 0 \/ pc[main] \in {"reset", "new work"}
                    /\ pc[main] = "crashed" => round = 0

WorkInv == TypeOK /\ WorkLive /\ JobsKnown /\ Accounting /\ UnassignedUnused

\* 2. The phases of the pool: the workers rest, are in a round, or the pool
\* comes to its end.
Resting == \/ pc[main] \in {"idle", "reset", "new work", "return"}
           \/ pc[main] = "release" /\ main \notin startLeaving
           \/ pc[main] = "collect" /\ main \in stopLeaving
Busy    == \/ pc[main] \in {"post", "stop scheduler"}
           \/ pc[main] = "release" /\ main \in startLeaving
           \/ pc[main] = "collect" /\ main \notin stopLeaving
Ending  == pc[main] \in {"unblock start", "unblock stop", "drop work", "stop service",
                         "join", "stopped", "crashed"}

Rests(w)   == \/ At(w, "start") /\ w \notin startLeaving
              \/ At(w, "stop") /\ w \in stopLeaving
              \/ At(w, "check stop")
IsBusy(w)  == \/ At(w, "start") /\ w \in startLeaving
              \/ At(w, "stop") /\ w \notin stopLeaving
              \/ InRun(w)
IsEnding(w) == \/ pc[w] \in {"start", "check start", "check stop", "exited"}
               \/ At(w, "stop") /\ w \in stopLeaving

Phases ==
  /\ \A w \in Workers : w \in startArrived \cup startLeaving => At(w, "start")
  /\ \A w \in Workers : w \in stopArrived \cup stopLeaving => At(w, "stop")
  /\ main \in startArrived \cup startLeaving => At(main, "release")
  /\ main \in stopArrived \cup stopLeaving => At(main, "collect")
  /\ startOpen <=> Ending /\ ~At(main, "unblock start")
  /\ stopOpen => Ending
  /\ stop_flag <=> Ending
  /\ Resting => \A w \in Workers : Rests(w)
  /\ Busy => \A w \in Workers : IsBusy(w)
  /\ Ending => \A w \in Workers : IsEnding(w)

\* 3. Who stops the scheduler does it because nothing is outstanding.
StopInv ==
  /\ \A t \in Threads : pc[t] \in {"last job", "stop scheduler"} => outstanding_work = 0
  /\ stopped /\ pc[main] \notin {"join", "stopped"} => outstanding_work = 0
  /\ At(main, "new work") => ~stopped
-----------------------------------------------------------------------------
\* The parts of TypeOK, each of which few actions touch.

PcOK == /\ pc \in [Threads -> WorkerPCs \cup MainPCs]
        /\ pc[main] \in MainPCs
        /\ \A w \in Workers : pc[w] \in WorkerPCs
SchedulerOK == op_queue \in Seq(JobIds) /\ outstanding_work \in Nat /\ stopped \in BOOLEAN
PoolOK == work \in {"null", "live", "unassigned"} /\ stop_flag \in BOOLEAN /\ exceptions \in Nat
LocalsOK == job \in [Workers -> JobIds \cup {NoJob}] /\ threw \in [Workers -> BOOLEAN]
HistoryOK == /\ round \in 0 .. MaxRounds /\ posted \in 0 .. NJobs
             /\ done \subseteq JobIds \X Rounds /\ failed \subseteq JobIds \X Rounds
             /\ result \in Seq(Nat)

LEMMA TypeParts ==
  TypeOK => /\ PcOK /\ SchedulerOK /\ PoolOK /\ LocalsOK /\ HistoryOK
            /\ Start!RTypeOK /\ Stop!RTypeOK
<1> SUFFICES ASSUME TypeOK
             PROVE  /\ PcOK /\ SchedulerOK /\ PoolOK /\ LocalsOK /\ HistoryOK
                    /\ Start!RTypeOK /\ Stop!RTypeOK
  OBVIOUS
<1>1. PcOK
  BY DEF TypeOK, PcOK
<1>2. SchedulerOK /\ PoolOK
  BY Zenon DEF TypeOK, SchedulerOK, PoolOK
<1>3. LocalsOK /\ HistoryOK
  BY Zenon DEF TypeOK, LocalsOK, HistoryOK
<1> QED
  BY <1>1, <1>2, <1>3, Zenon DEF TypeOK

LEMMA TypeFromParts ==
  ASSUME PcOK, SchedulerOK, PoolOK, LocalsOK, HistoryOK, Start!RTypeOK, Stop!RTypeOK
  PROVE  TypeOK
BY Zenon DEF TypeOK, PcOK, SchedulerOK, PoolOK, LocalsOK, HistoryOK

LEMMA TypeFromPartsNext ==
  ASSUME PcOK', SchedulerOK', PoolOK', LocalsOK', HistoryOK', Start!RTypeOK', Stop!RTypeOK'
  PROVE  TypeOK'
BY Zenon DEF TypeOK, PcOK, SchedulerOK, PoolOK, LocalsOK, HistoryOK

LEMMA Unchanging ==
  /\ SchedulerOK /\ UNCHANGED scheduler => SchedulerOK'
  /\ PoolOK /\ UNCHANGED poolFields => PoolOK'
  /\ LocalsOK /\ UNCHANGED locals => LocalsOK'
  /\ HistoryOK /\ UNCHANGED history => HistoryOK'
  /\ Start!RTypeOK /\ UNCHANGED startVars => Start!RTypeOK'
  /\ Stop!RTypeOK /\ UNCHANGED stopVars => Stop!RTypeOK'
<1>1. SchedulerOK /\ UNCHANGED scheduler => SchedulerOK'
  BY DEF SchedulerOK, scheduler
<1>2. PoolOK /\ UNCHANGED poolFields => PoolOK'
  BY DEF PoolOK, poolFields
<1>3. LocalsOK /\ UNCHANGED locals => LocalsOK'
  BY DEF LocalsOK, locals
<1>4. HistoryOK /\ UNCHANGED history => HistoryOK'
  BY DEF HistoryOK, history
<1>5. Start!RTypeOK /\ UNCHANGED startVars => Start!RTypeOK'
  BY DEF Start!RTypeOK, startVars
<1>6. Stop!RTypeOK /\ UNCHANGED stopVars => Stop!RTypeOK'
  BY DEF Stop!RTypeOK, stopVars
<1> QED
  BY <1>1, <1>2, <1>3, <1>4, <1>5, <1>6

(* A step of one thread to a label of its own keeps the type of pc, and     *)
(* touches no other thread's label.                                         *)
LEMMA WorkerGoes ==
  ASSUME PcOK, NEW w \in Workers, NEW l \in WorkerPCs, Go(w, l)
  PROVE  /\ PcOK' /\ pc'[w] = l
         /\ \A t \in Threads : t # w => pc'[t] = pc[t]
BY DEF PcOK, Go, Threads

LEMMA MainGoes ==
  ASSUME PcOK, NEW l \in MainPCs, Go(main, l)
  PROVE  /\ PcOK' /\ pc'[main] = l
         /\ \A t \in Threads : t # main => pc'[t] = pc[t]
BY DEF PcOK, Go, Threads

(* A thread in a barrier's wait() either stays or goes on; the barrier      *)
(* keeps its type.                                                          *)
LEMMA StartWaitTypes ==
  ASSUME Start!RTypeOK, NEW t \in Threads, NEW l, StartWait(t, l)
  PROVE  /\ Start!RTypeOK' /\ UNCHANGED scheduler /\ UNCHANGED stopVars
         /\ UNCHANGED poolFields /\ UNCHANGED locals
         /\ UNCHANGED pc \/ Go(t, l)
BY DEF StartWait, Start!RTypeOK, Start!Arrive, Start!Complete, Start!Pass,
       Start!Depart, Start!Inside, Start!rvars

LEMMA StopWaitTypes ==
  ASSUME Stop!RTypeOK, NEW t \in Threads, NEW l, StopWait(t, l)
  PROVE  /\ Stop!RTypeOK' /\ UNCHANGED scheduler /\ UNCHANGED startVars
         /\ UNCHANGED poolFields /\ UNCHANGED locals
         /\ UNCHANGED pc \/ Go(t, l)
BY DEF StopWait, Stop!RTypeOK, Stop!Arrive, Stop!Complete, Stop!Pass,
       Stop!Depart, Stop!Inside, Stop!rvars

(* What a step of a worker does to the types.                               *)
LEMMA WorkerTypes ==
  ASSUME TypeOK, JobsKnown, NEW w \in Workers, Worker(w),
         At(w, "finish") => outstanding_work > 0
  PROVE  TypeOK'
<1>0. /\ PcOK /\ SchedulerOK /\ PoolOK /\ LocalsOK /\ HistoryOK
      /\ Start!RTypeOK /\ Stop!RTypeOK /\ w \in Threads
  BY TypeParts DEF Threads
<1>1. CASE WaitForStart(w)
  <2>1. PcOK'
    BY <1>0, <1>1, StartWaitTypes, WorkerGoes DEF WaitForStart, WorkerPCs, PcOK
  <2>2. /\ Start!RTypeOK' /\ UNCHANGED scheduler /\ UNCHANGED stopVars
        /\ UNCHANGED poolFields /\ UNCHANGED locals /\ UNCHANGED history
    BY <1>0, <1>1, StartWaitTypes DEF WaitForStart
  <2> QED
    BY <1>0, <2>1, <2>2, Unchanging, TypeFromPartsNext
<1>2. CASE CheckStop(w)
  <2>1. PcOK'
    BY <1>0, <1>2, WorkerGoes DEF CheckStop, WorkerPCs
  <2>2. /\ UNCHANGED scheduler /\ UNCHANGED startVars /\ UNCHANGED stopVars
        /\ UNCHANGED poolFields /\ UNCHANGED locals /\ UNCHANGED history
    BY <1>2 DEF CheckStop
  <2> QED
    BY <1>0, <2>1, <2>2, Unchanging, TypeFromPartsNext
<1>3. CASE Run(w) \/ LeaveRun(w)
  <2>1. PcOK'
    BY <1>0, <1>3, WorkerGoes DEF Run, LeaveRun, WorkerPCs
  <2>2. /\ UNCHANGED scheduler /\ UNCHANGED startVars /\ UNCHANGED stopVars
        /\ UNCHANGED poolFields /\ UNCHANGED locals /\ UNCHANGED history
    BY <1>3 DEF Run, LeaveRun
  <2> QED
    BY <1>0, <2>1, <2>2, Unchanging, TypeFromPartsNext
<1>4. CASE TakeJob(w)
  <2>1. PcOK'
    BY <1>0, <1>4, WorkerGoes DEF TakeJob, WorkerPCs
  <2>2. /\ UNCHANGED startVars /\ UNCHANGED stopVars
        /\ UNCHANGED poolFields /\ UNCHANGED history /\ UNCHANGED threw
        /\ UNCHANGED outstanding_work /\ UNCHANGED stopped
    BY <1>4 DEF TakeJob
  <2>3. Head(op_queue) \in JobIds /\ Tail(op_queue) \in Seq(JobIds)
    BY <1>0, <1>4, HeadTailProperties DEF TakeJob, SchedulerOK
  <2>4. SchedulerOK'
    BY <1>0, <1>4, <2>2, <2>3 DEF TakeJob, SchedulerOK
  <2>5. LocalsOK'
    BY <1>0, <1>4, <2>2, <2>3 DEF TakeJob, LocalsOK
  <2> QED
    BY <1>0, <2>1, <2>2, <2>4, <2>5, Unchanging, TypeFromPartsNext
<1>5. CASE RunJob(w)
  <2>1. PcOK'
    BY <1>0, <1>5, WorkerGoes DEF RunJob, WorkerPCs
  <2>2. /\ UNCHANGED scheduler /\ UNCHANGED startVars /\ UNCHANGED stopVars
        /\ UNCHANGED poolFields /\ UNCHANGED <<job, round, posted, result>>
    BY <1>5 DEF RunJob
  <2>3. job[w] \in SinceRound
    BY <1>5 DEF RunJob, At, JobsKnown
  <2>4. <<job[w], round>> \in JobIds \X Rounds
    BY <1>0, <2>3 DEF SinceRound, HistoryOK, JobIds, Rounds
  <2>5. LocalsOK'
    BY <1>0, <1>5, <2>2 DEF RunJob, LocalsOK
  <2>6. done' \subseteq JobIds \X Rounds /\ failed' \subseteq JobIds \X Rounds
    BY <1>0, <1>5, <2>4 DEF RunJob, HistoryOK
  <2>7. HistoryOK'
    BY <1>0, <2>2, <2>6 DEF HistoryOK
  <2> QED
    BY <1>0, <2>1, <2>2, <2>5, <2>7, Unchanging, TypeFromPartsNext
<1>6. CASE FinishJob(w)
  <2>1. PcOK'
    BY <1>0, <1>6, WorkerGoes DEF FinishJob, AfterJob, WorkerPCs
  <2>2. /\ UNCHANGED startVars /\ UNCHANGED stopVars /\ UNCHANGED poolFields
        /\ UNCHANGED history /\ UNCHANGED <<op_queue, stopped, threw>>
    BY <1>6 DEF FinishJob
  <2>3. outstanding_work' \in Nat
    <3>1. /\ outstanding_work \in Nat /\ outstanding_work > 0
          /\ outstanding_work' = outstanding_work - 1
      BY <1>0, <1>6, Zenon DEF FinishJob, SchedulerOK
    <3> QED
      BY <3>1
  <2>5. SchedulerOK'
    BY <1>0, <2>2, <2>3, Zenon DEF SchedulerOK
  <2>4. LocalsOK'
    BY <1>0, <1>6, <2>2 DEF FinishJob, LocalsOK
  <2> QED
    BY <1>0, <2>1, <2>2, <2>4, <2>5, Unchanging, TypeFromPartsNext
<1>7. CASE StopScheduler(w)
  <2>1. PcOK'
    BY <1>0, <1>7, WorkerGoes DEF StopScheduler, AfterJob, WorkerPCs
  <2>2. /\ UNCHANGED startVars /\ UNCHANGED stopVars /\ UNCHANGED poolFields
        /\ UNCHANGED locals /\ UNCHANGED history
    BY <1>7 DEF StopScheduler
  <2>3. SchedulerOK'
    BY <1>0, <1>7 DEF StopScheduler, SchedulerOK
  <2> QED
    BY <1>0, <2>1, <2>2, <2>3, Unchanging, TypeFromPartsNext
<1>8. CASE Catch(w)
  <2>1. PcOK'
    BY <1>0, <1>8, WorkerGoes DEF Catch, WorkerPCs
  <2>2. /\ UNCHANGED scheduler /\ UNCHANGED startVars /\ UNCHANGED stopVars
        /\ UNCHANGED locals /\ UNCHANGED history
    BY <1>8 DEF Catch
  <2>3. exceptions' \in Nat
    <3>1. exceptions \in Nat /\ exceptions' = exceptions + 1
      BY <1>0, <1>8, Zenon DEF Catch, PoolOK
    <3> QED
      BY <3>1
  <2>4. PoolOK'
    BY <1>0, <1>8, <2>3, Zenon DEF Catch, PoolOK
  <2> QED
    BY <1>0, <2>1, <2>2, <2>4, Unchanging, TypeFromPartsNext
<1>9. CASE WaitForStop(w)
  <2>1. PcOK'
    BY <1>0, <1>9, StopWaitTypes, WorkerGoes DEF WaitForStop, WorkerPCs, PcOK
  <2>2. /\ Stop!RTypeOK' /\ UNCHANGED scheduler /\ UNCHANGED startVars
        /\ UNCHANGED poolFields /\ UNCHANGED locals /\ UNCHANGED history
    BY <1>0, <1>9, StopWaitTypes DEF WaitForStop
  <2> QED
    BY <1>0, <2>1, <2>2, Unchanging, TypeFromPartsNext
<1> QED
  BY <1>1, <1>2, <1>3, <1>4, <1>5, <1>6, <1>7, <1>8, <1>9 DEF Worker


(* What a step of main does to the types.                                   *)
LEMMA MainTypes ==
  ASSUME TypeOK, JobsKnown, Main,
         At(main, "post") => outstanding_work > 0
  PROVE  TypeOK'
<1>0. /\ PcOK /\ SchedulerOK /\ PoolOK /\ LocalsOK /\ HistoryOK
      /\ Start!RTypeOK /\ Stop!RTypeOK /\ main \in Threads
  BY TypeParts DEF Threads
<1>1. CASE UnblockStart
  <2>1. PcOK'
    BY <1>0, <1>1, MainGoes DEF UnblockStart, MainPCs
  <2>2. /\ UNCHANGED scheduler /\ UNCHANGED stopVars /\ UNCHANGED poolFields
        /\ UNCHANGED locals /\ UNCHANGED history
    BY <1>1 DEF UnblockStart
  <2>3. Start!RTypeOK'
    BY <1>0, <1>1 DEF UnblockStart, Start!Cancel, Start!RTypeOK, Start!Inside
  <2> QED
    BY <1>0, <2>1, <2>2, <2>3, Unchanging, TypeFromPartsNext
<1>2. CASE UnblockStop
  <2>1. PcOK'
    BY <1>0, <1>2, MainGoes DEF UnblockStop, MainPCs
  <2>2. /\ UNCHANGED scheduler /\ UNCHANGED startVars /\ UNCHANGED poolFields
        /\ UNCHANGED locals /\ UNCHANGED history
    BY <1>2 DEF UnblockStop
  <2>3. Stop!RTypeOK'
    BY <1>0, <1>2 DEF UnblockStop, Stop!Cancel, Stop!RTypeOK, Stop!Inside
  <2> QED
    BY <1>0, <2>1, <2>2, <2>3, Unchanging, TypeFromPartsNext
<1>3. CASE DropWork \/ JoinAll
  <2>1. PcOK'
    BY <1>0, <1>3, MainGoes DEF DropWork, JoinAll, MainPCs
  <2>2. /\ UNCHANGED scheduler /\ UNCHANGED startVars /\ UNCHANGED stopVars
        /\ UNCHANGED poolFields /\ UNCHANGED locals /\ UNCHANGED history
    BY <1>3 DEF DropWork, JoinAll
  <2> QED
    BY <1>0, <2>1, <2>2, Unchanging, TypeFromPartsNext
<1>4. CASE Reset \/ MainStopsScheduler \/ StopService
  <2>1. PcOK'
    BY <1>0, <1>4, MainGoes DEF Reset, MainStopsScheduler, StopService, MainPCs
  <2>2. /\ UNCHANGED startVars /\ UNCHANGED stopVars /\ UNCHANGED poolFields
        /\ UNCHANGED locals /\ UNCHANGED history
    BY <1>4 DEF Reset, MainStopsScheduler, StopService
  <2>3. SchedulerOK'
    BY <1>0, <1>4 DEF Reset, MainStopsScheduler, StopService, SchedulerOK
  <2> QED
    BY <1>0, <2>1, <2>2, <2>3, Unchanging, TypeFromPartsNext
<1>5. CASE SetStop
  <2>1. PcOK'
    BY <1>0, <1>5, MainGoes DEF SetStop, MainPCs
  <2>2. /\ UNCHANGED scheduler /\ UNCHANGED startVars /\ UNCHANGED stopVars
        /\ UNCHANGED locals /\ UNCHANGED history
    BY <1>5 DEF SetStop
  <2>3. PoolOK'
    BY <1>0, <1>5, Zenon DEF SetStop, PoolOK
  <2> QED
    BY <1>0, <2>1, <2>2, <2>3, Unchanging, TypeFromPartsNext
<1>6. CASE BeginRound
  <2>1. PcOK'
    BY <1>0, <1>6, MainGoes DEF BeginRound, MainPCs
  <2>2. /\ UNCHANGED scheduler /\ UNCHANGED startVars
        /\ UNCHANGED stopVars /\ UNCHANGED locals
    BY <1>6 DEF BeginRound
  <2>3. PoolOK'
    BY <1>0, <1>6, Zenon DEF BeginRound, PoolOK
  <2>4. round \in Nat /\ round < MaxRounds /\ round' = round + 1 /\ posted' = 0
    BY <1>0, <1>6 DEF BeginRound, HistoryOK
  <2>5. round' \in 0 .. MaxRounds /\ posted' \in 0 .. NJobs
    BY <2>4
  <2>6. HistoryOK'
    BY <1>0, <1>6, <2>5 DEF BeginRound, HistoryOK
  <2> QED
    BY <1>0, <2>1, <2>2, <2>3, <2>6, Unchanging, TypeFromPartsNext
<1>7. CASE NewWork
  <2>1. PcOK'
    BY <1>0, <1>7, MainGoes DEF NewWork, MainPCs
  <2>2. /\ UNCHANGED startVars /\ UNCHANGED stopVars /\ UNCHANGED stop_flag
        /\ UNCHANGED exceptions /\ UNCHANGED locals /\ UNCHANGED history
    BY <1>7 DEF NewWork
  <2>3. outstanding_work \in Nat /\ outstanding_work' = outstanding_work + 1
    BY <1>0, <1>7, Zenon DEF NewWork, SchedulerOK
  <2>4. outstanding_work' \in Nat
    BY <2>3
  <2>5. SchedulerOK' /\ PoolOK'
    BY <1>0, <1>7, <2>4, Zenon DEF NewWork, SchedulerOK, PoolOK
  <2> QED
    BY <1>0, <2>1, <2>2, <2>5, Unchanging, TypeFromPartsNext
<1>8. CASE DeleteWork
  <2>1. PcOK'
    BY <1>0, <1>8, MainGoes DEF DeleteWork, MainPCs
  <2>2. /\ UNCHANGED startVars /\ UNCHANGED stopVars /\ UNCHANGED stop_flag
        /\ UNCHANGED exceptions /\ UNCHANGED locals /\ UNCHANGED history
    BY <1>8 DEF DeleteWork
  <2>3. /\ outstanding_work \in Nat /\ outstanding_work > 0
        /\ outstanding_work' = outstanding_work - 1
    BY <1>0, <1>8, Zenon DEF DeleteWork, SchedulerOK, At
  <2>4. outstanding_work' \in Nat
    BY <2>3
  <2>5. SchedulerOK' /\ PoolOK'
    BY <1>0, <1>8, <2>4, Zenon DEF DeleteWork, SchedulerOK, PoolOK
  <2> QED
    BY <1>0, <2>1, <2>2, <2>5, Unchanging, TypeFromPartsNext
<1>9. CASE ReturnExceptions
  <2>1. PcOK'
    BY <1>0, <1>9, MainGoes DEF ReturnExceptions, MainPCs
  <2>2. /\ UNCHANGED scheduler /\ UNCHANGED startVars /\ UNCHANGED stopVars
        /\ UNCHANGED poolFields /\ UNCHANGED locals
    BY <1>9 DEF ReturnExceptions
  <2>3. exceptions \in Nat
    BY <1>0, Zenon DEF PoolOK
  <2>4. result' \in Seq(Nat)
    BY <1>0, <1>9, <2>3, AppendProperties DEF ReturnExceptions, HistoryOK
  <2>5. HistoryOK'
    BY <1>0, <1>9, <2>4 DEF ReturnExceptions, HistoryOK
  <2> QED
    BY <1>0, <2>1, <2>2, <2>5, Unchanging, TypeFromPartsNext
<1>10. CASE Post
  <2>1. /\ PcOK' /\ UNCHANGED startVars /\ UNCHANGED stopVars
        /\ UNCHANGED poolFields /\ UNCHANGED locals
    BY <1>0, <1>10 DEF Post, PcOK
  <2>2. posted' \in 0 .. NJobs /\ posted + 1 \in 1 .. NJobs /\ round \in Rounds
    BY <1>0, <1>10 DEF Post, HistoryOK, JobsKnown, At, Rounds
  <2>3. op_queue' \in Seq(JobIds)
    <3>1. <<round, posted + 1>> \in JobIds
      BY <2>2 DEF JobIds
    <3> QED
      BY <1>0, <1>10, <3>1, AppendProperties DEF Post, SchedulerOK
  <2>4. outstanding_work' \in Nat
    <3>1. outstanding_work \in Nat /\ outstanding_work' = outstanding_work + 1
      BY <1>0, <1>10, Zenon DEF Post, SchedulerOK
    <3> QED
      BY <3>1
  <2>5. SchedulerOK'
    BY <1>0, <1>10, <2>3, <2>4, Zenon DEF Post, SchedulerOK
  <2>6. HistoryOK'
    BY <1>0, <1>10, <2>2 DEF Post, HistoryOK
  <2> QED
    BY <1>0, <2>1, <2>5, <2>6, Unchanging, TypeFromPartsNext
<1>11. CASE ReleaseWorkers
  <2>1. PcOK'
    BY <1>0, <1>11, StartWaitTypes, MainGoes DEF ReleaseWorkers, MainPCs, PcOK
  <2>2. /\ Start!RTypeOK' /\ UNCHANGED scheduler /\ UNCHANGED stopVars
        /\ UNCHANGED poolFields /\ UNCHANGED locals /\ UNCHANGED history
    BY <1>0, <1>11, StartWaitTypes DEF ReleaseWorkers
  <2> QED
    BY <1>0, <2>1, <2>2, Unchanging, TypeFromPartsNext
<1>12. CASE WaitForWorkers
  <2>1. PcOK'
    BY <1>0, <1>12, StopWaitTypes, MainGoes DEF WaitForWorkers, MainPCs, PcOK
  <2>2. /\ Stop!RTypeOK' /\ UNCHANGED scheduler /\ UNCHANGED startVars
        /\ UNCHANGED poolFields /\ UNCHANGED locals /\ UNCHANGED history
    BY <1>0, <1>12, StopWaitTypes DEF WaitForWorkers
  <2> QED
    BY <1>0, <2>1, <2>2, Unchanging, TypeFromPartsNext
<1> QED
  BY <1>1, <1>2, <1>3, <1>4, <1>5, <1>6, <1>7, <1>8, <1>9, <1>10, <1>11, <1>12
  DEF Main, MainInCall

LEMMA InitTypes == Init => TypeOK
<1> SUFFICES ASSUME Init PROVE TypeOK
  OBVIOUS
<1>1. PcOK
  BY DEF Init, PcOK, Threads, WorkerPCs, MainPCs
<1>2. SchedulerOK
  BY EmptySeq DEF Init, SchedulerOK
<1>3. PoolOK
  BY DEF Init, PoolOK
<1>4. LocalsOK
  BY DEF Init, LocalsOK
<1>5. HistoryOK
  BY EmptySeq DEF Init, HistoryOK
<1>6. Start!RTypeOK /\ Stop!RTypeOK
  BY DEF Init, Start!RInit, Stop!RInit, Start!RTypeOK, Stop!RTypeOK
<1> QED
  BY <1>1, <1>2, <1>3, <1>4, <1>5, <1>6, TypeFromParts

-----------------------------------------------------------------------------
(* A step of a worker moves no other thread and leaves main's fields alone. *)
LEMMA WorkerFrame ==
  ASSUME TypeOK, NEW w \in Workers, Worker(w)
  PROVE  /\ \A t \in Threads : t # w => pc'[t] = pc[t]
         /\ pc'[w] \in WorkerPCs
         /\ pc'[main] = pc[main]
         /\ UNCHANGED work /\ UNCHANGED stop_flag
         /\ UNCHANGED round /\ UNCHANGED posted /\ UNCHANGED result
<1>1. PcOK /\ w \in Threads /\ main \in Threads /\ main # w
      /\ Start!RTypeOK /\ Stop!RTypeOK
  BY TypeParts DEF Threads
<1>2. /\ UNCHANGED work /\ UNCHANGED stop_flag
      /\ UNCHANGED round /\ UNCHANGED posted /\ UNCHANGED result
  BY DEF Worker, WaitForStart, StartWait, CheckStop, Run, TakeJob, LeaveRun, RunJob, FinishJob,
         StopScheduler, Catch, WaitForStop, StopWait, poolFields, history
<1>3. UNCHANGED pc \/ \E l \in WorkerPCs : Go(w, l)
  BY DEF Worker, WaitForStart, StartWait, CheckStop, Run, TakeJob, LeaveRun, RunJob, FinishJob,
         StopScheduler, Catch, WaitForStop, StopWait, AfterJob, WorkerPCs
<1>4. CASE UNCHANGED pc
  BY <1>1, <1>2, <1>4 DEF PcOK
<1>5. CASE \E l \in WorkerPCs : Go(w, l)
  BY <1>1, <1>2, <1>5, WorkerGoes
<1> QED
  BY <1>3, <1>4, <1>5

(* A step of main moves no worker and leaves what the workers hold alone.   *)
LEMMA MainFrame ==
  ASSUME TypeOK, Main
  PROVE  /\ \A w \in Workers : pc'[w] = pc[w]
         /\ pc'[main] \in MainPCs
         /\ UNCHANGED job /\ UNCHANGED threw /\ UNCHANGED done /\ UNCHANGED failed
<1>1. PcOK /\ main \in Threads /\ \A w \in Workers : w # main /\ w \in Threads
  BY TypeParts DEF Threads
<1>2. UNCHANGED job /\ UNCHANGED threw /\ UNCHANGED done /\ UNCHANGED failed
  BY DEF Main, MainInCall, BeginRound, Reset, NewWork, ReleaseWorkers, StartWait, Post, DeleteWork,
         MainStopsScheduler, WaitForWorkers, StopWait, ReturnExceptions, SetStop, UnblockStart,
         UnblockStop, DropWork, StopService, JoinAll, locals, history
<1>3. UNCHANGED pc \/ \E l \in MainPCs : Go(main, l)
  BY DEF Main, MainInCall, BeginRound, Reset, NewWork, ReleaseWorkers, StartWait, Post, DeleteWork,
         MainStopsScheduler, WaitForWorkers, StopWait, ReturnExceptions, SetStop, UnblockStart,
         UnblockStop, DropWork, StopService, JoinAll, MainPCs
<1>4. CASE UNCHANGED pc
  BY <1>1, <1>2, <1>4 DEF PcOK
<1>5. CASE \E l \in MainPCs : Go(main, l)
  BY <1>1, <1>2, <1>5, MainGoes
<1> QED
  BY <1>3, <1>4, <1>5

Executing == {w \in Workers : pc[w] \in {"execute", "finish"}}

(* The jobs in execution can be counted, one more and one less, too.        *)
LEMMA CountExecuting ==
  /\ Cardinality(Executing) \in Nat /\ IsFiniteSet(Executing)
  /\ \A w \in Workers : w \notin Executing
        => Cardinality(Executing \cup {w}) = Cardinality(Executing) + 1
  /\ \A w \in Executing : /\ Cardinality(Executing) > 0
                          /\ Cardinality(Executing \ {w}) = Cardinality(Executing) - 1
<1>1. IsFiniteSet(Executing)
  BY FS_Subset DEF Executing, PoolAssumption
<1>2. Cardinality(Executing) \in Nat
  BY <1>1, FS_CardinalityType
<1>3. \A w \in Workers : w \notin Executing
        => Cardinality(Executing \cup {w}) = Cardinality(Executing) + 1
  BY <1>1, FS_AddElement
<1>4. ASSUME NEW w \in Executing
      PROVE  /\ Cardinality(Executing) > 0
             /\ Cardinality(Executing \ {w}) = Cardinality(Executing) - 1
  <2>1. Cardinality(Executing \ {w}) = Cardinality(Executing) - 1
    BY <1>1, FS_RemoveElement
  <2>2. Cardinality(Executing) # 0
    BY <1>1, FS_EmptySet
  <2> QED
    BY <1>2, <2>1, <2>2
<1> QED
  BY <1>1, <1>2, <1>3, <1>4

(* So a job in execution, and the Work object, are outstanding.             *)
LEMMA Outstanding ==
  ASSUME WorkInv
  PROVE  /\ \A w \in Workers : pc[w] \in {"execute", "finish"} => outstanding_work > 0
         /\ work = "live" => outstanding_work > 0
         /\ outstanding_work = 0 => op_queue = <<>>
<1> DEFINE n == Cardinality(Executing)
           l == Len(op_queue)
           k == IF work = "live" THEN 1 ELSE 0
<1>1. outstanding_work = l + n + k
  BY DEF WorkInv, Accounting, Executing
<1>2. n \in Nat /\ k \in Nat /\ (work = "live" => k = 1)
  BY CountExecuting
<1>3. op_queue \in Seq(JobIds)
  BY TypeParts DEF WorkInv, SchedulerOK
<1>4. l \in Nat /\ (l = 0 => op_queue = <<>>)
  BY <1>3, LenProperties, EmptySeq
<1>5. \A w \in Workers : pc[w] \in {"execute", "finish"} => n > 0
  BY CountExecuting DEF Executing
<1> HIDE DEF n, l, k
<1>6. n > 0 => outstanding_work > 0
  BY <1>1, <1>2, <1>4
<1>7. work = "live" => outstanding_work > 0
  BY <1>1, <1>2, <1>4
<1>8. outstanding_work = 0 => l = 0
  BY <1>1, <1>2, <1>4
<1> QED
  BY <1>4, <1>5, <1>6, <1>7, <1>8

(* A worker that neither takes nor finishes a job leaves the queue, the     *)
(* count and the jobs in execution as they are.                             *)
LEMMA WorkerElsewhere ==
  ASSUME TypeOK, NEW w \in Workers, Worker(w), ~TakeJob(w), ~FinishJob(w)
  PROVE  /\ UNCHANGED op_queue /\ UNCHANGED outstanding_work /\ UNCHANGED job
         /\ pc'[w] \in {"execute", "finish"} <=> pc[w] \in {"execute", "finish"}
<1>1. PcOK /\ w \in Threads
  BY TypeParts DEF Threads
<1>2. UNCHANGED op_queue /\ UNCHANGED outstanding_work /\ UNCHANGED job
  BY DEF Worker, WaitForStart, StartWait, CheckStop, Run, LeaveRun, RunJob,
         StopScheduler, Catch, WaitForStop, StopWait, scheduler, locals
<1>3. CASE UNCHANGED pc
  BY <1>2, <1>3
<1>4. CASE RunJob(w)
  BY <1>1, <1>2, <1>4 DEF RunJob, Go, At, PcOK
<1>5. CASE \E l \in WorkerPCs \ {"execute", "finish"} :
             Go(w, l) /\ pc[w] \notin {"execute", "finish"}
  BY <1>1, <1>2, <1>5, WorkerGoes
<1>6. UNCHANGED pc \/ RunJob(w)
        \/ \E l \in WorkerPCs \ {"execute", "finish"} :
             Go(w, l) /\ pc[w] \notin {"execute", "finish"}
  BY DEF Worker, WaitForStart, StartWait, CheckStop, Run, LeaveRun,
         StopScheduler, Catch, WaitForStop, StopWait, AfterJob, At, WorkerPCs
<1> QED
  BY <1>3, <1>4, <1>5, <1>6

(* The count stays right when a job passes from the queue to a worker, and  *)
(* when a worker is done with it.                                           *)
LEMMA WorkerAccounting ==
  ASSUME WorkInv, NEW w \in Workers, Worker(w)
  PROVE  Accounting'
<1> DEFINE k == IF work = "live" THEN 1 ELSE 0
<1>1. TypeOK /\ PcOK /\ SchedulerOK /\ w \in Threads
  BY TypeParts DEF WorkInv, Threads
<1>2. outstanding_work = Len(op_queue) + Cardinality(Executing) + k
  BY DEF WorkInv, Accounting, Executing
<1>3. /\ \A t \in Threads : t # w => pc'[t] = pc[t]
      /\ k' = k /\ k \in Nat
  BY <1>1, WorkerFrame
<1>4. op_queue \in Seq(JobIds) /\ Len(op_queue) \in Nat /\ Cardinality(Executing) \in Nat
  BY <1>1, CountExecuting, LenProperties DEF SchedulerOK
<1> HIDE DEF k
<1>5. SUFFICES outstanding_work' = Len(op_queue') + Cardinality(Executing') + k'
  BY DEF Accounting, Executing, k
<1>6. CASE TakeJob(w)
  <2>1. w \notin Executing /\ Executing' = Executing \cup {w}
    BY <1>1, <1>3, <1>6 DEF TakeJob, Executing, At, Go, PcOK, Threads
  <2>2. Cardinality(Executing') = Cardinality(Executing) + 1
    BY <2>1, CountExecuting
  <2>3. Len(op_queue') = Len(op_queue) - 1 /\ UNCHANGED outstanding_work
    BY <1>4, <1>6, HeadTailProperties DEF TakeJob
  <2> QED
    BY <1>2, <1>3, <1>4, <2>2, <2>3
<1>7. CASE FinishJob(w)
  <2>1. w \in Executing /\ Executing' = Executing \ {w}
    <3>1. pc'[w] \notin {"execute", "finish"}
      BY <1>1, <1>7 DEF FinishJob, AfterJob, Go, PcOK
    <3> QED
      BY <1>3, <1>7, <3>1 DEF FinishJob, Executing, At, Threads
  <2>2. Cardinality(Executing') = Cardinality(Executing) - 1
    BY <2>1, CountExecuting
  <2>3. Len(op_queue') = Len(op_queue) /\ outstanding_work' = outstanding_work - 1
    BY <1>7 DEF FinishJob
  <2> QED
    BY <1>2, <1>3, <1>4, <2>2, <2>3
<1>8. CASE ~TakeJob(w) /\ ~FinishJob(w)
  <2>1. /\ UNCHANGED op_queue /\ UNCHANGED outstanding_work
        /\ pc'[w] \in {"execute", "finish"} <=> pc[w] \in {"execute", "finish"}
    BY <1>1, <1>8, WorkerElsewhere
  <2>2. Executing' = Executing
    BY <1>3, <2>1 DEF Executing, Threads
  <2> QED
    BY <1>2, <1>3, <2>1, <2>2
<1> QED
  BY <1>6, <1>7, <1>8

(* The jobs in the queue and at the workers are of a round that began.      *)
LEMMA WorkerJobsKnown ==
  ASSUME WorkInv, NEW w \in Workers, Worker(w)
  PROVE  JobsKnown'
<1>1. TypeOK /\ PcOK /\ SchedulerOK /\ LocalsOK /\ JobsKnown /\ w \in Threads
  BY TypeParts DEF WorkInv, Threads
<1>2. /\ \A t \in Threads : t # w => pc'[t] = pc[t]
      /\ pc'[main] = pc[main] /\ UNCHANGED round
      /\ SinceRound' = SinceRound
  BY <1>1, WorkerFrame DEF SinceRound
<1>3. CASE TakeJob(w)
  <2>1. Head(op_queue) = op_queue[1] /\ 1 \in 1 .. Len(op_queue)
    BY <1>1, <1>3, HeadTailProperties, EmptySeq, LenProperties DEF TakeJob, SchedulerOK
  <2>2. \A n \in 1 .. Len(op_queue') : n + 1 \in 1 .. Len(op_queue) /\ op_queue'[n] = op_queue[n + 1]
    BY <1>1, <1>3, HeadTailProperties, LenProperties DEF TakeJob, SchedulerOK
  <2>3. job'[w] \in SinceRound /\ \A v \in Workers : v # w => job'[v] = job[v]
    BY <1>1, <1>3, <2>1 DEF TakeJob, JobsKnown, LocalsOK
  <2>4. \A v \in Workers : v # w => pc'[v] = pc[v]
    BY <1>2 DEF Threads
  <2> QED
    BY <1>1, <1>2, <2>2, <2>3, <2>4 DEF JobsKnown
<1>4. CASE FinishJob(w)
  <2>1. pc'[w] \notin {"execute", "finish"} /\ UNCHANGED op_queue
    BY <1>1, <1>4 DEF FinishJob, AfterJob, Go, PcOK
  <2>2. \A v \in Workers : v # w => job'[v] = job[v] /\ pc'[v] = pc[v]
    BY <1>1, <1>2, <1>4 DEF FinishJob, LocalsOK, Threads
  <2> QED
    BY <1>1, <1>2, <2>1, <2>2 DEF JobsKnown
<1>5. CASE ~TakeJob(w) /\ ~FinishJob(w)
  <2>1. /\ UNCHANGED op_queue /\ UNCHANGED job
        /\ pc'[w] \in {"execute", "finish"} <=> pc[w] \in {"execute", "finish"}
    BY <1>1, <1>5, WorkerElsewhere
  <2>2. \A v \in Workers : v # w => pc'[v] = pc[v]
    BY <1>2 DEF Threads
  <2> QED
    BY <1>1, <1>2, <2>1, <2>2 DEF JobsKnown
<1> QED
  BY <1>3, <1>4, <1>5

LEMMA WorkerWorkInv ==
  ASSUME WorkInv, NEW w \in Workers, Worker(w)
  PROVE  WorkInv'
<1>1. TypeOK /\ JobsKnown
  BY DEF WorkInv
<1>2. At(w, "finish") => outstanding_work > 0
  BY Outstanding DEF At
<1>3. TypeOK'
  BY <1>1, <1>2, WorkerTypes
<1>4. pc'[main] = pc[main] /\ UNCHANGED work /\ UNCHANGED round
  BY <1>1, WorkerFrame
<1>5. WorkLive' /\ UnassignedUnused'
  BY <1>4 DEF WorkInv, WorkLive, UnassignedUnused
<1> QED
  BY <1>3, <1>5, WorkerAccounting, WorkerJobsKnown DEF WorkInv

(* Main owns the Work object and fills the queue; nothing else it does      *)
(* changes what is counted.                                                 *)
LEMMA MainAccounting ==
  ASSUME WorkInv, Main
  PROVE  Accounting'
<1> DEFINE k == IF work = "live" THEN 1 ELSE 0
<1>1. TypeOK /\ SchedulerOK /\ WorkLive
  BY TypeParts DEF WorkInv
<1>2. outstanding_work = Len(op_queue) + Cardinality(Executing) + k
  BY DEF WorkInv, Accounting, Executing
<1>3. Executing' = Executing
  BY <1>1, MainFrame DEF Executing
<1>4. op_queue \in Seq(JobIds) /\ Len(op_queue) \in Nat /\ Cardinality(Executing) \in Nat
  BY <1>1, CountExecuting, LenProperties DEF SchedulerOK
<1>5. SUFFICES outstanding_work' = Len(op_queue') + Cardinality(Executing) + k'
  BY <1>3 DEF Accounting, Executing
<1>6. CASE NewWork
  <2>1. k = 0 /\ k' = 1
    BY <1>1, <1>6 DEF NewWork, At, WorkLive
  <2>2. outstanding_work' = outstanding_work + 1 /\ UNCHANGED op_queue
    BY <1>6 DEF NewWork
  <2> HIDE DEF k
  <2> QED
    BY <1>2, <1>4, <2>1, <2>2
<1>7. CASE Post
  <2>1. UNCHANGED k
    BY <1>7 DEF Post, poolFields
  <2>2. outstanding_work' = outstanding_work + 1
    BY <1>7 DEF Post
  <2>3. Len(op_queue') = Len(op_queue) + 1
    BY <1>4, <1>7 DEF Post
  <2>4. k \in Nat
    OBVIOUS
  <2> HIDE DEF k
  <2> QED
    BY <1>2, <1>4, <2>1, <2>2, <2>3, <2>4
<1>8. CASE DeleteWork
  <2>1. k = 1 /\ k' = 0
    BY <1>1, <1>8 DEF DeleteWork, At, WorkLive
  <2>2. outstanding_work' = outstanding_work - 1 /\ UNCHANGED op_queue
    BY <1>8 DEF DeleteWork
  <2> HIDE DEF k
  <2> QED
    BY <1>2, <1>4, <2>1, <2>2
<1>9. CASE ~NewWork /\ ~Post /\ ~DeleteWork
  <2>1. UNCHANGED op_queue /\ UNCHANGED outstanding_work /\ UNCHANGED work
    BY <1>9 DEF Main, MainInCall, BeginRound, Reset, ReleaseWorkers, StartWait, MainStopsScheduler,
         WaitForWorkers, StopWait, ReturnExceptions, SetStop, UnblockStart, UnblockStop, DropWork,
         StopService, JoinAll, scheduler, poolFields
  <2> QED
    BY <1>2, <2>1
<1> QED
  BY <1>6, <1>7, <1>8, <1>9

LEMMA MainWorkLive ==
  ASSUME WorkInv, Main
  PROVE  WorkLive' /\ UnassignedUnused'
<1>1. PcOK /\ WorkLive /\ UnassignedUnused /\ JobsKnown /\ HistoryOK
      /\ main \in Threads /\ Start!RTypeOK /\ Stop!RTypeOK
  BY TypeParts DEF WorkInv, Threads
<1>2. CASE UNCHANGED pc
  <2>1. UNCHANGED work /\ UNCHANGED round
    BY <1>1, <1>2 DEF Main, MainInCall, BeginRound, Reset, NewWork, ReleaseWorkers, StartWait, Post,
      DeleteWork, MainStopsScheduler, WaitForWorkers, StopWait, ReturnExceptions, SetStop,
      UnblockStart, UnblockStop, DropWork, StopService, JoinAll, poolFields, history,
      At, Go, PcOK
  <2> QED
    BY <1>1, <1>2, <2>1 DEF WorkLive, UnassignedUnused
<1>3. CASE NewWork
  BY <1>1, <1>3 DEF NewWork, WorkLive, UnassignedUnused, Go, PcOK
<1>4. CASE DeleteWork
  <2>1. work' = "null" /\ pc'[main] \in {"stop scheduler", "collect"}
    BY <1>1, <1>4 DEF DeleteWork, Go, PcOK
  <2> QED
    BY <2>1 DEF WorkLive, UnassignedUnused
<1>5. CASE BeginRound
  BY <1>1, <1>5 DEF BeginRound, WorkLive, UnassignedUnused, Go, PcOK, At
<1>6. CASE ReleaseWorkers /\ Go(main, "post")
  BY <1>1, <1>6 DEF ReleaseWorkers, StartWait, WorkLive, UnassignedUnused, Go, PcOK, At, poolFields, history
<1>7. CASE WaitForWorkers /\ Go(main, "return")
  BY <1>1, <1>7 DEF WaitForWorkers, StopWait, WorkLive, UnassignedUnused, Go, PcOK, At, poolFields, history
<1>8. CASE Reset \/ MainStopsScheduler \/ ReturnExceptions
  BY <1>1, <1>8 DEF Reset, MainStopsScheduler, ReturnExceptions, WorkLive, UnassignedUnused,
     Go, PcOK, At, poolFields, history
<1>9. CASE SetStop \/ UnblockStart \/ UnblockStop \/ DropWork \/ StopService \/ JoinAll
  BY <1>1, <1>9 DEF SetStop, UnblockStart, UnblockStop, DropWork, StopService, JoinAll, WorkLive,
     UnassignedUnused, Go, PcOK, At, poolFields, history
<1>10. Post => UNCHANGED pc
  BY DEF Post
<1>11. ReleaseWorkers => UNCHANGED pc \/ Go(main, "post")
  BY DEF ReleaseWorkers, StartWait
<1>12. WaitForWorkers => UNCHANGED pc \/ Go(main, "return")
  BY DEF WaitForWorkers, StopWait
<1> QED
  BY <1>2, <1>3, <1>4, <1>5, <1>6, <1>7, <1>8, <1>9, <1>10, <1>11, <1>12 DEF Main, MainInCall

LEMMA MainJobsKnown ==
  ASSUME WorkInv, Main
  PROVE  JobsKnown'
<1>1. PcOK /\ SchedulerOK /\ HistoryOK /\ JobsKnown /\ TypeOK /\ main \in Threads
      /\ Start!RTypeOK /\ Stop!RTypeOK
  BY TypeParts DEF WorkInv, Threads
<1>2. /\ \A w \in Workers : pc'[w] = pc[w]
      /\ UNCHANGED job
  BY <1>1, MainFrame
<1>3. /\ round' = round \/ (BeginRound /\ round' = round + 1)
      /\ round \in Nat /\ round' \in Nat
  <2>1. round \in Nat
    <3>1. round \in 0 .. MaxRounds
      BY <1>1, Zenon DEF HistoryOK
    <3> QED
      BY <3>1
  <2>2. UNCHANGED round \/ (BeginRound /\ round' = round + 1)
    BY DEF Main, MainInCall, BeginRound, Reset, NewWork, ReleaseWorkers, StartWait, Post,
      DeleteWork, MainStopsScheduler, WaitForWorkers, StopWait, ReturnExceptions, SetStop,
      UnblockStart, UnblockStop, DropWork, StopService, JoinAll, history
  <2> HIDE DEF BeginRound
  <2> QED
    BY <2>1, <2>2
<1>4. SinceRound \subseteq SinceRound'
  BY <1>3 DEF SinceRound
<1>5. \A w \in Workers : pc'[w] \in {"execute", "finish"} => job'[w] \in SinceRound'
  BY <1>1, <1>2, <1>4 DEF JobsKnown
<1>6. \A n \in 1 .. Len(op_queue') : op_queue'[n] \in SinceRound'
  <2>1. CASE Post
    <3>1. <<round, posted + 1>> \in SinceRound
      BY <1>1, <2>1 DEF Post, At, JobsKnown, SinceRound, HistoryOK
    <3>2. /\ Len(op_queue) \in Nat /\ Len(op_queue') = Len(op_queue) + 1
          /\ op_queue'[Len(op_queue) + 1] = <<round, posted + 1>>
          /\ \A n \in 1 .. Len(op_queue) : op_queue'[n] = op_queue[n]
      BY <1>1, <2>1, AppendProperties, LenProperties DEF Post, SchedulerOK
    <3>3. \A n \in 1 .. Len(op_queue') : n \in 1 .. Len(op_queue) \/ n = Len(op_queue) + 1
      BY <3>2
    <3> QED
      BY <1>1, <1>4, <3>1, <3>2, <3>3 DEF JobsKnown
  <2>2. CASE ~Post
    <3>1. UNCHANGED op_queue
      BY <2>2 DEF Main, MainInCall, BeginRound, Reset, NewWork, ReleaseWorkers, StartWait,
        DeleteWork, MainStopsScheduler, WaitForWorkers, StopWait, ReturnExceptions, SetStop,
        UnblockStart, UnblockStop, DropWork, StopService, JoinAll, scheduler
    <3> QED
      BY <1>1, <1>4, <3>1 DEF JobsKnown
  <2> QED
    BY <2>1, <2>2
<1>7. pc'[main] \in {"reset", "new work", "release", "post", "stop scheduler", "collect", "return"}
        => round' > 0
  <2> DEFINE rounding == {"reset", "new work", "release", "post", "stop scheduler", "collect", "return"}
  <2>1. CASE round' = round + 1
    <3>1. round \in Nat
      BY <1>3, Zenon
    <3>2. round' > 0
      BY <2>1, <3>1
    <3> QED
      BY <3>2, Zenon
  <2>2. CASE round' = round /\ ~BeginRound
    <3>1. pc'[main] \in rounding => pc[main] \in rounding
      BY <1>1, <2>2 DEF Main, MainInCall, Reset, NewWork, ReleaseWorkers, StartWait, Post,
        DeleteWork, MainStopsScheduler, WaitForWorkers, StopWait, ReturnExceptions, SetStop,
        UnblockStart, UnblockStop, DropWork, StopService, JoinAll, At, Go, PcOK
    <3>2. pc[main] \in rounding => round > 0
      BY <1>1, Zenon DEF JobsKnown
    <3> QED
      BY <2>2, <3>1, <3>2, Zenon
  <2>3. BeginRound => round' = round + 1
    BY DEF BeginRound
  <2> QED
    BY <1>3, <2>1, <2>2, <2>3, Zenon
<1> QED
  BY <1>5, <1>6, <1>7 DEF JobsKnown

LEMMA MainWorkInv ==
  ASSUME WorkInv, Main
  PROVE  WorkInv'
<1>1. TypeOK /\ JobsKnown /\ WorkLive
  BY DEF WorkInv
<1>2. At(main, "post") => outstanding_work > 0
  BY <1>1, Outstanding DEF At, WorkLive
<1>3. TypeOK'
  BY <1>1, <1>2, MainTypes
<1> QED
  BY <1>3, MainAccounting, MainWorkLive, MainJobsKnown DEF WorkInv

LEMMA InitWorkInv == Init => WorkInv
<1> SUFFICES ASSUME Init PROVE WorkInv
  OBVIOUS
<1>1. TypeOK
  BY InitTypes
<1>2. pc[main] = "idle" /\ \A w \in Workers : pc[w] = "start"
  BY DEF Init, Threads
<1>3. Executing = {}
  BY <1>2 DEF Executing
<1>4. Accounting
  <2>1. op_queue = <<>> /\ outstanding_work = 0 /\ work # "live"
    BY DEF Init
  <2>2. Cardinality(Executing) = 0 /\ Len(<<>>) = 0
    BY <1>3, FS_EmptySet, EmptySeq
  <2>3. outstanding_work = Len(op_queue) + Cardinality(Executing) + (IF work = "live" THEN 1 ELSE 0)
    BY <2>1, <2>2
  <2> QED
    BY <2>3, Zenon DEF Accounting, Executing
<1>5. WorkLive /\ UnassignedUnused
  BY <1>2 DEF Init, WorkLive, UnassignedUnused
<1>6. JobsKnown
  <2>1. Len(op_queue) = 0
    BY EmptySeq DEF Init
  <2> QED
    BY <1>2, <2>1 DEF JobsKnown
<1> QED
  BY <1>1, <1>4, <1>5, <1>6 DEF WorkInv

LEMMA StutterWorkInv ==
  ASSUME WorkInv, UNCHANGED vars
  PROVE  WorkInv'
<1>1. /\ UNCHANGED scheduler /\ UNCHANGED startVars /\ UNCHANGED stopVars /\ UNCHANGED poolFields
      /\ UNCHANGED pc /\ UNCHANGED locals /\ UNCHANGED history
  BY DEF vars
<1>2. TypeOK'
  <2>1. PcOK'
    BY <1>1, TypeParts DEF WorkInv, PcOK
  <2> QED
    BY <1>1, <2>1, TypeParts, Unchanging, TypeFromPartsNext DEF WorkInv
<1>3. WorkLive' /\ UnassignedUnused'
  BY <1>1 DEF WorkInv, WorkLive, UnassignedUnused, poolFields, history
<1>4. JobsKnown' /\ Accounting'
  BY <1>1 DEF WorkInv, JobsKnown, Accounting, SinceRound, scheduler, poolFields, locals, history
<1> QED
  BY <1>2, <1>3, <1>4 DEF WorkInv

LEMMA NextWorkInv == WorkInv /\ [Next]_vars => WorkInv'
BY MainWorkInv, WorkerWorkInv, StutterWorkInv DEF Next, Over

(* The types, and the account of the outstanding work with them.            *)
LEMMA SpecWorkInv == Spec => []WorkInv
BY InitWorkInv, NextWorkInv, PTL DEF Spec

(* Every variable has its type, however many workers, jobs and rounds.      *)
THEOREM PoolType == Spec => []TypeOK
<1>1. WorkInv => TypeOK
  BY DEF WorkInv
<1> QED
  BY <1>1, SpecWorkInv, PTL

(* outstanding_work_ always counts the queued jobs, the jobs in execution   *)
(* and the Work object.                                                     *)
THEOREM PoolAccounting == Spec => []Accounting
<1>1. WorkInv => Accounting
  BY DEF WorkInv
<1> QED
  BY <1>1, SpecWorkInv, PTL

(* Only a pool that was never used deletes a pointer nobody assigned.       *)
THEOREM PoolCrashOnlyUnused == Spec => []CrashOnlyUnused
<1>1. WorkInv => CrashOnlyUnused
  BY DEF WorkInv, UnassignedUnused, CrashOnlyUnused, At
<1> QED
  BY <1>1, SpecWorkInv, PTL

-----------------------------------------------------------------------------
(* A worker that enters no barrier and leaves none: what it was in the      *)
(* phase of the pool it has to be afterwards.                               *)
LEMMA WorkerMoves ==
  ASSUME PcOK, Phases, NEW w \in Workers,
         \A t \in Threads : t # w => pc'[t] = pc[t],
         pc[w] \notin {"start", "stop"},
         UNCHANGED startVars, UNCHANGED stopVars, UNCHANGED stop_flag,
         Resting => Rests(w)', Busy => IsBusy(w)', Ending => IsEnding(w)'
  PROVE  Phases'
<1>1. /\ \A v \in Workers : v # w => pc'[v] = pc[v]
      /\ pc'[main] = pc[main]
  BY DEF Threads
<1>2. (Resting' <=> Resting) /\ (Busy' <=> Busy) /\ (Ending' <=> Ending)
  BY <1>1 DEF Resting, Busy, Ending, startVars, stopVars
<1>3. \A v \in Workers : v # w => (Rests(v)' <=> Rests(v)) /\ (IsBusy(v)' <=> IsBusy(v))
                                  /\ (IsEnding(v)' <=> IsEnding(v))
  BY <1>1 DEF Rests, IsBusy, IsEnding, InRun, At, startVars, stopVars
<1>4. /\ \A v \in Workers : v \in startArrived' \cup startLeaving' => pc'[v] = "start"
      /\ \A v \in Workers : v \in stopArrived' \cup stopLeaving' => pc'[v] = "stop"
      /\ main \in startArrived' \cup startLeaving' => pc'[main] = "release"
      /\ main \in stopArrived' \cup stopLeaving' => pc'[main] = "collect"
  BY <1>1 DEF Phases, At, startVars, stopVars
<1>5. /\ startOpen' <=> Ending' /\ ~At(main, "unblock start")'
      /\ stopOpen' => Ending'
      /\ stop_flag' <=> Ending'
  BY <1>1, <1>2 DEF Phases, At, startVars, stopVars
<1> QED
  BY <1>2, <1>3, <1>4, <1>5 DEF Phases, At

(* Main, too, when it enters no barrier and leaves none.                    *)
LEMMA MainMoves ==
  ASSUME PcOK, Phases,
         \A w \in Workers : pc'[w] = pc[w],
         pc[main] \notin {"release", "collect", "unblock start"},
         pc'[main] # "unblock start" \/ ~Ending,
         UNCHANGED startVars, UNCHANGED stopVars,
         stop_flag' <=> Ending',
         Ending => Ending', ~Ending /\ Ending' => pc'[main] = "unblock start",
         Resting' => Resting, Busy' => Busy, Ending' => Ending \/ Resting
  PROVE  Phases'
<1>1. /\ \A w \in Workers : (Rests(w)' <=> Rests(w)) /\ (IsBusy(w)' <=> IsBusy(w))
                            /\ (IsEnding(w)' <=> IsEnding(w))
      /\ \A w \in Workers : Rests(w) => IsEnding(w)
  BY DEF Rests, IsBusy, IsEnding, InRun, At, startVars, stopVars
<1>2. /\ \A v \in Workers : v \in startArrived' \cup startLeaving' => pc'[v] = "start"
      /\ \A v \in Workers : v \in stopArrived' \cup stopLeaving' => pc'[v] = "stop"
      /\ main \in startArrived' \cup startLeaving' => pc'[main] = "release"
      /\ main \in stopArrived' \cup stopLeaving' => pc'[main] = "collect"
  BY DEF Phases, At, startVars, stopVars
<1>3. /\ startOpen' <=> Ending' /\ ~At(main, "unblock start")'
      /\ stopOpen' => Ending'
  BY DEF Phases, At, startVars, stopVars
<1> QED
  BY <1>1, <1>2, <1>3 DEF Phases, At

LEMMA WorkerPhases ==
  ASSUME TypeOK, Phases, NEW w \in Workers, Worker(w)
  PROVE  Phases'
<1>0. PcOK /\ w \in Threads /\ w # main /\ Start!RTypeOK /\ Stop!RTypeOK
  BY TypeParts DEF Threads
<1>1. /\ \A t \in Threads : t # w => pc'[t] = pc[t]
      /\ \A v \in Workers : v # w => pc'[v] = pc[v]
      /\ pc'[main] = pc[main]
      /\ UNCHANGED stop_flag
  BY <1>0, WorkerFrame DEF Threads
<1>2. CASE CheckStop(w)
  <2>1. /\ UNCHANGED startVars /\ UNCHANGED stopVars
        /\ \/ pc[w] = "check start" /\ pc'[w] = (IF stop_flag THEN "exited" ELSE "run")
           \/ pc[w] = "check run" /\ pc'[w] = (IF stop_flag THEN "exited" ELSE "stop")
           \/ pc[w] = "check stop" /\ pc'[w] = (IF stop_flag THEN "exited" ELSE "start")
    BY <1>0, <1>2 DEF CheckStop, At, Go, PcOK
  <2>2. /\ Resting => Rests(w)' /\ ~Ending
        /\ Busy => IsBusy(w)' /\ ~Ending
        /\ Ending => IsEnding(w)'
    BY <2>1 DEF Phases, Resting, Busy, Ending, Rests, IsBusy, IsEnding, InRun, At, startVars, stopVars
  <2> QED
    BY <1>0, <1>1, <2>1, <2>2, WorkerMoves
<1>3. CASE Run(w) \/ TakeJob(w) \/ LeaveRun(w) \/ RunJob(w) \/ FinishJob(w) \/ StopScheduler(w) \/ Catch(w)
  <2>1. /\ UNCHANGED startVars /\ UNCHANGED stopVars
        /\ InRun(w) /\ InRun(w)' /\ pc[w] \notin {"start", "stop", "check start"}
    BY <1>0, <1>3 DEF Run, TakeJob, LeaveRun, RunJob, FinishJob, StopScheduler, Catch, AfterJob,
       InRun, At, Go, PcOK
  <2>2. ~Resting /\ ~Ending /\ IsBusy(w)'
    BY <2>1 DEF Phases, Rests, IsBusy, IsEnding, InRun, At
  <2> QED
    BY <1>0, <1>1, <2>1, <2>2, WorkerMoves
<1>4. CASE WaitForStart(w)
  <2>1. /\ UNCHANGED stopArrived /\ UNCHANGED stopLeaving /\ UNCHANGED stopOpen
        /\ pc[w] = "start"
    BY <1>4 DEF WaitForStart, StartWait, At, stopVars
  <2>2. CASE Start!Arrive(w) /\ UNCHANGED pc
    <3>1. /\ ~startOpen /\ w \notin startLeaving /\ startArrived' = startArrived \cup {w}
          /\ startLeaving' = startLeaving /\ startOpen' = startOpen
      BY <2>2 DEF Start!Arrive, Start!Inside
    <3> QED
      BY <1>0, <1>1, <2>1, <2>2, <3>1 DEF Phases, Resting, Busy, Ending, Rests, IsBusy, IsEnding, InRun, At
  <2>3. CASE Start!Complete(w) /\ Go(w, "check start")
    <3>1. /\ w \notin startLeaving /\ w \notin startArrived /\ startArrived \cup {w} = Threads /\ startArrived' = {}
          /\ startLeaving' = startLeaving \cup startArrived /\ startOpen' = startOpen
      BY <2>3 DEF Start!Complete, Start!Inside
    <3>2. /\ main \in startArrived /\ main \notin startLeaving /\ pc[main] = "release"
          /\ \A v \in Workers : v # w => v \in startArrived /\ pc[v] = "start"
      BY <1>0, <3>1 DEF Phases, Start!RTypeOK, At, Threads
    <3>3. pc'[w] = "check start"
      BY <1>0, <2>3 DEF Go, PcOK
    <3>4. /\ w \notin startLeaving' /\ w \notin stopLeaving /\ main \in startLeaving'
          /\ \A v \in Workers : v # w => pc'[v] = "start" /\ v \in startLeaving'
      BY <1>0, <1>1, <2>1, <3>1, <3>2 DEF Phases, At, Start!RTypeOK
    <3>5. Busy' /\ ~Resting' /\ ~Ending' /\ ~Ending
      BY <1>1, <3>2, <3>4 DEF Resting, Busy, Ending
    <3>6. \A v \in Workers : IsBusy(v)'
      BY <3>3, <3>4 DEF IsBusy, At, InRun
    <3>7. /\ \A v \in Workers : v \in startArrived' \cup startLeaving' => pc'[v] = "start"
          /\ \A v \in Workers : v \in stopArrived' \cup stopLeaving' => pc'[v] = "stop"
          /\ main \in startArrived' \cup startLeaving' => pc'[main] = "release"
          /\ main \in stopArrived' \cup stopLeaving' => pc'[main] = "collect"
      BY <1>0, <1>1, <2>1, <3>1, <3>2, <3>4 DEF Phases, At
    <3> QED
      BY <1>0, <1>1, <2>1, <3>1, <3>2, <3>5, <3>6, <3>7 DEF Phases, At
  <2>4. CASE Start!Pass(w) /\ Go(w, "check start")
    <3>1. /\ startOpen /\ w \notin startArrived /\ w \notin startLeaving /\ startArrived' = startArrived
          /\ startLeaving' = startLeaving /\ startOpen' = startOpen
      BY <2>4 DEF Start!Pass, Start!Inside, Start!rvars
    <3>3. pc'[w] = "check start"
      BY <1>0, <2>4 DEF Go, PcOK
    <3> QED
      BY <1>0, <1>1, <2>1, <3>1, <3>3 DEF Phases, Resting, Busy, Ending, Rests, IsBusy, IsEnding, InRun, At
  <2>5. CASE Start!Depart(w) /\ Go(w, "check start")
    <3>1. /\ w \in startLeaving /\ startArrived' = startArrived /\ w \notin startArrived
          /\ startLeaving' = startLeaving \ {w} /\ startOpen' = startOpen
      BY <1>0, <2>5 DEF Start!Depart, Start!RTypeOK
    <3>3. pc'[w] = "check start"
      BY <1>0, <2>5 DEF Go, PcOK
    <3> QED
      BY <1>0, <1>1, <2>1, <3>1, <3>3 DEF Phases, Resting, Busy, Ending, Rests, IsBusy, IsEnding, InRun, At
  <2> QED
    BY <1>4, <2>2, <2>3, <2>4, <2>5 DEF WaitForStart, StartWait
<1>5. CASE WaitForStop(w)
  <2>1. /\ UNCHANGED startArrived /\ UNCHANGED startLeaving /\ UNCHANGED startOpen
        /\ pc[w] = "stop"
    BY <1>5 DEF WaitForStop, StopWait, At, startVars
  <2>2. CASE Stop!Arrive(w) /\ UNCHANGED pc
    <3>1. /\ ~stopOpen /\ w \notin stopLeaving /\ stopArrived' = stopArrived \cup {w}
          /\ stopLeaving' = stopLeaving /\ stopOpen' = stopOpen
      BY <2>2 DEF Stop!Arrive, Stop!Inside
    <3> QED
      BY <1>0, <1>1, <2>1, <2>2, <3>1 DEF Phases, Resting, Busy, Ending, Rests, IsBusy, IsEnding, InRun, At
  <2>3. CASE Stop!Complete(w) /\ Go(w, "check stop")
    <3>1. /\ w \notin stopLeaving /\ w \notin stopArrived /\ stopArrived \cup {w} = Threads /\ stopArrived' = {}
          /\ stopLeaving' = stopLeaving \cup stopArrived /\ stopOpen' = stopOpen
      BY <2>3 DEF Stop!Complete, Stop!Inside
    <3>2. /\ main \in stopArrived /\ main \notin stopLeaving /\ pc[main] = "collect"
          /\ \A v \in Workers : v # w => v \in stopArrived /\ pc[v] = "stop"
      BY <1>0, <3>1 DEF Phases, Stop!RTypeOK, At, Threads
    <3>3. pc'[w] = "check stop"
      BY <1>0, <2>3 DEF Go, PcOK
    <3>4. /\ w \notin stopLeaving' /\ w \notin startLeaving /\ main \in stopLeaving'
          /\ \A v \in Workers : v # w => pc'[v] = "stop" /\ v \in stopLeaving'
      BY <1>0, <1>1, <2>1, <3>1, <3>2 DEF Phases, At, Stop!RTypeOK
    <3>5. Resting' /\ ~Busy' /\ ~Ending' /\ ~Ending
      BY <1>1, <3>2, <3>4 DEF Resting, Busy, Ending
    <3>6. \A v \in Workers : Rests(v)'
      BY <3>3, <3>4 DEF Rests, At, InRun
    <3>7. /\ \A v \in Workers : v \in startArrived' \cup startLeaving' => pc'[v] = "start"
          /\ \A v \in Workers : v \in stopArrived' \cup stopLeaving' => pc'[v] = "stop"
          /\ main \in startArrived' \cup startLeaving' => pc'[main] = "release"
          /\ main \in stopArrived' \cup stopLeaving' => pc'[main] = "collect"
      BY <1>0, <1>1, <2>1, <3>1, <3>2, <3>4 DEF Phases, At
    <3> QED
      BY <1>0, <1>1, <2>1, <3>1, <3>2, <3>5, <3>6, <3>7 DEF Phases, At
  <2>4. CASE Stop!Pass(w) /\ Go(w, "check stop")
    <3>1. /\ stopOpen /\ w \notin stopArrived /\ w \notin stopLeaving /\ stopArrived' = stopArrived
          /\ stopLeaving' = stopLeaving /\ stopOpen' = stopOpen
      BY <2>4 DEF Stop!Pass, Stop!Inside, Stop!rvars
    <3>3. pc'[w] = "check stop"
      BY <1>0, <2>4 DEF Go, PcOK
    <3> QED
      BY <1>0, <1>1, <2>1, <3>1, <3>3 DEF Phases, Resting, Busy, Ending, Rests, IsBusy, IsEnding, InRun, At
  <2>5. CASE Stop!Depart(w) /\ Go(w, "check stop")
    <3>1. /\ w \in stopLeaving /\ stopArrived' = stopArrived /\ w \notin stopArrived
          /\ stopLeaving' = stopLeaving \ {w} /\ stopOpen' = stopOpen
      BY <1>0, <2>5 DEF Stop!Depart, Stop!RTypeOK
    <3>3. pc'[w] = "check stop"
      BY <1>0, <2>5 DEF Go, PcOK
    <3> QED
      BY <1>0, <1>1, <2>1, <3>1, <3>3 DEF Phases, Resting, Busy, Ending, Rests, IsBusy, IsEnding, InRun, At
  <2> QED
    BY <1>5, <2>2, <2>3, <2>4, <2>5 DEF WaitForStop, StopWait
<1> QED
  BY <1>2, <1>3, <1>4, <1>5 DEF Worker

LEMMA MainPhases ==
  ASSUME TypeOK, Phases, Main
  PROVE  Phases'
<1>0. PcOK /\ main \in Threads /\ main \notin Workers /\ Start!RTypeOK /\ Stop!RTypeOK
  BY TypeParts DEF Threads
<1>1. \A w \in Workers : pc'[w] = pc[w] /\ w # main
  BY MainFrame
<1>2. CASE BeginRound \/ Reset \/ NewWork \/ ReturnExceptions
  <2>1. /\ UNCHANGED startVars /\ UNCHANGED stopVars /\ UNCHANGED stop_flag
        /\ pc[main] \in {"idle", "reset", "new work", "return"}
        /\ pc'[main] \in {"reset", "new work", "release", "idle"}
    BY <1>0, <1>2 DEF BeginRound, Reset, NewWork, ReturnExceptions, At, Go, PcOK, poolFields
  <2>2. Resting /\ ~Busy /\ ~Ending /\ Resting' /\ ~Busy' /\ ~Ending'
    BY <2>1 DEF Phases, Resting, Busy, Ending, At, startVars, stopVars
  <2>3. ~stop_flag
    BY <2>2 DEF Phases
  <2> QED
    BY <1>0, <1>1, <2>1, <2>2, <2>3, MainMoves
<1>3. CASE Post \/ DeleteWork \/ MainStopsScheduler
  <2>1. /\ UNCHANGED startVars /\ UNCHANGED stopVars /\ UNCHANGED stop_flag
        /\ pc[main] \in {"post", "stop scheduler"}
        /\ pc'[main] \in {"post", "stop scheduler", "collect"}
    BY <1>0, <1>3 DEF Post, DeleteWork, MainStopsScheduler, At, Go, PcOK, poolFields
  <2>2. Busy /\ ~Resting /\ ~Ending /\ Busy' /\ ~Resting' /\ ~Ending'
    BY <2>1 DEF Phases, Resting, Busy, Ending, At, startVars, stopVars
  <2>3. ~stop_flag
    BY <2>2 DEF Phases
  <2> QED
    BY <1>0, <1>1, <2>1, <2>2, <2>3, MainMoves
<1>4. CASE SetStop
  <2>1. /\ UNCHANGED startVars /\ UNCHANGED stopVars /\ stop_flag' = TRUE
        /\ pc[main] = "idle" /\ pc'[main] = "unblock start"
    BY <1>0, <1>4 DEF SetStop, At, Go, PcOK
  <2>2. Resting /\ ~Ending /\ ~Resting' /\ ~Busy' /\ Ending'
    BY <2>1 DEF Resting, Busy, Ending
  <2> QED
    BY <1>0, <1>1, <2>1, <2>2, MainMoves
<1>5. CASE DropWork \/ StopService \/ JoinAll
  <2>1. /\ UNCHANGED startVars /\ UNCHANGED stopVars /\ UNCHANGED stop_flag
        /\ pc[main] \in {"drop work", "stop service", "join"}
        /\ pc'[main] \in {"stop service", "join", "stopped", "crashed"}
    BY <1>0, <1>5 DEF DropWork, StopService, JoinAll, At, Go, PcOK, poolFields
  <2>2. Ending /\ ~Resting' /\ ~Busy' /\ Ending'
    BY <2>1 DEF Resting, Busy, Ending
  <2>3. stop_flag
    BY <2>2 DEF Phases
  <2> QED
    BY <1>0, <1>1, <2>1, <2>2, <2>3, MainMoves
<1>6. CASE UnblockStart
  <2>1. /\ UNCHANGED stopArrived /\ UNCHANGED stopLeaving /\ UNCHANGED stopOpen
        /\ pc[main] = "unblock start" /\ pc'[main] = "unblock stop" /\ UNCHANGED stop_flag
    BY <1>0, <1>6 DEF UnblockStart, At, Go, PcOK, poolFields, stopVars
  <2>2. startOpen' = TRUE /\ startArrived' = {} /\ startLeaving' = startArrived \cup startLeaving
    BY <1>6 DEF UnblockStart, Start!Cancel, Start!Inside
  <2> QED
    BY <1>0, <1>1, <2>1, <2>2 DEF Phases, Resting, Busy, Ending, Rests, IsBusy, IsEnding, InRun, At
<1>7. CASE UnblockStop
  <2>1. /\ UNCHANGED startArrived /\ UNCHANGED startLeaving /\ UNCHANGED startOpen
        /\ pc[main] = "unblock stop" /\ pc'[main] = "drop work" /\ UNCHANGED stop_flag
    BY <1>0, <1>7 DEF UnblockStop, At, Go, PcOK, poolFields, startVars
  <2>2. stopOpen' = TRUE /\ stopArrived' = {} /\ stopLeaving' = stopArrived \cup stopLeaving
    BY <1>7 DEF UnblockStop, Stop!Cancel, Stop!Inside
  <2> QED
    BY <1>0, <1>1, <2>1, <2>2 DEF Phases, Resting, Busy, Ending, Rests, IsBusy, IsEnding, InRun, At
<1>8. CASE ReleaseWorkers
  <2>1. /\ UNCHANGED stopArrived /\ UNCHANGED stopLeaving /\ UNCHANGED stopOpen
        /\ pc[main] = "release" /\ UNCHANGED stop_flag
    BY <1>8 DEF ReleaseWorkers, StartWait, At, stopVars, poolFields
  <2>2. CASE Start!Arrive(main) /\ UNCHANGED pc
    <3>1. /\ ~startOpen /\ main \notin startLeaving /\ startArrived' = startArrived \cup {main}
          /\ startLeaving' = startLeaving /\ startOpen' = startOpen
      BY <2>2 DEF Start!Arrive, Start!Inside
    <3> QED
      BY <1>0, <1>1, <2>1, <2>2, <3>1 DEF Phases, Resting, Busy, Ending, Rests, IsBusy, IsEnding, InRun, At
  <2>3. CASE Start!Complete(main) /\ Go(main, "post")
    <3>1. /\ main \notin startLeaving /\ main \notin startArrived /\ startArrived \cup {main} = Threads /\ startArrived' = {}
          /\ startLeaving' = startLeaving \cup startArrived /\ startOpen' = startOpen
      BY <2>3 DEF Start!Complete, Start!Inside
    <3>2. /\ pc'[main] = "post" /\ main \notin startLeaving'
          /\ \A v \in Workers : v \in startLeaving' /\ pc[v] = "start" /\ pc'[v] = "start"
      BY <1>0, <1>1, <2>3, <3>1 DEF Phases, At, Threads, Go, PcOK
    <3>3. \A v \in Workers : IsBusy(v)'
      BY <3>2 DEF IsBusy, At
    <3> QED
      BY <1>0, <1>1, <2>1, <3>1, <3>2, <3>3 DEF Phases, Resting, Busy, Ending, At
  <2>4. CASE Start!Pass(main) /\ Go(main, "post")
    <3>1. startOpen
      BY <2>4 DEF Start!Pass
    <3> QED
      BY <2>1, <3>1 DEF Phases, Ending, At
  <2>5. CASE Start!Depart(main) /\ Go(main, "post")
    <3>1. /\ main \in startLeaving /\ startArrived' = startArrived /\ main \notin startArrived
          /\ startLeaving' = startLeaving \ {main} /\ startOpen' = startOpen
      BY <1>0, <2>5 DEF Start!Depart, Start!RTypeOK
    <3>2. pc'[main] = "post"
      BY <1>0, <2>5 DEF Go, PcOK
    <3> QED
      BY <1>0, <1>1, <2>1, <3>1, <3>2 DEF Phases, Resting, Busy, Ending, Rests, IsBusy, IsEnding, InRun, At
  <2> QED
    BY <1>8, <2>2, <2>3, <2>4, <2>5 DEF ReleaseWorkers, StartWait
<1>9. CASE WaitForWorkers
  <2>1. /\ UNCHANGED startArrived /\ UNCHANGED startLeaving /\ UNCHANGED startOpen
        /\ pc[main] = "collect" /\ UNCHANGED stop_flag
    BY <1>9 DEF WaitForWorkers, StopWait, At, startVars, poolFields
  <2>2. CASE Stop!Arrive(main) /\ UNCHANGED pc
    <3>1. /\ ~stopOpen /\ main \notin stopLeaving /\ stopArrived' = stopArrived \cup {main}
          /\ stopLeaving' = stopLeaving /\ stopOpen' = stopOpen
      BY <2>2 DEF Stop!Arrive, Stop!Inside
    <3> QED
      BY <1>0, <1>1, <2>1, <2>2, <3>1 DEF Phases, Resting, Busy, Ending, Rests, IsBusy, IsEnding, InRun, At
  <2>3. CASE Stop!Complete(main) /\ Go(main, "return")
    <3>1. /\ main \notin stopLeaving /\ main \notin stopArrived /\ stopArrived \cup {main} = Threads /\ stopArrived' = {}
          /\ stopLeaving' = stopLeaving \cup stopArrived /\ stopOpen' = stopOpen
      BY <2>3 DEF Stop!Complete, Stop!Inside
    <3>2. /\ pc'[main] = "return" /\ main \notin stopLeaving'
          /\ \A v \in Workers : v \in stopLeaving' /\ pc[v] = "stop" /\ pc'[v] = "stop"
      BY <1>0, <1>1, <2>3, <3>1 DEF Phases, At, Threads, Go, PcOK
    <3>3. \A v \in Workers : Rests(v)'
      BY <3>2 DEF Rests, At
    <3> QED
      BY <1>0, <1>1, <2>1, <3>1, <3>2, <3>3 DEF Phases, Resting, Busy, Ending, At
  <2>4. CASE Stop!Pass(main) /\ Go(main, "return")
    <3>1. stopOpen
      BY <2>4 DEF Stop!Pass
    <3> QED
      BY <2>1, <3>1 DEF Phases, Ending, At
  <2>5. CASE Stop!Depart(main) /\ Go(main, "return")
    <3>1. /\ main \in stopLeaving /\ stopArrived' = stopArrived /\ main \notin stopArrived
          /\ stopLeaving' = stopLeaving \ {main} /\ stopOpen' = stopOpen
      BY <1>0, <2>5 DEF Stop!Depart, Stop!RTypeOK
    <3>2. pc'[main] = "return"
      BY <1>0, <2>5 DEF Go, PcOK
    <3> QED
      BY <1>0, <1>1, <2>1, <3>1, <3>2 DEF Phases, Resting, Busy, Ending, Rests, IsBusy, IsEnding, InRun, At
  <2> QED
    BY <1>9, <2>2, <2>3, <2>4, <2>5 DEF WaitForWorkers, StopWait
<1> QED
  BY <1>2, <1>3, <1>4, <1>5, <1>6, <1>7, <1>8, <1>9 DEF Main, MainInCall

LEMMA InitPhases == Init => Phases
<1> SUFFICES ASSUME Init PROVE Phases
  OBVIOUS
<1>1. pc[main] = "idle" /\ \A w \in Workers : pc[w] = "start"
  BY DEF Init, Threads
<1> QED
  BY <1>1 DEF Init, Start!RInit, Stop!RInit, Phases, Resting, Busy, Ending, Rests, IsBusy, IsEnding, InRun, At

LEMMA NextPhases == TypeOK /\ Phases /\ [Next]_vars => Phases'
<1>1. ASSUME Phases, UNCHANGED vars PROVE Phases'
  <2>1. /\ UNCHANGED pc /\ UNCHANGED stop_flag
        /\ UNCHANGED startArrived /\ UNCHANGED startLeaving /\ UNCHANGED startOpen
        /\ UNCHANGED stopArrived /\ UNCHANGED stopLeaving /\ UNCHANGED stopOpen
    BY <1>1 DEF vars, startVars, stopVars, poolFields
  <2> QED
    BY <1>1, <2>1 DEF Phases, Resting, Busy, Ending, Rests, IsBusy, IsEnding, InRun, At
<1> QED
  BY <1>1, MainPhases, WorkerPhases DEF Next, Over

LEMMA SpecPhases == Spec => []Phases
BY InitPhases, NextPhases, PoolType, PTL DEF Spec

(* Between execute() and the next ready(), and while ready() prepares the   *)
(* scheduler, no worker takes part in a round.                              *)
THEOREM PoolQuiescent == Spec => []Quiescent
<1>1. Phases => Quiescent
  BY DEF Phases, Resting, Rests, InRound, InRun, At, Quiescent, BetweenRounds
<1> QED
  BY <1>1, SpecPhases, PTL

-----------------------------------------------------------------------------
LEMMA LessOne == \A n \in Nat : n > 0 => n # 0 /\ (n = 1 => n - 1 = 0)
OBVIOUS

(* A worker stops the scheduler only when nothing is outstanding, and never *)
(* while main prepares a round.                                             *)
LEMMA WorkerStopInv ==
  ASSUME WorkInv, Phases, StopInv, NEW w \in Workers, Worker(w)
  PROVE  StopInv'
<1> DEFINE stopping == {"last job", "stop scheduler"}
<1>1. TypeOK /\ PcOK /\ SchedulerOK /\ w \in Threads /\ Start!RTypeOK /\ Stop!RTypeOK
  BY TypeParts DEF WorkInv, Threads
<1>2. /\ \A t \in Threads : t # w => pc'[t] = pc[t]
      /\ pc'[main] = pc[main]
  BY <1>1, WorkerFrame
<1>3. CASE FinishJob(w)
  <2>1. /\ outstanding_work # 0
        /\ outstanding_work = 1 => outstanding_work' = 0
        /\ UNCHANGED stopped
        /\ pc'[w] = IF outstanding_work = 1 THEN "last job" ELSE AfterJob(w)
    <3>1. pc[w] \in {"execute", "finish"}
      BY <1>3 DEF FinishJob, At
    <3>2. outstanding_work \in Nat /\ outstanding_work > 0
      BY <1>1, <3>1, Outstanding, Zenon DEF SchedulerOK
    <3>3. outstanding_work # 0 /\ (outstanding_work = 1 => outstanding_work' = 0)
      BY <1>3, <3>2, LessOne, Zenon DEF FinishJob
    <3>4. pc'[w] = IF outstanding_work = 1 THEN "last job" ELSE AfterJob(w)
      BY <1>1, <1>3 DEF FinishJob, Go, PcOK
    <3> QED
      BY <1>3, <3>3, <3>4, Zenon DEF FinishJob
  <2>2. /\ \A t \in Threads : pc[t] \notin stopping
        /\ stopped => pc[main] \in {"join", "stopped"}
    BY <2>1 DEF StopInv
  <2>3. pc'[w] \in stopping => outstanding_work' = 0
    BY <2>1 DEF AfterJob
  <2> QED
    BY <1>2, <2>1, <2>2, <2>3 DEF StopInv, At
<1>4. CASE StopScheduler(w)
  <2>1. /\ pc[w] \in stopping /\ UNCHANGED outstanding_work /\ stopped' = TRUE
    BY <1>4 DEF StopScheduler, At
  <2>2. outstanding_work = 0
    BY <1>1, <2>1 DEF StopInv
  <2>3. pc[main] # "new work"
    BY <2>1 DEF Phases, Resting, Rests, At
  <2> QED
    BY <1>2, <2>1, <2>2, <2>3 DEF StopInv, At
<1>5. CASE ~FinishJob(w) /\ ~StopScheduler(w)
  <2>1. UNCHANGED outstanding_work /\ UNCHANGED stopped
    BY <1>5 DEF Worker, WaitForStart, StartWait, CheckStop, Run, TakeJob, LeaveRun, RunJob,
         Catch, WaitForStop, StopWait, scheduler
  <2>2. pc'[w] \in stopping => pc[w] \in stopping \/ outstanding_work = 0
    BY <1>1, <1>5 DEF Worker, WaitForStart, StartWait, CheckStop, Run, TakeJob, LeaveRun, RunJob,
         Catch, WaitForStop, StopWait, Go, PcOK
  <2>3. \A t \in Threads : pc'[t] \in stopping => outstanding_work = 0
    BY <1>1, <1>2, <2>2 DEF StopInv
  <2> QED
    BY <1>2, <2>1, <2>3 DEF StopInv, At
<1> QED
  BY <1>3, <1>4, <1>5

(* Main adds work only when no worker is about to stop the scheduler.       *)
LEMMA MainStopInv ==
  ASSUME WorkInv, Phases, StopInv, Main
  PROVE  StopInv'
<1> DEFINE stopping == {"last job", "stop scheduler"}
<1>1. TypeOK /\ PcOK /\ SchedulerOK /\ WorkLive /\ main \in Threads /\ main \notin Workers
      /\ Start!RTypeOK /\ Stop!RTypeOK
  BY TypeParts DEF WorkInv, Threads
<1>2. /\ \A w \in Workers : pc'[w] = pc[w]
      /\ \A t \in Threads : t = main \/ t \in Workers
  BY <1>1, MainFrame DEF Threads
<1>3. CASE NewWork
  <2>1. /\ pc[main] = "new work" /\ pc'[main] = "release" /\ UNCHANGED stopped
    BY <1>1, <1>3 DEF NewWork, At, Go, PcOK
  <2>2. ~stopped /\ \A w \in Workers : pc[w] \notin stopping
    BY <2>1 DEF StopInv, Phases, Resting, Rests, At
  <2> QED
    BY <1>2, <2>1, <2>2 DEF StopInv, At
<1>4. CASE Post \/ DeleteWork
  <2>1. outstanding_work # 0 /\ (outstanding_work = 1 => outstanding_work - 1 = 0)
    <3>1. work = "live"
      BY <1>1, <1>4 DEF Post, DeleteWork, At, WorkLive
    <3>2. outstanding_work \in Nat /\ outstanding_work > 0
      BY <1>1, <3>1, Outstanding, Zenon DEF SchedulerOK
    <3> QED
      BY <3>2, LessOne, Zenon
  <2>2. /\ pc[main] = "post" /\ UNCHANGED stopped
    BY <1>4 DEF Post, DeleteWork, At
  <2>3. ~stopped /\ \A t \in Threads : pc[t] \notin stopping
    BY <2>1, <2>2 DEF StopInv
  <2>4. \/ pc'[main] \in {"post", "collect"}
        \/ pc'[main] = "stop scheduler" /\ outstanding_work' = 0
    <3>1. CASE Post
      BY <2>2, <3>1 DEF Post
    <3>2. CASE DeleteWork
      <4>1. pc'[main] = IF outstanding_work = 1 THEN "stop scheduler" ELSE "collect"
        BY <1>1, <3>2 DEF DeleteWork, Go, PcOK
      <4>2. outstanding_work = 1 => outstanding_work' = 0
        BY <2>1, <3>2, Zenon DEF DeleteWork
      <4> QED
        BY <4>1, <4>2
    <3> QED
      BY <1>4, <3>1, <3>2
  <2> QED
    BY <1>2, <2>2, <2>3, <2>4 DEF StopInv, At
<1>5. CASE MainStopsScheduler \/ Reset \/ StopService
  <2>1. /\ UNCHANGED outstanding_work
        /\ \/ pc[main] = "stop scheduler" /\ pc'[main] = "collect" /\ stopped' = TRUE
           \/ pc[main] = "reset" /\ pc'[main] = "new work" /\ stopped' = FALSE
           \/ pc[main] = "stop service" /\ pc'[main] = "join" /\ stopped' = TRUE
    BY <1>1, <1>5 DEF MainStopsScheduler, Reset, StopService, At, Go, PcOK
  <2> QED
    BY <1>1, <1>2, <2>1 DEF StopInv, At
<1>6. CASE ~(NewWork \/ Post \/ DeleteWork \/ MainStopsScheduler \/ Reset \/ StopService)
  <2>1. UNCHANGED outstanding_work /\ UNCHANGED stopped
    BY <1>6 DEF Main, MainInCall, BeginRound, ReleaseWorkers, StartWait, WaitForWorkers, StopWait,
      ReturnExceptions, SetStop, UnblockStart, UnblockStop, DropWork, JoinAll, scheduler
  <2>2. /\ pc'[main] \in {"stop scheduler", "new work"} => pc'[main] = pc[main]
        /\ pc'[main] # "last job"
        /\ pc[main] \in {"join", "stopped"} => pc'[main] \in {"join", "stopped"}
    BY <1>1, <1>6 DEF Main, MainInCall, BeginRound, ReleaseWorkers, StartWait, WaitForWorkers,
      StopWait, ReturnExceptions, SetStop, UnblockStart, UnblockStop, DropWork, JoinAll,
      At, Go, PcOK, MainPCs
  <2> QED
    BY <1>1, <1>2, <2>1, <2>2 DEF StopInv, At
<1> QED
  BY <1>3, <1>4, <1>5, <1>6

LEMMA InitStopInv == Init => StopInv
<1> SUFFICES ASSUME Init PROVE StopInv
  OBVIOUS
<1>1. \A t \in Threads : pc[t] \in {"idle", "start"}
  BY DEF Init
<1> QED
  BY <1>1 DEF Init, StopInv, At, Threads

LEMMA NextStopInv == WorkInv /\ Phases /\ StopInv /\ [Next]_vars => StopInv'
<1>1. ASSUME StopInv, UNCHANGED vars PROVE StopInv'
  <2>1. UNCHANGED pc /\ UNCHANGED outstanding_work /\ UNCHANGED stopped
    BY <1>1 DEF vars, scheduler
  <2> QED
    BY <1>1, <2>1 DEF StopInv, At
<1> QED
  BY <1>1, MainStopInv, WorkerStopInv DEF Next, Over

(* In a round the scheduler is stopped only when no job is left, so that no *)
(* worker leaves run() early.                                               *)
THEOREM PoolStoppedMeansDone == Spec => []StoppedMeansDone
<1>1. StopInv => StoppedMeansDone
  BY DEF StopInv, StoppedMeansDone
<1>2. Spec => []StopInv
  BY InitStopInv, NextStopInv, SpecWorkInv, SpecPhases, PTL DEF Spec
<1> QED
  BY <1>1, <1>2, PTL

-----------------------------------------------------------------------------
\* The pool's steps on the scheduler are those of WorkQueue.

phases == [w \in Workers |-> Phase(w)]

(* A step that changes the phase of one worker, or of none.                 *)
LEMMA PhaseGoes ==
  ASSUME NEW w \in Workers, NEW p, Phase(w)' = p,
         \A u \in Workers : u # w => Phase(u)' = Phase(u)
  PROVE  phases' = [phases EXCEPT ![w] = p]
BY DEF phases

LEMMA PhasesStay ==
  ASSUME \A u \in Workers : Phase(u)' = Phase(u)
  PROVE  phases' = phases
BY DEF phases

LEMMA WorkerUsesQueue ==
  ASSUME TypeOK, NEW w \in Workers, Worker(w)
  PROVE  [Queue!QNext]_(Queue!qvars)
<1>0. PcOK /\ w \in Threads /\ w # main /\ Start!RTypeOK /\ Stop!RTypeOK
  BY TypeParts DEF Threads
<1>1. CASE WaitForStart(w) \/ WaitForStop(w)
  <2>1. /\ UNCHANGED scheduler /\ UNCHANGED locals
        /\ pc[w] \in {"start", "stop"}
        /\ \/ UNCHANGED pc
           \/ \E l \in {"check start", "check stop"} : Go(w, l)
    BY <1>0, <1>1, StartWaitTypes, StopWaitTypes DEF WaitForStart, WaitForStop, At
  <2>2. \A u \in Workers : Phase(u)' = Phase(u)
    <3>1. CASE UNCHANGED pc
      BY <2>1, <3>1 DEF Phase, At, locals
    <3>2. ASSUME NEW l \in {"check start", "check stop"}, Go(w, l)
          PROVE  \A u \in Workers : Phase(u)' = Phase(u)
      <4>1. pc'[w] = l /\ \A t \in Threads : t # w => pc'[t] = pc[t]
        BY <1>0, <3>2, WorkerGoes DEF WorkerPCs
      <4> QED
        BY <2>1, <4>1 DEF Phase, At, locals, Threads
    <3> QED
      BY <2>1, <3>1, <3>2
  <2> QED
    BY <2>1, <2>2, PhasesStay DEF Queue!qvars, phases, scheduler, locals
<1>2. CASE CheckStop(w) \/ LeaveRun(w) \/ Catch(w) \/ RunJob(w)
  <2>1. CASE CheckStop(w) \/ Catch(w) \/ RunJob(w)
    <3>1. PICK l \in {"exited", "run", "stop", "start", "check run", "finish"} : Go(w, l)
      BY <2>1 DEF CheckStop, Catch, RunJob
    <3>2. pc'[w] = l /\ \A t \in Threads : t # w => pc'[t] = pc[t]
      BY <1>0, <3>1, WorkerGoes DEF WorkerPCs
    <3>3. /\ UNCHANGED scheduler /\ UNCHANGED job
          /\ \/ /\ pc[w] \in {"check start", "check run", "check stop", "caught"}
                /\ l # "finish"
             \/ pc[w] = "execute" /\ pc'[w] = "finish"
      <4>1. CASE CheckStop(w)
        BY <1>0, <3>2, <4>1 DEF CheckStop, At, locals, Go, PcOK
      <4>2. CASE Catch(w)
        BY <1>0, <3>2, <4>2 DEF Catch, At, locals, Go, PcOK
      <4>3. CASE RunJob(w)
        BY <1>0, <4>3 DEF RunJob, At, Go, PcOK
      <4> QED
        BY <2>1, <4>1, <4>2, <4>3
    <3>4. Phase(w)' = Phase(w)
      BY <3>2, <3>3 DEF Phase, At
    <3>5. \A u \in Workers : u # w => UNCHANGED threw[u]
      BY <2>1, TypeParts DEF CheckStop, Catch, RunJob, locals, LocalsOK
    <3>6. phases' = phases
      BY <3>2, <3>4, <3>5, PhasesStay DEF Phase, At, Threads
    <3> QED
      BY <3>3, <3>6 DEF Queue!qvars, phases, scheduler
  <2>2. CASE LeaveRun(w)
    <3>1. /\ pc'[w] = "check run" /\ \A t \in Threads : t # w => pc'[t] = pc[t]
      BY <1>0, <2>2, WorkerGoes DEF LeaveRun, WorkerPCs
    <3>2. phases' = [phases EXCEPT ![w] = "out"]
      BY <2>2, <3>1, PhaseGoes DEF LeaveRun, Phase, At, Threads, locals
    <3>3. Queue!Leave(w)
      BY <2>2, <3>2 DEF LeaveRun, Queue!Leave, phases, Phase, At, scheduler, locals
    <3> QED
      BY <3>3 DEF Queue!QNext, Queue!Serve
  <2> QED
    BY <1>2, <2>1, <2>2
<1>3. CASE Run(w)
  <2>1. /\ pc'[w] = (IF outstanding_work = 0 THEN "stop scheduler" ELSE "loop")
        /\ \A t \in Threads : t # w => pc'[t] = pc[t]
    <3>1. (IF outstanding_work = 0 THEN "stop scheduler" ELSE "loop") \in WorkerPCs
      BY DEF WorkerPCs
    <3> QED
      BY <1>0, <1>3, <3>1, WorkerGoes DEF Run
  <2>2. phases' = [phases EXCEPT ![w] = IF outstanding_work = 0 THEN "leaving" ELSE "in"]
    BY <1>3, <2>1, PhaseGoes DEF Run, Phase, At, Threads, locals
  <2>3. Queue!Enter(w)
    BY <1>3, <2>2 DEF Run, Queue!Enter, phases, Phase, At, scheduler, locals
  <2> QED
    BY <2>3 DEF Queue!QNext
<1>4. CASE TakeJob(w)
  <2>1. pc'[w] = "execute" /\ \A t \in Threads : t # w => pc'[t] = pc[t]
    BY <1>0, <1>4, WorkerGoes DEF TakeJob, WorkerPCs
  <2>2. phases' = [phases EXCEPT ![w] = "busy"]
    BY <1>4, <2>1, PhaseGoes DEF TakeJob, Phase, At, Threads
  <2>3. Queue!Take(w)
    BY <1>4, <2>2 DEF TakeJob, Queue!Take, phases, Phase, At
  <2> QED
    BY <2>3 DEF Queue!QNext, Queue!Serve
<1>5. CASE FinishJob(w)
  <2>1. /\ pc'[w] = (IF outstanding_work = 1 THEN "last job" ELSE AfterJob(w))
        /\ \A t \in Threads : t # w => pc'[t] = pc[t]
    <3>1. (IF outstanding_work = 1 THEN "last job" ELSE AfterJob(w)) \in WorkerPCs
      BY DEF WorkerPCs, AfterJob
    <3> QED
      BY <1>0, <1>5, <3>1, WorkerGoes DEF FinishJob
  <2>2. phases' = [phases EXCEPT ![w] = IF outstanding_work = 1
                     THEN IF threw[w] THEN "leaving" ELSE "ending"
                     ELSE IF threw[w] THEN "out" ELSE "in"]
    BY <1>5, <2>1, PhaseGoes DEF FinishJob, AfterJob, Phase, At, Threads
  <2>3. threw[w] \in BOOLEAN
    BY TypeParts DEF LocalsOK
  <2>4. Queue!Finish(w)
    BY <1>5, <2>2, <2>3 DEF FinishJob, Queue!Finish, phases, Phase, At
  <2> QED
    BY <2>4 DEF Queue!QNext, Queue!Serve
<1>6. CASE StopScheduler(w)
  <2>1. /\ \/ pc[w] = "last job" /\ pc'[w] = AfterJob(w)
           \/ pc[w] = "stop scheduler" /\ pc'[w] = "check run"
        /\ \A t \in Threads : t # w => pc'[t] = pc[t]
    <3>1. {AfterJob(w), "check run"} \subseteq WorkerPCs
      BY DEF WorkerPCs, AfterJob
    <3> QED
      BY <1>0, <1>6, <3>1, WorkerGoes DEF StopScheduler, At
  <2>2. /\ phases[w] \in {"ending", "leaving"}
        /\ Phase(w)' = IF phases[w] = "ending" THEN "in" ELSE "out"
    BY <1>6, <2>1 DEF StopScheduler, AfterJob, Phase, phases, At, locals
  <2>3. phases' = [phases EXCEPT ![w] = IF phases[w] = "ending" THEN "in" ELSE "out"]
    BY <1>6, <2>1, <2>2, PhaseGoes DEF StopScheduler, Phase, At, Threads, locals
  <2>4. Queue!StopLast(w)
    BY <1>6, <2>2, <2>3 DEF StopScheduler, Queue!StopLast, phases, locals
  <2> QED
    BY <2>4 DEF Queue!QNext, Queue!Serve
<1> QED
  BY <1>1, <1>2, <1>3, <1>4, <1>5, <1>6 DEF Worker

(* Reset is allowed because the pool rests: no worker is in run().          *)
LEMMA MainUsesQueue ==
  ASSUME WorkInv, Phases, Main
  PROVE  [Queue!QNext]_(Queue!qvars)
<1>0. PcOK /\ HistoryOK /\ main \notin Workers /\ main \in Threads /\ TypeOK
      /\ Start!RTypeOK /\ Stop!RTypeOK
  BY TypeParts DEF WorkInv, Threads
<1>1. (\A u \in Workers : pc'[u] = pc[u]) /\ UNCHANGED threw => phases' = phases
  BY PhasesStay DEF Phase, At
<1>2. (\E l \in MainPCs : Go(main, l)) => \A u \in Workers : pc'[u] = pc[u]
  BY <1>0, MainGoes DEF Threads
<1>3. CASE Reset
  <2>1. phases' = phases
    BY <1>1, <1>2, <1>3 DEF Reset, locals, MainPCs
  <2>2. \A u \in Workers : phases[u] = "out"
    BY <1>3 DEF Reset, Phases, Resting, Rests, phases, Phase, At
  <2>3. Queue!Restart
    BY <1>3, <2>1, <2>2 DEF Reset, Queue!Restart, phases, locals
  <2> QED
    BY <2>3 DEF Queue!QNext
<1>4. CASE NewWork
  <2>1. phases' = phases
    BY <1>1, <1>2, <1>4 DEF NewWork, locals, MainPCs
  <2>2. Queue!Hold
    BY <1>4, <2>1 DEF NewWork, Queue!Hold, phases, locals
  <2> QED
    BY <2>2 DEF Queue!QNext
<1>5. CASE DeleteWork
  <2>1. (IF outstanding_work = 1 THEN "stop scheduler" ELSE "collect") \in MainPCs
    BY DEF MainPCs
  <2>2. phases' = phases
    BY <1>1, <1>2, <1>5, <2>1 DEF DeleteWork, locals
  <2>3. Queue!Release
    BY <1>5, <2>2 DEF DeleteWork, Queue!Release, phases, locals
  <2> QED
    BY <2>3 DEF Queue!QNext
<1>6. CASE MainStopsScheduler \/ StopService
  <2>1. phases' = phases
    BY <1>1, <1>2, <1>6 DEF MainStopsScheduler, StopService, locals, MainPCs
  <2>2. Queue!Stop
    BY <1>6, <2>1 DEF MainStopsScheduler, StopService, Queue!Stop, phases, locals
  <2> QED
    BY <2>2 DEF Queue!QNext
<1>7. CASE Post
  <2>1. phases' = phases
    BY <1>1, <1>7 DEF Post, locals
  <2>2. <<round, posted + 1>> \in JobIds
    <3>1. round > 0 /\ round \in 0 .. MaxRounds /\ posted \in 0 .. NJobs /\ posted < NJobs
      BY <1>0, <1>7 DEF Post, WorkInv, JobsKnown, At, HistoryOK
    <3>2. round \in Rounds /\ posted + 1 \in 1 .. NJobs
      BY <3>1 DEF Rounds
    <3> QED
      BY <3>2 DEF JobIds
  <2>3. Queue!Post(<<round, posted + 1>>)
    BY <1>7, <2>1 DEF Post, Queue!Post, phases, locals
  <2> QED
    BY <2>2, <2>3 DEF Queue!QNext
<1>8. CASE ReleaseWorkers \/ WaitForWorkers
  <2>1. /\ UNCHANGED scheduler /\ UNCHANGED locals
        /\ UNCHANGED pc \/ \E l \in {"post", "return"} : Go(main, l)
    BY <1>0, <1>8, StartWaitTypes, StopWaitTypes DEF ReleaseWorkers, WaitForWorkers
  <2>2. \A u \in Workers : pc'[u] = pc[u]
    BY <1>2, <2>1 DEF MainPCs
  <2> QED
    BY <1>1, <2>1, <2>2 DEF Queue!qvars, phases, scheduler, locals
<1>9. CASE \/ BeginRound \/ SetStop \/ ReturnExceptions \/ UnblockStart
           \/ UnblockStop \/ DropWork \/ JoinAll
  <2>1. /\ UNCHANGED scheduler /\ UNCHANGED locals
        /\ \E l \in MainPCs : Go(main, l)
    BY <1>9 DEF BeginRound, SetStop, ReturnExceptions, UnblockStart, UnblockStop,
                DropWork, JoinAll, MainPCs
  <2> QED
    BY <1>1, <1>2, <2>1 DEF Queue!qvars, phases, scheduler, locals
<1> QED
  BY <1>3, <1>4, <1>5, <1>6, <1>7, <1>8, <1>9 DEF Main, MainInCall

LEMMA InitUsesQueue == Init => Queue!QInit
<1> SUFFICES ASSUME Init
             PROVE  Queue!QInit
  OBVIOUS
<1>1. \A w \in Workers : pc[w] = "start"
  BY DEF Init, Threads
<1>2. phases = [w \in Workers |-> "out"]
  BY <1>1 DEF phases, Phase, At
<1> QED
  BY <1>2 DEF Init, Queue!QInit, phases

LEMMA NextUsesQueue ==
  WorkInv /\ Phases /\ [Next]_vars => [Queue!QNext]_(Queue!qvars)
<1>1. ASSUME UNCHANGED vars
      PROVE  UNCHANGED Queue!qvars
  BY <1>1 DEF vars, scheduler, locals, Queue!qvars, Phase, At
<1>2. WorkInv => TypeOK
  BY DEF WorkInv
<1> QED
  BY <1>1, <1>2, WorkerUsesQueue, MainUsesQueue DEF Next, Over

(* The pool and asio's scheduler meet in one contract: all the pool does    *)
(* with the scheduler is allowed by it, the restart above all.              *)
THEOREM PoolUsesWorkQueue == Spec => UsesWorkQueue
BY SpecWorkInv, SpecPhases, InitUsesQueue, NextUsesQueue, PTL
   DEF Spec, UsesWorkQueue, Queue!QSafety

-----------------------------------------------------------------------------
(***************************************************************************)
(* What execute() promises, for every number of workers, jobs and rounds:  *)
(* the round is complete unless every worker caught an exception, jobs     *)
(* left over by such a round are the only ones that run later, and the     *)
(* result counts the jobs that threw.                                      *)
(***************************************************************************)

\* A job that has been posted and has not run: queued, or taken by a worker.
Held == {q \in JobIds : \/ \E n \in 1 .. Len(op_queue) : op_queue[n] = q
                        \/ \E w \in Workers : pc[w] = "execute" /\ job[w] = q}
Ended == done \cup failed

\* The round before its start barrier and after its stop barrier; Busy is
\* the time between.
Starting == \/ pc[main] \in {"reset", "new work"}
            \/ pc[main] = "release" /\ main \notin startLeaving
Reported == \/ pc[main] = "return"
            \/ pc[main] = "collect" /\ main \in stopLeaving
Rounding == Starting \/ Busy \/ Reported

\* Workers that have left run() and, unless the scheduler is stopped, have
\* left it by an exception.
Left == {w \in Workers : pc[w] \in {"check run", "stop"}}

\* 4. What becomes of the jobs of a round.
CountsLeft  == Busy /\ ~stopped => exceptions = Cardinality(Left)
FreshRound  == Starting => exceptions = 0 /\ posted = 0
PostedKept  == Busy => \A j \in 1 .. posted : <<round, j>> \in Held \/ j \in RanIn(round)
AllPosted   == Busy /\ pc[main] \in {"stop scheduler", "collect"} => posted = NJobs
Outcome     == Reported => \/ exceptions = Cardinality(Workers)
                           \/ op_queue = <<>> /\ RanIn(round) = 1 .. NJobs
ResultSoFar == round = IF Rounding THEN Len(result) + 1 ELSE Len(result)
HeldOver    == \A q \in Held : q[1] \in 1 .. Len(result) => result[q[1]] = Cardinality(Workers)

RoundInv == /\ CountsLeft /\ FreshRound /\ PostedKept /\ AllPosted /\ Outcome
            /\ ResultSoFar /\ HeldOver /\ RoundComplete

\* 5. No job runs twice, and who throws is counted once.
Uncaught    == {w \in Workers : pc[w] \in {"finish", "last job", "caught"} /\ threw[w]}
FailedIn(r) == {f \in failed : f[2] = r}

QueuedOnce  == \A m, n \in 1 .. Len(op_queue) : op_queue[m] = op_queue[n] => m = n
TakenOnce   == \A w \in Workers : pc[w] = "execute" =>
                  /\ \A n \in 1 .. Len(op_queue) : op_queue[n] # job[w]
                  /\ \A v \in Workers : pc[v] = "execute" /\ job[v] = job[w] => v = w
RunOnce     == \A q \in Held, r \in Rounds : <<q, r>> \notin Ended
PostedOnce  == /\ \A q \in Held : q[1] = round => q[2] <= posted
               /\ \A f \in Ended : f[1][1] = round => f[1][2] <= posted
EndedBefore == \A f \in Ended : f[1][1] <= f[2] /\ f[2] <= round
CaughtThrew == \A w \in Workers : pc[w] = "caught" => threw[w]
CountsFails == Rounding => exceptions + Cardinality(Uncaught) = Cardinality(FailedIn(round))

JobsOnce == QueuedOnce /\ TakenOnce /\ RunOnce /\ PostedOnce /\ EndedBefore
FailInv  == CaughtThrew /\ CountsFails /\ ResultCountsFailures

-----------------------------------------------------------------------------
\* How a step may move the pool through its round.

Same   == (Starting' <=> Starting) /\ (Busy' <=> Busy) /\ (Reported' <=> Reported)
Opens  == /\ Starting /\ Busy'
          /\ \A w \in Workers : pc'[w] \in {"start", "check start"}
Closes == /\ Busy /\ Reported' /\ pc[main] = "collect"
          /\ \A w \in Workers : pc[w] = "stop"
AtBarrier == UNCHANGED <<scheduler, poolFields, locals, history>>

(* Starting, Busy, Reported and the time between rounds exclude each other. *)
LEMMA Exclusive ==
  /\ Starting => ~Busy /\ ~Reported /\ ~Ending /\ Resting
  /\ Busy => ~Starting /\ ~Reported /\ ~Ending /\ ~Resting
  /\ Reported => ~Starting /\ ~Busy /\ ~Ending /\ Resting
  /\ pc[main] = "idle" => ~Rounding /\ Resting
  /\ Ending => ~Rounding
  /\ TypeOK => Rounding \/ Ending \/ pc[main] = "idle"
<1>1. TypeOK => pc[main] \in MainPCs
  BY DEF TypeOK
<1>2. TypeOK => Rounding \/ Ending \/ pc[main] = "idle"
  BY <1>1 DEF Rounding, Starting, Busy, Reported, Ending, MainPCs
<1> QED
  BY <1>2 DEF Rounding, Starting, Busy, Reported, Ending, Resting

LEMMA WorkerSteps ==
  ASSUME TypeOK, Phases, NEW w \in Workers, Worker(w)
  PROVE  Same \/ (Opens /\ AtBarrier) \/ (Closes /\ AtBarrier)
<1>0. PcOK /\ w \in Threads /\ w # main /\ Start!RTypeOK /\ Stop!RTypeOK
  BY TypeParts DEF Threads
<1>1. /\ \A v \in Workers : v # w => pc'[v] = pc[v]
      /\ pc'[main] = pc[main]
  BY <1>0, WorkerFrame DEF Threads
<1>2. CASE WaitForStart(w)
  <2>1. UNCHANGED stopLeaving /\ AtBarrier /\ pc[w] = "start"
    BY <1>2 DEF WaitForStart, StartWait, At, stopVars, AtBarrier
  <2>2. CASE Start!Complete(w) /\ Go(w, "check start")
    <3>1. /\ w \notin startArrived /\ startArrived \cup {w} = Threads
          /\ startLeaving' = startLeaving \cup startArrived
      BY <2>2 DEF Start!Complete, Start!Inside
    <3>2. /\ main \in startArrived /\ main \notin startLeaving /\ pc[main] = "release"
          /\ \A v \in Workers : v # w => v \in startArrived /\ pc[v] = "start"
      BY <1>0, <3>1 DEF Phases, Start!RTypeOK, At, Threads
    <3>3. pc'[w] = "check start" /\ main \in startLeaving'
      BY <1>0, <2>2, <3>1, <3>2 DEF Go, PcOK
    <3> QED
      BY <1>1, <2>1, <3>2, <3>3 DEF Opens, Starting, Busy
  <2>3. CASE ~(Start!Complete(w) /\ Go(w, "check start"))
    <3>1. main \in startLeaving' <=> main \in startLeaving
      BY <1>0, <1>2, <2>3 DEF WaitForStart, StartWait, Start!Arrive, Start!Pass, Start!Depart, Start!rvars
    <3> QED
      BY <1>1, <2>1, <3>1 DEF Same, Starting, Busy, Reported
  <2> QED
    BY <2>2, <2>3
<1>3. CASE WaitForStop(w)
  <2>1. UNCHANGED startLeaving /\ AtBarrier /\ pc[w] = "stop"
    BY <1>3 DEF WaitForStop, StopWait, At, startVars, AtBarrier
  <2>2. CASE Stop!Complete(w) /\ Go(w, "check stop")
    <3>1. /\ w \notin stopArrived /\ stopArrived \cup {w} = Threads
          /\ stopLeaving' = stopLeaving \cup stopArrived
      BY <2>2 DEF Stop!Complete, Stop!Inside
    <3>2. /\ main \in stopArrived /\ main \notin stopLeaving /\ pc[main] = "collect"
          /\ \A v \in Workers : v # w => v \in stopArrived /\ pc[v] = "stop"
      BY <1>0, <3>1 DEF Phases, Stop!RTypeOK, At, Threads
    <3>3. main \in stopLeaving'
      BY <3>1, <3>2
    <3> QED
      BY <1>1, <2>1, <3>2, <3>3 DEF Closes, Reported, Busy
  <2>3. CASE ~(Stop!Complete(w) /\ Go(w, "check stop"))
    <3>1. main \in stopLeaving' <=> main \in stopLeaving
      BY <1>0, <1>3, <2>3 DEF WaitForStop, StopWait, Stop!Arrive, Stop!Pass, Stop!Depart, Stop!rvars
    <3> QED
      BY <1>1, <2>1, <3>1 DEF Same, Starting, Busy, Reported
  <2> QED
    BY <2>2, <2>3
<1>4. CASE ~WaitForStart(w) /\ ~WaitForStop(w)
  <2>1. UNCHANGED startLeaving /\ UNCHANGED stopLeaving
    BY <1>4 DEF Worker, CheckStop, Run, TakeJob, LeaveRun, RunJob, FinishJob,
         StopScheduler, Catch, startVars, stopVars
  <2> QED
    BY <1>1, <2>1 DEF Same, Starting, Busy, Reported
<1> QED
  BY <1>2, <1>3, <1>4

LEMMA MainSteps ==
  ASSUME TypeOK, Phases, Main, ~BeginRound, ~ReturnExceptions
  PROVE  Same \/ (Opens /\ AtBarrier) \/ (Closes /\ AtBarrier)
<1>0. PcOK /\ main \in Threads /\ main \notin Workers /\ Start!RTypeOK /\ Stop!RTypeOK
  BY TypeParts DEF Threads
<1>1. \A w \in Workers : pc'[w] = pc[w] /\ w # main
  BY MainFrame
<1>2. CASE Reset \/ NewWork \/ Post \/ DeleteWork \/ MainStopsScheduler
  <2>1. /\ UNCHANGED startLeaving /\ UNCHANGED stopLeaving
        /\ \/ pc[main] = "reset" /\ pc'[main] = "new work"
           \/ pc[main] = "new work" /\ pc'[main] = "release"
           \/ pc[main] = "post" /\ pc'[main] \in {"post", "stop scheduler", "collect"}
           \/ pc[main] = "stop scheduler" /\ pc'[main] = "collect"
    BY <1>0, <1>2 DEF Reset, NewWork, Post, DeleteWork, MainStopsScheduler, At, Go, PcOK, startVars, stopVars
  <2> QED
    BY <2>1 DEF Phases, At, Same, Starting, Busy, Reported
<1>3. CASE SetStop \/ UnblockStart \/ UnblockStop \/ DropWork \/ StopService \/ JoinAll
  <2>1. /\ pc[main] \in {"idle", "unblock start", "unblock stop", "drop work", "stop service", "join"}
        /\ pc'[main] \in {"unblock start", "unblock stop", "drop work", "stop service",
                          "join", "stopped", "crashed"}
    BY <1>0, <1>3 DEF SetStop, UnblockStart, UnblockStop, DropWork, StopService, JoinAll, At, Go, PcOK
  <2> QED
    BY <2>1 DEF Same, Starting, Busy, Reported
<1>4. CASE ReleaseWorkers
  <2>1. AtBarrier /\ pc[main] = "release" /\ UNCHANGED stopLeaving
    BY <1>4 DEF ReleaseWorkers, StartWait, At, stopVars, AtBarrier
  <2>2. CASE Start!Complete(main) /\ Go(main, "post")
    <3>1. main \notin startLeaving /\ startArrived \cup {main} = Threads
      BY <2>2 DEF Start!Complete, Start!Inside
    <3>2. pc'[main] = "post" /\ \A v \in Workers : pc'[v] = "start"
      BY <1>0, <1>1, <2>2, <3>1 DEF Phases, At, Threads, Go, PcOK
    <3> QED
      BY <2>1, <3>1, <3>2 DEF Opens, Starting, Busy
  <2>3. CASE Start!Arrive(main) /\ UNCHANGED pc
    BY <2>1, <2>3 DEF Start!Arrive, Same, Starting, Busy, Reported
  <2>4. CASE Start!Pass(main)
    BY <2>1, <2>4 DEF Start!Pass, Phases, Ending, At
  <2>5. CASE Start!Depart(main) /\ Go(main, "post")
    BY <1>0, <2>1, <2>5 DEF Start!Depart, Go, PcOK, Same, Starting, Busy, Reported
  <2> QED
    BY <1>4, <2>2, <2>3, <2>4, <2>5 DEF ReleaseWorkers, StartWait
<1>5. CASE WaitForWorkers
  <2>1. AtBarrier /\ pc[main] = "collect" /\ UNCHANGED startLeaving
    BY <1>5 DEF WaitForWorkers, StopWait, At, startVars, AtBarrier
  <2>2. CASE Stop!Complete(main) /\ Go(main, "return")
    <3>1. main \notin stopLeaving /\ stopArrived \cup {main} = Threads
      BY <2>2 DEF Stop!Complete, Stop!Inside
    <3>2. pc'[main] = "return" /\ \A v \in Workers : pc[v] = "stop"
      BY <1>0, <1>1, <2>2, <3>1 DEF Phases, At, Threads, Go, PcOK
    <3> QED
      BY <2>1, <3>1, <3>2 DEF Closes, Reported, Busy
  <2>3. CASE Stop!Arrive(main) /\ UNCHANGED pc
    BY <2>1, <2>3 DEF Stop!Arrive, Same, Starting, Busy, Reported
  <2>4. CASE Stop!Pass(main)
    BY <2>1, <2>4 DEF Stop!Pass, Phases, Ending, At
  <2>5. CASE Stop!Depart(main) /\ Go(main, "return")
    BY <1>0, <2>1, <2>5 DEF Stop!Depart, Go, PcOK, Same, Starting, Busy, Reported
  <2> QED
    BY <1>5, <2>2, <2>3, <2>4, <2>5 DEF WaitForWorkers, StopWait
<1> QED
  BY <1>2, <1>3, <1>4, <1>5 DEF Main, MainInCall

-----------------------------------------------------------------------------
\* What a step does to the jobs that are held and to those that ended.

LEMMA KnownJobs == HistoryOK => SinceRound \subseteq JobIds
<1>1. HistoryOK => round \in Nat /\ round <= MaxRounds
  BY DEF HistoryOK
<1>2. HistoryOK => 1 .. round \subseteq 1 .. MaxRounds
  BY <1>1
<1> QED
  BY <1>2 DEF SinceRound, JobIds, Rounds

LEMMA WorkerHeld ==
  ASSUME WorkInv, NEW w \in Workers, Worker(w)
  PROVE  /\ Held' \subseteq Held
         /\ ~RunJob(w) => Held' = Held /\ Ended' = Ended /\ UNCHANGED failed
         /\ RunJob(w) => /\ job[w] \in Held /\ pc[w] = "execute" /\ pc'[w] = "finish"
                         /\ \A q \in Held : q \in Held' \/ q = job[w]
                         /\ Ended' = Ended \cup {<<job[w], round>>}
                         /\ UNCHANGED op_queue /\ UNCHANGED job /\ UNCHANGED exceptions
<1>1. /\ PcOK /\ SchedulerOK /\ LocalsOK /\ HistoryOK /\ JobsKnown /\ w \in Threads /\ TypeOK
  BY TypeParts DEF WorkInv, Threads
<1>2. \A v \in Workers : v # w => pc'[v] = pc[v]
  BY <1>1, WorkerFrame DEF Threads
<1>3. CASE TakeJob(w)
  <2>1. /\ pc[w] = "loop" /\ pc'[w] = "execute" /\ op_queue # <<>>
        /\ op_queue' = Tail(op_queue) /\ UNCHANGED done /\ UNCHANGED failed
        /\ job' = [job EXCEPT ![w] = Head(op_queue)]
    BY <1>1, <1>3 DEF TakeJob, At, Go, PcOK, history
  <2>2. /\ Len(op_queue) \in Nat /\ Len(op_queue) >= 1
        /\ Head(op_queue) = op_queue[1]
        /\ Len(Tail(op_queue)) = Len(op_queue) - 1
        /\ \A n \in 1 .. Len(Tail(op_queue)) : Tail(op_queue)[n] = op_queue[n + 1]
    BY <1>1, <2>1, HeadTailProperties, EmptySeq, LenProperties DEF SchedulerOK
  <2>3. job'[w] = op_queue[1] /\ \A v \in Workers : v # w => job'[v] = job[v]
    BY <1>1, <2>1, <2>2 DEF LocalsOK
  <2>4. \A q : (\E n \in 1 .. Len(op_queue) : op_queue[n] = q)
                 <=> q = op_queue[1] \/ \E n \in 1 .. Len(op_queue') : op_queue'[n] = q
    <3> SUFFICES ASSUME NEW q
                 PROVE  (\E n \in 1 .. Len(op_queue) : op_queue[n] = q)
                          <=> q = op_queue[1] \/ \E n \in 1 .. Len(op_queue') : op_queue'[n] = q
      OBVIOUS
    <3>1. ASSUME NEW n \in 1 .. Len(op_queue), op_queue[n] = q, n # 1
          PROVE  \E m \in 1 .. Len(op_queue') : op_queue'[m] = q
      <4>1. n - 1 \in 1 .. Len(op_queue') /\ op_queue'[n - 1] = op_queue[(n - 1) + 1] /\ (n - 1) + 1 = n
        BY <2>1, <2>2, <3>1
      <4> QED
        BY <3>1, <4>1
    <3>2. ASSUME NEW n \in 1 .. Len(op_queue'), op_queue'[n] = q
          PROVE  \E m \in 1 .. Len(op_queue) : op_queue[m] = q
      <4>1. n + 1 \in 1 .. Len(op_queue) /\ op_queue'[n] = op_queue[n + 1]
        BY <2>1, <2>2
      <4> QED
        BY <3>2, <4>1
    <3>3. 1 \in 1 .. Len(op_queue)
      BY <2>2
    <3> QED
      BY <3>1, <3>2, <3>3
  <2>5. \A q : (\E v \in Workers : pc'[v] = "execute" /\ job'[v] = q)
                 <=> q = op_queue[1] \/ \E v \in Workers : pc[v] = "execute" /\ job[v] = q
    BY <1>2, <2>1, <2>3
  <2>6. Held' = Held
    BY <2>4, <2>5 DEF Held
  <2> QED
    BY <2>1, <2>6 DEF Ended, RunJob, At
<1>4. CASE RunJob(w)
  <2>1. /\ pc[w] = "execute" /\ pc'[w] = "finish" /\ UNCHANGED op_queue /\ UNCHANGED job
        /\ UNCHANGED exceptions
    BY <1>1, <1>4 DEF RunJob, At, Go, PcOK, scheduler, poolFields
  <2>2. job[w] \in JobIds
    BY <1>1, <2>1, KnownJobs DEF JobsKnown
  <2>3. job[w] \in Held
    BY <2>1, <2>2 DEF Held
  <2>4. Held' \subseteq Held /\ \A q \in Held : q \in Held' \/ q = job[w]
    BY <1>2, <2>1 DEF Held
  <2>5. Ended' = Ended \cup {<<job[w], round>>}
    BY <1>4 DEF RunJob, Ended
  <2> QED
    BY <1>4, <2>1, <2>3, <2>4, <2>5
<1>5. CASE ~TakeJob(w) /\ ~RunJob(w)
  <2>1. UNCHANGED op_queue /\ UNCHANGED done /\ UNCHANGED failed
    BY <1>5 DEF Worker, WaitForStart, StartWait, CheckStop, Run, LeaveRun, FinishJob,
         StopScheduler, Catch, WaitForStop, StopWait, scheduler, history
  <2>2. pc[w] # "execute" /\ pc'[w] # "execute"
    BY <1>1, <1>5 DEF Worker, WaitForStart, StartWait, CheckStop, Run, LeaveRun, FinishJob,
         StopScheduler, Catch, WaitForStop, StopWait, AfterJob, At, Go, PcOK
  <2>3. \A v \in Workers : v # w => job'[v] = job[v]
    BY <1>1, <1>5 DEF Worker, WaitForStart, StartWait, CheckStop, Run, LeaveRun, FinishJob,
         StopScheduler, Catch, WaitForStop, StopWait, locals, LocalsOK
  <2>4. Held' = Held
    BY <1>2, <2>1, <2>2, <2>3 DEF Held
  <2> QED
    BY <1>5, <2>1, <2>4 DEF Ended
<1> QED
  BY <1>3, <1>4, <1>5

LEMMA MainHeld ==
  ASSUME WorkInv, Main
  PROVE  /\ Ended' = Ended /\ UNCHANGED failed
         /\ ~Post => Held' = Held /\ UNCHANGED op_queue
         /\ Post => /\ <<round, posted + 1>> \in JobIds
                    /\ Held' = Held \cup {<<round, posted + 1>>}
                    /\ posted \in Nat /\ posted' = posted + 1
                    /\ op_queue' = Append(op_queue, <<round, posted + 1>>)
                    /\ pc[main] = "post" /\ UNCHANGED pc
<1>1. PcOK /\ SchedulerOK /\ HistoryOK /\ JobsKnown /\ TypeOK
  BY TypeParts DEF WorkInv
<1>2. /\ \A w \in Workers : pc'[w] = pc[w]
      /\ UNCHANGED job /\ UNCHANGED done /\ UNCHANGED failed
  BY <1>1, MainFrame
<1>3. CASE ~Post
  <2>1. UNCHANGED op_queue
    BY <1>3 DEF Main, MainInCall, BeginRound, Reset, NewWork, ReleaseWorkers, StartWait, DeleteWork,
         MainStopsScheduler, WaitForWorkers, StopWait, ReturnExceptions, SetStop, UnblockStart,
         UnblockStop, DropWork, StopService, JoinAll, scheduler
  <2> QED
    BY <1>2, <1>3, <2>1 DEF Held, Ended
<1>4. CASE Post
  <2>1. /\ pc[main] = "post" /\ UNCHANGED pc /\ posted < NJobs
        /\ posted' = posted + 1 /\ op_queue' = Append(op_queue, <<round, posted + 1>>)
    BY <1>4 DEF Post, At
  <2>2. /\ posted \in Nat /\ posted + 1 \in 1 .. NJobs
        /\ round \in Rounds
    BY <1>1, <2>1 DEF HistoryOK, JobsKnown, Rounds
  <2>3. <<round, posted + 1>> \in JobIds
    BY <2>2 DEF JobIds
  <2> DEFINE new == <<round, posted + 1>>
  <2>4. /\ Len(op_queue) \in Nat /\ Len(op_queue') = Len(op_queue) + 1
        /\ op_queue'[Len(op_queue) + 1] = new
        /\ \A n \in 1 .. Len(op_queue) : op_queue'[n] = op_queue[n]
    BY <1>1, <2>1, <2>3, AppendProperties, LenProperties DEF SchedulerOK
  <2> HIDE DEF new
  <2>5. \A q : (\E n \in 1 .. Len(op_queue') : op_queue'[n] = q)
                 <=> q = new \/ \E n \in 1 .. Len(op_queue) : op_queue[n] = q
    BY <2>4
  <2>6. \A q : (\E w \in Workers : pc'[w] = "execute" /\ job'[w] = q)
                 <=> \E w \in Workers : pc[w] = "execute" /\ job[w] = q
    BY <1>2
  <2>7. Held' = Held \cup {new}
    BY <2>3, <2>5, <2>6 DEF Held, new
  <2> QED
    BY <1>2, <1>4, <2>1, <2>2, <2>3, <2>7 DEF new, Ended
<1> QED
  BY <1>3, <1>4

(* A job that ended in a round stays so.                                    *)
LEMMA RanGrows ==
  ASSUME Ended \subseteq Ended'
  PROVE  \A r : RanIn(r) \subseteq RanIn(r)'
BY DEF RanIn, Ended

LEMMA HeldKnown == WorkInv => Held \subseteq SinceRound
BY DEF WorkInv, JobsKnown, Held

-----------------------------------------------------------------------------
\* 4. What becomes of the jobs of a round.

LEMMA CountLeft ==
  /\ IsFiniteSet(Left) /\ Cardinality(Left) \in Nat
  /\ \A w \in Workers : w \notin Left => Cardinality(Left \cup {w}) = Cardinality(Left) + 1
<1>1. IsFiniteSet(Left)
  BY FS_Subset DEF Left, PoolAssumption
<1> QED
  BY <1>1, FS_CardinalityType, FS_AddElement

(* While the scheduler runs, a worker leaves run() by an exception only,    *)
(* which it counts.                                                         *)
LEMMA WorkerCountsLeft ==
  ASSUME WorkInv, Phases, RoundInv, NEW w \in Workers, Worker(w)
  PROVE  CountsLeft'
<1> SUFFICES ASSUME Busy', ~stopped'
             PROVE  exceptions' = Cardinality(Left')
  BY DEF CountsLeft
<1>1. /\ TypeOK /\ PcOK /\ PoolOK /\ w \in Threads
  BY TypeParts DEF WorkInv, Threads
<1>2. \A v \in Workers : v # w => pc'[v] = pc[v]
  BY <1>1, WorkerFrame DEF Threads
<1>3. CASE Opens /\ AtBarrier
  <2>1. exceptions' = 0
    BY <1>3 DEF RoundInv, FreshRound, Opens, AtBarrier, poolFields
  <2>2. Left' = {}
    BY <1>3 DEF Left, Opens
  <2> QED
    BY <2>1, <2>2, FS_EmptySet
<1>4. CASE Same
  <2>1. Busy /\ IsBusy(w)
    BY <1>4 DEF Same, Phases
  <2>2. CASE Catch(w)
    <3>1. /\ pc[w] = "caught" /\ pc'[w] = "check run" /\ ~stopped
          /\ exceptions' = exceptions + 1
      BY <1>1, <2>2 DEF Catch, At, Go, PcOK, scheduler
    <3>2. w \notin Left /\ Left' = Left \cup {w}
      BY <1>2, <3>1 DEF Left
    <3> QED
      BY <2>1, <3>1, <3>2, CountLeft DEF RoundInv, CountsLeft
  <2>3. CASE ~Catch(w)
    <3>1. UNCHANGED exceptions
      BY <2>3 DEF Worker, WaitForStart, StartWait, CheckStop, Run, TakeJob, LeaveRun, RunJob,
           FinishJob, StopScheduler, WaitForStop, StopWait, poolFields
    <3>2. ~LeaveRun(w) /\ ~StopScheduler(w) /\ ~stopped
      <4>1. ~StopScheduler(w)
        BY DEF StopScheduler
      <4>2. UNCHANGED stopped
        BY <4>1 DEF Worker, WaitForStart, StartWait, CheckStop, Run, TakeJob, LeaveRun, RunJob,
           FinishJob, Catch, WaitForStop, StopWait, scheduler
      <4> QED
        BY <4>1, <4>2 DEF LeaveRun
    <3>3. CASE CheckStop(w)
      <4>1. ~stop_flag
        BY <2>1, Exclusive DEF Phases
      <4>2. \/ pc[w] = "check start" /\ pc'[w] = "run"
            \/ pc[w] = "check run" /\ pc'[w] = "stop"
            \/ pc[w] = "check stop" /\ pc'[w] = "start"
        BY <1>1, <3>3, <4>1 DEF CheckStop, At, Go, PcOK
      <4>3. Left' = Left
        BY <1>2, <4>2 DEF Left
      <4> QED
        BY <2>1, <3>1, <3>2, <4>3 DEF RoundInv, CountsLeft
    <3>4. CASE WaitForStop(w)
      <4>1. w \notin stopLeaving /\ ~stopOpen
        BY <2>1, <3>4, Exclusive DEF WaitForStop, At, IsBusy, InRun, Phases
      <4>2. CASE UNCHANGED pc
        BY <2>1, <3>1, <3>2, <4>2 DEF RoundInv, CountsLeft, Left
      <4>3. CASE Stop!Complete(w)
        <5>1. main \in stopArrived /\ main \in stopLeaving'
          BY <1>1, <4>3 DEF Stop!Complete, Stop!Inside, Threads
        <5>2. pc'[main] = "collect"
          BY <1>1, <5>1, WorkerFrame DEF Phases, At
        <5> QED
          BY <5>1, <5>2 DEF Busy
      <4> QED
        BY <3>4, <4>1, <4>2, <4>3 DEF WaitForStop, StopWait, Stop!Pass, Stop!Depart
    <3>5. CASE ~CheckStop(w) /\ ~WaitForStop(w)
      <4>1. pc[w] \notin {"check run", "stop"} /\ pc'[w] \notin {"check run", "stop"}
        BY <1>1, <2>3, <3>2, <3>5 DEF Worker, WaitForStart, StartWait, Run, TakeJob, RunJob,
           FinishJob, AfterJob, At, Go, PcOK
      <4>2. Left' = Left
        BY <1>2, <4>1 DEF Left
      <4> QED
        BY <2>1, <3>1, <3>2, <4>2 DEF RoundInv, CountsLeft
    <3> QED
      BY <3>3, <3>4, <3>5
  <2> QED
    BY <2>2, <2>3
<1>5. CASE Closes /\ AtBarrier
  BY <1>5 DEF Closes, Busy, Reported
<1> QED
  BY <1>1, <1>3, <1>4, <1>5, WorkerSteps DEF WorkInv

LEMMA MainCountsLeft ==
  ASSUME WorkInv, Phases, RoundInv, Main
  PROVE  CountsLeft'
<1> SUFFICES ASSUME Busy', ~stopped'
             PROVE  exceptions' = Cardinality(Left')
  BY DEF CountsLeft
<1>1. TypeOK /\ PcOK /\ Left' = Left
  BY TypeParts, MainFrame DEF WorkInv, Left
<1>2. CASE BeginRound \/ ReturnExceptions
  BY <1>1, <1>2 DEF BeginRound, ReturnExceptions, Go, PcOK, Busy, Threads
<1>3. CASE Opens /\ AtBarrier
  <2>1. exceptions' = 0
    BY <1>3 DEF RoundInv, FreshRound, Opens, AtBarrier, poolFields
  <2>2. Left' = {}
    BY <1>3 DEF Left, Opens
  <2> QED
    BY <2>1, <2>2, FS_EmptySet
<1>4. CASE Closes /\ AtBarrier
  BY <1>4 DEF Closes, Busy, Reported
<1>5. CASE Same /\ ~BeginRound /\ ~ReturnExceptions
  <2>1. Busy
    BY <1>5 DEF Same
  <2>2. UNCHANGED exceptions
    BY <1>5 DEF Main, MainInCall, Reset, NewWork, ReleaseWorkers, StartWait, Post, DeleteWork,
         MainStopsScheduler, WaitForWorkers, StopWait, SetStop, UnblockStart,
         UnblockStop, DropWork, StopService, JoinAll, poolFields
  <2>3. ~Reset
    BY <2>1 DEF Reset, At, Busy
  <2>4. stopped' = stopped \/ stopped' = TRUE
    BY <1>5, <2>3 DEF Main, MainInCall, NewWork, ReleaseWorkers, StartWait, Post, DeleteWork,
         MainStopsScheduler, WaitForWorkers, StopWait, SetStop, UnblockStart,
         UnblockStop, DropWork, StopService, JoinAll, scheduler
  <2> QED
    BY <1>1, <2>1, <2>2, <2>4 DEF RoundInv, CountsLeft
<1> QED
  BY <1>1, <1>2, <1>3, <1>4, <1>5, MainSteps

(* While the workers rest, nothing moves on the scheduler.                  *)
LEMMA RestingWorker ==
  ASSUME TypeOK, Phases, Resting, NEW w \in Workers, Worker(w)
  PROVE  /\ UNCHANGED scheduler /\ UNCHANGED exceptions /\ UNCHANGED history
         /\ ~RunJob(w) /\ pc[w] \in {"start", "stop", "check stop"}
<1>1. pc[w] \in {"start", "stop", "check stop"}
  BY DEF Phases, Rests, At
<1>2. WaitForStart(w) \/ CheckStop(w) \/ WaitForStop(w)
  BY <1>1 DEF Worker, Run, TakeJob, LeaveRun, RunJob, FinishJob, StopScheduler, Catch, At
<1> QED
  BY <1>1, <1>2 DEF WaitForStart, StartWait, CheckStop, WaitForStop, StopWait, poolFields, RunJob, At

(* While the workers rest, no job is held but by the queue.                 *)
LEMMA RestingHeld ==
  ASSUME Phases, Resting, op_queue = <<>>
  PROVE  Held = {}
<1>1. \A w \in Workers : pc[w] # "execute"
  BY DEF Phases, Rests, At
<1>2. Len(op_queue) = 0
  BY EmptySeq
<1> QED
  BY <1>1, <1>2 DEF Held

LEMMA NextFreshRound ==
  ASSUME WorkInv, Phases, RoundInv, [Next]_vars
  PROVE  FreshRound'
<1> SUFFICES ASSUME Starting' PROVE exceptions' = 0 /\ posted' = 0
  BY DEF FreshRound
<1>1. TypeOK /\ PcOK /\ main \in Threads
  BY TypeParts DEF WorkInv, Threads
<1>2. ASSUME Same PROVE Starting /\ Resting
  BY <1>2, Exclusive DEF Same
<1>3. ~Opens /\ ~Closes
  BY DEF Opens, Closes, Starting, Busy, Reported
<1>4. ASSUME NEW w \in Workers, Worker(w) PROVE exceptions' = 0 /\ posted' = 0
  <2>1. Same
    BY <1>1, <1>3, <1>4, WorkerSteps
  <2> QED
    BY <1>1, <1>2, <1>4, <2>1, RestingWorker DEF RoundInv, FreshRound, history
<1>5. CASE Main
  <2>1. CASE BeginRound
    BY <2>1 DEF BeginRound
  <2>2. CASE ReturnExceptions
    BY <1>1, <2>2 DEF ReturnExceptions, Go, PcOK, Starting
  <2>3. CASE ~BeginRound /\ ~ReturnExceptions
    <3>1. Starting
      BY <1>1, <1>2, <1>3, <1>5, <2>3, MainSteps
    <3>2. UNCHANGED exceptions /\ UNCHANGED posted
      BY <1>5, <2>3, <3>1 DEF Main, MainInCall, Reset, NewWork, ReleaseWorkers, StartWait, Post, DeleteWork,
         MainStopsScheduler, WaitForWorkers, StopWait, SetStop, UnblockStart,
         UnblockStop, DropWork, StopService, JoinAll, poolFields, history, Starting, At
    <3> QED
      BY <3>1, <3>2 DEF RoundInv, FreshRound
  <2> QED
    BY <2>1, <2>2, <2>3
<1>6. CASE UNCHANGED vars
  BY <1>6 DEF vars, poolFields, history, startVars, RoundInv, FreshRound, Starting
<1> QED
  BY <1>4, <1>5, <1>6 DEF Next, Over

LEMMA NextAllPosted ==
  ASSUME WorkInv, Phases, RoundInv, [Next]_vars
  PROVE  AllPosted'
<1> SUFFICES ASSUME Busy', pc'[main] \in {"stop scheduler", "collect"} PROVE posted' = NJobs
  BY DEF AllPosted
<1>1. TypeOK /\ PcOK /\ main \in Threads
  BY TypeParts DEF WorkInv, Threads
<1>2. ~Closes /\ (Same => Busy)
  BY DEF Closes, Busy, Reported, Same
<1>3. ASSUME NEW w \in Workers, Worker(w) PROVE posted' = NJobs
  <2>1. UNCHANGED posted /\ pc'[main] = pc[main]
    BY <1>1, <1>3, WorkerFrame
  <2>2. Busy
    BY <1>1, <1>2, <1>3, <2>1, WorkerSteps DEF Opens, Starting
  <2> QED
    BY <2>1, <2>2 DEF RoundInv, AllPosted
<1>4. CASE Main
  <2>1. CASE DeleteWork
    BY <2>1 DEF DeleteWork, history
  <2>2. CASE MainStopsScheduler
    BY <1>1, <2>2 DEF MainStopsScheduler, At, history, RoundInv, AllPosted, Busy
  <2>3. CASE WaitForWorkers
    <3>1. ~Opens /\ ~BeginRound /\ ~ReturnExceptions
      BY <2>3 DEF WaitForWorkers, BeginRound, ReturnExceptions, At, Opens, Starting
    <3> QED
      BY <1>1, <1>2, <1>4, <2>3, <3>1, MainSteps DEF WaitForWorkers, At, history, RoundInv, AllPosted
  <2>4. CASE ~(DeleteWork \/ MainStopsScheduler \/ WaitForWorkers)
    BY <1>1, <1>4, <2>4 DEF Main, MainInCall, BeginRound, Reset, NewWork, ReleaseWorkers, StartWait, Post,
         ReturnExceptions, SetStop, UnblockStart, UnblockStop, DropWork, StopService, JoinAll,
         At, Go, PcOK
  <2> QED
    BY <2>1, <2>2, <2>3, <2>4
<1>5. CASE UNCHANGED vars
  BY <1>5 DEF vars, startVars, stopVars, history, RoundInv, AllPosted, Busy
<1> QED
  BY <1>3, <1>4, <1>5 DEF Next, Over

LEMMA WorkerPostedKept ==
  ASSUME WorkInv, Phases, RoundInv, NEW w \in Workers, Worker(w)
  PROVE  PostedKept'
<1> SUFFICES ASSUME Busy', NEW j \in 1 .. posted'
             PROVE  <<round', j>> \in Held' \/ j \in RanIn(round)'
  BY DEF PostedKept
<1>1. TypeOK /\ HistoryOK /\ UNCHANGED round /\ UNCHANGED posted
  BY TypeParts, WorkerFrame DEF WorkInv
<1>2. CASE Opens
  <2>1. posted = 0
    BY <1>2 DEF Opens, RoundInv, FreshRound
  <2> QED
    BY <1>1, <2>1
<1>3. CASE Busy
  <2>1. <<round, j>> \in Held \/ j \in RanIn(round)
    BY <1>1, <1>3 DEF RoundInv, PostedKept
  <2>2. Ended \subseteq Ended'
    BY WorkerHeld
  <2>3. CASE <<round, j>> \in Held
    <3>1. ASSUME RunJob(w), job[w] = <<round, j>> PROVE j \in RanIn(round)'
      <4>1. j \in 1 .. NJobs
        BY <1>1 DEF HistoryOK
      <4>2. <<<<round, j>>, round>> \in Ended'
        BY <3>1, WorkerHeld
      <4> QED
        BY <1>1, <4>1, <4>2 DEF RanIn, Ended
    <3> QED
      BY <1>1, <2>3, <3>1, WorkerHeld
  <2>4. CASE j \in RanIn(round)
    BY <1>1, <2>2, <2>4, RanGrows
  <2> QED
    BY <2>1, <2>3, <2>4
<1>4. ~Closes /\ (Same => Busy)
  BY DEF Closes, Busy, Reported, Same
<1> QED
  BY <1>1, <1>2, <1>3, <1>4, WorkerSteps

LEMMA MainPostedKept ==
  ASSUME WorkInv, Phases, RoundInv, Main
  PROVE  PostedKept'
<1> SUFFICES ASSUME Busy', NEW j \in 1 .. posted'
             PROVE  <<round', j>> \in Held' \/ j \in RanIn(round)'
  BY DEF PostedKept
<1>1. TypeOK /\ PcOK /\ main \in Threads
  BY TypeParts DEF WorkInv, Threads
<1>2. Ended' = Ended /\ \A r : RanIn(r) \subseteq RanIn(r)'
  BY MainHeld, RanGrows
<1>3. ~BeginRound /\ ~ReturnExceptions
  BY <1>1 DEF BeginRound, ReturnExceptions, Go, PcOK, Busy
<1>4. UNCHANGED round /\ (~Post => UNCHANGED posted)
  BY <1>3 DEF Main, MainInCall, Reset, NewWork, ReleaseWorkers, StartWait, Post, DeleteWork,
       MainStopsScheduler, WaitForWorkers, StopWait, SetStop, UnblockStart,
       UnblockStop, DropWork, StopService, JoinAll, history
<1>5. CASE Post
  <2>1. Busy
    BY <1>5, MainHeld DEF Busy
  <2>2. posted \in Nat /\ posted' = posted + 1
    BY <1>5, MainHeld
  <2>3. j = posted + 1 \/ j \in 1 .. posted
    BY <2>2
  <2> QED
    BY <1>2, <1>4, <1>5, <2>1, <2>3, MainHeld DEF RoundInv, PostedKept
<1>6. CASE Opens /\ ~Post
  <2>1. posted = 0
    BY <1>6 DEF Opens, RoundInv, FreshRound
  <2> QED
    BY <1>4, <1>6, <2>1
<1>7. CASE Same /\ ~Post
  <2>1. Busy
    BY <1>7 DEF Same
  <2> QED
    BY <1>2, <1>4, <1>7, <2>1, MainHeld DEF RoundInv, PostedKept
<1>8. ~Closes
  BY DEF Closes, Busy, Reported
<1> QED
  BY <1>1, <1>3, <1>5, <1>6, <1>7, <1>8, MainSteps

(* When the stop barrier lets main go, either every worker has caught an    *)
(* exception or all jobs have run.                                          *)
LEMMA ClosingOutcome ==
  ASSUME WorkInv, Phases, StopInv, RoundInv, Closes
  PROVE  \/ exceptions = Cardinality(Workers)
         \/ op_queue = <<>> /\ RanIn(round) = 1 .. NJobs
<1>1. Busy /\ pc[main] = "collect" /\ \A w \in Workers : pc[w] = "stop"
  BY DEF Closes
<1>2. CASE stopped
  <2>1. outstanding_work = 0 /\ op_queue = <<>>
    BY <1>1, <1>2, Outstanding DEF StopInv
  <2>2. Len(op_queue) = 0 /\ Held = {}
    BY <1>1, <2>1, EmptySeq DEF Held
  <2>3. posted = NJobs
    BY <1>1 DEF RoundInv, AllPosted
  <2>4. \A j \in 1 .. NJobs : j \in RanIn(round)
    BY <1>1, <2>2, <2>3 DEF RoundInv, PostedKept
  <2> QED
    BY <2>1, <2>4 DEF RanIn
<1>3. CASE ~stopped
  <2>1. Left = Workers
    BY <1>1 DEF Left
  <2> QED
    BY <1>1, <1>3, <2>1 DEF RoundInv, CountsLeft
<1> QED
  BY <1>2, <1>3

LEMMA NextOutcome ==
  ASSUME WorkInv, Phases, StopInv, RoundInv, [Next]_vars
  PROVE  Outcome'
<1> DEFINE Good == \/ exceptions = Cardinality(Workers)
                   \/ op_queue = <<>> /\ RanIn(round) = 1 .. NJobs
<1> SUFFICES ASSUME Reported' PROVE Good'
  BY DEF Outcome
<1>1. TypeOK /\ PcOK /\ main \in Threads
  BY TypeParts DEF WorkInv, Threads
<1>2. ASSUME Good, UNCHANGED exceptions, UNCHANGED op_queue, UNCHANGED round,
             UNCHANGED done, UNCHANGED failed
      PROVE  Good'
  BY <1>2 DEF RanIn
<1>3. ASSUME Closes, AtBarrier PROVE Good'
  <2>1. Good
    BY <1>3, ClosingOutcome
  <2> QED
    BY <1>2, <1>3, <2>1 DEF AtBarrier, scheduler, poolFields, history
<1>4. ~Opens /\ (Same => Reported /\ Resting)
  BY Exclusive DEF Opens, Busy, Reported, Same
<1>5. Reported => Good
  BY DEF RoundInv, Outcome
<1> HIDE DEF Good
<1>6. ASSUME NEW w \in Workers, Worker(w) PROVE Good'
  <2>1. CASE Same
    BY <1>1, <1>2, <1>4, <1>5, <1>6, <2>1, RestingWorker DEF scheduler, history
  <2> QED
    BY <1>1, <1>3, <1>4, <1>6, <2>1, WorkerSteps
<1>7. CASE Main
  <2>1. CASE BeginRound \/ ReturnExceptions
    BY <1>1, <2>1 DEF BeginRound, ReturnExceptions, Go, PcOK, Reported
  <2>2. CASE ~BeginRound /\ ~ReturnExceptions /\ Same
    <3>1. Reported
      BY <1>4, <2>2
    <3>2. WaitForWorkers
      BY <1>7, <2>2, <3>1 DEF Main, MainInCall, Reset, NewWork, ReleaseWorkers, Post, DeleteWork,
         MainStopsScheduler, SetStop, UnblockStart, UnblockStop, DropWork, StopService, JoinAll,
         At, Reported
    <3> QED
      BY <1>2, <1>5, <3>1, <3>2 DEF WaitForWorkers, StopWait, scheduler, poolFields, history
  <2> QED
    BY <1>1, <1>3, <1>4, <1>7, <2>1, <2>2, MainSteps
<1>8. CASE UNCHANGED vars
  <2>1. Reported
    BY <1>8 DEF vars, stopVars, Reported
  <2> QED
    BY <1>2, <1>5, <1>8, <2>1 DEF vars, scheduler, poolFields, history
<1> QED
  BY <1>6, <1>7, <1>8 DEF Next, Over

(* execute() returns once in each round.                                    *)
LEMMA NextResultSoFar ==
  ASSUME WorkInv, Phases, RoundInv, [Next]_vars
  PROVE  ResultSoFar'
<1>1. TypeOK /\ PcOK /\ HistoryOK /\ main \in Threads
  BY TypeParts DEF WorkInv, Threads
<1>2. result \in Seq(Nat) /\ Len(result) \in Nat
  BY <1>1, LenProperties DEF HistoryOK
<1>3. ResultSoFar
  BY DEF RoundInv
<1>4. ASSUME UNCHANGED round, UNCHANGED result, Rounding' <=> Rounding
      PROVE  ResultSoFar'
  BY <1>3, <1>4 DEF ResultSoFar
<1>5. Same \/ Opens \/ Closes => (Rounding' <=> Rounding)
  BY DEF Same, Opens, Closes, Rounding
<1>6. ASSUME NEW w \in Workers, Worker(w) PROVE ResultSoFar'
  BY <1>1, <1>4, <1>5, <1>6, WorkerSteps, WorkerFrame
<1>7. CASE Main
  <2>1. CASE BeginRound
    <3>1. pc[main] = "idle" /\ pc'[main] = "reset" /\ round' = round + 1 /\ UNCHANGED result
      BY <1>1, <2>1 DEF BeginRound, At, Go, PcOK
    <3>2. ~Rounding /\ Rounding'
      BY <3>1, Exclusive DEF Rounding, Starting
    <3> QED
      BY <1>2, <1>3, <3>1, <3>2 DEF ResultSoFar
  <2>2. CASE ReturnExceptions
    <3>1. /\ pc[main] = "return" /\ pc'[main] = "idle" /\ UNCHANGED round
          /\ result' = Append(result, exceptions) /\ exceptions \in Nat
      BY <1>1, <2>2, TypeParts DEF ReturnExceptions, At, Go, PcOK, PoolOK
    <3>2. Rounding /\ ~Rounding'
      BY <3>1 DEF Rounding, Starting, Busy, Reported
    <3>3. Len(result') = Len(result) + 1
      BY <1>2, <3>1, AppendProperties
    <3> QED
      BY <1>2, <1>3, <3>1, <3>2, <3>3 DEF ResultSoFar
  <2>3. CASE ~BeginRound /\ ~ReturnExceptions
    <3>1. UNCHANGED round /\ UNCHANGED result
      BY <1>7, <2>3 DEF Main, MainInCall, Reset, NewWork, ReleaseWorkers, StartWait, Post, DeleteWork,
         MainStopsScheduler, WaitForWorkers, StopWait, SetStop, UnblockStart,
         UnblockStop, DropWork, StopService, JoinAll, history
    <3> QED
      BY <1>1, <1>4, <1>5, <1>7, <2>3, <3>1, MainSteps
  <2> QED
    BY <2>1, <2>2, <2>3
<1>8. CASE UNCHANGED vars
  BY <1>4, <1>8 DEF vars, startVars, stopVars, history, Rounding, Starting, Busy, Reported
<1> QED
  BY <1>6, <1>7, <1>8 DEF Next, Over

(* What the end of a round adds to the results.                             *)
LEMMA ReturnAppends ==
  ASSUME WorkInv, RoundInv, ReturnExceptions
  PROVE  /\ Reported /\ round = Len(result) + 1 /\ Len(result) \in Nat
         /\ Len(result') = Len(result) + 1
         /\ result'[round] = exceptions
         /\ \A r \in 1 .. Len(result) : result'[r] = result[r]
         /\ UNCHANGED <<scheduler, locals, round, posted, done, failed>>
<1>1. result \in Seq(Nat) /\ exceptions \in Nat
  BY TypeParts DEF WorkInv, HistoryOK, PoolOK
<1>2. Reported /\ result' = Append(result, exceptions)
  BY DEF ReturnExceptions, At, Reported
<1>3. round = Len(result) + 1
  BY <1>2 DEF RoundInv, ResultSoFar, Rounding
<1>4. /\ Len(result) \in Nat /\ Len(result') = Len(result) + 1
      /\ result'[Len(result) + 1] = exceptions
      /\ \A r \in 1 .. Len(result) : result'[r] = result[r]
  BY <1>1, <1>2, AppendProperties, LenProperties
<1> QED
  BY <1>2, <1>3, <1>4 DEF ReturnExceptions

LEMMA NextHeldOver ==
  ASSUME WorkInv, Phases, RoundInv, [Next]_vars
  PROVE  HeldOver'
<1> SUFFICES ASSUME NEW q \in Held', q[1] \in 1 .. Len(result')
             PROVE  result'[q[1]] = Cardinality(Workers)
  BY DEF HeldOver
<1>1. TypeOK /\ HistoryOK
  BY TypeParts DEF WorkInv
<1>2. ASSUME q \in Held, UNCHANGED result PROVE result'[q[1]] = Cardinality(Workers)
  BY <1>2 DEF RoundInv, HeldOver
<1>3. ASSUME NEW w \in Workers, Worker(w)
      PROVE  result'[q[1]] = Cardinality(Workers)
  BY <1>1, <1>2, <1>3, WorkerFrame, WorkerHeld
<1>4. CASE Post
  <2>1. UNCHANGED result /\ Busy
    BY <1>4 DEF Post, At, Busy
  <2>2. round = Len(result) + 1 /\ Len(result) \in Nat
    BY <1>1, <2>1, LenProperties DEF RoundInv, ResultSoFar, Rounding, HistoryOK
  <2>3. q # <<round, posted + 1>>
    BY <2>1, <2>2
  <2>4. q \in Held
    BY <1>4, <2>3, MainHeld DEF Main, MainInCall
  <2> QED
    BY <1>2, <2>1, <2>4
<1>5. CASE ReturnExceptions
  <2>1. q \in Held /\ UNCHANGED op_queue
    BY <1>5, MainHeld DEF Main, MainInCall, ReturnExceptions, Post, At
  <2>2. Reported /\ Resting /\ Held # {}
    BY <1>5, <2>1, ReturnAppends, Exclusive
  <2>3. exceptions = Cardinality(Workers)
    BY <2>2, RestingHeld DEF RoundInv, Outcome
  <2>4. CASE q[1] = round
    BY <1>5, <2>3, <2>4, ReturnAppends
  <2>5. CASE q[1] \in 1 .. Len(result)
    BY <1>5, <2>1, <2>5, ReturnAppends DEF RoundInv, HeldOver
  <2>6. q[1] = round \/ q[1] \in 1 .. Len(result)
    BY <1>5, ReturnAppends
  <2> QED
    BY <2>4, <2>5, <2>6
<1>6. CASE Main /\ ~Post /\ ~ReturnExceptions
  <2>1. UNCHANGED result
    BY <1>6 DEF Main, MainInCall, BeginRound, Reset, NewWork, ReleaseWorkers, StartWait, DeleteWork,
         MainStopsScheduler, WaitForWorkers, StopWait, SetStop, UnblockStart,
         UnblockStop, DropWork, StopService, JoinAll, history
  <2> QED
    BY <1>2, <1>6, <2>1, MainHeld
<1>7. CASE UNCHANGED vars
  BY <1>2, <1>7 DEF vars, scheduler, locals, history, Held
<1> QED
  BY <1>3, <1>4, <1>5, <1>6, <1>7 DEF Next, Over

LEMMA NextRoundComplete ==
  ASSUME WorkInv, Phases, RoundInv, [Next]_vars
  PROVE  RoundComplete'
<1> SUFFICES ASSUME NEW r \in 1 .. Len(result'), result'[r] # Cardinality(Workers)
             PROVE  RanIn(r)' = 1 .. NJobs
  BY DEF RoundComplete
<1>1. TypeOK
  BY DEF WorkInv
<1>2. RanIn(r)' \subseteq 1 .. NJobs
  BY DEF RanIn
<1>3. ASSUME UNCHANGED result, Ended \subseteq Ended' PROVE RanIn(r)' = 1 .. NJobs
  BY <1>2, <1>3, RanGrows DEF RoundInv, RoundComplete
<1>4. ASSUME NEW w \in Workers, Worker(w) PROVE RanIn(r)' = 1 .. NJobs
  BY <1>1, <1>3, <1>4, WorkerFrame, WorkerHeld
<1>5. CASE ReturnExceptions
  <2>1. RanIn(r)' = RanIn(r)
    BY <1>5, ReturnAppends DEF RanIn
  <2>2. CASE r = round
    BY <1>5, <2>1, <2>2, ReturnAppends DEF RoundInv, Outcome
  <2>3. CASE r \in 1 .. Len(result)
    BY <1>5, <2>1, <2>3, ReturnAppends DEF RoundInv, RoundComplete
  <2>4. r = round \/ r \in 1 .. Len(result)
    BY <1>5, ReturnAppends
  <2> QED
    BY <2>2, <2>3, <2>4
<1>6. CASE Main /\ ~ReturnExceptions
  <2>1. UNCHANGED result
    BY <1>6 DEF Main, MainInCall, BeginRound, Reset, NewWork, ReleaseWorkers, StartWait, Post, DeleteWork,
         MainStopsScheduler, WaitForWorkers, StopWait, SetStop, UnblockStart,
         UnblockStop, DropWork, StopService, JoinAll, history
  <2> QED
    BY <1>3, <1>6, <2>1, MainHeld
<1>7. CASE UNCHANGED vars
  BY <1>3, <1>7 DEF vars, history, Ended
<1> QED
  BY <1>4, <1>5, <1>6, <1>7 DEF Next, Over

LEMMA InitRoundInv == Init => RoundInv
<1> SUFFICES ASSUME Init PROVE RoundInv
  OBVIOUS
<1>1. pc[main] = "idle" /\ (\A w \in Workers : pc[w] = "start") /\ ~Busy /\ ~Rounding
  BY Exclusive DEF Init, Threads, Rounding
<1>2. Len(result) = 0 /\ round = 0
  BY EmptySeq DEF Init
<1>3. ~Starting /\ ~Reported
  BY <1>1 DEF Rounding
<1>4. CountsLeft /\ FreshRound /\ PostedKept /\ AllPosted /\ Outcome
  BY <1>1, <1>3 DEF CountsLeft, FreshRound, PostedKept, AllPosted, Outcome
<1>5. ResultSoFar /\ HeldOver /\ RoundComplete
  BY <1>1, <1>2 DEF ResultSoFar, HeldOver, RoundComplete
<1> QED
  BY <1>4, <1>5 DEF RoundInv

LEMMA StutterRoundInv ==
  ASSUME RoundInv, UNCHANGED vars
  PROVE  CountsLeft' /\ PostedKept'
<1>1. /\ UNCHANGED pc /\ UNCHANGED exceptions /\ UNCHANGED stopped /\ UNCHANGED posted
      /\ UNCHANGED round /\ UNCHANGED done /\ UNCHANGED failed /\ UNCHANGED op_queue
      /\ UNCHANGED job /\ UNCHANGED startLeaving /\ UNCHANGED stopLeaving
  BY DEF vars, scheduler, startVars, stopVars, poolFields, locals, history
<1>2. CountsLeft'
  BY <1>1 DEF RoundInv, CountsLeft, Busy, Left
<1>3. PostedKept'
  BY <1>1 DEF RoundInv, PostedKept, Busy, Held, RanIn
<1> QED
  BY <1>2, <1>3

LEMMA NextRoundInv ==
  WorkInv /\ Phases /\ StopInv /\ RoundInv /\ [Next]_vars => RoundInv'
<1> SUFFICES ASSUME WorkInv, Phases, StopInv, RoundInv, [Next]_vars
             PROVE  RoundInv'
  OBVIOUS
<1>1. CountsLeft' /\ PostedKept'
  BY WorkerCountsLeft, MainCountsLeft, WorkerPostedKept, MainPostedKept, StutterRoundInv
     DEF Next, Over
<1>2. FreshRound' /\ AllPosted' /\ Outcome'
  BY NextFreshRound, NextAllPosted, NextOutcome
<1>3. ResultSoFar' /\ HeldOver' /\ RoundComplete'
  BY NextResultSoFar, NextHeldOver, NextRoundComplete
<1> QED
  BY <1>1, <1>2, <1>3 DEF RoundInv

LEMMA SpecStopInv == Spec => []StopInv
BY InitStopInv, NextStopInv, SpecWorkInv, SpecPhases, PTL DEF Spec

(* The account of a round: what becomes of the jobs posted in it, why the   *)
(* scheduler is stopped or every worker has caught an exception when it     *)
(* ends, and what its result says.                                          *)
LEMMA SpecRoundInv == Spec => []RoundInv
BY InitRoundInv, NextRoundInv, SpecWorkInv, SpecPhases, SpecStopInv, PTL DEF Spec

(* execute() reports fewer failures than there are workers only when every  *)
(* job posted in the round has run in it.                                   *)
THEOREM PoolRoundComplete == Spec => []RoundComplete
<1>1. RoundInv => RoundComplete
  BY DEF RoundInv
<1> QED
  BY <1>1, SpecRoundInv, PTL

(* A job runs in a later round than its own only after a round in which     *)
(* every worker had caught an exception.                                    *)
THEOREM PoolNoStrangers == Spec => []NoStrangers
<1>1. WorkInv /\ Phases /\ RoundInv => NoStrangers
  <2> SUFFICES ASSUME WorkInv, Phases, RoundInv,
                      NEW w \in Workers, pc[w] = "execute", job[w][1] # round
               PROVE  result[job[w][1]] = Cardinality(Workers)
    BY DEF NoStrangers, At
  <2>1. TypeOK /\ HistoryOK /\ JobsKnown
    BY TypeParts DEF WorkInv
  <2>2. job[w] \in SinceRound /\ job[w] \in Held
    BY <2>1, KnownJobs DEF JobsKnown, Held
  <2>3. Busy
    <3>1. ~Resting /\ ~Ending
      BY DEF Phases, Rests, IsEnding, At
    <3> QED
      BY <2>1, <3>1, Exclusive DEF Rounding
  <2>4. round = Len(result) + 1 /\ Len(result) \in Nat
    BY <2>1, <2>3, LenProperties DEF RoundInv, ResultSoFar, Rounding, HistoryOK
  <2>5. job[w][1] \in 1 .. round
    BY <2>2 DEF SinceRound
  <2>6. job[w][1] \in 1 .. Len(result)
    BY <2>4, <2>5
  <2> QED
    BY <2>2, <2>6 DEF RoundInv, HeldOver
<1> QED
  BY <1>1, SpecWorkInv, SpecPhases, SpecRoundInv, PTL

-----------------------------------------------------------------------------
\* 5. No job runs twice, and who throws is counted once.

LEMMA QueuedHeld ==
  ASSUME TypeOK
  PROVE  \A n \in 1 .. Len(op_queue) : op_queue[n] \in Held
<1>1. op_queue \in Seq(JobIds)
  BY TypeParts DEF SchedulerOK
<1>2. \A n \in 1 .. Len(op_queue) : op_queue[n] \in JobIds
  BY <1>1, ElementOfSeq
<1> QED
  BY <1>2 DEF Held

(* A job passes from the queue to one worker, and from there to the past.   *)
LEMMA WorkerJobsOnce ==
  ASSUME WorkInv, JobsOnce, NEW w \in Workers, Worker(w)
  PROVE  JobsOnce'
<1>1. /\ TypeOK /\ PcOK /\ SchedulerOK /\ LocalsOK /\ HistoryOK /\ JobsKnown /\ w \in Threads
  BY TypeParts DEF WorkInv, Threads
<1>2. /\ \A v \in Workers : v # w => pc'[v] = pc[v]
      /\ UNCHANGED round /\ UNCHANGED posted
  BY <1>1, WorkerFrame DEF Threads
<1>3. CASE TakeJob(w)
  <2>1. /\ pc[w] = "loop" /\ pc'[w] = "execute" /\ op_queue # <<>>
        /\ op_queue' = Tail(op_queue)
        /\ job' = [job EXCEPT ![w] = Head(op_queue)]
    BY <1>1, <1>3 DEF TakeJob, At, Go, PcOK
  <2>2. /\ Len(op_queue) \in Nat /\ Len(op_queue) >= 1
        /\ Head(op_queue) = op_queue[1]
        /\ Len(op_queue') = Len(op_queue) - 1
        /\ \A n \in 1 .. Len(op_queue') : op_queue'[n] = op_queue[n + 1]
    BY <1>1, <2>1, HeadTailProperties, EmptySeq, LenProperties DEF SchedulerOK
  <2>3. job'[w] = op_queue[1] /\ \A v \in Workers : v # w => job'[v] = job[v]
    BY <1>1, <2>1, <2>2 DEF LocalsOK
  <2>4. QueuedOnce'
    <3> SUFFICES ASSUME NEW m \in 1 .. Len(op_queue'), NEW n \in 1 .. Len(op_queue'),
                        op_queue'[m] = op_queue'[n]
                 PROVE  m = n
      BY DEF QueuedOnce
    <3>1. m + 1 \in 1 .. Len(op_queue) /\ n + 1 \in 1 .. Len(op_queue)
      BY <2>2
    <3>2. m + 1 = n + 1
      BY <2>2, <3>1 DEF JobsOnce, QueuedOnce
    <3> QED
      BY <3>2
  <2>5. TakenOnce'
    <3>1. \A n \in 1 .. Len(op_queue') : op_queue'[n] # op_queue[1]
      <4> SUFFICES ASSUME NEW n \in 1 .. Len(op_queue') PROVE op_queue'[n] # op_queue[1]
        OBVIOUS
      <4>1. n + 1 \in 1 .. Len(op_queue) /\ 1 \in 1 .. Len(op_queue) /\ n + 1 # 1
        BY <2>2
      <4> QED
        BY <2>2, <4>1 DEF JobsOnce, QueuedOnce
    <3>2. \A v \in Workers : pc[v] = "execute" => job[v] # op_queue[1]
      <4>1. 1 \in 1 .. Len(op_queue)
        BY <2>2
      <4> QED
        BY <4>1 DEF JobsOnce, TakenOnce
    <3>3. \A v \in Workers : pc[v] = "execute" =>
             \A n \in 1 .. Len(op_queue') : op_queue'[n] # job[v]
      <4> SUFFICES ASSUME NEW v \in Workers, pc[v] = "execute", NEW n \in 1 .. Len(op_queue')
                   PROVE  op_queue'[n] # job[v]
        OBVIOUS
      <4>1. n + 1 \in 1 .. Len(op_queue)
        BY <2>2
      <4> QED
        BY <2>2, <4>1 DEF JobsOnce, TakenOnce
    <3>4. \A u, v \in Workers : pc[u] = "execute" /\ pc[v] = "execute" /\ job[u] = job[v] => u = v
      BY DEF JobsOnce, TakenOnce
    <3> QED
      BY <1>2, <2>1, <2>3, <3>1, <3>2, <3>3, <3>4 DEF TakenOnce
  <2>6. Held' = Held /\ Ended' = Ended
    BY <1>3, <2>1, WorkerHeld DEF RunJob, At
  <2>7. RunOnce' /\ PostedOnce' /\ EndedBefore'
    BY <1>2, <2>6 DEF JobsOnce, RunOnce, PostedOnce, EndedBefore
  <2> QED
    BY <2>4, <2>5, <2>7 DEF JobsOnce
<1>4. CASE RunJob(w)
  <2>1. /\ job[w] \in Held /\ pc[w] = "execute" /\ pc'[w] = "finish"
        /\ Held' \subseteq Held /\ Ended' = Ended \cup {<<job[w], round>>}
        /\ UNCHANGED op_queue /\ UNCHANGED job
    BY <1>4, WorkerHeld
  <2>2. \A q \in Held' : q # job[w]
    BY <1>2, <2>1 DEF Held, JobsOnce, TakenOnce
  <2>3. QueuedOnce' /\ TakenOnce'
    BY <1>2, <2>1 DEF JobsOnce, QueuedOnce, TakenOnce
  <2>4. RunOnce'
    BY <2>1, <2>2 DEF JobsOnce, RunOnce
  <2>5. PostedOnce'
    BY <1>2, <2>1 DEF JobsOnce, PostedOnce
  <2>6. job[w] \in SinceRound /\ round \in Nat
    BY <1>1, <2>1, HeldKnown DEF HistoryOK
  <2>7. EndedBefore'
    BY <1>2, <2>1, <2>6 DEF JobsOnce, EndedBefore, SinceRound
  <2> QED
    BY <2>3, <2>4, <2>5, <2>7 DEF JobsOnce
<1>5. CASE ~TakeJob(w) /\ ~RunJob(w)
  <2>1. UNCHANGED op_queue
    BY <1>5 DEF Worker, WaitForStart, StartWait, CheckStop, Run, LeaveRun, FinishJob,
         StopScheduler, Catch, WaitForStop, StopWait, scheduler
  <2>2. pc[w] # "execute" /\ pc'[w] # "execute"
    BY <1>1, <1>5 DEF Worker, WaitForStart, StartWait, CheckStop, Run, LeaveRun, FinishJob,
         StopScheduler, Catch, WaitForStop, StopWait, AfterJob, At, Go, PcOK
  <2>3. \A v \in Workers : v # w => job'[v] = job[v]
    BY <1>1, <1>5 DEF Worker, WaitForStart, StartWait, CheckStop, Run, LeaveRun, FinishJob,
         StopScheduler, Catch, WaitForStop, StopWait, locals, LocalsOK
  <2>4. Held' = Held /\ Ended' = Ended
    BY <1>5, WorkerHeld
  <2>5. QueuedOnce' /\ TakenOnce'
    BY <1>2, <2>1, <2>2, <2>3 DEF JobsOnce, QueuedOnce, TakenOnce
  <2>6. RunOnce' /\ PostedOnce' /\ EndedBefore'
    BY <1>2, <2>4 DEF JobsOnce, RunOnce, PostedOnce, EndedBefore
  <2> QED
    BY <2>5, <2>6 DEF JobsOnce
<1> QED
  BY <1>3, <1>4, <1>5

(* Main posts a job once, under a number of its own.                        *)
LEMMA MainJobsOnce ==
  ASSUME WorkInv, JobsOnce, Main
  PROVE  JobsOnce'
<1>1. /\ TypeOK /\ PcOK /\ SchedulerOK /\ HistoryOK
  BY TypeParts DEF WorkInv
<1>2. /\ \A w \in Workers : pc'[w] = pc[w]
      /\ UNCHANGED job /\ Ended' = Ended
  BY <1>1, MainFrame, MainHeld
<1>3. CASE Post
  <2> DEFINE new == <<round, posted + 1>>
  <2>1. /\ new \in JobIds /\ Held' = Held \cup {new}
        /\ posted \in Nat /\ posted' = posted + 1 /\ UNCHANGED round
        /\ op_queue' = Append(op_queue, new)
    BY <1>3, MainHeld DEF Post
  <2>2. new \notin Held
    BY <2>1 DEF JobsOnce, PostedOnce
  <2>3. \A r \in Rounds : <<new, r>> \notin Ended
    BY <2>1 DEF JobsOnce, PostedOnce
  <2>4. \A n \in 1 .. Len(op_queue) : op_queue[n] # new
    BY <1>1, <2>2, QueuedHeld
  <2>5. \A w \in Workers : pc[w] = "execute" => job[w] # new
    BY <2>1, <2>2 DEF Held
  <2>6. /\ Len(op_queue) \in Nat /\ Len(op_queue') = Len(op_queue) + 1
        /\ op_queue'[Len(op_queue) + 1] = new
        /\ \A n \in 1 .. Len(op_queue) : op_queue'[n] = op_queue[n]
    BY <1>1, <2>1, AppendProperties, LenProperties DEF SchedulerOK
  <2> DEFINE old == 1 .. Len(op_queue)
             last == Len(op_queue) + 1
  <2>7. \A n \in 1 .. Len(op_queue') : n \in old \/ n = last
    BY <2>6
  <2>8. new[1] = round /\ new[2] = posted + 1
    OBVIOUS
  <2> HIDE DEF new, last
  <2>9. QueuedOnce'
    BY <2>4, <2>6, <2>7 DEF JobsOnce, QueuedOnce, last
  <2>10. TakenOnce'
    <3>1. \A w \in Workers : pc[w] = "execute" =>
            \A n \in 1 .. Len(op_queue') : op_queue'[n] # job[w]
      BY <2>5, <2>6, <2>7 DEF JobsOnce, TakenOnce, last
    <3> QED
      BY <1>2, <3>1 DEF JobsOnce, TakenOnce
  <2>11. RunOnce' /\ EndedBefore'
    BY <1>2, <2>1, <2>3 DEF JobsOnce, RunOnce, EndedBefore
  <2>12. PostedOnce'
    <3>1. ASSUME NEW q \in Held', q[1] = round PROVE q[2] <= posted + 1
      <4>1. CASE q = new
        BY <2>1, <2>8, <4>1
      <4>2. CASE q \in Held
        <5>1. q[2] <= posted /\ q[2] \in Nat
          BY <3>1, <4>2 DEF JobsOnce, PostedOnce, Held, JobIds
        <5> QED
          BY <2>1, <5>1
      <4> QED
        BY <2>1, <4>1, <4>2
    <3>2. ASSUME NEW f \in Ended, f[1][1] = round PROVE f[1][2] <= posted + 1
      <4>1. f[1][2] <= posted /\ f[1][2] \in Nat
        BY <1>1, <3>2 DEF JobsOnce, PostedOnce, Ended, HistoryOK, JobIds
      <4> QED
        BY <2>1, <4>1
    <3> QED
      BY <1>2, <2>1, <3>1, <3>2 DEF PostedOnce
  <2> QED
    BY <2>9, <2>10, <2>11, <2>12 DEF JobsOnce
<1>4. CASE ~Post
  <2>1. Held' = Held /\ UNCHANGED op_queue
    BY <1>4, MainHeld
  <2>2. QueuedOnce' /\ TakenOnce' /\ RunOnce'
    BY <1>2, <2>1 DEF JobsOnce, QueuedOnce, TakenOnce, RunOnce
  <2>3. CASE BeginRound
    <3>1. round \in Nat /\ round' = round + 1
      BY <1>1, <2>3 DEF BeginRound, HistoryOK
    <3>2. \A q \in Held : q[1] # round'
      BY <3>1, HeldKnown DEF SinceRound
    <3>3. \A f \in Ended : f[1][1] # round' /\ f[2] <= round'
      <4> SUFFICES ASSUME NEW f \in Ended PROVE f[1][1] # round' /\ f[2] <= round'
        OBVIOUS
      <4>1. f[1][1] <= f[2] /\ f[2] <= round
        BY DEF JobsOnce, EndedBefore
      <4>2. f[1][1] \in Nat /\ f[2] \in Nat
        BY <1>1 DEF Ended, HistoryOK, JobIds, Rounds
      <4> QED
        BY <3>1, <4>1, <4>2
    <3> QED
      BY <1>2, <2>1, <2>2, <3>2, <3>3 DEF JobsOnce, PostedOnce, EndedBefore
  <2>4. CASE ~BeginRound
    <3>1. UNCHANGED round /\ UNCHANGED posted
      BY <1>4, <2>4 DEF Main, MainInCall, Reset, NewWork, ReleaseWorkers, StartWait, DeleteWork,
         MainStopsScheduler, WaitForWorkers, StopWait, ReturnExceptions, SetStop, UnblockStart,
         UnblockStop, DropWork, StopService, JoinAll, history
    <3> QED
      BY <1>2, <2>1, <2>2, <3>1 DEF JobsOnce, PostedOnce, EndedBefore
  <2> QED
    BY <2>3, <2>4
<1> QED
  BY <1>3, <1>4

LEMMA InitJobsOnce == Init => JobsOnce
<1> SUFFICES ASSUME Init PROVE JobsOnce
  OBVIOUS
<1>1. /\ Len(op_queue) = 0 /\ Ended = {}
      /\ \A w \in Workers : pc[w] = "start"
  BY EmptySeq DEF Init, Ended, Threads
<1>2. Held = {}
  BY <1>1 DEF Held
<1> QED
  BY <1>1, <1>2 DEF JobsOnce, QueuedOnce, TakenOnce, RunOnce, PostedOnce, EndedBefore

LEMMA NextJobsOnce == WorkInv /\ JobsOnce /\ [Next]_vars => JobsOnce'
<1>1. ASSUME JobsOnce, UNCHANGED vars PROVE JobsOnce'
  <2>1. /\ UNCHANGED op_queue /\ UNCHANGED pc /\ UNCHANGED job /\ UNCHANGED done
        /\ UNCHANGED failed /\ UNCHANGED round /\ UNCHANGED posted
    BY <1>1 DEF vars, scheduler, locals, history
  <2>2. Held' = Held /\ Ended' = Ended
    BY <2>1 DEF Held, Ended
  <2> QED
    BY <1>1, <2>1, <2>2 DEF JobsOnce, QueuedOnce, TakenOnce, RunOnce, PostedOnce, EndedBefore
<1> QED
  BY <1>1, MainJobsOnce, WorkerJobsOnce DEF Next, Over

-----------------------------------------------------------------------------
(* The exceptions that are under way, and those of a round, can be counted. *)
LEMMA CountUncaught ==
  /\ IsFiniteSet(Uncaught) /\ Cardinality(Uncaught) \in Nat
  /\ \A w \in Workers : w \notin Uncaught
        => Cardinality(Uncaught \cup {w}) = Cardinality(Uncaught) + 1
  /\ \A w \in Uncaught : Cardinality(Uncaught \ {w}) = Cardinality(Uncaught) - 1
<1>1. IsFiniteSet(Uncaught)
  BY FS_Subset DEF Uncaught, PoolAssumption
<1> QED
  BY <1>1, FS_CardinalityType, FS_AddElement, FS_RemoveElement

LEMMA CountFailed ==
  ASSUME HistoryOK, NEW r
  PROVE  /\ IsFiniteSet(FailedIn(r)) /\ Cardinality(FailedIn(r)) \in Nat
         /\ \A f : f \notin FailedIn(r)
               => Cardinality(FailedIn(r) \cup {f}) = Cardinality(FailedIn(r)) + 1
<1>1. IsFiniteSet(Rounds) /\ IsFiniteSet(1 .. NJobs)
  BY FS_Interval DEF Rounds, PoolAssumption
<1>2. IsFiniteSet(JobIds)
  BY <1>1, FS_Product DEF JobIds
<1>3. IsFiniteSet(JobIds \X Rounds)
  BY <1>1, <1>2, FS_Product
<1>4. FailedIn(r) \subseteq JobIds \X Rounds
  BY DEF FailedIn, HistoryOK
<1>5. IsFiniteSet(FailedIn(r))
  BY <1>3, <1>4, FS_Subset
<1> QED
  BY <1>5, FS_CardinalityType, FS_AddElement

(* While the workers rest, no exception is under way.                       *)
LEMMA RestingUncaught ==
  ASSUME Phases, Resting
  PROVE  Uncaught = {} /\ Cardinality(Uncaught) = 0
<1>1. Uncaught = {}
  BY DEF Uncaught, Phases, Rests, At
<1> QED
  BY <1>1, FS_EmptySet

(* A job that throws puts one exception under way, and catching it counts   *)
(* it; any other step of a worker moves neither side of the account.        *)
LEMMA WorkerCounts ==
  ASSUME WorkInv, JobsOnce, CaughtThrew, NEW w \in Workers, Worker(w)
  PROVE  /\ CaughtThrew'
         /\ exceptions' + Cardinality(Uncaught') = Cardinality(FailedIn(round)')
              <=> exceptions + Cardinality(Uncaught) = Cardinality(FailedIn(round))
         /\ \A r : r # round => FailedIn(r)' = FailedIn(r)
<1>1. /\ TypeOK /\ PcOK /\ PoolOK /\ LocalsOK /\ HistoryOK /\ w \in Threads
  BY TypeParts DEF WorkInv, Threads
<1>2. /\ \A v \in Workers : v # w => pc'[v] = pc[v]
      /\ UNCHANGED round
  BY <1>1, WorkerFrame DEF Threads
<1>3. /\ exceptions \in Nat
      /\ Cardinality(Uncaught) \in Nat /\ Cardinality(FailedIn(round)) \in Nat
  BY <1>1, CountUncaught, CountFailed DEF PoolOK
<1>4. CASE RunJob(w)
  <2>1. /\ job[w] \in Held /\ pc[w] = "execute" /\ pc'[w] = "finish"
        /\ UNCHANGED exceptions
    BY <1>4, WorkerHeld
  <2>2. CASE threw' = [threw EXCEPT ![w] = FALSE] /\ UNCHANGED failed
    <3>1. ~threw'[w] /\ \A v \in Workers : v # w => threw'[v] = threw[v]
      BY <1>1, <2>2 DEF LocalsOK
    <3>2. Uncaught' = Uncaught
      BY <1>2, <2>1, <3>1 DEF Uncaught
    <3>3. \A r : FailedIn(r)' = FailedIn(r)
      BY <2>2 DEF FailedIn
    <3>4. CaughtThrew'
      BY <1>2, <2>1, <3>1 DEF CaughtThrew
    <3> QED
      BY <1>2, <2>1, <3>2, <3>3, <3>4
  <2>3. CASE /\ threw' = [threw EXCEPT ![w] = TRUE]
             /\ failed' = failed \cup {<<job[w], round>>}
    <3>1. threw'[w] /\ \A v \in Workers : v # w => threw'[v] = threw[v]
      BY <1>1, <2>3 DEF LocalsOK
    <3>2. w \notin Uncaught /\ Uncaught' = Uncaught \cup {w}
      BY <1>2, <2>1, <3>1 DEF Uncaught
    <3>3. /\ FailedIn(round)' = FailedIn(round) \cup {<<job[w], round>>}
          /\ \A r : r # round => FailedIn(r)' = FailedIn(r)
      BY <1>2, <2>3 DEF FailedIn
    <3>4. <<job[w], round>> \notin FailedIn(round)
      <4>1. round \in Rounds
        BY <1>1, <2>1, HeldKnown DEF HistoryOK, SinceRound, Rounds
      <4> QED
        BY <2>1, <4>1 DEF JobsOnce, RunOnce, FailedIn, Ended
    <3>5. /\ Cardinality(Uncaught') = Cardinality(Uncaught) + 1
          /\ Cardinality(FailedIn(round)') = Cardinality(FailedIn(round)) + 1
      BY <1>1, <3>2, <3>3, <3>4, CountUncaught, CountFailed
    <3>6. CaughtThrew'
      BY <1>2, <2>1, <3>1 DEF CaughtThrew
    <3> QED
      BY <1>3, <2>1, <3>3, <3>5, <3>6
  <2> QED
    BY <1>4, <2>2, <2>3 DEF RunJob
<1>5. CASE ~RunJob(w)
  <2>1. UNCHANGED threw /\ UNCHANGED failed
    BY <1>5, WorkerHeld DEF Worker, WaitForStart, StartWait, CheckStop, Run, TakeJob, LeaveRun, FinishJob,
         StopScheduler, Catch, WaitForStop, StopWait, locals
  <2>2. \A r : FailedIn(r)' = FailedIn(r)
    BY <2>1 DEF FailedIn
  <2>3. CaughtThrew'
    <3>1. pc'[w] = "caught" => pc[w] = "caught" \/ threw[w]
      BY <1>1, <1>5 DEF Worker, WaitForStart, StartWait, CheckStop, Run, TakeJob, LeaveRun, FinishJob,
         StopScheduler, Catch, WaitForStop, StopWait, AfterJob, At, Go, PcOK
    <3> QED
      BY <1>2, <2>1, <3>1 DEF CaughtThrew
  <2>4. CASE Catch(w)
    <3>1. /\ pc[w] = "caught" /\ pc'[w] = "check run" /\ exceptions' = exceptions + 1
      BY <1>1, <2>4 DEF Catch, At, Go, PcOK
    <3>2. w \in Uncaught /\ Uncaught' = Uncaught \ {w}
      BY <1>2, <2>1, <3>1 DEF Uncaught, CaughtThrew
    <3>3. Cardinality(Uncaught') = Cardinality(Uncaught) - 1
      BY <3>2, CountUncaught
    <3>4. exceptions' + Cardinality(Uncaught') = exceptions + Cardinality(Uncaught)
      <4> DEFINE u == Cardinality(Uncaught)
                 u2 == Cardinality(Uncaught')
      <4>1. exceptions \in Nat /\ u \in Nat /\ u2 = u - 1 /\ exceptions' = exceptions + 1
        BY <1>3, <3>1, <3>3
      <4> HIDE DEF u, u2
      <4>2. exceptions' + u2 = exceptions + u
        BY <4>1
      <4> QED
        BY <4>2 DEF u, u2
    <3> QED
      BY <1>2, <2>2, <2>3, <3>4
  <2>5. CASE ~Catch(w)
    <3>1. UNCHANGED exceptions
      BY <1>5, <2>5 DEF Worker, WaitForStart, StartWait, CheckStop, Run, TakeJob, LeaveRun, FinishJob,
         StopScheduler, WaitForStop, StopWait, poolFields
    <3>2. threw[w] => (pc'[w] \in {"finish", "last job", "caught"}
                         <=> pc[w] \in {"finish", "last job", "caught"})
      BY <1>1, <1>5, <2>5 DEF Worker, WaitForStart, StartWait, CheckStop, Run, TakeJob, LeaveRun, FinishJob,
         StopScheduler, WaitForStop, StopWait, AfterJob, At, Go, PcOK
    <3>3. Uncaught' = Uncaught
      BY <1>2, <2>1, <3>2 DEF Uncaught
    <3> QED
      BY <1>2, <2>2, <2>3, <3>1, <3>3
  <2> QED
    BY <2>4, <2>5
<1> QED
  BY <1>4, <1>5

LEMMA WorkerFailInv ==
  ASSUME WorkInv, Phases, RoundInv, JobsOnce, FailInv, NEW w \in Workers, Worker(w)
  PROVE  FailInv'
<1>1. TypeOK /\ HistoryOK /\ UNCHANGED round /\ UNCHANGED result
  BY TypeParts, WorkerFrame DEF WorkInv
<1>2. CaughtThrew' /\ CountsFails'
  <2>1. Rounding' <=> Rounding
    BY <1>1, WorkerSteps DEF Same, Opens, Closes, Rounding
  <2> QED
    BY <2>1, WorkerCounts DEF FailInv, CountsFails
<1>3. ResultCountsFailures'
  <2> SUFFICES ASSUME NEW r \in 1 .. Len(result)
               PROVE  result[r] = Cardinality(FailedIn(r)')
    BY <1>1 DEF ResultCountsFailures, FailedIn
  <2>1. result[r] = Cardinality(FailedIn(r))
    BY DEF FailInv, ResultCountsFailures, FailedIn
  <2>2. CASE RunJob(w)
    <3>1. Busy
      <4>1. ~Resting /\ ~Ending
        BY <2>2 DEF RunJob, Phases, Rests, IsEnding, At
      <4> QED
        BY <1>1, <4>1, Exclusive DEF Rounding
    <3>2. round = Len(result) + 1 /\ Len(result) \in Nat
      BY <1>1, <3>1, LenProperties DEF RoundInv, ResultSoFar, Rounding, HistoryOK
    <3>3. r # round
      BY <3>2
    <3>4. FailedIn(r)' = FailedIn(r)
      BY <3>3, WorkerCounts DEF FailInv
    <3> QED
      BY <2>1, <3>4
  <2>3. CASE ~RunJob(w)
    BY <2>1, <2>3, WorkerHeld DEF FailedIn
  <2> QED
    BY <2>2, <2>3
<1> QED
  BY <1>2, <1>3 DEF FailInv

LEMMA MainFailInv ==
  ASSUME WorkInv, Phases, RoundInv, JobsOnce, FailInv, Main
  PROVE  FailInv'
<1>1. /\ TypeOK /\ PcOK /\ HistoryOK /\ PoolOK /\ main \in Threads
  BY TypeParts DEF WorkInv, Threads
<1>2. /\ CaughtThrew' /\ Uncaught' = Uncaught /\ UNCHANGED failed
  BY <1>1, MainFrame DEF FailInv, CaughtThrew, Uncaught
<1>3. CASE BeginRound
  <2>1. /\ exceptions' = 0 /\ round' = round + 1 /\ round \in Nat /\ UNCHANGED result
        /\ pc[main] = "idle"
    BY <1>1, <1>3 DEF BeginRound, At, HistoryOK
  <2>2. Cardinality(Uncaught) = 0
    BY <2>1, Exclusive, RestingUncaught
  <2>3. FailedIn(round)' = {}
    <3>1. \A f \in failed : f[2] # round'
      <4> SUFFICES ASSUME NEW f \in failed PROVE f[2] # round'
        OBVIOUS
      <4>1. f[2] <= round
        BY DEF JobsOnce, EndedBefore, Ended
      <4>2. f[2] \in Nat
        BY <1>1 DEF HistoryOK, Rounds
      <4> QED
        BY <2>1, <4>1, <4>2
    <3> QED
      BY <1>2, <3>1 DEF FailedIn
  <2>4. CountsFails'
    BY <1>2, <2>1, <2>2, <2>3, FS_EmptySet DEF CountsFails
  <2>5. ResultCountsFailures'
    BY <1>2, <2>1 DEF FailInv, ResultCountsFailures
  <2> QED
    BY <1>2, <2>4, <2>5 DEF FailInv
<1>4. CASE ReturnExceptions
  <2>1. ~Rounding'
    BY <1>1, <1>4 DEF ReturnExceptions, Go, PcOK, Rounding, Starting, Busy, Reported
  <2>2. CountsFails'
    BY <2>1 DEF CountsFails
  <2>3. exceptions = Cardinality(FailedIn(round))
    <3>1. Rounding /\ Resting
      BY <1>4, ReturnAppends, Exclusive DEF Rounding
    <3>2. Cardinality(Uncaught) = 0 /\ exceptions \in Nat
      BY <1>1, <3>1, RestingUncaught DEF PoolOK
    <3> QED
      BY <3>1, <3>2 DEF FailInv, CountsFails
  <2>4. ResultCountsFailures'
    <3> SUFFICES ASSUME NEW r \in 1 .. Len(result')
                 PROVE  result'[r] = Cardinality(FailedIn(r))
      BY <1>2 DEF ResultCountsFailures, FailedIn
    <3>1. CASE r = round
      BY <1>4, <2>3, <3>1, ReturnAppends
    <3>2. CASE r \in 1 .. Len(result)
      BY <1>4, <3>2, ReturnAppends DEF FailInv, ResultCountsFailures, FailedIn
    <3>3. r = round \/ r \in 1 .. Len(result)
      BY <1>4, ReturnAppends
    <3> QED
      BY <3>1, <3>2, <3>3
  <2> QED
    BY <1>2, <2>2, <2>4 DEF FailInv
<1>5. CASE ~BeginRound /\ ~ReturnExceptions
  <2>1. UNCHANGED round /\ UNCHANGED result /\ UNCHANGED exceptions
    BY <1>5 DEF Main, MainInCall, Reset, NewWork, ReleaseWorkers, StartWait, Post, DeleteWork,
         MainStopsScheduler, WaitForWorkers, StopWait, SetStop, UnblockStart,
         UnblockStop, DropWork, StopService, JoinAll, poolFields, history
  <2>2. Rounding' <=> Rounding
    BY <1>1, <1>5, MainSteps DEF Same, Opens, Closes, Rounding
  <2>3. CountsFails'
    BY <1>2, <2>1, <2>2 DEF FailInv, CountsFails, FailedIn
  <2>4. ResultCountsFailures'
    BY <1>2, <2>1 DEF FailInv, ResultCountsFailures
  <2> QED
    BY <1>2, <2>3, <2>4 DEF FailInv
<1> QED
  BY <1>3, <1>4, <1>5

LEMMA InitFailInv == Init => FailInv
<1> SUFFICES ASSUME Init PROVE FailInv
  OBVIOUS
<1>1. Len(result) = 0 /\ pc[main] = "idle" /\ \A w \in Workers : pc[w] = "start"
  BY EmptySeq DEF Init, Threads
<1>2. ~Rounding
  BY <1>1, Exclusive
<1> QED
  BY <1>1, <1>2 DEF FailInv, CaughtThrew, CountsFails, ResultCountsFailures

LEMMA NextFailInv ==
  WorkInv /\ Phases /\ RoundInv /\ JobsOnce /\ FailInv /\ [Next]_vars => FailInv'
<1>1. ASSUME FailInv, UNCHANGED vars PROVE FailInv'
  <2>1. /\ UNCHANGED pc /\ UNCHANGED threw /\ UNCHANGED failed /\ UNCHANGED round
        /\ UNCHANGED result /\ UNCHANGED exceptions /\ UNCHANGED startLeaving
        /\ UNCHANGED stopLeaving
    BY <1>1 DEF vars, poolFields, locals, history, startVars, stopVars
  <2>2. CaughtThrew' /\ ResultCountsFailures'
    BY <1>1, <2>1 DEF FailInv, CaughtThrew, ResultCountsFailures
  <2>3. CountsFails'
    BY <1>1, <2>1 DEF FailInv, CountsFails, Rounding, Starting, Busy, Reported, Uncaught, FailedIn
  <2> QED
    BY <2>2, <2>3 DEF FailInv
<1> QED
  BY <1>1, MainFailInv, WorkerFailInv DEF Next, Over

LEMMA SpecJobsOnce == Spec => []JobsOnce
BY InitJobsOnce, NextJobsOnce, SpecWorkInv, PTL DEF Spec

(* execute() returns the number of jobs that threw in its round, also when  *)
(* jobs of an earlier round ran in it.                                      *)
THEOREM PoolResultCountsFailures == Spec => []ResultCountsFailures
<1>1. FailInv => ResultCountsFailures
  BY DEF FailInv
<1>2. Spec => []FailInv
  BY InitFailInv, NextFailInv, SpecWorkInv, SpecPhases, SpecRoundInv, SpecJobsOnce, PTL DEF Spec
<1> QED
  BY <1>1, <1>2, PTL
=============================================================================
