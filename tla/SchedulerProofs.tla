--------------------------- MODULE SchedulerProofs ---------------------------
(***************************************************************************)
(* Scheduler, for every number of workers and posts: its counters are      *)
(* exact, no wake-up is lost, and it implements WorkQueue.                 *)
(***************************************************************************)
EXTENDS Scheduler, FiniteSetTheorems, SequenceTheorems, TLAPS

USE SchedulerAssumption

IInv == TypeOK /\ Accounting /\ EventMatches /\ NoLostWakeup

-----------------------------------------------------------------------------
\* Types, in parts that few actions touch.
PcOK == /\ pc \in [Threads -> WorkerPCs \cup ClientPCs]
        /\ pc[client] \in ClientPCs
        /\ \A w \in Workers : pc[w] \in WorkerPCs
QueueOK == op_queue_ \in Seq(Ops) /\ op \in [Workers -> Ops \cup {NoOp}]
FlagsOK == stopped_ \in BOOLEAN /\ signalled \in BOOLEAN /\ work \in BOOLEAN
CountersOK == outstanding_work_ \in Nat /\ waiters \in Nat /\ posted \in 0 .. MaxPosts

LEMMA TypeParts ==
  /\ TypeOK => PcOK /\ QueueOK /\ FlagsOK /\ CountersOK
  /\ PcOK /\ QueueOK /\ FlagsOK /\ CountersOK => TypeOK
  /\ PcOK' /\ QueueOK' /\ FlagsOK' /\ CountersOK' => TypeOK'
<1>1. TypeOK => PcOK /\ QueueOK /\ FlagsOK /\ CountersOK
  BY Zenon DEF TypeOK, PcOK, QueueOK, FlagsOK, CountersOK
<1>2. PcOK /\ QueueOK /\ FlagsOK /\ CountersOK => TypeOK
  BY Zenon DEF TypeOK, PcOK, QueueOK, FlagsOK, CountersOK
<1>3. PcOK' /\ QueueOK' /\ FlagsOK' /\ CountersOK' => TypeOK'
  BY Zenon DEF TypeOK, PcOK, QueueOK, FlagsOK, CountersOK
<1> QED
  BY <1>1, <1>2, <1>3

LEMMA Unchanging ==
  /\ QueueOK /\ UNCHANGED <<op_queue_, op>> => QueueOK'
  /\ FlagsOK /\ UNCHANGED <<stopped_, signalled, work>> => FlagsOK'
  /\ CountersOK /\ UNCHANGED <<outstanding_work_, waiters, posted>> => CountersOK'
<1>1. QueueOK /\ UNCHANGED <<op_queue_, op>> => QueueOK'
  BY DEF QueueOK
<1>2. FlagsOK /\ UNCHANGED <<stopped_, signalled, work>> => FlagsOK'
  BY DEF FlagsOK
<1>3. CountersOK /\ UNCHANGED <<outstanding_work_, waiters, posted>> => CountersOK'
  BY DEF CountersOK
<1> QED
  BY <1>1, <1>2, <1>3

(* A set of workers is finite, and grows and shrinks by one.                *)
LEMMA Counts ==
  ASSUME NEW S \in SUBSET Workers, NEW w \in Workers
  PROVE  /\ Cardinality(S) \in Nat
         /\ w \notin S => Cardinality(S \cup {w}) = Cardinality(S) + 1
         /\ w \in S => /\ Cardinality(S) > 0
                       /\ Cardinality(S \ {w}) = Cardinality(S) - 1
<1>1. IsFiniteSet(S)
  BY FS_Subset
<1>2. Cardinality(S) \in Nat
  BY <1>1, FS_CardinalityType
<1>3. w \notin S => Cardinality(S \cup {w}) = Cardinality(S) + 1
  BY <1>1, FS_AddElement
<1>4. ASSUME w \in S
      PROVE  Cardinality(S) > 0 /\ Cardinality(S \ {w}) = Cardinality(S) - 1
  <2>1. Cardinality(S \ {w}) = Cardinality(S) - 1
    BY <1>1, <1>4, FS_RemoveElement
  <2>2. Cardinality(S \ {w}) \in Nat
    BY <1>1, FS_Subset, FS_CardinalityType
  <2> QED
    BY <1>2, <2>1, <2>2
<1> QED
  BY <1>2, <1>3, <1>4

(* A step of one thread to a label of its own.                              *)
LEMMA WorkerGoes ==
  ASSUME PcOK, NEW w \in Workers, NEW l \in WorkerPCs, Go(w, l)
  PROVE  /\ PcOK' /\ pc'[w] = l /\ pc'[client] = pc[client]
         /\ \A t \in Threads : t # w => pc'[t] = pc[t]
BY DEF PcOK, Go, Threads

LEMMA ClientGoes ==
  ASSUME PcOK, NEW l \in ClientPCs, Go(client, l)
  PROVE  /\ PcOK' /\ pc'[client] = l
         /\ \A w \in Workers : pc'[w] = pc[w]
         /\ InWait' = InWait /\ Executing' = Executing /\ Asleep' = Asleep
BY DEF PcOK, Go, Threads, At, InWait, Executing, Asleep

(* What notify_one() does to the labels: only a sleeper and the caller move. *)
LEMMA NotifyMoves ==
  ASSUME PcOK, NEW t \in Threads, NEW l, At(t, "notify"), NotifyOne(t, l),
         t \in Workers => l = "execute", t = client => l = "idle"
  PROVE  /\ PcOK' /\ pc'[t] = l
         /\ InWait' = InWait /\ Executing' = Executing
         /\ \/ Asleep = {} /\ Asleep' = {}
            \/ \E s \in Asleep : pc'[s] = "woken"
         /\ \A u \in Threads : \/ u = t \/ pc'[u] = pc[u]
                               \/ u \in Asleep /\ pc'[u] = "woken"
<1>1. CASE Asleep = {} /\ Go(t, l)
  BY <1>1 DEF PcOK, Go, Threads, At, InWait, Executing, Asleep, WorkerPCs, ClientPCs
<1>2. ASSUME NEW s \in Asleep, pc' = [pc EXCEPT ![s] = "woken", ![t] = l]
      PROVE  /\ PcOK' /\ pc'[t] = l /\ pc'[s] = "woken"
             /\ InWait' = InWait /\ Executing' = Executing
             /\ \A u \in Threads : \/ u = t \/ pc'[u] = pc[u]
                                   \/ u \in Asleep /\ pc'[u] = "woken"
  <2>1. s \in Workers /\ pc[s] = "asleep" /\ s # t
    BY DEF Asleep, At
  <2> QED
    BY <1>2, <2>1 DEF PcOK, Threads, At, InWait, Executing, Asleep, WorkerPCs, ClientPCs
<1> QED
  BY <1>1, <1>2 DEF NotifyOne

(* What notify_all() does: every sleeper is woken.                          *)
LEMMA StopMoves ==
  ASSUME PcOK, NEW t \in Threads, NEW l, StopAllThreads(t, l), t \notin InWait,
         t \notin Executing, t \in Workers => l \in {"loop", "out"}, t = client => l = "idle"
  PROVE  /\ PcOK' /\ pc'[t] = l
         /\ InWait' = InWait /\ Executing' = Executing /\ Asleep' = {}
         /\ \A u \in Threads : \/ u = t \/ pc'[u] = pc[u]
                               \/ u \in Asleep /\ pc'[u] = "woken"
<1>1. pc' = [u \in Threads |-> IF u = t THEN l
                               ELSE IF u \in Asleep THEN "woken" ELSE pc[u]]
  BY DEF StopAllThreads
<1> QED
  BY <1>1 DEF PcOK, Threads, At, InWait, Executing, Asleep, WorkerPCs, ClientPCs

-----------------------------------------------------------------------------
\* One turn of do_run_one()'s loop; besides w, n threads are in wait().

LEMMA TurnMoves ==
  ASSUME PcOK, NEW w \in Workers, NEW n, Turn(w, n), w \notin Executing
  PROVE  /\ PcOK' /\ pc'[client] = pc[client]
         /\ \A t \in Threads : t # w => pc'[t] = pc[t]
         /\ TakeOp(w, n) => /\ pc'[w] \in {"notify", "execute"}
                            /\ InWait' = InWait \ {w} /\ Executing' = Executing \cup {w}
         /\ LeaveRun(w, n) => /\ pc'[w] = "out"
                              /\ InWait' = InWait \ {w} /\ Executing' = Executing
         /\ Sleep(w, n) => /\ pc'[w] = "asleep"
                           /\ InWait' = (InWait \ {w}) \cup {w} /\ Executing' = Executing
<1>1. \E l \in WorkerPCs : Go(w, l)
  BY DEF Turn, TakeOp, LeaveRun, Sleep, WorkerPCs
<1>2. /\ PcOK' /\ pc'[client] = pc[client]
      /\ \A t \in Threads : t # w => pc'[t] = pc[t]
  BY <1>1, WorkerGoes
<1>3. ASSUME TakeOp(w, n)
      PROVE  /\ pc'[w] \in {"notify", "execute"}
             /\ InWait' = InWait \ {w} /\ Executing' = Executing \cup {w}
  <2>1. pc'[w] \in {"notify", "execute"}
    BY <1>3, WorkerGoes DEF TakeOp, WorkerPCs
  <2> QED
    BY <2>1, <1>2 DEF InWait, Executing, Threads
<1>4. ASSUME LeaveRun(w, n)
      PROVE  /\ pc'[w] = "out"
             /\ InWait' = InWait \ {w} /\ Executing' = Executing
  <2>1. pc'[w] = "out"
    BY <1>4, WorkerGoes DEF LeaveRun, WorkerPCs
  <2> QED
    BY <2>1, <1>2 DEF InWait, Executing, Threads
<1>5. ASSUME Sleep(w, n)
      PROVE  /\ pc'[w] = "asleep"
             /\ InWait' = (InWait \ {w}) \cup {w} /\ Executing' = Executing
  <2>1. pc'[w] = "asleep"
    BY <1>5, WorkerGoes DEF Sleep, WorkerPCs
  <2> QED
    BY <2>1, <1>2 DEF InWait, Executing, Threads
<1> QED
  BY <1>2, <1>3, <1>4, <1>5

LEMMA TurnInv ==
  ASSUME IInv, NEW w \in Workers, NEW n, Turn(w, n), w \notin Executing,
         n = Cardinality(InWait \ {w})
  PROVE  IInv'
<1>0. /\ PcOK /\ QueueOK /\ FlagsOK /\ CountersOK
      /\ Accounting /\ EventMatches /\ NoLostWakeup
  BY TypeParts DEF IInv
<1>1. /\ PcOK' /\ pc'[client] = pc[client]
      /\ \A t \in Threads : t # w => pc'[t] = pc[t]
      /\ UNCHANGED <<outstanding_work_, stopped_, work, posted>>
  BY <1>0, TurnMoves DEF Turn, clients
<1>2. /\ n \in Nat
      /\ Cardinality((InWait \ {w}) \cup {w}) = n + 1
      /\ Cardinality(Executing) \in Nat
      /\ Cardinality(Executing \cup {w}) = Cardinality(Executing) + 1
  BY Counts DEF InWait, Executing
<1>3. Counted' = Counted
  BY <1>1 DEF Counted, At
<1>4. At(client, "push")' => work' /\ posted' > 0
  BY <1>0, <1>1 DEF Accounting, At
<1>5. CASE TakeOp(w, n)
  <2>1. /\ op_queue_ # <<>> /\ op_queue_' = Tail(op_queue_)
        /\ waiters' = n /\ ~stopped_
        /\ op_queue_' # <<>> => signalled'
        /\ op_queue_' # <<>> /\ n > 0 => Go(w, "notify")
    BY <1>5 DEF TakeOp
  <2>2. /\ InWait' = InWait \ {w} /\ Executing' = Executing \cup {w}
    BY <1>0, <1>5, TurnMoves
  <2>3. /\ Len(op_queue_') = Len(op_queue_) - 1 /\ Len(op_queue_) \in Nat
        /\ op_queue_' \in Seq(Ops) /\ Head(op_queue_) \in Ops
    BY <1>0, <2>1, HeadTailProperties, LenProperties DEF QueueOK
  <2>4. QueueOK' /\ FlagsOK' /\ CountersOK'
    <3>1. QueueOK'
      BY <1>0, <1>5, <2>3 DEF QueueOK, TakeOp
    <3>2. FlagsOK'
      BY <1>0, <1>1, <1>5 DEF FlagsOK, TakeOp
    <3>3. CountersOK'
      BY <1>0, <1>1, <1>2, <2>1 DEF CountersOK
    <3> QED
      BY <3>1, <3>2, <3>3
  <2>5. Accounting'
    <3>1. Counted' = Len(op_queue_') + Cardinality(Executing') + (IF work' THEN 1 ELSE 0)
      BY <1>0, <1>1, <1>2, <1>3, <2>2, <2>3 DEF Accounting
    <3> QED
      BY <3>1, <1>4 DEF Accounting
  <2>6. EventMatches'
    BY <1>1, <2>1, <2>2 DEF EventMatches
  <2>7. NoLostWakeup'
    <3>1. SUFFICES ASSUME op_queue_' # <<>>, NEW s \in Asleep'
                   PROVE  pc'[w] = "notify"
      BY <1>1, <2>1 DEF NoLostWakeup, OnItsWay, Threads
    <3>2. s \in InWait \ {w}
      BY <2>2 DEF Asleep, InWait, At
    <3>3. n > 0
      <4>1. InWait \ {w} \in SUBSET Workers
        BY DEF InWait
      <4> QED
        BY <3>2, <4>1, Counts
    <3> QED
      BY <1>0, <2>1, <3>1, <3>3, WorkerGoes DEF WorkerPCs
  <2> QED
    BY <1>1, <2>4, <2>5, <2>6, <2>7, TypeParts DEF IInv
<1>6. CASE LeaveRun(w, n)
  <2>1. /\ UNCHANGED <<op_queue_, signalled, op>> /\ waiters' = n /\ stopped_
    BY <1>6 DEF LeaveRun
  <2>2. InWait' = InWait \ {w} /\ Executing' = Executing /\ pc'[w] = "out"
    BY <1>0, <1>6, TurnMoves
  <2>3. QueueOK' /\ FlagsOK' /\ CountersOK'
    <3>1. QueueOK' /\ CountersOK'
      BY <1>0, <1>1, <1>2, <2>1, Unchanging DEF CountersOK
    <3>2. FlagsOK'
      BY <1>0, <1>1, <2>1 DEF FlagsOK
    <3> QED
      BY <3>1, <3>2
  <2>4. Accounting'
    BY <1>0, <1>1, <1>3, <1>4, <2>1, <2>2 DEF Accounting
  <2>5. EventMatches'
    BY <1>0, <1>1, <2>1, <2>2 DEF EventMatches
  <2>6. NoLostWakeup'
    BY <1>0, <1>1, <2>1, <2>2 DEF NoLostWakeup, Asleep, At, Threads
  <2> QED
    BY <1>1, <2>3, <2>4, <2>5, <2>6, TypeParts DEF IInv
<1>7. CASE Sleep(w, n)
  <2>1. /\ UNCHANGED <<op_queue_, op>> /\ waiters' = n + 1 /\ signalled' = FALSE
        /\ ~stopped_ /\ op_queue_ = <<>>
    BY <1>7 DEF Sleep
  <2>2. InWait' = (InWait \ {w}) \cup {w} /\ Executing' = Executing
    BY <1>0, <1>7, TurnMoves
  <2>3. QueueOK' /\ FlagsOK' /\ CountersOK'
    <3>1. QueueOK' /\ CountersOK'
      BY <1>0, <1>1, <1>2, <2>1, Unchanging DEF CountersOK
    <3>2. FlagsOK'
      BY <1>0, <1>1, <2>1 DEF FlagsOK
    <3> QED
      BY <3>1, <3>2
  <2>4. Accounting'
    BY <1>0, <1>1, <1>3, <1>4, <2>1, <2>2 DEF Accounting
  <2>5. EventMatches'
    BY <1>1, <1>2, <2>1, <2>2 DEF EventMatches
  <2>6. NoLostWakeup'
    BY <1>1, <2>1 DEF NoLostWakeup
  <2> QED
    BY <1>1, <2>3, <2>4, <2>5, <2>6, TypeParts DEF IInv
<1> QED
  BY <1>5, <1>6, <1>7 DEF Turn

-----------------------------------------------------------------------------
\* The other steps of a worker.

(* A step that moves labels only, and leaves the sets and those on their    *)
(* way to the queue as they are.                                            *)
LEMMA LabelsOnly ==
  ASSUME IInv, PcOK',
         UNCHANGED <<op_queue_, outstanding_work_, stopped_, event, op, clients>>,
         pc'[client] = "push" => pc[client] = "push",
         pc[client] = "push" => pc'[client] = "push",
         InWait' = InWait, Executing' = Executing, NoLostWakeup'
  PROVE  IInv'
<1>0. /\ PcOK /\ QueueOK /\ FlagsOK /\ CountersOK
      /\ Accounting /\ EventMatches
  BY TypeParts DEF IInv
<1>1. QueueOK' /\ FlagsOK' /\ CountersOK'
  BY <1>0, Unchanging DEF event, clients
<1>2. Accounting'
  BY <1>0 DEF Accounting, Counted, At, clients
<1>3. EventMatches'
  BY <1>0 DEF EventMatches, event
<1> QED
  BY <1>1, <1>2, <1>3, TypeParts DEF IInv

LEMMA StopInv ==
  ASSUME IInv, NEW t \in Threads, NEW l, StopAllThreads(t, l), t \notin InWait,
         t \notin Executing, t \in Workers => l \in {"loop", "out"}, t = client => l = "idle",
         ~At(client, "push") \/ t # client
  PROVE  IInv'
<1>0. /\ PcOK /\ QueueOK /\ FlagsOK /\ CountersOK
      /\ Accounting /\ EventMatches
  BY TypeParts DEF IInv
<1>1. /\ PcOK' /\ pc'[t] = l
      /\ InWait' = InWait /\ Executing' = Executing /\ Asleep' = {}
      /\ \A u \in Threads : \/ u = t \/ pc'[u] = pc[u]
                            \/ u \in Asleep /\ pc'[u] = "woken"
  BY <1>0, StopMoves
<1>2. /\ stopped_' = TRUE /\ signalled' = TRUE
      /\ UNCHANGED <<op_queue_, outstanding_work_, waiters, op, clients>>
  BY DEF StopAllThreads
<1>3. pc'[client] = "push" <=> pc[client] = "push"
  BY <1>1 DEF At, Threads, Asleep
<1>4. QueueOK' /\ CountersOK'
  BY <1>0, <1>2, Unchanging DEF clients
<1>5. FlagsOK'
  BY <1>0, <1>2 DEF FlagsOK, clients
<1>6. Accounting'
  BY <1>0, <1>1, <1>2, <1>3 DEF Accounting, Counted, At, clients
<1>7. EventMatches' /\ NoLostWakeup'
  BY <1>0, <1>1, <1>2 DEF EventMatches, NoLostWakeup
<1> QED
  BY <1>1, <1>4, <1>5, <1>6, <1>7, TypeParts DEF IInv

(* Once a sleeper has been notified nothing is lost: it is on its way.      *)
LEMMA NotifyInv ==
  ASSUME IInv, NEW t \in Threads, NEW l, At(t, "notify"), NotifyOne(t, l),
         t \in Workers => l = "execute", t = client => l = "idle"
  PROVE  IInv'
<1>0. PcOK /\ EventMatches /\ NoLostWakeup
  BY TypeParts DEF IInv
<1>1. /\ PcOK' /\ pc'[t] = l
      /\ InWait' = InWait /\ Executing' = Executing
      /\ \/ Asleep = {} /\ Asleep' = {}
         \/ \E s \in Asleep : pc'[s] = "woken"
      /\ \A u \in Threads : \/ u = t \/ pc'[u] = pc[u]
                            \/ u \in Asleep /\ pc'[u] = "woken"
  BY <1>0, NotifyMoves
<1>2. UNCHANGED <<op_queue_, outstanding_work_, stopped_, event, op, clients>>
  BY DEF NotifyOne
<1>3. pc'[client] = "push" <=> pc[client] = "push"
  BY <1>1 DEF At, Threads, Asleep
<1>4. NoLostWakeup'
  <2>1. ASSUME op_queue_' # <<>>, Asleep' # {}
        PROVE  \E u \in Threads : OnItsWay(u)'
    BY <1>0, <1>1, <1>2, <2>1 DEF EventMatches, OnItsWay, Asleep, At, Threads, event
  <2>2. ASSUME stopped_'
        PROVE  Asleep' = {}
    BY <1>0, <1>1, <1>2, <2>2 DEF NoLostWakeup, Asleep, At, Threads
  <2> QED
    BY <2>1, <2>2 DEF NoLostWakeup
<1> QED
  BY <1>1, <1>2, <1>3, <1>4, LabelsOnly

LEMMA WorkerInv ==
  ASSUME IInv, NEW w \in Workers, Worker(w)
  PROVE  IInv'
<1>0. /\ PcOK /\ QueueOK /\ FlagsOK /\ CountersOK
      /\ Accounting /\ EventMatches /\ NoLostWakeup /\ w \in Threads
  BY TypeParts DEF IInv, Threads
<1>1. CASE EnterRun(w)
  <2>1. \E l \in {"stop, leave", "loop"} : Go(w, l)
    BY <1>1 DEF EnterRun
  <2>2. /\ PcOK' /\ pc'[client] = pc[client] /\ pc'[w] \in {"stop, leave", "loop"}
        /\ \A t \in Threads : t # w => pc'[t] = pc[t]
    BY <1>0, <2>1, WorkerGoes DEF WorkerPCs
  <2>3. pc[w] = "out" /\ UNCHANGED <<op_queue_, outstanding_work_, stopped_, event, op, clients>>
    BY <1>1 DEF EnterRun, At
  <2>4. InWait' = InWait /\ Executing' = Executing /\ Asleep' = Asleep
    BY <2>2, <2>3 DEF InWait, Executing, Asleep, At, Threads
  <2>5. NoLostWakeup'
    BY <1>0, <2>2, <2>3, <2>4 DEF NoLostWakeup, OnItsWay, At, Threads, event
  <2> QED
    BY <2>2, <2>3, <2>4, <2>5, LabelsOnly
<1>2. CASE TakeMutex(w)
  <2>1. w \notin InWait /\ w \notin Executing /\ Turn(w, waiters)
    BY <1>2 DEF TakeMutex, At, InWait, Executing
  <2>2. waiters = Cardinality(InWait \ {w})
    BY <1>0, <2>1 DEF EventMatches
  <2> QED
    BY <2>1, <2>2, TurnInv
<1>3. CASE WakeUp(w)
  <2>1. w \in InWait /\ w \notin Executing /\ Turn(w, waiters - 1)
    BY <1>3 DEF WakeUp, At, InWait, Executing
  <2>2. waiters - 1 = Cardinality(InWait \ {w})
    <3>1. InWait \in SUBSET Workers
      BY DEF InWait
    <3> QED
      BY <1>0, <2>1, <3>1, Counts DEF EventMatches
  <2> QED
    BY <2>1, <2>2, TurnInv
<1>4. CASE SleepAgain(w) \/ SpuriousWake(w)
  <2>1. \E l \in {"asleep", "woken"} : Go(w, l)
    BY <1>4 DEF SleepAgain, SpuriousWake
  <2>2. /\ PcOK' /\ pc'[client] = pc[client] /\ pc'[w] \in {"asleep", "woken"}
        /\ \A t \in Threads : t # w => pc'[t] = pc[t]
    BY <1>0, <2>1, WorkerGoes DEF WorkerPCs
  <2>3. /\ UNCHANGED <<op_queue_, outstanding_work_, stopped_, event, op, clients>>
        /\ \/ pc[w] = "woken" /\ ~signalled
           \/ pc[w] = "asleep" /\ pc'[w] = "woken"
    BY <1>0, <1>4, WorkerGoes DEF SleepAgain, SpuriousWake, At, WorkerPCs
  <2>4. InWait' = InWait /\ Executing' = Executing
    BY <2>2, <2>3 DEF InWait, Executing, Threads
  <2>5. NoLostWakeup'
    <3>1. CASE pc[w] = "woken" /\ ~signalled
      BY <1>0, <2>3, <3>1 DEF EventMatches, NoLostWakeup
    <3>2. CASE pc[w] = "asleep" /\ pc'[w] = "woken"
      <4>1. Asleep' \subseteq Asleep
        BY <2>2, <3>2 DEF Asleep, At, Threads
      <4>2. \A t \in Threads : OnItsWay(t) => OnItsWay(t)'
        BY <2>2, <2>3, <3>2 DEF OnItsWay, At, event
      <4> QED
        BY <1>0, <2>3, <4>1, <4>2 DEF NoLostWakeup
    <3> QED
      BY <2>3, <3>1, <3>2
  <2> QED
    BY <2>2, <2>3, <2>4, <2>5, LabelsOnly
<1>5. CASE NotifyOther(w)
  <2>1. At(w, "notify") /\ NotifyOne(w, "execute") /\ w # client
    BY <1>5 DEF NotifyOther
  <2> QED
    BY <1>0, <2>1, NotifyInv
<1>6. CASE FinishOp(w)
  <2>1. \E l \in {"stop, leave", "stop, loop", "out", "loop"} : Go(w, l)
    BY <1>6 DEF FinishOp
  <2>2. /\ PcOK' /\ pc'[client] = pc[client]
        /\ pc'[w] \in {"stop, leave", "stop, loop", "out", "loop"}
        /\ \A t \in Threads : t # w => pc'[t] = pc[t]
    BY <1>0, <2>1, WorkerGoes DEF WorkerPCs
  <2>3. /\ pc[w] = "execute" /\ outstanding_work_' = outstanding_work_ - 1
        /\ op' = [op EXCEPT ![w] = NoOp]
        /\ UNCHANGED <<op_queue_, stopped_, event, clients>>
    BY <1>6 DEF FinishOp, At
  <2>4. /\ InWait' = InWait /\ Executing' = Executing \ {w} /\ Asleep' = Asleep
        /\ w \in Executing /\ Executing \in SUBSET Workers
    BY <2>2, <2>3 DEF InWait, Executing, Asleep, At, Threads
  <2>5. /\ Cardinality(Executing) \in Nat /\ Cardinality(Executing) > 0
        /\ Cardinality(Executing') = Cardinality(Executing) - 1
        /\ Len(op_queue_) \in Nat
    BY <1>0, <2>4, Counts, LenProperties DEF QueueOK
  <2>6. outstanding_work_ \in Nat /\ outstanding_work_ > 0
    BY <1>0, <2>5 DEF Accounting, Counted, CountersOK
  <2>7. CountersOK'
    <3>1. outstanding_work_' \in Nat
      BY <2>3, <2>6
    <3> QED
      BY <1>0, <2>3, <3>1, Zenon DEF CountersOK, event, clients
  <2>8. QueueOK' /\ FlagsOK'
    <3>1. QueueOK'
      BY <1>0, <2>3 DEF QueueOK
    <3>2. FlagsOK'
      BY <1>0, <2>3, Unchanging DEF event, clients
    <3> QED
      BY <3>1, <3>2
  <2>9. Accounting'
    <3>1. Counted \in Int /\ Counted' = Counted - 1
      <4>1. outstanding_work_' = outstanding_work_ - 1 /\ pc'[client] = pc[client]
        BY <2>2, <2>3
      <4> QED
        BY <2>6, <4>1 DEF Counted, At
    <3>2. Counted' = Len(op_queue_') + Cardinality(Executing') + (IF work' THEN 1 ELSE 0)
      BY <1>0, <2>3, <2>5, <3>1 DEF Accounting, clients
    <3>3. At(client, "push")' => work' /\ posted' > 0
      BY <1>0, <2>2, <2>3 DEF Accounting, At, clients
    <3> QED
      BY <3>2, <3>3 DEF Accounting
  <2>10. EventMatches'
    BY <1>0, <2>3, <2>4 DEF EventMatches, event
  <2>11. NoLostWakeup'
    BY <1>0, <2>2, <2>3, <2>4 DEF NoLostWakeup, OnItsWay, At, Threads, event
  <2> QED
    BY <2>2, <2>7, <2>8, <2>9, <2>10, <2>11, TypeParts DEF IInv
<1>7. CASE StopLast(w)
  <2>1. \E l \in {"loop", "out"} : StopAllThreads(w, l)
    BY <1>7 DEF StopLast
  <2>2. w \notin InWait /\ w \notin Executing /\ w # client
    BY <1>7 DEF StopLast, At, InWait, Executing
  <2> QED
    BY <1>0, <2>1, <2>2, StopInv
<1> QED
  BY <1>1, <1>2, <1>3, <1>4, <1>5, <1>6, <1>7 DEF Worker, Running

-----------------------------------------------------------------------------
\* The client's steps.

LEMMA ClientInv ==
  ASSUME IInv, Client
  PROVE  IInv'
<1>0. /\ PcOK /\ QueueOK /\ FlagsOK /\ CountersOK
      /\ Accounting /\ EventMatches /\ NoLostWakeup /\ client \in Threads
      /\ client \notin InWait /\ client \notin Executing
      /\ Cardinality(InWait) \in Nat /\ Cardinality(Executing) \in Nat /\ Len(op_queue_) \in Nat
  <2>1. InWait \in SUBSET Workers /\ Executing \in SUBSET Workers
    BY DEF InWait, Executing
  <2>2. IsFiniteSet(InWait) /\ IsFiniteSet(Executing)
    BY <2>1, FS_Subset
  <2>3. Cardinality(InWait) \in Nat /\ Cardinality(Executing) \in Nat
    BY <2>2, FS_CardinalityType
  <2>4. /\ PcOK /\ QueueOK /\ FlagsOK /\ CountersOK
        /\ Accounting /\ EventMatches /\ NoLostWakeup
    BY TypeParts DEF IInv
  <2> QED
    BY <2>3, <2>4, LenProperties DEF QueueOK, Threads, InWait, Executing
<1>1. CASE NewWork
  <2>1. /\ outstanding_work_' = outstanding_work_ + 1 /\ ~work /\ work' = TRUE
        /\ pc[client] = "idle"
        /\ UNCHANGED <<op_queue_, stopped_, event, pc, op, posted>>
    BY <1>1 DEF NewWork, At
  <2>2. PcOK' /\ QueueOK'
    BY <1>0, <2>1, Unchanging DEF PcOK
  <2>3. FlagsOK' /\ CountersOK'
    <3>1. FlagsOK'
      BY <1>0, <2>1 DEF FlagsOK, event
    <3>2. CountersOK'
      BY <1>0, <2>1 DEF CountersOK, event
    <3> QED
      BY <3>1, <3>2
  <2>4. Accounting'
    BY <1>0, <2>1 DEF Accounting, Counted, At, Executing, CountersOK
  <2>5. EventMatches' /\ NoLostWakeup'
    BY <1>0, <2>1 DEF EventMatches, NoLostWakeup, OnItsWay, InWait, Asleep, At, event
  <2> QED
    BY <2>2, <2>3, <2>4, <2>5, TypeParts DEF IInv
<1>2. CASE PostBegin
  <2>1. /\ outstanding_work_' = outstanding_work_ + 1 /\ posted' = posted + 1
        /\ work /\ posted < MaxPosts /\ pc[client] = "idle"
        /\ Go(client, "push")
        /\ UNCHANGED <<op_queue_, stopped_, event, op, work>>
    BY <1>2 DEF PostBegin, At
  <2>2. /\ PcOK' /\ pc'[client] = "push" /\ \A w \in Workers : pc'[w] = pc[w]
        /\ InWait' = InWait /\ Executing' = Executing /\ Asleep' = Asleep
    BY <1>0, <2>1, ClientGoes DEF ClientPCs
  <2>3. QueueOK' /\ FlagsOK'
    BY <1>0, <2>1, Unchanging DEF event
  <2>4. CountersOK'
    BY <1>0, <2>1 DEF CountersOK, event
  <2>5. Accounting'
    <3>1. Counted' = Counted
      BY <1>0, <2>1, <2>2 DEF Counted, At, CountersOK
    <3>2. posted' > 0
      BY <1>0, <2>1 DEF CountersOK
    <3> QED
      BY <1>0, <2>1, <2>2, <3>1, <3>2 DEF Accounting
  <2>6. EventMatches' /\ NoLostWakeup'
    BY <1>0, <2>1, <2>2 DEF EventMatches, NoLostWakeup, OnItsWay, At, event, Threads
  <2> QED
    BY <2>2, <2>3, <2>4, <2>5, <2>6, TypeParts DEF IInv
<1>3. CASE PostPush
  <2>1. /\ op_queue_' = Append(op_queue_, posted) /\ signalled' = TRUE
        /\ pc[client] = "push"
        /\ Go(client, IF waiters > 0 THEN "notify" ELSE "idle")
        /\ UNCHANGED <<outstanding_work_, stopped_, waiters, op, clients>>
    BY <1>3 DEF PostPush, At
  <2>2. /\ PcOK' /\ pc'[client] = (IF waiters > 0 THEN "notify" ELSE "idle")
        /\ \A w \in Workers : pc'[w] = pc[w]
        /\ InWait' = InWait /\ Executing' = Executing /\ Asleep' = Asleep
    <3>1. (IF waiters > 0 THEN "notify" ELSE "idle") \in ClientPCs
      BY DEF ClientPCs
    <3> QED
      BY <1>0, <2>1, <3>1, ClientGoes
  <2>3. posted \in Ops /\ posted > 0
    BY <1>0, <2>1 DEF Accounting, At, CountersOK, Ops
  <2>4. QueueOK' /\ Len(op_queue_') = Len(op_queue_) + 1
    BY <1>0, <2>1, <2>3, AppendProperties DEF QueueOK
  <2>5. FlagsOK' /\ CountersOK'
    <3>1. FlagsOK'
      BY <1>0, <2>1 DEF FlagsOK, clients
    <3>2. CountersOK'
      BY <1>0, <2>1, Unchanging DEF clients
    <3> QED
      BY <3>1, <3>2
  <2>6. Accounting'
    <3>1. Counted \in Int /\ Counted' = Counted + 1 /\ ~At(client, "push")'
      BY <1>0, <2>1, <2>2 DEF Counted, At, CountersOK
    <3> QED
      BY <1>0, <2>1, <2>2, <2>4, <3>1 DEF Accounting, clients
  <2>7. EventMatches'
    BY <1>0, <2>1, <2>2 DEF EventMatches
  <2>8. NoLostWakeup'
    <3>1. ASSUME NEW s \in Asleep
          PROVE  waiters > 0
      <4>1. s \in InWait /\ s \in Workers /\ InWait \in SUBSET Workers
        BY DEF Asleep, InWait, At
      <4> QED
        BY <1>0, <4>1, Counts DEF EventMatches
    <3>2. Asleep # {} => pc'[client] = "notify"
      BY <2>2, <3>1
    <3>3. stopped_' => Asleep' = {}
      BY <1>0, <2>1, <2>2 DEF NoLostWakeup
    <3> QED
      BY <1>0, <2>2, <3>2, <3>3 DEF NoLostWakeup, OnItsWay
  <2> QED
    BY <2>2, <2>4, <2>5, <2>6, <2>7, <2>8, TypeParts DEF IInv
<1>4. CASE NotifyWorker
  <2>1. At(client, "notify") /\ NotifyOne(client, "idle") /\ client \notin Workers
    BY <1>4 DEF NotifyWorker
  <2> QED
    BY <1>0, <2>1, NotifyInv
<1>5. CASE DropWork
  <2>1. /\ outstanding_work_' = outstanding_work_ - 1 /\ work /\ work' = FALSE
        /\ pc[client] = "idle"
        /\ Go(client, IF outstanding_work_ = 1 THEN "stop" ELSE "idle")
        /\ UNCHANGED <<op_queue_, stopped_, event, op, posted>>
    BY <1>5 DEF DropWork, At
  <2>2. /\ PcOK' /\ pc'[client] \in {"stop", "idle"} /\ \A w \in Workers : pc'[w] = pc[w]
        /\ InWait' = InWait /\ Executing' = Executing /\ Asleep' = Asleep
    <3>1. (IF outstanding_work_ = 1 THEN "stop" ELSE "idle") \in ClientPCs
      BY DEF ClientPCs
    <3> QED
      BY <1>0, <2>1, <3>1, ClientGoes
  <2>3. outstanding_work_ \in Nat /\ outstanding_work_ > 0 /\ Counted = outstanding_work_
    BY <1>0, <2>1 DEF Accounting, Counted, At, CountersOK
  <2>4. QueueOK'
    BY <1>0, <2>1, Unchanging
  <2>5. FlagsOK' /\ CountersOK'
    <3>1. FlagsOK'
      BY <1>0, <2>1 DEF FlagsOK, event
    <3>2. CountersOK'
      BY <1>0, <2>1, <2>3 DEF CountersOK, event
    <3> QED
      BY <3>1, <3>2
  <2>6. Accounting'
    <3>1. Counted' = outstanding_work_ - 1 /\ ~At(client, "push")'
      BY <2>1, <2>2, <2>3 DEF Counted, At
    <3> QED
      BY <1>0, <2>1, <2>2, <2>3, <3>1 DEF Accounting
  <2>7. EventMatches' /\ NoLostWakeup'
    BY <1>0, <2>1, <2>2 DEF EventMatches, NoLostWakeup, OnItsWay, At, event, Threads
  <2> QED
    BY <2>2, <2>4, <2>5, <2>6, <2>7, TypeParts DEF IInv
<1>6. CASE StopByWork \/ StopService
  <2>1. StopAllThreads(client, "idle") /\ ~At(client, "push") /\ client \notin Workers
    BY <1>6 DEF StopByWork, StopService, At
  <2> QED
    BY <1>0, <2>1, StopInv
<1>7. CASE Restart
  <2>1. /\ stopped_' = FALSE
        /\ UNCHANGED <<op_queue_, outstanding_work_, event, pc, op, clients>>
    BY <1>7 DEF Restart
  <2>2. PcOK' /\ QueueOK' /\ CountersOK'
    BY <1>0, <2>1, Unchanging DEF PcOK, event, clients
  <2>3. FlagsOK'
    BY <1>0, <2>1 DEF FlagsOK, event, clients
  <2>4. Accounting'
    BY <1>0, <2>1 DEF Accounting, Counted, At, Executing, clients
  <2>5. EventMatches' /\ NoLostWakeup'
    BY <1>0, <2>1 DEF EventMatches, NoLostWakeup, OnItsWay, InWait, Asleep, At, event
  <2> QED
    BY <2>2, <2>3, <2>4, <2>5, TypeParts DEF IInv
<1> QED
  BY <1>1, <1>2, <1>3, <1>4, <1>5, <1>6, <1>7 DEF Client, InCall

-----------------------------------------------------------------------------
LEMMA InitInv == Init => IInv
<1> SUFFICES ASSUME Init
             PROVE  IInv
  OBVIOUS
<1>1. PcOK
  BY DEF Init, PcOK, Threads, WorkerPCs, ClientPCs
<1>2. QueueOK /\ FlagsOK /\ CountersOK
  <2>1. QueueOK
    BY DEF Init, QueueOK, NoOp
  <2>2. FlagsOK
    BY DEF Init, FlagsOK
  <2>3. CountersOK
    BY DEF Init, CountersOK
  <2> QED
    BY <2>1, <2>2, <2>3
<1>3. InWait = {} /\ Executing = {} /\ Asleep = {} /\ pc[client] = "idle"
  BY DEF Init, InWait, Executing, Asleep, At, Threads
<1>4. Cardinality({}) = 0 /\ Len(<<>>) = 0
  BY FS_EmptySet
<1>5. Accounting
  BY <1>3, <1>4 DEF Init, Accounting, Counted, At
<1>6. EventMatches /\ NoLostWakeup
  BY <1>3, <1>4 DEF Init, EventMatches, NoLostWakeup
<1> QED
  BY <1>1, <1>2, <1>5, <1>6, TypeParts DEF IInv

LEMMA StutterInv ==
  ASSUME IInv, UNCHANGED vars
  PROVE  IInv'
BY DEF IInv, TypeOK, Accounting, Counted, EventMatches, NoLostWakeup, OnItsWay,
       InWait, Executing, Asleep, At, vars, event, clients

LEMMA NextInv == IInv /\ [Next]_vars => IInv'
BY WorkerInv, ClientInv, StutterInv DEF Next

(* Types, counters, the event's state and its wake-ups, in one invariant.   *)
THEOREM SchedulerInvariant == Spec => []IInv
BY InitInv, NextInv, PTL DEF Spec

(* No thread sleeps in run() while operations wait and nobody else is on    *)
(* the way to them, or after the scheduler was stopped.                     *)
THEOREM SchedulerLosesNoWakeup == Spec => []NoLostWakeup
<1>1. IInv => NoLostWakeup
  BY DEF IInv
<1> QED
  BY <1>1, SchedulerInvariant, PTL

-----------------------------------------------------------------------------
\* Every step is one of WorkQueue's, or invisible to its users.

phases == [w \in Workers |-> Phase(w)]

(* A step after which every other worker's phase is the same.               *)
LEMMA PhaseGoes ==
  ASSUME NEW w \in Workers, NEW p, Phase(w)' = p,
         \A u \in Workers : u # w => Phase(u)' = Phase(u)
  PROVE  phases' = [phases EXCEPT ![w] = p]
BY DEF phases

LEMMA PhasesStay ==
  ASSUME \A u \in Workers : Phase(u)' = Phase(u)
  PROVE  phases' = phases
BY DEF phases

(* What counts as outstanding for the users is zero, or one, only when the  *)
(* counter is: a post in progress is covered by a Work object.              *)
LEMMA CountedExactly ==
  ASSUME IInv
  PROVE  /\ Counted = 0 <=> outstanding_work_ = 0
         /\ \A w \in Workers : At(w, "execute") =>
              (Counted = 1 <=> outstanding_work_ = 1)
<1>0. PcOK /\ QueueOK /\ CountersOK /\ Accounting
  BY TypeParts DEF IInv
<1>1. Executing \in SUBSET Workers /\ Len(op_queue_) \in Nat
  BY <1>0, LenProperties DEF Executing, QueueOK
<1>2. Cardinality(Executing) \in Nat
  BY <1>1, FS_Subset, FS_CardinalityType
<1>3. CASE ~At(client, "push")
  BY <1>3 DEF Counted
<1>4. CASE At(client, "push")
  <2>1. Counted = outstanding_work_ - 1 /\ outstanding_work_ \in Nat
    BY <1>0, <1>4 DEF Counted, CountersOK
  <2>2. Counted = Len(op_queue_) + Cardinality(Executing) + 1
    BY <1>0, <1>4 DEF Accounting
  <2>3. ASSUME NEW w \in Workers, At(w, "execute")
        PROVE  Cardinality(Executing) > 0
    <3>1. w \in Executing
      BY <2>3 DEF Executing, At
    <3> QED
      BY <1>1, <3>1, Counts
  <2>4. Counted # 0 /\ outstanding_work_ # 0
    BY <1>1, <1>2, <2>1, <2>2
  <2>5. ASSUME NEW w \in Workers, At(w, "execute")
        PROVE  Counted # 1 /\ outstanding_work_ # 1
    BY <1>1, <1>2, <2>1, <2>2, <2>3, <2>5
  <2> QED
    BY <2>4, <2>5
<1> QED
  BY <1>3, <1>4

LEMMA WorkerRefines ==
  ASSUME IInv, NEW w \in Workers, Worker(w)
  PROVE  [Contract!QNext]_(Contract!qvars)
<1>0. PcOK /\ w \in Threads /\ w # client /\ QueueOK
  BY TypeParts DEF IInv, Threads
<1>1. CASE EnterRun(w)
  <2>1. Go(w, IF outstanding_work_ = 0 THEN "stop, leave" ELSE "loop") /\ pc[w] = "out"
        /\ UNCHANGED <<op_queue_, outstanding_work_, stopped_, op>>
    BY <1>1 DEF EnterRun, At
  <2>2. (IF outstanding_work_ = 0 THEN "stop, leave" ELSE "loop") \in WorkerPCs
    BY DEF WorkerPCs
  <2>3. /\ pc'[w] = (IF outstanding_work_ = 0 THEN "stop, leave" ELSE "loop")
        /\ \A t \in Threads : t # w => pc'[t] = pc[t]
        /\ pc'[client] = pc[client]
    BY <1>0, <2>1, <2>2, WorkerGoes
  <2>4. Phase(w)' = IF Counted = 0 THEN "leaving" ELSE "in"
    BY <2>3, CountedExactly DEF Phase, At
  <2>5. phases' = [phases EXCEPT ![w] = IF Counted = 0 THEN "leaving" ELSE "in"]
    BY <2>3, <2>4, PhaseGoes DEF Phase, At, Threads
  <2>6. phases[w] = "out" /\ Counted' = Counted
    BY <2>1, <2>3 DEF phases, Phase, At, Counted
  <2>7. Contract!Enter(w)
    BY <2>1, <2>5, <2>6 DEF Contract!Enter, phases
  <2> QED
    BY <2>7 DEF Contract!QNext
<1>2. CASE TakeMutex(w) \/ WakeUp(w)
  <2>1. PICK n : Turn(w, n)
    BY <1>2 DEF TakeMutex, WakeUp
  <2>2. phases[w] = "in" /\ w \notin Executing
    BY <1>2 DEF TakeMutex, WakeUp, phases, Phase, At, Executing
  <2>3. /\ pc'[client] = pc[client]
        /\ \A t \in Threads : t # w => pc'[t] = pc[t]
        /\ TakeOp(w, n) => pc'[w] \in {"notify", "execute"}
        /\ LeaveRun(w, n) => pc'[w] = "out"
        /\ Sleep(w, n) => pc'[w] = "asleep"
    BY <1>0, <2>1, <2>2, TurnMoves
  <2>4. Counted' = Counted /\ UNCHANGED <<outstanding_work_, stopped_>>
    BY <2>1, <2>3 DEF Turn, Counted, At
  <2>5. \A u \in Workers : u # w => Phase(u)' = Phase(u)
    BY <2>3 DEF Phase, At, Threads
  <2>6. CASE TakeOp(w, n)
    <3>1. phases' = [phases EXCEPT ![w] = "busy"]
      BY <2>3, <2>5, <2>6, PhaseGoes DEF Phase, At
    <3>2. Contract!Take(w)
      BY <2>2, <2>4, <2>6, <3>1 DEF TakeOp, Contract!Take, phases
    <3> QED
      BY <3>2 DEF Contract!QNext, Contract!Serve
  <2>7. CASE LeaveRun(w, n)
    <3>1. phases' = [phases EXCEPT ![w] = "out"]
      BY <2>3, <2>5, <2>7, PhaseGoes DEF Phase, At
    <3>2. Contract!Leave(w)
      BY <2>2, <2>4, <2>7, <3>1 DEF LeaveRun, Contract!Leave, phases
    <3> QED
      BY <3>2 DEF Contract!QNext, Contract!Serve
  <2>8. CASE Sleep(w, n)
    <3>1. Phase(w)' = Phase(w)
      BY <2>2, <2>3, <2>8 DEF Phase, At, phases
    <3>2. phases' = phases
      BY <2>5, <3>1, PhasesStay
    <3> QED
      BY <2>4, <2>8, <3>2 DEF Sleep, Contract!qvars, phases
  <2> QED
    BY <2>1, <2>6, <2>7, <2>8 DEF Turn
<1>3. CASE SleepAgain(w) \/ SpuriousWake(w)
  <2>1. /\ pc[w] \in {"asleep", "woken"} /\ \E l \in {"asleep", "woken"} : Go(w, l)
        /\ UNCHANGED <<op_queue_, outstanding_work_, stopped_, op>>
    BY <1>3 DEF SleepAgain, SpuriousWake, At
  <2>2. /\ pc'[w] \in {"asleep", "woken"} /\ pc'[client] = pc[client]
        /\ \A t \in Threads : t # w => pc'[t] = pc[t]
    BY <1>0, <2>1, WorkerGoes DEF WorkerPCs
  <2>3. phases' = phases
    BY <2>1, <2>2, PhasesStay DEF Phase, At, Threads
  <2> QED
    BY <2>1, <2>2, <2>3 DEF Contract!qvars, phases, Counted, At
<1>4. CASE NotifyOther(w)
  <2>1. At(w, "notify") /\ NotifyOne(w, "execute")
    BY <1>4 DEF NotifyOther
  <2>2. /\ pc'[w] = "execute"
        /\ \A u \in Threads : \/ u = w \/ pc'[u] = pc[u]
                              \/ u \in Asleep /\ pc'[u] = "woken"
    BY <1>0, <2>1, NotifyMoves
  <2>3. phases' = phases
    BY <2>1, <2>2, PhasesStay DEF Phase, At, Threads, Asleep
  <2>4. pc'[client] = pc[client]
    BY <1>0, <2>2 DEF Asleep, Threads
  <2> QED
    BY <2>1, <2>3, <2>4 DEF NotifyOne, Contract!qvars, phases, Counted, At
<1>5. CASE FinishOp(w)
  <2>1. PICK threw \in BOOLEAN :
          Go(w, IF outstanding_work_ = 1
                THEN IF threw THEN "stop, leave" ELSE "stop, loop"
                ELSE IF threw THEN "out" ELSE "loop")
    BY <1>5 DEF FinishOp
  <2>2. (IF outstanding_work_ = 1
         THEN IF threw THEN "stop, leave" ELSE "stop, loop"
         ELSE IF threw THEN "out" ELSE "loop") \in WorkerPCs
    BY DEF WorkerPCs
  <2>3. /\ pc'[w] = (IF outstanding_work_ = 1
                     THEN IF threw THEN "stop, leave" ELSE "stop, loop"
                     ELSE IF threw THEN "out" ELSE "loop")
        /\ pc'[client] = pc[client]
        /\ \A t \in Threads : t # w => pc'[t] = pc[t]
    BY <1>0, <2>1, <2>2, WorkerGoes
  <2>4. /\ At(w, "execute") /\ outstanding_work_' = outstanding_work_ - 1
        /\ op' = [op EXCEPT ![w] = NoOp] /\ UNCHANGED <<op_queue_, stopped_>>
    BY <1>5 DEF FinishOp
  <2>5. Counted' = Counted - 1
    <3>1. outstanding_work_ \in Nat
      BY TypeParts DEF IInv, CountersOK
    <3>2. outstanding_work_' = outstanding_work_ - 1 /\ pc'[client] = pc[client]
      BY <2>3, <2>4
    <3> QED
      BY <3>1, <3>2 DEF Counted, At
  <2>6. Phase(w)' = IF Counted = 1 THEN IF threw THEN "leaving" ELSE "ending"
                                   ELSE IF threw THEN "out" ELSE "in"
    <3>1. Counted = 1 <=> outstanding_work_ = 1
      BY <2>4, CountedExactly
    <3> QED
      BY <2>3, <3>1 DEF Phase, At
  <2>7. phases' = [phases EXCEPT ![w] =
                     IF Counted = 1 THEN IF threw THEN "leaving" ELSE "ending"
                                    ELSE IF threw THEN "out" ELSE "in"]
    BY <2>3, <2>6, PhaseGoes DEF Phase, At, Threads
  <2>8. phases[w] = "busy"
    BY <2>4 DEF phases, Phase, At
  <2>9. Contract!Finish(w)
    BY <2>4, <2>5, <2>7, <2>8 DEF Contract!Finish, phases
  <2> QED
    BY <2>9 DEF Contract!QNext, Contract!Serve
<1>6. CASE StopLast(w)
  <2>1. PICK l \in {"loop", "out"} :
          /\ StopAllThreads(w, l)
          /\ At(w, IF l = "loop" THEN "stop, loop" ELSE "stop, leave")
    BY <1>6 DEF StopLast
  <2>2. w \notin InWait /\ w \notin Executing
    BY <2>1 DEF At, InWait, Executing
  <2>3. /\ pc'[w] = l
        /\ \A u \in Threads : \/ u = w \/ pc'[u] = pc[u]
                              \/ u \in Asleep /\ pc'[u] = "woken"
    BY <1>0, <2>1, <2>2, StopMoves
  <2>4. pc'[client] = pc[client]
    BY <1>0, <2>3 DEF Asleep, Threads
  <2>5. phases[w] \in {"ending", "leaving"}
        /\ Phase(w)' = IF phases[w] = "ending" THEN "in" ELSE "out"
    BY <2>1, <2>3 DEF phases, Phase, At
  <2>6. phases' = [phases EXCEPT ![w] = IF phases[w] = "ending" THEN "in" ELSE "out"]
    BY <2>3, <2>5, PhaseGoes DEF Phase, At, Threads, Asleep
  <2>7. Counted' = Counted /\ stopped_' = TRUE /\ UNCHANGED <<op_queue_, op>>
    BY <2>1, <2>4 DEF StopAllThreads, Counted, At
  <2>8. Contract!StopLast(w)
    BY <2>5, <2>6, <2>7 DEF Contract!StopLast, phases
  <2> QED
    BY <2>8 DEF Contract!QNext, Contract!Serve
<1> QED
  BY <1>1, <1>2, <1>3, <1>4, <1>5, <1>6 DEF Worker, Running

LEMMA ClientRefines ==
  ASSUME IInv, Client
  PROVE  [Contract!QNext]_(Contract!qvars)
<1>0. /\ PcOK /\ CountersOK /\ client \in Threads /\ client \notin Workers
      /\ client \notin InWait /\ client \notin Executing
      /\ posted \in 0 .. MaxPosts
  BY TypeParts DEF IInv, Threads, CountersOK, InWait, Executing
<1>1. CASE NewWork
  <2>1. Contract!Hold
    <3>1. Counted' = Counted + 1
      BY <1>0, <1>1 DEF NewWork, Counted, At, CountersOK
    <3>2. phases' = phases
      BY <1>1, PhasesStay DEF NewWork, Phase, At
    <3> QED
      BY <1>1, <3>1, <3>2 DEF NewWork, Contract!Hold, phases
  <2> QED
    BY <2>1 DEF Contract!QNext
<1>2. CASE PostBegin \/ NotifyWorker \/ Restart
  <2>1. CASE PostBegin
    <3>1. Go(client, "push") /\ pc[client] = "idle" /\ outstanding_work_' = outstanding_work_ + 1
          /\ UNCHANGED <<op_queue_, stopped_, op>>
      BY <2>1 DEF PostBegin, At
    <3>2. pc'[client] = "push" /\ \A w \in Workers : pc'[w] = pc[w]
      BY <1>0, <3>1, ClientGoes DEF ClientPCs
    <3>3. Counted' = Counted
      BY <1>0, <3>1, <3>2 DEF Counted, At, CountersOK
    <3>4. phases' = phases
      BY <3>2, PhasesStay DEF Phase, At
    <3> QED
      BY <3>1, <3>3, <3>4 DEF Contract!qvars, phases
  <2>2. CASE NotifyWorker
    <3>1. At(client, "notify") /\ NotifyOne(client, "idle")
      BY <2>2 DEF NotifyWorker
    <3>2. /\ pc'[client] = "idle"
          /\ \A u \in Threads : \/ u = client \/ pc'[u] = pc[u]
                                \/ u \in Asleep /\ pc'[u] = "woken"
      BY <1>0, <3>1, NotifyMoves
    <3>3. phases' = phases
      BY <1>0, <3>2, PhasesStay DEF Phase, At, Threads, Asleep
    <3>4. Counted' = Counted
      BY <3>1, <3>2 DEF NotifyOne, Counted, At
    <3> QED
      BY <3>1, <3>3, <3>4 DEF NotifyOne, Contract!qvars, phases
  <2>3. CASE Restart
    <3>1. \A w \in Workers : phases[w] = "out"
      BY <2>3 DEF Restart, phases, Phase, At
    <3>2. phases' = phases /\ Counted' = Counted
      BY <2>3, PhasesStay DEF Restart, Phase, At, Counted
    <3>3. Contract!Restart
      BY <2>3, <3>1, <3>2 DEF Restart, Contract!Restart, phases
    <3> QED
      BY <3>3 DEF Contract!QNext
  <2> QED
    BY <1>2, <2>1, <2>2, <2>3
<1>3. CASE PostPush
  <2>1. /\ op_queue_' = Append(op_queue_, posted) /\ pc[client] = "push"
        /\ Go(client, IF waiters > 0 THEN "notify" ELSE "idle")
        /\ UNCHANGED <<outstanding_work_, stopped_, op>>
    BY <1>3 DEF PostPush, At
  <2>2. pc'[client] # "push" /\ \A w \in Workers : pc'[w] = pc[w]
    <3>1. (IF waiters > 0 THEN "notify" ELSE "idle") \in ClientPCs \ {"push"}
      BY DEF ClientPCs
    <3> QED
      BY <1>0, <2>1, <3>1, ClientGoes
  <2>3. posted \in Ops
    BY <1>0, <2>1 DEF IInv, Accounting, At, Ops
  <2>4. Counted' = Counted + 1
    BY <1>0, <2>1, <2>2 DEF Counted, At, CountersOK
  <2>5. phases' = phases
    BY <2>2, PhasesStay DEF Phase, At
  <2>6. Contract!Post(posted)
    BY <2>1, <2>4, <2>5 DEF Contract!Post, phases
  <2> QED
    BY <2>3, <2>6 DEF Contract!QNext
<1>4. CASE DropWork
  <2>1. /\ outstanding_work_' = outstanding_work_ - 1 /\ pc[client] = "idle"
        /\ Go(client, IF outstanding_work_ = 1 THEN "stop" ELSE "idle")
        /\ UNCHANGED <<op_queue_, stopped_, op>>
    BY <1>4 DEF DropWork, At
  <2>2. pc'[client] # "push" /\ \A w \in Workers : pc'[w] = pc[w]
    <3>1. (IF outstanding_work_ = 1 THEN "stop" ELSE "idle") \in ClientPCs \ {"push"}
      BY DEF ClientPCs
    <3> QED
      BY <1>0, <2>1, <3>1, ClientGoes
  <2>3. Counted' = Counted - 1
    BY <1>0, <2>1, <2>2 DEF Counted, At, CountersOK
  <2>4. phases' = phases
    BY <2>2, PhasesStay DEF Phase, At
  <2>5. Contract!Release
    BY <2>1, <2>3, <2>4 DEF Contract!Release, phases
  <2> QED
    BY <2>5 DEF Contract!QNext
<1>5. CASE StopByWork \/ StopService
  <2>1. StopAllThreads(client, "idle") /\ ~At(client, "push")
    BY <1>5 DEF StopByWork, StopService, At
  <2>2. /\ pc'[client] = "idle"
        /\ \A u \in Threads : \/ u = client \/ pc'[u] = pc[u]
                              \/ u \in Asleep /\ pc'[u] = "woken"
    BY <1>0, <2>1, StopMoves
  <2>3. phases' = phases
    BY <1>0, <2>2, PhasesStay DEF Phase, At, Threads, Asleep
  <2>4. Counted' = Counted
    BY <2>1, <2>2 DEF StopAllThreads, Counted, At
  <2>5. Contract!Stop
    BY <2>1, <2>3, <2>4 DEF StopAllThreads, Contract!Stop, phases
  <2> QED
    BY <2>5 DEF Contract!QNext
<1> QED
  BY <1>1, <1>2, <1>3, <1>4, <1>5 DEF Client, InCall

LEMMA InitRefines == Init => Contract!QInit
<1> SUFFICES ASSUME Init
             PROVE  Contract!QInit
  OBVIOUS
<1>1. Counted = 0
  <2>1. pc[client] = "idle" /\ outstanding_work_ = 0
    BY DEF Init, Threads
  <2> QED
    BY <2>1 DEF Counted, At
<1>2. phases = [w \in Workers |-> "out"]
  <2>1. \A w \in Workers : Phase(w) = "out"
    BY DEF Init, Phase, At, Threads
  <2> QED
    BY <2>1 DEF phases
<1> QED
  BY <1>1, <1>2 DEF Init, Contract!QInit, phases

LEMMA NextRefines == IInv /\ [Next]_vars => [Contract!QNext]_(Contract!qvars)
<1>1. IInv /\ Next => [Contract!QNext]_(Contract!qvars)
  BY WorkerRefines, ClientRefines DEF Next
<1>2. ASSUME UNCHANGED vars
      PROVE  UNCHANGED Contract!qvars
  BY <1>2 DEF vars, Contract!qvars, Counted, Phase, At
<1> QED
  BY <1>1, <1>2

(* The scheduler with its mutex, event and notifications implements the     *)
(* contract its users rely on.                                              *)
THEOREM SchedulerImplementsWorkQueue == Spec => ImplementsWorkQueue
BY SchedulerInvariant, InitRefines, NextRefines, PTL
   DEF Spec, ImplementsWorkQueue, Contract!QSafety
=============================================================================
