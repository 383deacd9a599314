---------------------------- MODULE ClientProofs ----------------------------
(***************************************************************************)
(* What a client of the library may rely on, for all values of the         *)
(* constants.                                                              *)
(*                                                                         *)
(* The encoder's lifecycle, with any number of threads and failures: what  *)
(* goes wrong in memory has its cause in the client's history, and         *)
(* set_parameters is refused as busy exactly after a failed encode.        *)
(*                                                                         *)
(* The stream, with any number of partials, fragments and data units: a    *)
(* decoder reads from the sequence header what the encoder works with, and *)
(* the distances between the data units form a chain.                      *)
(***************************************************************************)
EXTENDS EncoderLifecycle, Stream, SequenceTheorems, FiniteSetTheorems, WellFoundedInduction, TLAPS

-----------------------------------------------------------------------------
(* The lifecycle.                                                          *)
TypeInv == /\ mJobsInFlight \in Nat /\ threads \in Nat
           /\ left \in Seq(Batch)
           /\ mSlices \in [{2, 4} -> Pointer]
           /\ mJobData \in Pointer

\* An encoder that is not destroyed has a deleted pool, deleted jobs or slices
\* only after the refusal that left them so, and a 32 bit buffer only after a
\* depth that asked for one.
Dangling ==
    last.call # "destroy" =>
        /\ mPool = "freed" => "slice size" \in past
        /\ mJobData = "freed" => "slice size" \in past
        /\ mSlices[2] = "freed" => "deep" \in past
        /\ mSlices[4] # "null" => "deep" \in past

\* Jobs are made by the first set_parameters that is not refused before them.
NeverConfigured ==
    last.call # "destroy" /\ mJobData = "null" =>
        past \intersect ({"accepted"} \union RefusedLate) = {}

\* The latest call has not run jobs in a pool that is new.
PoolUnused == mPool = "new" => ~(last.call = "encode" /\ last.result \in {"OK", "ENCODE_FAILED"})

\* Jobs that outlive their call, and whose table is gone.
Leftovers ==
    /\ left # <<>> => threads = 0 \/ "all workers threw" \in past
    /\ \A i \in DOMAIN left : left[i].table = "freed" => "busy" \in past

Settings ==
    /\ last.call # "destroy" =>
          mParams = configured \/ mJobData # "live" \/ "busy" \in past
    /\ configured \in RefusedLate => configured \in past

Failures ==
    /\ mJobsInFlight # 0 <=> "encode threw" \in past
    /\ "busy" \in past => "encode threw" \in past

IInv == /\ TypeInv /\ Dangling /\ NeverConfigured /\ PoolUnused /\ Leftovers /\ Settings /\ Failures
        /\ HarmHasCause /\ BusyMeansFailed /\ OkMeansEncoded

----------------------------------------------------------------------------
LEMMA InitInv == Init => IInv
  BY DEF Init, IInv, TypeInv, Dangling, NeverConfigured, PoolUnused, Leftovers, Settings, Failures, HarmHasCause,
     BusyMeansFailed, OkMeansEncoded, Pointer, Batch, RefusedLate

\* A step into undefined behaviour needs the cause of its error, no more.
LEMMA CrashInv ==
    ASSUME IInv, NEW what, Crash(what),
           \/ what = "work" /\ mPool = "new"
           \/ what \in {"pool", "jobs"} /\ "slice size" \in past
           \/ what = "slices" /\ "deep" \in past
           \/ what = "half configured" /\ past \intersect RefusedLate # {}
           \/ /\ what = "not configured"
              /\ past \intersect ({"accepted"} \union RefusedLate) = {}
    PROVE  IInv'
<1>1. UNCHANGED <<mParams, mJobsInFlight, mPool, threads, left, mJobData, mSlices, configured, last, past>>
      /\ harm' = harm \union {what}
  BY DEF Crash, pointers
<1>2. HarmHasCause'
  BY <1>1 DEF IInv, HarmHasCause, PoolUnused
<1> QED  BY <1>1, <1>2 DEF IInv, TypeInv, Dangling, NeverConfigured, PoolUnused, Leftovers, Settings,
     Failures, BusyMeansFailed, OkMeansEncoded

LEMMA EmptyLeft == ASSUME NEW q, q = <<>> PROVE q \in Seq(Batch) /\ DOMAIN q = {}
<1>1. <<>> \in Seq(Batch) /\ DOMAIN <<>> = {}
  OBVIOUS
<1> QED  BY <1>1

\* A history that only grows goes on explaining the harm there is, as long as
\* nothing undefined has happened.
LEMMA HarmStays ==
    ASSUME HarmHasCause, Alive, harm' = harm, past \subseteq past'
    PROVE  HarmHasCause'
<1>1. "not configured" \notin harm /\ "work" \notin harm
  BY DEF Alive, Undefined
<1> QED  BY <1>1 DEF HarmHasCause

----------------------------------------------------------------------------
LEMMA SetWhileBusyInv == ASSUME IInv, Alive, NEW k \in Kinds, SetWhileBusy(k) PROVE IInv'
<1>1. /\ mJobsInFlight # 0 /\ mParams' = k /\ left' = Orphaned(left)
      /\ last' = [call |-> "set", result |-> "BADTHREAD"]
      /\ past' = past \union {"busy"}
      /\ UNCHANGED <<mJobsInFlight, mPool, threads, mJobData, mSlices, configured, harm>>
  BY DEF SetWhileBusy, Set
<1>2. last'.call = "set" /\ last'.result = "BADTHREAD"
  BY <1>1
<1>3. left' \in Seq(Batch) /\ DOMAIN left' = DOMAIN left /\ (left' # <<>> => left # <<>>)
  <2>1. left \in Seq(Batch)
    BY DEF IInv, TypeInv
  <2>3. \A i \in DOMAIN left : left[i] \in Batch
    BY <2>1
  <2>2. \A i \in DOMAIN left : [work |-> left[i].work, table |-> "freed"] \in Batch
    BY <2>3 DEF Batch
  <2> QED  BY <1>1, <2>1, <2>2 DEF Orphaned
<1>4. TypeInv' /\ Leftovers'
  BY <1>1, <1>3 DEF IInv, TypeInv, Leftovers
<1>5. Failures' /\ "encode threw" \in past'
  BY <1>1 DEF IInv, Failures
<1>6. Settings' /\ BusyMeansFailed' /\ OkMeansEncoded'
  BY <1>1, <1>2, <1>5 DEF IInv, Alive, Settings, BusyMeansFailed, OkMeansEncoded
<1>7. Dangling' /\ NeverConfigured' /\ PoolUnused'
  BY <1>1, <1>2 DEF IInv, Dangling, NeverConfigured, PoolUnused, RefusedLate, Alive
<1>8. HarmHasCause'
  BY <1>1, HarmStays DEF IInv
<1> QED  BY <1>4, <1>5, <1>6, <1>7, <1>8 DEF IInv

LEMMA SetSliceSizeInv == ASSUME IInv, Alive, SetSliceSize PROVE IInv'
<1>1. /\ mJobsInFlight = 0 /\ mParams' = "slice size" /\ left' = <<>>
      /\ mJobData' = Deleted(mJobData)
      /\ last' = [call |-> "set", result |-> "BADPARAMS"]
      /\ past' = past \union {"slice size"}
      /\ UNCHANGED <<mJobsInFlight, threads, mSlices, configured, harm>>
  BY DEF SetSliceSize, Set, PoolCanStop
<1>2. last'.call = "set" /\ last'.result = "BADPARAMS"
  BY <1>1
<1>3. TypeInv' /\ Leftovers'
  <2>1. mJobData' \in Pointer
    BY <1>1 DEF Deleted, Pointer
  <2>2. left' \in Seq(Batch) /\ DOMAIN left' = {}
    BY <1>1, EmptyLeft
  <2> QED  BY <1>1, <2>1, <2>2 DEF IInv, TypeInv, Leftovers
<1>4. Failures' /\ BusyMeansFailed' /\ OkMeansEncoded'
  BY <1>1, <1>2 DEF IInv, Failures, BusyMeansFailed, OkMeansEncoded
<1>5. Settings'
  <2>1. mJobData' # "live"
    BY <1>1 DEF Deleted
  <2> QED  BY <1>1, <2>1 DEF IInv, Settings
<1>6. Dangling'
  BY <1>1 DEF IInv, Dangling, Alive
<1>7. NeverConfigured' /\ PoolUnused'
  <2>1. mJobData' = "null" => mJobData = "null"
    BY <1>1 DEF Deleted
  <2> QED  BY <1>1, <2>1 DEF IInv, NeverConfigured, PoolUnused, RefusedLate, Alive
<1>8. HarmHasCause'
  BY <1>1, HarmStays DEF IInv
<1> QED  BY <1>3, <1>4, <1>5, <1>6, <1>7, <1>8 DEF IInv

LEMMA SetConfiguresInv ==
    ASSUME IInv, Alive, NEW k \in Kinds, NEW n \in Nat, SetConfigures(k, n)
    PROVE  IInv'
<1>1. /\ mJobsInFlight = 0 /\ k # "slice size"
      /\ mParams' = k /\ mPool' = "new" /\ threads' = n /\ left' = <<>>
      /\ mSlices' = [s \in {2, 4} |-> IF s = CoefSize(k) THEN "live" ELSE Deleted(mSlices[s])]
      /\ mJobData' = "live" /\ configured' = k
      /\ last' = [call |-> "set", result |-> Result(k)]
      /\ past' = past \union {IF k \in Accepted THEN "accepted" ELSE k}
      /\ UNCHANGED <<mJobsInFlight, harm>>
  BY DEF SetConfigures, Set, PoolCanStop
<1>2. last'.call = "set" /\ last'.result = Result(k) /\ Result(k) # "BADTHREAD"
  BY <1>1 DEF Result, Kinds, Accepted, RefusedLate
<1>3. /\ mSlices' \in [{2, 4} -> Pointer]
      /\ mSlices'[2] = (IF k = "deep" THEN Deleted(mSlices[2]) ELSE "live")
      /\ mSlices'[4] = (IF k = "deep" THEN "live" ELSE Deleted(mSlices[4]))
  <2>1. \A p : Deleted(p) \in Pointer
    BY DEF Deleted, Pointer
  <2>2. \A s \in {2, 4} : (IF s = CoefSize(k) THEN "live" ELSE Deleted(mSlices[s])) \in Pointer
    BY <2>1 DEF Pointer
  <2>3. mSlices' \in [{2, 4} -> Pointer]
    BY <1>1, <2>2
  <2>4. /\ mSlices'[2] = (IF 2 = CoefSize(k) THEN "live" ELSE Deleted(mSlices[2]))
        /\ mSlices'[4] = (IF 4 = CoefSize(k) THEN "live" ELSE Deleted(mSlices[4]))
    BY <1>1
  <2>5. CoefSize(k) = (IF k = "deep" THEN 4 ELSE 2)
    BY DEF CoefSize
  <2>6. /\ mSlices'[2] = (IF k = "deep" THEN Deleted(mSlices[2]) ELSE "live")
        /\ mSlices'[4] = (IF k = "deep" THEN "live" ELSE Deleted(mSlices[4]))
    BY <2>4, <2>5
  <2> QED  BY <2>3, <2>6
<1>4. TypeInv' /\ Leftovers'
  <2>1. left' \in Seq(Batch) /\ DOMAIN left' = {} /\ mJobData' \in Pointer
    BY <1>1, EmptyLeft DEF Pointer
  <2> QED  BY <1>1, <1>3, <2>1 DEF IInv, TypeInv, Leftovers
<1>5. Failures' /\ "encode threw" \notin past'
  BY <1>1 DEF IInv, Failures, Kinds, Accepted, RefusedLate
<1>6. BusyMeansFailed' /\ OkMeansEncoded'
  BY <1>1, <1>2, <1>5 DEF BusyMeansFailed, OkMeansEncoded
<1>7. Settings'
  BY <1>1 DEF IInv, Settings, Accepted, RefusedLate
<1>8. Dangling'
  <2>1. k = "deep" => "deep" \in past'
    BY <1>1 DEF Accepted
  <2>2. past \subseteq past'
    BY <1>1
  <2> QED  BY <1>1, <1>3, <2>1, <2>2 DEF IInv, Dangling, Alive, Deleted
<1>9. HarmHasCause' /\ NeverConfigured' /\ PoolUnused'
  BY <1>1, HarmStays DEF IInv, NeverConfigured, PoolUnused
<1> QED  BY <1>4, <1>5, <1>6, <1>7, <1>8, <1>9 DEF IInv

LEMMA SetParamsInv == ASSUME BoundsAssumption, IInv, SetParams PROVE IInv'
<1>1. Alive
  BY DEF SetParams
<1>2. ASSUME SetStopsDeadPool PROVE IInv'
  BY <1>1, <1>2, CrashInv DEF SetStopsDeadPool, IInv, Dangling, Alive
<1>3. ASSUME SetStopsUnusedPool PROVE IInv'
  BY <1>3, CrashInv DEF SetStopsUnusedPool
<1>4. ASSUME NEW k \in Kinds, SetDeletesTwice(k) PROVE IInv'
  BY <1>1, <1>4, CrashInv DEF SetDeletesTwice, IInv, Dangling, Alive
<1>5. ASSUME NEW k \in Kinds, NEW n \in 0..MaxThreads, SetConfigures(k, n) PROVE IInv'
  BY <1>1, <1>5, SetConfiguresInv DEF BoundsAssumption
<1> QED  BY <1>1, <1>2, <1>3, <1>4, <1>5, SetWhileBusyInv, SetSliceSizeInv DEF SetParams

----------------------------------------------------------------------------
\* A round without workers does nothing; otherwise it leaves something only if
\* all of them throw.
LEMMA RoundLeaves ==
    ASSUME TypeInv, NEW q \in Seq(Batch), NEW r \in Round(q)
    PROVE  /\ r.left \in Seq(Batch) /\ r.exceptions \in 0..threads /\ r.ran \in Int
           /\ \A i \in DOMAIN r.left : \E j \in DOMAIN q : r.left[i] = q[j]
           /\ threads = 0 => r.ran = 0
           /\ threads # 0 => r.left = <<>> \/ r.exceptions = threads
<1>1. threads \in Nat
  BY DEF TypeInv
<1>2. CASE threads = 0
  <2>1. r = [ran |-> 0, left |-> q, exceptions |-> 0]
    BY <1>2 DEF Round
  <2> QED  BY <1>1, <1>2, <2>1
<1>3. CASE threads # 0 /\ \E e \in 0..threads : r = [ran |-> Len(q), left |-> <<>>, exceptions |-> e]
  BY <1>1, <1>3
<1>4. CASE threads # 0 /\ \E i \in Partials(q) :
              r = [ran |-> i, left |-> SubSeq(q, i, Len(q)), exceptions |-> threads]
  <2>1. PICK i \in DOMAIN q : r = [ran |-> i, left |-> SubSeq(q, i, Len(q)), exceptions |-> threads]
    BY <1>4 DEF Partials
  <2>2. i \in 1..Len(q) /\ Len(q) \in Nat /\ r.left = SubSeq(q, i, Len(q))
    BY <2>1
  <2>3. /\ r.left \in Seq(Batch)
        /\ \A m \in DOMAIN r.left : m \in 1..(Len(q) - i + 1) /\ r.left[m] = q[i + m - 1]
    BY <2>2
  <2>4. \A m \in 1..(Len(q) - i + 1) : i + m - 1 \in DOMAIN q
    BY <2>2
  <2>5. \A m \in DOMAIN r.left : \E j \in DOMAIN q : r.left[m] = q[j]
    BY <2>3, <2>4
  <2>6. r.exceptions = threads
    BY <2>1
  <2> QED  BY <1>1, <1>4, <2>3, <2>5, <2>6
<1>5. threads # 0 =>
        \/ \E e \in 0..threads : r = [ran |-> Len(q), left |-> <<>>, exceptions |-> e]
        \/ \E i \in Partials(q) :
              r = [ran |-> i, left |-> SubSeq(q, i, Len(q)), exceptions |-> threads]
  BY <1>1 DEF Round
<1> QED  BY <1>2, <1>3, <1>4, <1>5

\* What is queued behind leftovers is leftovers and the new jobs.
LEMMA Queued ==
    ASSUME NEW q \in Seq(Batch), NEW work \in {"transform", "partial"}
    PROVE  /\ q \o Jobs(work) \in Seq(Batch)
           /\ \A j \in DOMAIN (q \o Jobs(work)) :
                 \/ (q \o Jobs(work))[j].table = "live"
                 \/ j \in DOMAIN q /\ (q \o Jobs(work))[j] = q[j]
<1>1. [work |-> work, table |-> "live"] \in Batch
  BY DEF Batch
<1> DEFINE b == [work |-> work, table |-> "live"]
<1>2. b.table = "live"
  OBVIOUS
<1> HIDE DEF b
<1>3. /\ q \o <<b>> \in Seq(Batch)
      /\ \A j \in DOMAIN (q \o <<b>>) : (q \o <<b>>)[j] = b \/ (j \in DOMAIN q /\ (q \o <<b>>)[j] = q[j])
  BY <1>1 DEF b
<1>4. Jobs(work) = <<b>>
  BY DEF Jobs, b
<1> QED  BY <1>2, <1>3, <1>4

\* A stale job that runs is a leftover, and there was a worker to run it.
LEMMA IntrusionsHaveCause ==
    ASSUME TypeInv, Leftovers, Failures, NEW ran \in Int, threads = 0 => ran = 0,
           NEW h \in Intrusions(ran)
    PROVE  /\ h \in {"band", "encoder data", "old output"}
           /\ "all workers threw" \in past
           /\ h = "encoder data" => "busy" \in past
<1>1. PICK i \in DOMAIN left :
        /\ i <= ran
        /\ h = IF left[i].work = "transform" THEN "band"
               ELSE IF left[i].table = "freed" THEN "encoder data" ELSE "old output"
  BY DEF Intrusions
<1>2. i >= 1 /\ i \in Int /\ left # <<>>
  <2>1. left \in Seq(Batch)
    BY DEF TypeInv
  <2>2. DOMAIN left = 1..Len(left) /\ Len(left) \in Nat
    BY <2>1
  <2>3. i \in 1..Len(left) /\ i >= 1 /\ i \in Int
    BY <2>2
  <2>4. DOMAIN left # {}
    OBVIOUS
  <2>5. left # <<>>
    BY <2>4, EmptyLeft
  <2> QED  BY <2>3, <2>5
<1>3. threads # 0
  <2>1. i <= ran
    BY <1>1
  <2> QED  BY <1>2, <2>1
<1>4. "all workers threw" \in past
  BY <1>2, <1>3 DEF Leftovers
<1>5. left[i].table = "freed" => "busy" \in past
  BY <1>1 DEF Leftovers
<1> QED  BY <1>1, <1>4, <1>5

LEMMA EncodePictureInv ==
    ASSUME IInv, Alive, WithinBounds, EncodePicture
    PROVE  IInv'
<1>1. PICK one \in Round(left \o Jobs("transform")) :
        /\ harm' = harm \union Intrusions(one.ran)
                        \union (IF mParams # configured THEN {"mixed settings"} ELSE {})
        /\ \E two \in IF one.exceptions = 0 THEN Round(one.left \o Jobs("partial")) ELSE {one} :
            /\ left' = two.left
            /\ IF two.exceptions # 0
               THEN /\ last' = [call |-> "encode", result |-> "ENCODE_FAILED"]
                    /\ mJobsInFlight' = mJobsInFlight + 1
                    /\ past' = past \union {"encode threw"}
                         \union (IF two.exceptions = threads THEN {"all workers threw"} ELSE {})
               ELSE /\ last' = [call |-> "encode", result |-> "OK"]
                    /\ UNCHANGED <<mJobsInFlight, past>>
  BY DEF EncodePicture, Encoded
<1>2. PICK two \in IF one.exceptions = 0 THEN Round(one.left \o Jobs("partial")) ELSE {one} :
        /\ left' = two.left
        /\ IF two.exceptions # 0
           THEN /\ last' = [call |-> "encode", result |-> "ENCODE_FAILED"]
                /\ mJobsInFlight' = mJobsInFlight + 1
                /\ past' = past \union {"encode threw"}
                     \union (IF two.exceptions = threads THEN {"all workers threw"} ELSE {})
           ELSE /\ last' = [call |-> "encode", result |-> "OK"]
                /\ UNCHANGED <<mJobsInFlight, past>>
  BY <1>1
<1>3. two.exceptions # 0 =>
        /\ last' = [call |-> "encode", result |-> "ENCODE_FAILED"]
        /\ mJobsInFlight' = mJobsInFlight + 1
        /\ past' = past \union {"encode threw"}
             \union (IF two.exceptions = threads THEN {"all workers threw"} ELSE {})
  BY <1>2
<1>4. two.exceptions # 0 =>
        /\ past \subseteq past' /\ ("busy" \in past' <=> "busy" \in past)
        /\ "encode threw" \in past'
        /\ two.exceptions = threads => "all workers threw" \in past'
  <2> SUFFICES ASSUME two.exceptions # 0
               PROVE  /\ past \subseteq past' /\ ("busy" \in past' <=> "busy" \in past)
                      /\ "encode threw" \in past'
                      /\ two.exceptions = threads => "all workers threw" \in past'
    OBVIOUS
  <2>1. past' = past \union {"encode threw"}
             \union (IF two.exceptions = threads THEN {"all workers threw"} ELSE {})
    BY <1>3
  <2> QED  BY <2>1
<1>5. two.exceptions = 0 =>
        /\ last' = [call |-> "encode", result |-> "OK"]
        /\ mJobsInFlight' = mJobsInFlight /\ past' = past
  BY <1>2
<1>6. left' = two.left
  BY <1>2
<1>7. /\ mJobData = "live" /\ mPool' = "used"
      /\ UNCHANGED <<mParams, threads, mJobData, mSlices, configured>>
  BY DEF EncodePicture
<1>8. /\ TypeInv /\ left \in Seq(Batch) /\ threads \in Nat /\ mJobsInFlight \in Nat
  BY DEF IInv, TypeInv
<1> DEFINE Old(q) == \A i \in DOMAIN q : q[i].table = "live" \/ "busy" \in past
<1>9. ASSUME NEW q \in Seq(Batch), NEW r \in Round(q), Old(q) PROVE Old(r.left)
  <2>1. \A i \in DOMAIN r.left : \E j \in DOMAIN q : r.left[i] = q[j]
    BY <1>8, RoundLeaves
  <2> QED  BY <1>9, <2>1
<1>10. ASSUME NEW q \in Seq(Batch), NEW work \in {"transform", "partial"}, Old(q)
      PROVE  q \o Jobs(work) \in Seq(Batch) /\ Old(q \o Jobs(work))
  <2>1. \A j \in DOMAIN (q \o Jobs(work)) :
           \/ (q \o Jobs(work))[j].table = "live"
           \/ j \in DOMAIN q /\ (q \o Jobs(work))[j] = q[j]
    BY Queued
  <2>2. q \o Jobs(work) \in Seq(Batch)
    BY Queued
  <2> QED  BY <1>10, <2>1, <2>2
<1>11. /\ one.left \in Seq(Batch) /\ Old(one.left) /\ one.exceptions \in 0..threads
       /\ one.ran \in Int
       /\ threads = 0 => one.ran = 0
       /\ threads # 0 => one.left = <<>> \/ one.exceptions = threads
  <2>1. Old(left)
    <3>1. \A i \in DOMAIN left : left[i] \in Batch
      BY <1>8
    <3> QED  BY <3>1 DEF IInv, Leftovers, Batch
  <2>2. left \o Jobs("transform") \in Seq(Batch) /\ Old(left \o Jobs("transform"))
    BY <1>8, <1>10, <2>1
  <2>3. one \in Round(left \o Jobs("transform"))
    BY <1>1
  <2>4. Old(one.left)
    BY <1>9, <2>2, <2>3
  <2> HIDE DEF Old
  <2> QED  BY <1>8, <2>2, <2>3, <2>4, RoundLeaves
<1>12. /\ two.left \in Seq(Batch) /\ Old(two.left) /\ two.exceptions \in 0..threads
       /\ threads # 0 => two.left = <<>> \/ two.exceptions = threads
  <2>1. CASE one.exceptions = 0
    <3>1. one.left \o Jobs("partial") \in Seq(Batch) /\ Old(one.left \o Jobs("partial"))
      BY <1>11, <1>10
    <3>2. two \in Round(one.left \o Jobs("partial"))
      BY <1>2, <2>1
    <3>3. Old(two.left)
      BY <1>9, <3>1, <3>2
    <3> HIDE DEF Old
    <3> QED  BY <1>8, <3>1, <3>2, <3>3, RoundLeaves
  <2>2. CASE one.exceptions # 0
    <3>1. two = one
      BY <1>2, <2>2
    <3> HIDE DEF Old
    <3> QED  BY <1>11, <3>1
  <2> QED  BY <2>1, <2>2
<1> HIDE DEF Old
<1>13. past \subseteq past' /\ ("busy" \in past' <=> "busy" \in past)
  BY <1>5, <1>4
<1>14. /\ two.exceptions # 0 => "encode threw" \in past' /\ mJobsInFlight' # 0
       /\ two.exceptions # 0 /\ two.exceptions = threads => "all workers threw" \in past'
       /\ two.exceptions = 0 => mJobsInFlight' = mJobsInFlight /\ past' = past
       /\ mJobsInFlight' \in Nat
  <2>1. mJobsInFlight \in Nat
    BY <1>8
  <2>2. mJobsInFlight' \in Nat /\ (two.exceptions # 0 => mJobsInFlight' # 0)
    <3>1. two.exceptions # 0 => mJobsInFlight' = mJobsInFlight + 1
      BY <1>3
    <3>2. two.exceptions = 0 => mJobsInFlight' = mJobsInFlight
      BY <1>5
    <3> QED  BY <2>1, <3>1, <3>2
  <2> QED  BY <1>5, <1>4, <2>2
<1>15. /\ last'.call = "encode"
       /\ last' = [call |-> "encode", result |-> "OK"] => two.exceptions = 0
  <2>1. [call |-> "encode", result |-> "OK"] # [call |-> "encode", result |-> "ENCODE_FAILED"]
    <3>1. [call |-> "encode", result |-> "OK"].result = "OK"
          /\ [call |-> "encode", result |-> "ENCODE_FAILED"].result = "ENCODE_FAILED"
      OBVIOUS
    <3> QED  BY <3>1
  <2>2. CASE two.exceptions # 0
    <3>1. last' = [call |-> "encode", result |-> "ENCODE_FAILED"]
      BY <1>3, <2>2
    <3> QED  BY <2>1, <3>1
  <2>3. CASE two.exceptions = 0
    BY <1>5, <2>3
  <2> QED  BY <2>2, <2>3
<1>16. TypeInv'
  BY <1>6, <1>7, <1>12, <1>14 DEF IInv, TypeInv
<1>17. Leftovers'
  <2>1. left' # <<>> => threads' = 0 \/ "all workers threw" \in past'
    BY <1>6, <1>7, <1>8, <1>12, <1>14
  <2>2. \A i \in DOMAIN left' : left'[i].table = "freed" => "busy" \in past'
    BY <1>6, <1>12, <1>13 DEF Old
  <2> QED  BY <2>1, <2>2 DEF Leftovers
<1>18. Failures'
  BY <1>13, <1>14 DEF IInv, Failures
<1>19. Settings' /\ Dangling' /\ NeverConfigured' /\ PoolUnused'
  BY <1>7, <1>13, <1>15 DEF IInv, Settings, Dangling, NeverConfigured, PoolUnused, Alive
<1>20. BusyMeansFailed' /\ OkMeansEncoded'
  <2>1. last' = [call |-> "encode", result |-> "OK"] => left' = <<>> \/ threads' = 0
    BY <1>6, <1>7, <1>12, <1>15
  <2> QED  BY <1>15, <2>1 DEF BusyMeansFailed, OkMeansEncoded
<1>21. HarmHasCause'
  <2>1. \A h \in Intrusions(one.ran) :
          /\ h \in {"band", "encoder data", "old output"}
          /\ "all workers threw" \in past /\ (h = "encoder data" => "busy" \in past)
    BY <1>8, <1>11, IntrusionsHaveCause DEF IInv
  <2>2. mParams # configured => "busy" \in past /\ "encode threw" \in past
    BY <1>7 DEF IInv, Settings, Failures, Alive
  <2>3. \A h \in harm' : \/ h \in harm
                         \/ h \in Intrusions(one.ran)
                         \/ h = "mixed settings" /\ mParams # configured
    BY <1>1
  <2>4. HarmHasCause /\ "not configured" \notin harm /\ "work" \notin harm
    BY DEF IInv, Alive, Undefined
  <2>5. "not configured" \notin harm' /\ "work" \notin harm'
    BY <2>1, <2>3, <2>4
  <2> QED  BY <1>13, <2>1, <2>2, <2>3, <2>4, <2>5 DEF HarmHasCause
<1> QED  BY <1>16, <1>17, <1>18, <1>19, <1>20, <1>21 DEF IInv

LEMMA EncodeInv == ASSUME IInv, Encode PROVE IInv'
<1>1. Alive /\ WithinBounds
  BY DEF Encode
<1>2. ASSUME EncodeUnknownFormat PROVE IInv'
  <2>1. /\ mJobsInFlight' = mJobsInFlight + 1 /\ past' = past \union {"encode threw"}
        /\ last' = [call |-> "encode", result |-> "BADPARAMS"]
        /\ UNCHANGED <<mParams, mPool, threads, left, mJobData, mSlices, configured, harm>>
    BY <1>2 DEF EncodeUnknownFormat, Encoded, pointers
  <2>2. last'.call = "encode" /\ last' # [call |-> "encode", result |-> "OK"]
    BY <2>1
  <2>3. mJobsInFlight' # 0 /\ mJobsInFlight' \in Nat
    <3>1. mJobsInFlight \in Nat
      BY DEF IInv, TypeInv
    <3>2. mJobsInFlight' = mJobsInFlight + 1
      BY <2>1
    <3> QED  BY <3>1, <3>2
  <2>4. TypeInv' /\ Leftovers' /\ Failures'
    BY <2>1, <2>3 DEF IInv, TypeInv, Leftovers, Failures
  <2>5. Dangling' /\ Settings' /\ BusyMeansFailed' /\ OkMeansEncoded'
    BY <1>1, <2>1, <2>2 DEF IInv, Dangling, Settings, BusyMeansFailed, OkMeansEncoded, Alive
  <2>6. NeverConfigured' /\ PoolUnused'
    BY <1>1, <2>1, <2>2 DEF IInv, NeverConfigured, PoolUnused, RefusedLate, Alive
  <2>7. HarmHasCause'
    BY <1>1, <2>1, HarmStays DEF IInv
  <2> QED  BY <2>4, <2>5, <2>6, <2>7 DEF IInv
<1>3. ASSUME EncodeDeadJobs PROVE IInv'
  BY <1>1, <1>3, CrashInv DEF EncodeDeadJobs, IInv, Dangling, Alive
<1>4. ASSUME EncodeNotConfigured PROVE IInv'
  BY <1>1, <1>4, CrashInv DEF EncodeNotConfigured, IInv, NeverConfigured, PoolUnused, Alive
<1>5. ASSUME EncodeHalfConfigured PROVE IInv'
  <2>1. past \intersect RefusedLate # {}
    BY <1>5 DEF EncodeHalfConfigured, IInv, Settings
  <2> QED  BY <1>1, <1>5, <2>1, CrashInv DEF EncodeHalfConfigured
<1> QED  BY <1>1, <1>2, <1>3, <1>4, <1>5, EncodePictureInv DEF Encode

LEMMA DestroyInv == ASSUME IInv, Destroy PROVE IInv'
<1>1. Alive
  BY DEF Destroy
<1>2. ASSUME DestroyStopsDeadPool PROVE IInv'
  BY <1>1, <1>2, CrashInv DEF DestroyStopsDeadPool, IInv, Dangling, Alive
<1>3. ASSUME DestroyStopsUnusedPool PROVE IInv'
  BY <1>3, CrashInv DEF DestroyStopsUnusedPool
<1>4. ASSUME DestroyDeletesTwice PROVE IInv'
  BY <1>1, <1>4, CrashInv DEF DestroyDeletesTwice, IInv, Dangling, Alive
<1>5. ASSUME DestroyAll PROVE IInv'
  <2>1. /\ left' = <<>> /\ mJobData' = Deleted(mJobData)
        /\ mSlices' = [s \in {2, 4} |-> Deleted(mSlices[s])]
        /\ last' = [call |-> "destroy", result |-> "OK"]
        /\ UNCHANGED <<mParams, mJobsInFlight, threads, configured, past, harm>>
    BY <1>5 DEF DestroyAll
  <2>2. last'.call = "destroy" /\ last' # [call |-> "encode", result |-> "OK"]
    BY <2>1
  <2>3. \A p : Deleted(p) \in Pointer
    BY DEF Deleted, Pointer
  <2>4. mSlices' \in [{2, 4} -> Pointer] /\ mJobData' \in Pointer
        /\ left' \in Seq(Batch) /\ DOMAIN left' = {}
    BY <2>1, <2>3, EmptyLeft
  <2>5. TypeInv' /\ Leftovers' /\ Failures'
    BY <2>1, <2>4 DEF IInv, TypeInv, Leftovers, Failures
  <2>6. /\ Dangling' /\ NeverConfigured' /\ PoolUnused' /\ Settings'
        /\ BusyMeansFailed' /\ OkMeansEncoded'
    BY <2>1, <2>2 DEF IInv, Dangling, NeverConfigured, PoolUnused, Settings, BusyMeansFailed, OkMeansEncoded
  <2>7. HarmHasCause'
    BY <1>1, <2>1, HarmStays DEF IInv
  <2> QED  BY <2>5, <2>6, <2>7 DEF IInv
<1> QED  BY <1>2, <1>3, <1>4, <1>5 DEF Destroy

----------------------------------------------------------------------------
\* The invariant of the lifecycle: every dangling pointer, leftover job and
\* mixture of settings is accounted for by the client's history.
THEOREM LifecycleInvariant == ASSUME BoundsAssumption PROVE Spec => []IInv
<1>1. IInv /\ [Next]_vars => IInv'
  <2>1. ASSUME IInv, UNCHANGED vars PROVE IInv'
    <3>1. UNCHANGED <<mParams, mJobsInFlight, mPool, threads, left, mJobData, mSlices,
                      configured, last, past, harm>>
      BY <2>1 DEF vars, pointers
    <3>2. TypeInv' /\ Leftovers' /\ Failures' /\ HarmHasCause'
      BY <2>1, <3>1 DEF IInv, TypeInv, Leftovers, Failures, HarmHasCause
    <3>3. /\ Dangling' /\ NeverConfigured' /\ PoolUnused' /\ Settings'
          /\ BusyMeansFailed' /\ OkMeansEncoded'
      BY <2>1, <3>1 DEF IInv, Dangling, NeverConfigured, PoolUnused, Settings, BusyMeansFailed, OkMeansEncoded
    <3> QED  BY <3>2, <3>3 DEF IInv
  <2> QED  BY <2>1, SetParamsInv, EncodeInv, DestroyInv DEF Next
<1> QED  BY <1>1, InitInv, PTL DEF Spec

\* Each kind of memory error of setParams, encodeData and the destructor needs
\* its own history of refusals and failures.
THEOREM LifecycleHarmHasCause == ASSUME BoundsAssumption PROVE Spec => []HarmHasCause
<1>1. IInv => HarmHasCause
  BY DEF IInv
<1> QED  BY <1>1, LifecycleInvariant, PTL

\* set_parameters answers BADTHREAD exactly when an earlier encode threw.
THEOREM LifecycleBusyMeansFailed == ASSUME BoundsAssumption PROVE Spec => []BusyMeansFailed
<1>1. IInv => BusyMeansFailed
  BY DEF IInv
<1> QED  BY <1>1, LifecycleInvariant, PTL

\* An encode that returns OK leaves none of its jobs queued, if it has workers.
THEOREM LifecycleOkMeansEncoded == ASSUME BoundsAssumption PROVE Spec => []OkMeansEncoded
<1>1. IInv => OkMeansEncoded
  BY DEF IInv
<1> QED  BY <1>1, LifecycleInvariant, PTL

-----------------------------------------------------------------------------
(* Sums.  What a recursive function computes is proved with the least      *)
(* counterexample: a set of numbers that has one has a least one.          *)

LEMMA LeastUnder ==
  ASSUME NEW R, IsWellFoundedOn(R, Nat), NEW T, T \subseteq Nat, T # {}
  PROVE  \E n \in T : \A m \in T : <<m, n>> \notin R
BY WFMin

LEMMA LeastNumber ==
  ASSUME NEW T, T \subseteq Nat, T # {}
  PROVE  \E n \in T : \A m \in T : n <= m
<1> DEFINE R == OpToRel(<, Nat)
<1>1. IsWellFoundedOn(R, Nat)
  BY NatLessThanWellFounded
<1> HIDE DEF R
<1>2. PICK n \in T : \A m \in T : <<m, n>> \notin R
  BY <1>1, LeastUnder
<1>3. \A m \in T : ~(m < n)
  BY <1>2 DEF R, OpToRel
<1> QED
  BY <1>3

LEMMA AllNumbers ==
  ASSUME NEW S, 0 \in S, \A n \in Nat : n \in S => n + 1 \in S
  PROVE  Nat \subseteq S
<1> SUFFICES ASSUME NEW b \in Nat, b \notin S PROVE FALSE
  OBVIOUS
<1> DEFINE T == {n \in Nat : n \notin S}
<1>1. PICK n \in T : \A m \in T : n <= m
  BY LeastNumber
<1>2. n - 1 \in Nat /\ n - 1 \notin T
  BY <1>1
<1>3. (n - 1) + 1 \in S
  BY <1>2
<1> QED
  BY <1>3

IsSum(g, f, n) == g = [k \in 0..n |-> IF k = 0 THEN 0 ELSE g[k-1] + f[k]]

LEMMA SumExists ==
  ASSUME NEW f, NEW M \in Nat, \A k \in 1..M : f[k] \in Int
  PROVE  \A n \in 0..M : \E g \in [0..n -> Int] : IsSum(g, f, n)
<1> DEFINE G == {n \in Nat : n <= M => \E g \in [0..n -> Int] : IsSum(g, f, n)}
<1>1. 0 \in G
  <2>1. IsSum([k \in 0..0 |-> 0], f, 0) /\ [k \in 0..0 |-> 0] \in [0..0 -> Int]
    BY DEF IsSum
  <2> QED
    BY <2>1
<1>2. ASSUME NEW n \in Nat, n \in G PROVE n + 1 \in G
  <2> SUFFICES ASSUME n + 1 <= M PROVE \E g \in [0..n+1 -> Int] : IsSum(g, f, n+1)
    OBVIOUS
  <2>1. PICK g \in [0..n -> Int] : IsSum(g, f, n)
    BY <1>2
  <2> DEFINE h == [k \in 0..(n+1) |-> IF k = n+1 THEN g[n] + f[n+1] ELSE g[k]]
  <2>2. f[n+1] \in Int /\ h \in [0..(n+1) -> Int]
    OBVIOUS
  <2>3. \A k \in 0..n : g[k] = IF k = 0 THEN 0 ELSE g[k-1] + f[k]
    BY <2>1 DEF IsSum
  <2>4. \A k \in 0..(n+1) : h[k] = IF k = 0 THEN 0 ELSE h[k-1] + f[k]
    <3> TAKE k \in 0..(n+1)
    <3>1. CASE k = n+1
      <4>1. k # 0 /\ k-1 = n /\ n # n+1 /\ n \in 0..(n+1)
        BY <3>1
      <4>2. h[k] = g[n] + f[n+1] /\ h[n] = g[n]
        BY <3>1, <4>1
      <4> HIDE DEF h
      <4>3. h[k] = h[k-1] + f[k]
        BY <3>1, <4>1, <4>2
      <4> QED
        BY <4>1, <4>3
    <3>2. CASE k \in 0..n
      <4>1. k # n+1 /\ h[k] = g[k] /\ g[k] = IF k = 0 THEN 0 ELSE g[k-1] + f[k]
        BY <3>2, <2>3
      <4>2. k # 0 => k-1 \in 0..(n+1) /\ k-1 # n+1
        BY <3>2
      <4>3. k # 0 => h[k-1] = g[k-1]
        BY <4>2
      <4> QED
        BY <4>1, <4>3
    <3> QED
      BY <3>1, <3>2
  <2>5. IsSum(h, f, n+1)
    BY <2>4 DEF IsSum
  <2> QED
    BY <2>2, <2>5
<1>3. Nat \subseteq G
  <2> HIDE DEF G
  <2> QED
    BY <1>1, <1>2, AllNumbers
<1> SUFFICES ASSUME NEW n \in 0..M PROVE \E g \in [0..n -> Int] : IsSum(g, f, n)
  OBVIOUS
<1>4. n \in G /\ n <= M
  BY <1>3
<1> QED
  BY <1>4

LEMMA SumFunctionOf ==
  ASSUME NEW f, NEW n \in Nat, \A k \in 1..n : f[k] \in Int
  PROVE  \E g \in [0..n -> Int] : IsSum(g, f, n) /\ SumTo(f, n) = g[n]
<1>1. PICK h \in [0..n -> Int] : IsSum(h, f, n)
  <2>1. \A m \in 0..n : \E h \in [0..m -> Int] : IsSum(h, f, m)
    BY SumExists
  <2> QED
    BY <2>1
<1> DEFINE g == CHOOSE g : IsSum(g, f, n)
<1>2. IsSum(g, f, n)
  BY <1>1
<1>3. SumTo(f, n) = g[n]
  BY DEF SumTo, IsSum
<1>4. g \in [0..n -> Int]
  <2>1. /\ DOMAIN g = 0..n /\ DOMAIN h = 0..n /\ g = [k \in 0..n |-> g[k]] /\ h = [k \in 0..n |-> h[k]]
        /\ \A k \in 0..n : g[k] = IF k = 0 THEN 0 ELSE g[k-1] + f[k]
        /\ \A k \in 0..n : h[k] = IF k = 0 THEN 0 ELSE h[k-1] + f[k]
    BY <1>1, <1>2 DEF IsSum
  <2> DEFINE G == {k \in Nat : k <= n => g[k] = h[k]}
  <2>2. 0 \in G
    BY <2>1
  <2>3. ASSUME NEW k \in Nat, k \in G PROVE k + 1 \in G
    <3> SUFFICES ASSUME k + 1 <= n PROVE g[k+1] = h[k+1]
      OBVIOUS
    <3>1. k + 1 \in 0..n /\ k + 1 # 0 /\ (k+1)-1 = k /\ g[k] = h[k]
      BY <2>3
    <3>2. g[k+1] = g[k] + f[k+1] /\ h[k+1] = h[k] + f[k+1]
      BY <2>1, <3>1
    <3> QED
      BY <3>1, <3>2
  <2>4. Nat \subseteq G
    <3> HIDE DEF G
    <3> QED
      BY <2>2, <2>3, AllNumbers
  <2>5. \A k \in 0..n : g[k] = h[k]
    BY <2>4
  <2> QED
    BY <2>1, <2>5
<1> HIDE DEF g
<1> QED
  BY <1>2, <1>3, <1>4

\* The sum as it is computed: one term more.
LEMMA SumStep ==
  ASSUME NEW f, NEW n \in Nat, \A k \in 1..n+1 : f[k] \in Int
  PROVE  SumTo(f, n+1) = SumTo(f, n) + f[n+1]
<1>0. n+1 \in Nat /\ \A k \in 1..n : f[k] \in Int
  OBVIOUS
<1>1. PICK s \in [0..n+1 -> Int] : IsSum(s, f, n+1) /\ SumTo(f, n+1) = s[n+1]
  BY <1>0, SumFunctionOf
<1>2. PICK r \in [0..n -> Int] : IsSum(r, f, n) /\ SumTo(f, n) = r[n]
  BY <1>0, SumFunctionOf
<1>3. /\ \A k \in 0..n+1 : s[k] = IF k = 0 THEN 0 ELSE s[k-1] + f[k]
      /\ \A k \in 0..n : r[k] = IF k = 0 THEN 0 ELSE r[k-1] + f[k]
  BY <1>1, <1>2 DEF IsSum
<1> DEFINE G == {k \in Nat : k <= n => r[k] = s[k]}
<1>4. 0 \in G
  BY <1>3
<1>5. ASSUME NEW k \in Nat, k \in G PROVE k + 1 \in G
  BY <1>3, <1>5
<1>6. Nat \subseteq G
  <2> HIDE DEF G
  <2> QED
    BY <1>4, <1>5, AllNumbers
<1>7. r[n] = s[n] /\ s[n+1] = s[n] + f[n+1]
  BY <1>3, <1>6
<1> QED
  BY <1>1, <1>2, <1>7

LEMMA SumType ==
  ASSUME NEW f, NEW n \in Nat, \A k \in 1..n : f[k] \in Int
  PROVE  SumTo(f, n) \in Int /\ SumTo(f, 0) = 0
<1>1. PICK s \in [0..n -> Int] : IsSum(s, f, n) /\ SumTo(f, n) = s[n]
  BY SumFunctionOf
<1>2. PICK r \in [0..0 -> Int] : IsSum(r, f, 0) /\ SumTo(f, 0) = r[0]
  <2>1. \A k \in 1..0 : f[k] \in Int
    OBVIOUS
  <2> QED
    BY <2>1, SumFunctionOf
<1>3. r[0] = 0
  BY <1>2 DEF IsSum
<1> QED
  BY <1>1, <1>2, <1>3

-----------------------------------------------------------------------------
(* The data units.  From one place to another the units are a segment if   *)
(* each leads to the next one, and is named by it as the one before; the   *)
(* last one has the length fin and ends where the segment does.            *)
Segment(U, from, to, fin) ==
  /\ from \in DOMAIN U
  /\ \A a \in DOMAIN U : from <= a /\ a < to =>
       /\ U[a].next \in Nat \ {0} /\ a + U[a].next <= to
       /\ \A b \in DOMAIN U : a < b => a + U[a].next <= b
       /\ a + U[a].next = to => U[a].next = fin
       /\ a + U[a].next < to => a + U[a].next \in DOMAIN U /\ U[a + U[a].next].prev = U[a].next

Place(k) == mEncoderData[k].odata
Size(k) == mEncoderData[k].olength + mEncoderData[k].fragments * HEADER
Final(k) == mEncoderData[k].final_offset

\* The partials lie one behind the other, up to where the next unit will be.
Adjoin ==
  /\ mEncoderData \in [1 .. NFACTOR -> [odata : Nat, olength : Nat \ {0},
                                        fragments : 1 .. MaxFragments, final_offset : Nat]]
  /\ Place(1) = data
  /\ \A k \in 2 .. NFACTOR : Place(k) = Place(k - 1) + Size(k - 1)
  /\ Place(NFACTOR) + Size(NFACTOR) = data + data_length + Extra

Opened == data # 0 /\ \A a \in DOMAIN units : a < data

PartialsInv ==
  /\ Adjoin /\ data # 0 /\ fragmented /\ working \subseteq 1 .. NFACTOR
  /\ Segment(units, 0, data, parse_offset)
  /\ \A k \in (1 .. NFACTOR) \ working : Segment(units, Place(k), Place(k) + Size(k), Final(k))
  /\ \A a \in DOMAIN units :
       \/ a < data
       \/ \E k \in (1 .. NFACTOR) \ working : Place(k) <= a /\ a < Place(k) + Size(k)

Unused == data = 0 /\ parse_offset = 0 /\ DOMAIN units = {}

\* Without fragments the unit of a picture ends where its data will.
PictureEnd == IF fragmented THEN data ELSE data + data_length

PictureInv ==
  Opened /\ data_length \in Lengths /\ Segment(units, 0, PictureEnd, parse_offset)

EndedInv ==
  /\ data - PARSE_INFO \in DOMAIN units /\ data > PARSE_INFO
  /\ \A a \in DOMAIN units : a <= data - PARSE_INFO
  /\ units[data - PARSE_INFO] = Unit(0, parse_offset)
  /\ Segment(units, 0, data - PARSE_INFO, parse_offset)

UnitsType ==
  /\ data \in Nat /\ parse_offset \in Nat /\ data_length \in Nat
  /\ units \in [DOMAIN units -> [next : Nat, prev : Nat \cup {UNSET}]] /\ DOMAIN units \subseteq Nat
  /\ phase \in {"pack", "new", "open", "picture", "encode", "ended"}

UnitsInv ==
  /\ UnitsType
  /\ phase \in {"pack", "new"} => Unused
  /\ phase = "open" => Opened /\ Segment(units, 0, data, parse_offset)
  /\ phase = "picture" => PictureInv
  /\ phase = "encode" => PartialsInv
  /\ phase = "ended" => EndedInv

\* A unit behind the last one.
LEMMA Extended ==
  ASSUME NEW U, NEW e \in Nat \ {0}, NEW fin, DOMAIN U \subseteq Nat,
         Segment(U, 0, e, fin), \A a \in DOMAIN U : a < e,
         NEW V, DOMAIN V = DOMAIN U \cup {e}, \A a \in DOMAIN U : V[a] = U[a],
         V[e].prev = fin, NEW n \in Nat \ {0}, V[e].next = n
  PROVE  Segment(V, 0, e + n, n)
<1> SUFFICES ASSUME NEW a \in DOMAIN V
             PROVE  /\ V[a].next \in Nat \ {0} /\ a + V[a].next <= e + n
                    /\ \A b \in DOMAIN V : a < b => a + V[a].next <= b
                    /\ a + V[a].next = e + n => V[a].next = n
                    /\ a + V[a].next < e + n => /\ a + V[a].next \in DOMAIN V
                                                /\ V[a + V[a].next].prev = V[a].next
  BY DEF Segment
<1>1. CASE a = e
  BY <1>1
<1>2. CASE a \in DOMAIN U
  <2>1. a \in Nat /\ 0 <= a /\ a < e /\ V[a] = U[a]
    BY <1>2
  <2>2. /\ U[a].next \in Nat \ {0} /\ a + U[a].next <= e
        /\ \A b \in DOMAIN U : a < b => a + U[a].next <= b
        /\ a + U[a].next = e => U[a].next = fin
        /\ a + U[a].next < e => a + U[a].next \in DOMAIN U /\ U[a + U[a].next].prev = U[a].next
    BY <1>2, <2>1 DEF Segment
  <2>3. CASE a + U[a].next = e
    BY <2>1, <2>2, <2>3
  <2>4. CASE a + U[a].next < e
    BY <2>1, <2>2, <2>4
  <2> QED
    BY <2>2, <2>3, <2>4
<1> QED
  BY <1>1, <1>2

\* Two segments that lie one behind the other.
LEMMA Joined ==
  ASSUME NEW U, NEW m \in Nat \ {0}, NEW to \in Nat, m < to, NEW f, NEW g, DOMAIN U \subseteq Nat,
         Segment(U, 0, m, f), Segment(U, m, to, g), U[m].prev = f
  PROVE  Segment(U, 0, to, g)
<1>1. 0 \in DOMAIN U /\ m \in DOMAIN U
  BY DEF Segment
<1> SUFFICES ASSUME NEW a \in DOMAIN U, a < to
             PROVE  /\ U[a].next \in Nat \ {0} /\ a + U[a].next <= to
                    /\ \A b \in DOMAIN U : a < b => a + U[a].next <= b
                    /\ a + U[a].next = to => U[a].next = g
                    /\ a + U[a].next < to => /\ a + U[a].next \in DOMAIN U
                                             /\ U[a + U[a].next].prev = U[a].next
  BY <1>1 DEF Segment
<1>2. CASE m <= a
  BY <1>2 DEF Segment
<1>3. CASE a < m
  <2>1. /\ U[a].next \in Nat \ {0} /\ a + U[a].next <= m
        /\ \A b \in DOMAIN U : a < b => a + U[a].next <= b
        /\ a + U[a].next = m => U[a].next = f
        /\ a + U[a].next < m => a + U[a].next \in DOMAIN U /\ U[a + U[a].next].prev = U[a].next
    BY <1>3 DEF Segment
  <2>2. CASE a + U[a].next = m
    BY <1>1, <2>1, <2>2
  <2>3. CASE a + U[a].next < m
    BY <2>1, <2>3
  <2> QED
    BY <2>1, <2>2, <2>3
<1> QED
  BY <1>2, <1>3

\* A segment is what it was when the units in it are, and no unit has come
\* between them.
LEMMA Kept ==
  ASSUME NEW U, NEW V, DOMAIN U \subseteq Nat, DOMAIN V \subseteq Nat,
         NEW from \in Nat, NEW to \in Nat, NEW f, Segment(U, from, to, f),
         DOMAIN U \subseteq DOMAIN V,
         \A b \in DOMAIN V \ DOMAIN U : b < from \/ b >= to,
         \A a \in DOMAIN U : from <= a /\ a < to =>
            V[a].next = U[a].next /\ (a = from \/ V[a].prev = U[a].prev)
  PROVE  Segment(V, from, to, f)
<1>1. from \in DOMAIN V
  BY DEF Segment
<1> SUFFICES ASSUME NEW a \in DOMAIN V, from <= a, a < to
             PROVE  /\ V[a].next \in Nat \ {0} /\ a + V[a].next <= to
                    /\ \A b \in DOMAIN V : a < b => a + V[a].next <= b
                    /\ a + V[a].next = to => V[a].next = f
                    /\ a + V[a].next < to => /\ a + V[a].next \in DOMAIN V
                                             /\ V[a + V[a].next].prev = V[a].next
  BY <1>1 DEF Segment
<1>2. a \in DOMAIN U /\ V[a].next = U[a].next
  OBVIOUS
<1>3. /\ U[a].next \in Nat \ {0} /\ a + U[a].next <= to
      /\ \A b \in DOMAIN U : a < b => a + U[a].next <= b
      /\ a + U[a].next = to => U[a].next = f
      /\ a + U[a].next < to => a + U[a].next \in DOMAIN U /\ U[a + U[a].next].prev = U[a].next
  BY <1>2 DEF Segment
<1>4. \A b \in DOMAIN V : a < b => a + V[a].next <= b
  <2> SUFFICES ASSUME NEW b \in DOMAIN V, a < b PROVE a + V[a].next <= b
    OBVIOUS
  <2>1. CASE b \in DOMAIN U
    BY <1>2, <1>3, <2>1
  <2>2. CASE b \notin DOMAIN U
    <3>1. b >= to
      BY <2>2
    <3> QED
      BY <1>2, <1>3, <3>1
  <2> QED
    BY <2>1, <2>2
<1>5. a + V[a].next < to => V[a + V[a].next].prev = V[a].next
  BY <1>2, <1>3
<1> QED
  BY <1>2, <1>3, <1>4, <1>5

LEMMA ChainOf ==
  ASSUME NEW U, NEW e \in Nat, NEW fin, DOMAIN U \subseteq Nat,
         Segment(U, 0, e, fin), NEW a \in DOMAIN U, a < e
  PROVE  LET behind == {b \in DOMAIN U : b > a}
         IN  /\ behind = {} => a + U[a].next = e /\ U[a].next = fin
             /\ behind # {} /\ (a + U[a].next < e \/ e \in DOMAIN U) =>
                  Min(behind) = a + U[a].next
<1> DEFINE behind == {b \in DOMAIN U : b > a}
           x == a + U[a].next
<1>1. /\ U[a].next \in Nat \ {0} /\ x <= e /\ x > a /\ x \in Nat
      /\ \A b \in DOMAIN U : a < b => x <= b
      /\ x = e => U[a].next = fin
      /\ x < e => x \in DOMAIN U /\ U[x].prev = U[a].next
  BY DEF Segment
<1> HIDE DEF x
<1>2. x \in DOMAIN U => x \in behind
  BY <1>1
<1>3. behind = {} => x = e
  BY <1>1, <1>2
<1>4. ASSUME x \in DOMAIN U PROVE Min(behind) = x
  <2>1. x \in behind /\ \A y \in behind : x <= y
    BY <1>1, <1>2, <1>4
  <2>2. behind \subseteq Nat
    OBVIOUS
  <2> HIDE DEF behind
  <2>3. \A z \in behind : (\A y \in behind : z <= y) => z = x
    BY <2>1, <2>2
  <2>4. Min(behind) \in behind /\ \A y \in behind : Min(behind) <= y
    BY <2>1, Zenon DEF Min
  <2> QED
    BY <2>3, <2>4
<1> QED
  BY <1>1, <1>3, <1>4 DEF x

LEMMA UnitsInvChains ==
  ASSUME UnitsInv
  PROVE  UnitsChain
<1> SUFFICES ASSUME phase \in {"open", "ended"}, NEW a \in DOMAIN units
             PROVE  LET behind == {b \in DOMAIN units : b > a}
                    IN  IF behind = {}
                        THEN IF phase = "ended" THEN units[a].next = 0
                             ELSE units[a].next = parse_offset /\ a + parse_offset = data
                        ELSE LET b == Min(behind)
                             IN  b - a = units[a].next /\ units[b].prev = units[a].next
  BY DEF UnitsChain
<1> DEFINE behind == {b \in DOMAIN units : b > a}
           x == a + units[a].next
           e == IF phase = "open" THEN data ELSE data - PARSE_INFO
<1>1. /\ Segment(units, 0, e, parse_offset) /\ e \in Nat /\ DOMAIN units \subseteq Nat
      /\ phase = "open" => \A b \in DOMAIN units : b < e
      /\ phase = "ended" => /\ e \in DOMAIN units /\ \A b \in DOMAIN units : b <= e
                            /\ units[e] = Unit(0, parse_offset)
  BY DEF UnitsInv, UnitsType, Unused, PictureInv, PictureEnd, EndedInv, Opened, PARSE_INFO
<1> HIDE DEF e
<1>2. CASE a = e
  <2>1. phase = "ended" /\ units[a].next = 0
    BY <1>1, <1>2 DEF Unit
  <2>2. behind = {}
    BY <1>1, <1>2
  <2> QED
    BY <2>1, <2>2
<1>3. CASE a # e
  <2>1. a < e /\ a \in Nat
    BY <1>1, <1>3
  <2>2. /\ units[a].next \in Nat \ {0} /\ x <= e /\ x > a
        /\ x = e => units[a].next = parse_offset
        /\ x < e => x \in DOMAIN units /\ units[x].prev = units[a].next
    BY <1>1, <2>1 DEF Segment
  <2>3. /\ behind = {} => a + units[a].next = e /\ units[a].next = parse_offset
        /\ behind # {} /\ (a + units[a].next < e \/ e \in DOMAIN units) =>
              Min(behind) = a + units[a].next
    BY <1>1, <2>1, ChainOf
  <2>4. CASE behind = {}
    <3>1. phase # "ended"
      BY <1>1, <2>1, <2>4
    <3> QED
      BY <1>1, <2>3, <2>4, <3>1 DEF e
  <2>5. CASE behind # {}
    <3>1. a + units[a].next < e \/ e \in DOMAIN units
      <4>1. CASE phase = "ended"
        BY <1>1, <4>1
      <4>2. CASE phase = "open"
        <5>1. PICK b \in DOMAIN units : b > a
          BY <2>5
        <5>2. x <= b /\ b < e
          BY <1>1, <2>1, <4>2, <5>1 DEF Segment
        <5> QED
          BY <1>1, <2>1, <2>2, <5>2
      <4> QED
        BY <4>1, <4>2
    <3>2. Min(behind) = x
      BY <2>3, <2>5, <3>1
    <3>3. units[x].prev = units[a].next
      <4>1. CASE x = e
        <5>1. x \in DOMAIN units
          BY <3>1, <4>1, <1>1, <2>1, <2>2
        <5>2. phase = "ended"
          BY <1>1, <4>1, <5>1
        <5> QED
          BY <1>1, <2>2, <4>1, <5>2 DEF Unit
      <4>2. CASE x < e
        BY <2>2, <4>2
      <4> QED
        BY <2>2, <4>1, <4>2, <1>1, <2>1
    <3>4. x - a = units[a].next
      BY <2>1, <2>2
    <3> HIDE DEF x, behind
    <3>5. Min(behind) - a = units[a].next /\ units[Min(behind)].prev = units[a].next
      BY <3>2, <3>3, <3>4
    <3> QED
      BY <2>5, <3>5 DEF behind
  <2> QED
    BY <2>4, <2>5
<1> QED
  BY <1>2, <1>3

-----------------------------------------------------------------------------
(* The header: no bit is lost on its way into bytes.                       *)
Bits == {0, 1}

Chosen ==
  /\ video_format \in Formats /\ level \in Levels /\ fragmented \in BOOLEAN
  /\ base_video_format \in BaseFormats /\ picture_coding_mode \in Modes

HeaderInv ==
  /\ Chosen
  /\ phase \in {"pack", "new", "open", "picture", "encode", "ended"}
  /\ words \in Seq(Seq(Bits)) /\ accum \in Seq(Bits) /\ packed \in Seq(Bits)
  /\ Len(packed) % 8 = 0 /\ Len(accum) <= 8
  /\ l = (Len(FlattenSeq(Header)) + 7) \div 8 + 13
  /\ phase = "pack" => packed \o accum \o FlattenSeq(words) = FlattenSeq(Header)
  /\ phase # "pack" => /\ words = <<>> /\ accum = <<>>
                       /\ Len(packed) >= Len(FlattenSeq(Header))
                       /\ Len(packed) < Len(FlattenSeq(Header)) + 8
                       /\ \A i \in 1 .. Len(packed) :
                            packed[i] = IF i <= Len(FlattenSeq(Header))
                                        THEN FlattenSeq(Header)[i] ELSE 1

-----------------------------------------------------------------------------
\* What StreamAssumption says.
LEMMA Given ==
  /\ NFACTOR \in Nat \ {0} /\ MinData \in Nat \ {0} /\ mSliceSizeScalar \in Nat \ {0}
  /\ MinData % NFACTOR = 0 /\ mPictureHeader_length \in Nat \ {0} /\ MaxFragments \in Nat \ {0}
  /\ Lengths \subseteq Nat /\ \A length \in Lengths : length >= MinData
BY StreamAssumption

LEMMA HeaderLength ==
  ASSUME HeaderInv, phase # "pack"
  PROVE  mSequenceHeader_length = l /\ l \in Nat \ {0}
<1> DEFINE T == Len(FlattenSeq(Header))
           P == Len(packed)
<1>1. P \in Nat /\ P % 8 = 0 /\ P >= T /\ P < T + 8 /\ l = (T + 7) \div 8 + 13
  BY DEF HeaderInv
<1>2. T \in Int
  BY <1>1 DEF HeaderInv
<1> QED
  BY <1>1 DEF mSequenceHeader_length, PARSE_INFO

LEMMA AppendUnit ==
  ASSUME UnitsInv, Opened, Segment(units, 0, data, parse_offset), NEW n \in Nat \ {0},
         units' = Put(At(data, Unit(n, parse_offset)))
  PROVE  /\ Segment(units', 0, data + n, n) /\ DOMAIN units' \subseteq Nat
         /\ units' \in [DOMAIN units' -> [next : Nat, prev : Nat \cup {UNSET}]]
         /\ \A a \in DOMAIN units' : a <= data
<1>1. /\ DOMAIN units' = DOMAIN units \cup {data}
      /\ \A a \in DOMAIN units : units'[a] = units[a]
      /\ units'[data] = [next |-> n, prev |-> parse_offset]
      /\ units' = [a \in DOMAIN units' |-> units'[a]]
  BY DEF Put, At, Unit, Opened, UnitsInv, UnitsType, Unused, PictureInv, PictureEnd, EndedInv
<1>2. /\ data \in Nat \ {0} /\ DOMAIN units \subseteq Nat /\ parse_offset \in Nat
      /\ \A a \in DOMAIN units : a < data
      /\ units \in [DOMAIN units -> [next : Nat, prev : Nat \cup {UNSET}]]
  BY DEF UnitsInv, UnitsType, Unused, PictureInv, PictureEnd, EndedInv, Opened
<1>3. units'[data].prev = parse_offset /\ units'[data].next = n
  BY <1>1
<1>4. Segment(units', 0, data + n, n)
  BY ONLY <1>1, <1>2, <1>3, n \in Nat \ {0}, Segment(units, 0, data, parse_offset), Extended
<1>5. \A a \in DOMAIN units' : units'[a] \in [next : Nat, prev : Nat \cup {UNSET}]
  BY <1>1, <1>2
<1> QED
  BY <1>1, <1>2, <1>4, <1>5

LEMMA OpenAgain ==
  ASSUME UnitsType', Opened', Segment(units', 0, data', parse_offset'), phase' = "open"
  PROVE  UnitsInv'
<1>1. phase' \notin {"pack", "new", "picture", "encode", "ended"}
  OBVIOUS
<1> QED
  BY <1>1, Zenon DEF UnitsInv

LEMMA StartUnits ==
  ASSUME UnitsInv, HeaderInv, StartSequence
  PROVE  UnitsInv'
<1>1. mSequenceHeader_length = l /\ l \in Nat \ {0}
  BY HeaderLength DEF StartSequence
<1>2. /\ phase = "new" /\ data = 0 /\ parse_offset = 0 /\ DOMAIN units = {}
      /\ units' = Put(At(0, Unit(l, 0))) /\ data' = l /\ parse_offset' = l /\ phase' = "open"
      /\ data_length' = data_length /\ data_length \in Nat
  BY <1>1 DEF StartSequence, UnitsInv, UnitsType, Unused, PictureInv, PictureEnd, EndedInv, encoder
<1>3. DOMAIN units' = {0} /\ units' = [x \in {0} |-> [next |-> l, prev |-> 0]]
  BY <1>2 DEF Put, At, Unit
<1>4. Segment(units', 0, l, l)
  BY <1>1, <1>3 DEF Segment
<1> QED
  BY <1>1, <1>2, <1>3, <1>4 DEF UnitsInv, UnitsType, Unused, PictureInv, PictureEnd, EndedInv, Opened

LEMMA RepeatUnits ==
  ASSUME UnitsInv, HeaderInv, RepeatSequenceStart
  PROVE  UnitsInv'
<1>1. mSequenceHeader_length = l /\ l \in Nat \ {0}
  BY HeaderLength DEF RepeatSequenceStart
<1>2. /\ phase = "open" /\ Opened /\ Segment(units, 0, data, parse_offset) /\ phase' = "open"
      /\ units' = Put(At(data, Unit(l, parse_offset)))
      /\ data' = data + l /\ parse_offset' = l /\ data_length' = data_length
      /\ data \in Nat /\ data_length \in Nat
  BY <1>1 DEF RepeatSequenceStart, UnitsInv, UnitsType, encoder
<1>3. /\ Segment(units', 0, data + l, l) /\ DOMAIN units' \subseteq Nat
      /\ units' \in [DOMAIN units' -> [next : Nat, prev : Nat \cup {UNSET}]]
      /\ \A a \in DOMAIN units' : a <= data
  BY <1>1, <1>2, AppendUnit
<1>4. UnitsType' /\ Opened' /\ Segment(units', 0, data', parse_offset')
  BY <1>1, <1>2, <1>3 DEF UnitsType, Opened
<1> QED
  BY <1>2, <1>4, OpenAgain

LEMMA PictureUnits ==
  ASSUME UnitsInv, StartPicture
  PROVE  UnitsInv'
<1>0. PICK n : n = PictureOffset(data_length')
  OBVIOUS
<1>1. data_length' \in Nat /\ mPictureHeader_length \in Nat \ {0}
  BY Given DEF StartPicture
<1>2. /\ phase = "open" /\ Opened /\ Segment(units, 0, data, parse_offset) /\ phase' = "picture"
      /\ units' = Put(At(data, Unit(n, parse_offset))) /\ fragmented' = fragmented
      /\ data' = data + mPictureHeader_length /\ parse_offset' = n /\ data_length' \in Lengths /\ data \in Nat
  BY <1>0 DEF StartPicture, UnitsInv, UnitsType, header, given
<1>3. fragmented => n = mPictureHeader_length /\ PictureEnd' = data'
  BY <1>0, <1>2, Zenon DEF PictureOffset, PictureEnd
<1>4. ~fragmented => n = data_length' + mPictureHeader_length /\ PictureEnd' = data' + data_length'
  BY <1>0, <1>2, Zenon DEF PictureOffset, PictureEnd
<1>5. n \in Nat \ {0} /\ data + n = PictureEnd'
  <2>1. CASE fragmented
    BY <1>1, <1>2, <1>3, <2>1
  <2>2. CASE ~fragmented
    <3>1. n = data_length' + mPictureHeader_length /\ PictureEnd' = data' + data_length'
      BY <1>4, <2>2, Zenon
    <3>2. PICK x \in Nat : x = data_length'
      BY <1>1
    <3>3. PICK e : e = data' /\ e = data + mPictureHeader_length
      BY <1>2
    <3>4. n = x + mPictureHeader_length /\ PictureEnd' = e + x
      BY <3>1, <3>2, <3>3, Zenon
    <3>5. n \in Nat \ {0} /\ data + n = e + x
      BY <1>1, <1>2, <3>3, <3>4
    <3> QED
      BY <3>4, <3>5, Zenon
  <2> QED
    BY <2>1, <2>2, Zenon
<1>6. /\ Segment(units', 0, data + n, n) /\ DOMAIN units' \subseteq Nat
      /\ units' \in [DOMAIN units' -> [next : Nat, prev : Nat \cup {UNSET}]]
      /\ \A a \in DOMAIN units' : a <= data
  BY <1>2, <1>5, AppendUnit
<1>7. Opened' /\ data' \in Nat /\ parse_offset' \in Nat
  BY <1>1, <1>2, <1>5, <1>6 DEF Opened
<1>8. PictureInv'
  BY <1>2, <1>5, <1>6, <1>7, Zenon DEF PictureInv
<1>9. UnitsType'
  BY <1>1, <1>2, <1>6, <1>7 DEF UnitsType
<1>10. phase' \notin {"pack", "new", "open", "encode", "ended"}
  BY <1>2
<1> QED
  BY <1>8, <1>9, <1>10, Zenon DEF UnitsInv

LEMMA AuxiliaryUnits ==
  ASSUME UnitsInv, StartAuxiliaryData
  PROVE  UnitsInv'
<1>1. PICK length \in Lengths :
        /\ units' = Put(At(data, Unit(PARSE_INFO + length, parse_offset)))
        /\ data' = data + PARSE_INFO + length
        /\ parse_offset' = PARSE_INFO + length
  BY DEF StartAuxiliaryData
<1> DEFINE n == PARSE_INFO + length
<1>2. n \in Nat \ {0}
  BY Given DEF PARSE_INFO
<1>3. /\ phase = "open" /\ Opened /\ Segment(units, 0, data, parse_offset) /\ phase' = "open"
      /\ units' = Put(At(data, Unit(n, parse_offset)))
      /\ data' = data + n /\ parse_offset' = n /\ data_length' = data_length
      /\ data \in Nat /\ data_length \in Nat
  BY <1>1, <1>2, Given DEF StartAuxiliaryData, UnitsInv, UnitsType, Unused, PictureInv, PictureEnd, EndedInv, encoder, PARSE_INFO
<1> HIDE DEF n
<1>4. /\ Segment(units', 0, data + n, n) /\ DOMAIN units' \subseteq Nat
      /\ units' \in [DOMAIN units' -> [next : Nat, prev : Nat \cup {UNSET}]]
      /\ \A a \in DOMAIN units' : a <= data
  BY <1>2, <1>3, AppendUnit
<1> QED
  BY <1>2, <1>3, <1>4 DEF UnitsInv, UnitsType, Unused, PictureInv, PictureEnd, EndedInv, Opened

LEMMA EndUnits ==
  ASSUME UnitsInv, EndSequence
  PROVE  UnitsInv'
<1>1. /\ phase = "open" /\ Opened /\ Segment(units, 0, data, parse_offset) /\ phase' = "ended"
      /\ units' = Put(At(data, Unit(0, parse_offset))) /\ parse_offset' = parse_offset
      /\ data' = data + PARSE_INFO /\ data_length' = data_length
      /\ data \in Nat /\ data_length \in Nat /\ parse_offset \in Nat /\ data # 0
      /\ DOMAIN units \subseteq Nat /\ \A a \in DOMAIN units : a < data
      /\ units \in [DOMAIN units -> [next : Nat, prev : Nat \cup {UNSET}]]
  BY DEF EndSequence, UnitsInv, UnitsType, Unused, PictureInv, PictureEnd, EndedInv, encoder, Opened
<1>2. /\ DOMAIN units' = DOMAIN units \cup {data}
      /\ \A a \in DOMAIN units : units'[a] = units[a]
      /\ units'[data] = Unit(0, parse_offset)
      /\ units' = [a \in DOMAIN units' |-> units'[a]]
  BY <1>1 DEF Put, At
<1>3. Unit(0, parse_offset) \in [next : Nat, prev : Nat \cup {UNSET}]
  BY <1>1 DEF Unit
<1>4. Segment(units', 0, data, parse_offset)
  <2>1. DOMAIN units' \subseteq Nat /\ DOMAIN units \subseteq DOMAIN units'
    BY <1>1, <1>2
  <2>2. \A b \in DOMAIN units' \ DOMAIN units : b < 0 \/ b >= data
    BY <1>1, <1>2
  <2>3. \A a \in DOMAIN units : 0 <= a /\ a < data =>
           units'[a].next = units[a].next /\ (a = 0 \/ units'[a].prev = units[a].prev)
    BY <1>2
  <2>4. 0 \in Nat
    OBVIOUS
  <2> QED
    BY ONLY <1>1, <2>1, <2>2, <2>3, <2>4, Kept
<1>5. data' - PARSE_INFO = data /\ data' > PARSE_INFO /\ data' \in Nat
  BY <1>1 DEF PARSE_INFO
<1>6. \A a \in DOMAIN units' : units'[a] \in [next : Nat, prev : Nat \cup {UNSET}]
  BY <1>1, <1>2, <1>3
<1>7. Unit(0, parse_offset)' = Unit(0, parse_offset)
  BY <1>1 DEF Unit
<1> QED
  BY <1>1, <1>2, <1>4, <1>5, <1>6, <1>7 DEF UnitsInv, UnitsType, Unused, PictureInv, PictureEnd, EndedInv

LEMMA EncodeDataUnits ==
  ASSUME UnitsInv, EncodeData
  PROVE  UnitsInv'
<1>1. /\ phase = "picture" /\ ~fragmented /\ data' = data + data_length /\ phase' = "open"
      /\ units' = units /\ parse_offset' = parse_offset /\ data_length' = data_length
      /\ Opened /\ Segment(units, 0, data + data_length, parse_offset)
      /\ data \in Nat /\ parse_offset \in Nat /\ data_length \in Nat
      /\ units \in [DOMAIN units -> [next : Nat, prev : Nat \cup {UNSET}]]
      /\ DOMAIN units \subseteq Nat
  BY DEF EncodeData, UnitsInv, UnitsType, Unused, PictureInv, PictureEnd, EndedInv, encoder
<1> QED
  BY <1>1 DEF UnitsInv, UnitsType, Unused, PictureInv, PictureEnd, EndedInv, Opened

LEMMA Distribute ==
  ASSUME NEW a \in Int, NEW b \in Int, NEW c \in Int
  PROVE  a * (b + c) = a * b + a * c /\ (b + c) * a = b * a + c * a /\ a * b \in Int /\ a * b = b * a
OBVIOUS

Linear(f, a, u, s, c, h, n) ==
  \A k \in 1..n : u[k] \in Int /\ c[k] \in Int /\ f[k] = a + u[k] * s + c[k] * h

LEMMA SumLinear ==
  ASSUME NEW n \in Nat, NEW u, NEW c, NEW f, NEW a \in Int, NEW s \in Int, NEW h \in Int,
         Linear(f, a, u, s, c, h, n)
  PROVE  SumTo(f, n) = n * a + s * SumTo(u, n) + h * SumTo(c, n)
<1>0. \A k \in 1..n : u[k] \in Int /\ c[k] \in Int /\ f[k] = a + u[k] * s + c[k] * h
  BY DEF Linear
<1>1. \A k \in 1..n : f[k] \in Int
  <2> SUFFICES ASSUME NEW k \in 1..n PROVE f[k] \in Int
    OBVIOUS
  <2>1. u[k] * s \in Int /\ c[k] * h \in Int /\ f[k] = a + u[k] * s + c[k] * h
    BY <1>0
  <2> QED
    BY <2>1
<1> DEFINE G == {m \in Nat : m <= n => SumTo(f, m) = m * a + s * SumTo(u, m) + h * SumTo(c, m)}
<1>2. 0 \in G
  <2>1. \A k \in 1..0 : f[k] \in Int /\ u[k] \in Int /\ c[k] \in Int
    OBVIOUS
  <2>2. SumTo(f, 0) = 0 /\ SumTo(u, 0) = 0 /\ SumTo(c, 0) = 0
    BY <2>1, SumType
  <2> QED
    BY <2>2
<1>3. ASSUME NEW m \in Nat, m \in G PROVE m + 1 \in G
  <2> SUFFICES ASSUME m + 1 <= n
               PROVE  SumTo(f, m+1) = (m+1) * a + s * SumTo(u, m+1) + h * SumTo(c, m+1)
    OBVIOUS
  <2>1. /\ \A k \in 1..m+1 : f[k] \in Int /\ u[k] \in Int /\ c[k] \in Int
        /\ \A k \in 1..m : f[k] \in Int /\ u[k] \in Int /\ c[k] \in Int
        /\ m+1 \in 1..n /\ SumTo(f, m) = m * a + s * SumTo(u, m) + h * SumTo(c, m)
    BY <1>0, <1>1, <1>3
  <2>2. /\ SumTo(f, m+1) = SumTo(f, m) + f[m+1] /\ SumTo(u, m+1) = SumTo(u, m) + u[m+1]
        /\ SumTo(c, m+1) = SumTo(c, m) + c[m+1]
    BY <2>1, SumStep
  <2>3. PICK U \in Int, C \in Int : SumTo(u, m) = U /\ SumTo(c, m) = C
    BY <2>1, SumType
  <2>4. PICK x \in Int, y \in Int : u[m+1] = x /\ c[m+1] = y
    BY <2>1
  <2>5. f[m+1] = a + x * s + y * h
    BY <1>0, <2>1, <2>4
  <2>6. s * (U + x) = s * U + x * s /\ h * (C + y) = h * C + y * h /\ (m + 1) * a = m * a + a
    BY <1>3
  <2>7. /\ s * U \in Int /\ x * s \in Int /\ h * C \in Int /\ y * h \in Int /\ m * a \in Int
        /\ s * (U + x) \in Int /\ h * (C + y) \in Int /\ (m+1) * a \in Int
    BY <1>3
  <2>8. (m * a + s * U + h * C) + (a + x * s + y * h) = (m+1) * a + s * (U + x) + h * (C + y)
    BY <2>6, <2>7
  <2> QED
    BY <2>1, <2>2, <2>3, <2>4, <2>5, <2>8
<1>4. Nat \subseteq G
  <2> HIDE DEF G
  <2> QED
    BY <1>2, <1>3, AllNumbers
<1>5. n \in G
  BY <1>4
<1> QED
  BY <1>5

LEMMA SumNat ==
  ASSUME NEW n \in Nat, NEW f, \A k \in 1..n : f[k] \in Nat
  PROVE  SumTo(f, n) \in Nat
<1> DEFINE G == {m \in Nat : m <= n => SumTo(f, m) \in Nat}
<1>2. 0 \in G
  <2>1. \A k \in 1..0 : f[k] \in Int
    OBVIOUS
  <2> QED
    BY <2>1, SumType
<1>3. ASSUME NEW m \in Nat, m \in G PROVE m + 1 \in G
  <2> SUFFICES ASSUME m + 1 <= n PROVE SumTo(f, m+1) \in Nat
    OBVIOUS
  <2>1. (\A k \in 1..m+1 : f[k] \in Int) /\ f[m+1] \in Nat /\ SumTo(f, m) \in Nat
    BY <1>3
  <2>2. SumTo(f, m+1) = SumTo(f, m) + f[m+1]
    BY <2>1, SumStep
  <2> QED
    BY <2>1, <2>2
<1>4. Nat \subseteq G
  <2> HIDE DEF G
  <2> QED
    BY <1>2, <1>3, AllNumbers
<1>5. n \in G
  BY <1>4
<1> QED
  BY <1>5

WholeUnits == \A length \in Lengths : (length - MinData) % mSliceSizeScalar = 0

LEMMA Quotients ==
  /\ \A a \in Nat, b \in Nat \ {0} : a % b = 0 => a = b * (a \div b) /\ a \div b \in Nat
BY Z3

LEMMA BeginUnits ==
  ASSUME UnitsInv, WholeUnits, BeginPartials
  PROVE  UnitsInv'
<1>1. PICK olength \in SharesOf(data_length), n \in [1..NFACTOR -> 1..MaxFragments] :
        mEncoderData' = LET full_length == [k \in 1..NFACTOR |-> olength[k] + n[k] * HEADER]
                        IN  [k \in 1..NFACTOR |->
                              [odata |-> data + SumTo(full_length, k - 1), olength |-> olength[k],
                               fragments |-> n[k], final_offset |-> 0]]
  BY Zenon DEF BeginPartials
<1> DEFINE full == [k \in 1..NFACTOR |-> olength[k] + n[k] * HEADER]
           Units == (Shared(data_length) - MinData) \div mSliceSizeScalar
           s == mSliceSizeScalar
           q == MinData \div NFACTOR
<1>2. /\ phase = "picture" /\ fragmented /\ phase' = "encode" /\ working' = 1..NFACTOR
      /\ units' = units /\ data' = data /\ parse_offset' = parse_offset
      /\ data_length' = data_length /\ fragmented' = fragmented
  BY DEF BeginPartials, header, given
<1>3. UnitsType /\ Opened /\ data_length \in Lengths /\ Segment(units, 0, data, parse_offset)
  BY <1>2 DEF UnitsInv, PictureInv, PictureEnd
<1>4. data_length \in Nat /\ data_length >= MinData /\ data \in Nat
  BY <1>3, Given DEF UnitsType
<1>5. NFACTOR * q = MinData /\ q \in Nat \ {0}
  BY Given, Quotients
<1>6. PICK U \in Nat : data_length - MinData = s * U
  <2>1. (data_length - MinData) % s = 0 /\ data_length - MinData \in Nat
    BY <1>3, <1>4, Given DEF WholeUnits
  <2> QED
    BY <2>1, Given, Quotients
<1>7. Units = U /\ Shared(data_length) = data_length
  <2>1. (s * U) \div s = U
    BY Given, Z3
  <2>2. (data_length - MinData) \div mSliceSizeScalar = U
    BY <1>6, <2>1
  <2>3. Shared(data_length) = MinData + U * mSliceSizeScalar
    BY <2>2 DEF Shared
  <2>4. U * s = s * U /\ U * s \in Int
    BY Given
  <2>5. Shared(data_length) = data_length
    BY <1>4, <1>6, <2>3, <2>4, Given
  <2> QED
    BY <2>2, <2>5
<1>8. PICK u \in [1..NFACTOR -> 0..U] :
         SumTo(u, NFACTOR) = U /\ olength = [k \in 1..NFACTOR |-> q + u[k] * s]
  BY <1>7 DEF SharesOf
<1> HIDE DEF s, q, full
<1>9. s \in Nat \ {0} /\ NFACTOR \in Nat \ {0}
  BY Given DEF s
<1>10. \A k \in 1..NFACTOR : /\ u[k] \in Nat /\ n[k] \in Nat /\ n[k] \in 1..MaxFragments
                             /\ olength[k] = q + u[k] * s /\ u[k] * s \in Nat /\ olength[k] \in Nat \ {0}
                             /\ full[k] = olength[k] + n[k] * HEADER
                             /\ full[k] \in Nat \ {0}
  <2> SUFFICES ASSUME NEW k \in 1..NFACTOR
               PROVE  /\ u[k] \in Nat /\ n[k] \in Nat /\ n[k] \in 1..MaxFragments
                      /\ olength[k] = q + u[k] * s /\ u[k] * s \in Nat /\ olength[k] \in Nat \ {0}
                      /\ full[k] = olength[k] + n[k] * HEADER /\ full[k] \in Nat \ {0}
    OBVIOUS
  <2>1. u[k] \in Nat /\ n[k] \in Nat /\ n[k] \in 1..MaxFragments
    BY <1>8, Given
  <2>2. u[k] * s \in Nat
    BY <1>9, <2>1
  <2>3. olength[k] = q + u[k] * s
    BY <1>8
  <2>4. full[k] = olength[k] + n[k] * HEADER
    BY DEF full
  <2> QED
    BY <1>5, <2>1, <2>2, <2>3, <2>4 DEF HEADER
<1>11. \A k \in 0..NFACTOR : SumTo(full, k) \in Nat
  <2> SUFFICES ASSUME NEW k \in 0..NFACTOR PROVE SumTo(full, k) \in Nat
    OBVIOUS
  <2>1. k \in Nat /\ \A j \in 1..k : full[j] \in Nat
    BY <1>9, <1>10
  <2> QED
    BY <2>1, SumNat
<1>12. SumTo(full, 0) = 0
  BY <1>10, SumType, <1>9, \A j \in 1..0 : full[j] \in Int
<1>13. \A k \in 1..NFACTOR : SumTo(full, k) = SumTo(full, k - 1) + full[k]
  <2> SUFFICES ASSUME NEW k \in 1..NFACTOR PROVE SumTo(full, k) = SumTo(full, k-1) + full[k]
    OBVIOUS
  <2>1. k - 1 \in Nat /\ (k-1)+1 = k /\ \A j \in 1..(k-1)+1 : full[j] \in Int
    BY <1>9, <1>10
  <2>2. SumTo(full, (k-1)+1) = SumTo(full, k-1) + full[(k-1)+1]
    BY <2>1, SumStep
  <2> QED
    BY <2>1, <2>2
<1>14. SumTo(full, NFACTOR) = data_length + HEADER * SumTo(n, NFACTOR)
  <2>1. Linear(full, q, u, s, n, HEADER, NFACTOR)
    BY <1>10 DEF Linear
  <2>2. SumTo(full, NFACTOR) = NFACTOR * q + s * SumTo(u, NFACTOR) + HEADER * SumTo(n, NFACTOR)
    <3>1. NFACTOR \in Nat /\ q \in Int /\ s \in Int /\ HEADER \in Int
      BY <1>5, <1>9 DEF HEADER
    <3> HIDE DEF HEADER
    <3> QED
      BY ONLY <2>1, <3>1, SumLinear
  <2>3. SumTo(n, NFACTOR) \in Nat
    BY <1>9, <1>10, SumNat
  <2>4. NFACTOR * q + s * SumTo(u, NFACTOR) = data_length
    BY <1>4, <1>5, <1>6, <1>8, Given DEF s
  <2> QED
    BY <2>2, <2>4
<1>15. /\ mEncoderData' = [k \in 1..NFACTOR |->
             [odata |-> data + SumTo(full, k - 1), olength |-> olength[k],
              fragments |-> n[k], final_offset |-> 0]]
  BY <1>1 DEF full
<1>16. \A k \in 1..NFACTOR : Place(k)' = data + SumTo(full, k-1) /\ Size(k)' = full[k]
  BY <1>10, <1>15 DEF Place, Size
<1>17. Extra' = HEADER * SumTo(n, NFACTOR)
  <2>1. [k \in 1..NFACTOR |-> mEncoderData'[k].fragments] = n
    BY <1>15
  <2> QED
    BY <2>1 DEF Extra
<1>18. mEncoderData' \in [1 .. NFACTOR -> [odata : Nat, olength : Nat \ {0},
                                           fragments : 1 .. MaxFragments, final_offset : Nat]]
  <2>1. \A k \in 1..NFACTOR : data + SumTo(full, k-1) \in Nat
    BY <1>4, <1>9, <1>11
  <2> QED
    BY <1>10, <1>15, <2>1
<1>19. Adjoin'
  <2>1. Place(1)' = data
    BY <1>4, <1>9, <1>12, <1>16
  <2>2. ASSUME NEW k \in 2..NFACTOR PROVE Place(k)' = Place(k-1)' + Size(k-1)'
    <3>1. k \in 1..NFACTOR /\ k-1 \in 1..NFACTOR /\ k-1 \in 0..NFACTOR /\ (k-1)-1 \in 0..NFACTOR
      BY <1>9
    <3>2. SumTo(full, k-1) = SumTo(full, (k-1)-1) + full[k-1] /\ full[k-1] \in Nat
      BY <1>10, <1>13, <3>1
    <3>3. Place(k)' = data + SumTo(full, k-1) /\ Place(k-1)' = data + SumTo(full, (k-1)-1)
          /\ Size(k-1)' = full[k-1] /\ SumTo(full, (k-1)-1) \in Nat
      BY <1>11, <1>16, <3>1
    <3> QED
      BY <1>4, <3>2, <3>3
  <2>3. Place(NFACTOR)' + Size(NFACTOR)' = data' + data_length' + Extra'
    <3>1. SumTo(full, NFACTOR) = SumTo(full, NFACTOR - 1) + full[NFACTOR] /\ full[NFACTOR] \in Nat
          /\ SumTo(full, NFACTOR - 1) \in Nat
      BY <1>9, <1>10, <1>11, <1>13
    <3>2. Place(NFACTOR)' = data + SumTo(full, NFACTOR - 1) /\ Size(NFACTOR)' = full[NFACTOR]
      BY <1>9, <1>16
    <3>3. Place(NFACTOR)' + Size(NFACTOR)' = data + (data_length + HEADER * SumTo(n, NFACTOR))
      BY <1>4, <1>14, <3>1, <3>2
    <3>4. PICK x \in Nat : x = SumTo(n, NFACTOR)
      BY <1>9, <1>10, SumNat
    <3> QED
      BY <1>2, <1>4, <1>17, <3>3, <3>4 DEF HEADER
  <2> QED
    BY <1>2, <1>18, <2>1, <2>2, <2>3 DEF Adjoin
<1>20. PartialsInv'
  <2>1. data' # 0 /\ fragmented' /\ working' \subseteq 1..NFACTOR /\ (1..NFACTOR) \ working' = {}
    BY <1>2, <1>3 DEF Opened
  <2>2. \A a \in DOMAIN units' : a < data'
    BY <1>2, <1>3 DEF Opened
  <2>3. Segment(units', 0, data', parse_offset')
    BY <1>2, <1>3
  <2> QED
    BY <1>19, <2>1, <2>2, <2>3 DEF PartialsInv
<1>21. UnitsType' /\ phase' \notin {"pack", "new", "open", "picture", "ended"}
  BY <1>2, <1>3 DEF UnitsType
<1> QED
  BY <1>20, <1>21, Zenon DEF UnitsInv

Rises(f, n) == f \in [0..n -> Nat] /\ \A i \in 1..n : f[i - 1] < f[i]

LEMMA Rising ==
  ASSUME NEW n \in Nat, NEW f, Rises(f, n)
  PROVE  \A i, j \in 0..n : i < j => f[i] < f[j]
<1>1. f \in [0..n -> Nat] /\ \A i \in 1..n : f[i - 1] < f[i]
  BY DEF Rises
<1> DEFINE G == {m \in Nat : m <= n => \A i \in 0..n : i < m => f[i] < f[m]}
<1>2. 0 \in G
  OBVIOUS
<1>3. ASSUME NEW m \in Nat, m \in G PROVE m + 1 \in G
  <2> SUFFICES ASSUME m + 1 <= n, NEW i \in 0..n, i < m + 1 PROVE f[i] < f[m+1]
    OBVIOUS
  <2>1. m+1 \in 1..n /\ (m+1)-1 = m /\ m \in 0..n /\ m + 1 \in 0..n
    OBVIOUS
  <2>2. f[m] < f[m+1] /\ f[m] \in Nat /\ f[m+1] \in Nat /\ f[i] \in Nat
    BY <1>1, <2>1
  <2>3. i = m \/ i < m
    OBVIOUS
  <2>4. i < m => f[i] < f[m]
    BY <1>3
  <2> QED
    BY <2>2, <2>3, <2>4
<1>4. Nat \subseteq G
  <2> HIDE DEF G
  <2> QED
    BY <1>2, <1>3, AllNumbers
<1> SUFFICES ASSUME NEW i \in 0..n, NEW j \in 0..n, i < j PROVE f[i] < f[j]
  OBVIOUS
<1>5. j \in G /\ j <= n
  BY <1>4
<1> QED
  BY <1>5

\* The units of one partial: they begin at o + f[0], ..., o + f[n-1].
Cut(V, o, f, n) ==
  \A i \in 0..(n-1) :
     /\ o + f[i] \in DOMAIN V
     /\ V[o + f[i]] = Unit(f[i+1] - f[i], IF i = 0 THEN UNSET ELSE f[i] - f[i-1])

LEMMA UnitFields ==
  \A x, y : Unit(x, y).next = x /\ Unit(x, y).prev = y
BY DEF Unit

LEMMA CutSegment ==
  ASSUME NEW V, DOMAIN V \subseteq Nat, NEW o \in Nat, NEW n \in Nat \ {0}, NEW f,
         Rises(f, n), f[0] = 0, Cut(V, o, f, n),
         \A b \in DOMAIN V : b < o \/ b >= o + f[n] \/ \E i \in 0..(n-1) : b = o + f[i]
  PROVE  Segment(V, o, o + f[n], f[n] - f[n-1])
<1>1. /\ \A i \in 0..n : f[i] \in Nat
      /\ \A i, j \in 0..n : i < j => f[i] < f[j]
  BY Rising DEF Rises
<1>2. o \in DOMAIN V
  <2>1. 0 \in 0..(n-1)
    OBVIOUS
  <2>2. o + f[0] = o
    OBVIOUS
  <2> QED
    BY <2>1, <2>2 DEF Cut
<1> SUFFICES ASSUME NEW a \in DOMAIN V, o <= a, a < o + f[n]
             PROVE  /\ V[a].next \in Nat \ {0} /\ a + V[a].next <= o + f[n]
                    /\ \A b \in DOMAIN V : a < b => a + V[a].next <= b
                    /\ a + V[a].next = o + f[n] => V[a].next = f[n] - f[n-1]
                    /\ a + V[a].next < o + f[n] => /\ a + V[a].next \in DOMAIN V
                                                   /\ V[a + V[a].next].prev = V[a].next
  BY <1>2 DEF Segment
<1>3. PICK i \in 0..(n-1) : a = o + f[i]
  <2>1. ~(a < o) /\ ~(a >= o + f[n])
    BY <1>1
  <2> QED
    BY <2>1
<1>4. /\ i \in 0..n /\ i+1 \in 0..n /\ i < i+1
      /\ f[i] \in Nat /\ f[i+1] \in Nat /\ f[n] \in Nat /\ f[i] < f[i+1]
  BY <1>1
<1>5. V[a].next = f[i+1] - f[i]
  <2>1. V[o + f[i]] = Unit(f[i+1] - f[i], IF i = 0 THEN UNSET ELSE f[i] - f[i-1])
    BY DEF Cut
  <2> QED
    BY <1>3, <2>1, UnitFields, Zenon
<1>6. a + V[a].next = o + f[i+1] /\ V[a].next \in Nat \ {0}
  BY <1>3, <1>4, <1>5
<1>7. f[i+1] <= f[n] /\ (i + 1 < n => f[i+1] < f[n])
  <2>1. n \in 0..n /\ (i+1 = n \/ i+1 < n)
    OBVIOUS
  <2> QED
    BY <1>1, <1>4, <2>1
<1>8. \A b \in DOMAIN V : a < b => o + f[i+1] <= b
  <2> SUFFICES ASSUME NEW b \in DOMAIN V, a < b PROVE o + f[i+1] <= b
    OBVIOUS
  <2>1. CASE b < o \/ b >= o + f[n]
    BY <1>4, <1>7, <2>1
  <2>2. CASE \E j \in 0..(n-1) : b = o + f[j]
    <3>1. PICK j \in 0..(n-1) : b = o + f[j]
      BY <2>2
    <3>2. j \in 0..n /\ f[j] \in Nat /\ f[i] < f[j]
      BY <1>1, <1>3, <1>4, <3>1
    <3>3. i < j
      BY <1>1, <1>4, <3>2
    <3>4. j = i+1 \/ i+1 < j
      BY <3>3
    <3> QED
      BY <1>1, <1>4, <3>1, <3>2, <3>4
  <2> QED
    BY <2>1, <2>2
<1>9. CASE i + 1 = n
  <2>1. f[n] - f[n-1] = f[i+1] - f[i]
    BY <1>9
  <2> QED
    BY <1>4, <1>5, <1>6, <1>7, <1>8, <1>9, <2>1
<1>10. CASE i + 1 < n
  <2>1. i + 1 \in 0..(n-1) /\ i + 1 # 0 /\ (i+1)-1 = i
    BY <1>10
  <2>2. o + f[i+1] \in DOMAIN V /\ V[o + f[i+1]].prev = f[i+1] - f[i]
    <3>1. PICK k \in 0..(n-1) : k = i + 1 /\ k # 0 /\ k - 1 = i
      BY <2>1
    <3>2. /\ o + f[k] \in DOMAIN V
          /\ V[o + f[k]] = Unit(f[k+1] - f[k], IF k = 0 THEN UNSET ELSE f[k] - f[k-1])
      BY DEF Cut
    <3>3. V[o + f[k]].prev = f[k] - f[k-1]
      <4>1. (IF k = 0 THEN UNSET ELSE f[k] - f[k-1]) = f[k] - f[k-1]
        BY <3>1
      <4>2. V[o + f[k]] = Unit(f[k+1] - f[k], f[k] - f[k-1])
        BY <3>2, <4>1
      <4> QED
        BY <4>2 DEF Unit
    <3> QED
      BY <3>1, <3>2, <3>3
  <2> QED
    BY <1>4, <1>5, <1>6, <1>7, <1>8, <1>10, <2>2
<1> QED
  BY <1>9, <1>10

Sized == \A k \in 1..NFACTOR : Place(k) \in Nat /\ Size(k) \in Nat \ {0}

LEMMA Ordered ==
  ASSUME Adjoin
  PROVE  /\ Sized /\ data \in Nat
         /\ \A j, k \in 1..NFACTOR : j < k => Place(j) + Size(j) <= Place(k)
         /\ \A k \in 1..NFACTOR : data <= Place(k)
<1>0. NFACTOR \in Nat \ {0} /\ 1 \in 1..NFACTOR
  BY Given
<1>1. \A k \in 1..NFACTOR : Place(k) \in Nat /\ Size(k) \in Nat \ {0}
  <2> SUFFICES ASSUME NEW k \in 1..NFACTOR PROVE Place(k) \in Nat /\ Size(k) \in Nat \ {0}
    OBVIOUS
  <2>1. mEncoderData[k] \in [odata : Nat, olength : Nat \ {0},
                             fragments : 1 .. MaxFragments, final_offset : Nat]
    BY DEF Adjoin
  <2>2. mEncoderData[k].odata \in Nat /\ mEncoderData[k].olength \in Nat \ {0}
    BY <2>1
  <2>3. mEncoderData[k].fragments \in Nat
    BY <2>1, Given
  <2>4. mEncoderData[k].olength + mEncoderData[k].fragments * HEADER \in Nat \ {0}
    BY <2>2, <2>3 DEF HEADER
  <2> QED
    BY <2>2, <2>4 DEF Place, Size
<1>2. Place(1) = data /\ \A k \in 2..NFACTOR : Place(k) = Place(k - 1) + Size(k - 1)
  BY DEF Adjoin
<1> DEFINE G == {m \in Nat : m \in 1..NFACTOR =>
                    \A j \in 1..NFACTOR : j < m => Place(j) + Size(j) <= Place(m)}
<1>3. 0 \in G
  BY <1>0
<1>4. ASSUME NEW m \in Nat, m \in G PROVE m + 1 \in G
  <2> SUFFICES ASSUME m + 1 <= NFACTOR, NEW j \in 1..NFACTOR, j < m + 1
               PROVE  Place(j) + Size(j) <= Place(m+1)
    BY <1>0
  <2>1. m \in 1..NFACTOR /\ m+1 \in 2..NFACTOR /\ (m+1)-1 = m
    BY <1>0
  <2>2. Place(m+1) = Place(m) + Size(m)
    BY <1>2, <2>1
  <2>3. j = m \/ j < m
    BY <2>1
  <2>4. j < m => Place(j) + Size(j) <= Place(m)
    BY <1>4, <2>1
  <2>5. /\ Place(j) \in Nat /\ Size(j) \in Nat \ {0}
        /\ Place(m) \in Nat /\ Size(m) \in Nat \ {0}
    BY <1>1, <2>1
  <2> QED
    BY <2>2, <2>3, <2>4, <2>5
<1>5. Nat \subseteq G
  <2> HIDE DEF G
  <2> QED
    BY <1>3, <1>4, AllNumbers
<1>6. \A j, k \in 1..NFACTOR : j < k => Place(j) + Size(j) <= Place(k)
  <2> SUFFICES ASSUME NEW j \in 1..NFACTOR, NEW k \in 1..NFACTOR, j < k
               PROVE  Place(j) + Size(j) <= Place(k)
    OBVIOUS
  <2>1. k \in G
    BY <1>0, <1>5
  <2> QED
    BY <2>1
<1>7. ASSUME NEW k \in 1..NFACTOR PROVE data <= Place(k)
  <2>1. k = 1 \/ 1 < k
    BY <1>0
  <2>2. 1 < k => Place(1) + Size(1) <= Place(k)
    BY <1>0, <1>6
  <2>3. Place(1) \in Nat /\ Size(1) \in Nat /\ Place(k) \in Nat
    BY <1>0, <1>1
  <2> QED
    BY <1>2, <2>1, <2>2, <2>3
<1> QED
  BY <1>0, <1>1, <1>2, <1>6, <1>7 DEF Sized

Within(a, k) == Place(k) <= a /\ a < Place(k) + Size(k)

LEMMA Apart ==
  ASSUME Adjoin, NEW j \in 1..NFACTOR, NEW k \in 1..NFACTOR, NEW a \in Nat,
         Within(a, j), Within(a, k)
  PROVE  j = k
<1>0. NFACTOR \in Nat
  BY Given
<1>1. /\ Place(j) \in Nat /\ Size(j) \in Nat /\ Place(k) \in Nat /\ Size(k) \in Nat
      /\ j < k => Place(j) + Size(j) <= Place(k)
      /\ k < j => Place(k) + Size(k) <= Place(j)
  BY Ordered DEF Sized
<1> QED
  BY <1>0, <1>1 DEF Within

\* What PartialsInv says of the partials.
Written(k) == Segment(units, Place(k), Place(k) + Size(k), Final(k))

LEMMA EncodeUnits ==
  ASSUME UnitsInv, NEW k \in 1..NFACTOR, EncodePartial(k)
  PROVE  UnitsInv'
<1> DEFINE p == mEncoderData[k]
           o == p.odata
           n == p.fragments
           length == p.olength + p.fragments * HEADER
<1>1. /\ phase = "encode" /\ k \in working /\ phase' = "encode" /\ working' = working \ {k}
      /\ data' = data /\ parse_offset' = parse_offset /\ data_length' = data_length
      /\ fragmented' = fragmented
  BY DEF EncodePartial, header, given
<1>2. PartialsInv /\ UnitsType
  BY <1>1 DEF UnitsInv
<1>3. /\ Adjoin /\ data # 0 /\ fragmented /\ working \subseteq 1 .. NFACTOR
      /\ Segment(units, 0, data, parse_offset) /\ \A j \in (1 .. NFACTOR) \ working : Written(j)
      /\ \A a \in DOMAIN units : a < data \/ \E j \in (1 .. NFACTOR) \ working : Within(a, j)
  BY <1>2 DEF PartialsInv, Written, Within
<1>4. /\ data \in Nat /\ DOMAIN units \subseteq Nat /\ parse_offset \in Nat /\ data_length \in Nat
      /\ units \in [DOMAIN units -> [next : Nat, prev : Nat \cup {UNSET}]]
  BY <1>2 DEF UnitsType
<1>5. /\ Sized /\ \A j \in 1..NFACTOR : data <= Place(j)
      /\ o = Place(k) /\ length = Size(k) /\ o \in Nat /\ length \in Nat \ {0} /\ data <= o
  BY <1>3, Ordered DEF Sized, Place, Size
<1>6. /\ mEncoderData \in [1 .. NFACTOR -> [odata : Nat, olength : Nat \ {0},
                                             fragments : 1 .. MaxFragments, final_offset : Nat]]
      /\ p \in [odata : Nat, olength : Nat \ {0}, fragments : 1 .. MaxFragments, final_offset : Nat]
      /\ n \in Nat \ {0}
  <2>1. mEncoderData \in [1 .. NFACTOR -> [odata : Nat, olength : Nat \ {0},
                                           fragments : 1 .. MaxFragments, final_offset : Nat]]
    BY <1>3 DEF Adjoin
  <2>2. p \in [odata : Nat, olength : Nat \ {0}, fragments : 1 .. MaxFragments, final_offset : Nat]
    BY <2>1
  <2>3. n \in 1..MaxFragments
    BY <2>2
  <2>4. \A i \in 1..MaxFragments : i \in Nat \ {0}
    BY Given
  <2> QED
    BY <2>1, <2>2, <2>3, <2>4
<1>7. PICK cut \in [1..(n - 1) -> (HEADER + 4)..(length - HEADER - 4)] :
        LET at == [i \in 0..n |-> IF i = 0 THEN 0 ELSE IF i = n THEN length ELSE cut[i]]
        IN  /\ \A i \in 1..n : at[i] - at[i - 1] >= HEADER + 4
            /\ units' = Put([x \in {o + at[i] : i \in 0..(n - 1)} |->
                   LET i == CHOOSE i \in 0..(n - 1) : x = o + at[i]
                   IN  Unit(at[i + 1] - at[i], IF i = 0 THEN UNSET ELSE at[i] - at[i - 1])])
            /\ mEncoderData' = [mEncoderData EXCEPT ![k].final_offset = length - at[n - 1]]
  BY Zenon DEF EncodePartial
<1> DEFINE at == [i \in 0..n |-> IF i = 0 THEN 0 ELSE IF i = n THEN length ELSE cut[i]]
           D == {o + at[i] : i \in 0..(n - 1)}
           new == [x \in D |->
                   LET i == CHOOSE i \in 0..(n - 1) : x = o + at[i]
                   IN  Unit(at[i + 1] - at[i], IF i = 0 THEN UNSET ELSE at[i] - at[i - 1])]
<1>8. /\ \A i \in 1..n : at[i] - at[i - 1] >= HEADER + 4
      /\ units' = Put(new)
      /\ mEncoderData' = [mEncoderData EXCEPT ![k].final_offset = length - at[n - 1]]
  BY <1>7
<1> HIDE DEF length, o
<1>9. at[0] = 0 /\ at[n] = length /\ at \in [0..n -> Nat]
  <2>1. 0 \in 0..n /\ n \in 0..n /\ n # 0
    BY <1>6
  <2>2. ASSUME NEW i \in 0..n PROVE (IF i = 0 THEN 0 ELSE IF i = n THEN length ELSE cut[i]) \in Nat
    <3>1. CASE i = 0 \/ i = n
      BY <1>5, <3>1
    <3>2. CASE i # 0 /\ i # n
      <4>1. i \in 1..(n-1)
        BY <1>6, <3>2
      <4>2. cut[i] \in (HEADER + 4)..(length - HEADER - 4)
        BY <4>1
      <4>3. cut[i] \in Nat
        BY <1>5, <4>2 DEF HEADER
      <4> QED
        BY <3>2, <4>3
    <3> QED
      BY <3>1, <3>2
  <2> QED
    BY <2>1, <2>2
<1> HIDE DEF n, at
<1>10. Rises(at, n)
  <2> SUFFICES ASSUME NEW i \in 1..n PROVE at[i-1] < at[i]
    BY <1>9 DEF Rises
  <2>1. i \in 0..n /\ i-1 \in 0..n
    BY <1>6
  <2>2. at[i] - at[i-1] >= HEADER + 4
    BY <1>8
  <2>3. at[i] \in Nat /\ at[i-1] \in Nat
    BY <1>9, <2>1
  <2> QED
    BY <2>2, <2>3 DEF HEADER
<1>11. \A i, j \in 0..n : i < j => at[i] < at[j]
  BY <1>6, <1>10, Rising
<1>12. \A i \in 0..(n-1) : o + at[i] \in Nat /\ Within(o + at[i], k)
  <2> SUFFICES ASSUME NEW i \in 0..(n-1) PROVE o + at[i] \in Nat /\ Within(o + at[i], k)
    OBVIOUS
  <2>1. i \in 0..n /\ n \in 0..n /\ i < n
    BY <1>6
  <2>2. at[i] < length /\ at[i] \in Nat
    BY <1>9, <1>11, <2>1
  <2> QED
    BY <1>5, <2>2 DEF Within
<1>13. \A x \in D : x \in Nat /\ Within(x, k)
  BY <1>12
<1>14. /\ DOMAIN units' = DOMAIN units \cup D
       /\ \A x \in D : units'[x] = new[x]
       /\ \A a \in DOMAIN units : a \notin D => units'[a] = units[a]
       /\ units' = [x \in DOMAIN units' |-> units'[x]]
  <2> HIDE DEF D
  <2> QED
    BY <1>8 DEF Put
<1>15. \A i \in 0..(n-1) : new[o + at[i]] = Unit(at[i + 1] - at[i], IF i = 0 THEN UNSET ELSE at[i] - at[i - 1])
  <2> SUFFICES ASSUME NEW i \in 0..(n-1)
               PROVE  new[o + at[i]] = Unit(at[i + 1] - at[i], IF i = 0 THEN UNSET ELSE at[i] - at[i - 1])
    OBVIOUS
  <2>1. o + at[i] \in D
    OBVIOUS
  <2>2. \A j \in 0..(n-1) : o + at[i] = o + at[j] => j = i
    <3> SUFFICES ASSUME NEW j \in 0..(n-1), o + at[i] = o + at[j] PROVE j = i
      OBVIOUS
    <3>1. i \in 0..n /\ j \in 0..n
      BY <1>6
    <3>2. at[i] \in Nat /\ at[j] \in Nat
      BY <1>9, <3>1
    <3>3. at[i] = at[j]
      BY <1>5, <3>2
    <3> QED
      BY <1>6, <1>11, <3>1, <3>2, <3>3
  <2>3. (CHOOSE j \in 0..(n-1) : o + at[i] = o + at[j]) = i
    BY <2>2
  <2> QED
    BY <2>1, <2>3
<1> HIDE DEF new
<1>16. Cut(units', o, at, n)
  BY <1>14, <1>15 DEF Cut
<1>17. \A a \in DOMAIN units : ~Within(a, k)
  <2> SUFFICES ASSUME NEW a \in DOMAIN units, Within(a, k) PROVE FALSE
    OBVIOUS
  <2>1. CASE a < data
    <3>1. a \in Nat /\ Place(k) \in Nat /\ data <= Place(k)
      BY <1>4, <1>5 DEF Sized
    <3> QED
      BY <1>4, <2>1, <3>1 DEF Within
  <2>2. CASE \E j \in (1 .. NFACTOR) \ working : Within(a, j)
    <3>1. PICK j \in (1 .. NFACTOR) \ working : Within(a, j)
      BY <2>2
    <3>2. j = k
      BY <1>3, <1>4, <3>1, Apart
    <3> QED
      BY <1>1, <3>1, <3>2
  <2> QED
    BY <1>3, <2>1, <2>2
<1>18. /\ DOMAIN units' \subseteq Nat /\ \A a \in DOMAIN units : units'[a] = units[a]
       /\ DOMAIN units \subseteq DOMAIN units'
       /\ \A b \in DOMAIN units' \ DOMAIN units : Within(b, k)
  BY <1>4, <1>13, <1>14, <1>17
<1>19. Segment(units', o, o + length, length - at[n-1])
  <2>1. \A b \in DOMAIN units' : b < o \/ b >= o + at[n] \/ \E i \in 0..(n-1) : b = o + at[i]
    <3> SUFFICES ASSUME NEW b \in DOMAIN units', ~(b < o), ~(b >= o + at[n])
                 PROVE  \E i \in 0..(n-1) : b = o + at[i]
      OBVIOUS
    <3>1. Within(b, k)
      BY <1>5, <1>9, <1>18 DEF Within
    <3>2. b \in D
      BY <1>14, <1>17, <3>1
    <3> QED
      BY <3>2
  <2>2. Segment(units', o, o + at[n], at[n] - at[n-1])
    BY ONLY <1>5, <1>6, <1>9, <1>10, <1>16, <1>18, <2>1, CutSegment
  <2> QED
    BY <1>9, <2>2
<1>20. length - at[n-1] \in Nat
  <2>1. n - 1 \in 0..n /\ n \in 0..n /\ n - 1 < n
    BY <1>6
  <2>2. at[n-1] < at[n] /\ at[n-1] \in Nat
    BY <1>9, <1>11, <2>1
  <2> QED
    BY <1>5, <1>9, <2>2
<1>21. /\ \A j \in 1..NFACTOR : /\ mEncoderData'[j].odata = mEncoderData[j].odata
                                /\ mEncoderData'[j].olength = mEncoderData[j].olength
                                /\ mEncoderData'[j].fragments = mEncoderData[j].fragments
                                /\ j # k => mEncoderData'[j].final_offset = mEncoderData[j].final_offset
       /\ mEncoderData'[k].final_offset = length - at[n-1]
       /\ mEncoderData' \in [1 .. NFACTOR -> [odata : Nat, olength : Nat \ {0},
                                             fragments : 1 .. MaxFragments, final_offset : Nat]]
  BY <1>6, <1>8, <1>20
<1>22. /\ \A j \in 1..NFACTOR : Place(j)' = Place(j) /\ Size(j)' = Size(j)
       /\ \A j \in 1..NFACTOR : j # k => Final(j)' = Final(j)
       /\ Final(k)' = length - at[n-1]
  BY <1>21 DEF Place, Size, Final
<1>23. Extra' = Extra
  <2>1. [j \in 1..NFACTOR |-> mEncoderData'[j].fragments] = [j \in 1..NFACTOR |-> mEncoderData[j].fragments]
    BY <1>21
  <2> QED
    BY <2>1 DEF Extra
<1>24. Adjoin'
  <2>1. /\ Place(1) = data /\ \A j \in 2 .. NFACTOR : Place(j) = Place(j - 1) + Size(j - 1)
        /\ Place(NFACTOR) + Size(NFACTOR) = data + data_length + Extra
    BY <1>3 DEF Adjoin
  <2>2. 1 \in 1..NFACTOR /\ NFACTOR \in 1..NFACTOR /\ \A j \in 2..NFACTOR : j \in 1..NFACTOR /\ j-1 \in 1..NFACTOR
    BY Given
  <2>3. Place(1)' = data' /\ Place(NFACTOR)' + Size(NFACTOR)' = data' + data_length' + Extra'
    BY <1>1, <1>22, <1>23, <2>1, <2>2
  <2>4. \A j \in 2 .. NFACTOR : Place(j)' = Place(j - 1)' + Size(j - 1)'
    BY <1>22, <2>1, <2>2
  <2> QED
    BY <1>21, <2>3, <2>4 DEF Adjoin
<1>25. Segment(units', 0, data, parse_offset)
  <2>1. \A b \in DOMAIN units' \ DOMAIN units : b < 0 \/ b >= data
    <3> SUFFICES ASSUME NEW b \in DOMAIN units' \ DOMAIN units PROVE b >= data
      OBVIOUS
    <3>1. Within(b, k) /\ b \in Nat /\ Place(k) \in Nat /\ data <= Place(k)
      BY <1>5, <1>18 DEF Sized
    <3> QED
      BY <1>4, <3>1 DEF Within
  <2>2. \A a \in DOMAIN units : 0 <= a /\ a < data =>
           units'[a].next = units[a].next /\ (a = 0 \/ units'[a].prev = units[a].prev)
    BY <1>18
  <2>3. 0 \in Nat /\ Segment(units, 0, data, parse_offset)
    BY <1>3
  <2> QED
    BY ONLY <1>4, <1>18, <2>1, <2>2, <2>3, Kept
<1>26. ASSUME NEW j \in (1 .. NFACTOR) \ working
       PROVE  Segment(units', Place(j), Place(j) + Size(j), Final(j))
  <2>0. j # k /\ j \in 1..NFACTOR
    BY <1>1
  <2>1. /\ Place(j) \in Nat /\ Size(j) \in Nat \ {0} /\ Place(j) + Size(j) \in Nat
        /\ Segment(units, Place(j), Place(j) + Size(j), Final(j))
    BY <1>3, <1>5 DEF Sized, Written
  <2>2. \A b \in DOMAIN units' \ DOMAIN units : b < Place(j) \/ b >= Place(j) + Size(j)
    <3> SUFFICES ASSUME NEW b \in DOMAIN units' \ DOMAIN units,
                        ~(b < Place(j) \/ b >= Place(j) + Size(j))
                 PROVE  FALSE
      OBVIOUS
    <3>1. Within(b, k) /\ b \in Nat
      BY <1>18
    <3>2. Within(b, j)
      BY <2>1, <3>1 DEF Within
    <3> QED
      BY <1>3, <2>0, <3>1, <3>2, Apart
  <2>3. \A a \in DOMAIN units : Place(j) <= a /\ a < Place(j) + Size(j) =>
           units'[a].next = units[a].next /\ (a = Place(j) \/ units'[a].prev = units[a].prev)
    BY <1>18
  <2> QED
    BY ONLY <1>4, <1>18, <2>1, <2>2, <2>3, Kept
<1>27. \A j \in (1 .. NFACTOR) \ working' : Segment(units', Place(j)', Place(j)' + Size(j)', Final(j)')
  <2> SUFFICES ASSUME NEW j \in (1 .. NFACTOR) \ working'
               PROVE  Segment(units', Place(j)', Place(j)' + Size(j)', Final(j)')
    OBVIOUS
  <2>1. CASE j = k
    BY <1>5, <1>19, <1>22, <2>1
  <2>2. CASE j # k
    <3>1. j \in (1..NFACTOR) \ working
      BY <1>1, <2>2
    <3> QED
      BY <1>22, <1>26, <2>2, <3>1
  <2> QED
    BY <2>1, <2>2
<1>28. \A a \in DOMAIN units' :
          \/ a < data'
          \/ \E j \in (1 .. NFACTOR) \ working' : Place(j)' <= a /\ a < Place(j)' + Size(j)'
  <2> SUFFICES ASSUME NEW a \in DOMAIN units', ~(a < data')
               PROVE  \E j \in (1 .. NFACTOR) \ working' : Place(j)' <= a /\ a < Place(j)' + Size(j)'
    OBVIOUS
  <2>1. CASE a \in DOMAIN units
    <3>1. PICK j \in (1 .. NFACTOR) \ working : Within(a, j)
      BY <1>1, <1>3, <2>1
    <3>2. j \in (1 .. NFACTOR) \ working'
      BY <1>1
    <3> QED
      BY <1>22, <3>1, <3>2 DEF Within
  <2>2. CASE a \notin DOMAIN units
    <3>1. Within(a, k)
      BY <1>18, <2>2
    <3>2. k \in (1 .. NFACTOR) \ working'
      BY <1>1
    <3> QED
      BY <1>22, <3>1, <3>2 DEF Within
  <2> QED
    BY <2>1, <2>2
<1>29. PartialsInv'
  <2>1. working' \subseteq 1..NFACTOR /\ data' # 0 /\ fragmented' /\ Segment(units', 0, data', parse_offset')
    BY <1>1, <1>3, <1>25
  <2> QED
    BY <1>24, <1>27, <1>28, <2>1 DEF PartialsInv
<1>30. UnitsType'
  <2>1. ASSUME NEW x \in DOMAIN units' PROVE units'[x] \in [next : Nat, prev : Nat \cup {UNSET}]
    <3>1. CASE x \in DOMAIN units
      BY <1>4, <1>18, <3>1
    <3>2. CASE x \in D
      <4>1. PICK i \in 0..(n-1) : x = o + at[i]
        BY <3>2
      <4>2. units'[x] = Unit(at[i + 1] - at[i], IF i = 0 THEN UNSET ELSE at[i] - at[i - 1])
        BY <1>14, <1>15, <3>2, <4>1
      <4>3. at[i + 1] - at[i] \in Nat
        <5>1. i \in 0..n /\ i+1 \in 0..n /\ i < i+1
          BY <1>6
        <5> QED
          BY <1>9, <1>11, <5>1
      <4>4. i # 0 => at[i] - at[i - 1] \in Nat
        <5> SUFFICES ASSUME i # 0 PROVE at[i] - at[i-1] \in Nat
          OBVIOUS
        <5>1. i \in 0..n /\ i-1 \in 0..n /\ i-1 < i
          BY <1>6
        <5> QED
          BY <1>9, <1>11, <5>1
      <4>5. (IF i = 0 THEN UNSET ELSE at[i] - at[i - 1]) \in Nat \cup {UNSET}
        BY <4>4
      <4> QED
        BY <4>2, <4>3, <4>5 DEF Unit
    <3> QED
      BY <1>14, <3>1, <3>2
  <2>2. units' \in [DOMAIN units' -> [next : Nat, prev : Nat \cup {UNSET}]]
    BY <1>14, <2>1
  <2> QED
    BY <1>1, <1>4, <1>18, <2>2 DEF UnitsType
<1>31. phase' \notin {"pack", "new", "open", "picture", "ended"}
  BY <1>1
<1> QED
  BY <1>29, <1>30, <1>31, Zenon DEF UnitsInv

\* The units of the picture and of its partials, one behind the other.
LEMMA Linked ==
  ASSUME NEW V, DOMAIN V \subseteq Nat, Adjoin, data # 0, parse_offset \in Nat,
         Segment(V, 0, data, parse_offset),
         \A k \in 1..NFACTOR : Segment(V, Place(k), Place(k) + Size(k), Final(k)),
         \A k \in 1..NFACTOR : V[Place(k)].prev = Back(k)
  PROVE  Segment(V, 0, Place(NFACTOR) + Size(NFACTOR), Final(NFACTOR))
<1>0. NFACTOR \in Nat \ {0} /\ 1 \in 1..NFACTOR
  BY Given
<1>1. /\ \A k \in 1..NFACTOR : Place(k) \in Nat /\ Size(k) \in Nat \ {0} /\ data <= Place(k)
      /\ data \in Nat
  BY Ordered DEF Sized
<1>2. Place(1) = data /\ \A k \in 2..NFACTOR : Place(k) = Place(k - 1) + Size(k - 1)
  BY DEF Adjoin
<1> DEFINE G == {m \in Nat : m + 1 <= NFACTOR => Segment(V, 0, Place(m+1) + Size(m+1), Final(m+1))}
<1>3. ASSUME NEW k \in 1..NFACTOR, Segment(V, 0, Place(k), Back(k))
      PROVE  Segment(V, 0, Place(k) + Size(k), Final(k))
  <2>1. Place(k) \in Nat \ {0} /\ Place(k) + Size(k) \in Nat /\ Place(k) < Place(k) + Size(k)
    BY <1>1
  <2>2. Segment(V, Place(k), Place(k) + Size(k), Final(k)) /\ V[Place(k)].prev = Back(k)
    OBVIOUS
  <2> QED
    BY ONLY DOMAIN V \subseteq Nat, <1>3, <2>1, <2>2, Joined
<1>4. 0 \in G
  <2>1. Back(1) = parse_offset
    BY DEF Back
  <2>2. Segment(V, 0, Place(1) + Size(1), Final(1))
    BY <1>0, <1>2, <1>3, <2>1
  <2> QED
    BY <2>2
<1>5. ASSUME NEW m \in Nat, m \in G PROVE m + 1 \in G
  <2> SUFFICES ASSUME (m + 1) + 1 <= NFACTOR
               PROVE  Segment(V, 0, Place((m+1)+1) + Size((m+1)+1), Final((m+1)+1))
    OBVIOUS
  <2>1. PICK k \in 2..NFACTOR : k = (m+1)+1 /\ k - 1 = m + 1 /\ k # 1 /\ k \in 1..NFACTOR
    BY <1>0
  <2>2. Segment(V, 0, Place(k-1) + Size(k-1), Final(k-1))
    BY <1>5, <2>1, <1>0
  <2>3. Back(k) = Final(k-1)
    BY <2>1 DEF Back, Final
  <2>4. Segment(V, 0, Place(k), Back(k))
    BY <1>2, <2>1, <2>2, <2>3
  <2>5. Segment(V, 0, Place(k) + Size(k), Final(k))
    BY <1>3, <2>1, <2>4
  <2> QED
    BY <2>1, <2>5
<1>6. Nat \subseteq G
  <2> HIDE DEF G
  <2> QED
    BY <1>4, <1>5, AllNumbers
<1>7. NFACTOR - 1 \in G /\ (NFACTOR - 1) + 1 = NFACTOR
  BY <1>0, <1>6
<1> QED
  BY <1>0, <1>7

LEMMA LinkUnits ==
  ASSUME UnitsInv, Link
  PROVE  UnitsInv'
<1> DEFINE end == Place(NFACTOR) + Size(NFACTOR)
<1>1. /\ phase = "encode" /\ working = {} /\ phase' = "open"
      /\ data_length' = data_length /\ data' = data + data_length + Extra
      /\ parse_offset' = Final(NFACTOR)
  BY DEF Link, Final
<1>2. PartialsInv /\ UnitsType
  BY <1>1 DEF UnitsInv
<1>3. /\ Adjoin /\ data # 0 /\ Segment(units, 0, data, parse_offset)
      /\ \A k \in 1 .. NFACTOR : Written(k)
      /\ \A a \in DOMAIN units : a < data \/ \E k \in 1 .. NFACTOR : Within(a, k)
  BY <1>1, <1>2 DEF PartialsInv, Written, Within
<1>4. /\ data \in Nat /\ DOMAIN units \subseteq Nat /\ parse_offset \in Nat /\ data_length \in Nat
      /\ units \in [DOMAIN units -> [next : Nat, prev : Nat \cup {UNSET}]]
  BY <1>2 DEF UnitsType
<1>5. /\ \A k \in 1..NFACTOR : Place(k) \in Nat /\ Size(k) \in Nat \ {0} /\ data <= Place(k)
      /\ \A j, k \in 1..NFACTOR : j < k => Place(j) + Size(j) <= Place(k)
      /\ NFACTOR \in 1..NFACTOR /\ NFACTOR \in Nat \ {0}
  BY <1>3, Ordered, Given DEF Sized
<1>6. \A k \in 1..NFACTOR : Final(k) \in Nat
  BY <1>3 DEF Adjoin, Final
<1>7. \A k \in 1..NFACTOR : Back(k) \in Nat
  <2> SUFFICES ASSUME NEW k \in 1..NFACTOR PROVE Back(k) \in Nat
    OBVIOUS
  <2>1. k # 1 => k - 1 \in 1..NFACTOR
    BY <1>5
  <2> QED
    BY <1>4, <1>6, <2>1 DEF Back, Final
<1>8. \A j, k \in 1..NFACTOR : Place(j) = Place(k) => j = k
  <2> SUFFICES ASSUME NEW j \in 1..NFACTOR, NEW k \in 1..NFACTOR, Place(j) = Place(k) PROVE j = k
    OBVIOUS
  <2>1. Within(Place(j), j) /\ Within(Place(j), k) /\ Place(j) \in Nat
    BY <1>5 DEF Within
  <2> QED
    BY <1>3, <2>1, Apart
<1> DEFINE Starts(x) == \E k \in 1..NFACTOR : x = mEncoderData[k].odata
           new == [x \in DOMAIN units |->
                    IF Starts(x)
                    THEN LET k == CHOOSE k \in 1..NFACTOR : x = mEncoderData[k].odata
                         IN  [units[x] EXCEPT !.prev = Back(k)]
                    ELSE units[x]]
<1>9. units' = new
  BY DEF Link
<1>10. \A k \in 1..NFACTOR : Place(k) \in DOMAIN units /\ Starts(Place(k))
  BY <1>3 DEF Written, Segment, Place
<1>11. \A k \in 1..NFACTOR : units'[Place(k)] = [units[Place(k)] EXCEPT !.prev = Back(k)]
  <2> SUFFICES ASSUME NEW k \in 1..NFACTOR
               PROVE  units'[Place(k)] = [units[Place(k)] EXCEPT !.prev = Back(k)]
    OBVIOUS
  <2>1. \A j \in 1..NFACTOR : Place(k) = mEncoderData[j].odata <=> j = k
    BY <1>8 DEF Place
  <2>2. (CHOOSE j \in 1..NFACTOR : Place(k) = mEncoderData[j].odata) = k
    BY <2>1
  <2> QED
    BY <1>9, <1>10, <2>2, Zenon
<1>12. /\ DOMAIN units' = DOMAIN units
       /\ \A x \in DOMAIN units : ~Starts(x) => units'[x] = units[x]
  BY <1>9
<1>13. \A x \in DOMAIN units : Starts(x) => \E k \in 1..NFACTOR : x = Place(k)
  BY DEF Place
<1> HIDE DEF Starts, new
<1>14. \A x \in DOMAIN units : units'[x] \in [next : Nat, prev : Nat \cup {UNSET}]
                               /\ units'[x].next = units[x].next
  <2> SUFFICES ASSUME NEW x \in DOMAIN units
               PROVE  units'[x] \in [next : Nat, prev : Nat \cup {UNSET}]
                      /\ units'[x].next = units[x].next
    OBVIOUS
  <2>1. units[x] \in [next : Nat, prev : Nat \cup {UNSET}]
    BY <1>4
  <2>2. CASE Starts(x)
    <3>1. PICK k \in 1..NFACTOR : x = Place(k)
      BY <1>13, <2>2
    <3> QED
      BY <1>7, <1>11, <2>1, <3>1
  <2>3. CASE ~Starts(x)
    BY <1>12, <2>1, <2>3
  <2> QED
    BY <2>2, <2>3
<1>15. \A k \in 1..NFACTOR : units'[Place(k)].prev = Back(k)
  <2> SUFFICES ASSUME NEW k \in 1..NFACTOR PROVE units'[Place(k)].prev = Back(k)
    OBVIOUS
  <2>1. units[Place(k)] \in [next : Nat, prev : Nat \cup {UNSET}]
    BY <1>4, <1>10
  <2> QED
    BY <1>11, <2>1
<1>16. DOMAIN units' \subseteq Nat /\ DOMAIN units \subseteq DOMAIN units'
       /\ \A from, to \in Nat : \A b \in DOMAIN units' \ DOMAIN units : b < from \/ b >= to
  BY <1>4, <1>12
<1>17. Segment(units', 0, data, parse_offset)
  <2>1. \A a \in DOMAIN units : 0 <= a /\ a < data =>
           units'[a].next = units[a].next /\ (a = 0 \/ units'[a].prev = units[a].prev)
    <3> SUFFICES ASSUME NEW a \in DOMAIN units, a < data
                 PROVE  units'[a].next = units[a].next /\ units'[a].prev = units[a].prev
      OBVIOUS
    <3>1. ASSUME Starts(a) PROVE FALSE
      <4>1. PICK k \in 1..NFACTOR : a = Place(k)
        BY <1>13, <3>1
      <4> QED
        BY <1>4, <1>5, <4>1
    <3> QED
      BY <1>12, <3>1
  <2>2. 0 \in Nat /\ \A b \in DOMAIN units' \ DOMAIN units : b < 0 \/ b >= data
    BY <1>4, <1>16
  <2> QED
    BY ONLY <1>3, <1>4, <1>16, <2>1, <2>2, Kept
<1>18. ASSUME NEW k \in 1..NFACTOR PROVE Segment(units', Place(k), Place(k) + Size(k), Final(k))
  <2>1. Place(k) \in Nat /\ Place(k) + Size(k) \in Nat /\ Size(k) \in Nat
        /\ Segment(units, Place(k), Place(k) + Size(k), Final(k))
    BY <1>3, <1>5 DEF Written
  <2>2. \A a \in DOMAIN units : Place(k) <= a /\ a < Place(k) + Size(k) =>
           units'[a].next = units[a].next /\ (a = Place(k) \/ units'[a].prev = units[a].prev)
    <3> SUFFICES ASSUME NEW a \in DOMAIN units, Place(k) <= a, a < Place(k) + Size(k), a # Place(k)
                 PROVE  units'[a].prev = units[a].prev
      BY <1>14
    <3>0. Within(a, k)
      BY DEF Within
    <3>1. ASSUME Starts(a) PROVE FALSE
      <4>1. PICK j \in 1..NFACTOR : a = Place(j)
        BY <1>13, <3>1
      <4>2. Within(a, j) /\ a \in Nat
        BY <1>4, <1>5, <4>1 DEF Within
      <4>3. j = k
        BY <1>3, <3>0, <4>2, Apart
      <4> QED
        BY <4>1, <4>3
    <3> QED
      BY <1>12, <3>1
  <2>3. \A b \in DOMAIN units' \ DOMAIN units : b < Place(k) \/ b >= Place(k) + Size(k)
    BY <2>1, <1>16
  <2> QED
    BY ONLY <1>4, <1>16, <2>1, <2>2, <2>3, Kept
<1>19. Segment(units', 0, end, Final(NFACTOR))
  BY <1>3, <1>4, <1>15, <1>16, <1>17, <1>18, Linked
<1>20. data' = end /\ end \in Nat \ {0}
  BY <1>1, <1>3, <1>5 DEF Adjoin
<1>21. \A a \in DOMAIN units : a < end
  <2> SUFFICES ASSUME NEW a \in DOMAIN units PROVE a < end
    OBVIOUS
  <2>0. PICK e \in Nat : e = end /\ e = Place(NFACTOR) + Size(NFACTOR)
    BY <1>20
  <2>1. CASE a < data
    BY <1>4, <1>5, <2>0, <2>1
  <2>2. CASE \E k \in 1..NFACTOR : Within(a, k)
    <3>1. PICK k \in 1..NFACTOR : Within(a, k)
      BY <2>2
    <3>2. k = NFACTOR \/ k < NFACTOR
      BY <1>5
    <3>3. k < NFACTOR => Place(k) + Size(k) <= Place(NFACTOR)
      BY <1>5
    <3>4. a < Place(k) + Size(k) /\ a \in Nat
      BY <1>4, <3>1 DEF Within
    <3>5. Place(k) \in Nat /\ Size(k) \in Nat /\ Place(NFACTOR) \in Nat /\ Size(NFACTOR) \in Nat
      BY <1>5
    <3> HIDE DEF end
    <3> QED
      BY <2>0, <3>2, <3>3, <3>4, <3>5
  <2> QED
    BY <1>3, <2>1, <2>2
<1> HIDE DEF end
<1>22. UnitsType' /\ Opened' /\ Segment(units', 0, data', parse_offset')
  <2>1. Opened' /\ Segment(units', 0, data', parse_offset')
    BY <1>1, <1>12, <1>19, <1>20, <1>21 DEF Opened
  <2>2. units' = [x \in DOMAIN units' |-> units'[x]]
    BY <1>9, <1>12 DEF new
  <2>3. units' \in [DOMAIN units' -> [next : Nat, prev : Nat \cup {UNSET}]]
    BY <1>12, <1>14, <2>2
  <2>4. data' \in Nat /\ parse_offset' \in Nat /\ data_length' \in Nat
    BY <1>1, <1>4, <1>5, <1>6, <1>20
  <2> QED
    BY <1>1, <1>16, <2>1, <2>3, <2>4 DEF UnitsType
<1> QED
  BY <1>1, <1>22, OpenAgain

Power == [k \in 0..17 |-> 2^k]

LEMMA PowerTable ==
  /\ 2^0 = 1 /\ 2^1 = 2 /\ 2^2 = 4 /\ 2^3 = 8 /\ 2^4 = 16 /\ 2^5 = 32 /\ 2^6 = 64 /\ 2^7 = 128
  /\ 2^8 = 256 /\ 2^9 = 512 /\ 2^10 = 1024 /\ 2^11 = 2048 /\ 2^12 = 4096 /\ 2^13 = 8192
  /\ 2^14 = 16384 /\ 2^15 = 32768 /\ 2^16 = 65536 /\ 2^17 = 131072
BY SMT

LEMMA PowerValues ==
  /\ Power[0] = 1 /\ Power[1] = 2 /\ Power[2] = 4 /\ Power[3] = 8 /\ Power[4] = 16 /\ Power[5] = 32
  /\ Power[6] = 64 /\ Power[7] = 128 /\ Power[8] = 256 /\ Power[9] = 512 /\ Power[10] = 1024
  /\ Power[11] = 2048 /\ Power[12] = 4096 /\ Power[13] = 8192 /\ Power[14] = 16384
  /\ Power[15] = 32768 /\ Power[16] = 65536 /\ Power[17] = 131072
BY PowerTable DEF Power

LEMMA PowerSteps ==
  /\ Power[0] = 1
  /\ \A k \in 0..17 : Power[k] \in Nat \ {0} /\ 2^k = Power[k]
  /\ \A k \in 0..16 : Power[k+1] = 2 * Power[k]
<1>1. \A k \in 0..17 : Power[k] \in Nat \ {0}
  BY PowerValues
<1>2. \A k \in 0..16 : Power[k+1] = 2 * Power[k]
  BY PowerValues
<1> QED
  BY <1>1, <1>2, PowerValues DEF Power

LEMMA Logarithm ==
  ASSUME NEW y \in Nat, 1 <= y, y < Power[16]
  PROVE  \E k \in 0..16 : Power[k] <= y /\ y < 2 * Power[k]
<1> DEFINE T == {k \in 0..16 : y < 2 * Power[k]}
<1>1. 16 \in T /\ T \subseteq Nat
  BY PowerSteps
<1>2. PICK k \in T : \A m \in T : k <= m
  BY <1>1, LeastNumber
<1>3. k \in 0..16 /\ y < 2 * Power[k] /\ Power[k] \in Nat
  BY <1>2, PowerSteps
<1>4. CASE k = 0
  BY <1>3, <1>4, PowerSteps
<1>5. CASE k # 0
  <2>1. k - 1 \in 0..16 /\ k - 1 \notin T /\ (k - 1) + 1 = k
    BY <1>2, <1>3, <1>5
  <2>2. Power[k] = 2 * Power[k - 1] /\ Power[k-1] \in Nat
    BY <2>1, PowerSteps
  <2>3. y >= 2 * Power[k-1]
    BY <2>1, <2>2
  <2> QED
    BY <1>3, <2>2, <2>3
<1> QED
  BY <1>4, <1>5

\* The word of x: how long it is, and its bits.
LEMMA Words ==
  ASSUME NEW x \in Codable
  PROVE  \E k \in 0..15 :
           /\ k = ilog2(x + 1) /\ Power[k] <= x + 1 /\ x + 1 < 2 * Power[k]
           /\ encode_uint(x) = [j \in 1..(2 * k + 1) |->
                 IF j = 2 * k + 1 THEN 1
                 ELSE IF j % 2 = 1 THEN 0 ELSE ((x + 1) \div Power[k - j \div 2]) % 2]
<1> DEFINE y == x + 1
<1>0. x \in Nat /\ y \in Nat /\ 1 <= y /\ y < Power[16] /\ x < 2^16
  BY PowerValues, PowerTable, SMT DEF Codable
<1>1. PICK k \in 0..16 : Power[k] <= y /\ y < 2 * Power[k]
  BY <1>0, Logarithm
<1>2. k \in 0..15
  <2>1. k = 16 \/ k \in 0..15
    OBVIOUS
  <2>2. k # 16
    BY <1>0, <1>1, PowerSteps
  <2> QED
    BY <2>1, <2>2
<1>3. x % 2^16 = x
  BY <1>0, PowerTable, SMT
<1>4. \A i \in 0..16 : Power[i] <= y /\ y < 2 * Power[i] => i = k
  <2>1. \A a, b \in 0..16 : a < b => 2 * Power[a] <= Power[b]
    BY PowerValues, SMT
  <2> QED
    BY <1>0, <1>1, <2>1, PowerSteps
<1>5. ilog2(y) = k
  <2>1. \A i \in 0..16 : 2^i = Power[i]
    <3>1. \A i \in 0..16 : i \in 0..17
      OBVIOUS
    <3> QED
      BY <3>1, PowerSteps, Zenon
  <2>2. ilog2(y) = CHOOSE i \in 0..16 : Power[i] <= y /\ y < 2 * Power[i]
    BY <2>1, Zenon DEF ilog2
  <2> QED
    BY <1>1, <1>4, <2>2
<1>6. (x % 2^16) + 1 = y
  BY <1>3
<1> HIDE DEF y
<1>7. encode_uint(x) = [j \in 1..(2 * k + 1) |->
                 IF j = 2 * k + 1 THEN 1
                 ELSE IF j % 2 = 1 THEN 0 ELSE (y \div 2^(k - j \div 2)) % 2]
  BY <1>5, <1>6, Zenon DEF encode_uint
<1>8. ASSUME NEW j \in 1..(2 * k + 1) PROVE 2^(k - j \div 2) = Power[k - j \div 2]
  <2>1. k - j \div 2 \in 0..17
    BY <1>2
  <2> QED
    BY <2>1, PowerSteps, Zenon
<1>9. encode_uint(x) = [j \in 1..(2 * k + 1) |->
                 IF j = 2 * k + 1 THEN 1
                 ELSE IF j % 2 = 1 THEN 0 ELSE (y \div Power[k - j \div 2]) % 2]
  BY <1>7, <1>8, Zenon
<1> QED
  BY <1>1, <1>2, <1>5, <1>9, Zenon DEF y

LEMMA TupleType ==
  ASSUME NEW S, NEW n \in Nat, NEW s, DOMAIN s = 1..n, s = [i \in 1..n |-> s[i]],
         \A i \in 1..n : s[i] \in S
  PROVE  s \in Seq(S) /\ Len(s) = n
<1>1. s \in [1..n -> S]
  OBVIOUS
<1>2. s \in Seq(S)
  BY <1>1, SeqDef
<1> QED
  BY <1>1, <1>2, LenProperties

LEMMA LenOf ==
  ASSUME NEW S, NEW s \in Seq(S), NEW n \in Nat, DOMAIN s = 1..n
  PROVE  Len(s) = n
BY LenProperties

(* FlattenSeq, as it is computed: after i words the first i are put together. *)
IsFlat(g, ws) ==
  /\ DOMAIN g = 0..Len(ws) /\ g[0] = <<>>
  /\ \A i \in 1..Len(ws) : g[i] = g[i-1] \o ws[i]

Flat(ws) == CHOOSE g : IsFlat(g, ws) /\ g = [i \in 0..Len(ws) |-> g[i]]

Puts(g, ws, m) == g[0] = <<>> /\ \A i \in 1..m : g[i] = g[i-1] \o ws[i]

LEMMA FlatExists ==
  ASSUME NEW B, NEW ws \in Seq(Seq(B))
  PROVE  \E g \in [0..Len(ws) -> Seq(B)] : IsFlat(g, ws)
<1> DEFINE n == Len(ws)
           G == {m \in Nat : m <= n => \E g \in [0..m -> Seq(B)] : Puts(g, ws, m)}
<1>0. n \in Nat /\ \A i \in 1..n : ws[i] \in Seq(B)
  BY ElementOfSeq, LenProperties
<1> HIDE DEF n
<1>1. 0 \in G
  <2>0. <<>> \in Seq(B)
    BY EmptySeq
  <2>1. [i \in 0..0 |-> <<>>] \in [0..0 -> Seq(B)] /\ Puts([i \in 0..0 |-> <<>>], ws, 0)
    BY <2>0 DEF Puts
  <2> QED
    BY <2>1
<1>2. ASSUME NEW m \in Nat, m \in G PROVE m + 1 \in G
  <2> SUFFICES ASSUME m + 1 <= n
               PROVE  \E g \in [0..m+1 -> Seq(B)] : Puts(g, ws, m+1)
    OBVIOUS
  <2>0. PICK g \in [0..m -> Seq(B)] : Puts(g, ws, m)
    <3>1. m <= n
      BY <1>0
    <3> QED
      BY <1>2, <3>1, Zenon
  <2>1. g[0] = <<>> /\ \A i \in 1..m : g[i] = g[i-1] \o ws[i]
    BY <2>0 DEF Puts
  <2> DEFINE w == g[m] \o ws[m+1]
             h == [i \in 0..m+1 |-> IF i = m + 1 THEN w ELSE g[i]]
  <2>2. w \in Seq(B)
    <3>1. g[m] \in Seq(B) /\ ws[m+1] \in Seq(B)
      BY <1>0
    <3> QED
      BY <3>1, ConcatProperties
  <2>3. h \in [0..m+1 -> Seq(B)]
    <3> HIDE DEF w
    <3> QED
      BY <2>2
  <2>4. h[0] = <<>>
    BY <2>1
  <2>5. \A i \in 1..m+1 : h[i] = h[i-1] \o ws[i]
    <3> SUFFICES ASSUME NEW i \in 1..m+1 PROVE h[i] = h[i-1] \o ws[i]
      OBVIOUS
    <3>1. i-1 \in 0..m+1 /\ i-1 # m+1 /\ i \in 0..m+1 /\ i-1 \in 0..m
      OBVIOUS
    <3>2. h[i-1] = g[i-1]
      BY <3>1
    <3>3. CASE i = m+1
      <4>1. i - 1 = m
        BY <3>3
      <4> QED
        BY <3>1, <3>2, <3>3, <4>1
    <3>4. CASE i # m+1
      <4>1. i \in 1..m /\ h[i] = g[i]
        BY <3>1, <3>4
      <4> QED
        BY <2>1, <3>2, <4>1
    <3> QED
      BY <3>3, <3>4
  <2> HIDE DEF h
  <2> QED
    BY <2>3, <2>4, <2>5 DEF Puts
<1>3. Nat \subseteq G
  <2> HIDE DEF G
  <2> QED
    BY <1>1, <1>2, AllNumbers
<1>4. n \in G
  BY <1>0, <1>3
<1>5. PICK g \in [0..n -> Seq(B)] : Puts(g, ws, n)
  BY <1>4
<1>6. IsFlat(g, ws)
  BY <1>5 DEF IsFlat, Puts, n
<1> QED
  BY <1>5, <1>6 DEF n

LEMMA FlatFunction ==
  ASSUME NEW B, NEW ws \in Seq(Seq(B))
  PROVE  Flat(ws) \in [0..Len(ws) -> Seq(B)] /\ IsFlat(Flat(ws), ws)
<1>0. Len(ws) \in Nat /\ \A i \in 1..Len(ws) : ws[i] \in Seq(B)
  BY ElementOfSeq, LenProperties
<1>1. PICK g \in [0..Len(ws) -> Seq(B)] : IsFlat(g, ws)
  BY FlatExists
<1> DEFINE f == Flat(ws)
<1>2. IsFlat(f, ws) /\ f = [i \in 0..Len(ws) |-> f[i]]
  <2>1. g = [i \in 0..Len(ws) |-> g[i]]
    OBVIOUS
  <2> QED
    BY <1>1, <2>1, Zenon DEF Flat
<1> HIDE DEF f
<1> DEFINE G == {m \in Nat : m <= Len(ws) => f[m] \in Seq(B)}
<1>3. 0 \in G
  BY <1>2, EmptySeq DEF IsFlat
<1>4. ASSUME NEW m \in Nat, m \in G PROVE m + 1 \in G
  <2> SUFFICES ASSUME m + 1 <= Len(ws) PROVE f[m+1] \in Seq(B)
    OBVIOUS
  <2>1. m + 1 \in 1..Len(ws) /\ (m+1)-1 = m /\ f[m] \in Seq(B)
    BY <1>0, <1>4
  <2>2. f[m+1] = f[m] \o ws[m+1] /\ ws[m+1] \in Seq(B)
    BY <1>0, <1>2, <2>1 DEF IsFlat
  <2> QED
    BY <2>1, <2>2, ConcatProperties
<1>5. Nat \subseteq G
  <2> HIDE DEF G
  <2> QED
    BY <1>3, <1>4, AllNumbers
<1>6. \A m \in 0..Len(ws) : f[m] \in Seq(B)
  BY <1>0, <1>5
<1> QED
  BY <1>2, <1>6 DEF f

\* A function that builds up in the same way is that one.
LEMMA FlatUnique ==
  ASSUME NEW B, NEW ws \in Seq(Seq(B)), NEW g, IsFlat(g, ws), NEW h, IsFlat(h, ws)
  PROVE  \A m \in 0..Len(ws) : g[m] = h[m]
<1>0. Len(ws) \in Nat
  BY LenProperties
<1> DEFINE G == {m \in Nat : m <= Len(ws) => g[m] = h[m]}
<1>1. 0 \in G
  BY DEF IsFlat
<1>2. ASSUME NEW m \in Nat, m \in G PROVE m + 1 \in G
  <2> SUFFICES ASSUME m + 1 <= Len(ws) PROVE g[m+1] = h[m+1]
    OBVIOUS
  <2>1. m + 1 \in 1..Len(ws) /\ (m+1)-1 = m /\ g[m] = h[m]
    BY <1>0, <1>2
  <2>2. g[m+1] = g[m] \o ws[m+1] /\ h[m+1] = h[m] \o ws[m+1]
    BY <2>1 DEF IsFlat
  <2> QED
    BY <2>1, <2>2
<1>3. Nat \subseteq G
  <2> HIDE DEF G
  <2> QED
    BY <1>1, <1>2, AllNumbers
<1> QED
  BY <1>0, <1>3

LEMMA FlatIs ==
  ASSUME NEW B, NEW ws \in Seq(Seq(B))
  PROVE  FlattenSeq(ws) = Flat(ws)[Len(ws)] /\ FlattenSeq(ws) \in Seq(B)
<1> DEFINE n == Len(ws)
           g == Flat(ws)
<1>0. n \in Nat /\ \A i \in 1..n : ws[i] \in Seq(B)
  BY ElementOfSeq, LenProperties
<1>1. g \in [0..n -> Seq(B)] /\ IsFlat(g, ws)
  BY FlatFunction
<1> HIDE DEF g
<1>2. CASE n = 0
  <2>1. ws = <<>>
    BY <1>2, EmptySeq
  <2>2. FlattenSeq(ws) = ws
    BY <1>2, Zenon DEF FlattenSeq
  <2> QED
    BY <1>1, <1>2, <2>1, <2>2 DEF IsFlat, g
<1>3. CASE n # 0
  <2> DEFINE Is(f) == f = [i \in 1..n |-> IF i = 1 THEN ws[i] ELSE f[i-1] \o ws[i]]
             f == CHOOSE f : Is(f)
  <2>1. Is([i \in 1..n |-> g[i]])
    <3> DEFINE r == [i \in 1..n |-> g[i]]
    <3>1. \A i \in 1..n : r[i] = IF i = 1 THEN ws[i] ELSE r[i-1] \o ws[i]
      <4> SUFFICES ASSUME NEW i \in 1..n PROVE r[i] = IF i = 1 THEN ws[i] ELSE r[i-1] \o ws[i]
        OBVIOUS
      <4>1. g[i] = g[i-1] \o ws[i] /\ ws[i] \in Seq(B) /\ g[0] = <<>>
        BY <1>0, <1>1 DEF IsFlat
      <4>2. CASE i = 1
        <5>1. g[i-1] = <<>>
          BY <4>1, <4>2
        <5> QED
          BY <4>1, <4>2, <5>1, ConcatEmptySeq
      <4>3. CASE i # 1
        <5>1. i - 1 \in 1..n
          BY <1>0, <4>3
        <5> QED
          BY <4>1, <4>3, <5>1
      <4> QED
        BY <4>2, <4>3
    <3>2. DOMAIN r = 1..n
      OBVIOUS
    <3> QED
      BY <3>1
  <2>2. Is(f)
    BY <2>1, Zenon
  <2>3. FlattenSeq(ws) = f[n]
    BY <1>3, Zenon DEF FlattenSeq
  <2> HIDE DEF f
  <2> DEFINE h == [i \in 0..n |-> IF i = 0 THEN <<>> ELSE f[i]]
  <2>4. IsFlat(h, ws)
    <3>1. DOMAIN h = 0..Len(ws) /\ h[0] = <<>>
      BY <1>0
    <3>2. \A i \in 1..Len(ws) : h[i] = h[i-1] \o ws[i]
      <4> SUFFICES ASSUME NEW i \in 1..n PROVE h[i] = h[i-1] \o ws[i]
        OBVIOUS
      <4>1. f[i] = IF i = 1 THEN ws[i] ELSE f[i-1] \o ws[i]
        BY <2>2
      <4>2. i \in 0..n /\ i - 1 \in 0..n /\ i # 0
        BY <1>0
      <4>3. CASE i = 1
        <5>1. h[i-1] = <<>>
          BY <4>2, <4>3
        <5>2. <<>> \o ws[i] = ws[i]
          BY <1>0, ConcatEmptySeq
        <5> QED
          BY <4>1, <4>2, <4>3, <5>1, <5>2
      <4>4. CASE i # 1
        <5>1. i - 1 # 0 /\ h[i-1] = f[i-1]
          BY <4>2, <4>4
        <5> QED
          BY <4>1, <4>2, <4>4, <5>1
      <4> QED
        BY <4>3, <4>4
    <3> QED
      BY <3>1, <3>2 DEF IsFlat
  <2>5. h[n] = g[n]
    <3>1. n \in 0..n
      BY <1>0
    <3> HIDE DEF h
    <3>2. \A m \in 0..Len(ws) : h[m] = g[m]
      BY <1>1, <2>4, FlatUnique
    <3> QED
      BY <3>1, <3>2
  <2>6. h[n] = f[n]
    BY <1>0, <1>3
  <2>7. FlattenSeq(ws) = g[n] /\ g[n] \in Seq(B)
    BY <1>0, <1>1, <2>3, <2>5, <2>6
  <2> QED
    BY <2>7 DEF g
<1> QED
  BY <1>2, <1>3

LEMMA FlatEmpty ==
  FlattenSeq(<<>>) = <<>>
BY DEF FlattenSeq

\* The first word, and then the others.
LEMMA FlatHead ==
  ASSUME NEW B, NEW ws \in Seq(Seq(B)), ws # <<>>
  PROVE  /\ Head(ws) \in Seq(B) /\ Tail(ws) \in Seq(Seq(B)) /\ FlattenSeq(Tail(ws)) \in Seq(B)
         /\ FlattenSeq(ws) = Head(ws) \o FlattenSeq(Tail(ws))
<1> DEFINE n == Len(ws)
           t == Tail(ws)
           a == Head(ws)
           g == Flat(ws)
           h == Flat(t)
<1>1. /\ n \in Nat \ {0} /\ a \in Seq(B) /\ t \in Seq(Seq(B)) /\ Len(t) = n - 1
      /\ \A i \in 1..n-1 : t[i] = ws[i+1] /\ t[i] \in Seq(B)
      /\ ws[1] = a
  <2>1. a \in Seq(B) /\ t \in Seq(Seq(B)) /\ Len(t) = n - 1 /\ \A i \in 1..Len(t) : t[i] = ws[i+1]
    BY HeadTailProperties
  <2>2. n \in Nat \ {0}
    BY EmptySeq
  <2>3. \A i \in 1..Len(t) : t[i] \in Seq(B)
    BY <2>1, ElementOfSeq
  <2> QED
    BY <2>1, <2>2, <2>3
<1>2. /\ IsFlat(g, ws) /\ g \in [0..n -> Seq(B)] /\ IsFlat(h, t) /\ h \in [0..n-1 -> Seq(B)]
  BY <1>1, FlatFunction
<1>3. FlattenSeq(ws) = g[n] /\ FlattenSeq(t) = h[n-1] /\ FlattenSeq(t) \in Seq(B)
  BY <1>1, FlatIs
<1> HIDE DEF g, h
<1>8. /\ g[0] = <<>> /\ h[0] = <<>>
      /\ \A i \in 1..n : g[i] = g[i-1] \o ws[i]
      /\ \A i \in 1..n-1 : h[i] = h[i-1] \o t[i]
  BY <1>1, <1>2 DEF IsFlat
<1> HIDE DEF n, t, a
<1> DEFINE G == {m \in Nat : m <= n - 1 => g[m+1] = a \o h[m]}
<1>4. 0 \in G
  <2>1. 1 \in 1..n /\ 1 - 1 = 0
    BY <1>1
  <2>2. g[1] = <<>> \o a
    BY <1>1, <1>8, <2>1
  <2>3. a \o <<>> = a /\ <<>> \o a = a
    BY <1>1, ConcatEmptySeq
  <2>4. g[0+1] = a \o h[0]
    BY <1>8, <2>2, <2>3
  <2> QED
    BY <2>4
<1>5. ASSUME NEW m \in Nat, m \in G PROVE m + 1 \in G
  <2> SUFFICES ASSUME m + 1 <= n - 1 PROVE g[(m+1)+1] = a \o h[m+1]
    OBVIOUS
  <2>1. PICK i \in 1..n-1 : i = m+1 /\ i-1 = m /\ i+1 \in 1..n /\ (i+1)-1 = i /\ m \in 0..n-1
    BY <1>1
  <2>2. g[i+1] = g[i] \o ws[i+1] /\ h[i] = h[m] \o t[i]
    BY <1>8, <2>1
  <2>3. g[i] = a \o h[m]
    BY <1>5, <2>1
  <2>4. ws[i+1] = t[i] /\ t[i] \in Seq(B) /\ h[m] \in Seq(B) /\ a \in Seq(B)
    BY <1>1, <1>2, <2>1
  <2>5. (a \o h[m]) \o t[i] = a \o (h[m] \o t[i])
    <3>1. PICK x \in Seq(B), y \in Seq(B), z \in Seq(B) : x = a /\ y = h[m] /\ z = t[i]
      BY <2>4, Zenon
    <3>2. (x \o y) \o z = x \o (y \o z)
      BY SMT
    <3> QED
      BY <3>1, <3>2, Zenon
  <2> QED
    BY <2>1, <2>2, <2>3, <2>4, <2>5
<1>6. Nat \subseteq G
  <2> HIDE DEF G
  <2> QED
    BY <1>4, <1>5, AllNumbers
<1>7. n-1 \in G /\ (n-1)+1 = n
  BY <1>1, <1>6
<1>9. FlattenSeq(ws) = a \o FlattenSeq(t)
  BY <1>1, <1>3, <1>7
<1> QED
  BY <1>1, <1>3, <1>9 DEF t, a

LEMMA FlatConcat ==
  ASSUME NEW B, NEW a \in Seq(Seq(B)), NEW b \in Seq(Seq(B))
  PROVE  FlattenSeq(a \o b) = FlattenSeq(a) \o FlattenSeq(b)
<1> DEFINE G == {m \in Nat : \A s \in Seq(Seq(B)) : Len(s) = m =>
                    FlattenSeq(s \o b) = FlattenSeq(s) \o FlattenSeq(b)}
<1>0. FlattenSeq(b) \in Seq(B)
  BY FlatIs
<1>1. 0 \in G
  <2> SUFFICES ASSUME NEW s \in Seq(Seq(B)), Len(s) = 0
               PROVE  FlattenSeq(s \o b) = FlattenSeq(s) \o FlattenSeq(b)
    OBVIOUS
  <2>1. s = <<>>
    BY EmptySeq
  <2>2. s \o b = b
    BY <2>1, ConcatEmptySeq
  <2>3. FlattenSeq(s) = <<>>
    BY <2>1, FlatEmpty
  <2>4. <<>> \o FlattenSeq(b) = FlattenSeq(b)
    BY <1>0, ConcatEmptySeq
  <2> QED
    BY <2>2, <2>3, <2>4, Zenon
<1>2. ASSUME NEW m \in Nat, m \in G PROVE m + 1 \in G
  <2> SUFFICES ASSUME NEW s \in Seq(Seq(B)), Len(s) = m + 1
               PROVE  FlattenSeq(s \o b) = FlattenSeq(s) \o FlattenSeq(b)
    OBVIOUS
  <2>1. s # <<>> /\ Len(Tail(s)) = m /\ Tail(s) \in Seq(Seq(B)) /\ Head(s) \in Seq(B)
    <3>1. s # <<>>
      BY EmptySeq
    <3> QED
      BY <3>1, HeadTailProperties
  <2>2. s \o b # <<>> /\ s \o b \in Seq(Seq(B)) /\ Head(s \o b) = Head(s) /\ Tail(s \o b) = Tail(s) \o b
    BY <2>1
  <2>3. FlattenSeq(s \o b) = Head(s) \o FlattenSeq(Tail(s) \o b)
    BY <2>2, FlatHead
  <2>4. FlattenSeq(Tail(s) \o b) = FlattenSeq(Tail(s)) \o FlattenSeq(b)
    BY <1>2, <2>1
  <2>5. FlattenSeq(s) = Head(s) \o FlattenSeq(Tail(s))
    BY <2>1, FlatHead
  <2>6. PICK x \in Seq(B), y \in Seq(B), z \in Seq(B) :
           x = Head(s) /\ y = FlattenSeq(Tail(s)) /\ z = FlattenSeq(b)
    BY <1>0, <2>1, FlatIs
  <2>7. x \o (y \o z) = (x \o y) \o z
    BY SMT
  <2> QED
    BY <2>3, <2>4, <2>5, <2>6, <2>7, Zenon
<1>3. Nat \subseteq G
  <2> HIDE DEF G
  <2> QED
    BY <1>1, <1>2, AllNumbers
<1>4. Len(a) \in G
  BY <1>3, LenProperties
<1> QED
  BY <1>4

LEMMA FlatOne ==
  ASSUME NEW B, NEW w \in Seq(B)
  PROVE  <<w>> \in Seq(Seq(B)) /\ FlattenSeq(<<w>>) = w
<1>1. <<w>> \in Seq(Seq(B)) /\ <<w>> # <<>> /\ Head(<<w>>) = w /\ Tail(<<w>>) = <<>>
  OBVIOUS
<1>2. FlattenSeq(<<w>>) = w \o <<>>
  BY <1>1, FlatHead, FlatEmpty
<1> QED
  BY <1>1, <1>2, ConcatEmptySeq

LEMMA WordType ==
  ASSUME NEW x \in Codable
  PROVE  encode_uint(x) \in Seq(Bits)
<1>1. PICK k \in 0..15 :
        encode_uint(x) = [j \in 1..(2 * k + 1) |->
                 IF j = 2 * k + 1 THEN 1
                 ELSE IF j % 2 = 1 THEN 0 ELSE ((x + 1) \div Power[k - j \div 2]) % 2]
  BY Words
<1>2. ASSUME NEW j \in 1..(2 * k + 1)
      PROVE  encode_uint(x)[j] \in Bits
  <2>1. encode_uint(x)[j] = IF j = 2 * k + 1 THEN 1
                 ELSE IF j % 2 = 1 THEN 0 ELSE ((x + 1) \div Power[k - j \div 2]) % 2
    BY <1>1
  <2>2. Power[k - j \div 2] \in Nat \ {0}
    <3>1. k - j \div 2 \in 0..17
      OBVIOUS
    <3> QED
      BY <3>1, PowerSteps
  <2>3. PICK p \in Nat \ {0} : p = Power[k - j \div 2]
    BY <2>2
  <2>4. ((x + 1) \div p) % 2 \in Bits
    <3>1. (x + 1) \div p \in Int
      BY SMT DEF Codable
    <3> QED
      BY <3>1 DEF Bits
  <2> QED
    BY <2>1, <2>3, <2>4 DEF Bits
<1>3. DOMAIN encode_uint(x) = 1..(2 * k + 1) /\ encode_uint(x) = [j \in 1..(2*k+1) |-> encode_uint(x)[j]]
  BY <1>1
<1>4. 2 * k + 1 \in Nat
  OBVIOUS
<1> DEFINE w == encode_uint(x)
           n == 2 * k + 1
<1>5. DOMAIN w = 1..n /\ w = [j \in 1..n |-> w[j]] /\ \A j \in 1..n : w[j] \in Bits
  BY <1>2, <1>3
<1> HIDE DEF w, n
<1>6. n \in Nat
  BY <1>4 DEF n
<1>7. w \in Seq(Bits)
  BY <1>5, <1>6, TupleType
<1> QED
  BY <1>7 DEF w

LEMMA FlagType ==
  \A b : encode_bool(b) \in Seq(Bits) /\ Len(encode_bool(b)) = 1
<1>1. <<1>> \in Seq(Bits) /\ <<0>> \in Seq(Bits) /\ Len(<<1>>) = 1 /\ Len(<<0>>) = 1
  BY DEF Bits
<1> QED
  BY <1>1, Zenon DEF encode_bool

LEMMA UintsType ==
  ASSUME NEW values \in Seq(Codable)
  PROVE  /\ Uints(values) \in Seq(Seq(Bits)) /\ Len(Uints(values)) = Len(values)
         /\ \A i \in 1..Len(values) : Uints(values)[i] = encode_uint(values[i])
<1>1. DOMAIN values = 1..Len(values) /\ Len(values) \in Nat /\ \A i \in 1..Len(values) : values[i] \in Codable
  BY LenProperties, ElementOfSeq
<1>2. Uints(values) = [i \in 1..Len(values) |-> encode_uint(values[i])]
  BY <1>1 DEF Uints
<1>3. \A i \in 1..Len(values) : encode_uint(values[i]) \in Seq(Bits)
  BY <1>1, WordType
<1>4. \A i \in 1..Len(values) : Uints(values)[i] = encode_uint(values[i]) /\ Uints(values)[i] \in Seq(Bits)
  BY <1>2, <1>3
<1>5. DOMAIN Uints(values) = 1..Len(values) /\ Uints(values) = [i \in 1..Len(values) |-> Uints(values)[i]]
  BY <1>2
<1> QED
  BY <1>1, <1>4, <1>5, TupleType

LEMMA OptionalType ==
  ASSUME NEW flag \in BOOLEAN, NEW ws \in Seq(Seq(Bits))
  PROVE  Optional(flag, ws) \in Seq(Seq(Bits))
<1>1. <<encode_bool(TRUE)>> \in Seq(Seq(Bits)) /\ <<encode_bool(FALSE)>> \in Seq(Seq(Bits))
  BY FlagType, FlatOne
<1>2. <<encode_bool(TRUE)>> \o ws \in Seq(Seq(Bits))
  BY <1>1, ConcatProperties
<1> QED
  BY <1>1, <1>2, Zenon DEF Optional

\* What the assumption says of one group.
LEMMA FormatType ==
  ASSUME NEW f \in Formats, NEW g \in 1..8
  PROVE  /\ f[g].flag \in BOOLEAN /\ f[g].values \in Seq(Codable) /\ Len(f[g].values) = Groups[g]
         /\ g \in {FrameRate, PixelAspectRatio} => f[g].ratio \in Seq(Codable) /\ Len(f[g].ratio) = 2
         /\ g = ColorSpec =>
             /\ f[g].parts \in Seq([flag : BOOLEAN, values : Seq(Codable)]) /\ Len(f[g].parts) = 3
             /\ \A i \in 1..3 : Len(f[g].parts[i].values) = 1
BY SequenceHeaderAssumption, Zenon

LEMMA RatioType ==
  ASSUME NEW f \in Formats, NEW g \in {FrameRate, PixelAspectRatio}
  PROVE  RatioOf(f, g) \in Seq(Seq(Bits))
<1>1. g \in 1..8
  BY DEF FrameRate, PixelAspectRatio
<1>2. Uints(f[g].ratio) \in Seq(Seq(Bits))
  BY <1>1, FormatType, UintsType, Zenon
<1>3. <<>> \in Seq(Seq(Bits))
  OBVIOUS
<1> QED
  BY <1>2, <1>3, Zenon DEF RatioOf

\* The parts of the colour specification, each with its flag.
PartWords(f) == [i \in 1..3 |-> Optional(f[ColorSpec].parts[i].flag, Uints(f[ColorSpec].parts[i].values))]

LEMMA PartsType ==
  ASSUME NEW f \in Formats
  PROVE  /\ PartWords(f) \in Seq(Seq(Seq(Bits))) /\ Len(PartWords(f)) = 3
         /\ PartsOf(f) = (IF f[ColorSpec].values[1] # 0 THEN <<>> ELSE FlattenSeq(PartWords(f)))
         /\ PartsOf(f) \in Seq(Seq(Bits))
         /\ \A i \in 1..3 : /\ f[ColorSpec].parts[i].flag \in BOOLEAN
                            /\ f[ColorSpec].parts[i].values \in Seq(Codable)
                            /\ Len(f[ColorSpec].parts[i].values) = 1
<1> DEFINE parts == f[ColorSpec].parts
<1>1. /\ parts \in Seq([flag : BOOLEAN, values : Seq(Codable)]) /\ Len(parts) = 3
      /\ \A i \in 1..3 : Len(parts[i].values) = 1
  <2>1. ColorSpec \in 1..8
    BY DEF ColorSpec
  <2> QED
    BY <2>1, FormatType, Zenon
<1> HIDE DEF parts
<1>2. \A i \in 1..3 : parts[i].flag \in BOOLEAN /\ parts[i].values \in Seq(Codable)
  <2>1. \A i \in 1..3 : parts[i] \in [flag : BOOLEAN, values : Seq(Codable)]
    BY <1>1, ElementOfSeq
  <2> QED
    BY <2>1
<1> DEFINE W == PartWords(f)
<1>3. W = [i \in 1..3 |-> Optional(parts[i].flag, Uints(parts[i].values))]
  BY DEF PartWords, parts
<1>4. \A i \in 1..3 : Optional(parts[i].flag, Uints(parts[i].values)) \in Seq(Seq(Bits))
  BY <1>2, OptionalType, UintsType
<1> HIDE DEF W
<1>5. W \in Seq(Seq(Seq(Bits))) /\ Len(W) = 3
  <2>1. DOMAIN W = 1..3 /\ W = [i \in 1..3 |-> W[i]] /\ \A i \in 1..3 : W[i] \in Seq(Seq(Bits))
    BY <1>3, <1>4
  <2>2. 3 \in Nat
    OBVIOUS
  <2> QED
    BY ONLY <2>1, <2>2, TupleType
<1>6. FlattenSeq(W) \in Seq(Seq(Bits))
  BY <1>5, FlatIs
<1>7. PartsOf(f) = (IF f[ColorSpec].values[1] # 0 THEN <<>> ELSE FlattenSeq(PartWords(f)))
  BY Zenon DEF PartsOf, PartWords
<1>8. <<>> \in Seq(Seq(Bits))
  OBVIOUS
<1>9. PartsOf(f) \in Seq(Seq(Bits))
  BY <1>6, <1>7, <1>8, Zenon DEF W
<1> QED
  BY <1>1, <1>2, <1>5, <1>7, <1>9, Zenon DEF W, parts

\* What follows the values of a group.
Rest(f, g) == CASE g \in {FrameRate, PixelAspectRatio} -> RatioOf(f, g)
                [] g = ColorSpec -> PartsOf(f)
                [] OTHER -> <<>>

LEMMA GroupType ==
  ASSUME NEW f \in Formats, NEW g \in 1..8
  PROVE  /\ Rest(f, g) \in Seq(Seq(Bits))
         /\ SourceParameter(f, g) = Optional(f[g].flag, Uints(f[g].values) \o Rest(f, g))
         /\ SourceParameter(f, g) \in Seq(Seq(Bits))
<1>1. f[g].flag \in BOOLEAN /\ Uints(f[g].values) \in Seq(Seq(Bits))
  BY FormatType, UintsType
<1>2. Rest(f, g) \in Seq(Seq(Bits))
  <2>0. <<>> \in Seq(Seq(Bits)) /\ ColorSpec \notin {FrameRate, PixelAspectRatio}
    BY DEF ColorSpec, FrameRate, PixelAspectRatio
  <2>1. CASE g \in {FrameRate, PixelAspectRatio}
    BY <2>0, <2>1, RatioType DEF Rest
  <2>2. CASE g = ColorSpec
    BY <2>0, <2>2, PartsType DEF Rest
  <2>3. CASE g \notin {FrameRate, PixelAspectRatio} /\ g # ColorSpec
    BY <2>0, <2>3 DEF Rest
  <2> QED
    BY <2>1, <2>2, <2>3
<1>3. SourceParameter(f, g) = Optional(f[g].flag, Uints(f[g].values) \o Rest(f, g))
  BY Zenon DEF SourceParameter, Rest
<1>4. Uints(f[g].values) \o Rest(f, g) \in Seq(Seq(Bits))
  BY <1>1, <1>2, ConcatProperties
<1> QED
  BY <1>1, <1>2, <1>3, <1>4, OptionalType

GroupWords(f) == [g \in 1..8 |-> SourceParameter(f, g)]
FirstWords == <<encode_uint(version), encode_uint(0), encode_uint(3), encode_uint(level),
           encode_uint(base_video_format)>>
LastWord == <<encode_uint(picture_coding_mode)>>

LEMMA HeaderType ==
  ASSUME Chosen
  PROVE  /\ FirstWords = Uints(<<version, 0, 3, level, base_video_format>>)
         /\ <<version, 0, 3, level, base_video_format>> \in Seq(Codable)
         /\ FirstWords \in Seq(Seq(Bits))
         /\ GroupWords(video_format) \in Seq(Seq(Seq(Bits))) /\ Len(GroupWords(video_format)) = 8
         /\ FlattenSeq(GroupWords(video_format)) \in Seq(Seq(Bits))
         /\ LastWord \in Seq(Seq(Bits)) /\ picture_coding_mode \in Codable
         /\ Header = (FirstWords \o FlattenSeq(GroupWords(video_format))) \o LastWord
         /\ Header \in Seq(Seq(Bits))
<1>1. /\ version \in Codable /\ level \in Codable /\ base_video_format \in Codable
      /\ picture_coding_mode \in Codable /\ 0 \in Codable /\ 3 \in Codable
  <2>1. version \in {2, 3}
    BY Zenon DEF version
  <2> QED
    BY <2>1, SequenceHeaderAssumption DEF Chosen, Codable
<1> DEFINE v == <<version, 0, 3, level, base_video_format>>
<1>2. v \in Seq(Codable) /\ Len(v) = 5
  BY <1>1
<1>3. FirstWords = Uints(v)
  <2>1. DOMAIN v = 1..5 /\ v[1] = version /\ v[2] = 0 /\ v[3] = 3 /\ v[4] = level /\ v[5] = base_video_format
    OBVIOUS
  <2>2. Uints(v) = [i \in 1..5 |-> encode_uint(v[i])]
    BY <2>1, Zenon DEF Uints
  <2>3. FirstWords = [i \in 1..5 |-> FirstWords[i]] /\ FirstWords[1] = encode_uint(version) /\ FirstWords[2] = encode_uint(0)
        /\ FirstWords[3] = encode_uint(3) /\ FirstWords[4] = encode_uint(level) /\ FirstWords[5] = encode_uint(base_video_format)
    BY DEF FirstWords
  <2>4. \A i \in 1..5 : FirstWords[i] = encode_uint(v[i])
    BY <2>1, <2>3
  <2> HIDE DEF v
  <2> QED
    BY <2>2, <2>3, <2>4
<1> HIDE DEF v
<1>4. FirstWords \in Seq(Seq(Bits))
  BY <1>2, <1>3, UintsType
<1>5. GroupWords(video_format) \in Seq(Seq(Seq(Bits))) /\ Len(GroupWords(video_format)) = 8
  <2> DEFINE W == GroupWords(video_format)
  <2>1. DOMAIN W = 1..8 /\ W = [g \in 1..8 |-> W[g]] /\ \A g \in 1..8 : W[g] \in Seq(Seq(Bits))
    BY GroupType DEF Chosen, GroupWords
  <2>2. 8 \in Nat
    OBVIOUS
  <2> HIDE DEF W
  <2>3. W \in Seq(Seq(Seq(Bits))) /\ Len(W) = 8
    BY ONLY <2>1, <2>2, TupleType
  <2> QED
    BY <2>3 DEF W
<1>6. FlattenSeq(GroupWords(video_format)) \in Seq(Seq(Bits))
  BY <1>5, FlatIs
<1>7. LastWord \in Seq(Seq(Bits))
  <2>1. encode_uint(picture_coding_mode) \in Seq(Bits)
    BY <1>1, WordType
  <2> QED
    BY <2>1 DEF LastWord
<1>8. Header = (FirstWords \o FlattenSeq(GroupWords(video_format))) \o LastWord
  BY Zenon DEF Header, FirstWords, GroupWords, LastWord
<1>9. FirstWords \o FlattenSeq(GroupWords(video_format)) \in Seq(Seq(Bits))
  BY <1>4, <1>6, ConcatProperties
<1>10. Header \in Seq(Seq(Bits))
  BY <1>7, <1>8, <1>9, ConcatProperties
<1> QED
  BY <1>1, <1>2, <1>3, <1>4, <1>5, <1>6, <1>7, <1>8, <1>10 DEF v

LEMMA Cat ==
  \A s, t \in Seq(Bits) :
     /\ s \o t \in Seq(Bits) /\ Len(s \o t) = Len(s) + Len(t) /\ Len(s) \in Nat /\ Len(t) \in Nat
     /\ \A i \in 1..Len(s) + Len(t) : (s \o t)[i] = IF i <= Len(s) THEN s[i] ELSE t[i - Len(s)]
BY ConcatProperties, LenProperties

LEMMA SameHeader ==
  ASSUME given' = given
  PROVE  Header' = Header /\ (Chosen => Chosen')
<1>1. /\ video_format' = video_format /\ level' = level /\ base_video_format' = base_video_format
      /\ picture_coding_mode' = picture_coding_mode /\ fragmented' = fragmented
  BY DEF given
<1>2. version' = version
  BY <1>1, Zenon DEF version
<1>3. Header' = Header
  BY <1>1, <1>2, Zenon DEF Header
<1> QED
  BY <1>1, <1>3 DEF Chosen

LEMMA HeaderStart ==
  ASSUME StreamInit
  PROVE  HeaderInv
<1>1. Chosen /\ words = Header /\ accum = <<>> /\ packed = <<>> /\ phase = "pack"
      /\ l = (Len(FlattenSeq(words)) + 7) \div 8 + 13
  BY DEF StreamInit, HeaderInit, Chosen
<1>2. Header \in Seq(Seq(Bits)) /\ FlattenSeq(Header) \in Seq(Bits)
  <2>1. Header \in Seq(Seq(Bits))
    BY <1>1, HeaderType
  <2> QED
    BY <2>1, FlatIs
<1>3. (<<>> \o <<>>) \o FlattenSeq(Header) = FlattenSeq(Header) /\ <<>> \in Seq(Bits) /\ Len(<<>>) = 0
  BY <1>2
<1>4. packed \o accum \o FlattenSeq(words) = FlattenSeq(Header)
  BY <1>1, <1>3, Zenon
<1> QED
  BY <1>1, <1>2, <1>3, <1>4 DEF HeaderInv

\* The bits in whole bytes leave, one to eight stay.
LEMMA Whole ==
  ASSUME NEW acc \in Seq(Bits)
  PROVE  LET whole == 8 * Bytes(acc)
         IN  /\ whole \in Nat /\ whole <= Len(acc) /\ Len(acc) - whole <= 8
             /\ whole % 8 = 0
             /\ SubSeq(acc, 1, whole) \in Seq(Bits) /\ Len(SubSeq(acc, 1, whole)) = whole
             /\ SubSeq(acc, whole + 1, Len(acc)) \in Seq(Bits)
             /\ Len(SubSeq(acc, whole + 1, Len(acc))) = Len(acc) - whole
             /\ SubSeq(acc, 1, whole) \o SubSeq(acc, whole + 1, Len(acc)) = acc
<1> DEFINE whole == 8 * Bytes(acc)
<1>1. whole \in Nat /\ whole <= Len(acc) /\ Len(acc) - whole <= 8 /\ Len(acc) \in Nat /\ whole % 8 = 0
  <2>1. CASE acc = <<>>
    <3>1. whole = 0 /\ Len(acc) = 0
      BY <2>1 DEF Bytes
    <3> QED
      BY <3>1
  <2>2. CASE acc # <<>>
    <3>1. PICK n \in Nat \ {0} : n = Len(acc)
      BY <2>2, EmptySeq
    <3>2. whole = 8 * ((n - 1) \div 8)
      BY <2>2, <3>1 DEF Bytes
    <3>3. PICK q \in Nat : q = (n - 1) \div 8 /\ 8 * q <= n - 1 /\ n - 1 < 8 * q + 8
      BY <3>1
    <3>4. whole = 8 * q
      BY <3>2, <3>3
    <3>5. (8 * q) % 8 = 0
      BY <3>3
    <3> HIDE DEF whole
    <3> QED
      BY <3>1, <3>3, <3>4, <3>5
  <2> QED
    BY <2>1, <2>2
<1> HIDE DEF whole
<1>2. \A i \in 1..Len(acc) : acc[i] \in Bits
  BY ElementOfSeq
<1>3. SubSeq(acc, 1, whole) \in Seq(Bits) /\ Len(SubSeq(acc, 1, whole)) = whole
  <2>1. \A i \in 1..whole : acc[i] \in Bits
    BY <1>1, <1>2
  <2>2. SubSeq(acc, 1, whole) \in Seq(Bits) /\ Len(SubSeq(acc, 1, whole)) = IF 1 <= whole THEN whole-1+1 ELSE 0
    BY <1>1, <2>1, SubSeqProperties
  <2> QED
    BY <1>1, <2>2
<1>4. /\ SubSeq(acc, whole + 1, Len(acc)) \in Seq(Bits)
      /\ Len(SubSeq(acc, whole + 1, Len(acc))) = Len(acc) - whole
  <2>1. \A i \in whole + 1 .. Len(acc) : acc[i] \in Bits
    BY <1>1, <1>2
  <2>2. /\ SubSeq(acc, whole + 1, Len(acc)) \in Seq(Bits)
        /\ Len(SubSeq(acc, whole + 1, Len(acc)))
              = IF whole + 1 <= Len(acc) THEN Len(acc) - (whole + 1) + 1 ELSE 0
    BY <1>1, <2>1, SubSeqProperties
  <2> QED
    BY <1>1, <2>2
<1>5. SubSeq(acc, 1, whole) \o SubSeq(acc, whole + 1, Len(acc)) = acc
  <2>1. SubSeq(acc, 1, whole) \o SubSeq(acc, whole + 1, Len(acc)) = SubSeq(acc, 1, Len(acc))
    <3>1. PICK n \in Nat : n = Len(acc)
      BY <1>1
    <3>2. 1 \in 1..n+1 /\ whole \in (1 - 1)..n /\ n \in whole..n
      BY <1>1, <3>1
    <3> QED
      BY <3>1, <3>2, ConcatAdjacentSubSeq
  <2> QED
    BY <2>1, SubSeqFull
<1> QED
  BY <1>1, <1>3, <1>4, <1>5 DEF whole

LEMMA PackHolds ==
  ASSUME HeaderInv, Pack
  PROVE  HeaderInv'
<1> DEFINE acc == accum \o Head(words)
           whole == 8 * Bytes(acc)
           out == SubSeq(acc, 1, whole)
           stay == SubSeq(acc, whole + 1, Len(acc))
<1>1. /\ phase = "pack" /\ words # <<>> /\ packed' = packed \o out /\ accum' = stay
      /\ words' = Tail(words) /\ given' = given /\ l' = l /\ phase' = "pack"
  BY DEF Pack
<1>2. /\ words \in Seq(Seq(Bits)) /\ accum \in Seq(Bits) /\ packed \in Seq(Bits)
      /\ Len(packed) % 8 = 0 /\ l = (Len(FlattenSeq(Header)) + 7) \div 8 + 13 /\ Chosen
      /\ packed \o accum \o FlattenSeq(words) = FlattenSeq(Header)
  BY <1>1 DEF HeaderInv
<1>3. /\ Head(words) \in Seq(Bits) /\ Tail(words) \in Seq(Seq(Bits)) /\ FlattenSeq(Tail(words)) \in Seq(Bits)
      /\ FlattenSeq(words) = Head(words) \o FlattenSeq(Tail(words))
  BY <1>1, <1>2, FlatHead
<1>4. acc \in Seq(Bits)
  BY <1>2, <1>3, ConcatProperties
<1> HIDE DEF acc
<1>5. /\ whole \in Nat /\ whole <= Len(acc) /\ Len(acc) - whole <= 8 /\ whole % 8 = 0
      /\ out \in Seq(Bits) /\ Len(out) = whole /\ stay \in Seq(Bits) /\ Len(stay) = Len(acc) - whole
      /\ out \o stay = acc
  BY <1>4, Whole
<1> HIDE DEF whole, out, stay
<1>6. packed \o out \in Seq(Bits) /\ Len(packed \o out) = Len(packed) + Len(out)
  BY <1>2, <1>5, Cat
<1>7. Len(packed \o out) % 8 = 0
  <2>1. PICK a \in Nat, b \in Nat : a = Len(packed) /\ b = Len(out) /\ a % 8 = 0 /\ b % 8 = 0
    BY <1>2, <1>5, LenProperties
  <2>2. (a + b) % 8 = 0
    BY <2>1
  <2> QED
    BY <1>6, <2>1, <2>2
<1>8. (packed \o out) \o stay \o FlattenSeq(Tail(words)) = FlattenSeq(Header)
  <2>1. PICK p \in Seq(Bits), a \in Seq(Bits), h \in Seq(Bits), t \in Seq(Bits), o \in Seq(Bits), r \in Seq(Bits) :
           p = packed /\ a = accum /\ h = Head(words) /\ t = FlattenSeq(Tail(words)) /\ o = out /\ r = stay
    BY <1>2, <1>3, <1>5
  <2>2. o \o r = a \o h
    BY <1>5, <2>1 DEF acc
  <2>3. (p \o o) \o r = p \o (o \o r)
    BY SMT
  <2>6. p \o (a \o h) = (p \o a) \o h
    BY SMT
  <2>4. (p \o a) \o (h \o t) = ((p \o a) \o h) \o t
    BY SMT
  <2>5. ((p \o o) \o r) \o t = (p \o a) \o (h \o t)
    BY <2>2, <2>3, <2>4, <2>6, Zenon
  <2> QED
    BY <1>2, <1>3, <2>1, <2>5, Zenon
<1>9. Header' = Header /\ Chosen'
  BY <1>1, <1>2, SameHeader
<1>10. l' = (Len(FlattenSeq(Header')) + 7) \div 8 + 13
  BY <1>1, <1>2, <1>9, Zenon
<1>11. packed' \o accum' \o FlattenSeq(words') = FlattenSeq(Header')
  BY <1>1, <1>8, <1>9, Zenon
<1>12. /\ words' \in Seq(Seq(Bits)) /\ accum' \in Seq(Bits) /\ packed' \in Seq(Bits)
       /\ Len(packed') % 8 = 0 /\ Len(accum') <= 8
  BY <1>1, <1>3, <1>5, <1>6, <1>7
<1> QED
  BY <1>1, <1>9, <1>10, <1>11, <1>12 DEF HeaderInv

LEMMA Filled ==
  ASSUME NEW acc \in Seq(Bits), Len(acc) <= 8
  PROVE  /\ Fill(acc) \in Seq(Bits) /\ Len(Fill(acc)) = (IF Len(acc) = 0 THEN 0 ELSE 8)
         /\ \A i \in 1..Len(Fill(acc)) : Fill(acc)[i] = IF i <= Len(acc) THEN acc[i] ELSE 1
<1>1. CASE acc = <<>>
  <2>1. Fill(acc) = <<>>
    BY <1>1 DEF Fill
  <2>2. Len(<<>>) = 0 /\ <<>> \in Seq(Bits) /\ 1..0 = {}
    OBVIOUS
  <2>3. Len(acc) = 0
    BY <1>1, <2>2
  <2> QED
    BY <2>1, <2>2, <2>3, Zenon
<1>2. CASE acc # <<>>
  <2> DEFINE ones == [i \in 1..(8 - Len(acc)) |-> 1]
  <2>1. Fill(acc) = acc \o ones
    BY <1>2, Zenon DEF Fill
  <2>2. Len(acc) \in Nat \ {0}
    BY <1>2, EmptySeq
  <2>9. PICK a \in 1..8 : a = Len(acc)
    <3>1. \E a \in 1..8 : a = Len(acc)
      <4>1. \A m \in Nat : m <= 8 /\ m # 0 => m \in 1..8
        BY SMT
      <4>2. Len(acc) <= 8 /\ Len(acc) \in Nat /\ Len(acc) # 0
        BY <2>2
      <4> QED
        BY <4>1, <4>2
    <3> QED
      BY <3>1
  <2>10. PICK n \in 0..7 : n = 8 - a /\ n = 8 - Len(acc)
    <3>1. 8 - a \in 0..7
      OBVIOUS
    <3> QED
      BY <2>9, <3>1
  <2>3. a = Len(acc) /\ n = 8 - a
    BY <2>9, <2>10
  <2>4. DOMAIN ones = 1..n /\ ones = [i \in 1..n |-> ones[i]] /\ \A i \in 1..n : ones[i] = 1
    BY <2>10
  <2> HIDE DEF ones
  <2>5. ones \in Seq(Bits) /\ Len(ones) = n
    <3>1. 1 \in Bits /\ n \in Nat
      BY DEF Bits
    <3> QED
      BY <2>4, <3>1, TupleType
  <2>6. /\ acc \o ones \in Seq(Bits) /\ Len(acc \o ones) = a + n
        /\ \A i \in 1..a + n : (acc \o ones)[i] = IF i <= a THEN acc[i] ELSE ones[i - a]
    BY <2>3, <2>5, Cat
  <2>7. a + n = 8 /\ \A i \in 1..8 : i > a => i - a \in 1..n
    BY <2>3
  <2>8. ASSUME NEW i \in 1..8
        PROVE  (acc \o ones)[i] = IF i <= a THEN acc[i] ELSE 1
    <3>1. (acc \o ones)[i] = IF i <= a THEN acc[i] ELSE ones[i - a]
      BY <2>6, <2>7
    <3>2. CASE i <= a
      BY <3>1, <3>2
    <3>3. CASE ~(i <= a)
      <4>1. i - a \in 1..n
        BY <2>3, <2>7, <3>3
      <4>2. ones[i - a] = 1
        BY <2>4, <4>1
      <4> QED
        BY <3>1, <3>3, <4>2
    <3> QED
      BY <3>2, <3>3
  <2>11. Len(Fill(acc)) = 8 /\ Fill(acc) \in Seq(Bits)
    BY <2>1, <2>6, <2>7
  <2>13. \A i \in 1..8 : Fill(acc)[i] = IF i <= Len(acc) THEN acc[i] ELSE 1
    BY <2>1, <2>8, <2>9
  <2> QED
    BY <2>9, <2>11, <2>13
<1> QED
  BY <1>1, <1>2

LEMMA FinishHolds ==
  ASSUME HeaderInv, Finish
  PROVE  HeaderInv'
<1> DEFINE T == FlattenSeq(Header)
<1>1. /\ phase = "pack" /\ words = <<>> /\ packed' = packed \o Fill(accum) /\ accum' = <<>>
      /\ words' = words /\ given' = given /\ l' = l /\ phase' = "new"
  BY DEF Finish
<1>2. /\ accum \in Seq(Bits) /\ packed \in Seq(Bits) /\ Len(accum) <= 8
      /\ Len(packed) % 8 = 0 /\ l = (Len(T) + 7) \div 8 + 13 /\ Chosen
      /\ packed \o accum \o FlattenSeq(words) = T
  BY <1>1 DEF HeaderInv
<1>3. packed \o accum = T /\ T \in Seq(Bits) /\ Len(T) = Len(packed) + Len(accum)
  <2>1. (packed \o accum) \in Seq(Bits) /\ Len(packed \o accum) = Len(packed) + Len(accum)
    BY <1>2, ConcatProperties
  <2>2. FlattenSeq(words) = <<>>
    BY <1>1, FlatEmpty
  <2>3. (packed \o accum) \o <<>> = packed \o accum
    BY <2>1, ConcatEmptySeq
  <2>4. packed \o accum = T
    BY <1>2, <2>2, <2>3, Zenon
  <2> QED
    BY <2>1, <2>4
<1> HIDE DEF T
<1> DEFINE p == Len(packed)
           a == Len(accum)
           F == Fill(accum)
<1>4. p \in Nat /\ a \in Nat /\ a <= 8 /\ p % 8 = 0 /\ Len(T) = p + a
  BY <1>2, <1>3, LenProperties
<1>5. /\ F \in Seq(Bits) /\ Len(F) = (IF a = 0 THEN 0 ELSE 8)
      /\ \A i \in 1..Len(F) : F[i] = IF i <= a THEN accum[i] ELSE 1
  BY <1>2, Filled
<1>6. /\ packed' \in Seq(Bits) /\ Len(packed') = p + Len(F)
      /\ \A i \in 1..Len(packed') : packed'[i] = IF i <= p THEN packed[i] ELSE F[i - p]
  <2> HIDE DEF F
  <2>1. packed' = packed \o F
    BY <1>1 DEF F
  <2>2. PICK s \in Seq(Bits), t \in Seq(Bits) : s = packed /\ t = F
    BY <1>2, <1>5
  <2>3. /\ s \o t \in Seq(Bits) /\ Len(s \o t) = Len(s) + Len(t)
        /\ \A i \in 1..Len(s) + Len(t) : (s \o t)[i] = IF i <= Len(s) THEN s[i] ELSE t[i - Len(s)]
    BY Cat
  <2>4. packed' = s \o t /\ Len(s) = p
    BY <2>1, <2>2
  <2>5. Len(packed') = p + Len(F)
    BY <2>2, <2>3, <2>4
  <2> QED
    BY <2>2, <2>3, <2>4, <2>5
<1>7. \A i \in 1..Len(T) : T[i] = IF i <= p THEN packed[i] ELSE accum[i - p]
  <2>2. PICK s \in Seq(Bits), t \in Seq(Bits) : s = packed /\ t = accum
    BY <1>2
  <2>3. \A i \in 1..Len(s) + Len(t) : (s \o t)[i] = IF i <= Len(s) THEN s[i] ELSE t[i - Len(s)]
    BY Cat
  <2>4. T = s \o t /\ Len(T) = Len(s) + Len(t) /\ p = Len(s)
    BY <1>3, <2>2
  <2> QED
    BY <2>2, <2>3, <2>4
<1> HIDE DEF p, a, F
<1>8. Len(packed') % 8 = 0 /\ Len(packed') >= Len(T) /\ Len(packed') < Len(T) + 8
  <2>1. CASE a = 0
    BY <1>4, <1>5, <1>6, <2>1
  <2>2. CASE a # 0
    <3>1. Len(packed') = p + 8
      BY <1>4, <1>5, <1>6, <2>2
    <3>2. (p + 8) % 8 = 0
      BY <1>4
    <3> QED
      BY <1>4, <2>2, <3>1, <3>2
  <2> QED
    BY <2>1, <2>2
<1>9. \A i \in 1..Len(packed') : packed'[i] = IF i <= Len(T) THEN T[i] ELSE 1
  <2> SUFFICES ASSUME NEW i \in 1..Len(packed')
               PROVE  packed'[i] = IF i <= Len(T) THEN T[i] ELSE 1
    OBVIOUS
  <2>1. packed'[i] = IF i <= p THEN packed[i] ELSE F[i - p]
    BY <1>6
  <2>2. i > p => i - p \in 1..Len(F)
    BY <1>4, <1>5, <1>6
  <2>3. i > p => F[i - p] = IF i - p <= a THEN accum[i - p] ELSE 1
    BY <1>5, <2>2
  <2>4. i <= Len(T) => T[i] = IF i <= p THEN packed[i] ELSE accum[i - p]
    BY <1>4, <1>7
  <2> QED
    BY <1>4, <1>5, <1>6, <2>1, <2>2, <2>3, <2>4
<1>10. Header' = Header /\ Chosen'
  BY <1>1, <1>2, SameHeader
<1>11. FlattenSeq(Header') = T
  BY <1>10, Zenon DEF T
<1>12. <<>> \in Seq(Seq(Bits)) /\ <<>> \in Seq(Bits) /\ Len(<<>>) <= 8
  OBVIOUS
<1> QED
  BY <1>1, <1>2, <1>6, <1>8, <1>9, <1>10, <1>11, <1>12 DEF HeaderInv

LEMMA HeaderKept ==
  ASSUME HeaderInv, header' = header,
         phase' = phase \/ (phase # "pack" /\ phase' \in {"new", "open", "picture", "encode", "ended"})
  PROVE  HeaderInv'
<1>1. given' = given /\ words' = words /\ l' = l /\ accum' = accum /\ packed' = packed
  BY DEF header
<1>2. Header' = Header /\ Chosen'
  BY <1>1, SameHeader DEF HeaderInv
<1>3. /\ phase' \in {"pack", "new", "open", "picture", "encode", "ended"}
      /\ (phase' = "pack" <=> phase = "pack")
  BY DEF HeaderInv
<1>4. /\ words \in Seq(Seq(Bits)) /\ accum \in Seq(Bits) /\ packed \in Seq(Bits)
      /\ Len(packed) % 8 = 0 /\ Len(accum) <= 8
  BY DEF HeaderInv
<1>5. /\ words' \in Seq(Seq(Bits)) /\ accum' \in Seq(Bits) /\ packed' \in Seq(Bits)
      /\ Len(packed') % 8 = 0 /\ Len(accum') <= 8
  BY ONLY <1>1, <1>4
<1>6. l' = (Len(FlattenSeq(Header')) + 7) \div 8 + 13
  BY <1>1, <1>2, Zenon DEF HeaderInv
<1>7. phase' = "pack" => packed' \o accum' \o FlattenSeq(words') = FlattenSeq(Header')
  BY <1>1, <1>2, <1>3, Zenon DEF HeaderInv
<1>8. phase # "pack" => /\ words = <<>> /\ accum = <<>>
                        /\ Len(packed) >= Len(FlattenSeq(Header))
                        /\ Len(packed) < Len(FlattenSeq(Header)) + 8
                        /\ \A i \in 1 .. Len(packed) :
                             packed[i] = IF i <= Len(FlattenSeq(Header))
                                         THEN FlattenSeq(Header)[i] ELSE 1
  BY Zenon DEF HeaderInv
<1>9. phase' # "pack" => /\ words' = <<>> /\ accum' = <<>>
                         /\ Len(packed') >= Len(FlattenSeq(Header'))
                         /\ Len(packed') < Len(FlattenSeq(Header')) + 8
                         /\ \A i \in 1 .. Len(packed') :
                             packed'[i] = IF i <= Len(FlattenSeq(Header'))
                                         THEN FlattenSeq(Header')[i] ELSE 1
  BY <1>1, <1>2, <1>3, <1>8, Zenon
<1> QED
  BY <1>2, <1>3, <1>5, <1>6, <1>7, <1>9, Zenon DEF HeaderInv

LEMMA HeaderStep ==
  ASSUME HeaderInv, [StreamNext]_streamVars
  PROVE  HeaderInv'
<1>1. CASE Pack
  BY <1>1, PackHolds
<1>2. CASE Finish
  BY <1>2, FinishHolds
<1>3. CASE StartSequence
  BY <1>3, HeaderKept DEF StartSequence
<1>4. CASE RepeatSequenceStart
  BY <1>4, HeaderKept DEF RepeatSequenceStart
<1>5. CASE StartPicture
  BY <1>5, HeaderKept DEF StartPicture
<1>6. CASE StartAuxiliaryData
  BY <1>6, HeaderKept DEF StartAuxiliaryData
<1>7. CASE EndSequence
  BY <1>7, HeaderKept DEF EndSequence
<1>8. CASE EncodeData
  BY <1>8, HeaderKept DEF EncodeData
<1>9. CASE BeginPartials
  BY <1>9, HeaderKept DEF BeginPartials
<1>10. CASE Link
  BY <1>10, HeaderKept DEF Link
<1>11. ASSUME NEW k \in 1..NFACTOR, EncodePartial(k) PROVE HeaderInv'
  <2>1. header' = header /\ phase' = phase
    BY <1>11 DEF EncodePartial
  <2> QED
    BY <2>1, HeaderKept
<1>12. CASE UNCHANGED streamVars
  BY <1>12, HeaderKept DEF streamVars
<1> QED
  BY <1>1, <1>2, <1>3, <1>4, <1>5, <1>6, <1>7, <1>8, <1>9, <1>10, <1>11, <1>12
     DEF StreamNext, PackHeader, StreamEnded

LEMMA UnitsStart ==
  ASSUME StreamInit
  PROVE  UnitsInv
<1>1. /\ phase = "pack" /\ data = 0 /\ parse_offset = 0 /\ data_length = 0
      /\ units = [x \in {} |-> Unit(0, 0)]
  BY DEF StreamInit, HeaderInit
<1>2. DOMAIN units = {} /\ units \in [DOMAIN units -> [next : Nat, prev : Nat \cup {UNSET}]]
  BY <1>1
<1>3. UnitsType /\ Unused
  BY <1>1, <1>2 DEF UnitsType, Unused
<1> QED
  BY <1>1, <1>3 DEF UnitsInv

LEMMA UnitsKept ==
  ASSUME UnitsInv, UNCHANGED streamVars
  PROVE  UnitsInv'
<1>1. /\ fragmented' = fragmented /\ phase' = phase /\ units' = units /\ data' = data
      /\ parse_offset' = parse_offset /\ data_length' = data_length
      /\ mEncoderData' = mEncoderData /\ working' = working
  BY DEF streamVars, header, given, encoder
<1>2. UnitsType'
  BY <1>1 DEF UnitsInv, UnitsType
<1>3. phase' \in {"pack", "new"} => Unused'
  BY <1>1, Zenon DEF UnitsInv, Unused
<1>4. phase' = "open" => Opened' /\ Segment(units', 0, data', parse_offset')
  BY <1>1, Zenon DEF UnitsInv, Opened
<1>5. phase' = "picture" => PictureInv'
  BY <1>1, Zenon DEF UnitsInv, PictureInv, PictureEnd, Opened
<1>6. phase' = "encode" => PartialsInv'
  BY <1>1, Zenon DEF UnitsInv, PartialsInv, Adjoin, Place, Size, Final, Extra
<1>7. phase' = "ended" => EndedInv'
  BY <1>1, Zenon DEF UnitsInv, EndedInv
<1> QED
  BY <1>2, <1>3, <1>4, <1>5, <1>6, <1>7, Zenon DEF UnitsInv

LEMMA PackUnits ==
  ASSUME UnitsInv, PackHeader
  PROVE  UnitsInv'
<1>1. /\ phase = "pack" /\ phase' \in {"pack", "new"} /\ units' = units /\ data' = data
      /\ parse_offset' = parse_offset /\ data_length' = data_length
  BY DEF PackHeader, Pack, Finish
<1>2. UnitsType /\ Unused
  BY <1>1 DEF UnitsInv
<1>3. UnitsType' /\ Unused'
  BY <1>1, <1>2 DEF UnitsType, Unused
<1>4. phase' \notin {"open", "picture", "encode", "ended"}
  BY <1>1
<1> QED
  BY <1>3, <1>4, Zenon DEF UnitsInv

\* Both parts of the invariant stay as they are or are established anew by
\* each call of the client and each step of a worker.
LEMMA UnitsStep ==
  ASSUME WholeUnits, HeaderInv, UnitsInv, [StreamNext]_streamVars
  PROVE  UnitsInv'
<1>1. CASE PackHeader
  BY <1>1, PackUnits
<1>3. CASE StartSequence
  BY <1>3, StartUnits
<1>4. CASE RepeatSequenceStart
  BY <1>4, RepeatUnits
<1>5. CASE StartPicture
  BY <1>5, PictureUnits
<1>6. CASE StartAuxiliaryData
  BY <1>6, AuxiliaryUnits
<1>7. CASE EndSequence
  BY <1>7, EndUnits
<1>8. CASE EncodeData
  BY <1>8, EncodeDataUnits
<1>9. CASE BeginPartials
  BY <1>9, BeginUnits
<1>10. CASE Link
  BY <1>10, LinkUnits
<1>11. ASSUME NEW k \in 1..NFACTOR, EncodePartial(k) PROVE UnitsInv'
  BY <1>11, EncodeUnits
<1>12. CASE UNCHANGED streamVars
  BY <1>12, UnitsKept
<1> QED
  BY <1>1, <1>3, <1>4, <1>5, <1>6, <1>7, <1>8, <1>9, <1>10, <1>11, <1>12
     DEF StreamNext, StreamEnded

\* While the sequence header is packed (SequenceHeader) no bit of it is lost
\* or moved: what has left the accumulator, what waits in it and the words
\* still to come are the header; afterwards the header and less than a byte
\* of ones are in the bytes, as many as next_parse_offset counts on.
THEOREM StreamHeaderPacked == StreamSpec => []HeaderInv
<1>1. StreamInit => HeaderInv
  BY HeaderStart
<1>2. HeaderInv /\ [StreamNext]_streamVars => HeaderInv'
  BY HeaderStep
<1> QED
  BY <1>1, <1>2, PTL DEF StreamSpec

\* What UnitsChain rests on, of every phase of the client.
THEOREM StreamUnits == ASSUME WholeUnits PROVE StreamSpec => []UnitsInv
<1>1. StreamInit => UnitsInv
  BY UnitsStart
<1>2. HeaderInv /\ UnitsInv /\ [StreamNext]_streamVars => UnitsInv'
  BY UnitsStep
<1> QED
  BY <1>1, <1>2, StreamHeaderPacked, PTL DEF StreamSpec

\* Whatever a client makes of a sequence, with any number of partials and of
\* fragments written by the workers in any order, a decoder that follows the
\* distances meets every data unit, provided that the lengths asked for leave
\* a whole number of units of mSliceSizeScalar to share out.
THEOREM StreamUnitsChain == ASSUME WholeUnits PROVE StreamSpec => []UnitsChain
<1>1. UnitsInv => UnitsChain
  BY UnitsInvChains
<1> QED
  BY <1>1, StreamUnits, PTL

(* Reading the header.  From the i-th bit on the bits are those of w.      *)
Stands(i, w) ==
  i \in Nat \ {0} /\ i + Len(w) - 1 <= Len(packed) /\ \A j \in 1..Len(w) : packed[i + j - 1] = w[j]

LEMMA StandsCat ==
  ASSUME NEW i, NEW s \in Seq(Bits), NEW t \in Seq(Bits), packed \in Seq(Bits), Stands(i, s \o t)
  PROVE  /\ Stands(i, s) /\ Stands(i + Len(s), t)
         /\ Len(s \o t) = Len(s) + Len(t) /\ Len(s) \in Nat /\ Len(t) \in Nat
<1>0. PICK a \in Nat, b \in Nat, P \in Nat : a = Len(s) /\ b = Len(t) /\ P = Len(packed)
  BY LenProperties
<1>1. /\ Len(s \o t) = a + b
      /\ \A j \in 1..a + b : (s \o t)[j] = IF j <= a THEN s[j] ELSE t[j - a]
  BY <1>0, Cat
<1>2. /\ i \in Nat \ {0} /\ i + (a + b) - 1 <= P
      /\ \A j \in 1..a + b : packed[i + j - 1] = (s \o t)[j]
  BY <1>0, <1>1 DEF Stands
<1>3. Stands(i, s)
  <2>1. ASSUME NEW j \in 1..a
        PROVE  packed[i + j - 1] = s[j]
    <3>1. j \in 1..a + b /\ j <= a
      OBVIOUS
    <3> QED
      BY <1>1, <1>2, <3>1
  <2>2. i + a - 1 <= P
    BY <1>2
  <2> QED
    BY <1>0, <1>2, <2>1, <2>2, Zenon DEF Stands
<1>4. Stands(i + a, t)
  <2>1. ASSUME NEW j \in 1..b
        PROVE  packed[(i + a) + j - 1] = t[j]
    <3>1. a + j \in 1..a + b /\ ~(a + j <= a) /\ (a + j) - a = j /\ i + (a + j) - 1 = (i + a) + j - 1
      BY <1>2
    <3>2. packed[i + (a + j) - 1] = t[j]
      BY <1>1, <1>2, <3>1
    <3> QED
      BY <3>1, <3>2
  <2>2. (i + a) + b - 1 <= P /\ i + a \in Nat \ {0}
    BY <1>2
  <2> QED
    BY <1>0, <2>1, <2>2, Zenon DEF Stands
<1> QED
  BY <1>0, <1>1, <1>3, <1>4

\* A number and its half.
LEMMA Halves ==
  ASSUME NEW y \in Nat, NEW m \in 0..15
  PROVE  y \div Power[m] = 2 * (y \div Power[m + 1]) + ((y \div Power[m]) % 2)
<1>1. y \div 1 = 2 * (y \div 2) + ((y \div 1) % 2)
  BY SMT
<1>2. y \div 2 = 2 * (y \div 4) + ((y \div 2) % 2)
  BY SMT
<1>3. y \div 4 = 2 * (y \div 8) + ((y \div 4) % 2)
  BY SMT
<1>4. y \div 8 = 2 * (y \div 16) + ((y \div 8) % 2)
  BY SMT
<1>5. y \div 16 = 2 * (y \div 32) + ((y \div 16) % 2)
  BY SMT
<1>6. y \div 32 = 2 * (y \div 64) + ((y \div 32) % 2)
  BY SMT
<1>7. y \div 64 = 2 * (y \div 128) + ((y \div 64) % 2)
  BY SMT
<1>8. y \div 128 = 2 * (y \div 256) + ((y \div 128) % 2)
  BY SMT
<1>9. y \div 256 = 2 * (y \div 512) + ((y \div 256) % 2)
  BY SMT
<1>10. y \div 512 = 2 * (y \div 1024) + ((y \div 512) % 2)
  BY SMT
<1>11. y \div 1024 = 2 * (y \div 2048) + ((y \div 1024) % 2)
  BY SMT
<1>12. y \div 2048 = 2 * (y \div 4096) + ((y \div 2048) % 2)
  BY SMT
<1>13. y \div 4096 = 2 * (y \div 8192) + ((y \div 4096) % 2)
  BY SMT
<1>14. y \div 8192 = 2 * (y \div 16384) + ((y \div 8192) % 2)
  BY SMT
<1>15. y \div 16384 = 2 * (y \div 32768) + ((y \div 16384) % 2)
  BY SMT
<1>16. y \div 32768 = 2 * (y \div 65536) + ((y \div 32768) % 2)
  BY SMT
<1>17. m \in {0, 1, 2, 3, 4, 5, 6, 7, 8, 9, 10, 11, 12, 13, 14, 15}
  BY SMT
<1> QED
  BY <1>1, <1>2, <1>3, <1>4, <1>5, <1>6, <1>7, <1>8, <1>9, <1>10, <1>11, <1>12, <1>13, <1>14,
     <1>15, <1>16, <1>17, PowerValues, SMT

\* The word in places: a 0 before each of the k bits, and the 1 at the end.
Coded(x, i, k) ==
  /\ Power[k] <= x + 1 /\ x + 1 < 2 * Power[k]
  /\ Len(encode_uint(x)) = 2 * k + 1 /\ k <= Len(packed) /\ i \in Nat \ {0}
  /\ Bit(i + 2 * k) = 1 /\ \A j \in 0..(k - 1) : Bit(i + 2 * j) = 0
  /\ \A j \in 1..k : Bit(i + 2 * j - 1) = ((x + 1) \div Power[k - j]) % 2

LEMMA WordBits ==
  ASSUME NEW x \in Codable, NEW i, packed \in Seq(Bits), Stands(i, encode_uint(x))
  PROVE  \E k \in 0..15 : Coded(x, i, k)
<1>1. PICK k \in 0..15 :
           /\ Power[k] <= x + 1 /\ x + 1 < 2 * Power[k]
           /\ encode_uint(x) = [j \in 1..(2 * k + 1) |->
                 IF j = 2 * k + 1 THEN 1
                 ELSE IF j % 2 = 1 THEN 0 ELSE ((x + 1) \div Power[k - j \div 2]) % 2]
  BY Words, Zenon
<1> DEFINE w == encode_uint(x)
<1>2. /\ DOMAIN w = 1..(2 * k + 1)
      /\ \A j \in 1..(2 * k + 1) : w[j] = IF j = 2 * k + 1 THEN 1
                 ELSE IF j % 2 = 1 THEN 0 ELSE ((x + 1) \div Power[k - j \div 2]) % 2
  BY <1>1, Zenon
<1>3. w \in Seq(Bits)
  BY WordType
<1> HIDE DEF w
<1>4. Len(w) = 2 * k + 1
  <2>1. 2 * k + 1 \in Nat
    OBVIOUS
  <2> QED
    BY <1>2, <1>3, <2>1, LenOf
<1>5. PICK P \in Nat : P = Len(packed)
  BY LenProperties
<1>6. /\ i \in Nat \ {0} /\ i + (2 * k + 1) - 1 <= P
      /\ \A j \in 1..(2 * k + 1) : packed[i + j - 1] = w[j]
  BY <1>4, <1>5 DEF Stands, w
<1>7. ASSUME NEW j \in 1..(2 * k + 1) PROVE Bit(i + j - 1) = w[j]
  <2>1. i + j - 1 <= P /\ packed[i + j - 1] = w[j]
    BY <1>6
  <2> QED
    BY <1>5, <2>1 DEF Bit
<1>8. Bit(i + 2 * k) = 1
  <2>1. 2 * k + 1 \in 1..(2 * k + 1) /\ i + (2 * k + 1) - 1 = i + 2 * k
    BY <1>6
  <2>2. w[2 * k + 1] = 1
    BY <1>2, <2>1
  <2> QED
    BY <1>7, <2>1, <2>2
<1>9. ASSUME NEW j \in 0..(k - 1) PROVE Bit(i + 2 * j) = 0
  <2>1. /\ 2 * j + 1 \in 1..(2 * k + 1) /\ i + (2 * j + 1) - 1 = i + 2 * j
        /\ (2 * j + 1) % 2 = 1 /\ 2 * j + 1 # 2 * k + 1
    BY <1>6
  <2>2. w[2 * j + 1] = 0
    BY <1>2, <2>1, Zenon
  <2> QED
    BY <1>7, <2>1, <2>2
<1>10. ASSUME NEW j \in 1..k PROVE Bit(i + 2 * j - 1) = ((x + 1) \div Power[k - j]) % 2
  <2>1. /\ 2 * j \in 1..(2 * k + 1) /\ (2 * j) % 2 # 1 /\ 2 * j # 2 * k + 1 /\ (2 * j) \div 2 = j
    BY <1>6
  <2>2. w[2 * j] = ((x + 1) \div Power[k - j]) % 2
    BY <1>2, <2>1, Zenon
  <2> QED
    BY <1>7, <2>1, <2>2
<1>11. k <= P
  BY <1>6
<1> QED
  BY <1>1, <1>4, <1>5, <1>6, <1>8, <1>9, <1>10, <1>11 DEF w, Coded

IsValue(g, k, i) == g = [j \in 0..k |-> IF j = 0 THEN 1 ELSE 2 * g[j - 1] + Bit(i + 2 * j - 1)]
LengthAt(i) == CHOOSE k \in 0..Len(packed) : Bit(i + 2 * k) = 1 /\ \A j \in 0..(k - 1) : Bit(i + 2 * j) # 1
ValueAt(i, k) == CHOOSE g : IsValue(g, k, i)

LEMMA ReadWith ==
  \A i : ReadUint(i) = [v |-> ValueAt(i, LengthAt(i))[LengthAt(i)] - 1, at |-> i + 2 * LengthAt(i) + 1]
BY Zenon DEF ReadUint, ValueAt, LengthAt, IsValue

\* The reader finds the number that encode_uint made the word of.
LEMMA ReadBack ==
  ASSUME NEW x \in Codable, NEW i, packed \in Seq(Bits), Stands(i, encode_uint(x))
  PROVE  ReadUint(i) = [v |-> x, at |-> i + Len(encode_uint(x))]
<1>12. PICK k \in 0..15 : Coded(x, i, k)
  BY WordBits
<1>1. /\ Power[k] <= x + 1 /\ x + 1 < 2 * Power[k]
      /\ Len(encode_uint(x)) = 2 * k + 1 /\ k <= Len(packed) /\ i \in Nat \ {0}
      /\ Bit(i + 2 * k) = 1 /\ \A j \in 0..(k - 1) : Bit(i + 2 * j) = 0
      /\ \A j \in 1..k : Bit(i + 2 * j - 1) = ((x + 1) \div Power[k - j]) % 2
  BY <1>12 DEF Coded
<1>2. PICK y \in Nat : y = x + 1
  BY DEF Codable
<1>0. Power[k] \in Nat \ {0} /\ Power[0] = 1
  <2>1. k \in 0..17
    OBVIOUS
  <2> QED
    BY <2>1, PowerSteps
<1>3. LengthAt(i) = k
  <2> DEFINE Q(m) == Bit(i + 2 * m) = 1 /\ \A j \in 0..(m - 1) : Bit(i + 2 * j) # 1
  <2>1. k \in 0..Len(packed) /\ Q(k)
    BY <1>1, LenProperties
  <2>2. ASSUME NEW m \in 0..Len(packed), Q(m) PROVE m = k
    <3>1. m \in Nat
      BY LenProperties
    <3>2. CASE m < k
      <4>1. m \in 0..(k - 1)
        BY <3>1, <3>2
      <4> QED
        BY <1>1, <2>2, <4>1
    <3>3. CASE k < m
      <4>1. k \in 0..(m - 1)
        BY <3>1, <3>3
      <4> QED
        BY <1>1, <2>2, <4>1
    <3> QED
      BY <3>1, <3>2, <3>3
  <2>3. LengthAt(i) = CHOOSE m \in 0..Len(packed) : Q(m)
    BY DEF LengthAt
  <2> HIDE DEF Q
  <2> QED
    BY <2>1, <2>2, <2>3
<1> DEFINE h == [j \in 0..k |-> y \div Power[k - j]]
<1>4. h[0] = 1 /\ h[k] = y
  <2>1. PICK c \in Nat \ {0} : c = Power[k] /\ c <= y /\ y < 2 * c
    BY <1>0, <1>1, <1>2
  <2>2. y \div c = 1
    BY <2>1
  <2>3. h[0] = y \div Power[k] /\ h[k] = y \div Power[0]
    OBVIOUS
  <2>4. Power[0] = 1
    BY PowerSteps
  <2>5. y \div 1 = y
    OBVIOUS
  <2> QED
    BY <2>1, <2>2, <2>3, <2>4, <2>5
<1>5. ASSUME NEW j \in 1..k
      PROVE  h[j] = 2 * h[j - 1] + Bit(i + 2 * j - 1) /\ h[j - 1] \in Int
  <2>1. h[j] = y \div Power[k - j] /\ h[j - 1] = y \div Power[(k - j) + 1]
    <3>1. j \in 0..k /\ j - 1 \in 0..k /\ k - (j - 1) = (k - j) + 1
      OBVIOUS
    <3> QED
      BY <3>1
  <2>2. k - j \in 0..15
    OBVIOUS
  <2>3. y \div Power[k - j] = 2 * (y \div Power[(k - j) + 1]) + ((y \div Power[k - j]) % 2)
    BY <2>2, Halves
  <2>4. Bit(i + 2 * j - 1) = (y \div Power[k - j]) % 2
    BY <1>1, <1>2
  <2>5. Power[(k - j) + 1] \in Nat \ {0}
    <3>1. (k - j) + 1 \in 0..17
      BY <2>2
    <3> HIDE DEF h
    <3> QED
      BY <3>1, PowerSteps, Zenon
  <2> QED
    BY <2>1, <2>3, <2>4, <2>5
<1>6. DOMAIN h = 0..k /\ h = [j \in 0..k |-> h[j]]
  OBVIOUS
<1> HIDE DEF h
<1>7. IsValue(h, k, i)
  <2>1. \A j \in 0..k : h[j] = IF j = 0 THEN 1 ELSE 2 * h[j - 1] + Bit(i + 2 * j - 1)
    <3> TAKE j \in 0..k
    <3>1. j = 0 \/ j \in 1..k
      OBVIOUS
    <3> QED
      BY <1>4, <1>5, <3>1
  <2> QED
    BY <1>6, <2>1, Zenon DEF IsValue
<1> DEFINE g == ValueAt(i, k)
<1>8. IsValue(g, k, i)
  BY <1>7, Zenon DEF ValueAt
<1> HIDE DEF g
<1>9. g[k] = h[k]
  <2>1. \A j \in 0..k : g[j] = IF j = 0 THEN 1 ELSE 2 * g[j - 1] + Bit(i + 2 * j - 1)
    BY <1>8 DEF IsValue
  <2> DEFINE G == {j \in Nat : j <= k => g[j] = h[j]}
  <2>2. 0 \in G
    BY <1>4, <2>1
  <2>3. ASSUME NEW j \in Nat, j \in G PROVE j + 1 \in G
    <3> SUFFICES ASSUME j + 1 <= k PROVE g[j + 1] = h[j + 1]
      OBVIOUS
    <3>1. j + 1 \in 0..k /\ j + 1 # 0 /\ (j + 1) - 1 = j /\ g[j] = h[j] /\ j + 1 \in 1..k
      BY <2>3
    <3>2. g[j + 1] = 2 * g[j] + Bit(i + 2 * (j + 1) - 1)
      BY <2>1, <3>1
    <3>3. h[j + 1] = 2 * h[j] + Bit(i + 2 * (j + 1) - 1)
      BY <1>5, <3>1
    <3> QED
      BY <3>1, <3>2, <3>3
  <2>4. Nat \subseteq G
    <3> HIDE DEF G
    <3> QED
      BY <2>2, <2>3, AllNumbers
  <2> QED
    BY <2>4
<1>10. ReadUint(i) = [v |-> g[k] - 1, at |-> i + 2 * k + 1]
  BY <1>3, ReadWith, Zenon DEF g
<1>11. g[k] - 1 = x /\ i + 2 * k + 1 = i + Len(encode_uint(x))
  <2>1. PICK z \in Nat : z = x
    BY DEF Codable
  <2>2. g[k] = z + 1
    BY <1>2, <1>4, <1>9, <2>1
  <2> QED
    BY <1>1, <2>1, <2>2
<1> QED
  BY <1>10, <1>11

\* The first values of a sequence, and the next one.
Upto(s, j) == SubSeq(s, 1, j)

LEMMA UptoIs ==
  ASSUME NEW S, NEW s \in Seq(S)
  PROVE  /\ \A j \in 0..Len(s) : Upto(s, j) \in Seq(S) /\ Len(Upto(s, j)) = j
         /\ \A j \in 1..Len(s) : /\ Upto(s, j) = Upto(s, j - 1) \o <<s[j]>>
                                 /\ Upto(s, j) = Append(Upto(s, j - 1), s[j])
         /\ Upto(s, 0) = <<>> /\ Upto(s, Len(s)) = s
<1>0. PICK n \in Nat : n = Len(s) /\ \A i \in 1..n : s[i] \in S
  BY LenProperties, ElementOfSeq
<1>1. ASSUME NEW j \in 0..n
      PROVE  Upto(s, j) \in Seq(S) /\ Len(Upto(s, j)) = j
  <2>1. \A i \in 1..j : s[i] \in S
    BY <1>0
  <2>2. SubSeq(s, 1, j) \in Seq(S) /\ Len(SubSeq(s, 1, j)) = IF 1 <= j THEN j - 1 + 1 ELSE 0
    BY <2>1, SubSeqProperties
  <2> QED
    BY <2>2 DEF Upto
<1>2. ASSUME NEW j \in 1..n
      PROVE  Upto(s, j) = Upto(s, j - 1) \o <<s[j]>>
  <2>1. 1 \in 1..Len(s) /\ j \in 1..Len(s)
    BY <1>0
  <2> QED
    BY <2>1, SubSeqRecursiveSecond DEF Upto
<1>3. ASSUME NEW j \in 1..n
      PROVE  Upto(s, j) = Append(Upto(s, j - 1), s[j])
  <2>1. j - 1 \in 0..n
    OBVIOUS
  <2>2. Append(Upto(s, j - 1), s[j]) = Upto(s, j - 1) \o <<s[j]>>
    BY <1>0, <1>1, <2>1, AppendIsConcat
  <2> QED
    BY <1>2, <2>2
<1>4. Upto(s, 0) = <<>>
  BY SubSeqEmpty DEF Upto
<1>5. Upto(s, n) = s
  BY <1>0, SubSeqFull DEF Upto
<1> QED
  BY <1>0, <1>1, <1>2, <1>3, <1>4, <1>5

LEMMA UptoRest ==
  ASSUME NEW S, NEW s \in Seq(S), NEW j \in 0..Len(s)
  PROVE  \E t \in Seq(S) : s = Upto(s, j) \o t
<1>0. PICK n \in Nat : n = Len(s) /\ j \in 0..n /\ \A i \in 1..n : s[i] \in S
  BY LenProperties, ElementOfSeq
<1>1. \A i \in j + 1 .. n : s[i] \in S
  BY <1>0
<1>2. SubSeq(s, j + 1, n) \in Seq(S)
  BY <1>1, SubSeqProperties
<1>3. 1 \in 1..n + 1 /\ j \in (1 - 1)..n /\ n \in j..n
  BY <1>0
<1>4. SubSeq(s, 1, j) \o SubSeq(s, j + 1, n) = SubSeq(s, 1, n)
  BY <1>0, <1>3, ConcatAdjacentSubSeq
<1>5. SubSeq(s, 1, n) = s
  BY <1>0, SubSeqFull
<1> QED
  BY <1>2, <1>4, <1>5 DEF Upto

LEMMA UintsConcat ==
  ASSUME NEW s \in Seq(Codable), NEW t \in Seq(Codable)
  PROVE  Uints(s \o t) = Uints(s) \o Uints(t)
<1>0. PICK a \in Nat, b \in Nat : a = Len(s) /\ b = Len(t)
  BY LenProperties
<1>1. /\ s \o t \in Seq(Codable) /\ Len(s \o t) = a + b
      /\ \A i \in 1..a + b : (s \o t)[i] = IF i <= a THEN s[i] ELSE t[i - a]
  BY <1>0, ConcatProperties
<1>2. /\ Uints(s \o t) \in Seq(Seq(Bits)) /\ Len(Uints(s \o t)) = a + b
      /\ \A i \in 1..a + b : Uints(s \o t)[i] = encode_uint((s \o t)[i])
  BY <1>1, UintsType
<1>3. /\ Uints(s) \in Seq(Seq(Bits)) /\ Len(Uints(s)) = a
      /\ \A i \in 1..a : Uints(s)[i] = encode_uint(s[i])
  BY <1>0, UintsType
<1>4. /\ Uints(t) \in Seq(Seq(Bits)) /\ Len(Uints(t)) = b
      /\ \A i \in 1..b : Uints(t)[i] = encode_uint(t[i])
  BY <1>0, UintsType
<1>5. /\ Uints(s) \o Uints(t) \in Seq(Seq(Bits)) /\ Len(Uints(s) \o Uints(t)) = a + b
      /\ \A i \in 1..a + b : (Uints(s) \o Uints(t))[i] = IF i <= a THEN Uints(s)[i] ELSE Uints(t)[i - a]
  BY <1>3, <1>4, ConcatProperties
<1>6. ASSUME NEW i \in 1..a + b
      PROVE  Uints(s \o t)[i] = (Uints(s) \o Uints(t))[i]
  <2>1. CASE i <= a
    <3>1. i \in 1..a
      BY <2>1
    <3> QED
      BY <1>1, <1>2, <1>3, <1>5, <2>1, <3>1
  <2>2. CASE ~(i <= a)
    <3>1. i - a \in 1..b
      BY <2>2
    <3> QED
      BY <1>1, <1>2, <1>4, <1>5, <2>2, <3>1
  <2> QED
    BY <2>1, <2>2
<1> QED
  BY <1>2, <1>5, <1>6, SeqEqual

\* The bits of some words, and of the words behind them.
Extent(ws) == Len(FlattenSeq(ws))

LEMMA StandsWords ==
  ASSUME NEW i, NEW a \in Seq(Seq(Bits)), NEW b \in Seq(Seq(Bits)), packed \in Seq(Bits),
         Stands(i, FlattenSeq(a \o b))
  PROVE  /\ Stands(i, FlattenSeq(a)) /\ Stands(i + Extent(a), FlattenSeq(b))
         /\ Extent(a \o b) = Extent(a) + Extent(b) /\ Extent(a) \in Nat /\ Extent(b) \in Nat
<1>1. FlattenSeq(a) \in Seq(Bits) /\ FlattenSeq(b) \in Seq(Bits)
  BY FlatIs
<1>2. FlattenSeq(a \o b) = FlattenSeq(a) \o FlattenSeq(b)
  BY FlatConcat
<1>3. Stands(i, FlattenSeq(a) \o FlattenSeq(b))
  BY <1>2, Zenon
<1> QED
  BY <1>1, <1>2, <1>3, StandsCat DEF Extent

Then(before) ==
  LET r == ReadUint(before.at) IN [v |-> Append(before.v, r.v), at |-> r.at]
IsRead(g, n, i) == g = [j \in 0..n |-> IF j = 0 THEN [v |-> <<>>, at |-> i] ELSE Then(g[j - 1])]
ReadAll(n, i) == CHOOSE g : IsRead(g, n, i)

LEMMA ReadUintsWith ==
  \A n, i : ReadUints(n, i) = ReadAll(n, i)[n]
BY Zenon DEF ReadUints, ReadAll, IsRead, Then

\* The reader finds the numbers that the words were made of, and ends behind
\* them.
LEMMA ReadUintsBack ==
  ASSUME NEW values \in Seq(Codable), NEW i, packed \in Seq(Bits),
         Stands(i, FlattenSeq(Uints(values)))
  PROVE  ReadUints(Len(values), i) = [v |-> values, at |-> i + Extent(Uints(values))]
<1> DEFINE h(j) == [v |-> Upto(values, j), at |-> i + Extent(Uints(Upto(values, j)))]
<1>0. PICK n \in Nat : n = Len(values)
  BY LenProperties
<1>1. \A j \in 0..n : Upto(values, j) \in Seq(Codable)
  BY <1>0, UptoIs
<1>2. ASSUME NEW j \in 0..n
      PROVE  Stands(i, FlattenSeq(Uints(Upto(values, j))))
  <2>1. PICK t \in Seq(Codable) : values = Upto(values, j) \o t
    <3>2. j \in 0..Len(values)
      BY <1>0
    <3> HIDE DEF h
    <3> QED
      BY <3>2, UptoRest
  <2>2. Uints(values) = Uints(Upto(values, j)) \o Uints(t)
    BY <1>1, <2>1, UintsConcat
  <2>3. Uints(Upto(values, j)) \in Seq(Seq(Bits)) /\ Uints(t) \in Seq(Seq(Bits))
    BY <1>1, UintsType
  <2>4. Stands(i, FlattenSeq(Uints(Upto(values, j)) \o Uints(t)))
    BY <2>2
  <2> QED
    BY <2>3, <2>4, StandsWords
<1>3. h(0) = [v |-> <<>>, at |-> i]
  <2>1. Upto(values, 0) = <<>> /\ Uints(<<>>) = <<>>
    BY UptoIs DEF Uints
  <2>2. Extent(<<>>) = 0
    BY FlatEmpty DEF Extent
  <2>3. i \in Nat \ {0}
    BY DEF Stands
  <2> QED
    BY <2>1, <2>2, <2>3
<1>4. ASSUME NEW j \in 1..n
      PROVE  h(j) = Then(h(j - 1))
  <2> DEFINE p == Upto(values, j - 1)
             x == values[j]
             w == encode_uint(x)
  <2>1. p \in Seq(Codable) /\ x \in Codable /\ Upto(values, j) = p \o <<x>> /\ Upto(values, j) = Append(p, x)
    <3>1. j - 1 \in 0..n
      OBVIOUS
    <3> QED
      BY <1>0, <1>1, <3>1, UptoIs, ElementOfSeq
  <2> HIDE DEF p, x
  <2>2. <<x>> \in Seq(Codable) /\ Uints(<<x>>) = <<w>>
    BY <2>1 DEF Uints
  <2>3. w \in Seq(Bits)
    BY <2>1, WordType
  <2> HIDE DEF w
  <2>4. <<w>> \in Seq(Seq(Bits)) /\ FlattenSeq(<<w>>) = w
    BY <2>3, FlatOne
  <2>5. Uints(Upto(values, j)) = Uints(p) \o <<w>> /\ Uints(p) \in Seq(Seq(Bits))
    BY <2>1, <2>2, UintsConcat, UintsType
  <2>6. Stands(i, FlattenSeq(Uints(p) \o <<w>>))
    <3>1. j \in 0..n
      OBVIOUS
    <3> QED
      BY <1>2, <2>5, <3>1
  <2>7. /\ Stands(i + Extent(Uints(p)), FlattenSeq(<<w>>)) /\ Extent(Uints(p)) \in Nat /\ Extent(<<w>>) \in Nat
        /\ Extent(Uints(p) \o <<w>>) = Extent(Uints(p)) + Extent(<<w>>)
    <3> DEFINE a == Uints(p)
               b == <<w>>
    <3>1. a \in Seq(Seq(Bits)) /\ b \in Seq(Seq(Bits)) /\ Stands(i, FlattenSeq(a \o b))
      BY <2>4, <2>5, <2>6
    <3> HIDE DEF a, b
    <3>2. /\ Stands(i + Extent(a), FlattenSeq(b)) /\ Extent(a) \in Nat /\ Extent(b) \in Nat
          /\ Extent(a \o b) = Extent(a) + Extent(b)
      BY <3>1, StandsWords
    <3> QED
      BY <3>2 DEF a, b
  <2>8. ReadUint(i + Extent(Uints(p))) = [v |-> x, at |-> (i + Extent(Uints(p))) + Len(w)]
    <3>1. Stands(i + Extent(Uints(p)), encode_uint(x))
      BY <2>4, <2>7 DEF w
    <3> QED
      BY <2>1, <3>1, ReadBack DEF w
  <2>9. Len(w) = Extent(<<w>>)
    BY <2>4 DEF Extent
  <2>10. (i + Extent(Uints(p))) + Len(w) = i + Extent(Uints(Upto(values, j)))
    <3>1. i \in Nat
      BY DEF Stands
    <3>2. Extent(Uints(Upto(values, j))) = Extent(Uints(p)) + Extent(<<w>>)
      BY <2>5, <2>7
    <3> HIDE DEF w
    <3> QED
      BY <2>7, <2>9, <3>1, <3>2
  <2>11. h(j) = [v |-> Append(p, x), at |-> (i + Extent(Uints(p))) + Len(w)]
    BY <2>1, <2>10
  <2>12. h(j - 1) = [v |-> p, at |-> i + Extent(Uints(p))]
    BY DEF p
  <2> QED
    <3> DEFINE m == i + Extent(Uints(p))
               e == m + Len(w)
    <3>1. ReadUint(m) = [v |-> x, at |-> e] /\ h(j) = [v |-> Append(p, x), at |-> e] /\ h(j - 1) = [v |-> p, at |-> m]
      BY <2>8, <2>11, <2>12
    <3> HIDE DEF m, e, h
    <3>2. h(j - 1).at = m /\ h(j - 1).v = p
      BY <3>1
    <3>3. ReadUint(h(j - 1).at).v = x /\ ReadUint(h(j - 1).at).at = e
      BY <3>1, <3>2
    <3>4. Then(h(j - 1)) = [v |-> Append(h(j - 1).v, ReadUint(h(j - 1).at).v), at |-> ReadUint(h(j - 1).at).at]
      BY Zenon DEF Then
    <3> QED
      BY <3>1, <3>2, <3>3, <3>4, Zenon
<1> DEFINE f == [j \in 0..n |-> h(j)]
<1>5. \A j \in 0..n : f[j] = h(j)
  OBVIOUS
<1>6. f = [j \in 0..n |-> f[j]]
  OBVIOUS
<1>7. h(n) = [v |-> values, at |-> i + Extent(Uints(values))]
  BY <1>0, UptoIs
<1> HIDE DEF h, f
<1>8. IsRead(f, n, i)
  <2>1. \A j \in 0..n : f[j] = IF j = 0 THEN [v |-> <<>>, at |-> i] ELSE Then(f[j - 1])
    <3> TAKE j \in 0..n
    <3>1. CASE j = 0
      BY <1>3, <1>5, <3>1
    <3>2. CASE j # 0
      <4>1. j \in 1..n /\ j - 1 \in 0..n
        BY <3>2
      <4>2. f[j] = Then(f[j - 1])
        BY <1>4, <1>5, <4>1
      <4> QED
        BY <3>2, <4>2
    <3> QED
      BY <3>1, <3>2
  <2> QED
    BY <1>6, <2>1, Zenon DEF IsRead
<1> DEFINE g == ReadAll(n, i)
<1>9. IsRead(g, n, i)
  BY <1>8, Zenon DEF ReadAll
<1> HIDE DEF g
<1>10. g[n] = h(n)
  <2>1. \A j \in 0..n : g[j] = IF j = 0 THEN [v |-> <<>>, at |-> i] ELSE Then(g[j - 1])
    BY <1>9, Zenon DEF IsRead
  <2> DEFINE G == {j \in Nat : j <= n => g[j] = h(j)}
  <2>2. 0 \in G
    BY <1>3, <2>1
  <2>3. ASSUME NEW j \in Nat, j \in G PROVE j + 1 \in G
    <3> SUFFICES ASSUME j + 1 <= n PROVE g[j + 1] = h(j + 1)
      OBVIOUS
    <3>1. j + 1 \in 0..n /\ j + 1 # 0 /\ (j + 1) - 1 = j /\ g[j] = h(j) /\ j + 1 \in 1..n
      BY <2>3
    <3>2. g[j + 1] = Then(g[(j + 1) - 1]) /\ h(j + 1) = Then(h((j + 1) - 1))
      BY <1>4, <2>1, <3>1
    <3> QED
      BY <3>1, <3>2
  <2>4. Nat \subseteq G
    <3> HIDE DEF G
    <3> QED
      BY <2>2, <2>3, AllNumbers
  <2> QED
    BY <2>4
<1> QED
  BY <1>0, <1>7, <1>10, ReadUintsWith DEF g

\* A flag, and what follows it if it is set.
LEMMA ReadOptionalBack ==
  ASSUME NEW flag \in BOOLEAN, NEW values \in Seq(Codable), NEW rest \in Seq(Seq(Bits)), NEW i,
         packed \in Seq(Bits), Stands(i, FlattenSeq(Optional(flag, Uints(values) \o rest)))
  PROVE  /\ flag => /\ ReadOptional(Len(values), i) = [v |-> values, at |-> (i + 1) + Extent(Uints(values))]
                    /\ Stands((i + 1) + Extent(Uints(values)), FlattenSeq(rest))
                    /\ Extent(Optional(flag, Uints(values) \o rest))
                          = (1 + Extent(Uints(values))) + Extent(rest)
         /\ ~flag => /\ \A n : ReadOptional(n, i) = [v |-> Base, at |-> i + 1]
                     /\ Extent(Optional(flag, Uints(values) \o rest)) = 1
         /\ Extent(Uints(values)) \in Nat /\ Extent(rest) \in Nat /\ i \in Nat \ {0}
<1> DEFINE U == Uints(values)
<1>1. U \in Seq(Seq(Bits)) /\ U \o rest \in Seq(Seq(Bits))
  BY UintsType, ConcatProperties
<1>2. Extent(U) \in Nat /\ Extent(rest) \in Nat
  <2>1. FlattenSeq(U) \in Seq(Bits) /\ FlattenSeq(rest) \in Seq(Bits)
    BY <1>1, FlatIs
  <2> QED
    BY <2>1, LenProperties DEF Extent
<1>3. i \in Nat \ {0}
  BY DEF Stands
<1> DEFINE one == <<1>>
           zero == <<0>>
<1>4. one \in Seq(Bits) /\ zero \in Seq(Bits) /\ Len(one) = 1 /\ Len(zero) = 1 /\ one[1] = 1 /\ zero[1] = 0
  BY DEF Bits
<1>5. CASE flag
  <2>1. Optional(flag, U \o rest) = <<one>> \o (U \o rest)
    BY <1>5, Zenon DEF Optional, encode_bool
  <2> DEFINE F == <<one>>
  <2> HIDE DEF one, zero, U
  <2>2. F \in Seq(Seq(Bits)) /\ FlattenSeq(F) = one
    BY <1>4, FlatOne
  <2>3. Extent(F) = 1
    BY <1>4, <2>2 DEF Extent
  <2>4. Stands(i, FlattenSeq(F \o (U \o rest)))
    BY <2>1 DEF U
  <2> HIDE DEF F
  <2>5. /\ Stands(i, FlattenSeq(F)) /\ Stands(i + Extent(F), FlattenSeq(U \o rest))
        /\ Extent(F \o (U \o rest)) = Extent(F) + Extent(U \o rest)
    <3> DEFINE V == U \o rest
    <3>1. V \in Seq(Seq(Bits)) /\ Stands(i, FlattenSeq(F \o V))
      BY <1>1, <2>4 DEF U
    <3> HIDE DEF V
    <3>2. /\ Stands(i, FlattenSeq(F)) /\ Stands(i + Extent(F), FlattenSeq(V))
          /\ Extent(F \o V) = Extent(F) + Extent(V) /\ Extent(F) \in Nat /\ Extent(V) \in Nat
      BY <2>2, <3>1, StandsWords
    <3> QED
      BY <3>2 DEF V
  <2>6. Stands(i + 1, FlattenSeq(U \o rest))
    BY <2>3, <2>5
  <2>7. /\ Stands(i + 1, FlattenSeq(U)) /\ Stands((i + 1) + Extent(U), FlattenSeq(rest))
        /\ Extent(U \o rest) = Extent(U) + Extent(rest)
    <3> DEFINE m == i + 1
    <3>1. Stands(m, FlattenSeq(U \o rest)) /\ U \in Seq(Seq(Bits))
      BY <1>1, <2>6
    <3> HIDE DEF m
    <3>2. /\ Stands(m, FlattenSeq(U)) /\ Stands(m + Extent(U), FlattenSeq(rest))
          /\ Extent(U \o rest) = Extent(U) + Extent(rest) /\ Extent(U) \in Nat /\ Extent(rest) \in Nat
      BY <3>1, StandsWords
    <3> QED
      BY <3>2 DEF m
  <2>8. Bit(i) = 1
    <3>1. Stands(i, one)
      BY <2>2, <2>5
    <3>2. PICK P \in Nat : P = Len(packed)
      BY LenProperties
    <3>3. i <= P /\ packed[i + 1 - 1] = 1
      BY <1>3, <1>4, <3>1, <3>2 DEF Stands
    <3> QED
      BY <1>3, <3>2, <3>3 DEF Bit
  <2>9. ReadUints(Len(values), i + 1) = [v |-> values, at |-> (i + 1) + Extent(U)]
    BY <2>7, ReadUintsBack DEF U
  <2>10. ReadOptional(Len(values), i) = [v |-> values, at |-> (i + 1) + Extent(U)]
    BY <2>8, <2>9 DEF ReadOptional
  <2>11. Extent(Optional(flag, U \o rest)) = (1 + Extent(U)) + Extent(rest)
    <3>1. Optional(flag, U \o rest) = F \o (U \o rest)
      BY <2>1 DEF F
    <3> QED
      BY <1>2, <2>3, <2>5, <2>7, <3>1
  <2> QED
    BY <1>2, <1>3, <1>5, <2>7, <2>10, <2>11 DEF U
<1>6. CASE ~flag
  <2>1. Optional(flag, U \o rest) = <<zero>>
    BY <1>6, Zenon DEF Optional, encode_bool
  <2> HIDE DEF one, zero, U
  <2>2. FlattenSeq(<<zero>>) = zero
    BY <1>4, FlatOne
  <2>3. Stands(i, zero)
    BY <2>1, <2>2 DEF U
  <2>4. Bit(i) = 0
    <3>1. PICK P \in Nat : P = Len(packed)
      BY LenProperties
    <3>2. i <= P /\ packed[i + 1 - 1] = 0
      BY <1>3, <1>4, <2>3, <3>1 DEF Stands
    <3> QED
      BY <1>3, <3>1, <3>2 DEF Bit
  <2>5. \A n : ReadOptional(n, i) = [v |-> Base, at |-> i + 1]
    BY <2>4, Zenon DEF ReadOptional
  <2>6. Extent(Optional(flag, U \o rest)) = 1
    BY <1>4, <2>1, <2>2 DEF Extent
  <2> QED
    BY <1>2, <1>3, <1>6, <2>5, <2>6 DEF U
<1> QED
  BY <1>5, <1>6

\* A part of the colour specification.
LEMMA PartBack ==
  ASSUME NEW flag \in BOOLEAN, NEW values \in Seq(Codable), Len(values) = 1, NEW i,
         packed \in Seq(Bits), Stands(i, FlattenSeq(Optional(flag, Uints(values))))
  PROVE  ReadOptional(1, i) = [v |-> IF flag THEN values ELSE Base,
                               at |-> i + Extent(Optional(flag, Uints(values)))]
<1> DEFINE U == Uints(values)
           none == <<>>
<1>1. U \in Seq(Seq(Bits)) /\ none \in Seq(Seq(Bits))
  BY UintsType
<1>2. U \o none = U
  BY <1>1, ConcatEmptySeq
<1>3. Extent(none) = 0
  BY FlatEmpty DEF Extent
<1> HIDE DEF none
<1>4. Stands(i, FlattenSeq(Optional(flag, Uints(values) \o none)))
  BY <1>2
<1>5. /\ flag => /\ ReadOptional(Len(values), i) = [v |-> values, at |-> (i + 1) + Extent(U)]
                 /\ Extent(Optional(flag, U \o none)) = (1 + Extent(U)) + Extent(none)
      /\ ~flag => /\ \A n : ReadOptional(n, i) = [v |-> Base, at |-> i + 1]
                  /\ Extent(Optional(flag, U \o none)) = 1
      /\ Extent(U) \in Nat /\ i \in Nat \ {0}
  BY <1>1, <1>4, ReadOptionalBack
<1> HIDE DEF U
<1>6. CASE flag
  <2>1. Extent(Optional(flag, U)) = (1 + Extent(U)) + Extent(none)
    BY <1>2, <1>5, <1>6
  <2>2. (i + 1) + Extent(U) = i + Extent(Optional(flag, U))
    BY <1>3, <1>5, <2>1
  <2>3. ReadOptional(1, i) = [v |-> values, at |-> i + Extent(Optional(flag, U))]
    BY <1>5, <1>6, <2>2
  <2> QED
    BY <1>6, <2>3, Zenon DEF U
<1>7. CASE ~flag
  <2>1. Extent(Optional(flag, U)) = 1
    BY <1>2, <1>5, <1>7
  <2>2. ReadOptional(1, i) = [v |-> Base, at |-> i + Extent(Optional(flag, U))]
    BY <1>5, <1>7, <2>1
  <2> QED
    BY <1>7, <2>2, Zenon DEF U
<1> QED
  BY <1>6, <1>7

PartOf(f, i) == IF f[ColorSpec].parts[i].flag THEN f[ColorSpec].parts[i].values ELSE Base

LEMMA ReadPartsBack ==
  ASSUME NEW f \in Formats, NEW i, packed \in Seq(Bits), Stands(i, FlattenSeq(FlattenSeq(PartWords(f))))
  PROVE  ReadParts(i) = [v |-> [j \in 1..3 |-> PartOf(f, j)], at |-> i + Extent(FlattenSeq(PartWords(f)))]
<1> DEFINE W == PartWords(f)
<1>1. /\ W \in Seq(Seq(Seq(Bits))) /\ Len(W) = 3
      /\ \A j \in 1..3 : /\ f[ColorSpec].parts[j].flag \in BOOLEAN
                         /\ f[ColorSpec].parts[j].values \in Seq(Codable)
                         /\ Len(f[ColorSpec].parts[j].values) = 1
  BY PartsType
<1>2. \A j \in 1..3 : W[j] = Optional(f[ColorSpec].parts[j].flag, Uints(f[ColorSpec].parts[j].values))
  BY DEF PartWords
<1> HIDE DEF W
<1>3. \A j \in 1..3 : W[j] \in Seq(Seq(Bits))
  BY <1>1, ElementOfSeq
<1>4. ASSUME NEW j \in 1..3, NEW k, Stands(k, FlattenSeq(W[j]))
      PROVE  ReadOptional(1, k) = [v |-> PartOf(f, j), at |-> k + Extent(W[j])]
  <2> DEFINE flag == f[ColorSpec].parts[j].flag
             values == f[ColorSpec].parts[j].values
  <2>1. flag \in BOOLEAN /\ values \in Seq(Codable) /\ Len(values) = 1 /\ W[j] = Optional(flag, Uints(values))
    BY <1>1, <1>2
  <2>2. PartOf(f, j) = IF flag THEN values ELSE Base
    BY DEF PartOf
  <2> HIDE DEF flag, values
  <2>3. Stands(k, FlattenSeq(Optional(flag, Uints(values))))
    BY <1>4, <2>1
  <2>4. ReadOptional(1, k) = [v |-> IF flag THEN values ELSE Base,
                              at |-> k + Extent(Optional(flag, Uints(values)))]
    BY <2>1, <2>3, PartBack
  <2> QED
    BY <2>1, <2>2, <2>4, Zenon
<1> DEFINE a == W[1]
           b == W[2]
           c == W[3]
<1>5. FlattenSeq(W) = a \o (b \o c) /\ b \o c \in Seq(Seq(Bits))
  <2>1. W = <<a>> \o (<<b>> \o <<c>>)
    BY <1>1
  <2>2. a \in Seq(Seq(Bits)) /\ b \in Seq(Seq(Bits)) /\ c \in Seq(Seq(Bits))
    BY <1>3
  <2> DEFINE A == <<a>>
             B == <<b>>
             C == <<c>>
  <2> HIDE DEF a, b, c
  <2>3. A \in Seq(Seq(Seq(Bits))) /\ B \in Seq(Seq(Seq(Bits))) /\ C \in Seq(Seq(Seq(Bits)))
    BY <2>2, FlatOne
  <2>4. FlattenSeq(A) = a /\ FlattenSeq(B) = b /\ FlattenSeq(C) = c
    BY <2>2, FlatOne
  <2> HIDE DEF A, B, C
  <2>5. B \o C \in Seq(Seq(Seq(Bits)))
    BY <2>3, ConcatProperties
  <2>6. FlattenSeq(B \o C) = FlattenSeq(B) \o FlattenSeq(C)
    BY <2>3, FlatConcat
  <2>7. FlattenSeq(A \o (B \o C)) = FlattenSeq(A) \o FlattenSeq(B \o C)
    BY <2>3, <2>5, FlatConcat
  <2>8. b \o c \in Seq(Seq(Bits))
    BY <2>2, ConcatProperties
  <2> QED
    BY <2>1, <2>4, <2>6, <2>7, <2>8 DEF A, B, C
<1>6. a \in Seq(Seq(Bits)) /\ b \in Seq(Seq(Bits)) /\ c \in Seq(Seq(Bits))
  BY <1>3
<1>7. Stands(i, FlattenSeq(a \o (b \o c)))
  BY <1>5 DEF W
<1>8. /\ Stands(i, FlattenSeq(a)) /\ Stands(i + Extent(a), FlattenSeq(b \o c)) /\ Extent(a) \in Nat
      /\ Extent(a \o (b \o c)) = Extent(a) + Extent(b \o c)
  <2> DEFINE d == b \o c
  <2>1. d \in Seq(Seq(Bits)) /\ Stands(i, FlattenSeq(a \o d))
    BY <1>5, <1>7
  <2> HIDE DEF a, b, c, d
  <2>2. /\ Stands(i, FlattenSeq(a)) /\ Stands(i + Extent(a), FlattenSeq(d))
        /\ Extent(a \o d) = Extent(a) + Extent(d) /\ Extent(a) \in Nat /\ Extent(d) \in Nat
    BY <1>6, <2>1, StandsWords
  <2> QED
    BY <2>2 DEF d
<1>9. /\ Stands(i + Extent(a), FlattenSeq(b)) /\ Stands((i + Extent(a)) + Extent(b), FlattenSeq(c))
      /\ Extent(b \o c) = Extent(b) + Extent(c) /\ Extent(b) \in Nat /\ Extent(c) \in Nat
  <2> DEFINE k == i + Extent(a)
  <2>1. Stands(k, FlattenSeq(b \o c))
    BY <1>8
  <2> HIDE DEF a, b, c, k
  <2>2. /\ Stands(k, FlattenSeq(b)) /\ Stands(k + Extent(b), FlattenSeq(c))
        /\ Extent(b \o c) = Extent(b) + Extent(c) /\ Extent(b) \in Nat /\ Extent(c) \in Nat
    BY <1>6, <2>1, StandsWords
  <2> QED
    BY <2>2 DEF k
<1> DEFINE m == i + Extent(a)
           n == m + Extent(b)
           e == n + Extent(c)
<1>10. /\ ReadOptional(1, i) = [v |-> PartOf(f, 1), at |-> m]
       /\ ReadOptional(1, m) = [v |-> PartOf(f, 2), at |-> n]
       /\ ReadOptional(1, n) = [v |-> PartOf(f, 3), at |-> e]
  <2>1. 1 \in 1..3 /\ 2 \in 1..3 /\ 3 \in 1..3
    OBVIOUS
  <2> QED
    BY <1>4, <1>8, <1>9, <2>1
<1>11. e = i + Extent(FlattenSeq(W))
  <2>1. i \in Nat
    BY DEF Stands
  <2> HIDE DEF a, b, c
  <2> QED
    BY <1>5, <1>8, <1>9, <2>1
<1> HIDE DEF m, n, e, a, b, c
<1>12. ReadParts(i) = [v |-> <<PartOf(f, 1), PartOf(f, 2), PartOf(f, 3)>>, at |-> e]
  BY <1>10 DEF ReadParts
<1>13. <<PartOf(f, 1), PartOf(f, 2), PartOf(f, 3)>> = [j \in 1..3 |-> PartOf(f, j)]
  OBVIOUS
<1> QED
  BY <1>11, <1>12, <1>13, Zenon DEF W

\* The alternatives of a group: what the reader does, what the encoder works
\* with and what the header has behind the values.
LEMMA ReadGroupCases ==
  ASSUME NEW g \in 1..8, NEW i, NEW r, r = ReadOptional(Groups[g], i)
  PROVE  /\ r.v = <<0>> /\ g \in {FrameRate, PixelAspectRatio} => ReadGroup(g, i) = ReadUints(2, r.at)
         /\ r.v = <<0>> /\ g = ColorSpec => ReadGroup(g, i) = ReadParts(r.at)
         /\ r.v # <<0>> \/ g \notin {FrameRate, PixelAspectRatio, ColorSpec} => ReadGroup(g, i) = r
<1>1. ColorSpec \notin {FrameRate, PixelAspectRatio}
  BY DEF ColorSpec, FrameRate, PixelAspectRatio
<1>2. ReadGroup(g, i) = CASE r.v = <<0>> /\ g \in {FrameRate, PixelAspectRatio} -> ReadUints(2, r.at)
                          [] r.v = <<0>> /\ g = ColorSpec -> ReadParts(r.at)
                          [] OTHER -> r
  BY Zenon DEF ReadGroup
<1> DEFINE z == r.v = <<0>>
<1> HIDE DEF z
<1>3. ReadGroup(g, i) = CASE z /\ g \in {FrameRate, PixelAspectRatio} -> ReadUints(2, r.at)
                          [] z /\ g = ColorSpec -> ReadParts(r.at)
                          [] OTHER -> r
  BY <1>2, Zenon DEF z
<1>4. CASE z /\ g \in {FrameRate, PixelAspectRatio}
  BY <1>1, <1>3, <1>4 DEF z
<1>5. CASE z /\ g = ColorSpec
  BY <1>1, <1>3, <1>5 DEF z
<1>6. CASE ~z \/ g \notin {FrameRate, PixelAspectRatio, ColorSpec}
  BY <1>1, <1>3, <1>6 DEF z
<1> QED
  BY <1>4, <1>5, <1>6 DEF z

LEMMA FormatCases ==
  ASSUME NEW g \in 1..8
  PROVE  LET p == video_format[g] IN
         /\ ~p.flag => mVideoFormat[g] = Base
         /\ p.flag /\ g \in {FrameRate, PixelAspectRatio} /\ p.values[1] = 0 => mVideoFormat[g] = p.ratio
         /\ p.flag /\ g = ColorSpec /\ p.values[1] = 0
              => mVideoFormat[g] = [i \in 1..3 |-> PartOf(video_format, i)]
         /\ p.flag /\ (g \notin {FrameRate, PixelAspectRatio, ColorSpec} \/ p.values[1] # 0)
              => mVideoFormat[g] = p.values
<1> DEFINE p == video_format[g]
           a == p.flag
           z == p.values[1] = 0
           parts == [i \in 1..3 |-> IF p.parts[i].flag THEN p.parts[i].values ELSE Base]
<1>1. ColorSpec \notin {FrameRate, PixelAspectRatio}
  BY DEF ColorSpec, FrameRate, PixelAspectRatio
<1>2. mVideoFormat[g] = IF ~a THEN Base
                        ELSE CASE g \in {FrameRate, PixelAspectRatio} /\ z -> p.ratio
                               [] g = ColorSpec /\ z -> parts
                               [] OTHER -> p.values
  BY Zenon DEF mVideoFormat
<1>3. g = ColorSpec => parts = [i \in 1..3 |-> PartOf(video_format, i)]
  BY Zenon DEF PartOf
<1> HIDE DEF a, z, parts, p
<1>4. ~a => mVideoFormat[g] = Base
  BY <1>2
<1>5. a /\ g \in {FrameRate, PixelAspectRatio} /\ z => mVideoFormat[g] = p.ratio
  BY <1>1, <1>2
<1>6. a /\ g = ColorSpec /\ z => mVideoFormat[g] = parts
  BY <1>1, <1>2
<1>7. a /\ (g \notin {FrameRate, PixelAspectRatio, ColorSpec} \/ ~z) => mVideoFormat[g] = p.values
  BY <1>1, <1>2
<1> QED
  BY <1>3, <1>4, <1>5, <1>6, <1>7, Zenon DEF a, z, p

LEMMA RestCases ==
  ASSUME NEW f, NEW g \in 1..8
  PROVE  /\ g \in {FrameRate, PixelAspectRatio} => Rest(f, g) = RatioOf(f, g)
         /\ g = ColorSpec => Rest(f, g) = PartsOf(f)
         /\ g \notin {FrameRate, PixelAspectRatio, ColorSpec} => Rest(f, g) = <<>>
<1>1. ColorSpec \notin {FrameRate, PixelAspectRatio}
  BY DEF ColorSpec, FrameRate, PixelAspectRatio
<1>2. CASE g \in {FrameRate, PixelAspectRatio}
  BY <1>1, <1>2 DEF Rest
<1>3. CASE g = ColorSpec
  BY <1>1, <1>3 DEF Rest
<1>4. CASE g \notin {FrameRate, PixelAspectRatio, ColorSpec}
  BY <1>1, <1>4 DEF Rest
<1> QED
  BY <1>1, <1>2, <1>3, <1>4

\* Of one group the reader finds what the encoder works with.
LEMMA ReadGroupBack ==
  ASSUME Chosen, RatiosAlike, NEW g \in 1..8, NEW i, packed \in Seq(Bits),
         Stands(i, FlattenSeq(SourceParameter(video_format, g)))
  PROVE  ReadGroup(g, i) = [v |-> mVideoFormat[g], at |-> i + Extent(SourceParameter(video_format, g))]
<1> DEFINE f == video_format
           flag == f[g].flag
           values == f[g].values
           R == Rest(f, g)
           S == SourceParameter(f, g)
           special == {FrameRate, PixelAspectRatio, ColorSpec}
           r == ReadOptional(Groups[g], i)
<1>1. f \in Formats
  BY DEF Chosen
<1>2. flag \in BOOLEAN /\ values \in Seq(Codable) /\ Len(values) = Groups[g]
  BY <1>1, FormatType
<1>3. R \in Seq(Seq(Bits)) /\ S = Optional(flag, Uints(values) \o R)
  BY <1>1, GroupType
<1>4. g \in special => (values = <<0>> <=> values[1] = 0)
  <2>1. g \in special => Len(values) = 1
    BY <1>2 DEF Groups, FrameRate, PixelAspectRatio, ColorSpec
  <2>2. Len(values) = 1 => values = <<values[1]>>
    BY <1>2
  <2> HIDE DEF values, special
  <2> QED
    BY <2>1, <2>2
<1>5. /\ ~flag => mVideoFormat[g] = Base
      /\ flag /\ g \in {FrameRate, PixelAspectRatio} /\ values[1] = 0 => mVideoFormat[g] = f[g].ratio
      /\ flag /\ g = ColorSpec /\ values[1] = 0 => mVideoFormat[g] = [j \in 1..3 |-> PartOf(f, j)]
      /\ flag /\ (g \notin special \/ values[1] # 0) => mVideoFormat[g] = values
  BY FormatCases
<1>6. /\ r.v = <<0>> /\ g \in {FrameRate, PixelAspectRatio} => ReadGroup(g, i) = ReadUints(2, r.at)
      /\ r.v = <<0>> /\ g = ColorSpec => ReadGroup(g, i) = ReadParts(r.at)
      /\ r.v # <<0>> \/ g \notin special => ReadGroup(g, i) = r
  BY ReadGroupCases
<1>7. Stands(i, FlattenSeq(Optional(flag, Uints(values) \o R)))
  BY <1>3
<1> HIDE DEF values, flag, R, r, S
<1>8. /\ flag => /\ ReadOptional(Len(values), i) = [v |-> values, at |-> (i + 1) + Extent(Uints(values))]
                 /\ Stands((i + 1) + Extent(Uints(values)), FlattenSeq(R))
                 /\ Extent(Optional(flag, Uints(values) \o R))
                       = (1 + Extent(Uints(values))) + Extent(R)
      /\ ~flag => /\ \A n : ReadOptional(n, i) = [v |-> Base, at |-> i + 1]
                  /\ Extent(Optional(flag, Uints(values) \o R)) = 1
      /\ Extent(Uints(values)) \in Nat /\ Extent(R) \in Nat /\ i \in Nat \ {0}
  BY <1>2, <1>3, <1>7, ReadOptionalBack
<1>9. CASE ~flag
  <2>1. r = [v |-> Base, at |-> i + 1] /\ Extent(S) = 1
    BY <1>3, <1>8, <1>9 DEF r
  <2>2. r.v # <<0>>
    <3>1. r.v = <<>>
      BY <2>1 DEF Base
    <3> QED
      BY <3>1
  <2>3. ReadGroup(g, i) = r /\ mVideoFormat[g] = Base
    BY <1>5, <1>6, <1>9, <2>2
  <2> QED
    BY <2>1, <2>3 DEF S
<1>10. CASE flag
  <2> DEFINE m == (i + 1) + Extent(Uints(values))
  <2>1. /\ r = [v |-> values, at |-> m] /\ Stands(m, FlattenSeq(R))
        /\ Extent(S) = (1 + Extent(Uints(values))) + Extent(R)
    BY <1>2, <1>3, <1>8, <1>10 DEF r
  <2>2. r.v = values /\ r.at = m /\ i + Extent(S) = m + Extent(R)
    BY <1>8, <2>1
  <2>3. m \in Nat
    BY <1>8
  <2> HIDE DEF m
  <2>4. CASE g \notin special \/ values[1] # 0
    <3>1. R = <<>>
      <4>1. g \in {FrameRate, PixelAspectRatio} /\ values[1] # 0 => RatioOf(f, g) = <<>>
        <5>1. g = FrameRate /\ values[1] # 0 => f[FrameRate].values[1] # 0
          BY DEF values
        <5>2. g = PixelAspectRatio /\ values[1] # 0 => f[FrameRate].values[1] # 0
          BY <1>10 DEF RatiosAlike, values, flag
        <5>3. g \in {FrameRate, PixelAspectRatio} => g = FrameRate \/ g = PixelAspectRatio
          OBVIOUS
        <5> QED
          BY <5>1, <5>2, <5>3, Zenon DEF RatioOf
      <4>2. g = ColorSpec /\ values[1] # 0 => PartsOf(f) = <<>>
        BY <1>1, PartsType DEF values
      <4>3. g \in special => g \in {FrameRate, PixelAspectRatio} \/ g = ColorSpec
        OBVIOUS
      <4> QED
        BY <2>4, <4>1, <4>2, <4>3, RestCases DEF R
    <3>2. Extent(R) = 0
      BY <3>1, FlatEmpty DEF Extent
    <3>3. ReadGroup(g, i) = r
      BY <1>4, <1>6, <2>2, <2>4
    <3>4. mVideoFormat[g] = values
      BY <1>5, <1>10, <2>4
    <3>5. i + Extent(S) = m
      BY <2>2, <2>3, <3>2
    <3> QED
      BY <2>1, <3>3, <3>4, <3>5 DEF S
  <2>5. CASE g \in {FrameRate, PixelAspectRatio} /\ values[1] = 0
    <3> DEFINE ratio == f[g].ratio
    <3>1. ratio \in Seq(Codable) /\ Len(ratio) = 2
      BY <1>1, <2>5, FormatType
    <3>2. R = Uints(ratio)
      <4>1. f[FrameRate].values[1] = 0
        <5>1. g = FrameRate => f[FrameRate].values[1] = 0
          BY <2>5 DEF values
        <5>2. g = PixelAspectRatio => f[FrameRate].values[1] = 0
          BY <1>10, <2>5 DEF RatiosAlike, values, flag
        <5> QED
          BY <2>5, <5>1, <5>2
      <4>2. RatioOf(f, g) = Uints(f[g].ratio)
        BY <4>1, Zenon DEF RatioOf
      <4> QED
        BY <2>5, <4>2, RestCases DEF R
    <3>3. g \in special
      BY <2>5
    <3>4. mVideoFormat[g] = ratio /\ ReadGroup(g, i) = ReadUints(2, m)
      BY <1>4, <1>5, <1>6, <1>10, <2>2, <2>5, <3>3
    <3> HIDE DEF ratio
    <3>5. ReadUints(2, m) = [v |-> ratio, at |-> m + Extent(R)]
      BY <2>1, <3>1, <3>2, ReadUintsBack
    <3> QED
      BY <2>2, <3>4, <3>5 DEF S
  <2>6. CASE g = ColorSpec /\ values[1] = 0
    <3>1. R = FlattenSeq(PartWords(f))
      <4>1. PartsOf(f) = FlattenSeq(PartWords(f))
        BY <1>1, <2>6, PartsType DEF values
      <4> QED
        BY <2>6, <4>1, RestCases DEF R
    <3>2. g \in special
      BY <2>6
    <3>3. mVideoFormat[g] = [j \in 1..3 |-> PartOf(f, j)] /\ ReadGroup(g, i) = ReadParts(m)
      BY <1>4, <1>5, <1>6, <1>10, <2>2, <2>6, <3>2
    <3>4. Stands(m, FlattenSeq(FlattenSeq(PartWords(f))))
      BY <2>1, <3>1
    <3> HIDE DEF f
    <3>5. ReadParts(m) = [v |-> [j \in 1..3 |-> PartOf(f, j)], at |-> m + Extent(FlattenSeq(PartWords(f)))]
      BY <1>1, <3>4, ReadPartsBack
    <3> QED
      BY <2>2, <3>1, <3>3, <3>5, Zenon DEF S, f
  <2>7. g \in special => g \in {FrameRate, PixelAspectRatio} \/ g = ColorSpec
    OBVIOUS
  <2> QED
    BY <2>4, <2>5, <2>6, <2>7
<1> QED
  BY <1>2, <1>9, <1>10

ThenGroup(g, before) ==
  LET r == ReadGroup(g, before.at) IN [v |-> Append(before.v, r.v), at |-> r.at]
AreGroups(h, i) == h = [g \in 0..8 |-> IF g = 0 THEN [v |-> <<>>, at |-> i] ELSE ThenGroup(g, h[g - 1])]
GroupsAt(i) == CHOOSE h : AreGroups(h, i)

LEMMA ReadGroupsWith ==
  \A i : ReadGroups(i) = GroupsAt(i)[8]
BY Zenon DEF ReadGroups, GroupsAt, AreGroups, ThenGroup

\* One group after the other.
LEMMA ReadGroupsBack ==
  ASSUME Chosen, RatiosAlike, NEW i, packed \in Seq(Bits),
         Stands(i, FlattenSeq(FlattenSeq(GroupWords(video_format))))
  PROVE  ReadGroups(i) = [v |-> mVideoFormat, at |-> i + Extent(FlattenSeq(GroupWords(video_format)))]
<1> DEFINE W == GroupWords(video_format)
           M == mVideoFormat
           S == {M[g] : g \in 1..8}
           h(j) == [v |-> Upto(M, j), at |-> i + Extent(FlattenSeq(Upto(W, j)))]
<1>1. W \in Seq(Seq(Seq(Bits))) /\ Len(W) = 8 /\ \A g \in 1..8 : W[g] = SourceParameter(video_format, g)
  BY HeaderType DEF GroupWords
<1>2. M \in Seq(S) /\ Len(M) = 8
  <2>2. 8 \in Nat
    OBVIOUS
  <2>3. DOMAIN M = 1..8 /\ M = [g \in 1..8 |-> M[g]]
    BY DEF mVideoFormat
  <2> HIDE DEF M
  <2>4. \A g \in 1..8 : M[g] \in S
    OBVIOUS
  <2> HIDE DEF S
  <2>1. DOMAIN M = 1..8 /\ M = [g \in 1..8 |-> M[g]] /\ \A g \in 1..8 : M[g] \in S
    BY <2>3, <2>4
  <2> QED
    BY ONLY <2>1, <2>2, TupleType
<1>3. i \in Nat \ {0} /\ Stands(i, FlattenSeq(FlattenSeq(W)))
  BY DEF Stands
<1> HIDE DEF W, M, S, h
<1>4. \A j \in 0..8 : Upto(W, j) \in Seq(Seq(Seq(Bits))) /\ FlattenSeq(Upto(W, j)) \in Seq(Seq(Bits))
  <2>1. \A j \in 0..8 : Upto(W, j) \in Seq(Seq(Seq(Bits)))
    BY <1>1, UptoIs
  <2> QED
    BY <2>1, FlatIs
<1>5. ASSUME NEW j \in 0..8
      PROVE  Stands(i, FlattenSeq(FlattenSeq(Upto(W, j))))
  <2>1. PICK t \in Seq(Seq(Seq(Bits))) : W = Upto(W, j) \o t
    <3>1. j \in 0..Len(W)
      BY <1>1
    <3> QED
      BY <1>1, <3>1, UptoRest
  <2> DEFINE a == FlattenSeq(Upto(W, j))
             b == FlattenSeq(t)
  <2>2. FlattenSeq(Upto(W, j) \o t) = a \o b
    BY <1>4, FlatConcat
  <2>3. a \in Seq(Seq(Bits)) /\ b \in Seq(Seq(Bits))
    BY <1>4, FlatIs
  <2>4. Stands(i, FlattenSeq(a \o b))
    BY <1>3, <2>1, <2>2, Zenon
  <2> HIDE DEF a, b
  <2>5. /\ Stands(i, FlattenSeq(a)) /\ Stands(i + Extent(a), FlattenSeq(b))
        /\ Extent(a \o b) = Extent(a) + Extent(b) /\ Extent(a) \in Nat /\ Extent(b) \in Nat
    BY <2>3, <2>4, StandsWords
  <2> QED
    BY <2>5 DEF a
<1>6. h(0) = [v |-> <<>>, at |-> i]
  <2>1. Upto(W, 0) = <<>> /\ Upto(M, 0) = <<>>
    BY <1>1, <1>2, UptoIs
  <2>2. Extent(FlattenSeq(<<>>)) = 0
    BY FlatEmpty DEF Extent
  <2> QED
    BY <1>3, <2>1, <2>2 DEF h
<1>7. ASSUME NEW j \in 1..8
      PROVE  h(j) = ThenGroup(j, h(j - 1))
  <2> DEFINE w == W[j]
             p == Upto(W, j - 1)
             a == FlattenSeq(p)
             m == i + Extent(a)
             e == m + Extent(w)
  <2>1. j - 1 \in 0..8 /\ j \in 0..8 /\ j \in 1..Len(W) /\ j \in 1..Len(M)
    BY <1>1, <1>2
  <2>2. /\ Upto(W, j) = p \o <<w>> /\ Upto(M, j) = Append(Upto(M, j - 1), M[j])
        /\ w \in Seq(Seq(Bits)) /\ w = SourceParameter(video_format, j)
    BY <1>1, <1>2, <2>1, UptoIs, ElementOfSeq
  <2>3. p \in Seq(Seq(Seq(Bits))) /\ a \in Seq(Seq(Bits))
    BY <1>4, <2>1
  <2> HIDE DEF w, p
  <2> DEFINE o == <<w>>
  <2>4. o \in Seq(Seq(Seq(Bits))) /\ FlattenSeq(o) = w
    BY <2>2, FlatOne
  <2> HIDE DEF o
  <2>5. FlattenSeq(Upto(W, j)) = a \o w
    <3>1. FlattenSeq(p \o o) = FlattenSeq(p) \o FlattenSeq(o)
      BY <2>3, <2>4, FlatConcat
    <3> QED
      BY <2>2, <2>4, <3>1 DEF o
  <2>6. Stands(i, FlattenSeq(a \o w))
    BY <1>5, <2>1, <2>5
  <2> HIDE DEF a
  <2>7. /\ Stands(i, FlattenSeq(a)) /\ Stands(i + Extent(a), FlattenSeq(w))
        /\ Extent(a \o w) = Extent(a) + Extent(w) /\ Extent(a) \in Nat /\ Extent(w) \in Nat
    <3>1. w \in Seq(Seq(Bits)) /\ a \in Seq(Seq(Bits))
      BY <2>2, <2>3
    <3> QED
      BY <2>6, <3>1, StandsWords
  <2>8. ReadGroup(j, m) = [v |-> M[j], at |-> e]
    <3>1. Stands(m, FlattenSeq(SourceParameter(video_format, j)))
      BY <2>2, <2>7
    <3> HIDE DEF m
    <3>2. ReadGroup(j, m) = [v |-> mVideoFormat[j], at |-> m + Extent(SourceParameter(video_format, j))]
      BY <3>1, ReadGroupBack
    <3> QED
      BY <2>2, <3>2 DEF M
  <2>9. e = i + Extent(a \o w)
    BY <1>3, <2>7
  <2>10. h(j) = [v |-> Append(Upto(M, j - 1), M[j]), at |-> e]
    BY <2>2, <2>5, <2>9, Zenon DEF h
  <2>11. h(j - 1) = [v |-> Upto(M, j - 1), at |-> m]
    BY Zenon DEF h, a, p
  <2> HIDE DEF m, e
  <2>12. h(j - 1).at = m /\ h(j - 1).v = Upto(M, j - 1)
    BY <2>11
  <2>13. ReadGroup(j, h(j - 1).at).v = M[j] /\ ReadGroup(j, h(j - 1).at).at = e
    BY <2>8, <2>12
  <2>14. ThenGroup(j, h(j - 1))
           = [v |-> Append(h(j - 1).v, ReadGroup(j, h(j - 1).at).v), at |-> ReadGroup(j, h(j - 1).at).at]
    BY Zenon DEF ThenGroup
  <2> QED
    BY <2>10, <2>12, <2>13, <2>14, Zenon
<1>8. h(8) = [v |-> M, at |-> i + Extent(FlattenSeq(W))]
  <2>1. Upto(W, 8) = W /\ Upto(M, 8) = M
    BY <1>1, <1>2, UptoIs
  <2> QED
    BY <2>1, Zenon DEF h
<1> DEFINE f == [j \in 0..8 |-> h(j)]
<1>9. AreGroups(f, i)
  <2>1. \A j \in 0..8 : f[j] = h(j)
    OBVIOUS
  <2>2. f = [j \in 0..8 |-> f[j]]
    OBVIOUS
  <2> HIDE DEF f
  <2>3. \A j \in 0..8 : f[j] = IF j = 0 THEN [v |-> <<>>, at |-> i] ELSE ThenGroup(j, f[j - 1])
    <3> TAKE j \in 0..8
    <3>1. CASE j = 0
      BY <1>6, <2>1, <3>1
    <3>2. CASE j # 0
      <4>1. j \in 1..8 /\ j - 1 \in 0..8
        BY <3>2
      <4>2. f[j] = ThenGroup(j, f[j - 1])
        BY <1>7, <2>1, <4>1
      <4> QED
        BY <3>2, <4>2
    <3> QED
      BY <3>1, <3>2
  <2> QED
    BY <2>2, <2>3, Zenon DEF AreGroups
<1> HIDE DEF f
<1> DEFINE g == GroupsAt(i)
<1>10. AreGroups(g, i)
  BY <1>9, Zenon DEF GroupsAt
<1> HIDE DEF g
<1>11. g[8] = h(8)
  <2>1. \A j \in 0..8 : g[j] = IF j = 0 THEN [v |-> <<>>, at |-> i] ELSE ThenGroup(j, g[j - 1])
    BY <1>10, Zenon DEF AreGroups
  <2> DEFINE G == {j \in Nat : j <= 8 => g[j] = h(j)}
  <2>2. 0 \in G
    BY <1>6, <2>1
  <2>3. ASSUME NEW j \in Nat, j \in G PROVE j + 1 \in G
    <3> SUFFICES ASSUME j + 1 <= 8 PROVE g[j + 1] = h(j + 1)
      OBVIOUS
    <3>1. j + 1 \in 0..8 /\ j + 1 # 0 /\ (j + 1) - 1 = j /\ g[j] = h(j) /\ j + 1 \in 1..8
      BY <2>3
    <3>2. g[j + 1] = ThenGroup(j + 1, g[(j + 1) - 1]) /\ h(j + 1) = ThenGroup(j + 1, h((j + 1) - 1))
      BY <1>7, <2>1, <3>1
    <3> QED
      BY <3>1, <3>2
  <2>4. Nat \subseteq G
    <3> HIDE DEF G
    <3> QED
      BY <2>2, <2>3, AllNumbers
  <2> QED
    BY <2>4
<1> QED
  BY <1>8, <1>11, ReadGroupsWith, Zenon DEF g, M, W

\* What the invariant says of the header, read by a decoder.
LEMMA HeaderRead ==
  ASSUME HeaderInv, phase = "new", RatiosAlike
  PROVE  FormatReadBack
<1> DEFINE T == FlattenSeq(Header)
           M == FlattenSeq(GroupWords(video_format))
           five == <<version, 0, 3, level, base_video_format>>
<1>1. Chosen /\ packed \in Seq(Bits)
  BY DEF HeaderInv
<1>2. /\ FirstWords = Uints(five) /\ five \in Seq(Codable) /\ FirstWords \in Seq(Seq(Bits))
      /\ M \in Seq(Seq(Bits)) /\ LastWord \in Seq(Seq(Bits)) /\ picture_coding_mode \in Codable
      /\ Header = (FirstWords \o M) \o LastWord /\ Header \in Seq(Seq(Bits))
  BY <1>1, HeaderType
<1>3. Stands(1, T)
  <2>1. Len(packed) >= Len(T) /\ \A j \in 1..Len(packed) : packed[j] = IF j <= Len(T) THEN T[j] ELSE 1
    BY DEF HeaderInv
  <2>2. PICK n \in Nat : n = Len(T)
    <3>1. T \in Seq(Bits)
      BY <1>2, FlatIs
    <3> QED
      BY <3>1, LenProperties
  <2>3. PICK P \in Nat : P = Len(packed)
    BY <1>1, LenProperties
  <2> HIDE DEF T
  <2>4. ASSUME NEW j \in 1..n PROVE packed[1 + j - 1] = T[j]
    <3>1. j \in 1..P /\ j <= n /\ 1 + j - 1 = j
      BY <2>1, <2>2, <2>3
    <3> QED
      BY <2>1, <2>2, <2>3, <3>1
  <2>5. 1 + n - 1 <= P
    BY <2>1, <2>2, <2>3
  <2> QED
    BY <2>2, <2>3, <2>4, <2>5 DEF Stands
<1> DEFINE D == FirstWords \o M
<1>4. D \in Seq(Seq(Bits)) /\ Stands(1, FlattenSeq(D \o LastWord))
  BY <1>2, <1>3, ConcatProperties
<1> HIDE DEF T, M, five
<1>5. Len(five) = 5
  BY DEF five
<1>6. /\ Stands(1, FlattenSeq(D)) /\ Stands(1 + Extent(D), FlattenSeq(LastWord))
      /\ Extent(D \o LastWord) = Extent(D) + Extent(LastWord) /\ Extent(D) \in Nat /\ Extent(LastWord) \in Nat
  <2> HIDE DEF D
  <2> QED
    BY <1>1, <1>2, <1>4, StandsWords
<1>7. /\ Stands(1, FlattenSeq(FirstWords)) /\ Stands(1 + Extent(FirstWords), FlattenSeq(M))
      /\ Extent(FirstWords \o M) = Extent(FirstWords) + Extent(M) /\ Extent(FirstWords) \in Nat /\ Extent(M) \in Nat
  BY <1>1, <1>2, <1>6, StandsWords
<1>8. ReadUints(5, 1) = [v |-> five, at |-> 1 + Extent(FirstWords)]
  <2>1. Stands(1, FlattenSeq(Uints(five)))
    BY <1>2, <1>7
  <2>2. ReadUints(Len(five), 1) = [v |-> five, at |-> 1 + Extent(Uints(five))]
    BY <1>1, <1>2, <2>1, ReadUintsBack
  <2> QED
    BY <1>2, <1>5, <2>2
<1> DEFINE i == 1 + Extent(FirstWords)
           e == i + Extent(M)
<1>9. ReadGroups(i) = [v |-> mVideoFormat, at |-> e]
  <2>1. Stands(i, FlattenSeq(FlattenSeq(GroupWords(video_format))))
    BY <1>7 DEF M
  <2> HIDE DEF i
  <2>2. ReadGroups(i) = [v |-> mVideoFormat, at |-> i + Extent(FlattenSeq(GroupWords(video_format)))]
    BY <1>1, <2>1, ReadGroupsBack
  <2> QED
    BY <2>2 DEF M
<1>10. ReadUint(e).v = picture_coding_mode
  <2>1. e = 1 + Extent(D)
    BY <1>7
  <2>2. encode_uint(picture_coding_mode) \in Seq(Bits)
    BY <1>2, WordType
  <2>3. FlattenSeq(LastWord) = encode_uint(picture_coding_mode)
    BY <2>2, FlatOne DEF LastWord
  <2>4. Stands(e, encode_uint(picture_coding_mode))
    BY <1>6, <2>1, <2>3
  <2> HIDE DEF e
  <2>5. ReadUint(e) = [v |-> picture_coding_mode, at |-> e + Len(encode_uint(picture_coding_mode))]
    BY <1>1, <1>2, <2>4, ReadBack
  <2> QED
    BY <2>5
<1> HIDE DEF e, i
<1>11. ReadUints(5, 1).v = five /\ ReadUints(5, 1).at = i
  BY <1>8 DEF i
<1>12. ReadGroups(i).v = mVideoFormat /\ ReadGroups(i).at = e
  BY <1>9
<1> QED
  BY <1>10, <1>11, <1>12, Zenon DEF five, FormatReadBack

\* Of every video format the client may ask for a decoder that reads the
\* sequence header finds the one the encoder works with (setParams), and all
\* that comes before and after it, provided that both ratios are given by
\* index or both by value.
THEOREM StreamHeaderTellsFormat == StreamSpec => []HeaderTellsFormat
<1>1. HeaderInv => HeaderTellsFormat
  BY HeaderRead, Zenon DEF HeaderTellsFormat
<1> QED
  BY <1>1, StreamHeaderPacked, PTL
=============================================================================
