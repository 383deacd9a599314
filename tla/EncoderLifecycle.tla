-------------------------- MODULE EncoderLifecycle --------------------------
(***************************************************************************)
(* An encoder between vc2encode_create and vc2encode_destroy: the calls of *)
(* a client that changes its parameters and encodes pictures, sees the     *)
(* result of every call and goes on whatever it is.  One action is one way *)
(* through a call.  The pool is what ThreadPool shows it to be: a round    *)
(* executes all that is queued, in order, unless each of its workers has   *)
(* caught an exception; then the rest stays queued for the next round.     *)
(*                                                                         *)
(* A step into undefined behaviour records what was touched in "harm" and  *)
(* is the last one.                                                        *)
(***************************************************************************)
EXTENDS Integers, Sequences

CONSTANTS MaxThreads,   \* bound: n_threads of a set_parameters
          MaxFailures,  \* bound: encodes that throw
          MaxQueued     \* bound: batches of jobs left in the pool

ASSUME BoundsAssumption == {MaxThreads, MaxFailures, MaxQueued} \subseteq Nat \ {0}

VARIABLES mParams,       \* the parameters of the latest set_parameters
          configured,    \* those the buffers and function pointers are made for
          mJobsInFlight,
          mPool,         \* "null", "new" (no round yet), "used" or "freed"
          threads,       \* its workers
          left,          \* the batches queued in it between calls
          mJobData,
          mSlices,       \* mSlices16 and mSlices32, by coefficient size
          last,          \* the latest call and its result
          past,          \* what has happened to this client: the kinds of parameters
                         \* it was refused, and the like
          harm           \* what has gone wrong in memory

pointers == <<mPool, threads, left, mJobData, mSlices, configured>>
vars == <<mParams, mJobsInFlight, pointers, last, past, harm>>

----------------------------------------------------------------------------
\* Parameters, by what becomes of them: two sets that can be encoded with, a
\* slice size that does not fit the picture, a wavelet that no kernel exists
\* for, an unknown input format, a depth beyond 4.
Accepted == {"plain", "fragmented"}
RefusedLate == {"wavelet", "format", "deep"}
Kinds == Accepted \union RefusedLate \union {"slice size"}

Result(k) == CASE k \in Accepted -> "OK"
               [] k \in {"wavelet", "format"} -> "NOTIMPLEMENTED"
               [] k = "deep" -> "BADPARAMS"

Pointer == {"null", "live", "freed"}

\* A pointer after delete: it is never set to NULL.
Deleted(p) == IF p = "null" THEN "null" ELSE "freed"

CoefSize(k) == IF k = "deep" THEN 4 ELSE 2

\* Memory errors after which nothing is known of the program.
Undefined == {"work", "pool", "jobs", "slices", "encoder data", "half configured",
              "not configured"}

Batch == [work : {"transform", "partial"}, table : {"live", "freed"}]

\* Jobs in the queue point into mEncoderData, which set_parameters replaces.
Orphaned(q) == [i \in DOMAIN q |-> [work |-> q[i].work, table |-> "freed"]]

Alive == last.call # "destroy" /\ harm \intersect Undefined = {}

Init == /\ mParams = "none" /\ configured = "none"
        /\ mJobsInFlight = 0
        /\ mPool = "null" /\ threads = 0 /\ left = <<>>
        /\ mJobData = "null"
        /\ mSlices = [s \in {2, 4} |-> "null"]
        /\ last = [call |-> "create", result |-> "OK"]
        /\ past = {} /\ harm = {}

Crash(what) == /\ harm' = harm \union {what}
               /\ UNCHANGED <<mParams, mJobsInFlight, pointers, last, past>>

----------------------------------------------------------------------------
(* vc2encode_set_parameters *)

Set(result) == last' = [call |-> "set", result |-> result]

\* Refused, but mParams and mEncoderData are replaced already.
SetWhileBusy(k) ==
    /\ mJobsInFlight # 0
    /\ mParams' = k
    /\ left' = Orphaned(left)
    /\ Set("BADTHREAD")
    /\ past' = past \union {"busy"}
    /\ UNCHANGED <<mJobsInFlight, mPool, threads, mJobData, mSlices, configured, harm>>

\* stop() on a pool that is gone, or that has never assigned "work".
SetStopsDeadPool == mJobsInFlight = 0 /\ mPool = "freed" /\ Crash("pool")
SetStopsUnusedPool == mJobsInFlight = 0 /\ mPool = "new" /\ Crash("work")

PoolCanStop_Busy == mPool # "freed"  \* a bug to look for: jobs in flight are ignored
PoolCanStop == mJobsInFlight = 0 /\ mPool # "freed"

\* The slice size is looked at when the pool and the jobs are deleted already.
SetSliceSize ==
    /\ PoolCanStop
    /\ mParams' = "slice size"
    /\ mPool' = Deleted(mPool)
    /\ left' = <<>>
    /\ mJobData' = Deleted(mJobData)
    /\ Set("BADPARAMS")
    /\ past' = past \union {"slice size"}
    /\ UNCHANGED <<mJobsInFlight, threads, mSlices, configured, harm>>

\* Both slice buffers are deleted, and one of them is made again.
SetDeletesTwice(k) == /\ PoolCanStop /\ k # "slice size"
                      /\ \E s \in {2, 4} : mSlices[s] = "freed"
                      /\ Crash("slices")

\* The rest of setParams: if the parameters are refused by a selection of
\* kernels at its end, everything else has been replaced.
SetConfigures(k, n) ==
    /\ PoolCanStop /\ k # "slice size"
    /\ \A s \in {2, 4} : mSlices[s] # "freed"
    /\ mParams' = k
    /\ mPool' = "new" /\ threads' = n /\ left' = <<>>
    /\ mSlices' = [s \in {2, 4} |-> IF s = CoefSize(k) THEN "live" ELSE Deleted(mSlices[s])]
    /\ mJobData' = "live"
    /\ configured' = k
    /\ Set(Result(k))
    /\ past' = past \union {IF k \in Accepted THEN "accepted" ELSE k}
    /\ UNCHANGED <<mJobsInFlight, harm>>

SetParams == /\ Alive
             /\ \/ \E k \in Kinds : SetWhileBusy(k)
                \/ SetStopsDeadPool
                \/ SetStopsUnusedPool
                \/ SetSliceSize
                \/ \E k \in Kinds : SetDeletesTwice(k)
                \/ \E k \in Kinds, n \in 0..MaxThreads : SetConfigures(k, n)

----------------------------------------------------------------------------
(* vc2encode_encode_data and vc2encode_encode_fragmented_data *)

Encoded(result) == last' = [call |-> "encode", result |-> result]

\* What a round may do with the queue q: how many of its batches are taken up,
\* what is left and how many workers throw.  Only partials throw.
Partials(q) == {i \in DOMAIN q : q[i].work = "partial"}

Round_FirstThrowStops(q) ==  \* a bug to look for: ... a worker that throws stops the others
    {[ran |-> i, left |-> SubSeq(q, i, Len(q)), exceptions |-> 1] : i \in Partials(q)}
    \union {[ran |-> Len(q), left |-> <<>>, exceptions |-> 0]}
Round_NoWait(q) ==           \* ... execute() does not wait for the workers
    {[ran |-> i, left |-> SubSeq(q, i + 1, Len(q)), exceptions |-> 0] : i \in 0..Len(q)}

Round(q) ==
    IF threads = 0
    THEN {[ran |-> 0, left |-> q, exceptions |-> 0]}
    ELSE {[ran |-> Len(q), left |-> <<>>, exceptions |-> e] :
            e \in IF Partials(q) = {} THEN {0} ELSE 0..threads}
         \union
         {[ran |-> i, left |-> SubSeq(q, i, Len(q)), exceptions |-> threads] : i \in Partials(q)}

\* Leftover jobs of an earlier picture that run: a partial uses its entry of
\* the table and writes to the output it was given then; a transform works on
\* a band that a new job has too, at the same time if there is another worker.
Intrusions(ran) ==
    {IF left[i].work = "transform" THEN "band"
     ELSE IF left[i].table = "freed" THEN "encoder data" ELSE "old output" :
        i \in {j \in DOMAIN left : j <= ran /\ (left[j].work = "partial" \/ threads > 1)}}

Jobs(work) == <<[work |-> work, table |-> "live"]>>

\* Nothing but the bounds: encodeData looks at no result of set_parameters.
WithinBounds == mJobsInFlight < MaxFailures /\ Len(left) + 2 <= MaxQueued

\* The counter is raised before the input format is looked at.  Parameters that
\* were never set may name any.
EncodeUnknownFormat ==
    /\ mParams \in {"none", "format"}
    /\ mJobsInFlight' = mJobsInFlight + 1
    /\ Encoded("BADPARAMS")
    /\ past' = past \union {"encode threw"}
    /\ UNCHANGED <<mParams, pointers, harm>>

\* mJobs has no value and mJobData and mPool are NULL: no set_parameters has come
\* as far as the jobs.
EncodeNotConfigured == mParams # "format" /\ mJobData = "null" /\ Crash("not configured")

EncodeDeadJobs == mParams # "format" /\ mJobData = "freed" /\ Crash("jobs")

EncodeHalfConfigured == /\ mParams # "format" /\ mJobData = "live"
                        /\ configured \in RefusedLate /\ threads # 0
                        /\ Crash("half configured")

\* Two rounds.  The second begins with nothing but its own jobs in the queue
\* (or with workers that do not exist).
EncodePicture ==
    /\ mParams # "format" /\ mJobData = "live"
    /\ configured \in Accepted \/ threads = 0
    /\ \E one \in Round(left \o Jobs("transform")) :
        /\ harm' = harm \union Intrusions(one.ran)
                        \union (IF mParams # configured THEN {"mixed settings"} ELSE {})
        /\ \E two \in IF one.exceptions = 0 THEN Round(one.left \o Jobs("partial")) ELSE {one} :
            /\ left' = two.left
            /\ IF two.exceptions # 0
               THEN /\ Encoded("ENCODE_FAILED")
                    /\ mJobsInFlight' = mJobsInFlight + 1
                    /\ past' = past \union {"encode threw"}
                         \union (IF two.exceptions = threads THEN {"all workers threw"} ELSE {})
               ELSE /\ Encoded("OK")
                    /\ UNCHANGED <<mJobsInFlight, past>>
    /\ mPool' = "used"
    /\ UNCHANGED <<mParams, threads, mJobData, mSlices, configured>>

Encode == /\ Alive /\ WithinBounds
          /\ \/ EncodeUnknownFormat
             \/ EncodeNotConfigured
             \/ EncodeDeadJobs
             \/ EncodeHalfConfigured
             \/ EncodePicture

----------------------------------------------------------------------------
(* vc2encode_destroy *)

DestroyStopsDeadPool == mPool = "freed" /\ Crash("pool")
DestroyStopsUnusedPool == mPool = "new" /\ Crash("work")
DestroyDeletesTwice == /\ mPool # "freed"
                       /\ \E s \in {2, 4} : mSlices[s] = "freed"
                       /\ Crash("slices")
DestroyAll == /\ mPool # "freed"
              /\ \A s \in {2, 4} : mSlices[s] # "freed"
              /\ mPool' = Deleted(mPool) /\ left' = <<>>
              /\ mJobData' = Deleted(mJobData)
              /\ mSlices' = [s \in {2, 4} |-> Deleted(mSlices[s])]
              /\ last' = [call |-> "destroy", result |-> "OK"]
              /\ UNCHANGED <<mParams, mJobsInFlight, threads, configured, past, harm>>

Destroy == /\ Alive
           /\ \/ DestroyStopsDeadPool
              \/ DestroyStopsUnusedPool
              \/ DestroyDeletesTwice
              \/ DestroyAll

Next == SetParams \/ Encode \/ Destroy

Spec == Init /\ [][Next]_vars

----------------------------------------------------------------------------
\* Memory goes wrong only for a client that went on after a refusal or after a
\* picture for which every worker threw, that encoded before any set_parameters
\* had come as far as the jobs, or that never encoded between two set_parameters
\* (or before destroy); and each kind of error needs its own history.  A client
\* that begins with set_parameters, whose every call succeeds and that encodes
\* something with every configuration is safe.
HarmHasCause ==
    LET Needs(error, causes) == error \in harm => causes \subseteq past
    IN  /\ Needs("pool", {"slice size"})
        /\ Needs("jobs", {"slice size"})
        /\ Needs("slices", {"deep"})
        /\ "work" \in harm => ~(last.call = "encode" /\ last.result \in {"OK", "ENCODE_FAILED"})
        /\ "half configured" \in harm => past \intersect RefusedLate # {}
        /\ "not configured" \in harm => past \intersect ({"accepted"} \union RefusedLate) = {}
        /\ Needs("old output", {"all workers threw"})
        /\ Needs("encoder data", {"all workers threw", "busy"})
        /\ Needs("band", {"all workers threw"})
        /\ Needs("mixed settings", {"encode threw", "busy"})

\* set_parameters answers BADTHREAD ("Params change whilst working") exactly
\* when an earlier encode threw: nothing ever takes the count of jobs in flight
\* back, so a single failed picture, or one call with an unknown input format,
\* fixes the parameters until the encoder is destroyed.  It never does so while
\* work is really in progress, since calls return only when it is done.
BusyMeansFailed ==
    last.call = "set" =>
        (last.result = "BADTHREAD" <=> "encode threw" \in past)

\* A picture reported as encoded has been encoded: none of its jobs, and none
\* of an earlier picture, is still queued, unless there are no workers at all.
\* (Its parameters may be the refused ones: see "mixed settings".)
OkMeansEncoded ==
    last = [call |-> "encode", result |-> "OK"] => left = <<>> \/ threads = 0

----------------------------------------------------------------------------
=============================================================================
