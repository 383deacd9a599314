---------------------------- MODULE JobPartition ----------------------------
(***************************************************************************)
(* The part of VC2Encoder::setParams that cuts a picture into horizontal   *)
(* bands, one JobData per band, for the Transform jobs.  A band is a       *)
(* number of whole slice rows; its job also reads pad_t lines above and    *)
(* pad_b lines below, so that the vertical wavelet sees what it needs.     *)
(*                                                                         *)
(* Lines are input lines of the luma plane, rows are rows of slices.  The  *)
(* parameters are drawn from the constants in Init.                        *)
(***************************************************************************)
EXTENDS Integers, Sequences

CONSTANTS NThreads,      \* values of params.n_threads
          LumaHeights,   \* values of mLumaHeight
          SliceHeights,  \* values of slice_height
          Depths,        \* values of wavelet_depth
          Wavelets       \* values of wavelet_index

ASSUME PartitionAssumption ==
  /\ NThreads \subseteq Int
  /\ LumaHeights \subseteq Nat \ {0} /\ SliceHeights \subseteq Nat \ {0}
  /\ Depths \subseteq 1 .. 8 /\ Wavelets \subseteq 0 .. 4

VARIABLES
  par,             \* the parameters of this call
  mJobs,           \* the jobs planned for, and in the end the jobs made
  jobs,            \* mJobData: the JobData built so far, by number
  i, slices_y, slices_already,   \* the locals of the same names
  pc, result

vars == <<par, mJobs, jobs, i, slices_y, slices_already, pc, result>>

\* Integer division of C, which truncates.
CDiv(a, b) == IF a >= 0 THEN a \div b ELSE -((-a) \div b)
CeilDiv(a, b) == CDiv(a + b - 1, b)
Larger(a, b) == IF a >= b THEN a ELSE b

\* TRANSFORM_OVERLAP, by wavelet_index and level
TRANSFORM_OVERLAP == << <<4, 12, 28, 60>>, <<2, 6, 14, 30>>, <<6, 18, 42, 90>>,
                        <<0, 0, 0, 0>>, <<0, 0, 0, 0>> >>

Overlap_Level(w, d) ==    \* a bug to look for: the overlap of the level before
  IF d \in 2 .. 4 THEN {TRANSFORM_OVERLAP[w + 1][d - 1]} ELSE {0, 2, 6}
\* Past the end of a row of the table the next row is read, or anything.
Overlap(w, d) == IF d <= 4 THEN {TRANSFORM_OVERLAP[w + 1][d]} ELSE {0, 2, 6}

mPaddedHeight(p) == CeilDiv(p.luma, 2^p.depth) * 2^p.depth
Rows(p) == mPaddedHeight(p) \div p.slice_height
slice_overlap(p) == CeilDiv(p.overlap, p.slice_height)

Params == {p \in [luma : LumaHeights, slice_height : SliceHeights, depth : Depths,
                  wavelet : Wavelets, overlap : 0 .. 90, n_threads : NThreads] :
             p.overlap \in Overlap(p.wavelet, p.depth)}

Init == /\ par \in Params
        /\ mJobs = 1 /\ jobs = <<>> /\ i = 0 /\ slices_y = 0 /\ slices_already = 0
        /\ pc = "check" /\ result = "none"

\* JobBase's fields: the band starts at row `first` and has `rows` rows; the
\* job reads input lines from offset_y on: pad_t, then height, then pad_b.
Job(first, rows, height, pad_t, pad_b, offset_y) ==
  [first |-> first, rows |-> rows, height |-> height,
   pad_t |-> pad_t, pad_b |-> pad_b, offset_y |-> offset_y]

\* mJobData[n] = new JobData(...), jobs being numbered from 0
PutJob(n, j) == jobs' = [k \in 1 .. Larger(n + 1, Len(jobs)) |->
                           IF k = n + 1 THEN j ELSE jobs[k]]

\* The slice size must suit the depth and divide the padded picture.
BadSize == \/ par.slice_height % 2^par.depth # 0
           \/ mPaddedHeight(par) % par.slice_height # 0

Check == /\ pc = "check"
         /\ IF BadSize THEN pc' = "done" /\ result' = "BADPARAMS"
                       ELSE pc' = "plan" /\ UNCHANGED result
         /\ UNCHANGED <<par, mJobs, jobs, i, slices_y, slices_already>>

\* for (mJobs = 1; mJobs < params.n_threads*4; mJobs <<= 1);
Plan == /\ pc = "plan"
        /\ IF mJobs < par.n_threads * 4 THEN mJobs' = mJobs * 2 /\ UNCHANGED pc
                                        ELSE pc' = "first" /\ UNCHANGED mJobs
        /\ UNCHANGED <<par, jobs, i, slices_y, slices_already, result>>

OnlyJob == /\ pc = "first"
           /\ mJobs = 1
           /\ PutJob(0, Job(0, Rows(par), par.luma, 0, 0, 0))
           /\ pc' = "select"
           /\ UNCHANGED <<par, mJobs, i, slices_y, slices_already, result>>

FirstRows_NoClamp == CeilDiv(Rows(par), mJobs)   \* a bug to look for: shorter than the padding
FirstRows == Larger(CeilDiv(Rows(par), mJobs), slice_overlap(par))

FirstJob == /\ pc = "first"
            /\ mJobs # 1
            /\ PutJob(0, Job(0, FirstRows, FirstRows * par.slice_height,
                             0, slice_overlap(par) * par.slice_height, 0))
            /\ slices_already' = FirstRows
            /\ slices_y' = CeilDiv(Rows(par) - FirstRows, mJobs)
            /\ i' = 1
            /\ pc' = "middle"
            /\ UNCHANGED <<par, mJobs, result>>

\* The condition of the loop over the middle jobs: room is left for this job,
\* its padding, and a last job.
RoomForMore == /\ i < mJobs - 1
               /\ slices_already + slices_y + slice_overlap(par) < Rows(par)

MiddleJob == /\ pc = "middle"
             /\ RoomForMore
             /\ PutJob(i, Job(slices_already, slices_y, slices_y * par.slice_height,
                              slice_overlap(par) * par.slice_height,
                              slice_overlap(par) * par.slice_height,
                              (slices_already - slice_overlap(par)) * par.slice_height))
             /\ slices_already' = slices_already + slices_y
             /\ slices_y' = CeilDiv(Rows(par) - slices_already', mJobs - i)
             /\ i' = i + 1
             /\ UNCHANGED <<par, mJobs, pc, result>>

\* mCoefSize is 4 beyond depth 4; there the loop declares an i of its own, and
\* the i after the loop is still 1.
LastNumber_Shadowed == 1    \* a bug to look for: the shadowed i in both copies of the loop
LastNumber == IF par.depth > 4 THEN 1 ELSE i

LastJob == /\ pc = "middle"
           /\ ~RoomForMore
           /\ PutJob(LastNumber,
                     Job(slices_already, Rows(par) - slices_already,
                         par.luma - slices_already * par.slice_height,
                         slice_overlap(par) * par.slice_height, 0,
                         (slices_already - slice_overlap(par)) * par.slice_height))
           /\ mJobs' = LastNumber + 1
           /\ pc' = "select"
           /\ UNCHANGED <<par, i, slices_y, slices_already, result>>

\* get_slice_encoder16 and 32 refuse a depth beyond 4.
SelectEncoder == /\ pc = "select"
                 /\ result' = IF par.depth > 4 THEN "BADPARAMS" ELSE "OK"
                 /\ pc' = "done"
                 /\ UNCHANGED <<par, mJobs, jobs, i, slices_y, slices_already>>

Done == pc = "done" /\ UNCHANGED vars

Next == Check \/ Plan \/ OnlyJob \/ FirstJob \/ MiddleJob \/ LastJob \/ SelectEncoder \/ Done

Spec == Init /\ [][Next]_vars

-----------------------------------------------------------------------------
Accepted == result = "OK"

\* A picture with room for two bands and their padding.
Roomy == Rows(par) >= 2 /\ Rows(par) > 2 * slice_overlap(par)

(* The bands of the jobs tile the picture: every row of slices belongs to  *)
(* exactly one job, in order, and no job is empty.                         *)
Tiling ==
  Accepted /\ Roomy =>
    /\ Len(jobs) = mJobs
    /\ jobs[1].first = 0
    /\ \A n \in 1 .. mJobs : jobs[n].rows > 0
    /\ \A n \in 1 .. mJobs - 1 : jobs[n + 1].first = jobs[n].first + jobs[n].rows
    /\ jobs[mJobs].first + jobs[mJobs].rows = Rows(par)

\* The input lines job j reads lie in the picture, at both ends.
ReadsPicture(j) == /\ j.offset_y >= 0
                   /\ j.offset_y + j.pad_t + j.height + j.pad_b <= par.luma

(* In a picture with enough rows every job, with its padding, reads lines  *)
(* of the picture only.                                                    *)
WindowsInPicture == Accepted /\ Roomy => \A n \in 1 .. mJobs : ReadsPicture(jobs[n])

(* Each job is padded by at least the overlap its wavelet needs wherever   *)
(* the picture goes on beyond its band.                                    *)
PaddingSuffices ==
  Accepted => \A n \in 1 .. mJobs :
    /\ jobs[n].first > 0 => jobs[n].pad_t >= par.overlap
    /\ jobs[n].first + jobs[n].rows < Rows(par) => jobs[n].pad_b >= par.overlap
    /\ jobs[n].offset_y + jobs[n].pad_t = jobs[n].first * par.slice_height
=============================================================================
