-------------------------- MODULE JobPartitionProofs --------------------------
(***************************************************************************)
(* JobPartition for every picture height, slice height, wavelet and number *)
(* of threads.  What setParams plans with is settled by one invariant, the *)
(* table of jobs it fills by a second one.  BandTransform follows: a third *)
(* invariant gives the sizes of the windows, a fourth what is lost of them *)
(* at each level of the transform.                                         *)
(***************************************************************************)
EXTENDS BandTransform, FiniteSetTheorems, SequenceTheorems, WellFoundedInduction, TLAPS

USE PartitionAssumption

-----------------------------------------------------------------------------
\* Arithmetic.

LEMMA DivMod ==
  ASSUME NEW a \in Nat, NEW b \in Nat \ {0}
  PROVE  /\ a \div b \in Nat /\ a % b \in Nat
         /\ a = (a \div b) * b + (a % b)
         /\ (a \div b) * b <= a /\ a < (a \div b) * b + b
<1>1. a \div b \in Nat /\ a % b \in 0 .. b - 1
  OBVIOUS
<1>2. a = b * (a \div b) + (a % b)
  OBVIOUS
<1>3. (a \div b) * b = b * (a \div b)
  BY <1>1
<1> QED
  BY <1>1, <1>2, <1>3

LEMMA Products ==
  ASSUME NEW a \in Int, NEW b \in Int, NEW c \in Nat
  PROVE  /\ a * c \in Int
         /\ (a + b) * c = a * c + b * c /\ (a - b) * c = a * c - b * c
         /\ a <= b => a * c <= b * c
OBVIOUS

LEMMA CeilDivInt ==
  ASSUME NEW a \in Int, NEW b \in Nat \ {0}
  PROVE  CeilDiv(a, b) \in Int
<1> DEFINE u == a + b - 1
<1>1. u \in Int
  OBVIOUS
<1>2. CASE u >= 0
  BY <1>1, <1>2, DivMod DEF CeilDiv, CDiv
<1>3. CASE ~(u >= 0)
  <2> DEFINE m == -u
  <2>1. m \in Nat
    BY <1>1, <1>3
  <2>2. m \div b \in Nat
    <3> HIDE DEF m
    <3> QED
      BY <2>1, DivMod
  <2> QED
    BY <1>3, <2>2 DEF CeilDiv, CDiv
<1> QED
  BY <1>2, <1>3

LEMMA CeilDivNat ==
  ASSUME NEW a \in Nat, NEW b \in Nat \ {0}
  PROVE  /\ CeilDiv(a, b) \in Nat
         /\ a <= CeilDiv(a, b) * b /\ CeilDiv(a, b) * b < a + b
         /\ a > 0 => CeilDiv(a, b) >= 1
<1> DEFINE u == a + b - 1
           d == u \div b
<1>1. u \in Nat /\ u >= 0 /\ u = a + (b - 1)
  OBVIOUS
<1>2. CeilDiv(a, b) = d
  BY <1>1 DEF CeilDiv, CDiv
<1>3. d \in Nat /\ d * b <= u /\ u < d * b + b
  <2> HIDE DEF u
  <2> QED
    BY <1>1, DivMod
<1> HIDE DEF u, d
<1>4. d * b \in Nat
  BY <1>3
<1>5. a <= d * b /\ d * b < a + b
  BY <1>1, <1>3, <1>4
<1>6. a > 0 => d >= 1
  <2> SUFFICES ASSUME a > 0, d = 0 PROVE FALSE
    BY <1>3
  <2>1. d * b = 0
    OBVIOUS
  <2> QED
    BY <1>5, <2>1
<1> QED
  BY <1>2, <1>3, <1>5, <1>6

LEMMA Powers ==
  ASSUME NEW d \in 1 .. 8
  PROVE  2^d \in Nat \ {0}
<1>1. d = 1 => 2^d \in Nat \ {0}
  BY SMT
<1>2. d = 2 => 2^d \in Nat \ {0}
  BY SMT
<1>3. d = 3 => 2^d \in Nat \ {0}
  BY SMT
<1>4. d = 4 => 2^d \in Nat \ {0}
  BY SMT
<1>5. d = 5 => 2^d \in Nat \ {0}
  BY SMT
<1>6. d = 6 => 2^d \in Nat \ {0}
  BY SMT
<1>7. d = 7 => 2^d \in Nat \ {0}
  BY SMT
<1>8. d = 8 => 2^d \in Nat \ {0}
  BY SMT
<1>9. d = 1 \/ d = 2 \/ d = 3 \/ d = 4 \/ d = 5 \/ d = 6 \/ d = 7 \/ d = 8
  OBVIOUS
<1> QED
  BY <1>1, <1>2, <1>3, <1>4, <1>5, <1>6, <1>7, <1>8, <1>9, Zenon

-----------------------------------------------------------------------------
\* What setParams computes from the parameters alone.

LEMMA ParTypes ==
  ASSUME par \in Params
  PROVE  /\ par.n_threads \in Int /\ par.luma \in Nat \ {0} /\ par.slice_height \in Nat \ {0}
         /\ par.overlap \in Nat /\ par.depth \in 1 .. 8
<1>1. par \in [luma : LumaHeights, slice_height : SliceHeights, depth : Depths,
                wavelet : Wavelets, overlap : 0 .. 90, n_threads : NThreads]
  BY Zenon DEF Params
<1>2. /\ par.n_threads \in NThreads /\ par.luma \in LumaHeights
      /\ par.slice_height \in SliceHeights /\ par.depth \in Depths
      /\ par.overlap \in 0 .. 90
  BY <1>1
<1>3. /\ NThreads \subseteq Int /\ LumaHeights \subseteq Nat \ {0}
      /\ SliceHeights \subseteq Nat \ {0} /\ Depths \subseteq 1 .. 8
  BY PartitionAssumption
<1>4. par.overlap \in Nat
  BY <1>2
<1> QED
  BY <1>2, <1>3, <1>4, Zenon

LEMMA Sizes ==
  ASSUME par \in Params
  PROVE  /\ par.n_threads \in Int /\ par.luma \in Nat \ {0}
         /\ par.slice_height \in Nat \ {0} /\ par.overlap \in Nat
         /\ 2^par.depth \in Nat \ {0}
         /\ mPaddedHeight(par) \in Nat
         /\ par.luma <= mPaddedHeight(par) /\ mPaddedHeight(par) < par.luma + 2^par.depth
         /\ Rows(par) \in Nat
         /\ slice_overlap(par) \in Nat
         /\ par.overlap <= slice_overlap(par) * par.slice_height
<1>1. /\ par.n_threads \in Int /\ par.luma \in Nat \ {0} /\ par.slice_height \in Nat \ {0}
      /\ par.overlap \in Nat /\ par.depth \in 1 .. 8
  BY ParTypes
<1>2. 2^par.depth \in Nat \ {0}
  BY <1>1, Powers
<1> DEFINE P == 2^par.depth
           c == CeilDiv(par.luma, P)
<1>3. /\ c \in Nat /\ par.luma <= c * P /\ c * P < par.luma + P
      /\ mPaddedHeight(par) = c * P
  <2> HIDE DEF P
  <2>1. c \in Nat /\ par.luma <= c * P /\ c * P < par.luma + P
    BY <1>1, <1>2, CeilDivNat DEF P
  <2> QED
    BY <2>1 DEF mPaddedHeight, P
<1>4. c * P \in Nat
  <2> HIDE DEF c, P
  <2> QED
    BY <1>2, <1>3 DEF P
<1>5. Rows(par) \in Nat
  <2>1. mPaddedHeight(par) \in Nat
    BY <1>3, <1>4
  <2> QED
    BY <1>1, <2>1, DivMod DEF Rows
<1>6. slice_overlap(par) \in Nat /\ par.overlap <= slice_overlap(par) * par.slice_height
  BY <1>1, CeilDivNat DEF slice_overlap
<1> QED
  BY <1>1, <1>2, <1>3, <1>4, <1>5, <1>6

\* Once the slice size is found to suit the picture.
LEMMA GoodSizes ==
  ASSUME par \in Params, ~BadSize
  PROVE  /\ Rows(par) >= 1
         /\ Rows(par) * par.slice_height < par.luma + par.slice_height
<1> DEFINE P == 2^par.depth
           s == par.slice_height
           h == mPaddedHeight(par)
           lum == par.luma
           r == Rows(par)
<1>1. /\ P \in Nat \ {0} /\ s \in Nat \ {0} /\ h \in Nat /\ lum \in Nat \ {0}
      /\ lum <= h /\ h < lum + P /\ r \in Nat /\ r = h \div s
  BY Sizes DEF Rows
<1>2. s % P = 0 /\ h % s = 0
  BY DEF BadSize
<1> HIDE DEF P, s, h, lum, r
<1>3. h = r * s
  BY <1>1, <1>2, DivMod
<1>4. P <= s
  <2>1. s = (s \div P) * P + 0 /\ s \div P \in Nat
    BY <1>1, <1>2, DivMod
  <2> DEFINE k == s \div P
  <2> HIDE DEF k
  <2>2. k \in Nat /\ s = k * P
    BY <1>1, <2>1 DEF k
  <2>3. k >= 1
    BY <1>1, <2>2
  <2> QED
    BY <1>1, <2>2, <2>3
<1>5. r >= 1
  BY <1>1, <1>3
<1>6. r * s < lum + s
  BY <1>1, <1>3, <1>4
<1> QED
  BY <1>5, <1>6 DEF s, lum, r

\* The plan.
Types == /\ par \in Params
         /\ mJobs \in Nat \ {0} /\ i \in Nat
         /\ slices_y \in Int /\ slices_already \in Int
Checked == /\ pc \in {"plan", "first", "middle", "select"} \/ Accepted => ~BadSize
           /\ Accepted => pc = "done" /\ par.depth <= 4
           /\ pc # "done" => result = "none"
Planned == /\ pc \in {"check", "plan"} =>
                mJobs = 1 \/ (par.n_threads >= 1 /\ (mJobs = 2 \/ mJobs >= 4))
           /\ pc = "first" => mJobs = 1 \/ mJobs >= 4
           /\ pc = "middle" => mJobs >= 4 /\ i \in 1 .. mJobs - 1

PlanInv == Types /\ Checked /\ Planned

LEMMA FirstRowsInt ==
  ASSUME Types
  PROVE  FirstRows \in Int
<1>1. Rows(par) \in Int /\ mJobs \in Nat \ {0} /\ slice_overlap(par) \in Int
  BY Sizes DEF Types
<1>2. CeilDiv(Rows(par), mJobs) \in Int
  BY <1>1, CeilDivInt
<1> QED
  BY <1>1, <1>2 DEF FirstRows, Larger

LEMMA PlanStep ==
  ASSUME PlanInv, [Next]_vars
  PROVE  PlanInv'
<1> USE DEF PlanInv
<1>1. par' = par /\ (BadSize' <=> BadSize) /\ par \in Params
  BY DEF Next, Check, Plan, OnlyJob, FirstJob, MiddleJob, LastJob, SelectEncoder, Done, vars,
         BadSize, mPaddedHeight, Types
<1>2. CASE Check
  BY <1>1, <1>2 DEF Check, Types, Checked, Planned, Accepted
<1>3. CASE Plan
  <2>1. par.n_threads \in Int /\ mJobs \in Nat \ {0} /\ mJobs * 2 \in Nat \ {0}
    BY Sizes DEF Types
  <2>2. Types' /\ Checked'
    BY <1>1, <1>3, <2>1 DEF Plan, Types, Checked, Accepted
  <2>3. Planned'
    BY <1>1, <1>3, <2>1 DEF Plan, Planned
  <2> QED
    BY <2>2, <2>3
<1>4. CASE OnlyJob
  BY <1>1, <1>4 DEF OnlyJob, Types, Checked, Planned, Accepted
<1>5. CASE FirstJob
  <2>1. FirstRows \in Int /\ Rows(par) \in Int /\ mJobs \in Nat \ {0}
    BY Sizes, FirstRowsInt DEF Types
  <2>2. Rows(par) - FirstRows \in Int
    BY <2>1
  <2>3. CeilDiv(Rows(par) - FirstRows, mJobs) \in Int
    BY <2>1, <2>2, CeilDivInt
  <2>4. mJobs >= 4
    BY <1>5 DEF FirstJob, Planned
  <2> QED
    BY <1>1, <1>5, <2>1, <2>3, <2>4 DEF FirstJob, Types, Checked, Planned, Accepted
<1>6. CASE MiddleJob
  <2>1. /\ mJobs - i \in Nat \ {0} /\ i + 1 \in 1 .. mJobs - 1
        /\ mJobs \in Nat \ {0} /\ i \in Nat /\ mJobs >= 4
    BY <1>6 DEF MiddleJob, RoomForMore, Types, Planned
  <2>2. slices_already' \in Int /\ slices_already' = slices_already + slices_y
    BY <1>6 DEF MiddleJob, Types
  <2>3. Rows(par) - slices_already' \in Int
    BY <2>2, Sizes DEF Types
  <2>4. slices_y' \in Int
    BY <1>6, <2>1, <2>3, CeilDivInt DEF MiddleJob
  <2> QED
    BY <1>1, <1>6, <2>1, <2>2, <2>4 DEF MiddleJob, Types, Checked, Planned, Accepted
<1>7. CASE LastJob
  <2>1. LastNumber + 1 \in Nat \ {0}
    BY DEF LastNumber, Types
  <2> QED
    BY <1>1, <1>7, <2>1 DEF LastJob, Types, Checked, Planned, Accepted
<1>8. CASE SelectEncoder
  <2>1. par.depth \in Int
    BY <1>1, ParTypes
  <2> QED
    BY <1>1, <1>8, <2>1 DEF SelectEncoder, Types, Checked, Planned, Accepted
<1>9. CASE UNCHANGED vars
  BY <1>1, <1>9 DEF vars, Types, Checked, Planned, Accepted
<1> QED
  BY <1>2, <1>3, <1>4, <1>5, <1>6, <1>7, <1>8, <1>9 DEF Next, Done

LEMMA PartitionPlan == Spec => []PlanInv
<1>1. Init => PlanInv
  BY DEF Init, PlanInv, Types, Checked, Planned, Accepted
<1>2. PlanInv /\ [Next]_vars => PlanInv'
  BY PlanStep
<1> QED
  BY <1>1, <1>2, PTL DEF Spec

-----------------------------------------------------------------------------
(* The table of jobs, at the depths that have an encoder.  Each job follows *)
(* the one before it; the middle ones, and what remains for the last one,   *)
(* are as the loop's condition leaves them.                                 *)
JobSet == [first : Int, rows : Int, height : Int, pad_t : Int, pad_b : Int, offset_y : Int]

Chain ==
  \A n \in 1 .. Len(jobs) :
    /\ jobs[n].first = (IF n = 1 THEN 0 ELSE jobs[n-1].first + jobs[n-1].rows)
    /\ jobs[n].first > 0 => jobs[n].pad_t >= par.overlap
    /\ jobs[n].offset_y + jobs[n].pad_t = jobs[n].first * par.slice_height
    /\ pc = "middle" \/ n < Len(jobs) => jobs[n].pad_b >= par.overlap

Full ==
  /\ pc \in {"check", "plan", "first"} => jobs = <<>>
  /\ pc = "middle" => /\ Len(jobs) = i /\ i >= 1
                      /\ slices_already = jobs[i].first + jobs[i].rows
  /\ pc = "select" \/ Accepted =>
       /\ Len(jobs) = mJobs
       /\ jobs[mJobs].first + jobs[mJobs].rows = Rows(par)

\* The lower end of a job's window; the upper one follows from its shape.
EndsInPicture(j) == j.offset_y + j.pad_t + j.height + j.pad_b <= par.luma

Fits ==
  Roomy =>
    /\ \A n \in 1 .. Len(jobs) : jobs[n].rows > 0 /\ EndsInPicture(jobs[n])
    /\ pc = "middle" => slices_y >= 1 /\ slices_already < Rows(par)

TableInv == par.depth <= 4 => jobs \in Seq(JobSet) /\ Chain /\ Full /\ Fits

\* The next job of the table.
LEMMA Put ==
  ASSUME jobs \in Seq(JobSet), NEW n \in Nat, n = Len(jobs), NEW j \in JobSet, PutJob(n, j)
  PROVE  /\ jobs' \in Seq(JobSet) /\ Len(jobs') = n + 1 /\ jobs'[n + 1] = j
         /\ \A k \in 1 .. n : jobs'[k] = jobs[k]
<1>1. Larger(n + 1, Len(jobs)) = n + 1
  BY DEF Larger
<1>2. jobs' = [k \in 1 .. n + 1 |-> IF k = n + 1 THEN j ELSE jobs[k]]
  BY <1>1 DEF PutJob
<1>3. \A k \in 1 .. n + 1 : k # n + 1 => k \in 1 .. n
  OBVIOUS
<1>4. \A k \in 1 .. n : jobs[k] \in JobSet
  BY ElementOfSeq
<1>5. jobs' \in [1 .. n + 1 -> JobSet]
  BY <1>2, <1>3, <1>4
<1>6. jobs' \in Seq(JobSet) /\ Len(jobs') = n + 1
  <2>1. n + 1 \in Nat
    OBVIOUS
  <2> QED
    BY <1>5, <2>1, SeqDef, LenProperties
<1>7. n + 1 \in 1 .. n + 1 /\ \A k \in 1 .. n : k \in 1 .. n + 1 /\ k # n + 1
  OBVIOUS
<1> QED
  BY <1>2, <1>6, <1>7

\* The first band leaves room for its padding and for another band.
LEMMA FirstBand ==
  ASSUME NEW R \in Nat, NEW ov \in Nat, NEW N \in Nat, N >= 4, R >= 2, R > 2 * ov
  PROVE  LET F == Larger(CeilDiv(R, N), ov)
         IN  F \in Nat /\ F >= 1 /\ F + ov < R
<1> DEFINE c == CeilDiv(R, N)
<1>1. c \in Nat /\ c * N < R + N /\ c >= 1
  BY CeilDivNat
<1> HIDE DEF c
<1>2. 4 * c <= R + 3
  <2>1. (c - 1) * N = c * N - N /\ c * N \in Int
    BY <1>1
  <2>2. 4 * (c - 1) <= (c - 1) * N
    BY <1>1
  <2> QED
    BY <1>1, <2>1, <2>2
<1>3. c + ov < R
  BY <1>1, <1>2
<1>4. Larger(c, ov) = c \/ (Larger(c, ov) = ov /\ c <= ov)
  BY <1>1 DEF Larger
<1> QED
  BY <1>1, <1>3, <1>4 DEF c

\* A band that ends a row or more above the picture's last one, its padding
\* included, lies in the picture.
LEMMA AbovePicture ==
  ASSUME par \in Params, ~BadSize, NEW rows \in Int, rows < Rows(par)
  PROVE  rows * par.slice_height <= par.luma
<1> DEFINE s == par.slice_height
           r == Rows(par)
           lum == par.luma
<1>1. s \in Nat /\ r \in Nat /\ lum \in Nat /\ r * s < lum + s
  BY Sizes, GoodSizes
<1> HIDE DEF s, r, lum
<1>2. rows <= r - 1
  BY <1>1 DEF r
<1>3. rows * s <= (r - 1) * s /\ (r - 1) * s = r * s - s /\ r * s \in Int /\ rows * s \in Int
  BY <1>1, <1>2
<1>4. rows * s <= lum
  BY <1>1, <1>3
<1> QED
  BY <1>4 DEF s, lum

\* What one action adds to the table, from the job it adds.
LEMMA TableStep ==
  ASSUME PlanInv, TableInv, par.depth <= 4, par' = par,
         NEW n \in Nat, n = Len(jobs), NEW j \in JobSet, PutJob(n, j),
         n > 0 => pc = "middle",
         j.first = (IF n = 0 THEN 0 ELSE jobs[n].first + jobs[n].rows),
         j.first > 0 => j.pad_t >= par.overlap,
         j.offset_y + j.pad_t = j.first * par.slice_height,
         pc' = "middle" => j.pad_b >= par.overlap,
         Roomy => j.rows > 0 /\ EndsInPicture(j)
  PROVE  /\ jobs' \in Seq(JobSet) /\ Len(jobs') = n + 1 /\ jobs'[n + 1] = j
         /\ Chain'
         /\ Roomy => \A k \in 1 .. Len(jobs') : jobs'[k].rows > 0 /\ EndsInPicture(jobs[k])'
<1>1. jobs \in Seq(JobSet) /\ Chain /\ Fits
  BY DEF TableInv
<1>2. /\ jobs' \in Seq(JobSet) /\ Len(jobs') = n + 1 /\ jobs'[n + 1] = j
      /\ \A k \in 1 .. n : jobs'[k] = jobs[k]
  BY <1>1, Put
<1>3. \A k \in 1 .. n + 1 : k \in 1 .. n \/ k = n + 1
  OBVIOUS
<1>4. Chain'
  <2> SUFFICES ASSUME NEW k \in 1 .. n + 1
               PROVE  /\ jobs'[k].first = (IF k = 1 THEN 0 ELSE jobs'[k-1].first + jobs'[k-1].rows)
                      /\ jobs'[k].first > 0 => jobs'[k].pad_t >= par.overlap
                      /\ jobs'[k].offset_y + jobs'[k].pad_t = jobs'[k].first * par.slice_height
                      /\ pc' = "middle" \/ k < n + 1 => jobs'[k].pad_b >= par.overlap
    BY <1>2 DEF Chain
  <2>1. k # 1 => k - 1 \in 1 .. n /\ jobs'[k-1] = jobs[k-1]
    BY <1>2
  <2>2. CASE k \in 1 .. n
    <3>1. pc = "middle"
      BY <2>2
    <3> QED
      BY <1>1, <1>2, <2>1, <2>2, <3>1 DEF Chain
  <2>3. CASE k = n + 1
    <3>1. jobs'[k] = j /\ ~(k < n + 1) /\ k - 1 = n /\ (k = 1 <=> n = 0)
      BY <1>2, <2>3
    <3>2. j.first = (IF k = 1 THEN 0 ELSE jobs'[k-1].first + jobs'[k-1].rows)
      BY <2>1, <3>1
    <3> QED
      BY <3>1, <3>2
  <2> QED
    BY <1>3, <2>2, <2>3
<1>5. ASSUME Roomy, NEW k \in 1 .. n + 1
      PROVE  jobs'[k].rows > 0 /\ EndsInPicture(jobs[k])'
  <2>2. CASE k \in 1 .. n
    BY <1>1, <1>2, <1>5, <2>2 DEF Fits, EndsInPicture
  <2>3. CASE k = n + 1
    BY <1>2, <1>5, <2>3 DEF EndsInPicture
  <2> QED
    BY <1>3, <2>2, <2>3
<1> QED
  BY <1>2, <1>4, <1>5

LEMMA SamePar ==
  ASSUME par' = par
  PROVE  /\ Rows(par)' = Rows(par) /\ slice_overlap(par)' = slice_overlap(par)
         /\ (Roomy' <=> Roomy)
BY DEF Rows, mPaddedHeight, slice_overlap, Roomy

\* s: lines of a slice, o: lines of the padding.
LEMMA Lines ==
  ASSUME par \in Params, NEW rows \in Int
  PROVE  LET s == par.slice_height
             o == slice_overlap(par) * s
         IN  /\ s \in Nat /\ o \in Int /\ par.overlap \in Nat /\ par.overlap <= o
             /\ rows * s \in Int
             /\ (rows - slice_overlap(par)) * s = rows * s - o
             /\ \A r \in Int : (rows + r) * s = rows * s + r * s /\ r * s \in Int
<1>1. /\ par.slice_height \in Nat /\ slice_overlap(par) \in Nat
      /\ par.overlap \in Nat /\ par.overlap <= slice_overlap(par) * par.slice_height
  BY Sizes
<1> QED
  BY <1>1, Products

LEMMA OnlyJobTable ==
  ASSUME PlanInv, TableInv, OnlyJob
  PROVE  TableInv'
<1> SUFFICES ASSUME par.depth <= 4 PROVE (jobs \in Seq(JobSet) /\ Chain /\ Full /\ Fits)'
  BY DEF OnlyJob, TableInv
<1> DEFINE j == Job(0, Rows(par), par.luma, 0, 0, 0)
<1>1. /\ par \in Params /\ ~BadSize /\ par' = par /\ pc = "first" /\ pc' = "select"
      /\ mJobs = 1 /\ mJobs' = 1 /\ result = "none" /\ result' = result
  BY DEF PlanInv, Types, Checked, OnlyJob
<1>2. jobs = <<>> /\ Len(jobs) = 0
  BY <1>1 DEF TableInv, Full
<1>3. /\ Rows(par) \in Nat /\ Rows(par) >= 1 /\ par.luma \in Nat /\ par.slice_height \in Nat
  BY <1>1, Sizes, GoodSizes
<1>4. /\ j \in JobSet /\ j.first = 0 /\ j.rows = Rows(par) /\ j.offset_y = 0
      /\ j.pad_t = 0 /\ j.pad_b = 0 /\ j.height = par.luma
  BY <1>3 DEF Job, JobSet
<1>5. PutJob(0, j)
  BY DEF OnlyJob
<1> HIDE DEF j
<1>6. EndsInPicture(j) /\ j.rows > 0
  BY <1>3, <1>4 DEF EndsInPicture
<1>7. j.offset_y + j.pad_t = j.first * par.slice_height
  BY <1>3, <1>4
<1>8. /\ jobs' \in Seq(JobSet) /\ Len(jobs') = 0 + 1 /\ jobs'[0 + 1] = j
      /\ Chain'
      /\ Roomy => \A k \in 1 .. Len(jobs') : jobs'[k].rows > 0 /\ EndsInPicture(jobs[k])'
  <2>1. j.first = (IF 0 = 0 THEN 0 ELSE jobs[0].first + jobs[0].rows) /\ ~(j.first > 0)
    BY <1>4
  <2>2. pc' # "middle" /\ 0 \in Nat /\ ~(0 > 0)
    BY <1>1
  <2> QED
    BY <1>1, <1>2, <1>4, <1>5, <1>6, <1>7, <2>1, <2>2, TableStep
<1>9. Full'
  <2>1. jobs'[1].first + jobs'[1].rows = Rows(par)
    BY <1>3, <1>4, <1>8
  <2> QED
    BY <1>1, <1>8, <2>1, SamePar DEF Full
<1>10. Fits'
  BY <1>1, <1>8, SamePar DEF Fits
<1> QED
  BY <1>8, <1>9, <1>10

LEMMA FirstJobTable ==
  ASSUME PlanInv, TableInv, FirstJob
  PROVE  TableInv'
<1> SUFFICES ASSUME par.depth <= 4 PROVE (jobs \in Seq(JobSet) /\ Chain /\ Full /\ Fits)'
  BY DEF FirstJob, TableInv
<1> DEFINE F  == FirstRows
           ov == slice_overlap(par)
           s  == par.slice_height
           j  == Job(0, F, F * s, 0, ov * s, 0)
<1>1. /\ par \in Params /\ ~BadSize /\ par' = par /\ pc = "first" /\ pc' = "middle"
      /\ mJobs \in Nat \ {0} /\ mJobs >= 4 /\ mJobs' = mJobs /\ i' = 1 /\ slices_already' = F
      /\ slices_y' = CeilDiv(Rows(par) - F, mJobs) /\ ~Accepted'
  BY DEF PlanInv, Types, Checked, Planned, FirstJob, Accepted
<1>2. jobs = <<>> /\ Len(jobs) = 0
  BY <1>1 DEF TableInv, Full
<1>3. F \in Int
  BY FirstRowsInt DEF PlanInv
<1>4. Rows(par) \in Nat /\ ov \in Nat /\ par.luma \in Nat
  BY <1>1, Sizes
<1>5. /\ s \in Nat /\ ov * s \in Int /\ par.overlap <= ov * s /\ par.overlap \in Nat
      /\ F * s \in Int /\ (F + ov) * s = F * s + ov * s
  <2>1. ov \in Int
    BY <1>4
  <2> HIDE DEF F
  <2> QED
    BY <1>1, <1>3, <2>1, Lines
<1>6. /\ j \in JobSet /\ j.first = 0 /\ j.rows = F /\ j.offset_y = 0
      /\ j.pad_t = 0 /\ j.pad_b = ov * s /\ j.height = F * s
  <2> HIDE DEF F, s, ov
  <2> QED
    BY <1>3, <1>5 DEF Job, JobSet
<1>7. PutJob(0, j)
  BY DEF FirstJob
<1>8. ASSUME Roomy PROVE F \in Nat /\ F >= 1 /\ F + ov < Rows(par)
  BY <1>1, <1>4, <1>8, FirstBand DEF Roomy, FirstRows
<1>9. ASSUME Roomy PROVE j.rows > 0 /\ EndsInPicture(j)
  <2>1. (F + ov) * s <= par.luma
    BY <1>1, <1>3, <1>4, <1>8, <1>9, AbovePicture
  <2> HIDE DEF F, s, ov, j
  <2> QED
    BY <1>5, <1>6, <1>8, <1>9, <2>1 DEF EndsInPicture
<1> HIDE DEF F, ov, j, s
<1>10. j.offset_y + j.pad_t = j.first * s /\ j.pad_b >= par.overlap
  BY <1>5, <1>6
<1>11. /\ jobs' \in Seq(JobSet) /\ Len(jobs') = 0 + 1 /\ jobs'[0 + 1] = j
       /\ Chain'
       /\ Roomy => \A k \in 1 .. Len(jobs') : jobs'[k].rows > 0 /\ EndsInPicture(jobs[k])'
  <2>1. j.first = (IF 0 = 0 THEN 0 ELSE jobs[0].first + jobs[0].rows) /\ ~(j.first > 0)
    BY <1>6
  <2>2. 0 \in Nat /\ ~(0 > 0)
    OBVIOUS
  <2> QED
    BY <1>1, <1>2, <1>6, <1>7, <1>9, <1>10, <2>1, <2>2, TableStep DEF s
<1>12. Full'
  <2>1. jobs'[1].first + jobs'[1].rows = F
    BY <1>3, <1>6, <1>11
  <2> QED
    BY <1>1, <1>11, <2>1 DEF Full
<1>13. Fits'
  <2>1. ASSUME Roomy PROVE slices_y' >= 1 /\ slices_already' < Rows(par)
    <3>1. Rows(par) - F \in Nat /\ Rows(par) - F > 0 /\ F < Rows(par)
      BY <1>4, <1>8, <2>1
    <3> QED
      BY <1>1, <3>1, CeilDivNat
  <2> QED
    BY <1>1, <1>11, <2>1, SamePar DEF Fits
<1> QED
  BY <1>11, <1>12, <1>13

LEMMA MiddleJobTable ==
  ASSUME PlanInv, TableInv, MiddleJob
  PROVE  TableInv'
<1> SUFFICES ASSUME par.depth <= 4 PROVE (jobs \in Seq(JobSet) /\ Chain /\ Full /\ Fits)'
  BY DEF MiddleJob, TableInv
<1> DEFINE a  == slices_already
           y  == slices_y
           ov == slice_overlap(par)
           s  == par.slice_height
           j  == Job(a, y, y * s, ov * s, ov * s, (a - ov) * s)
<1>1. /\ par \in Params /\ ~BadSize /\ par' = par /\ pc = "middle" /\ pc' = "middle"
      /\ mJobs' = mJobs /\ i' = i + 1 /\ slices_already' = a + y
      /\ a \in Int /\ y \in Int /\ ~Accepted' /\ a + y + ov < Rows(par)
      /\ slices_y' = CeilDiv(Rows(par) - slices_already', mJobs - i)
  BY DEF PlanInv, Types, Checked, MiddleJob, RoomForMore, Accepted
<1>2. i \in Nat /\ i >= 1 /\ i = Len(jobs) /\ a = jobs[i].first + jobs[i].rows
  BY <1>1 DEF TableInv, Full, PlanInv, Types
<1>3. mJobs - i \in Nat \ {0}
  BY DEF PlanInv, Types, MiddleJob, RoomForMore
<1>4. Rows(par) \in Nat /\ ov \in Nat /\ par.luma \in Nat
  BY <1>1, Sizes
<1>5. /\ s \in Nat /\ ov * s \in Int /\ par.overlap <= ov * s /\ par.overlap \in Nat
      /\ a * s \in Int /\ y * s \in Int /\ (a - ov) * s = a * s - ov * s
      /\ (a + y) * s = a * s + y * s
  BY <1>1, Lines
<1>6. /\ j \in JobSet /\ j.first = a /\ j.rows = y /\ j.offset_y = (a - ov) * s
      /\ j.pad_t = ov * s /\ j.pad_b = ov * s /\ j.height = y * s
  <2> HIDE DEF a, y, s, ov
  <2>1. (a - ov) * s \in Int
    BY <1>5
  <2> QED
    BY <1>1, <1>5, <2>1 DEF Job, JobSet
<1>7. PutJob(i, j)
  BY DEF MiddleJob
<1>8. ASSUME Roomy PROVE j.rows > 0 /\ EndsInPicture(j)
  <2>1. y >= 1
    BY <1>1, <1>8 DEF TableInv, Fits
  <2>2. a + y + ov \in Int /\ a + y \in Int /\ ov \in Int
    BY <1>1, <1>4
  <2>3. (a + y + ov) * s <= par.luma
    BY <1>1, <2>2, AbovePicture
  <2>4. (a + y + ov) * s = (a + y) * s + ov * s
    BY <1>5, <2>2, Products
  <2> DEFINE A == a * s
             Y == y * s
             O == ov * s
             lum == par.luma
  <2>5. /\ A \in Int /\ Y \in Int /\ O \in Int /\ lum \in Int /\ A + Y + O <= lum
        /\ j.offset_y = A - O /\ j.pad_t = O /\ j.pad_b = O /\ j.height = Y
    <3> HIDE DEF a, y, s, ov, j
    <3> QED
      BY <1>4, <1>5, <1>6, <2>3, <2>4
  <2> HIDE DEF a, y, s, ov, j, A, Y, O, lum
  <2>6. j.offset_y + j.pad_t + j.height + j.pad_b <= lum
    BY <2>5
  <2> QED
    BY <1>1, <1>6, <2>1, <2>6 DEF EndsInPicture, lum
<1> HIDE DEF a, y, ov, j, s
<1>9. j.offset_y + j.pad_t = j.first * s /\ j.pad_b >= par.overlap /\ j.pad_t >= par.overlap
  BY <1>5, <1>6
<1>10. /\ jobs' \in Seq(JobSet) /\ Len(jobs') = i + 1 /\ jobs'[i + 1] = j
       /\ Chain'
       /\ Roomy => \A k \in 1 .. Len(jobs') : jobs'[k].rows > 0 /\ EndsInPicture(jobs[k])'
  <2>1. j.first = IF i = 0 THEN 0 ELSE jobs[i].first + jobs[i].rows
    BY <1>2, <1>6
  <2> QED
    BY <1>1, <1>2, <1>6, <1>7, <1>8, <1>9, <2>1, TableStep DEF s
<1>11. Full'
  <2>1. jobs'[i'].first + jobs'[i'].rows = slices_already'
    BY <1>1, <1>6, <1>10
  <2>2. Len(jobs') = i' /\ i' >= 1
    BY <1>1, <1>2, <1>10
  <2> QED
    BY <1>1, <2>1, <2>2 DEF Full
<1>12. Fits'
  <2>1. ASSUME Roomy PROVE slices_y' >= 1 /\ slices_already' < Rows(par)
    <3> DEFINE left == Rows(par) - slices_already'
    <3>1. left \in Nat /\ left > 0 /\ slices_already' < Rows(par)
      BY <1>1, <1>4
    <3> HIDE DEF left
    <3>2. CeilDiv(left, mJobs - i) >= 1
      <4> DEFINE m == mJobs - i
      <4>1. m \in Nat \ {0}
        BY <1>3
      <4> HIDE DEF m
      <4>2. CeilDiv(left, m) >= 1
        BY <3>1, <4>1, CeilDivNat
      <4> QED
        BY <4>2 DEF m
    <3> QED
      BY <1>1, <3>1, <3>2 DEF left
  <2> QED
    BY <1>1, <1>10, <2>1, SamePar DEF Fits
<1> QED
  BY <1>10, <1>11, <1>12

LEMMA LastJobTable ==
  ASSUME PlanInv, TableInv, LastJob
  PROVE  TableInv'
<1> SUFFICES ASSUME par.depth <= 4 PROVE (jobs \in Seq(JobSet) /\ Chain /\ Full /\ Fits)'
  BY DEF LastJob, TableInv
<1> DEFINE a  == slices_already
           R  == Rows(par)
           lum  == par.luma
           ov == slice_overlap(par)
           s  == par.slice_height
           j  == Job(a, R - a, lum - a * s, ov * s, 0, (a - ov) * s)
<1>1. /\ par \in Params /\ par' = par /\ pc = "middle" /\ pc' = "select" /\ a \in Int
  BY DEF PlanInv, Types, LastJob
<1>2. LastNumber = i /\ mJobs' = i + 1
  <2>1. par.depth \in Int
    BY <1>1, ParTypes
  <2>2. ~(par.depth > 4)
    BY <2>1
  <2> QED
    BY <2>2 DEF LastNumber, LastJob
<1>3. i \in Nat /\ i >= 1 /\ i = Len(jobs) /\ a = jobs[i].first + jobs[i].rows
  BY <1>1 DEF TableInv, Full, PlanInv, Types
<1>4. R \in Int /\ lum \in Int /\ ov \in Nat
  BY <1>1, Sizes
<1>5. /\ s \in Nat /\ ov * s \in Int /\ par.overlap <= ov * s /\ par.overlap \in Nat
      /\ a * s \in Int /\ (a - ov) * s = a * s - ov * s
  BY <1>1, Lines
<1>6. /\ j \in JobSet /\ j.first = a /\ j.rows = R - a /\ j.offset_y = (a - ov) * s
      /\ j.pad_t = ov * s /\ j.pad_b = 0 /\ j.height = lum - a * s
  <2> HIDE DEF a, s, ov, R, lum
  <2>1. (a - ov) * s \in Int
    BY <1>5
  <2> QED
    BY <1>1, <1>4, <1>5, <2>1 DEF Job, JobSet
<1>7. PutJob(i, j)
  BY <1>2 DEF LastJob
<1>8. Roomy => R - a > 0
  <2>1. Roomy => a < R
    BY <1>1 DEF TableInv, Fits
  <2> HIDE DEF a, R
  <2> QED
    BY <1>1, <1>4, <2>1
<1>9. EndsInPicture(j)
  <2> DEFINE A == a * s
             O == ov * s
  <2>1. /\ A \in Int /\ O \in Int /\ lum \in Int
        /\ j.offset_y = A - O /\ j.pad_t = O /\ j.pad_b = 0 /\ j.height = lum - A
    <3> HIDE DEF a, s, ov, lum, j
    <3> QED
      BY <1>4, <1>5, <1>6
  <2> HIDE DEF a, s, ov, lum, j, A, O
  <2>2. j.offset_y + j.pad_t + j.height + j.pad_b <= lum
    BY <2>1
  <2> QED
    BY <2>2 DEF EndsInPicture, lum
<1> HIDE DEF a, R, lum, ov, j, s
<1>10. /\ j.offset_y + j.pad_t = j.first * s /\ j.pad_t >= par.overlap
       /\ Roomy => j.rows > 0
  BY <1>5, <1>6, <1>8
<1>11. /\ jobs' \in Seq(JobSet) /\ Len(jobs') = i + 1 /\ jobs'[i + 1] = j
       /\ Chain'
       /\ Roomy => \A k \in 1 .. Len(jobs') : jobs'[k].rows > 0 /\ EndsInPicture(jobs[k])'
  <2>1. j.first = IF i = 0 THEN 0 ELSE jobs[i].first + jobs[i].rows
    BY <1>3, <1>6
  <2> QED
    BY <1>1, <1>3, <1>6, <1>7, <1>9, <1>10, <2>1, TableStep DEF s
<1>12. Full'
  <2>1. jobs'[mJobs'].first + jobs'[mJobs'].rows = R
    BY <1>1, <1>2, <1>4, <1>6, <1>11
  <2> QED
    BY <1>1, <1>2, <1>11, <2>1, SamePar DEF Full, R
<1>13. Fits'
  BY <1>1, <1>11, SamePar DEF Fits
<1> QED
  BY <1>11, <1>12, <1>13

LEMMA TableInvariant == Spec => []TableInv
<1>1. Init => TableInv
  <2> SUFFICES ASSUME Init PROVE TableInv
    OBVIOUS
  <2>1. /\ jobs = <<>> /\ jobs \in Seq(JobSet) /\ Len(jobs) = 0 /\ pc = "check" /\ ~Accepted
    BY DEF Init, Accepted
  <2>2. Chain /\ Fits
    BY <2>1 DEF Chain, Fits
  <2>3. Full
    BY <2>1 DEF Full
  <2> QED
    BY <2>1, <2>2, <2>3 DEF TableInv
<1>2. PlanInv /\ TableInv /\ [Next]_vars => TableInv'
  <2> SUFFICES ASSUME PlanInv, TableInv, [Next]_vars PROVE TableInv'
    OBVIOUS
  <2>1. CASE OnlyJob
    BY <2>1, OnlyJobTable
  <2>2. CASE FirstJob
    BY <2>2, FirstJobTable
  <2>3. CASE MiddleJob
    BY <2>3, MiddleJobTable
  <2>4. CASE LastJob
    BY <2>4, LastJobTable
  <2>5. CASE Check \/ Plan \/ SelectEncoder \/ UNCHANGED vars
    <3>1. /\ par' = par /\ jobs' = jobs /\ i' = i
          /\ slices_already' = slices_already /\ slices_y' = slices_y
          /\ pc' = "middle" => pc = "middle"
      BY <2>5 DEF Check, Plan, SelectEncoder, vars
    <3>2. /\ pc' \in {"check", "plan", "first"} => pc \in {"check", "plan", "first"}
          /\ pc' = "select" \/ Accepted' => (pc = "select" \/ Accepted) /\ mJobs' = mJobs
      BY <2>5 DEF Check, Plan, SelectEncoder, vars, Accepted, PlanInv, Checked
    <3>3. ASSUME Chain, Full, Fits PROVE (Chain /\ Full /\ Fits)'
      <4>1. Chain'
        BY <3>1, <3>3 DEF Chain
      <4>2. Full'
        BY <3>1, <3>2, <3>3, SamePar DEF Full
      <4>3. Fits'
        BY <3>1, <3>3, SamePar DEF Fits, EndsInPicture
      <4> QED
        BY <4>1, <4>2, <4>3
    <3> QED
      BY <3>1, <3>3 DEF TableInv
  <2> QED
    BY <2>1, <2>2, <2>3, <2>4, <2>5 DEF Next, Done
<1> QED
  BY <1>1, <1>2, PartitionPlan, PTL DEF Spec

-----------------------------------------------------------------------------
LEMMA AcceptedTable ==
  ASSUME PlanInv, TableInv, Accepted
  PROVE  Chain /\ Full /\ Fits /\ Len(jobs) = mJobs /\ mJobs \in Nat \ {0}
BY DEF PlanInv, Types, Checked, TableInv, Full

(* The bands that setParams gives its Transform jobs tile the picture, and *)
(* none is empty, for every height, slice, wavelet and number of threads   *)
(* that leave room for two bands and their padding.                        *)
THEOREM PartitionTiling == Spec => []Tiling
<1>1. PlanInv /\ TableInv => Tiling
  <2> SUFFICES ASSUME PlanInv, TableInv, Accepted, Roomy PROVE Tiling
    BY DEF Tiling
  <2>1. Chain /\ Full /\ Fits /\ Len(jobs) = mJobs /\ mJobs \in Nat \ {0}
    BY AcceptedTable
  <2>2. jobs[1].first = 0 /\ \A n \in 1 .. mJobs : jobs[n].rows > 0
    BY <2>1 DEF Chain, Fits
  <2>3. ASSUME NEW n \in 1 .. mJobs - 1
        PROVE  jobs[n + 1].first = jobs[n].first + jobs[n].rows
    <3>1. n + 1 \in 1 .. mJobs /\ n + 1 # 1 /\ (n + 1) - 1 = n
      BY <2>1
    <3> QED
      BY <2>1, <3>1 DEF Chain
  <2>4. jobs[mJobs].first + jobs[mJobs].rows = Rows(par)
    BY <2>1 DEF Full
  <2> QED
    BY <2>1, <2>2, <2>3, <2>4 DEF Tiling
<1> QED
  BY <1>1, PartitionPlan, TableInvariant, PTL

(* Each job reads as many lines beyond its band as the wavelet needs, in   *)
(* any picture, with room or without.                                      *)
THEOREM PartitionPaddingSuffices == Spec => []PaddingSuffices
<1>1. PlanInv /\ TableInv => PaddingSuffices
  <2> SUFFICES ASSUME PlanInv, TableInv, Accepted, NEW n \in 1 .. mJobs
               PROVE  /\ jobs[n].first > 0 => jobs[n].pad_t >= par.overlap
                      /\ jobs[n].first + jobs[n].rows < Rows(par) => jobs[n].pad_b >= par.overlap
                      /\ jobs[n].offset_y + jobs[n].pad_t = jobs[n].first * par.slice_height
    BY DEF PaddingSuffices
  <2>1. Chain /\ Full /\ Len(jobs) = mJobs /\ mJobs \in Nat \ {0}
    BY AcceptedTable
  <2>2. CASE n = mJobs
    <3>1. jobs[n].first + jobs[n].rows = Rows(par) /\ Rows(par) \in Int
      BY <2>1, <2>2, Sizes DEF Full, PlanInv, Types
    <3> QED
      BY <2>1, <3>1 DEF Chain
  <2>3. CASE n # mJobs
    <3>1. n < Len(jobs)
      BY <2>1, <2>3
    <3> QED
      BY <2>1, <3>1 DEF Chain
  <2> QED
    BY <2>2, <2>3
<1> QED
  BY <1>1, PartitionPlan, TableInvariant, PTL
-----------------------------------------------------------------------------
(* The transform.  A window ends where the picture goes on, and there the  *)
(* kernels see rows that they make up: what they compute of the rows near  *)
(* such an end is lost.  How many rows are lost after so many levels is    *)
(* known, and the rest of the window is as the picture's.                  *)

\* Rows that an even row depends on, on either side of it; and an odd row.
Reach == CASE par.wavelet = DD97 -> 4 [] par.wavelet = LEGALL -> 2
           [] par.wavelet = DD137 -> 6 [] OTHER -> 0
OddReach == CASE par.wavelet \in {DD97, DD137} -> 3 [] par.wavelet = LEGALL -> 1 [] OTHER -> 0
Lost(k) == Reach * (2^k - 1)

\* A kernel's neighbours, mirrored where the plane of 2n rows ends, stay
\* within its reach.
LEMMA OddNear ==
  ASSUME NEW n \in Nat, 2 * n >= Least, NEW q \in 0 .. n - 1, NEW t \in OddTaps
  PROVE  LET x == Mirror(q + t, n)
         IN  /\ x \in 0 .. n - 1
             /\ 2 * x >= 2 * q + 1 - OddReach \/ OddReach = 0
             /\ 2 * x <= 2 * q + 1 + OddReach
             /\ OddReach = 0 => q + t \in 0 .. n - 1
<1>1. CASE par.wavelet \in {DD97, DD137}
  <2>1. OddTaps = -1 .. 2 /\ OddReach = 3
    BY <1>1 DEF OddTaps, OddReach, DD97, DD137, LEGALL
  <2>2. Least = 8 \/ Least = 10
    BY <1>1 DEF Least, DD97, DD137
  <2>3. t \in -1 .. 2
    BY <2>1
  <2>4. n >= 4
    BY <2>2
  <2> QED
    BY <2>1, <2>3, <2>4 DEF Mirror
<1>2. CASE par.wavelet = LEGALL
  <2>1. OddTaps = 0 .. 1 /\ OddReach = 1
    BY <1>2 DEF OddTaps, OddReach, DD97, DD137, LEGALL
  <2> QED
    BY <2>1 DEF Mirror
<1>3. CASE ~(par.wavelet \in {DD97, DD137}) /\ par.wavelet # LEGALL
  <2>1. OddTaps = {0} /\ OddReach = 0
    BY <1>3 DEF OddTaps, OddReach
  <2>2. t = 0
    BY <2>1
  <2> QED
    BY <2>1, <2>2 DEF Mirror
<1> QED
  BY <1>1, <1>2, <1>3

LEMMA EvenNear ==
  ASSUME NEW n \in Nat, 2 * n >= Least, NEW k \in 0 .. n - 1, NEW t \in EvenTaps
  PROVE  LET x == Mirror(k + t, n)
         IN  /\ x \in 0 .. n - 1
             /\ 2 * x + 1 >= 2 * k - (Reach - OddReach) \/ Reach = 0
             /\ 2 * x + 1 <= 2 * k + (Reach - OddReach) \/ Reach = 0
             /\ Reach = 0 => k + t \in 0 .. n - 1
<1>1. CASE par.wavelet = DD137
  <2>1. EvenTaps = -2 .. 1 /\ OddReach = 3 /\ Reach = 6 /\ Least = 10
    BY <1>1 DEF EvenTaps, OddReach, Reach, Least, DD97, DD137, LEGALL
  <2>2. t \in -2 .. 1 /\ n >= 5
    BY <2>1
  <2> QED
    BY <2>1, <2>2 DEF Mirror
<1>2. CASE par.wavelet = DD97
  <2>1. EvenTaps = -1 .. 0 /\ OddReach = 3 /\ Reach = 4
    BY <1>2 DEF EvenTaps, OddReach, Reach, DD97, DD137, LEGALL
  <2> QED
    BY <2>1 DEF Mirror
<1>3. CASE par.wavelet = LEGALL
  <2>1. EvenTaps = -1 .. 0 /\ OddReach = 1 /\ Reach = 2
    BY <1>3 DEF EvenTaps, OddReach, Reach, DD97, DD137, LEGALL
  <2> QED
    BY <2>1 DEF Mirror
<1>4. CASE ~(par.wavelet \in {DD97, DD137}) /\ par.wavelet # LEGALL
  <2>1. EvenTaps = {0} /\ Reach = 0
    BY <1>4 DEF EvenTaps, Reach
  <2>2. t = 0
    BY <2>1
  <2> QED
    BY <2>1, <2>2 DEF Mirror
<1> QED
  BY <1>1, <1>2, <1>3, <1>4

\* A neighbour in a window of 2n rows, the 2K-th row of a plane of 2N rows
\* being its first, is the neighbour in the plane, unless it lies beyond an
\* end of the window that is no end of the plane.
LEMMA SameNeighbour ==
  ASSUME NEW n \in Nat, NEW N \in Nat, NEW K \in Nat, K + n <= N, NEW x \in Int,
         x \in -2 .. n + 1, n >= 2 \/ x \in -1 .. n,
         K = 0 \/ x >= 0, K + n = N \/ x < n
  PROVE  Mirror(x, n) + K = Mirror(x + K, N)
BY DEF Mirror

LEMMA Reaches ==
  /\ Reach \in {0, 2, 4, 6} /\ OddReach \in Nat /\ OddReach <= Reach
  /\ Reach = 0 <=> OddReach = 0
  /\ Least \in {2, 8, 10}
  /\ \A t \in OddTaps : t \in -1 .. 2 /\ (Least >= 8 \/ t \in 0 .. 1)
                        /\ (OddReach > 0 => 2 * t >= 1 - OddReach /\ 2 * t <= OddReach + 1)
  /\ \A t \in EvenTaps : t \in -2 .. 1 /\ (Least >= 8 \/ t \in -1 .. 0)
                         /\ 2 * t >= -Reach /\ 2 * t <= Reach
<1>1. CASE par.wavelet = DD137
  <2>1. /\ Reach = 6 /\ OddReach = 3 /\ OddTaps = -1 .. 2 /\ EvenTaps = -2 .. 1 /\ Least = 10
    BY <1>1 DEF Reach, OddReach, Least, OddTaps, EvenTaps, DD97, DD137, LEGALL
  <2> QED
    BY <2>1
<1>2. CASE par.wavelet = DD97
  <2>1. /\ Reach = 4 /\ OddReach = 3 /\ OddTaps = -1 .. 2 /\ EvenTaps = -1 .. 0 /\ Least = 8
    BY <1>2 DEF Reach, OddReach, Least, OddTaps, EvenTaps, DD97, DD137, LEGALL
  <2> QED
    BY <2>1
<1>3. CASE par.wavelet = LEGALL
  <2>1. /\ Reach = 2 /\ OddReach = 1 /\ OddTaps = 0 .. 1 /\ EvenTaps = -1 .. 0 /\ Least = 2
    BY <1>3 DEF Reach, OddReach, Least, OddTaps, EvenTaps, DD97, DD137, LEGALL
  <2> QED
    BY <2>1
<1>4. CASE ~(par.wavelet \in {DD97, DD137}) /\ par.wavelet # LEGALL
  <2>1. Reach = 0 /\ OddReach = 0 /\ OddTaps = {0} /\ EvenTaps = {0} /\ Least = 2
    BY <1>4 DEF Reach, OddReach, Least, OddTaps, EvenTaps, DD97, DD137
  <2> QED
    BY <2>1
<1> QED
  BY <1>1, <1>2, <1>3, <1>4

\* A row of the plane after a level: rows[e * s] is the e-th row of that level.
OddRow(rows, s, n, k) ==
  Join({rows[(2 * k + 1) * s]} \cup {rows[(2 * Mirror(k + t, n)) * s] : t \in OddTaps})
EvenRow(rows, s, n, k) ==
  Join({rows[(2 * k) * s]} \cup {OddRow(rows, s, n, Mirror(k + t, n)) : t \in EvenTaps})

RowAfter(rows, s, n, y) ==
  IF y % (2 * s) = 0 THEN EvenRow(rows, s, n, y \div (2 * s))
  ELSE IF y % (2 * s) = s THEN OddRow(rows, s, n, y \div (2 * s))
  ELSE rows[y]

LEMMA LiftedRow ==
  ASSUME NEW rows, NEW H \in Nat, DOMAIN rows = 0 .. H - 1, NEW s \in Nat \ {0},
         H >= Least * s, NEW n, n = H \div (2 * s)
  PROVE  /\ DOMAIN Lifted(rows, s) = 0 .. H - 1
         /\ \A y \in 0 .. H - 1 : Lifted(rows, s)[y] = RowAfter(rows, s, n, y)
<1>1. Cardinality(0 .. H - 1) = H
  <2>1. 0 \in Int /\ H - 1 \in Int
    OBVIOUS
  <2>2. Cardinality(0 .. H - 1) = IF 0 > H - 1 THEN 0 ELSE (H - 1) - 0 + 1
    BY <2>1, FS_Interval
  <2> QED
    BY <2>2
<1>2. Least * s \in Int
  BY Reaches
<1>3. ~(H < Least * s)
  BY <1>2
<1>4. s # 0
  OBVIOUS
<1> DEFINE L(y) == CASE H < Least * s -> Undefined
           [] H >= Least * s /\ y % (2 * s) = 0 -> EvenRow(rows, s, n, y \div (2 * s))
           [] H >= Least * s /\ y % (2 * s) = s -> OddRow(rows, s, n, y \div (2 * s))
           [] OTHER -> rows[y]
<1>5. Lifted(rows, s) = [y \in 0 .. H - 1 |-> L(y)]
  <2> DEFINE C == Cardinality(DOMAIN rows)
             c == C \div (2 * s)
             M(y) == CASE C < Least * s -> Undefined
               [] C >= Least * s /\ y % (2 * s) = 0 -> EvenRow(rows, s, c, y \div (2 * s))
               [] C >= Least * s /\ y % (2 * s) = s -> OddRow(rows, s, c, y \div (2 * s))
               [] OTHER -> rows[y]
  <2>1. Lifted(rows, s) = [y \in DOMAIN rows |-> M(y)]
    BY DEF Lifted, EvenRow, OddRow
  <2>2. C = H /\ c = n
    BY <1>1
  <2>3. ASSUME NEW y PROVE M(y) = L(y)
    <3> HIDE DEF C, c
    <3> QED
      BY <2>2
  <2> HIDE DEF M, L
  <2> QED
    BY <2>1, <2>3
<1>6. ASSUME NEW y \in 0 .. H - 1
      PROVE  L(y) = RowAfter(rows, s, n, y)
  <2> DEFINE m == y % (2 * s)
             E == EvenRow(rows, s, n, y \div (2 * s))
             O == OddRow(rows, s, n, y \div (2 * s))
  <2> HIDE DEF m, E, O
  <2>1. L(y) = CASE H < Least * s -> Undefined [] H >= Least * s /\ m = 0 -> E
                 [] H >= Least * s /\ m = s -> O [] OTHER -> rows[y]
    BY Zenon DEF m, E, O
  <2>2. (CASE H < Least * s -> Undefined [] H >= Least * s /\ m = 0 -> E
                 [] H >= Least * s /\ m = s -> O [] OTHER -> rows[y])
        = IF m = 0 THEN E ELSE IF m = s THEN O ELSE rows[y]
    <3> HIDE DEF L
    <3> QED
      BY <1>3, <1>4
  <2> QED
    BY <2>1, <2>2, Zenon DEF m, E, O, RowAfter
<1> HIDE DEF L
<1> QED
  BY <1>5, <1>6

LEMMA LeastUnder ==
  ASSUME NEW R, IsWellFoundedOn(R, Nat), NEW T, T \subseteq Nat, T # {}
  PROVE  \E n \in T : \A m \in T : <<m, n>> \notin R
BY WFMin

LEMMA LeastNumber ==
  ASSUME NEW T, T \subseteq Nat, T # {}
  PROVE  \E n \in T : \A m \in T : n <= m
<1> DEFINE R == OpToRel(<, Nat)
<1>1. IsWellFoundedOn(R, Nat)
  BY NatLessThanWellFounded
<1> HIDE DEF R
<1>2. PICK n \in T : \A m \in T : <<m, n>> \notin R
  BY <1>1, LeastUnder
<1>3. \A m \in T : ~(m < n)
  BY <1>2 DEF R, OpToRel
<1> QED
  BY <1>3

\* Of spans that all have a first line, their union begins with the least.
LEMMA JoinLo ==
  ASSUME NEW S, S # {}, \A x \in S : x.lo \in Int /\ x.lo >= -2
  PROVE  (\E x \in S : Join(S).lo = x.lo) /\ (\A x \in S : Join(S).lo <= x.lo)
<1> DEFINE A == {x.lo : x \in S}
           T == {a + 2 : a \in A}
           m == CHOOSE a \in A : \A x \in S : a <= x.lo
<1>1. \A a \in A : a \in Int /\ a >= -2
  OBVIOUS
<1>2. T \subseteq Nat /\ T # {}
  <2>1. PICK x \in S : TRUE
    OBVIOUS
  <2>2. x.lo \in A
    OBVIOUS
  <2> HIDE DEF A
  <2>3. \A a \in A : a + 2 \in Nat
    BY <1>1
  <2> QED
    BY <2>2, <2>3
<1>3. PICK n \in T : \A x \in T : n <= x
  BY <1>2, LeastNumber
<1>4. PICK a \in A : n = a + 2
  BY <1>3
<1>5. ASSUME NEW x \in S PROVE a <= x.lo
  <2>1. x.lo \in A /\ x.lo + 2 \in T
    OBVIOUS
  <2>2. n <= x.lo + 2
    BY <1>3, <2>1
  <2> HIDE DEF A
  <2> QED
    BY <1>1, <1>4, <2>1, <2>2
<1>6. m \in A /\ \A x \in S : m <= x.lo
  BY <1>4, <1>5
<1>7. Join(S).lo = m
  BY DEF Join
<1> HIDE DEF m
<1> QED
  BY <1>6, <1>7

\* A row of a window is like the picture's when both have the same span of
\* input lines, or when both depend on leftovers, each on its own.
Like(v, p) == (v.lo \in Nat /\ v = p) \/ (v.lo = -1 /\ p.lo = -2)

LEMMA LikeJoin ==
  ASSUME NEW S, NEW T, S # {},
         \A x \in S : \E y \in T : Like(x, y), \A y \in T : \E x \in S : Like(x, y)
  PROVE  Like(Join(S), Join(T))
<1>1. \A x \in S : x.lo \in Int /\ x.lo >= -1
  BY DEF Like
<1>2. T # {} /\ \A y \in T : y.lo \in Int /\ y.lo >= -2
  BY DEF Like
<1>3. (\E x \in S : Join(S).lo = x.lo) /\ (\A x \in S : Join(S).lo <= x.lo)
  <2>1. \A x \in S : x.lo \in Int /\ x.lo >= -2
    BY <1>1
  <2> QED
    BY <2>1, JoinLo
<1>4. (\E y \in T : Join(T).lo = y.lo) /\ (\A y \in T : Join(T).lo <= y.lo)
  BY <1>2, JoinLo
<1>5. CASE \E x \in S : x.lo = -1
  <2>1. Join(S).lo = -1
    BY <1>1, <1>3, <1>5
  <2>2. \E y \in T : y.lo = -2
    BY <1>5 DEF Like
  <2>3. Join(T).lo = -2
    BY <1>2, <1>4, <2>2
  <2> QED
    BY <2>1, <2>3 DEF Like
<1>6. CASE ~(\E x \in S : x.lo = -1)
  <2>1. \A x \in S : x \in T /\ x.lo \in Nat
    BY <1>6 DEF Like
  <2>2. \A y \in T : y \in S
    BY <1>6 DEF Like
  <2>3. S = T
    BY <2>1, <2>2
  <2>4. Join(S).lo \in Nat
    BY <1>3, <2>1
  <2> QED
    BY <2>3, <2>4 DEF Like
<1> QED
  BY <1>5, <1>6

\* The e-th row of a window is like the plane's, e being neither among the first
\* r rows nor the last b, unless the plane ends there.
SameRows(V, P, s, n, N, K, r, b) ==
  \A e \in 0 .. 2 * n - 1 :
    (K = 0 \/ e >= r) /\ (K + n = N \/ e + b < 2 * n) => Like(V[e * s], P[(2 * K + e) * s])

LEMMA OddRowAgrees ==
  ASSUME NEW V, NEW P, NEW s \in Nat \ {0}, NEW n \in Nat, NEW N \in Nat, NEW K \in Nat,
         K + n <= N, 2 * n >= Least, NEW r \in Nat, NEW b \in Nat,
         Reach = 0 => r = 0 /\ b = 0,
         SameRows(V, P, s, n, N, K, r, b), NEW q \in 0 .. n - 1,
         K = 0 \/ 2 * q + 1 >= r + OddReach,
         K + n = N \/ 2 * q + 1 + b + OddReach < 2 * n
  PROVE  Like(OddRow(V, s, n, q), OddRow(P, s, N, K + q))
<1>1. OddReach \in Nat /\ (Reach = 0 <=> OddReach = 0) /\ Least \in {2, 8, 10}
  BY Reaches
<1>2. Like(V[(2 * q + 1) * s], P[(2 * (K + q) + 1) * s])
  <2> DEFINE e == 2 * q + 1
  <2>1. e \in 0 .. 2 * n - 1 /\ 2 * K + e = 2 * (K + q) + 1
    OBVIOUS
  <2>2. (K = 0 \/ e >= r) /\ (K + n = N \/ e + b < 2 * n)
    BY <1>1
  <2> HIDE DEF e
  <2>3. Like(V[e * s], P[(2 * K + e) * s])
    BY <2>1, <2>2 DEF SameRows
  <2> QED
    BY <2>1, <2>3 DEF e
<1>3. ASSUME NEW t \in OddTaps
      PROVE  Like(V[(2 * Mirror(q + t, n)) * s], P[(2 * Mirror((K + q) + t, N)) * s])
  <2> DEFINE x == Mirror(q + t, n)
  <2>1. /\ x \in 0 .. n - 1
        /\ 2 * x >= 2 * q + 1 - OddReach \/ OddReach = 0
        /\ 2 * x <= 2 * q + 1 + OddReach
        /\ OddReach = 0 => q + t \in 0 .. n - 1
    BY OddNear
  <2>2. /\ t \in -1 .. 2 /\ (Least >= 8 \/ t \in 0 .. 1)
        /\ (OddReach > 0 => 2 * t >= 1 - OddReach /\ 2 * t <= OddReach + 1)
    BY Reaches
  <2>3. x + K = Mirror((q + t) + K, N)
    <3>1. q + t \in Int /\ q + t \in -2 .. n + 1 /\ (n >= 2 \/ q + t \in -1 .. n)
      BY <1>1, <2>2
    <3>2. (K = 0 \/ q + t >= 0) /\ (K + n = N \/ q + t < n)
      BY <1>1, <2>1, <2>2
    <3> QED
      BY <3>1, <3>2, SameNeighbour
  <2> HIDE DEF x
  <2>4. 2 * x \in 0 .. 2 * n - 1 /\ 2 * K + 2 * x = 2 * (x + K) /\ (q + t) + K = (K + q) + t
    BY <2>1, <2>2
  <2>5. (K = 0 \/ 2 * x >= r) /\ (K + n = N \/ 2 * x + b < 2 * n)
    BY <1>1, <2>1
  <2>6. Like(V[(2 * x) * s], P[(2 * K + 2 * x) * s])
    BY <2>4, <2>5 DEF SameRows
  <2> QED
    BY <2>3, <2>4, <2>6 DEF x
<1> DEFINE a == V[(2 * q + 1) * s]
           d == P[(2 * (K + q) + 1) * s]
           f(t) == V[(2 * Mirror(q + t, n)) * s]
           g(t) == P[(2 * Mirror((K + q) + t, N)) * s]
           S == {a} \cup {f(t) : t \in OddTaps}
           T == {d} \cup {g(t) : t \in OddTaps}
<1>4. Like(a, d) /\ \A t \in OddTaps : Like(f(t), g(t))
  BY <1>2, <1>3
<1>5. OddRow(V, s, n, q) = Join(S) /\ OddRow(P, s, N, K + q) = Join(T)
  BY DEF OddRow
<1> HIDE DEF a, d, f, g
<1>6. /\ S # {} /\ \A x \in S : \E y \in T : Like(x, y)
      /\ \A y \in T : \E x \in S : Like(x, y)
  BY <1>4
<1> HIDE DEF S, T
<1> QED
  BY <1>5, <1>6, LikeJoin

LEMMA EvenRowAgrees ==
  ASSUME NEW V, NEW P, NEW s \in Nat \ {0}, NEW n \in Nat, NEW N \in Nat, NEW K \in Nat,
         K + n <= N, 2 * n >= Least, NEW r \in Nat, NEW b \in Nat,
         Reach = 0 => r = 0 /\ b = 0,
         SameRows(V, P, s, n, N, K, r, b), NEW k \in 0 .. n - 1,
         K = 0 \/ 2 * k >= r + Reach,
         K + n = N \/ 2 * k + b + Reach < 2 * n
  PROVE  Like(EvenRow(V, s, n, k), EvenRow(P, s, N, K + k))
<1>1. /\ OddReach \in Nat /\ (Reach = 0 <=> OddReach = 0) /\ Least \in {2, 8, 10}
      /\ Reach \in Nat /\ OddReach <= Reach
  BY Reaches
<1>2. Like(V[(2 * k) * s], P[(2 * (K + k)) * s])
  <2>1. 2 * k \in 0 .. 2 * n - 1 /\ 2 * K + 2 * k = 2 * (K + k)
    OBVIOUS
  <2>2. (K = 0 \/ 2 * k >= r) /\ (K + n = N \/ 2 * k + b < 2 * n)
    BY <1>1
  <2> QED
    BY <2>1, <2>2 DEF SameRows
<1>3. ASSUME NEW t \in EvenTaps
      PROVE  Like(OddRow(V, s, n, Mirror(k + t, n)), OddRow(P, s, N, Mirror((K + k) + t, N)))
  <2> DEFINE x == Mirror(k + t, n)
  <2>1. /\ x \in 0 .. n - 1
        /\ 2 * x + 1 >= 2 * k - (Reach - OddReach) \/ Reach = 0
        /\ 2 * x + 1 <= 2 * k + (Reach - OddReach) \/ Reach = 0
        /\ Reach = 0 => k + t \in 0 .. n - 1
    BY EvenNear
  <2>2. /\ t \in -2 .. 1 /\ (Least >= 8 \/ t \in -1 .. 0)
        /\ 2 * t >= -Reach /\ 2 * t <= Reach
    BY Reaches
  <2>3. x + K = Mirror((k + t) + K, N)
    <3>1. k + t \in Int /\ k + t \in -2 .. n + 1 /\ (n >= 2 \/ k + t \in -1 .. n)
      BY <1>1, <2>2
    <3>2. (K = 0 \/ k + t >= 0) /\ (K + n = N \/ k + t < n)
      BY <1>1, <2>1, <2>2
    <3> QED
      BY <3>1, <3>2, SameNeighbour
  <2> HIDE DEF x
  <2>4. (k + t) + K = (K + k) + t /\ x + K = K + x
    BY <2>1, <2>2
  <2>5. /\ K = 0 \/ 2 * x + 1 >= r + OddReach
        /\ K + n = N \/ 2 * x + 1 + b + OddReach < 2 * n
    BY <1>1, <2>1
  <2>6. Like(OddRow(V, s, n, x), OddRow(P, s, N, K + x))
    BY <2>1, <2>5, OddRowAgrees
  <2> QED
    BY <2>3, <2>4, <2>6 DEF x
<1> DEFINE a == V[(2 * k) * s]
           d == P[(2 * (K + k)) * s]
           f(t) == OddRow(V, s, n, Mirror(k + t, n))
           g(t) == OddRow(P, s, N, Mirror((K + k) + t, N))
           S == {a} \cup {f(t) : t \in EvenTaps}
           T == {d} \cup {g(t) : t \in EvenTaps}
<1>4. Like(a, d) /\ \A t \in EvenTaps : Like(f(t), g(t))
  BY <1>2, <1>3, Zenon
<1>5. EvenRow(V, s, n, k) = Join(S) /\ EvenRow(P, s, N, K + k) = Join(T)
  BY Zenon DEF EvenRow
<1> HIDE DEF a, d, f, g
<1>6. /\ S # {} /\ \A x \in S : \E y \in T : Like(x, y)
      /\ \A y \in T : \E x \in S : Like(x, y)
  BY <1>4
<1> HIDE DEF S, T
<1> QED
  BY <1>5, <1>6, LikeJoin

\* skip, at the four levels.
Skips == {1, 2, 4, 8}

\* Where the rows of one level that are lost begin, among those that the next
\* one looks at: r of them at the top of a window, b at its bottom.
LostFrom(c, s, r, b) ==
  /\ c = 0 => r = 0 /\ b = 0
  /\ \A e \in Int : e >= r => e * s >= c * (s - 1)
  /\ \A e \in Int : e * s >= c * (2 * s - 1) => e >= r + c
  /\ \A d \in Int : b < d => c * (s - 1) < d * s
  /\ \A d \in Int : c * (2 * s - 1) < d * s => b + c < d

LEMMA LostRows ==
  ASSUME NEW c \in {0, 2, 4, 6}, NEW s \in {1, 2, 4, 8}
  PROVE  \E r, b \in Nat : LostFrom(c, s, r, b)
<1> DEFINE r == c - (c \div s)
           b == c - ((c + s - 1) \div s)
<1>1. /\ r \in Nat /\ b \in Nat /\ (c = 0 => r = 0 /\ b = 0)
      /\ s * r >= c * (s - 1) /\ s * r < c * (s - 1) + s
      /\ s * b <= c * (s - 1) /\ s * b + s > c * (s - 1)
  <2>1. CASE s = 1
    BY <2>1
  <2>2. CASE s = 2
    BY <2>2
  <2>3. CASE s = 4
    BY <2>3
  <2>4. CASE s = 8
    BY <2>4
  <2> QED
    BY <2>1, <2>2, <2>3, <2>4
<1> HIDE DEF r, b
<1>2. LostFrom(c, s, r, b)
  <2>1. CASE s = 1
    <3>1. /\ \A e \in Int : e >= r => e * s >= c * (s - 1)
          /\ \A e \in Int : e * s >= c * (2 * s - 1) => e >= r + c
      BY <1>1, <2>1
    <3>2. /\ \A d \in Int : b < d => c * (s - 1) < d * s
          /\ \A d \in Int : c * (2 * s - 1) < d * s => b + c < d
      BY <1>1, <2>1
    <3> QED
      BY <1>1, <3>1, <3>2, Zenon DEF LostFrom
  <2>2. CASE s = 2
    <3>1. /\ \A e \in Int : e >= r => e * s >= c * (s - 1)
          /\ \A e \in Int : e * s >= c * (2 * s - 1) => e >= r + c
      BY <1>1, <2>2
    <3>2. /\ \A d \in Int : b < d => c * (s - 1) < d * s
          /\ \A d \in Int : c * (2 * s - 1) < d * s => b + c < d
      BY <1>1, <2>2
    <3> QED
      BY <1>1, <3>1, <3>2, Zenon DEF LostFrom
  <2>3. CASE s = 4
    <3>1. /\ \A e \in Int : e >= r => e * s >= c * (s - 1)
          /\ \A e \in Int : e * s >= c * (2 * s - 1) => e >= r + c
      BY <1>1, <2>3
    <3>2. /\ \A d \in Int : b < d => c * (s - 1) < d * s
          /\ \A d \in Int : c * (2 * s - 1) < d * s => b + c < d
      BY <1>1, <2>3
    <3> QED
      BY <1>1, <3>1, <3>2, Zenon DEF LostFrom
  <2>4. CASE s = 8
    <3>1. /\ \A e \in Int : e >= r => e * s >= c * (s - 1)
          /\ \A e \in Int : e * s >= c * (2 * s - 1) => e >= r + c
      BY <1>1, <2>4
    <3>2. /\ \A d \in Int : b < d => c * (s - 1) < d * s
          /\ \A d \in Int : c * (2 * s - 1) < d * s => b + c < d
      BY <1>1, <2>4
    <3> QED
      BY <1>1, <3>1, <3>2, Zenon DEF LostFrom
  <2> QED
    BY <2>1, <2>2, <2>3, <2>4
<1> QED
  BY <1>1, <1>2, Zenon

\* Where row y of a window and the same row of the picture are in their level.
Split(y, s, K, k, u) ==
  /\ y = k * (2 * s) + u /\ y \div (2 * s) = k /\ y % (2 * s) = u
  /\ (K * (2 * s) + y) \div (2 * s) = K + k /\ (K * (2 * s) + y) % (2 * s) = u

LEMMA SplitRow ==
  ASSUME NEW s \in Skips, NEW K \in Nat, NEW n \in Nat, NEW y \in 0 .. n * (2 * s) - 1
  PROVE  \E k \in 0 .. n - 1, u \in Nat : Split(y, s, K, k, u)
<1> SUFFICES /\ y \div (2 * s) \in 0 .. n - 1 /\ y % (2 * s) \in Nat
             /\ y = (y \div (2 * s)) * (2 * s) + (y % (2 * s))
             /\ (K * (2 * s) + y) \div (2 * s) = K + (y \div (2 * s))
             /\ (K * (2 * s) + y) % (2 * s) = y % (2 * s)
  BY DEF Split
<1>1. CASE s = 1
  BY <1>1
<1>2. CASE s = 2
  BY <1>2
<1>3. CASE s = 4
  BY <1>3
<1>4. CASE s = 8
  BY <1>4
<1> QED
  BY <1>1, <1>2, <1>3, <1>4 DEF Skips

\* A window of H rows, the first of which is row o of the picture's M, is like
\* the picture but for m rows at an end where the picture goes on.
Agrees(V, P, o, H, M, m) ==
  \A y \in 0 .. H - 1 :
    (o = 0 \/ y >= m) /\ (o + H = M \/ y + m < H) => Like(V[y], P[o + y])

\* A window of 2n rows of a level, rows s lines apart, and a picture of 2N.
Level(V, P, s, n, N, K, o, H, M) ==
  /\ s \in {1, 2, 4, 8} /\ n \in Nat /\ N \in Nat /\ K \in Nat
  /\ K + n <= N /\ 2 * n >= Least
  /\ H = n * (2 * s) /\ M = N * (2 * s) /\ o = K * (2 * s)
  /\ DOMAIN V = 0 .. H - 1 /\ DOMAIN P = 0 .. M - 1

LEMMA LevelAgrees ==
  ASSUME NEW V, NEW P, NEW s, NEW n, NEW N, NEW K, NEW o, NEW H, NEW M,
         Level(V, P, s, n, N, K, o, H, M),
         Agrees(V, P, o, H, M, Reach * (s - 1))
  PROVE  /\ DOMAIN Lifted(V, s) = 0 .. H - 1 /\ DOMAIN Lifted(P, s) = 0 .. M - 1
         /\ Agrees(Lifted(V, s), Lifted(P, s), o, H, M, Reach * (2 * s - 1))
<1>0. /\ s \in {1, 2, 4, 8} /\ n \in Nat /\ N \in Nat /\ K \in Nat
      /\ K + n <= N /\ 2 * n >= Least
      /\ H = n * (2 * s) /\ M = N * (2 * s) /\ o = K * (2 * s)
      /\ DOMAIN V = 0 .. H - 1 /\ DOMAIN P = 0 .. M - 1
  BY DEF Level
<1> USE <1>0
<1>1. /\ Reach \in {0, 2, 4, 6} /\ OddReach \in Nat /\ OddReach <= Reach
      /\ Least \in {2, 8, 10}
  BY Reaches
<1>2. H \in Nat /\ M \in Nat /\ o \in Nat /\ H >= Least * s /\ M >= Least * s /\ o + H <= M
  <2>1. s = 1 \/ s = 2 \/ s = 4 \/ s = 8
    OBVIOUS
  <2>2. CASE s = 1
    BY <1>1, <2>2
  <2>3. CASE s = 2
    BY <1>1, <2>3
  <2>4. CASE s = 4
    BY <1>1, <2>4
  <2>5. CASE s = 8
    BY <1>1, <2>5
  <2> QED
    BY <2>1, <2>2, <2>3, <2>4, <2>5
<1>3. s \in Nat \ {0} /\ H \div (2 * s) = n /\ M \div (2 * s) = N
  <2>1. CASE s = 1
    BY <2>1
  <2>2. CASE s = 2
    BY <2>2
  <2>3. CASE s = 4
    BY <2>3
  <2>4. CASE s = 8
    BY <2>4
  <2> QED
    BY <2>1, <2>2, <2>3, <2>4
<1>4. /\ DOMAIN Lifted(V, s) = 0 .. H - 1
       /\ \A y \in 0 .. H - 1 : Lifted(V, s)[y] = RowAfter(V, s, n, y)
  <2>1. H \in Nat /\ H >= Least * s /\ DOMAIN V = 0 .. H - 1
    BY <1>2
  <2>2. s \in Nat \ {0} /\ n = H \div (2 * s)
    BY <1>3
  <2> QED
    BY ONLY <2>1, <2>2, LiftedRow
<1>5. /\ DOMAIN Lifted(P, s) = 0 .. M - 1
       /\ \A y \in 0 .. M - 1 : Lifted(P, s)[y] = RowAfter(P, s, N, y)
  <2>1. M \in Nat /\ M >= Least * s /\ DOMAIN P = 0 .. M - 1
    BY <1>2
  <2>2. s \in Nat \ {0} /\ N = M \div (2 * s)
    BY <1>3
  <2> QED
    BY ONLY <2>1, <2>2, LiftedRow
<1>6. \E r, b \in Nat : LostFrom(Reach, s, r, b)
  <2>1. Reach \in {0, 2, 4, 6} /\ s \in {1, 2, 4, 8}
    BY <1>1
  <2> QED
    BY ONLY <2>1, LostRows
<1>7. PICK r \in Nat, b \in Nat :
        /\ Reach = 0 => r = 0 /\ b = 0
        /\ \A e \in Int : e >= r => e * s >= Reach * (s - 1)
        /\ \A e \in Int : e * s >= Reach * (2 * s - 1) => e >= r + Reach
        /\ \A d \in Int : b < d => Reach * (s - 1) < d * s
        /\ \A d \in Int : Reach * (2 * s - 1) < d * s => b + Reach < d
  BY <1>6, Zenon DEF LostFrom
<1> DEFINE m == Reach * (s - 1)
           g == Reach * (2 * s - 1)
<1>8. m \in Nat /\ g \in Nat /\ m <= g
  BY <1>1, <1>3
<1>9. \A e \in Int : /\ e * s \in Int /\ (2 * K + e) * s = o + e * s
                     /\ (2 * n - e) * s = H - e * s
  BY <1>3
<1>10. SameRows(V, P, s, n, N, K, r, b)
  <2> SUFFICES ASSUME NEW e \in 0 .. 2 * n - 1, K = 0 \/ e >= r, K + n = N \/ e + b < 2 * n
               PROVE  Like(V[e * s], P[(2 * K + e) * s])
    BY DEF SameRows
  <2>1. e \in Int /\ 2 * n - e \in Int /\ 2 * n - e >= 1 /\ e >= 0
    OBVIOUS
  <2>2. e * s \in 0 .. H - 1
    <3>1. (2 * n - e) * s >= 1 /\ e * s >= 0
      BY <2>1
    <3> QED
      BY <1>2, <1>9, <2>1, <3>1
  <2>3. o = 0 \/ e * s >= m
    <3>1. K = 0 => o = 0
      BY <1>3
    <3>2. e >= r => e * s >= m
      BY <1>7, <2>1
    <3> QED
      BY <3>1, <3>2
  <2>4. o + H = M \/ e * s + m < H
    <3>1. K + n = N => o + H = M
      BY <1>3
    <3>2. e + b < 2 * n => m < (2 * n - e) * s
      <4>1. e + b < 2 * n => b < 2 * n - e
        OBVIOUS
      <4>2. b < 2 * n - e => m < (2 * n - e) * s
        BY <1>7, <2>1, Zenon
      <4> QED
        BY <4>1, <4>2
    <3> QED
      BY <1>2, <1>8, <1>9, <2>1, <3>1, <3>2
  <2> HIDE DEF m
  <2>5. Like(V[e * s], P[o + e * s])
    BY <2>2, <2>3, <2>4 DEF Agrees, m
  <2> QED
    BY <1>9, <2>1, <2>5
<1>11. s \in Nat \ {0} /\ n \in Nat /\ N \in Nat /\ K \in Nat /\ K + n <= N /\ 2 * n >= Least
  BY <1>3
<1>12. r \in Nat /\ b \in Nat /\ (Reach = 0 => r = 0 /\ b = 0) /\ SameRows(V, P, s, n, N, K, r, b)
  BY <1>7, <1>10
<1>13. ASSUME NEW y \in 0 .. H - 1, o = 0 \/ y >= g, o + H = M \/ y + g < H
      PROVE  Like(Lifted(V, s)[y], Lifted(P, s)[o + y])
  <2>1. PICK k \in 0 .. n - 1, u \in Nat : Split(y, s, K, k, u)
    <3>1. y \in 0 .. n * (2 * s) - 1 /\ s \in Skips
      BY DEF Skips
    <3> QED
      BY <3>1, SplitRow, Zenon
  <2>2. /\ y = k * (2 * s) + u /\ y \div (2 * s) = k /\ y % (2 * s) = u
         /\ (o + y) \div (2 * s) = K + k /\ (o + y) % (2 * s) = u
    BY <2>1 DEF Split
  <2>3. o + y \in 0 .. M - 1
    BY <1>2
  <2>4. /\ Lifted(V, s)[y] = IF u = 0 THEN EvenRow(V, s, n, k)
                             ELSE IF u = s THEN OddRow(V, s, n, k) ELSE V[y]
        /\ Lifted(P, s)[o + y] = IF u = 0 THEN EvenRow(P, s, N, K + k)
                                 ELSE IF u = s THEN OddRow(P, s, N, K + k) ELSE P[o + y]
    <3>1. Lifted(V, s)[y] = IF u = 0 THEN EvenRow(V, s, n, k)
                             ELSE IF u = s THEN OddRow(V, s, n, k) ELSE V[y]
      BY <1>4, <2>1, <2>2 DEF RowAfter
    <3>2. Lifted(P, s)[o + y] =
            IF (o + y) % (2 * s) = 0 THEN EvenRow(P, s, N, (o + y) \div (2 * s))
            ELSE IF (o + y) % (2 * s) = s THEN OddRow(P, s, N, (o + y) \div (2 * s))
            ELSE P[o + y]
      BY <1>5, <2>3 DEF RowAfter
    <3> QED
      BY <2>1, <2>2, <3>1, <3>2
  <2>5. K = 0 <=> o = 0
    BY <1>3
  <2>6. K + n = N <=> o + H = M
    BY <1>3
  <2>7. ASSUME NEW e \in Int, y = e * s
        PROVE  (K = 0 \/ e >= r + Reach) /\ (K + n = N \/ e + b + Reach < 2 * n)
    <3>1. K = 0 \/ e >= r + Reach
      BY <1>7, <1>13, <2>5, <2>7
    <3>2. y + g < H => g < (2 * n - e) * s
      BY <1>2, <1>8, <1>9, <2>7
    <3>3. g < (2 * n - e) * s => b + Reach < 2 * n - e
      BY <1>7
    <3>4. K + n = N \/ e + b + Reach < 2 * n
      BY <1>1, <1>13, <2>6, <3>2, <3>3
    <3> QED
      BY <3>1, <3>4
  <2>8. CASE u = 0
    <3>1. y = (2 * k) * s /\ 2 * k \in Int
      BY <1>3, <2>1, <2>2, <2>8
    <3>2. (K = 0 \/ 2 * k >= r + Reach) /\ (K + n = N \/ 2 * k + b + Reach < 2 * n)
      BY <2>7, <3>1
    <3>3. Like(EvenRow(V, s, n, k), EvenRow(P, s, N, K + k))
      BY ONLY <1>11, <1>12, <2>1, <3>2, EvenRowAgrees
    <3> QED
      BY <2>4, <2>8, <3>3
  <2>9. CASE u # 0 /\ u = s
    <3>1. y = (2 * k + 1) * s /\ 2 * k + 1 \in Int
      BY <1>3, <2>1, <2>2, <2>9
    <3>2. /\ K = 0 \/ 2 * k + 1 >= r + Reach
          /\ K + n = N \/ 2 * k + 1 + b + Reach < 2 * n
      BY <2>7, <3>1
    <3>3. /\ K = 0 \/ 2 * k + 1 >= r + OddReach
          /\ K + n = N \/ 2 * k + 1 + b + OddReach < 2 * n
      BY <1>1, <2>1, <2>2, <3>2
    <3>4. Like(OddRow(V, s, n, k), OddRow(P, s, N, K + k))
      BY ONLY <1>11, <1>12, <2>1, <3>3, OddRowAgrees
    <3> QED
      BY <2>4, <2>9, <3>4
  <2>10. CASE u # 0 /\ u # s
    <3>1. (o = 0 \/ y >= m) /\ (o + H = M \/ y + m < H)
      BY <1>2, <1>8, <1>13
    <3> HIDE DEF m
    <3>2. Like(V[y], P[o + y])
      BY <3>1 DEF Agrees, m
    <3> QED
      BY <2>4, <2>10, <3>2
  <2> QED
    BY <2>8, <2>9, <2>10
<1>14. Agrees(Lifted(V, s), Lifted(P, s), o, H, M, g)
  <2> HIDE DEF g
  <2> QED
    BY <1>13, Zenon DEF Agrees
<1> QED
  BY <1>14, <1>4, <1>5

\* Only what the 9/7 and 13/7 kernels leave unwritten is no input; all but the
\* last rows of the picture, of its padding and m above it, depend on none.
Wet == par.wavelet \in {DD97, DD137}
Dry(P, M, m) == \A y \in 0 .. M - 1 : (Wet => y + m < par.luma) => P[y].lo \in Nat

LEMMA LevelDry ==
  ASSUME NEW P, NEW s \in {1, 2, 4, 8}, NEW N \in Nat, NEW M, 2 * N >= Least,
         M = N * (2 * s), DOMAIN P = 0 .. M - 1, par.luma \in Nat,
         Dry(P, M, Reach * (s - 1))
  PROVE  Dry(Lifted(P, s), M, Reach * (2 * s - 1))
<1> DEFINE m == Reach * (s - 1)
           g == Reach * (2 * s - 1)
           z == par.luma
<1>1. /\ Reach \in {0, 2, 4, 6} /\ OddReach \in Nat /\ OddReach <= Reach
      /\ Least \in {2, 8, 10}
  BY Reaches
<1>2. Wet => Reach # 0
  BY DEF Wet, Reach, DD97, DD137, LEGALL
<1>3. /\ s \in Nat \ {0} /\ M \in Nat /\ M \div (2 * s) = N /\ M >= Least * s
      /\ m \in Nat /\ g \in Nat /\ g = Reach * s + m /\ m <= g /\ Reach * s \in Nat
      /\ \A e \in 0 .. 2 * N - 1 : e * s \in 0 .. M - 1
      /\ \A e \in Int : e * s \in Int
      /\ \A e, f \in Int : (e <= f => e * s <= f * s) /\ (e + f) * s = e * s + f * s
  <2>1. CASE s = 1
    BY <1>1, <2>1
  <2>2. CASE s = 2
    BY <1>1, <2>2
  <2>3. CASE s = 4
    BY <1>1, <2>3
  <2>4. CASE s = 8
    BY <1>1, <2>4
  <2> QED
    BY <2>1, <2>2, <2>3, <2>4
<1>4. ASSUME NEW e \in 0 .. 2 * N - 1, Wet => e * s + m < z
      PROVE  P[e * s].lo \in Nat
  BY <1>3, <1>4 DEF Dry
<1> HIDE DEF m, g
<1>5. ASSUME NEW q \in 0 .. N - 1, Wet => (2 * q + 1 + OddReach) * s + m < z
      PROVE  OddRow(P, s, N, q).lo \in Nat
  <2> DEFINE S == {P[(2 * q + 1) * s]} \cup {P[(2 * Mirror(q + t, N)) * s] : t \in OddTaps}
  <2>1. ASSUME NEW e \in 0 .. 2 * N - 1, e <= 2 * q + 1 + OddReach
        PROVE  P[e * s].lo \in Nat
    <3>1. e \in Int /\ 2 * q + 1 + OddReach \in Int
      BY <1>1
    <3>2. e * s <= (2 * q + 1 + OddReach) * s
      BY <1>3, <2>1, <3>1
    <3>3. Wet => e * s + m < z
      BY <1>3, <1>5, <3>1, <3>2
    <3> QED
      BY <1>4, <3>3
  <2>2. P[(2 * q + 1) * s].lo \in Nat
    <3>1. 2 * q + 1 \in 0 .. 2 * N - 1 /\ 2 * q + 1 <= 2 * q + 1 + OddReach
      BY <1>1
    <3> QED
      BY <2>1, <3>1
  <2>3. ASSUME NEW t \in OddTaps PROVE P[(2 * Mirror(q + t, N)) * s].lo \in Nat
    <3> DEFINE x == Mirror(q + t, N)
    <3>1. x \in 0 .. N - 1 /\ 2 * x <= 2 * q + 1 + OddReach
      BY OddNear
    <3> HIDE DEF x
    <3>2. 2 * x \in 0 .. 2 * N - 1
      BY <3>1
    <3>3. P[(2 * x) * s].lo \in Nat
      BY <2>1, <3>1, <3>2
    <3> QED
      BY <3>3 DEF x
  <2>4. S # {} /\ \A x \in S : x.lo \in Nat
    BY <2>2, <2>3
  <2> HIDE DEF S
  <2>5. \A x \in S : x.lo \in Int /\ x.lo >= -2
    BY <2>4
  <2>6. Join(S).lo \in Nat
    BY <2>4, <2>5, JoinLo
  <2> QED
    BY <2>6 DEF S, OddRow
<1>6. ASSUME NEW k \in 0 .. N - 1, Wet => (2 * k + Reach) * s + m < z
      PROVE  EvenRow(P, s, N, k).lo \in Nat
  <2> DEFINE S == {P[(2 * k) * s]} \cup {OddRow(P, s, N, Mirror(k + t, N)) : t \in EvenTaps}
  <2>1. P[(2 * k) * s].lo \in Nat
    <3>1. 2 * k \in 0 .. 2 * N - 1 /\ 2 * k <= 2 * k + Reach /\ 2 * k + Reach \in Int
      BY <1>1
    <3>2. (2 * k) * s <= (2 * k + Reach) * s
      BY <1>3, <3>1
    <3>3. Wet => (2 * k) * s + m < z
      BY <1>3, <1>6, <3>1, <3>2
    <3> QED
      BY <1>4, <3>1, <3>3
  <2>2. ASSUME NEW t \in EvenTaps PROVE OddRow(P, s, N, Mirror(k + t, N)).lo \in Nat
    <3> DEFINE x == Mirror(k + t, N)
    <3>1. x \in 0 .. N - 1 /\ (2 * x + 1 <= 2 * k + (Reach - OddReach) \/ Reach = 0)
      BY EvenNear
    <3> HIDE DEF x
    <3>2. Wet => (2 * x + 1 + OddReach) * s + m < z
      <4> SUFFICES ASSUME Wet PROVE (2 * x + 1 + OddReach) * s + m < z
        OBVIOUS
      <4>1. /\ 2 * x + 1 + OddReach <= 2 * k + Reach
            /\ 2 * x + 1 + OddReach \in Int /\ 2 * k + Reach \in Int
        BY <1>1, <1>2, <3>1
      <4>2. (2 * x + 1 + OddReach) * s <= (2 * k + Reach) * s
        BY <1>3, <4>1
      <4> DEFINE a == (2 * x + 1 + OddReach) * s
                 b == (2 * k + Reach) * s
      <4>3. a \in Int /\ b \in Int /\ a <= b /\ b + m < z
        BY <1>3, <1>6, <4>1, <4>2
      <4> HIDE DEF a, b
      <4>4. a + m < z
        BY <1>3, <4>3
      <4> QED
        BY <4>4 DEF a
    <3>3. OddRow(P, s, N, x).lo \in Nat
      BY <1>5, <3>1, <3>2
    <3> QED
      BY <3>3 DEF x
  <2>3. S # {} /\ \A x \in S : x.lo \in Nat
    BY <2>1, <2>2
  <2> HIDE DEF S
  <2>4. \A x \in S : x.lo \in Int /\ x.lo >= -2
    BY <2>3
  <2>5. Join(S).lo \in Nat
    BY <2>3, <2>4, JoinLo
  <2> QED
    BY <2>5 DEF S, EvenRow
<1>7. ASSUME NEW y \in 0 .. M - 1, Wet => y + g < z
      PROVE  Lifted(P, s)[y].lo \in Nat
  <2>1. PICK k \in 0 .. N - 1, u \in Nat : Split(y, s, 0, k, u)
    <3>1. y \in 0 .. N * (2 * s) - 1 /\ s \in Skips /\ 0 \in Nat
      BY DEF Skips
    <3> QED
      BY <3>1, SplitRow, Zenon
  <2>2. y = k * (2 * s) + u /\ y \div (2 * s) = k /\ y % (2 * s) = u
    BY <2>1 DEF Split
  <2>3. Lifted(P, s)[y] = IF u = 0 THEN EvenRow(P, s, N, k)
                          ELSE IF u = s THEN OddRow(P, s, N, k) ELSE P[y]
    <3>1. Lifted(P, s)[y] = RowAfter(P, s, N, y)
      BY <1>3, LiftedRow
    <3> QED
      BY <2>2, <3>1, Zenon DEF RowAfter
  <2>4. CASE u = 0
    <3>1. y = (2 * k) * s
      BY <1>3, <2>2, <2>4
    <3>2. Wet => (2 * k + Reach) * s + m < z
      <4>1. (2 * k + Reach) * s = (2 * k) * s + Reach * s
        BY <1>1, <1>3
      <4> QED
        BY <1>3, <1>7, <3>1, <4>1
    <3> QED
      BY <1>6, <2>3, <2>4, <3>2
  <2>5. CASE u # 0 /\ u = s
    <3>1. y = (2 * k + 1) * s
      BY <1>3, <2>2, <2>5
    <3>2. Wet => (2 * k + 1 + OddReach) * s + m < z
      <4>1. /\ (2 * k + 1 + OddReach) * s = (2 * k + 1) * s + OddReach * s
            /\ OddReach * s <= Reach * s /\ OddReach * s \in Int
        BY <1>1, <1>3
      <4> QED
        BY <1>3, <1>7, <3>1, <4>1
    <3> QED
      BY <1>5, <2>3, <2>5, <3>2
  <2>6. CASE u # 0 /\ u # s
    <3>1. Wet => y + m < z
      BY <1>3, <1>7
    <3>2. P[y].lo \in Nat
      BY <3>1 DEF Dry, m
    <3> QED
      BY <2>3, <2>6, <3>2
  <2> QED
    BY <2>4, <2>5, <2>6
<1> QED
  BY <1>7, Zenon DEF Dry, g
-----------------------------------------------------------------------------
(* The windows.  A job's padding is whole rows of slices; the band and its *)
(* padding lie in the picture, and together they are at least as high as   *)
(* two paddings.                                                           *)
Padded(j, above, below, height) ==
  /\ j.pad_t = above * par.slice_height /\ j.pad_b = below * par.slice_height
  /\ j.offset_y = (j.first - above) * par.slice_height
  /\ j.height = height
  /\ j.first >= above /\ j.rows >= 1 /\ j.first + j.rows + below <= Rows(par)
  /\ above + j.rows + below >= 2 * slice_overlap(par)

Shape(j, above, last) ==
  IF last THEN Padded(j, above, 0, par.luma - j.first * par.slice_height)
          ELSE Padded(j, above, slice_overlap(par), j.rows * par.slice_height)

Shapes == \A n \in 1 .. Len(jobs) :
            Shape(jobs[n], IF n = 1 THEN 0 ELSE slice_overlap(par),
                           pc # "middle" /\ n = Len(jobs))
RoomLeft == pc = "middle" => /\ slices_already + slice_overlap(par) < Rows(par)
                             /\ slices_already >= slice_overlap(par)

WindowInv == par.depth <= 4 /\ Roomy => Shapes /\ RoomLeft

\* What an action adds to the table.
LEMMA ShapeStep ==
  ASSUME jobs \in Seq(JobSet), Shapes, par' = par,
         NEW n \in Nat, n = Len(jobs), NEW j \in JobSet, PutJob(n, j),
         n > 0 => pc = "middle",
         Shape(j, IF n = 0 THEN 0 ELSE slice_overlap(par), pc' # "middle")
  PROVE  Shapes'
<1>1. /\ Len(jobs') = n + 1 /\ jobs'[n + 1] = j
      /\ \A k \in 1 .. n : jobs'[k] = jobs[k]
  BY Put
<1> SUFFICES ASSUME NEW k \in 1 .. n + 1
             PROVE  Shape(jobs[k], IF k = 1 THEN 0 ELSE slice_overlap(par),
                          pc # "middle" /\ k = Len(jobs))'
  BY <1>1 DEF Shapes
<1>2. CASE k \in 1 .. n
  <2>1. jobs'[k] = jobs[k] /\ k # Len(jobs') /\ pc = "middle"
    BY <1>1, <1>2
  <2>2. Shape(jobs[k], IF k = 1 THEN 0 ELSE slice_overlap(par), FALSE)
    BY <1>2, <2>1 DEF Shapes, Shape
  <2> QED
    BY <2>1, <2>2, SamePar DEF Shape, Padded
<1>3. CASE k = n + 1
  <2>1. jobs'[k] = j /\ k = Len(jobs') /\ (k = 1 <=> n = 0)
    BY <1>1, <1>3
  <2> QED
    BY <2>1, SamePar DEF Shape, Padded
<1> QED
  BY <1>2, <1>3

LEMMA WindowStart ==
  ASSUME PlanInv, TableInv, FirstJob \/ OnlyJob, par.depth <= 4, Roomy
  PROVE  /\ par' = par /\ jobs = <<>> /\ Len(jobs) = 0 /\ jobs \in Seq(JobSet) /\ Shapes
         /\ Rows(par) \in Nat /\ slice_overlap(par) \in Nat /\ par.luma \in Nat
         /\ par.slice_height \in Nat /\ slice_overlap(par) * par.slice_height \in Nat
<1>1. jobs = <<>> /\ jobs \in Seq(JobSet) /\ par' = par
  BY DEF TableInv, Full, FirstJob, OnlyJob
<1>2. Len(jobs) = 0
  BY <1>1
<1>3. /\ Rows(par) \in Nat /\ slice_overlap(par) \in Nat /\ par.luma \in Nat
      /\ par.slice_height \in Nat
  BY Sizes DEF PlanInv, Types
<1>4. slice_overlap(par) * par.slice_height \in Nat
  BY <1>3
<1> QED
  BY <1>1, <1>2, <1>3, <1>4 DEF Shapes

LEMMA OnlyJobWindow ==
  ASSUME PlanInv, TableInv, OnlyJob, par.depth <= 4, Roomy
  PROVE  Shapes' /\ pc' # "middle"
<1> DEFINE j == Job(0, Rows(par), par.luma, 0, 0, 0)
<1>1. pc' = "select" /\ PutJob(0, j)
  BY DEF OnlyJob
<1>2. /\ par' = par /\ Len(jobs) = 0 /\ jobs \in Seq(JobSet) /\ Shapes
      /\ Rows(par) \in Nat /\ slice_overlap(par) \in Nat /\ par.luma \in Nat
      /\ par.slice_height \in Nat
  BY WindowStart
<1>3. /\ j \in JobSet /\ j.first = 0 /\ j.rows = Rows(par) /\ j.offset_y = 0
      /\ j.pad_t = 0 /\ j.pad_b = 0 /\ j.height = par.luma
  BY <1>2 DEF Job, JobSet
<1> HIDE DEF j
<1>4. Rows(par) >= 2 /\ Rows(par) > 2 * slice_overlap(par)
  BY DEF Roomy
<1>5. Padded(j, 0, 0, par.luma - j.first * par.slice_height)
  BY <1>2, <1>3, <1>4 DEF Padded
<1>6. Shape(j, IF 0 = 0 THEN 0 ELSE slice_overlap(par), pc' # "middle")
  BY <1>1, <1>5 DEF Shape
<1> QED
  BY <1>1, <1>2, <1>3, <1>6, ShapeStep

LEMMA FirstJobWindow ==
  ASSUME PlanInv, TableInv, FirstJob, par.depth <= 4, Roomy
  PROVE  (Shapes /\ RoomLeft)'
<1> DEFINE F  == FirstRows
           ov == slice_overlap(par)
           s  == par.slice_height
           j  == Job(0, F, F * s, 0, ov * s, 0)
<1>1. pc' = "middle" /\ PutJob(0, j) /\ slices_already' = F /\ mJobs \in Nat /\ mJobs >= 4
  BY DEF FirstJob, PlanInv, Types, Planned
<1>2. /\ par' = par /\ Len(jobs) = 0 /\ jobs \in Seq(JobSet) /\ Shapes
      /\ Rows(par) \in Nat /\ ov \in Nat /\ s \in Nat /\ ov * s \in Nat
  BY WindowStart
<1>3. F \in Nat /\ F >= 1 /\ F + ov < Rows(par)
  BY <1>1, <1>2, FirstBand DEF Roomy, FirstRows
<1>4. F >= ov
  <2>1. mJobs \in Nat \ {0}
    BY <1>1
  <2>2. CeilDiv(Rows(par), mJobs) \in Nat
    BY <1>2, <2>1, CeilDivNat
  <2> QED
    BY <1>2, <2>2 DEF FirstRows, Larger
<1> HIDE DEF F, ov, s
<1>5. F * s \in Nat
  BY <1>2, <1>3
<1>6. /\ j \in JobSet /\ j.first = 0 /\ j.rows = F /\ j.offset_y = 0
      /\ j.pad_t = 0 /\ j.pad_b = ov * s /\ j.height = F * s
  BY <1>2, <1>3, <1>5 DEF Job, JobSet
<1> HIDE DEF j
<1>7. Padded(j, 0, ov, j.rows * s)
  <2>1. 0 * s = 0 /\ (0 - 0) * s = 0
    BY <1>2
  <2> QED
    BY <1>2, <1>3, <1>4, <1>6, <2>1 DEF Padded, s, ov
<1>8. Shape(j, IF 0 = 0 THEN 0 ELSE slice_overlap(par), pc' # "middle")
  BY <1>1, <1>7 DEF Shape, s, ov
<1>9. Shapes'
  BY <1>1, <1>2, <1>6, <1>8, ShapeStep
<1>10. RoomLeft'
  BY <1>1, <1>2, <1>3, <1>4, SamePar DEF RoomLeft, ov
<1> QED
  BY <1>9, <1>10

LEMMA LaterWindow ==
  ASSUME PlanInv, TableInv, WindowInv, pc = "middle", par.depth <= 4, Roomy
  PROVE  /\ i \in Nat /\ i >= 1 /\ i = Len(jobs) /\ jobs \in Seq(JobSet) /\ Shapes
         /\ slices_already \in Int /\ slices_y \in Int /\ slices_y >= 1
         /\ slices_already >= slice_overlap(par)
         /\ slices_already + slice_overlap(par) < Rows(par)
         /\ Rows(par) \in Nat /\ slice_overlap(par) \in Nat /\ par.luma \in Nat
         /\ par.slice_height \in Nat
<1>1. /\ i \in Nat /\ i >= 1 /\ i = Len(jobs) /\ jobs \in Seq(JobSet)
      /\ slices_already \in Int /\ slices_y \in Int /\ slices_y >= 1
  BY DEF PlanInv, Types, TableInv, Full, Fits
<1>2. Shapes /\ RoomLeft
  BY DEF WindowInv
<1>3. /\ Rows(par) \in Nat /\ slice_overlap(par) \in Nat /\ par.luma \in Nat
      /\ par.slice_height \in Nat
  BY Sizes DEF PlanInv, Types
<1> QED
  BY <1>1, <1>2, <1>3 DEF RoomLeft

LEMMA MiddleJobWindow ==
  ASSUME PlanInv, TableInv, WindowInv, MiddleJob, par.depth <= 4, Roomy
  PROVE  (Shapes /\ RoomLeft)'
<1> DEFINE a  == slices_already
           y  == slices_y
           ov == slice_overlap(par)
           s  == par.slice_height
           j  == Job(a, y, y * s, ov * s, ov * s, (a - ov) * s)
<1>1. /\ pc = "middle" /\ pc' = "middle" /\ par' = par /\ PutJob(i, j)
      /\ slices_already' = a + y /\ a + y + ov < Rows(par)
  BY DEF MiddleJob, RoomForMore
<1>2. /\ i \in Nat /\ i >= 1 /\ i = Len(jobs) /\ jobs \in Seq(JobSet) /\ Shapes
      /\ a \in Int /\ y \in Int /\ y >= 1 /\ a >= ov /\ a + ov < Rows(par)
      /\ Rows(par) \in Nat /\ ov \in Nat /\ s \in Nat
  BY <1>1, LaterWindow
<1> HIDE DEF a, y, ov, s
<1>3. /\ j \in JobSet /\ j.first = a /\ j.rows = y /\ j.offset_y = (a - ov) * s
      /\ j.pad_t = ov * s /\ j.pad_b = ov * s /\ j.height = y * s
  <2>1. y * s \in Int /\ ov * s \in Int /\ (a - ov) * s \in Int
    BY <1>2
  <2> QED
    BY <1>2, <2>1 DEF Job, JobSet
<1> HIDE DEF j
<1>4. Padded(j, ov, ov, j.rows * s)
  <2>1. ov + y + ov >= 2 * ov /\ a + y + ov <= Rows(par)
    BY <1>1, <1>2
  <2> QED
    BY <1>2, <1>3, <2>1 DEF Padded, s, ov
<1>5. Shape(j, IF i = 0 THEN 0 ELSE slice_overlap(par), pc' # "middle")
  BY <1>1, <1>2, <1>4 DEF Shape, s, ov
<1>6. Shapes'
  BY <1>1, <1>2, <1>3, <1>5, ShapeStep
<1>7. RoomLeft'
  <2>1. a + y + ov < Rows(par) /\ a + y >= ov
    BY <1>1, <1>2
  <2> QED
    BY <1>1, <2>1, SamePar DEF RoomLeft, ov
<1> QED
  BY <1>6, <1>7

LEMMA LastJobWindow ==
  ASSUME PlanInv, TableInv, WindowInv, LastJob, par.depth <= 4, Roomy
  PROVE  Shapes' /\ pc' # "middle"
<1> DEFINE a  == slices_already
           R  == Rows(par)
           ov == slice_overlap(par)
           s  == par.slice_height
           lum == par.luma
           j  == Job(a, R - a, lum - a * s, ov * s, 0, (a - ov) * s)
<1>1. pc = "middle" /\ pc' = "select" /\ par' = par /\ PutJob(i, j)
  <2>1. LastNumber = i
    <3>1. par.depth \in Int
      BY ParTypes DEF PlanInv, Types
    <3>2. ~(par.depth > 4)
      BY <3>1
    <3> QED
      BY <3>2 DEF LastNumber
  <2> QED
    BY <2>1 DEF LastJob
<1>2. /\ i \in Nat /\ i >= 1 /\ i = Len(jobs) /\ jobs \in Seq(JobSet) /\ Shapes
      /\ a \in Int /\ a >= ov /\ a + ov < R
      /\ R \in Nat /\ ov \in Nat /\ s \in Nat /\ lum \in Nat
  BY <1>1, LaterWindow
<1> HIDE DEF a, R, ov, s, lum
<1>3. /\ j \in JobSet /\ j.first = a /\ j.rows = R - a /\ j.offset_y = (a - ov) * s
      /\ j.pad_t = ov * s /\ j.pad_b = 0 /\ j.height = lum - a * s
  <2>1. a * s \in Int /\ ov * s \in Int /\ (a - ov) * s \in Int
    BY <1>2
  <2> QED
    BY <1>2, <2>1 DEF Job, JobSet
<1> HIDE DEF j
<1>4. Padded(j, ov, 0, lum - j.first * s)
  <2>1. /\ ov + (R - a) + 0 >= 2 * ov /\ a + (R - a) + 0 <= R /\ R - a >= 1
        /\ 0 * s = 0
    BY <1>2
  <2> QED
    BY <1>2, <1>3, <2>1 DEF Padded, s, ov, R
<1>5. Shape(j, IF i = 0 THEN 0 ELSE slice_overlap(par), pc' # "middle")
  BY <1>1, <1>2, <1>4 DEF Shape, s, ov, lum
<1> QED
  BY <1>1, <1>2, <1>3, <1>5, ShapeStep

LEMMA WindowInvariant == Spec => []WindowInv
<1>1. Init => WindowInv
  BY DEF Init, WindowInv, Shapes, RoomLeft
<1>2. PlanInv /\ TableInv /\ WindowInv /\ [Next]_vars => WindowInv'
  <2> SUFFICES ASSUME PlanInv, TableInv, WindowInv, [Next]_vars,
                      (par.depth <= 4)', Roomy'
               PROVE  (Shapes /\ RoomLeft)'
    BY DEF WindowInv
  <2>1. par' = par /\ par.depth <= 4 /\ Roomy
    <3>1. par' = par
      BY DEF Next, Check, Plan, OnlyJob, FirstJob, MiddleJob, LastJob, SelectEncoder, Done, vars
    <3> QED
      BY <3>1, SamePar
  <2>2. CASE OnlyJob
    BY <2>1, <2>2, OnlyJobWindow DEF RoomLeft
  <2>3. CASE FirstJob
    BY <2>1, <2>3, FirstJobWindow
  <2>4. CASE MiddleJob
    BY <2>1, <2>4, MiddleJobWindow
  <2>5. CASE LastJob
    BY <2>1, <2>5, LastJobWindow DEF RoomLeft
  <2>6. CASE Check \/ Plan \/ SelectEncoder \/ UNCHANGED vars
    <3>1. /\ jobs' = jobs /\ slices_already' = slices_already
          /\ pc' = "middle" <=> pc = "middle"
      BY <2>6 DEF Check, Plan, SelectEncoder, vars
    <3>2. Shapes /\ RoomLeft
      BY <2>1 DEF WindowInv
    <3>3. Shapes'
      BY <2>1, <3>1, <3>2, SamePar DEF Shapes, Shape, Padded
    <3>4. RoomLeft'
      BY <2>1, <3>1, <3>2, SamePar DEF RoomLeft
    <3> QED
      BY <3>3, <3>4
  <2> QED
    BY <2>2, <2>3, <2>4, <2>5, <2>6 DEF Next, Done
<1> QED
  BY <1>1, <1>2, PartitionPlan, TableInvariant, PTL DEF Spec

(* Sizes of a window, in rows of slices and in lines.                       *)
Height(j) == j.pad_t + j.rows * par.slice_height + j.pad_b

Window(j, above, below) ==
  /\ j.first \in Nat /\ j.rows \in Nat /\ above \in Nat /\ below \in Nat
  /\ j.pad_t = above * par.slice_height /\ j.pad_b = below * par.slice_height
  /\ j.offset_y = (j.first - above) * par.slice_height
  /\ j.first >= above /\ j.rows >= 1 /\ j.first + j.rows + below <= Rows(par)
  /\ above + j.rows + below >= 2 * slice_overlap(par)
  /\ \/ j.height = j.rows * par.slice_height /\ EndsInPicture(j)
     \/ /\ below = 0 /\ j.first + j.rows = Rows(par)
        /\ j.height = par.luma - j.first * par.slice_height

LEMMA AcceptedWindow ==
  ASSUME PlanInv, TableInv, WindowInv, Accepted, Roomy, NEW n \in 1 .. mJobs
  PROVE  \E above, below \in Nat : Window(jobs[n], above, below)
<1> DEFINE ov == slice_overlap(par)
           above == IF n = 1 THEN 0 ELSE ov
           last == pc # "middle" /\ n = Len(jobs)
           below == IF last THEN 0 ELSE ov
           j == jobs[n]
<1>1. /\ Full /\ Fits /\ Len(jobs) = mJobs /\ mJobs \in Nat \ {0}
      /\ jobs \in Seq(JobSet) /\ par.depth <= 4
  BY AcceptedTable DEF TableInv, PlanInv, Checked
<1>2. Shape(j, above, last)
  BY <1>1 DEF WindowInv, Shapes
<1>3. j \in JobSet
  BY <1>1, ElementOfSeq
<1>4. ov \in Nat /\ above \in Nat /\ below \in Nat
  BY Sizes DEF PlanInv, Types
<1>5. EndsInPicture(j)
  BY <1>1 DEF Fits
<1>6. last => j.first + j.rows = Rows(par)
  BY <1>1 DEF Full
<1>7. j.first \in Int /\ j.rows \in Int
  BY <1>3 DEF JobSet
<1> HIDE DEF j
<1>8. Window(j, above, below)
  <2>1. CASE last
    <3>1. Padded(j, above, 0, par.luma - j.first * par.slice_height) /\ below = 0
      BY <1>2, <2>1 DEF Shape
    <3> HIDE DEF above, below, last
    <3> QED
      BY <1>4, <1>6, <1>7, <2>1, <3>1 DEF Padded, Window
  <2>2. CASE ~last
    <3>1. Padded(j, above, ov, j.rows * par.slice_height) /\ below = ov
      BY <1>2, <2>2 DEF Shape
    <3> HIDE DEF above, below, last
    <3> QED
      BY <1>4, <1>5, <1>7, <3>1 DEF Padded, Window
  <2> QED
    BY <2>1, <2>2
<1> HIDE DEF above, below
<1> QED
  BY <1>4, <1>8 DEF j

LEMMA PaddedRows ==
  ASSUME par \in Params, ~BadSize
  PROVE  /\ mPaddedHeight(par) = Rows(par) * par.slice_height
         /\ \E u \in Nat \ {0} : par.slice_height = u * 2^par.depth
<1> DEFINE P == 2^par.depth
           s == par.slice_height
           h == mPaddedHeight(par)
<1>1. P \in Nat \ {0} /\ s \in Nat \ {0} /\ h \in Nat /\ Rows(par) = h \div s
  BY Sizes DEF Rows
<1>2. s % P = 0 /\ h % s = 0
  BY DEF BadSize
<1> HIDE DEF P, s, h
<1>3. h = (h \div s) * s
  BY <1>1, <1>2, DivMod
<1>4. s = (s \div P) * P /\ s \div P \in Nat
  BY <1>1, <1>2, DivMod
<1>5. s \div P # 0
  <2> SUFFICES ASSUME s \div P = 0 PROVE FALSE
    OBVIOUS
  <2>1. s = 0 * P
    BY <1>4
  <2> QED
    BY <1>1, <2>1
<1> DEFINE q == s \div P
<1>6. q \in Nat \ {0} /\ s = q * P
  BY <1>4, <1>5
<1> HIDE DEF q
<1> QED
  BY <1>1, <1>3, <1>6 DEF P, s, h

LEMMA WindowSizes ==
  ASSUME par \in Params, ~BadSize, NEW j, NEW above, NEW below, Window(j, above, below)
  PROVE  LET w == j.first - above
             h == above + j.rows + below
             s == par.slice_height
             R == Rows(par)
             M == mPaddedHeight(par)
         IN  /\ w \in Nat /\ h \in Nat /\ R \in Nat /\ s \in Nat \ {0}
             /\ w + h <= R /\ h >= 1 /\ h >= 2 * slice_overlap(par)
             /\ j.offset_y = w * s /\ Height(j) = h * s /\ M = R * s
             /\ j.offset_y \in Nat /\ Height(j) \in Nat /\ M \in Nat
             /\ j.offset_y + Height(j) <= M
             /\ below = 0 /\ j.first + j.rows = R => j.offset_y + Height(j) = M
             /\ j.offset_y + j.pad_t = j.first * s
             /\ Height(j) = j.pad_t + j.rows * s + j.pad_b
             /\ j.pad_t \in Nat /\ j.pad_b \in Nat
<1> DEFINE w == j.first - above
           h == above + j.rows + below
           s == par.slice_height
           R == Rows(par)
           M == mPaddedHeight(par)
<1>1. /\ R \in Nat /\ s \in Nat \ {0} /\ slice_overlap(par) \in Nat /\ M = R * s
  BY Sizes, PaddedRows
<1>2. /\ j.first \in Nat /\ j.rows \in Nat /\ above \in Nat /\ below \in Nat
      /\ w \in Nat /\ h \in Nat /\ h >= 1 /\ w + h <= R /\ h >= 2 * slice_overlap(par)
      /\ w + h = j.first + j.rows + below
  BY <1>1 DEF Window
<1>3. j.pad_t = above * s /\ j.pad_b = below * s /\ j.offset_y = w * s
  BY DEF Window
<1>4. Height(j) = above * s + j.rows * s + below * s
  BY <1>3 DEF Height
<1>5. h * s = above * s + j.rows * s + below * s /\ j.first * s = w * s + above * s
  BY <1>1, <1>2
<1> HIDE DEF w, h, s, R, M
<1>6. /\ w * s \in Nat /\ h * s \in Nat /\ R * s \in Nat /\ above * s \in Nat
      /\ below * s \in Nat /\ (w + h) * s = w * s + h * s
  BY <1>1, <1>2
<1>7. w * s + h * s <= R * s
  BY <1>1, <1>2, <1>6, Products
<1>8. below = 0 /\ j.first + j.rows = R => w * s + h * s = R * s
  <2>1. below = 0 /\ j.first + j.rows = R => w + h = R
    BY <1>2
  <2> QED
    BY <1>6, <2>1
<1>9. /\ w \in Nat /\ h \in Nat /\ R \in Nat /\ s \in Nat \ {0}
      /\ w + h <= R /\ h >= 1 /\ h >= 2 * slice_overlap(par)
      /\ j.offset_y = w * s /\ Height(j) = h * s /\ M = R * s
      /\ j.offset_y \in Nat /\ Height(j) \in Nat /\ M \in Nat
      /\ j.offset_y + Height(j) <= M
      /\ below = 0 /\ j.first + j.rows = R => j.offset_y + Height(j) = M
      /\ j.pad_t \in Nat /\ j.pad_b \in Nat
  BY <1>1, <1>2, <1>3, <1>4, <1>5, <1>6, <1>7, <1>8
<1>10. j.offset_y + j.pad_t = j.first * s
  BY <1>3, <1>5
<1>11. Height(j) = j.pad_t + j.rows * s + j.pad_b
  BY DEF Height, s
<1> QED
  BY <1>9, <1>10, <1>11 DEF w, h, s, R, M

(* In a picture with enough rows every job, with its padding, reads lines  *)
(* of the picture only: the clamp of the first band keeps the second job's *)
(* top padding below the first line, and the loop's condition the padding  *)
(* at the bottom above the last.                                           *)
THEOREM PartitionWindowsInPicture == Spec => []WindowsInPicture
<1>1. ASSUME PlanInv, TableInv, WindowInv PROVE WindowsInPicture
  <2> SUFFICES ASSUME Accepted, Roomy, NEW n \in 1 .. mJobs PROVE ReadsPicture(jobs[n])
    BY DEF WindowsInPicture
  <2>1. PICK above, below \in Nat : Window(jobs[n], above, below)
    BY <1>1, AcceptedWindow
  <2>2. par \in Params /\ ~BadSize
    BY <1>1 DEF PlanInv, Types, Checked
  <2>3. jobs[n].offset_y \in Nat
    BY <2>1, <2>2, WindowSizes
  <2>4. EndsInPicture(jobs[n])
    BY <1>1, AcceptedTable DEF Fits
  <2> QED
    BY <2>3, <2>4 DEF ReadsPicture, EndsInPicture
<1> QED
  BY <1>1, PartitionPlan, TableInvariant, WindowInvariant, PTL

LEMMA PowersSplit ==
  /\ 2^0 = 1
  /\ \A d \in 1 .. 4 : \A k \in 0 .. d - 1 :
       /\ 2^k \in {1, 2, 4, 8} /\ 2^(k + 1) = 2 * 2^k
       /\ \E x \in Nat \ {0} : 2^d = x * (2 * 2^k)
<1>1. 2^0 = 1 /\ 2^1 = 2 /\ 2^2 = 4 /\ 2^3 = 8 /\ 2^4 = 16
  BY SMT
<1> SUFFICES ASSUME NEW d \in 1 .. 4, NEW k \in 0 .. d - 1
             PROVE  /\ 2^k \in {1, 2, 4, 8} /\ 2^(k + 1) = 2 * 2^k
                    /\ \E x \in Nat \ {0} : 2^d = x * (2 * 2^k)
  BY <1>1
<1>2. k = 0 \/ k = 1 \/ k = 2 \/ k = 3
  OBVIOUS
<1>3. 2^k \in {1, 2, 4, 8} /\ 2^(k + 1) = 2 * 2^k
  <2>1. CASE k = 0
    <3>1. k + 1 = 1
      BY <2>1
    <3> QED
      BY <1>1, <2>1, <3>1
  <2>2. CASE k = 1
    <3>1. k + 1 = 2
      BY <2>2
    <3> QED
      BY <1>1, <2>2, <3>1
  <2>3. CASE k = 2
    <3>1. k + 1 = 3
      BY <2>3
    <3> QED
      BY <1>1, <2>3, <3>1
  <2>4. CASE k = 3
    <3>1. k + 1 = 4
      BY <2>4
    <3> QED
      BY <1>1, <2>4, <3>1
  <2> QED
    BY <1>2, <2>1, <2>2, <2>3, <2>4
<1>4. \E x \in Nat \ {0} : 2^d = x * (2 * 2^k)
  <2> DEFINE A == 2^d
             B == 2^k
  <2>1. A = IF d = 1 THEN 2 ELSE IF d = 2 THEN 4 ELSE IF d = 3 THEN 8 ELSE 16
    <3>1. d = 1 \/ d = 2 \/ d = 3 \/ d = 4
      OBVIOUS
    <3> QED
      BY <1>1, <3>1, Zenon
  <2>2. B = IF k = 0 THEN 1 ELSE IF k = 1 THEN 2 ELSE IF k = 2 THEN 4 ELSE 8
    BY <1>1, <1>2, Zenon
  <2> HIDE DEF A, B
  <2>3. A = 8 * (2 * B) \/ A = 4 * (2 * B) \/ A = 2 * (2 * B) \/ A = 1 * (2 * B)
    BY <2>1, <2>2
  <2> QED
    BY <2>3 DEF A, B
<1> QED
  BY <1>3, <1>4

\* TRANSFORM_OVERLAP is how many rows the kernels lose.
LEMMA OverlapIsLost ==
  ASSUME par \in Params, par.depth <= 4
  PROVE  par.overlap = Lost(par.depth) /\ par.depth \in 1 .. 4
<1> DEFINE w == par.wavelet
           d == par.depth
<1>1. w \in 0 .. 4 /\ d \in 1 .. 4 /\ par.overlap \in Overlap(w, d)
  <2>1. /\ par \in [luma : LumaHeights, slice_height : SliceHeights, depth : Depths,
                    wavelet : Wavelets, overlap : 0 .. 90, n_threads : NThreads]
        /\ par.overlap \in Overlap(w, d)
    BY Zenon DEF Params
  <2>2. par.wavelet \in Wavelets /\ par.depth \in Depths
    BY <2>1
  <2>3. Wavelets \subseteq 0 .. 4 /\ Depths \subseteq 1 .. 8
    BY PartitionAssumption
  <2>4. par.depth \in 1 .. 8 /\ w \in 0 .. 4
    BY <2>2, <2>3
  <2>5. d \in 1 .. 4
    BY <2>4
  <2> QED
    BY <2>1, <2>4, <2>5, Zenon
<1>2. par.overlap = TRANSFORM_OVERLAP[w + 1][d]
  BY <1>1 DEF Overlap
<1>3. 2^1 = 2 /\ 2^2 = 4 /\ 2^3 = 8 /\ 2^4 = 16
  BY SMT
<1>4. 2^d - 1 = IF d = 1 THEN 1 ELSE IF d = 2 THEN 3 ELSE IF d = 3 THEN 7 ELSE 15
  <2>1. d = 1 \/ d = 2 \/ d = 3 \/ d = 4
    BY <1>1
  <2>2. 2^d = IF d = 1 THEN 2 ELSE IF d = 2 THEN 4 ELSE IF d = 3 THEN 8 ELSE 16
    BY <1>3, <2>1, Zenon
  <2> DEFINE A == 2^d
  <2> HIDE DEF A, d
  <2>3. A - 1 = IF d = 1 THEN 1 ELSE IF d = 2 THEN 3 ELSE IF d = 3 THEN 7 ELSE 15
    BY <2>1, <2>2 DEF A
  <2> QED
    BY <2>3 DEF A
<1>5. Reach = IF w = 0 THEN 4 ELSE IF w = 1 THEN 2 ELSE IF w = 2 THEN 6 ELSE 0
  BY <1>1 DEF Reach, DD97, DD137, LEGALL
<1>6. TRANSFORM_OVERLAP[w + 1] =
        IF w = 0 THEN <<4, 12, 28, 60>> ELSE IF w = 1 THEN <<2, 6, 14, 30>>
        ELSE IF w = 2 THEN <<6, 18, 42, 90>> ELSE <<0, 0, 0, 0>>
  <2> HIDE DEF w, d
  <2>1. w = 0 \/ w = 1 \/ w = 2 \/ w = 3 \/ w = 4
    BY <1>1
  <2> QED
    BY <2>1 DEF TRANSFORM_OVERLAP
<1>7. TRANSFORM_OVERLAP[w + 1][d] =
        IF w = 0 THEN IF d = 1 THEN 4 ELSE IF d = 2 THEN 12 ELSE IF d = 3 THEN 28 ELSE 60
        ELSE IF w = 1 THEN IF d = 1 THEN 2 ELSE IF d = 2 THEN 6 ELSE IF d = 3 THEN 14 ELSE 30
        ELSE IF w = 2 THEN IF d = 1 THEN 6 ELSE IF d = 2 THEN 18 ELSE IF d = 3 THEN 42 ELSE 90
        ELSE 0
  <2> HIDE DEF w, d
  <2>1. d = 1 \/ d = 2 \/ d = 3 \/ d = 4
    BY <1>1
  <2>2. CASE d = 1
    BY <1>6, <2>2
  <2>3. CASE d = 2
    BY <1>6, <2>3
  <2>4. CASE d = 3
    BY <1>6, <2>4
  <2>5. CASE d = 4
    BY <1>6, <2>5
  <2> QED
    BY <2>1, <2>2, <2>3, <2>4, <2>5
<1> DEFINE P == 2^d - 1
<1>8. TRANSFORM_OVERLAP[w + 1][d] = Reach * P
  <2>1. d = 1 \/ d = 2 \/ d = 3 \/ d = 4
    BY <1>1
  <2> HIDE DEF w, d, P
  <2>2. P = IF d = 1 THEN 1 ELSE IF d = 2 THEN 3 ELSE IF d = 3 THEN 7 ELSE 15
    BY <1>4 DEF P
  <2> QED
    BY <1>5, <1>7, <2>1, <2>2
<1> QED
  BY <1>1, <1>2, <1>8 DEF Lost

\* At every level a window is some rows of the level, from one that is a row of
\* the picture's, and more than the kernels take for granted.
LEMMA WindowLevel ==
  ASSUME par \in Params, ~BadSize, par.depth <= 4,
         NEW j, NEW above, NEW below, Window(j, above, below), NEW k \in 0 .. par.depth - 1
  PROVE  \E n, N, K \in Nat :
           /\ K + n <= N /\ 2 * n >= Least
           /\ Height(j) = n * (2 * 2^k) /\ mPaddedHeight(par) = N * (2 * 2^k)
           /\ j.offset_y = K * (2 * 2^k)
<1> DEFINE s == 2^k
           d == par.depth
           P == 2^d
           y == par.slice_height
           w == j.first - above
           h == above + j.rows + below
           R == Rows(par)
           ov == slice_overlap(par)
<1>1. d \in 1 .. 4 /\ par.overlap = Reach * (P - 1)
  BY OverlapIsLost DEF Lost
<1>2. PICK u \in Nat \ {0} : y = u * P
  BY PaddedRows
<1>3. s \in {1, 2, 4, 8} /\ \E x \in Nat \ {0} : P = x * (2 * s)
  BY <1>1, PowersSplit
<1>4. PICK x \in Nat \ {0} : P = x * (2 * s)
  BY <1>3
<1>5. /\ w \in Nat /\ h \in Nat /\ R \in Nat /\ y \in Nat \ {0} /\ w + h <= R
      /\ h >= 1 /\ h >= 2 * ov /\ j.offset_y = w * y /\ Height(j) = h * y
      /\ mPaddedHeight(par) = R * y
  BY WindowSizes
<1>6. /\ ov \in Nat /\ par.overlap \in Nat /\ par.overlap <= ov * y
      /\ Reach \in {0, 2, 4, 6}
  BY Sizes, Reaches
<1> HIDE DEF s, d, P, y, w, h, R, ov
<1> DEFINE z == u * x
<1>7. z \in Nat /\ z >= 1 /\ P \in Nat
  <2>1. u >= 1 /\ x >= 1
    OBVIOUS
  <2>2. u * x >= 1 * x
    BY <2>1, Products
  <2>3. s \in Nat
    BY <1>3
  <2> QED
    BY <1>4, <2>1, <2>2, <2>3
<1>8. y = z * (2 * s)
  <2>1. s \in Nat
    BY <1>3
  <2> QED
    BY <1>2, <1>4, <2>1
<1> HIDE DEF z
<1> DEFINE n == h * z
           N == R * z
           K == w * z
<1>9. n \in Nat /\ N \in Nat /\ K \in Nat /\ K + n <= N
  <2>1. (w + h) * z <= R * z /\ (w + h) * z = w * z + h * z
    BY <1>5, <1>7, Products
  <2> QED
    BY <1>5, <1>7, <2>1
<1>10. h * y = n * (2 * s) /\ R * y = N * (2 * s) /\ w * y = K * (2 * s)
  <2>1. s \in Nat
    BY <1>3
  <2> QED
    BY <1>5, <1>7, <1>8, <2>1
<1>11. 2 * n >= Least
  <2>1. h * y >= 1 * y /\ h * y >= 2 * (ov * y) /\ h * y \in Nat
    <3>1. (2 * ov) * y <= h * y /\ 1 * y <= h * y
      BY <1>5, <1>6, Products
    <3>2. (2 * ov) * y = 2 * (ov * y)
      BY <1>5, <1>6
    <3> QED
      BY <1>5, <3>1, <3>2
  <2>2. h * y >= 2 * par.overlap
    <3>1. ov * y \in Int
      BY <1>5, <1>6
    <3> QED
      BY <1>6, <2>1, <3>1
  <2>3. P >= 2 * s /\ y >= 2 * s
    <3>1. s \in Nat
      BY <1>3
    <3>2. 1 * (2 * s) <= x * (2 * s) /\ 1 * (2 * s) <= z * (2 * s)
      BY <1>7, <3>1, Products
    <3> QED
      BY <1>4, <1>8, <3>1, <3>2
  <2>4. par.overlap >= Reach * (2 * s - 1)
    BY <1>1, <1>3, <1>6, <1>7, <2>3
  <2> DEFINE H == h * y
  <2>5. H \in Nat /\ H >= 2 * s /\ H >= 2 * (Reach * (2 * s - 1)) /\ H = n * (2 * s)
    BY <1>3, <1>5, <1>6, <1>10, <2>1, <2>2, <2>3, <2>4
  <2> HIDE DEF H, n
  <2>6. (Reach = 4 /\ Least = 8) \/ (Reach = 6 /\ Least = 10) \/ Least = 2
    BY DEF Reach, Least, DD97, DD137, LEGALL
  <2>7. CASE s = 1
    BY <1>9, <2>5, <2>6, <2>7
  <2>8. CASE s = 2
    BY <1>9, <2>5, <2>6, <2>8
  <2>9. CASE s = 4
    BY <1>9, <2>5, <2>6, <2>9
  <2>10. CASE s = 8
    BY <1>9, <2>5, <2>6, <2>10
  <2> QED
    BY <1>3, <2>7, <2>8, <2>9, <2>10
<1> HIDE DEF n, N, K
<1> QED
  BY <1>5, <1>9, <1>10, <1>11 DEF s

(* The inductive invariant: after l levels the rows of the window are like *)
(* the picture's, but for Lost(l) at an end where the picture goes on, and *)
(* the picture's depend on no leftovers, but for Lost(l) and its padding.  *)
AsPicture(j) ==
  /\ DOMAIN video_data = 0 .. Height(j) - 1 /\ DOMAIN picture = 0 .. mPaddedHeight(par) - 1
  /\ Agrees(video_data, picture, j.offset_y, Height(j), mPaddedHeight(par), Lost(l))
  /\ Dry(picture, mPaddedHeight(par), Lost(l))

BandInv ==
  /\ job \in Nat /\ (job = 0 => l = 0)
  /\ job # 0 => /\ Accepted /\ job \in 1 .. mJobs /\ l \in 0 .. par.depth
                /\ Roomy => AsPicture(jobs[job])

\* TransformInitial: the rows of a window and of the picture are filled alike.
LEMMA FilledAlike ==
  ASSUME PlanInv, TableInv, WindowInv, Accepted, Roomy, NEW n \in 1 .. mJobs, NEW atEnd
  PROVE  LET j == jobs[n]
             V == Filled(j.offset_y, j.pad_t + j.height + j.pad_b,
                         j.pad_t + j.rows * par.slice_height + j.pad_b, atEnd, LeftInWindow)
             Q == Filled(0, par.luma, mPaddedHeight(par), atEnd, LeftInPicture)
         IN  /\ DOMAIN V = 0 .. Height(j) - 1 /\ DOMAIN Q = 0 .. mPaddedHeight(par) - 1
             /\ \A y \in 0 .. Height(j) - 1 : Like(V[y], Q[j.offset_y + y])
             /\ Dry(Q, mPaddedHeight(par), 0)
<1> DEFINE j == jobs[n]
           M == mPaddedHeight(par)
           H == Height(j)
           o == j.offset_y
           s == par.slice_height
           lum == par.luma
           ih == j.pad_t + j.height + j.pad_b
           V == Filled(o, ih, j.pad_t + j.rows * s + j.pad_b, atEnd, LeftInWindow)
           Q == Filled(0, lum, M, atEnd, LeftInPicture)
<1>1. PICK above, below \in Nat : Window(j, above, below)
  BY AcceptedWindow
<1>2. par \in Params /\ ~BadSize /\ par.depth <= 4
  BY DEF PlanInv, Types, Checked
<1>3. /\ s \in Nat \ {0} /\ Rows(par) \in Nat /\ M = Rows(par) * s /\ M \in Nat
      /\ o \in Nat /\ H \in Nat /\ o + H <= M
      /\ below = 0 /\ j.first + j.rows = Rows(par) => o + H = M
      /\ o + j.pad_t = j.first * s /\ H = j.pad_t + j.rows * s + j.pad_b
      /\ j.pad_t \in Nat /\ j.pad_b \in Nat
  BY <1>1, <1>2, WindowSizes
<1>4. lum \in Nat /\ M < 2 * lum
  <2>1. lum \in Nat /\ M < lum + 2^par.depth /\ 2^par.depth \in Nat \ {0}
    BY <1>2, Sizes
  <2>2. PICK u \in Nat \ {0} : s = u * 2^par.depth
    BY <1>2, PaddedRows
  <2> DEFINE P == 2^par.depth
  <2>3. P \in Nat /\ s >= P
    <3>1. 1 * P <= u * P
      BY <2>1, <2>2, Products
    <3> QED
      BY <2>1, <2>2, <3>1
  <2>4. Rows(par) >= 2
    BY DEF Roomy
  <2>5. M >= 2 * s
    <3>1. 2 * s <= Rows(par) * s
      BY <1>3, <2>4, Products
    <3> QED
      BY <1>3, <3>1
  <2> HIDE DEF P, M, s, lum
  <2>6. lum \in Nat /\ M < lum + P
    BY <2>1 DEF P
  <2> QED
    BY <1>3, <2>3, <2>5, <2>6
<1>5. j.first \in Nat /\ j.rows \in Nat /\ j.first * s \in Nat /\ j.rows * s \in Nat
  BY <1>1, <1>3 DEF Window
<1>6. (ih = H /\ o + H <= lum) \/ (ih = lum - o /\ o + H = M)
  <2>1. CASE j.height = j.rows * s /\ EndsInPicture(j)
    <3>1. ih = H
      BY <1>3, <2>1
    <3>2. o + j.pad_t + j.height + j.pad_b <= lum
      BY <2>1 DEF EndsInPicture
    <3> HIDE DEF j, s, o, lum, H
    <3>3. o + H <= lum
      BY <1>3, <1>5, <2>1, <3>2
    <3> QED
      BY <3>1, <3>3
  <2>2. CASE /\ below = 0 /\ j.first + j.rows = Rows(par)
             /\ j.height = lum - j.first * s
    <3>1. o + H = M
      BY <1>3, <2>2
    <3>2. j.pad_b = 0
      <4>1. j.pad_b = 0 * s
        BY <1>1, <2>2 DEF Window
      <4> QED
        BY <1>3, <4>1
    <3> HIDE DEF j, s, o, lum, H
    <3>3. ih = lum - o
      BY <1>3, <1>4, <1>5, <2>2, <3>2
    <3> QED
      BY <3>1, <3>3
  <2> QED
    BY <1>1, <2>1, <2>2 DEF Window
<1>7. V = [y \in 0 .. H - 1 |->
             IF y < ih THEN Span(o + y)
             ELSE IF atEnd /\ par.wavelet \in {DD97, DD137} THEN LeftInWindow
             ELSE Span(o + 2 * ih - y - 1)]
  BY <1>3 DEF Filled
<1>8. Q = [y \in 0 .. M - 1 |->
             IF y < lum THEN Span(0 + y)
             ELSE IF atEnd /\ par.wavelet \in {DD97, DD137} THEN LeftInPicture
             ELSE Span(0 + 2 * lum - y - 1)]
  BY DEF Filled
<1>9. DOMAIN V = 0 .. H - 1 /\ DOMAIN Q = 0 .. M - 1
  BY <1>7, <1>8
<1> DEFINE c == atEnd /\ par.wavelet \in {DD97, DD137}
<1>10. \A a : a \in Nat => Span(a).lo \in Nat /\ Like(Span(a), Span(a))
  BY DEF Like, Span
<1>11. Like(LeftInWindow, LeftInPicture)
  BY DEF Like, Span, LeftInWindow, LeftInPicture
<1>12. c => Wet
  BY DEF Wet
<1> HIDE DEF j, M, H, o, s, lum, ih, V, Q
<1>13. ASSUME NEW y \in 0 .. H - 1
      PROVE  Like(V[y], Q[o + y])
  <2>1. o + y \in 0 .. M - 1 /\ o + y \in Nat
    BY <1>3
  <2>2. V[y] = IF y < ih THEN Span(o + y) ELSE IF c THEN LeftInWindow
               ELSE Span(o + 2 * ih - y - 1)
    BY <1>7
  <2>3. Q[o + y] = IF o + y < lum THEN Span(0 + (o + y)) ELSE IF c THEN LeftInPicture
                   ELSE Span(0 + 2 * lum - (o + y) - 1)
    BY <1>8, <2>1
  <2> HIDE DEF c
  <2>4. CASE y < ih
    <3>1. o + y < lum /\ 0 + (o + y) = o + y
      BY <1>3, <1>4, <1>6, <2>4
    <3>2. V[y] = Span(o + y) /\ Q[o + y] = Span(o + y)
      BY <2>2, <2>3, <2>4, <3>1
    <3> QED
      BY <1>10, <2>1, <3>2
  <2>5. CASE ~(y < ih)
    <3>1. ih = lum - o /\ o + H = M
      BY <1>3, <1>6, <2>5
    <3>2. /\ ~(o + y < lum) /\ o + 2 * ih - y - 1 = 0 + 2 * lum - (o + y) - 1
          /\ o + 2 * ih - y - 1 \in Nat
      BY <1>3, <1>4, <2>5, <3>1
    <3>3. V[y] = IF c THEN LeftInWindow ELSE Span(o + 2 * ih - y - 1)
      BY <2>2, <2>5
    <3>4. Q[o + y] = IF c THEN LeftInPicture ELSE Span(o + 2 * ih - y - 1)
      BY <2>3, <3>2
    <3> QED
      BY <1>10, <1>11, <3>2, <3>3, <3>4
  <2> QED
    BY <2>4, <2>5
<1>14. Dry(Q, M, 0)
  <2> SUFFICES ASSUME NEW y \in 0 .. M - 1, Wet => y + 0 < lum PROVE Q[y].lo \in Nat
    BY Zenon DEF Dry, lum
  <2>1. Q[y] = IF y < lum THEN Span(0 + y) ELSE IF c THEN LeftInPicture
               ELSE Span(0 + 2 * lum - y - 1)
    BY <1>8
  <2> HIDE DEF c
  <2>2. CASE y < lum
    <3>1. 0 + y \in Nat /\ Q[y] = Span(0 + y)
      BY <2>1, <2>2
    <3> QED
      BY <1>10, <3>1
  <2>3. CASE ~(y < lum)
    <3>1. ~c
      BY <1>4, <1>12, <2>3
    <3>2. Q[y] = Span(0 + 2 * lum - y - 1) /\ 0 + 2 * lum - y - 1 \in Nat
      BY <1>3, <1>4, <2>1, <2>3, <3>1
    <3> QED
      BY <1>10, <3>2
  <2> QED
    BY <2>2, <2>3
<1> QED
  BY <1>9, <1>13, <1>14 DEF j, M, H, o, s, lum, ih, V, Q

LEMMA InitialBand ==
  ASSUME PlanInv, TableInv, WindowInv, BandInv, NEW n \in 1 .. mJobs, TransformInitial(n)
  PROVE  BandInv'
<1>1. /\ pc = "done" /\ result = "OK" /\ job = 0 /\ job' = n /\ l' = l
      /\ par' = par /\ jobs' = jobs /\ mJobs' = mJobs /\ result' = result
  BY DEF TransformInitial, vars
<1>2. l = 0 /\ Accepted /\ mJobs \in Nat
  BY <1>1 DEF BandInv, Accepted, PlanInv, Types
<1>3. par.depth \in 1 .. 8
  BY ParTypes DEF PlanInv, Types
<1> DEFINE j == jobs[n]
<1>4. ASSUME Roomy
      PROVE  /\ DOMAIN video_data' = 0 .. Height(j) - 1
             /\ DOMAIN picture' = 0 .. mPaddedHeight(par) - 1
             /\ \A y \in 0 .. Height(j) - 1 : Like(video_data'[y], picture'[j.offset_y + y])
             /\ Dry(picture', mPaddedHeight(par), 0)
  <2>1. PICK b : b = rest'
    OBVIOUS
  <2>2. /\ video_data' = Filled(j.offset_y, j.pad_t + j.height + j.pad_b,
                         j.pad_t + j.rows * par.slice_height + j.pad_b, b, LeftInWindow)
        /\ picture' = Filled(0, par.luma, mPaddedHeight(par), b, LeftInPicture)
    BY <1>1, <2>1 DEF TransformInitial, Filled, mPaddedHeight, LeftInWindow, LeftInPicture, Span
  <2> QED
    BY <1>2, <1>4, <2>2, FilledAlike
<1>5. Roomy' => AsPicture(jobs[job])'
  <2> SUFFICES ASSUME Roomy PROVE AsPicture(jobs[job])'
    BY <1>1, SamePar
  <2>1. jobs[job]' = j /\ mPaddedHeight(par)' = mPaddedHeight(par)
    BY <1>1 DEF mPaddedHeight
  <2>2. Height(jobs[job])' = Height(j)
    BY <1>1, <2>1 DEF Height
  <2>3. Lost(l)' = 0
    <3>1. Lost(l)' = Reach * (2^0 - 1)
      BY <1>1, <1>2 DEF Lost, Reach
    <3>2. Reach \in Nat /\ 2^0 = 1
      BY Reaches, PowersSplit
    <3> QED
      BY <3>1, <3>2
  <2> HIDE DEF j
  <2>4. Agrees(video_data', picture', j.offset_y, Height(j), mPaddedHeight(par), 0)
    BY <1>4 DEF Agrees
  <2>5. Agrees(video_data, picture, jobs[job].offset_y, Height(jobs[job]), mPaddedHeight(par),
               Lost(l))'
    BY <2>1, <2>2, <2>3, <2>4 DEF Agrees, Like
  <2>6. Dry(picture, mPaddedHeight(par), Lost(l))'
    BY <1>1, <1>4, <2>1, <2>3 DEF Dry, Wet
  <2> QED
    BY <1>4, <2>1, <2>2, <2>5, <2>6 DEF AsPicture
<1>6. job' \in Nat /\ job' # 0 /\ job' \in 1 .. mJobs /\ l' \in 0 .. par.depth
  BY <1>1, <1>2, <1>3
<1>7. Accepted'
  BY <1>1 DEF Accepted
<1> QED
  BY <1>1, <1>5, <1>6, <1>7 DEF BandInv

LEMMA LevelBand ==
  ASSUME PlanInv, TableInv, WindowInv, BandInv, TransformV
  PROVE  BandInv'
<1>1. /\ job # 0 /\ l < par.depth /\ job' = job /\ l' = l + 1
      /\ video_data' = Lifted(video_data, 2^l) /\ picture' = Lifted(picture, 2^l)
      /\ par' = par /\ jobs' = jobs /\ mJobs' = mJobs /\ result' = result
  BY DEF TransformV, vars
<1>2. job \in Nat /\ Accepted /\ job \in 1 .. mJobs /\ l \in 0 .. par.depth
  BY <1>1 DEF BandInv
<1>3. par \in Params /\ ~BadSize /\ par.depth <= 4
  BY <1>2 DEF PlanInv, Types, Checked
<1>4. par.depth \in 1 .. 4 /\ l \in 0 .. par.depth - 1 /\ l + 1 \in 0 .. par.depth
  <2>1. par.depth \in 1 .. 4
    BY <1>3, OverlapIsLost
  <2> QED
    BY <1>1, <1>2, <2>1
<1>5. ASSUME Roomy PROVE AsPicture(jobs[job])'
  <2> DEFINE j == jobs[job]
             s == 2^l
             H == Height(j)
             M == mPaddedHeight(par)
             o == j.offset_y
             V == video_data
             Q == picture
  <2>1. AsPicture(j)
    BY <1>1, <1>5 DEF BandInv
  <2>2. PICK above, below \in Nat : Window(j, above, below)
    BY <1>2, <1>5, AcceptedWindow
  <2>3. \E n, N, K \in Nat : /\ K + n <= N /\ 2 * n >= Least
                             /\ H = n * (2 * s) /\ M = N * (2 * s) /\ o = K * (2 * s)
    BY <1>3, <1>4, <2>2, WindowLevel
  <2>4. s \in {1, 2, 4, 8} /\ 2^(l + 1) = 2 * s
    BY <1>4, PowersSplit
  <2>5. Lost(l) = Reach * (s - 1) /\ Lost(l + 1) = Reach * (2 * s - 1)
    BY <2>4 DEF Lost
  <2>6. /\ DOMAIN V = 0 .. H - 1 /\ DOMAIN Q = 0 .. M - 1
        /\ Agrees(V, Q, o, H, M, Reach * (s - 1))
        /\ Dry(Q, M, Reach * (s - 1))
    BY <2>1, <2>5 DEF AsPicture
  <2> HIDE DEF j, s, H, M, o, V, Q
  <2>7. PICK n \in Nat, N \in Nat, K \in Nat :
          /\ K + n <= N /\ 2 * n >= Least
          /\ H = n * (2 * s) /\ M = N * (2 * s) /\ o = K * (2 * s)
    BY <2>3
  <2>8. Level(V, Q, s, n, N, K, o, H, M)
    BY <2>4, <2>6, <2>7 DEF Level
  <2>9. /\ DOMAIN Lifted(V, s) = 0 .. H - 1 /\ DOMAIN Lifted(Q, s) = 0 .. M - 1
        /\ Agrees(Lifted(V, s), Lifted(Q, s), o, H, M, Reach * (2 * s - 1))
    <3>1. Agrees(V, Q, o, H, M, Reach * (s - 1))
      BY <2>6
    <3> QED
      BY <2>8, <3>1, LevelAgrees
  <2>10. Dry(Lifted(Q, s), M, Reach * (2 * s - 1))
    <3>1. /\ 2 * N >= Least /\ M = N * (2 * s) /\ DOMAIN Q = 0 .. M - 1
          /\ Dry(Q, M, Reach * (s - 1))
      BY <2>6, <2>7, Reaches
    <3>2. par.luma \in Nat
      BY <1>3, Sizes
    <3> QED
      BY <2>4, <3>1, <3>2, LevelDry
  <2>11. /\ video_data' = Lifted(V, s) /\ picture' = Lifted(Q, s)
         /\ jobs[job]' = j /\ mPaddedHeight(par)' = M /\ j.offset_y = o
    BY <1>1 DEF V, Q, s, j, M, o, mPaddedHeight
  <2>12. Height(jobs[job])' = H
    BY <1>1, <2>11 DEF Height, H
  <2>13. Lost(l)' = Reach * (2 * s - 1)
    BY <1>1, <2>4 DEF Lost, Reach
  <2>14. Dry(picture, mPaddedHeight(par), Lost(l))'
    BY <1>1, <2>10, <2>11, <2>13 DEF Dry, Wet
  <2> QED
    BY <2>9, <2>11, <2>12, <2>13, <2>14 DEF AsPicture, Agrees, Like
<1>6. Roomy' <=> Roomy
  BY <1>1, SamePar
<1>7. Accepted'
  BY <1>1, <1>2 DEF Accepted
<1> QED
  BY <1>1, <1>2, <1>4, <1>5, <1>6, <1>7 DEF BandInv

LEMMA BandStep ==
  ASSUME PlanInv, TableInv, WindowInv, BandInv, [TNext]_<<vars, transform>>
  PROVE  BandInv'
<1>1. CASE SetParams \/ UNCHANGED <<vars, transform>>
  <2>1. UNCHANGED transform /\ [Next]_vars
    BY <1>1 DEF SetParams
  <2>2. job' = job /\ l' = l /\ video_data' = video_data /\ picture' = picture
    BY <2>1 DEF transform
  <2>3. CASE job = 0
    BY <2>2, <2>3 DEF BandInv
  <2>4. CASE job # 0
    <3>1. pc = "done"
      BY <2>4 DEF BandInv, PlanInv, Checked
    <3>2. UNCHANGED vars
      BY <2>1, <3>1 DEF Next, Check, Plan, OnlyJob, FirstJob, MiddleJob, LastJob,
                        SelectEncoder, Done
    <3>3. par' = par /\ jobs' = jobs /\ mJobs' = mJobs /\ result' = result
      BY <3>2 DEF vars
    <3>4. AsPicture(jobs[job])' <=> AsPicture(jobs[job])
      BY <2>2, <3>3 DEF AsPicture, Height, mPaddedHeight, Agrees, Lost, Reach, Like, Dry, Wet
    <3> QED
      BY <2>2, <3>3, <3>4, SamePar DEF BandInv, Accepted
  <2> QED
    BY <2>3, <2>4
<1>2. CASE \E n \in 1 .. mJobs : TransformInitial(n)
  BY <1>2, InitialBand
<1>3. CASE TransformV
  BY <1>3, LevelBand
<1> QED
  BY <1>1, <1>2, <1>3 DEF TNext

LEMMA TransformsPlanned == TSpec => Spec
<1>1. TInit => Init
  BY DEF TInit
<1>2. [TNext]_<<vars, transform>> => [Next]_vars
  BY DEF TNext, SetParams, TransformInitial, TransformV
<1> QED
  BY <1>1, <1>2, PTL DEF TSpec, Spec

\* A row of the job's slices is far enough from where its window is cut off.
LEMMA BandLikePicture ==
  ASSUME PlanInv, TableInv, WindowInv, BandInv, PaddingSuffices, Transformed, Roomy,
         NEW y \in BandRows
  PROVE  /\ Like(Own(y), Whole(y))
         /\ (Wet => Place(y) + par.overlap < par.luma) => Whole(y).lo \in Nat
<1> DEFINE j == jobs[job]
           s == par.slice_height
           H == Height(j)
           M == mPaddedHeight(par)
           o == j.offset_y
           ov == par.overlap
<1>1. Accepted /\ job \in 1 .. mJobs /\ AsPicture(j)
  BY DEF BandInv, Transformed
<1>2. par \in Params /\ ~BadSize /\ par.depth <= 4
  BY <1>1 DEF PlanInv, Types, Checked
<1>3. Lost(l) = ov /\ ov \in Nat
  BY <1>2, OverlapIsLost, Sizes DEF Transformed
<1>4. PICK above, below \in Nat : Window(j, above, below)
  BY <1>1, AcceptedWindow
<1>5. /\ s \in Nat \ {0} /\ Rows(par) \in Nat /\ M \in Nat
      /\ o \in Nat /\ H \in Nat /\ o + H <= M
      /\ below = 0 /\ j.first + j.rows = Rows(par) => o + H = M
      /\ o + j.pad_t = j.first * s /\ H = j.pad_t + j.rows * s + j.pad_b
      /\ j.pad_t \in Nat /\ j.pad_b \in Nat
  BY <1>2, <1>4, WindowSizes
<1>6. /\ j.first \in Nat /\ j.rows \in Nat /\ j.first >= above
      /\ j.first + j.rows + below <= Rows(par) /\ o = (j.first - above) * s
      /\ j.rows * s \in Nat /\ j.first * s \in Nat
  BY <1>4, <1>5 DEF Window
<1>7. /\ j.first > 0 => j.pad_t >= ov
      /\ j.first + j.rows < Rows(par) => j.pad_b >= ov
  BY <1>1 DEF PaddingSuffices
<1>8. o = 0 \/ j.pad_t >= ov
  <2>1. CASE j.first = 0
    <3>1. j.first - above = 0
      BY <1>4, <1>6, <2>1
    <3> QED
      BY <1>5, <1>6, <3>1
  <2> QED
    BY <1>6, <1>7, <2>1
<1>9. o + H = M \/ j.pad_b >= ov
  <2>1. CASE j.first + j.rows = Rows(par)
    <3>1. below = 0
      BY <1>4, <1>5, <1>6, <2>1
    <3> QED
      BY <1>5, <2>1, <3>1
  <2>2. CASE j.first + j.rows # Rows(par)
    <3> DEFINE f == j.first
               r == j.rows
    <3>1. f \in Nat /\ r \in Nat /\ f + r + below <= Rows(par) /\ Rows(par) \in Nat
      BY <1>5, <1>6
    <3> HIDE DEF f, r
    <3>2. f + r # Rows(par) => f + r < Rows(par)
      BY <1>4, <3>1
    <3> QED
      BY <1>7, <2>2, <3>2 DEF f, r
  <2> QED
    BY <2>1, <2>2
<1>10. Agrees(video_data, picture, o, H, M, ov) /\ Dry(picture, M, ov)
  BY <1>1, <1>3 DEF AsPicture, Transformed
<1> DEFINE z == j.pad_t + y
           rs == j.rows * s
<1>11. /\ y \in 0 .. rs - 1
       /\ Own(y) = video_data[z] /\ Whole(y) = picture[j.first * s + y]
       /\ Place(y) = j.first * s + y
  BY DEF BandRows, Own, Whole, Place
<1> HIDE DEF j, s, H, M, o, ov, rs
<1>12. rs \in Nat /\ H = j.pad_t + rs + j.pad_b
  BY <1>5, <1>6 DEF rs
<1>13. z \in 0 .. H - 1 /\ (o = 0 \/ z >= ov) /\ (o + H = M \/ z + ov < H)
  BY <1>3, <1>5, <1>8, <1>9, <1>11, <1>12
<1>14. o + z = j.first * s + y
  BY <1>5, <1>6, <1>11, <1>12
<1>15. o + z \in 0 .. M - 1
  BY <1>5, <1>13
<1> HIDE DEF z
<1>16. Like(video_data[z], picture[o + z])
  BY <1>10, <1>13 DEF Agrees
<1>17. (Wet => o + z + ov < par.luma) => picture[o + z].lo \in Nat
  BY <1>10, <1>15 DEF Dry
<1> QED
  BY <1>11, <1>14, <1>16, <1>17 DEF ov

LEMMA BandInvariant == TSpec => [](PlanInv /\ TableInv /\ WindowInv /\ BandInv /\ PaddingSuffices)
<1>1. TInit => BandInv
  BY DEF TInit, BandInv
<1>2. PlanInv /\ TableInv /\ WindowInv /\ BandInv /\ [TNext]_<<vars, transform>> => BandInv'
  BY BandStep
<1> QED
  BY <1>1, <1>2, PartitionPlan, TableInvariant, WindowInvariant, PartitionPaddingSuffices,
     TransformsPlanned, PTL DEF TSpec

(* The slices of a job get the coefficients that they would get if the     *)
(* picture were transformed in one piece, or depend on leftovers where     *)
(* those would, for every height, slice, wavelet and depth, and every      *)
(* number of threads, wherever the picture has room for two bands and      *)
(* their padding: the padding that setParams makes of TRANSFORM_OVERLAP is *)
(* at least what the kernels lose over all levels.                         *)
THEOREM PartitionBandAsPicture == TSpec => []BandAsPicture
<1>1. ASSUME PlanInv, TableInv, WindowInv, BandInv, PaddingSuffices
      PROVE  BandAsPicture
  <2> SUFFICES ASSUME Transformed, Roomy, NEW y \in BandRows
               PROVE  /\ Own(y) # Undefined
                      /\ IF FromInput(Whole(y)) THEN Own(y) = Whole(y)
                         ELSE Own(y).lo = LeftInWindow.lo
    BY DEF BandAsPicture
  <2> DEFINE v == Own(y)
             p == Whole(y)
  <2>1. Like(v, p)
    BY <1>1, BandLikePicture
  <2> HIDE DEF v, p
  <2>2. Undefined.lo = -3 /\ LeftInWindow.lo = -1
    BY DEF Undefined, LeftInWindow, Span
  <2>3. v # Undefined
    BY <2>1, <2>2 DEF Like
  <2>4. CASE v.lo \in Nat /\ v = p
    <3>1. FromInput(p)
      BY <2>4 DEF FromInput
    <3> QED
      BY <2>3, <2>4, <3>1 DEF v, p
  <2>5. CASE v.lo = -1 /\ p.lo = -2
    <3>1. ~FromInput(p)
      BY <2>5 DEF FromInput
    <3> QED
      BY <2>2, <2>3, <2>5, <3>1 DEF v, p
  <2> QED
    BY <2>1, <2>4, <2>5 DEF Like
<1> QED
  BY <1>1, BandInvariant, PTL

(* What the 9/7 and 13/7 kernels leave unwritten below the picture comes   *)
(* into no coefficient of a row that is further above its last line than   *)
(* the overlap of the wavelet, whichever job transforms it.                *)
THEOREM PartitionLeftoversStayLow == TSpec => []LeftoversStayLow
<1>1. ASSUME PlanInv, TableInv, WindowInv, BandInv, PaddingSuffices
      PROVE  LeftoversStayLow
  <2> SUFFICES ASSUME Transformed, Roomy, NEW y \in BandRows,
                      Place(y) + par.overlap < par.luma
               PROVE  FromInput(Own(y))
    BY DEF LeftoversStayLow
  <2>1. Like(Own(y), Whole(y)) /\ Whole(y).lo \in Nat
    BY <1>1, BandLikePicture
  <2>2. Own(y).lo \in Nat
    BY <2>1 DEF Like
  <2> QED
    BY <2>2 DEF FromInput
<1> QED
  BY <1>1, BandInvariant, PTL
================================================================================
