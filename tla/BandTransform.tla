---------------------------- MODULE BandTransform ----------------------------
(***************************************************************************)
(* VC2Encoder::Transform on the bands that JobPartition has made: a job    *)
(* reads the input lines of its window into rows of its own and transforms *)
(* them, level by level, as if there were nothing beyond the window.       *)
(* Beside it goes what the same kernels would make of the whole picture.   *)
(*                                                                         *)
(* Of a row only its span is kept: the first and the last input line that  *)
(* its coefficients depend on.  Horizontal transforms stay within a row    *)
(* and do not change it.  Rows below the picture are copies of rows above  *)
(* the edge, in the 9/7 and 13/7 kernels only their first owidth bytes:    *)
(* the rest of such a row stays as it was in that buffer, which nobody has *)
(* initialised.  So the leftovers of a window are not those of another one *)
(* or of a buffer for the whole picture, and they have spans of their own. *)
(***************************************************************************)
EXTENDS JobPartition, FiniteSets

CONSTANT MaxTransformed    \* bound: no picture of more lines is transformed

VARIABLES job,             \* the one that is transformed; 0 when there is none
          rest,            \* is it the part of each row that memcpy may leave out?
          l,               \* levels done
          video_data,      \* span of each row of the job's window ...
          picture          \* ... and of the picture

transform == <<job, rest, l, video_data, picture>>

-----------------------------------------------------------------------------
DD97 == 0
LEGALL == 1
DD137 == 2

Span(y) == [lo |-> y, hi |-> y]
LeftInWindow == Span(-1)     \* what lay in the job's rows,
LeftInPicture == Span(-2)    \* in those of the whole picture
Undefined == Span(-3)
FromInput(s) == s.lo >= 0

Join(spans) == [lo |-> CHOOSE a \in {s.lo : s \in spans} : \A s \in spans : a <= s.lo,
                hi |-> CHOOSE a \in {s.hi : s \in spans} : \A s \in spans : a >= s.hi]

\* transform_initial: lines are read, and rows below them filled.
Filled(offset, iheight, oheight, atEnd, leftover) ==
  [y \in 0 .. oheight - 1 |->
     IF y < iheight THEN Span(offset + y)
     ELSE IF atEnd /\ par.wavelet \in {DD97, DD137} THEN leftover
     ELSE Span(offset + 2 * iheight - y - 1)]

\* Which neighbours the two lifting steps look at: an odd row at even ones, an
\* even row at odd ones that are lifted already.
OddTaps_Wide == IF par.wavelet \in {DD97, DD137} THEN -1 .. 3   \* a bug to look for: a tap
                ELSE IF par.wavelet = LEGALL THEN 0 .. 1 ELSE {0}   \* too many
OddTaps == CASE par.wavelet \in {DD97, DD137} -> -1 .. 2
             [] par.wavelet = LEGALL -> 0 .. 1
             [] OTHER -> {0}
EvenTaps == CASE par.wavelet = DD137 -> -2 .. 1
              [] par.wavelet \in {DD97, LEGALL} -> -1 .. 0
              [] OTHER -> {0}

\* Neighbours beyond an edge are those within, mirrored.
Mirror(k, n) == IF k < 0 THEN -1 - k ELSE IF k >= n THEN 2 * n - 1 - k ELSE k

\* Rows that the kernel takes for granted; only LeGall's looks.
Least == CASE par.wavelet = DD97 -> 8 [] par.wavelet = DD137 -> 10 [] OTHER -> 2

\* transforms_v[l], of every row that is a multiple of skip
Lifted(rows, skip) ==
  LET H == Cardinality(DOMAIN rows)
      n == H \div (2 * skip)
      at(k) == rows[k * skip]
      odd(k) == Join({at(2 * k + 1)} \cup {at(2 * Mirror(k + t, n)) : t \in OddTaps})
      even(k) == Join({at(2 * k)} \cup {odd(Mirror(k + t, n)) : t \in EvenTaps})
  IN  [y \in DOMAIN rows |->
         CASE H < Least * skip -> Undefined
           [] H >= Least * skip /\ y % (2 * skip) = 0 -> even(y \div (2 * skip))
           [] H >= Least * skip /\ y % (2 * skip) = skip -> odd(y \div (2 * skip))
           [] OTHER -> rows[y]]

TInit == /\ Init
         /\ job = 0 /\ rest = FALSE /\ l = 0 /\ video_data = <<>> /\ picture = <<>>

\* It may be done, and then does nothing.
SetParams == Next /\ UNCHANGED transform

TransformInitial(n) ==
  /\ pc = "done" /\ result = "OK" /\ job = 0 /\ par.luma <= MaxTransformed
  /\ job' = n /\ rest' \in BOOLEAN
  /\ LET j == jobs[n]
     IN  video_data' = Filled(j.offset_y, j.pad_t + j.height + j.pad_b,
                              j.pad_t + j.rows * par.slice_height + j.pad_b, rest', LeftInWindow)
  /\ picture' = Filled(0, par.luma, mPaddedHeight(par), rest', LeftInPicture)
  /\ UNCHANGED <<vars, l>>

TransformV ==
  /\ job # 0 /\ l < par.depth
  /\ video_data' = Lifted(video_data, 2^l)
  /\ picture' = Lifted(picture, 2^l)
  /\ l' = l + 1
  /\ UNCHANGED <<vars, job, rest>>

TNext == \/ SetParams
         \/ \E n \in 1 .. mJobs : TransformInitial(n)
         \/ TransformV

TSpec == TInit /\ [][TNext]_<<vars, transform>>

-----------------------------------------------------------------------------
Transformed == job # 0 /\ l = par.depth

\* The rows of the job's slices, from its first; where they are in the picture;
\* their coefficients, as the job makes them and as they would be made of all of it.
BandRows == 0 .. jobs[job].rows * par.slice_height - 1
Place(y) == jobs[job].first * par.slice_height + y
Own(y) == video_data[jobs[job].pad_t + y]
Whole(y) == picture[Place(y)]

(* The slices of a job get the coefficients that they would get if the     *)
(* picture were transformed in one piece, and depend on leftovers in the   *)
(* job's memory only where those would depend on leftovers in theirs.      *)
(* TRANSFORM_OVERLAP is what the kernels need, at each level, and the      *)
(* padding made of it keeps the edges of the window, with what the kernels *)
(* make up beyond them, away from the band.  No window is too low for its  *)
(* kernels.                                                                *)
BandAsPicture ==
  Transformed /\ Roomy =>
    \A y \in BandRows :
      /\ Own(y) # Undefined
      /\ IF FromInput(Whole(y)) THEN Own(y) = Whole(y) ELSE Own(y).lo = LeftInWindow.lo

(* What the 9/7 and 13/7 kernels leave unwritten below the picture does    *)
(* not spread: a row that is as far above the last line of the picture as  *)
(* the overlap of its wavelet gets its coefficients from the input alone.  *)
LeftoversStayLow ==
  Transformed /\ Roomy =>
    \A y \in BandRows : Place(y) + par.overlap < par.luma => FromInput(Own(y))

(* transform.hpp:53 calls TRANSFORM_OVERLAP "The needed overlap in job     *)
(* data to keep from getting artifacts", and names no pictures for which   *)
(* it does not: a band gets the picture's coefficients, of any height.     *)
OverlapPreventsArtifacts ==
  Transformed =>
    \A y \in BandRows :
      Place(y) < mPaddedHeight(par) /\ FromInput(Whole(y)) => Own(y) = Whole(y)
=============================================================================
