---------------------------- MODULE PictureLayout ----------------------------
(***************************************************************************)
(* The second half of VC2Encoder::encodeData: the slices of a picture are  *)
(* cut into at most NFACTOR partials, each a run of slices with a piece of *)
(* the output buffer, which the Encode jobs fill independently.  Then the  *)
(* first fragment of each partial is linked to the last one of the partial *)
(* before it, and the caller's pointer is advanced by what                 *)
(* getExtraLengthForFragmentHeaders computes in a loop of its own.         *)
(*                                                                         *)
(* All numbers are ints of the C++ code, small enough not to overflow.     *)
(* The other copy of the loop, for 32-bit coefficients, is dead: setParams *)
(* refuses the depths that ask for it (JobPartition).                      *)
(***************************************************************************)
EXTENDS Integers, Sequences

CONSTANTS NFACTOR,         \* entries of mEncoderData
          SlicesPerLine,   \* values of mSlicesPerLine
          SliceRows,       \* values of mSlicesPerPicture / mSlicesPerLine
          Lengths,         \* values of encodeData's length
          FragmentSizes    \* values of mParams.fragment_size, 0 for none

ASSUME LayoutAssumption ==
  /\ NFACTOR \in Nat \ {0}
  /\ SlicesPerLine \subseteq Nat \ {0} /\ SliceRows \subseteq Nat \ {0}
  /\ Lengths \subseteq Nat /\ FragmentSizes \subseteq Nat

VARIABLES
  pic,               \* the picture: sizes, length and fragment size
  encoderData,       \* mEncoderData, the entries assigned so far
  remaining_length, remaining_slices,
  slices, odata,     \* where the next partial starts: slice number, offset
  sx, sy,            \* the same slice by column and row
  linked,            \* entries whose previous-parse-offset is written
  extra,             \* what getExtraLengthForFragmentHeaders has summed
  pc

vars == <<pic, encoderData, remaining_length, remaining_slices,
          slices, odata, sx, sy, linked, extra, pc>>

mSliceSizeScalar == 2
FRAGMENT_HEADER  == 25

\* Integer division of C, which truncates.
Abs(a) == IF a < 0 THEN -a ELSE a
CDiv(a, b) == LET q == Abs(a) \div Abs(b) IN IF (a < 0) = (b < 0) THEN q ELSE -q

mSlicesPerPicture == pic.line * pic.rows

\* (mSlicesPerPicture + NFACTOR - 1)/NFACTOR
n_slices_Down ==                                 \* a bug to look for: rounds down
  IF mSlicesPerPicture < NFACTOR THEN 1 ELSE mSlicesPerPicture \div NFACTOR
n_slices == (mSlicesPerPicture + NFACTOR - 1) \div NFACTOR

Body(length) == CDiv(length - 4 * mSlicesPerPicture, mSliceSizeScalar)

Init == /\ pic \in [line : SlicesPerLine, rows : SliceRows,
                    length : Lengths, fragment_size : FragmentSizes]
        /\ encoderData = <<>>
        /\ remaining_length = Body(pic.length)
        /\ remaining_slices = mSlicesPerPicture
        /\ slices = 0 /\ odata = 0 /\ sx = 0 /\ sy = 0
        /\ linked = 0 /\ extra = 0
        /\ pc = "layout"

\* The bytes of the n slices of a partial with `body` units for their data,
\* and the mean size of one of them.
Olength(n, body) == body * mSliceSizeScalar + 4 * n
MeanSliceSize(n, body) == CDiv(Olength(n, body), n)

\* fragment_size/mean_slice_size, but at least one slice to a fragment
SlicesPerFrag(n, body) ==
  LET fit == CDiv(pic.fragment_size, MeanSliceSize(n, body))
  IN  IF pic.fragment_size # 0 /\ fit = 0 THEN 1 ELSE fit

FragmentHeaders(n, body) ==
  LET spf == SlicesPerFrag(n, body)
  IN  IF spf = 0 THEN 0 ELSE CDiv(n + spf - 1, spf) * FRAGMENT_HEADER

\* The share of the next partial, and whether it is the last one.
More  == remaining_slices > n_slices
Share == CDiv(n_slices * remaining_length, remaining_slices)

Partial(n, body) ==
  [slices |-> slices, n_slices |-> n, odata |-> odata,
   olength |-> Olength(n, body), slices_per_frag |-> SlicesPerFrag(n, body),
   full_length |-> Olength(n, body) + FragmentHeaders(n, body),
   sx |-> sx, sy |-> sy]

\* A mean of 0 divides by zero, which ends the program.
Trap(n, body) == MeanSliceSize(n, body) = 0

DivideByZero == /\ pc \in {"layout", "extra"}
                /\ Trap(IF More THEN n_slices ELSE remaining_slices,
                        IF More THEN Share ELSE remaining_length)
                /\ pc' = "trapped"
                /\ UNCHANGED <<pic, encoderData, remaining_length, remaining_slices,
                               slices, odata, sx, sy, linked, extra>>

\* A bug to look for: the next partial placed without the fragment headers.
NextPartial_NoHeaders ==
  /\ pc = "layout" /\ More
  /\ ~Trap(n_slices, Share)
  /\ encoderData' = Append(encoderData, Partial(n_slices, Share))
  /\ LET x == sx + n_slices
     IN  /\ sx' = x % pic.line
         /\ sy' = sy + x \div pic.line
  /\ slices' = slices + n_slices
  /\ remaining_slices' = remaining_slices - n_slices
  /\ odata' = odata + Olength(n_slices, Share)
  /\ remaining_length' = remaining_length - Share
  /\ UNCHANGED <<pic, linked, extra, pc>>

NextPartial ==
  /\ pc = "layout" /\ More
  /\ ~Trap(n_slices, Share)
  /\ encoderData' = Append(encoderData, Partial(n_slices, Share))
  /\ LET x == sx + n_slices
     IN  /\ sx' = x % pic.line
         /\ sy' = sy + x \div pic.line
  /\ slices' = slices + n_slices
  /\ remaining_slices' = remaining_slices - n_slices
  /\ odata' = odata + Olength(n_slices, Share) + FragmentHeaders(n_slices, Share)
  /\ remaining_length' = remaining_length - Share
  /\ UNCHANGED <<pic, linked, extra, pc>>

LastPartial_FullCount ==                         \* a bug to look for: n_slices, not remaining_slices
  /\ pc = "layout" /\ ~More
  /\ ~Trap(remaining_slices, remaining_length)
  /\ encoderData' = Append(encoderData, Partial(n_slices, remaining_length))
  /\ pc' = IF pic.fragment_size # 0 THEN "link" ELSE "measure"
  /\ UNCHANGED <<pic, remaining_length, remaining_slices, slices, odata, sx, sy, linked, extra>>
LastPartial ==
  /\ pc = "layout" /\ ~More
  /\ ~Trap(remaining_slices, remaining_length)
  /\ encoderData' = Append(encoderData, Partial(remaining_slices, remaining_length))
  /\ pc' = IF pic.fragment_size # 0 THEN "link" ELSE "measure"
  /\ UNCHANGED <<pic, remaining_length, remaining_slices, slices, odata, sx, sy, linked, extra>>

\* The loop goes through all NFACTOR entries.  One that no partial of the
\* picture was assigned to holds whatever new[] left there: writing through
\* its odata pointer may go unnoticed or end the program.
Link == /\ pc = "link"
        /\ linked < NFACTOR
        /\ \/ linked' = linked + 1 /\ UNCHANGED pc
           \/ linked >= Len(encoderData) /\ pc' = "crashed" /\ UNCHANGED linked
        /\ UNCHANGED <<pic, encoderData, remaining_length, remaining_slices,
                       slices, odata, sx, sy, extra>>

Linked == /\ pc = "link"
          /\ linked = NFACTOR
          /\ pc' = "measure"
          /\ UNCHANGED <<pic, encoderData, remaining_length, remaining_slices,
                         slices, odata, sx, sy, linked, extra>>

-----------------------------------------------------------------------------
\* getExtraLengthForFragmentHeaders(length), with its own copies of the locals

\* The caller has allowed for the four bytes that every slice needs.
Enough == pic.length >= 4 * mSlicesPerPicture

\* If not: length is unsigned here, length - 4*mSlicesPerPicture wraps round,
\* and the products of the loop overflow an int.  Anything may come out.
MeasureStarved == /\ pc = "measure"
                  /\ pic.fragment_size # 0 /\ ~Enough
                  /\ pc' \in {"done", "trapped"}
                  /\ extra' \in {0, FRAGMENT_HEADER}
                  /\ UNCHANGED <<pic, encoderData, remaining_length, remaining_slices,
                                 slices, odata, sx, sy, linked>>

Measure == /\ pc = "measure"
           /\ pic.fragment_size = 0 \/ Enough
           /\ IF pic.fragment_size = 0 THEN pc' = "done" ELSE pc' = "extra"
           /\ remaining_length' = Body(pic.length)
           /\ remaining_slices' = mSlicesPerPicture
           /\ UNCHANGED <<pic, encoderData, slices, odata, sx, sy, linked, extra>>

ExtraNext_KeepsLength ==                         \* a bug to look for: remaining_length as it was
  /\ pc = "extra" /\ More
  /\ ~Trap(n_slices, Share)
  /\ extra' = extra + FragmentHeaders(n_slices, Share)
  /\ remaining_slices' = remaining_slices - n_slices
  /\ UNCHANGED <<pic, encoderData, remaining_length, slices, odata, sx, sy, linked, pc>>
ExtraNext == /\ pc = "extra" /\ More
             /\ ~Trap(n_slices, Share)
             /\ extra' = extra + FragmentHeaders(n_slices, Share)
             /\ remaining_slices' = remaining_slices - n_slices
             /\ remaining_length' = remaining_length - Share
             /\ UNCHANGED <<pic, encoderData, slices, odata, sx, sy, linked, pc>>

ExtraLast == /\ pc = "extra" /\ ~More
             /\ ~Trap(remaining_slices, remaining_length)
             /\ extra' = extra + FragmentHeaders(remaining_slices, remaining_length)
             /\ pc' = "done"
             /\ UNCHANGED <<pic, encoderData, remaining_length, remaining_slices,
                            slices, odata, sx, sy, linked>>

Done == pc \in {"done", "crashed", "trapped"} /\ UNCHANGED vars

Next == \/ DivideByZero \/ NextPartial \/ LastPartial \/ Link \/ Linked
        \/ MeasureStarved \/ Measure \/ ExtraNext \/ ExtraLast \/ Done

Spec == Init /\ [][Next]_vars
-----------------------------------------------------------------------------
LaidOut == pc \in {"link", "measure", "extra", "done"}

Parts == Len(encoderData)

(* The partials share out the slices of the picture, in order and without  *)
(* a gap, and the column and row each one starts from are those of its     *)
(* first slice.                                                            *)
SlicesShared ==
  /\ \A k \in 1 .. Parts :
       LET p == encoderData[k]
       IN  /\ p.sy * pic.line + p.sx = p.slices
           /\ p.slices = (IF k = 1 THEN 0 ELSE encoderData[k-1].slices + encoderData[k-1].n_slices)
  /\ LaidOut => encoderData[Parts].slices + encoderData[Parts].n_slices = mSlicesPerPicture

(* mEncoderData has room for all the partials.                             *)
TableSuffices == Parts <= NFACTOR

(* The pieces of the output buffer do not overlap: each partial starts     *)
(* where the one before it ends, headers included, and each has at least   *)
(* the four bytes its every slice needs.                                   *)
OutputShared ==
  Enough => \A k \in 1 .. Parts :
    LET p == encoderData[k]
    IN  /\ p.odata = (IF k = 1 THEN 0 ELSE encoderData[k-1].odata + encoderData[k-1].full_length)
        /\ p.olength >= 4 * p.n_slices
        /\ p.full_length >= p.olength

(* The pointer returned to the caller, length + extra, is where the last   *)
(* partial ends, up to the remainder of dividing by mSliceSizeScalar: what *)
(* the client reserved is what the layout has used.                        *)
ExtraAgrees ==
  Enough /\ pc = "done" =>
    pic.length + extra - (encoderData[Parts].odata + encoderData[Parts].full_length)
      = (pic.length - 4 * mSlicesPerPicture) % mSliceSizeScalar

(* No partial is starved: two of them differ in mean slice size by at most *)
(* one scalar unit (and the rounding of the mean).                         *)
EvenShares ==
  Enough => \A k, m \in 1 .. Parts :
    encoderData[k].olength \div encoderData[k].n_slices
      <= encoderData[m].olength \div encoderData[m].n_slices + mSliceSizeScalar + 1

(* A division by zero needs a length below four bytes a slice.             *)
TrapsOnlyStarved == pc = "trapped" => ~Enough

(* vc2hqencode.h:321 names what the caller gets back, and hands to the next *)
(* picture, next_parse_offset: it is that of the last partial, so that the   *)
(* linking has gone through the partials of this picture and no other entry. *)
NextParseOffset ==
  pc = "done" /\ pic.fragment_size # 0 => linked = Parts
=============================================================================
