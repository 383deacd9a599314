-------------------------- MODULE PictureLayoutProofs --------------------------
(***************************************************************************)
(* PictureLayout for every table size, picture, length and fragment size.  *)
(* The slices need one invariant, the bytes a second one on top of it, for *)
(* pictures whose length allows for the four bytes of every slice.         *)
(***************************************************************************)
EXTENDS PictureLayout, SequenceTheorems, TLAPS

USE LayoutAssumption

-----------------------------------------------------------------------------
\* Arithmetic: what the provers need to know of products and divisions.

LEMMA DivMod ==
  ASSUME NEW a \in Nat, NEW b \in Nat \ {0}
  PROVE  /\ a \div b \in Nat /\ a % b \in 0 .. b - 1
         /\ a = b * (a \div b) + (a % b)
         /\ (a \div b) * b <= a /\ a < (a \div b) * b + b
<1>1. a \div b \in Nat /\ a % b \in 0 .. b - 1
  OBVIOUS
<1>2. a = b * (a \div b) + (a % b)
  OBVIOUS
<1>3. (a \div b) * b = b * (a \div b)
  BY <1>1
<1> QED
  BY <1>1, <1>2, <1>3

LEMMA Products ==
  ASSUME NEW a \in Nat, NEW b \in Nat, NEW c \in Nat
  PROVE  /\ a * b \in Nat
         /\ (a + b) * c = a * c + b * c
         /\ a <= b => a * c <= b * c
         /\ a * c < b * c => a < b
OBVIOUS

LEMMA Advance ==
  ASSUME NEW x \in Nat, NEW l \in Nat \ {0}
  PROVE  x \div l \in Nat /\ x % l \in Nat /\ x = l * (x \div l) + (x % l)
BY DivMod

\* A product of the form (k - 1) * c, which positions of partials are.
LEMMA OneMore ==
  ASSUME NEW k \in Int, NEW c \in Int
  PROVE  k * c \in Int /\ (k - 1) * c \in Int /\ (k - 1) * c + c = k * c
OBVIOUS

LEMMA CDivNat ==
  ASSUME NEW a \in Nat, NEW b \in Nat \ {0}
  PROVE  CDiv(a, b) = a \div b
BY DEF CDiv, Abs

LEMMA CDivInt ==
  ASSUME NEW a \in Int, NEW b \in Int \ {0}
  PROVE  CDiv(a, b) \in Int
<1>1. Abs(a) \in Nat /\ Abs(b) \in Nat \ {0}
  BY DEF Abs
<1>2. Abs(a) \div Abs(b) \in Nat
  BY <1>1, DivMod
<1> QED
  BY <1>2 DEF CDiv

-----------------------------------------------------------------------------
Pics == [line : SlicesPerLine, rows : SliceRows, length : Lengths,
         fragment_size : FragmentSizes]
PartialSet == [slices : Int, n_slices : Int, odata : Int, olength : Int,
               slices_per_frag : Int, full_length : Int, sx : Int, sy : Int]

Types == /\ pic \in Pics
         /\ encoderData \in Seq(PartialSet)
         /\ remaining_length \in Int /\ remaining_slices \in Int
         /\ slices \in Nat /\ odata \in Int /\ sx \in Nat /\ sy \in Nat
         /\ linked \in Nat /\ extra \in Int

\* n_slices of them always fill the table.
LEMMA Sizes ==
  ASSUME pic \in Pics
  PROVE  /\ pic.line \in Nat \ {0} /\ pic.length \in Nat /\ pic.fragment_size \in Nat
         /\ mSlicesPerPicture \in Nat \ {0}
         /\ n_slices \in Nat \ {0}
         /\ mSlicesPerPicture <= n_slices * NFACTOR
<1>1. /\ pic.line \in Nat \ {0} /\ pic.rows \in Nat \ {0}
      /\ pic.length \in Nat /\ pic.fragment_size \in Nat
  BY DEF Pics
<1>2. mSlicesPerPicture \in Nat \ {0}
  BY <1>1 DEF mSlicesPerPicture
<1> DEFINE a == mSlicesPerPicture + NFACTOR - 1
<1>3. a \in Nat /\ a = mSlicesPerPicture + (NFACTOR - 1)
  BY <1>2
<1>4. /\ n_slices \in Nat
      /\ n_slices * NFACTOR <= a /\ a < n_slices * NFACTOR + NFACTOR
  BY <1>3, DivMod DEF n_slices
<1>5. n_slices * NFACTOR \in Nat
  BY <1>4, Products
<1>6. mSlicesPerPicture <= n_slices * NFACTOR
  BY <1>2, <1>3, <1>4, <1>5
<1>7. n_slices # 0
  BY <1>2, <1>6
<1> QED
  BY <1>1, <1>2, <1>4, <1>6, <1>7

\* 1. The slices.
PlacedSlices ==
  \A k \in 1 .. Parts :
    /\ encoderData[k].slices = (k - 1) * n_slices
    /\ encoderData[k].slices < mSlicesPerPicture
    /\ encoderData[k].sy * pic.line + encoderData[k].sx = encoderData[k].slices
    /\ k < Parts => encoderData[k].n_slices = n_slices
NextSlices ==
  pc = "layout" =>
    /\ slices = Parts * n_slices
    /\ remaining_slices = mSlicesPerPicture - slices
    /\ remaining_slices >= 1
    /\ sy * pic.line + sx = slices
    /\ \A k \in 1 .. Parts : encoderData[k].n_slices = n_slices
AllSlices ==
  LaidOut => /\ Parts >= 1
             /\ encoderData[Parts].slices + encoderData[Parts].n_slices = mSlicesPerPicture

SomeLeft == pc = "extra" => remaining_slices >= 1

SlicesInv == Types /\ PlacedSlices /\ NextSlices /\ AllSlices /\ SomeLeft

LEMMA InitSlicesInv == Init => SlicesInv
<1> SUFFICES ASSUME Init PROVE SlicesInv
  OBVIOUS
<1>1. pic \in Pics
  BY DEF Init, Pics
<1>2. Body(pic.length) \in Int
  <2>1. pic.length - 4 * mSlicesPerPicture \in Int
    BY <1>1, Sizes
  <2> QED
    BY <2>1, CDivInt DEF Body, mSliceSizeScalar
<1>3. Types
  BY <1>1, <1>2, Sizes DEF Init, Types
<1>4. Len(encoderData) = 0
  BY DEF Init
<1>5. NextSlices
  BY <1>1, <1>4, Sizes DEF Init, NextSlices, Parts
<1> QED
  BY <1>3, <1>4, <1>5 DEF Init, SlicesInv, PlacedSlices, AllSlices, SomeLeft, LaidOut, Parts

\* A partial that is laid out has the types of its record.
LEMMA PartialTypes ==
  ASSUME Types, NEW n \in Nat \ {0}, NEW body \in Int, ~Trap(n, body)
  PROVE  /\ Olength(n, body) \in Int /\ FragmentHeaders(n, body) \in Int
         /\ Partial(n, body) \in PartialSet
<1>1. Olength(n, body) \in Int
  BY DEF Olength, mSliceSizeScalar
<1>2. MeanSliceSize(n, body) \in Int \ {0}
  BY <1>1, CDivInt DEF MeanSliceSize, Trap
<1>3. SlicesPerFrag(n, body) \in Int
  <2>1. pic.fragment_size \in Int
    BY Sizes DEF Types
  <2> QED
    BY <1>2, <2>1, CDivInt DEF SlicesPerFrag
<1>4. FragmentHeaders(n, body) \in Int
  <2>1. CASE SlicesPerFrag(n, body) = 0
    BY <2>1 DEF FragmentHeaders
  <2>2. CASE SlicesPerFrag(n, body) # 0
    <3>1. n + SlicesPerFrag(n, body) - 1 \in Int
      BY <1>3
    <3>2. CDiv(n + SlicesPerFrag(n, body) - 1, SlicesPerFrag(n, body)) \in Int
      BY <1>3, <2>2, <3>1, CDivInt
    <3> QED
      BY <2>2, <3>2 DEF FragmentHeaders, FRAGMENT_HEADER
  <2> QED
    BY <2>1, <2>2
<1> QED
  BY <1>1, <1>3, <1>4 DEF Partial, PartialSet, Types

LEMMA ShareType ==
  ASSUME Types, More
  PROVE  Share \in Int
<1>1. n_slices \in Nat \ {0}
  BY Sizes DEF Types
<1>2. remaining_slices \in Int \ {0} /\ n_slices * remaining_length \in Int
  BY <1>1 DEF Types, More
<1> QED
  BY <1>2, CDivInt DEF Share

(* What laying out one partial more does to the table.                      *)
LEMMA Appended ==
  ASSUME encoderData \in Seq(PartialSet), NEW p \in PartialSet,
         encoderData' = Append(encoderData, p)
  PROVE  /\ encoderData' \in Seq(PartialSet)
         /\ Parts \in Nat /\ Parts' = Parts + 1
         /\ encoderData'[Parts + 1] = p
         /\ \A k \in 1 .. Parts : encoderData'[k] = encoderData[k]
BY AppendProperties, LenProperties DEF Parts

LEMMA NextPartialTypes ==
  ASSUME Types, NextPartial
  PROVE  /\ Types' /\ n_slices' = n_slices
         /\ Partial(n_slices, Share) \in PartialSet
         /\ sy' * pic.line + sx' = (sy * pic.line + sx) + n_slices
<1>1. n_slices \in Nat \ {0} /\ pic.line \in Nat \ {0}
  BY Sizes DEF Types
<1>2. Share \in Int
  BY ShareType DEF NextPartial
<1>3. /\ Olength(n_slices, Share) \in Int /\ FragmentHeaders(n_slices, Share) \in Int
      /\ Partial(n_slices, Share) \in PartialSet
  BY <1>1, <1>2, PartialTypes DEF NextPartial
<1> DEFINE x == sx + n_slices
<1>4. /\ x \in Nat /\ sx' = x % pic.line /\ sy' = sy + x \div pic.line
  BY <1>1 DEF NextPartial, Types
<1>5. /\ x \div pic.line \in Nat /\ x % pic.line \in Nat
      /\ x = pic.line * (x \div pic.line) + (x % pic.line)
  <2> HIDE DEF x
  <2> QED
    BY <1>1, <1>4, Advance
<1>6. sy' \in Nat /\ sx' \in Nat /\ sy \in Nat
  BY <1>4, <1>5 DEF Types
<1>7. sy' * pic.line + sx' = (sy * pic.line + sx) + n_slices
  <2> DEFINE q == x \div pic.line
             m == x % pic.line
             l == pic.line
  <2>1. q \in Nat /\ m \in Nat /\ l \in Nat /\ x = l * q + m /\ sy' = sy + q /\ sx' = m
    BY <1>1, <1>4, <1>5
  <2>2. x = sx + n_slices /\ sx \in Nat
    BY DEF Types
  <2> HIDE DEF q, m, l, x
  <2>3. (sy + q) * l = sy * l + q * l /\ q * l = l * q
    BY <1>6, <2>1
  <2>4. sy * l \in Nat /\ l * q \in Nat
    BY <1>6, <2>1, Products
  <2>5. sy' * l + sx' = (sy * l + sx) + n_slices
    BY <1>1, <2>1, <2>2, <2>3, <2>4
  <2> QED
    BY <2>5 DEF l
<1>8. Types'
  <2>1. encoderData' \in Seq(PartialSet)
    BY <1>3, Appended DEF NextPartial, Types
  <2>2. slices' \in Nat /\ odata' \in Int /\ remaining_slices' \in Int /\ remaining_length' \in Int
    BY <1>1, <1>2, <1>3 DEF NextPartial, Types
  <2> QED
    BY <1>6, <2>1, <2>2 DEF NextPartial, Types
<1>9. n_slices' = n_slices
  BY DEF NextPartial, n_slices, mSlicesPerPicture
<1> QED
  BY <1>3, <1>7, <1>8, <1>9

LEMMA NextPartialSlices ==
  ASSUME SlicesInv, NextPartial
  PROVE  SlicesInv'
<1>1. /\ n_slices \in Nat \ {0} /\ mSlicesPerPicture \in Nat \ {0}
      /\ Types /\ Types' /\ n_slices' = n_slices /\ Partial(n_slices, Share) \in PartialSet
      /\ pic.line \in Nat
  BY Sizes, NextPartialTypes DEF Types, SlicesInv
<1>2. mSlicesPerPicture' = mSlicesPerPicture /\ pic' = pic
  BY DEF NextPartial, mSlicesPerPicture
<1>3. /\ Parts \in Nat /\ Parts' = Parts + 1
      /\ encoderData'[Parts + 1] = Partial(n_slices, Share)
      /\ \A k \in 1 .. Parts : encoderData'[k] = encoderData[k]
  BY <1>1, Appended DEF NextPartial, Types
<1>4. /\ slices = Parts * n_slices
      /\ remaining_slices = mSlicesPerPicture - slices
      /\ sy * pic.line + sx = slices
      /\ \A k \in 1 .. Parts : encoderData[k].n_slices = n_slices
  BY DEF SlicesInv, NextSlices, NextPartial
<1>5. /\ slices \in Nat /\ slices' = slices + n_slices
      /\ remaining_slices' = remaining_slices - n_slices /\ remaining_slices > n_slices
      /\ pc = "layout" /\ pc' = "layout"
  BY DEF NextPartial, More, SlicesInv, Types
<1> DEFINE p == Partial(n_slices, Share)
<1>6. /\ p.slices = slices /\ p.n_slices = n_slices /\ p.sy = sy /\ p.sx = sx
  BY DEF Partial
<1> HIDE DEF p
<1>7. PlacedSlices'
  <2> SUFFICES ASSUME NEW k \in 1 .. Parts + 1
               PROVE  /\ encoderData'[k].slices = (k - 1) * n_slices
                      /\ encoderData'[k].slices < mSlicesPerPicture
                      /\ encoderData'[k].sy * pic.line + encoderData'[k].sx = encoderData'[k].slices
                      /\ k < Parts + 1 => encoderData'[k].n_slices = n_slices
    BY <1>1, <1>2, <1>3 DEF PlacedSlices
  <2>1. CASE k \in 1 .. Parts
    BY <1>3, <1>4, <2>1 DEF SlicesInv, PlacedSlices
  <2>2. CASE k = Parts + 1
    <3>1. encoderData'[k] = p /\ k - 1 = Parts
      BY <1>3, <2>2 DEF p
    <3> QED
      BY <1>1, <1>4, <1>5, <1>6, <2>2, <3>1
  <2> QED
    BY <1>3, <2>1, <2>2
<1>8. NextSlices'
  <2>1. (Parts + 1) * n_slices = Parts * n_slices + n_slices
    BY <1>1, <1>3
  <2>2. slices' = Parts' * n_slices'
    BY <1>1, <1>3, <1>4, <1>5, <2>1
  <2>3. sy' * pic.line + sx' = slices'
    BY <1>1, <1>4, <1>5, NextPartialTypes
  <2>4. remaining_slices' = mSlicesPerPicture - slices' /\ remaining_slices' >= 1
    BY <1>1, <1>4, <1>5
  <2>5. \A k \in 1 .. Parts' : encoderData'[k].n_slices = n_slices'
    <3>1. \A k \in 1 .. Parts' : k \in 1 .. Parts \/ k = Parts + 1
      BY <1>3
    <3> QED
      BY <1>1, <1>3, <1>4, <1>6, <3>1 DEF p
  <2> QED
    BY <1>2, <2>2, <2>3, <2>4, <2>5 DEF NextSlices
<1>9. AllSlices'
  BY <1>5 DEF AllSlices, LaidOut
<1> QED
  BY <1>1, <1>5, <1>7, <1>8, <1>9 DEF SlicesInv, SomeLeft

LEMMA LastPartialSlices ==
  ASSUME SlicesInv, LastPartial
  PROVE  /\ SlicesInv' /\ n_slices' = n_slices
         /\ Partial(remaining_slices, remaining_length) \in PartialSet
         /\ remaining_slices \in Nat \ {0}
<1>1. /\ n_slices \in Nat \ {0} /\ mSlicesPerPicture \in Nat \ {0} /\ Types
  BY Sizes DEF Types, SlicesInv
<1>2. /\ slices = Parts * n_slices
      /\ remaining_slices = mSlicesPerPicture - slices /\ remaining_slices >= 1
      /\ sy * pic.line + sx = slices
      /\ \A k \in 1 .. Parts : encoderData[k].n_slices = n_slices
  BY DEF SlicesInv, NextSlices, LastPartial
<1>3. remaining_slices \in Nat \ {0} /\ remaining_length \in Int /\ slices \in Nat
  BY <1>1, <1>2 DEF Types
<1>4. Partial(remaining_slices, remaining_length) \in PartialSet
  BY <1>1, <1>3, PartialTypes DEF LastPartial
<1>5. /\ Parts \in Nat /\ Parts' = Parts + 1 /\ encoderData' \in Seq(PartialSet)
      /\ encoderData'[Parts + 1] = Partial(remaining_slices, remaining_length)
      /\ \A k \in 1 .. Parts : encoderData'[k] = encoderData[k]
  BY <1>1, <1>4, Appended DEF LastPartial, Types
<1>6. /\ mSlicesPerPicture' = mSlicesPerPicture /\ pic' = pic /\ n_slices' = n_slices
      /\ pc' \in {"link", "measure"}
  BY DEF LastPartial, mSlicesPerPicture, n_slices
<1>7. Types'
  BY <1>1, <1>5 DEF LastPartial, Types
<1> DEFINE p == Partial(remaining_slices, remaining_length)
<1>8. p.slices = slices /\ p.n_slices = remaining_slices /\ p.sy = sy /\ p.sx = sx
  BY DEF Partial
<1>9. encoderData'[Parts + 1] = p
  BY <1>5
<1> HIDE DEF p
<1>10. PlacedSlices'
  <2> SUFFICES ASSUME NEW k \in 1 .. Parts + 1
               PROVE  /\ encoderData'[k].slices = (k - 1) * n_slices
                      /\ encoderData'[k].slices < mSlicesPerPicture
                      /\ encoderData'[k].sy * pic.line + encoderData'[k].sx = encoderData'[k].slices
                      /\ k < Parts + 1 => encoderData'[k].n_slices = n_slices
    BY <1>5, <1>6 DEF PlacedSlices
  <2>1. CASE k \in 1 .. Parts
    BY <1>2, <1>5, <2>1 DEF SlicesInv, PlacedSlices
  <2>2. CASE k = Parts + 1
    <3>1. encoderData'[k] = p /\ k - 1 = Parts
      BY <1>5, <1>9, <2>2
    <3> QED
      BY <1>1, <1>2, <1>3, <1>8, <2>2, <3>1
  <2> QED
    BY <1>5, <2>1, <2>2
<1>11. NextSlices'
  BY <1>6 DEF NextSlices
<1>12. AllSlices'
  BY <1>1, <1>2, <1>3, <1>5, <1>6, <1>8, <1>9 DEF AllSlices
<1> QED
  BY <1>3, <1>4, <1>6, <1>7, <1>10, <1>11, <1>12 DEF SlicesInv, SomeLeft

(* Nothing after the last partial changes the table.                        *)
LEMMA LaterTypes ==
  ASSUME SlicesInv,
         Link \/ Linked \/ MeasureStarved \/ Measure \/ ExtraNext \/ ExtraLast
  PROVE  /\ pc # "layout" /\ pc' # "layout" /\ LaidOut
         /\ UNCHANGED <<pic, encoderData>>
         /\ Types' /\ SomeLeft'
<1> USE DEF SlicesInv, Types, SomeLeft, LaidOut
<1>1. CASE Link
  BY <1>1 DEF Link
<1>2. CASE Linked
  BY <1>2 DEF Linked
<1>3. CASE MeasureStarved
  BY <1>3 DEF MeasureStarved, FRAGMENT_HEADER
<1>4. CASE Measure
  <2>1. mSlicesPerPicture \in Nat \ {0} /\ pic.length \in Nat
    BY Sizes
  <2>2. pic.length - 4 * mSlicesPerPicture \in Int
    BY <2>1
  <2>3. Body(pic.length) \in Int
    BY <2>2, CDivInt DEF Body, mSliceSizeScalar
  <2> QED
    BY <1>4, <2>1, <2>3 DEF Measure
<1>5. CASE ExtraNext
  <2>1. n_slices \in Nat \ {0}
    BY Sizes
  <2>2. Share \in Int
    BY <1>5, ShareType DEF ExtraNext
  <2>3. FragmentHeaders(n_slices, Share) \in Int
    BY <1>5, <2>1, <2>2, PartialTypes DEF ExtraNext
  <2> QED
    BY <1>5, <2>1, <2>2, <2>3 DEF ExtraNext, More
<1>6. CASE ExtraLast
  <2>1. remaining_slices \in Nat \ {0} /\ remaining_length \in Int
    BY <1>6 DEF ExtraLast
  <2>2. FragmentHeaders(remaining_slices, remaining_length) \in Int
    BY <1>6, <2>1, PartialTypes DEF ExtraLast
  <2> QED
    BY <1>6, <2>2 DEF ExtraLast
<1> QED
  BY <1>1, <1>2, <1>3, <1>4, <1>5, <1>6

LEMMA SlicesStep ==
  ASSUME SlicesInv, [Next]_vars
  PROVE  SlicesInv'
<1> DEFINE Later == Link \/ Linked \/ MeasureStarved \/ Measure \/ ExtraNext \/ ExtraLast
<1>1. CASE NextPartial
  BY <1>1, NextPartialSlices
<1>2. CASE LastPartial
  BY <1>2, LastPartialSlices
<1>3. CASE Later
  <2>1. /\ Types' /\ SomeLeft' /\ pc' # "layout" /\ LaidOut
        /\ encoderData' = encoderData /\ pic' = pic
    BY <1>3, LaterTypes
  <2>2. /\ mSlicesPerPicture' = mSlicesPerPicture /\ n_slices' = n_slices /\ Parts' = Parts
    BY <2>1 DEF mSlicesPerPicture, n_slices, Parts
  <2>3. PlacedSlices' /\ AllSlices'
    BY <2>1, <2>2 DEF SlicesInv, PlacedSlices, AllSlices
  <2> QED
    BY <2>1, <2>3 DEF SlicesInv, NextSlices
<1>4. CASE DivideByZero \/ UNCHANGED vars
  <2>1. /\ UNCHANGED <<pic, encoderData, remaining_length, remaining_slices,
                       slices, odata, sx, sy, linked, extra>>
        /\ pc' = "trapped" \/ pc' = pc
    BY <1>4 DEF DivideByZero, vars
  <2>2. /\ mSlicesPerPicture' = mSlicesPerPicture /\ n_slices' = n_slices /\ Parts' = Parts
    BY <2>1 DEF mSlicesPerPicture, n_slices, Parts
  <2>3. Types' /\ PlacedSlices' /\ SomeLeft'
    BY <2>1, <2>2 DEF SlicesInv, Types, PlacedSlices, SomeLeft
  <2>4. NextSlices' /\ AllSlices'
    BY <2>1, <2>2 DEF SlicesInv, NextSlices, AllSlices, LaidOut
  <2> QED
    BY <2>3, <2>4 DEF SlicesInv
<1> QED
  BY <1>1, <1>2, <1>3, <1>4 DEF Next, Done

LEMMA LayoutSlices == Spec => []SlicesInv
<1>1. Init => SlicesInv
  BY InitSlicesInv
<1>2. SlicesInv /\ [Next]_vars => SlicesInv'
  BY SlicesStep
<1> QED
  BY <1>1, <1>2, PTL DEF Spec

(* The partials share out the slices, in order and without a gap, and the  *)
(* column and row of each are those of its first slice, for every number   *)
(* of slices to a line and of rows (encodeData's loop over mEncoderData).  *)
THEOREM LayoutSlicesShared == Spec => []SlicesShared
<1>1. SlicesInv => SlicesShared
  <2> SUFFICES ASSUME SlicesInv PROVE SlicesShared
    OBVIOUS
  <2>1. n_slices \in Nat \ {0} /\ Parts \in Nat
    BY Sizes, LenProperties DEF SlicesInv, Types, Parts
  <2>2. ASSUME NEW k \in 1 .. Parts, k # 1
        PROVE  encoderData[k].slices = encoderData[k-1].slices + encoderData[k-1].n_slices
    <3>1. k - 1 \in 1 .. Parts /\ k - 1 < Parts /\ k \in Int /\ (k - 1) - 1 \in Int
      BY <2>1, <2>2
    <3>2. /\ encoderData[k].slices = (k - 1) * n_slices
          /\ encoderData[k-1].slices = ((k - 1) - 1) * n_slices
          /\ encoderData[k-1].n_slices = n_slices
      BY <3>1 DEF SlicesInv, PlacedSlices
    <3>3. ((k - 1) - 1) * n_slices + n_slices = (k - 1) * n_slices
      BY <2>1, <3>1, OneMore
    <3> QED
      BY <3>2, <3>3
  <2>3. ASSUME 1 \in 1 .. Parts
        PROVE  encoderData[1].slices = 0
    <3>1. encoderData[1].slices = (1 - 1) * n_slices
      BY <2>3 DEF SlicesInv, PlacedSlices
    <3> QED
      BY <2>1, <3>1
  <2> QED
    BY <2>2, <2>3 DEF SlicesInv, PlacedSlices, AllSlices, SlicesShared
<1> QED
  BY <1>1, LayoutSlices, PTL

(* mEncoderData has room for all the partials, whatever its size and that  *)
(* of the picture: rounding n_slices up is what makes it so.               *)
THEOREM LayoutTableSuffices == Spec => []TableSuffices
<1>1. SlicesInv => TableSuffices
  <2> SUFFICES ASSUME SlicesInv, Parts > NFACTOR PROVE FALSE
    BY LenProperties DEF SlicesInv, Types, TableSuffices, Parts
  <2>1. /\ n_slices \in Nat \ {0} /\ Parts \in Nat /\ mSlicesPerPicture \in Nat
        /\ mSlicesPerPicture <= n_slices * NFACTOR
    BY Sizes, LenProperties DEF SlicesInv, Types, Parts
  <2>2. (Parts - 1) * n_slices < mSlicesPerPicture
    BY <2>1 DEF SlicesInv, PlacedSlices
  <2>3. NFACTOR * n_slices <= (Parts - 1) * n_slices
    BY <2>1, Products
  <2>4. NFACTOR * n_slices = n_slices * NFACTOR /\ NFACTOR * n_slices \in Nat
    BY <2>1
  <2>5. (Parts - 1) * n_slices \in Int
    BY <2>1
  <2> HIDE DEF Parts
  <2> QED
    BY <2>1, <2>2, <2>3, <2>4, <2>5
<1> QED
  BY <1>1, LayoutSlices, PTL
-----------------------------------------------------------------------------
(* 2. The bytes, in a picture whose length is Enough.  A slice gets         *)
(* SliceShare units for its data or one more: this holds of what remains,   *)
(* of each share taken from it, and so of what remains then.                *)
SliceShare == Body(pic.length) \div mSlicesPerPicture

Shared(n, body) == SliceShare * n <= body /\ body <= (SliceShare + 1) * n

SharedRest == pc \in {"layout", "extra"} => Shared(remaining_slices, remaining_length)
SharedParts ==
  \A k \in 1 .. Parts :
    LET p == encoderData[k]
    IN  /\ p.n_slices >= 1
        /\ (2 * SliceShare + 4) * p.n_slices <= p.olength
        /\ p.olength <= (2 * SliceShare + 6) * p.n_slices
        /\ p.full_length >= p.olength
Chained ==
  /\ \A k \in 1 .. Parts :
       encoderData[k].odata =
         (IF k = 1 THEN 0 ELSE encoderData[k-1].odata + encoderData[k-1].full_length)
  /\ pc = "layout" =>
       odata = (IF Parts = 0 THEN 0 ELSE encoderData[Parts].odata + encoderData[Parts].full_length)

BytesInv ==
  Enough => SharedRest /\ SharedParts /\ Chained /\ pc # "trapped"

LEMMA DivBounds ==
  ASSUME NEW a \in Nat, NEW b \in Nat \ {0}, NEW l \in Nat, NEW h \in Nat,
         l * b <= a, a <= h * b
  PROVE  l <= a \div b /\ a \div b <= h
<1> DEFINE d == a \div b
<1>1. d \in Nat /\ d * b <= a /\ a < d * b + b
  BY DivMod
<1> HIDE DEF d
<1>2. d * b + b = (d + 1) * b
  BY <1>1
<1>3. l * b < (d + 1) * b /\ d * b <= h * b
  BY <1>1, <1>2
<1>4. l < d + 1
  BY <1>1, <1>3, Products
<1>5. ASSUME d > h PROVE FALSE
  <2>1. (h + 1) * b <= d * b /\ (h + 1) * b = h * b + b
    BY <1>1, <1>5, Products
  <2>2. h * b \in Nat /\ d * b \in Nat
    BY <1>1
  <2> QED
    BY <1>3, <2>1, <2>2
<1> QED
  BY <1>1, <1>4, <1>5 DEF d

\* Of r slices with `rest` units between them, n get their share.
LEMMA ShareBounds ==
  ASSUME NEW q \in Nat, NEW r \in Nat, NEW rest \in Nat, NEW n \in Nat \ {0}, n < r,
         q * r <= rest, rest <= (q + 1) * r
  PROVE  LET s == (n * rest) \div r
         IN  /\ s \in Nat
             /\ q * n <= s /\ s <= (q + 1) * n
             /\ q * (r - n) <= rest - s /\ rest - s <= (q + 1) * (r - n)
<1> DEFINE s == (n * rest) \div r
<1>1. n * rest \in Nat /\ r \in Nat \ {0}
  OBVIOUS
<1>2. s \in Nat /\ s * r <= n * rest /\ n * rest < s * r + r
  BY <1>1, DivMod
<1>3. q * n <= s /\ s <= (q + 1) * n
  <2>1. (q * n) * r <= n * rest /\ n * rest <= ((q + 1) * n) * r
    <3>1. n * (q * r) <= n * rest /\ n * rest <= n * ((q + 1) * r)
      OBVIOUS
    <3>2. n * (q * r) = (q * n) * r /\ n * ((q + 1) * r) = ((q + 1) * n) * r
      OBVIOUS
    <3> QED
      BY <3>1, <3>2
  <2>2. q * n \in Nat /\ (q + 1) * n \in Nat
    OBVIOUS
  <2> QED
    BY <1>1, <2>1, <2>2, DivBounds
<1> HIDE DEF s
<1> DEFINE m == r - n
<1>4. m \in Nat \ {0} /\ r = m + n
  OBVIOUS
<1> HIDE DEF m
<1>5. (rest - s) * r = rest * r - s * r /\ rest * r = rest * m + n * rest
  BY <1>2, <1>4
<1>6. rest * m <= (rest - s) * r /\ (rest - s) * r < rest * m + r
  BY <1>2, <1>4, <1>5
<1>7. (q * m) * r <= rest * m /\ rest * m <= ((q + 1) * m) * r
  <2>1. (q * r) * m <= rest * m /\ rest * m <= ((q + 1) * r) * m
    BY <1>4
  <2>2. (q * r) * m = (q * m) * r /\ ((q + 1) * r) * m = ((q + 1) * m) * r
    BY <1>4
  <2> QED
    BY <2>1, <2>2
<1>8. q * m \in Nat /\ (q + 1) * m \in Nat /\ rest - s \in Int
  BY <1>2, <1>4
<1>9. q * m <= rest - s
  BY <1>1, <1>4, <1>6, <1>7, <1>8
<1>10. rest - s < (q + 1) * m + 1
  <2>1. ((q + 1) * m + 1) * r = ((q + 1) * m) * r + r
    BY <1>8
  <2>2. (rest - s) * r < ((q + 1) * m + 1) * r
    BY <1>4, <1>6, <1>7, <1>8, <2>1
  <2> QED
    BY <1>8, <1>9, <2>2, Products
<1> QED
  BY <1>2, <1>3, <1>8, <1>9, <1>10 DEF s, m

LEMMA EnoughBody ==
  ASSUME pic \in Pics, Enough
  PROVE  /\ SliceShare \in Nat
         /\ Body(pic.length) = (pic.length - 4 * mSlicesPerPicture) \div 2
         /\ Body(pic.length) \in Nat
         /\ Shared(mSlicesPerPicture, Body(pic.length))
<1> DEFINE N == mSlicesPerPicture
           over == pic.length - 4 * mSlicesPerPicture
<1>1. N \in Nat \ {0} /\ over \in Nat
  BY Sizes DEF Enough
<1>2. Body(pic.length) = over \div 2
  BY <1>1, CDivNat DEF Body, mSliceSizeScalar
<1>3. over \div 2 \in Nat
  <2> HIDE DEF over
  <2> QED
    BY <1>1, DivMod
<1> DEFINE B == Body(pic.length)
           q == B \div N
<1>4. B \in Nat
  BY <1>2, <1>3
<1> HIDE DEF B, N
<1>5. q \in Nat /\ q * N <= B /\ B < q * N + N
  BY <1>1, <1>4, DivMod
<1>6. SliceShare = q
  BY DEF SliceShare, N, B
<1> HIDE DEF q
<1>7. (q + 1) * N = q * N + N /\ q * N \in Nat
  BY <1>1, <1>5
<1> QED
  BY <1>1, <1>2, <1>3, <1>4, <1>5, <1>6, <1>7 DEF Shared, N, B

\* A partial with its share: its sizes, and no division by zero.
LEMMA SharedPartial ==
  ASSUME Types, Enough, NEW n \in Nat \ {0}, NEW body \in Nat, Shared(n, body)
  PROVE  /\ ~Trap(n, body)
         /\ Olength(n, body) \in Nat /\ FragmentHeaders(n, body) \in Nat
         /\ (2 * SliceShare + 4) * n <= Olength(n, body)
         /\ Olength(n, body) <= (2 * SliceShare + 6) * n
<1> DEFINE q == SliceShare
           o == Olength(n, body)
<1>1. q \in Nat
  BY EnoughBody DEF Types
<1>2. o = body * 2 + 4 * n /\ o \in Nat
  BY DEF Olength, mSliceSizeScalar
<1>3. q * n <= body /\ body <= (q + 1) * n
  BY DEF Shared
<1> HIDE DEF q, o
<1>4. /\ (2 * q + 4) * n = 2 * (q * n) + 4 * n
      /\ (2 * q + 6) * n = 2 * ((q + 1) * n) + 4 * n
      /\ q * n \in Nat /\ (q + 1) * n \in Nat
  BY <1>1
<1>5. (2 * q + 4) * n <= o /\ o <= (2 * q + 6) * n
  BY <1>2, <1>3, <1>4
<1> DEFINE mean == MeanSliceSize(n, body)
<1>6. mean = o \div n
  BY <1>2, CDivNat DEF MeanSliceSize, o
<1>7. mean >= 2 * q + 4 /\ mean \in Nat
  <2>1. 2 * q + 4 \in Nat /\ 2 * q + 6 \in Nat
    BY <1>1
  <2>2. o \div n \in Nat
    BY <1>2, DivMod
  <2> QED
    BY <1>2, <1>5, <1>6, <2>1, <2>2, DivBounds
<1>8. mean \in Nat \ {0}
  BY <1>1, <1>7
<1>9. SlicesPerFrag(n, body) \in Nat
  <2>1. pic.fragment_size \in Nat
    BY Sizes DEF Types
  <2>2. CDiv(pic.fragment_size, mean) \in Nat
    BY <1>8, <2>1, CDivNat, DivMod
  <2> QED
    BY <2>2 DEF SlicesPerFrag
<1>10. FragmentHeaders(n, body) \in Nat
  <2> DEFINE spf == SlicesPerFrag(n, body)
  <2>1. CASE spf = 0
    BY <2>1 DEF FragmentHeaders
  <2>2. CASE spf # 0
    <3> DEFINE up == n + spf - 1
    <3>1. spf \in Nat \ {0} /\ up \in Nat
      BY <1>9, <2>2
    <3>2. CDiv(up, spf) \in Nat
      <4> HIDE DEF up, spf
      <4> QED
        BY <3>1, CDivNat, DivMod
    <3> QED
      BY <2>2, <3>2 DEF FragmentHeaders, FRAGMENT_HEADER
  <2> QED
    BY <2>1, <2>2
<1> QED
  BY <1>2, <1>5, <1>8, <1>10 DEF Trap, q, o

\* What NextPartial and ExtraNext take, and what they leave.
LEMMA NextShare ==
  ASSUME Types, Enough, More, Shared(remaining_slices, remaining_length)
  PROVE  /\ n_slices \in Nat \ {0} /\ Share \in Nat
         /\ Shared(n_slices, Share)
         /\ Shared(remaining_slices - n_slices, remaining_length - Share)
<1> DEFINE q == SliceShare
           n == n_slices
           r == remaining_slices
           rest == remaining_length
<1>1. n \in Nat \ {0} /\ r \in Nat /\ n < r /\ q \in Nat /\ rest \in Int
  BY Sizes, EnoughBody DEF Types, More
<1>2. q * r <= rest /\ rest <= (q + 1) * r
  BY DEF Shared
<1>3. Share = CDiv(n * rest, r)
  BY DEF Share
<1>4. \A m \in Nat : CDiv(m, r) = m \div r
  BY <1>1, CDivNat
<1> HIDE DEF q, n, r, rest
<1>5. rest \in Nat
  <2>1. q * r \in Nat
    BY <1>1
  <2> QED
    BY <1>1, <1>2, <2>1
<1>6. Share = (n * rest) \div r
  <2>1. n * rest \in Nat
    BY <1>1, <1>5
  <2> QED
    BY <1>3, <1>4, <2>1
<1>7. /\ Share \in Nat
      /\ q * n <= Share /\ Share <= (q + 1) * n
      /\ q * (r - n) <= rest - Share /\ rest - Share <= (q + 1) * (r - n)
  BY <1>1, <1>2, <1>5, <1>6, ShareBounds
<1> QED
  BY <1>1, <1>7 DEF Shared, q, n, r, rest

LEMMA SharedNat ==
  ASSUME Types, Enough, NEW n \in Nat, NEW body \in Int, Shared(n, body)
  PROVE  body \in Nat
<1>1. SliceShare \in Nat
  BY EnoughBody DEF Types
<1>2. SliceShare * n \in Nat
  BY <1>1
<1> QED
  BY <1>2 DEF Shared

LEMMA InitBytesInv == Init => BytesInv
<1> SUFFICES ASSUME Init, Enough PROVE BytesInv
  BY DEF BytesInv
<1>1. pic \in Pics
  BY DEF Init, Pics
<1>2. SharedRest
  BY <1>1, EnoughBody DEF Init, SharedRest
<1>3. Parts = 0
  BY DEF Init, Parts
<1> QED
  BY <1>2, <1>3 DEF Init, BytesInv, SharedParts, Chained

(* One partial more, of n slices with their share for a body.              *)
LEMMA BytesOfPartial ==
  ASSUME SlicesInv, SlicesInv', BytesInv, Enough, pc = "layout", pic' = pic,
         NEW n \in Nat \ {0}, NEW body \in Nat, Shared(n, body),
         Partial(n, body) \in PartialSet,
         encoderData' = Append(encoderData, Partial(n, body)),
         pc' = "layout" => odata' = odata + Olength(n, body) + FragmentHeaders(n, body)
  PROVE  SharedParts' /\ Chained'
<1> DEFINE p == Partial(n, body)
<1>1. Types /\ encoderData \in Seq(PartialSet) /\ p \in PartialSet
  BY DEF SlicesInv, Types
<1>2. /\ Parts \in Nat /\ Parts' = Parts + 1
      /\ encoderData'[Parts + 1] = p
      /\ \A k \in 1 .. Parts : encoderData'[k] = encoderData[k]
  BY <1>1, Appended
<1>3. SliceShare' = SliceShare /\ SliceShare \in Nat
  BY <1>1, EnoughBody DEF SliceShare, Body, mSlicesPerPicture, Types
<1>4. /\ Olength(n, body) \in Nat /\ FragmentHeaders(n, body) \in Nat
      /\ (2 * SliceShare + 4) * n <= Olength(n, body)
      /\ Olength(n, body) <= (2 * SliceShare + 6) * n
  BY <1>1, SharedPartial
<1>5. /\ p.n_slices = n /\ p.olength = Olength(n, body) /\ p.odata = odata
      /\ p.full_length = Olength(n, body) + FragmentHeaders(n, body)
  BY DEF Partial
<1>6. SharedParts /\ Chained
  BY DEF BytesInv
<1> HIDE DEF p
<1>7. \A k \in 1 .. Parts + 1 : k \in 1 .. Parts \/ k = Parts + 1
  BY <1>2
<1>8. SharedParts'
  <2> SUFFICES ASSUME NEW k \in 1 .. Parts + 1
               PROVE  /\ encoderData'[k].n_slices >= 1
                      /\ (2 * SliceShare + 4) * encoderData'[k].n_slices <= encoderData'[k].olength
                      /\ encoderData'[k].olength <= (2 * SliceShare + 6) * encoderData'[k].n_slices
                      /\ encoderData'[k].full_length >= encoderData'[k].olength
    BY <1>2, <1>3 DEF SharedParts
  <2>1. CASE k \in 1 .. Parts
    BY <1>2, <1>6, <2>1 DEF SharedParts
  <2>2. CASE k = Parts + 1
    <3>1. encoderData'[k] = p
      BY <1>2, <2>2
    <3>2. p.n_slices >= 1 /\ p.full_length >= p.olength
      BY <1>4, <1>5
    <3> QED
      BY <1>4, <1>5, <3>1, <3>2
  <2> QED
    BY <1>7, <2>1, <2>2
<1>9. Chained'
  <2>1. ASSUME NEW k \in 1 .. Parts + 1
        PROVE  encoderData'[k].odata =
                 (IF k = 1 THEN 0 ELSE encoderData'[k-1].odata + encoderData'[k-1].full_length)
    <3>1. k # 1 => k - 1 \in 1 .. Parts
      BY <1>2
    <3>2. CASE k \in 1 .. Parts
      BY <1>2, <1>6, <3>1, <3>2 DEF Chained
    <3>3. CASE k = Parts + 1
      <4>1. encoderData'[k].odata = odata
        BY <1>2, <1>5, <3>3
      <4>2. k - 1 = Parts /\ (k = 1 <=> Parts = 0)
        BY <1>2, <3>3
      <4>3. k # 1 => encoderData'[k-1] = encoderData[Parts]
        BY <1>2, <3>1, <4>2
      <4> QED
        BY <1>6, <4>1, <4>2, <4>3 DEF Chained
    <3> QED
      BY <1>7, <3>2, <3>3
  <2>2. pc' = "layout" => odata' = p.odata + p.full_length
    BY <1>1, <1>4, <1>5 DEF Types
  <2>3. Parts' # 0 /\ encoderData'[Parts'] = p
    BY <1>2
  <2> QED
    BY <1>2, <2>1, <2>2, <2>3 DEF Chained
<1> QED
  BY <1>8, <1>9

LEMMA BytesStep ==
  ASSUME SlicesInv, SlicesInv', BytesInv, [Next]_vars
  PROVE  BytesInv'
<1>1. pic' = pic
  BY DEF Next, DivideByZero, NextPartial, LastPartial, Link, Linked, MeasureStarved,
         Measure, ExtraNext, ExtraLast, Done, vars
<1>2. /\ mSlicesPerPicture' = mSlicesPerPicture /\ (Enough' <=> Enough)
      /\ SliceShare' = SliceShare
  BY <1>1 DEF mSlicesPerPicture, Enough, SliceShare, Body
<1> SUFFICES ASSUME Enough
             PROVE  SharedRest' /\ SharedParts' /\ Chained' /\ pc' # "trapped"
  BY <1>2 DEF BytesInv
<1>3. /\ Types /\ SharedRest /\ SharedParts /\ Chained /\ pc # "trapped"
  BY DEF BytesInv, SlicesInv
<1>5. CASE NextPartial
  <2>1. /\ n_slices \in Nat \ {0} /\ Share \in Nat /\ Shared(n_slices, Share)
        /\ Shared(remaining_slices - n_slices, remaining_length - Share)
    BY <1>3, <1>5, NextShare DEF SharedRest, NextPartial
  <2>2. SharedRest'
    BY <1>2, <1>5, <2>1 DEF SharedRest, Shared, NextPartial
  <2>3. Partial(n_slices, Share) \in PartialSet
    BY <1>3, <1>5, NextPartialTypes
  <2>4. SharedParts' /\ Chained'
    BY <1>1, <1>5, <2>1, <2>3, BytesOfPartial DEF NextPartial
  <2> QED
    BY <1>5, <2>2, <2>4 DEF NextPartial
<1>6. CASE LastPartial
  <2>1. remaining_slices \in Nat \ {0} /\ Partial(remaining_slices, remaining_length) \in PartialSet
    BY <1>6, LastPartialSlices
  <2>2. Shared(remaining_slices, remaining_length) /\ pc = "layout"
    BY <1>3, <1>6 DEF SharedRest, LastPartial
  <2>3. remaining_length \in Nat
    BY <1>3, <2>1, <2>2, SharedNat DEF Types
  <2>4. pc' \in {"link", "measure"}
    BY <1>6 DEF LastPartial
  <2>5. encoderData' = Append(encoderData, Partial(remaining_slices, remaining_length))
    BY <1>6 DEF LastPartial
  <2>6. SharedParts' /\ Chained'
    BY <1>1, <2>1, <2>2, <2>3, <2>4, <2>5, BytesOfPartial
  <2> QED
    BY <2>4, <2>6 DEF SharedRest
<1> DEFINE Later == Link \/ Linked \/ MeasureStarved \/ Measure \/ ExtraNext \/ ExtraLast
<1>7. CASE Later
  <2>1. /\ pc' # "layout" /\ encoderData' = encoderData /\ pc # "layout"
    BY <1>7, LaterTypes
  <2>2. Parts' = Parts
    BY <2>1 DEF Parts
  <2>3. SharedParts' /\ Chained'
    BY <1>2, <1>3, <2>1, <2>2 DEF SharedParts, Chained
  <2>4. pc' # "trapped"
    BY <1>3, <1>7 DEF Link, Linked, MeasureStarved, Measure, ExtraNext, ExtraLast
  <2>5. ASSUME pc' = "extra" PROVE Shared(remaining_slices, remaining_length)'
    <3>1. CASE Measure
      <4>1. Shared(mSlicesPerPicture, Body(pic.length))
        BY <1>3, EnoughBody DEF Types
      <4> QED
        BY <1>2, <3>1, <4>1 DEF Shared, Measure
    <3>2. CASE ExtraNext
      <4>1. Shared(remaining_slices - n_slices, remaining_length - Share)
        BY <1>3, <3>2, NextShare DEF SharedRest, ExtraNext
      <4> QED
        BY <1>2, <3>2, <4>1 DEF Shared, ExtraNext
    <3> QED
      BY <1>7, <2>5, <3>1, <3>2 DEF Link, Linked, MeasureStarved, ExtraLast
  <2>6. SharedRest'
    BY <2>1, <2>5 DEF SharedRest
  <2> QED
    BY <2>3, <2>4, <2>6
<1>8. CASE DivideByZero
  <2> DEFINE n == IF More THEN n_slices ELSE remaining_slices
             body == IF More THEN Share ELSE remaining_length
  <2>1. Shared(remaining_slices, remaining_length) /\ remaining_slices \in Nat \ {0}
    BY <1>3, <1>8 DEF SharedRest, DivideByZero, SlicesInv, NextSlices, SomeLeft, Types
  <2>2. n \in Nat \ {0} /\ body \in Nat /\ Shared(n, body)
    <3>1. CASE More
      BY <1>3, <2>1, <3>1, NextShare
    <3>2. CASE ~More
      BY <1>3, <2>1, <3>2, SharedNat DEF Types
    <3> QED
      BY <3>1, <3>2
  <2>3. Trap(n, body)
    BY <1>8 DEF DivideByZero
  <2> HIDE DEF n, body
  <2> QED
    BY <1>3, <2>2, <2>3, SharedPartial
<1>9. CASE UNCHANGED vars
  <2>1. Parts' = Parts
    BY <1>9 DEF vars, Parts
  <2> QED
    BY <1>2, <1>3, <1>9, <2>1 DEF vars, SharedRest, Shared, SharedParts, Chained
<1> QED
  BY <1>5, <1>6, <1>7, <1>8, <1>9 DEF Next, Done

LEMMA LayoutBytes == Spec => []BytesInv
<1>1. Init => BytesInv
  BY InitBytesInv
<1>2. SlicesInv /\ SlicesInv' /\ BytesInv /\ [Next]_vars => BytesInv'
  BY BytesStep
<1> QED
  BY <1>1, <1>2, LayoutSlices, PTL DEF Spec

LEMMA PartTypes ==
  ASSUME SlicesInv, BytesInv, Enough, NEW k \in 1 .. Parts
  PROVE  /\ SliceShare \in Nat
         /\ encoderData[k].n_slices \in Nat \ {0} /\ encoderData[k].olength \in Int
         /\ (2 * SliceShare + 4) * encoderData[k].n_slices <= encoderData[k].olength
         /\ encoderData[k].olength <= (2 * SliceShare + 6) * encoderData[k].n_slices
<1>1. encoderData[k] \in PartialSet
  BY ElementOfSeq, LenProperties DEF SlicesInv, Types, Parts
<1>2. SliceShare \in Nat
  BY EnoughBody DEF SlicesInv, Types
<1> QED
  BY <1>1, <1>2 DEF BytesInv, SharedParts, PartialSet

(* The pieces of the output buffer that encodeData hands to the Encode     *)
(* jobs do not overlap, and each has room for the four bytes of its every  *)
(* slice, for every picture and fragment size.                             *)
THEOREM LayoutOutputShared == Spec => []OutputShared
<1>1. SlicesInv /\ BytesInv => OutputShared
  <2> SUFFICES ASSUME SlicesInv, BytesInv, Enough, NEW k \in 1 .. Parts
               PROVE  encoderData[k].olength >= 4 * encoderData[k].n_slices
    BY DEF OutputShared, BytesInv, Chained, SharedParts
  <2> DEFINE n == encoderData[k].n_slices
             o == encoderData[k].olength
             q == SliceShare
  <2>1. q \in Nat /\ n \in Nat /\ o \in Int /\ (2 * q + 4) * n <= o
    BY PartTypes
  <2> HIDE DEF n, o, q
  <2>2. (2 * q + 4) * n = 2 * (q * n) + 4 * n /\ q * n \in Nat
    BY <2>1
  <2>3. o >= 4 * n
    BY <2>1, <2>2
  <2> QED
    BY <2>3 DEF n, o
<1> QED
  BY <1>1, LayoutSlices, LayoutBytes, PTL

(* No partial is starved: encodeData shares the length out again before    *)
(* each partial, among the slices that remain, and so the remainders of    *)
(* the divisions never pile up on the last one.                            *)
THEOREM LayoutEvenShares == Spec => []EvenShares
<1>1. SlicesInv /\ BytesInv => EvenShares
  <2> SUFFICES ASSUME SlicesInv, BytesInv, Enough, NEW k \in 1 .. Parts, NEW m \in 1 .. Parts
               PROVE  encoderData[k].olength \div encoderData[k].n_slices
                        <= encoderData[m].olength \div encoderData[m].n_slices + mSliceSizeScalar + 1
    BY DEF EvenShares
  <2>1. ASSUME NEW j \in 1 .. Parts
        PROVE  LET mean == encoderData[j].olength \div encoderData[j].n_slices
               IN  mean \in Nat /\ 2 * SliceShare + 4 <= mean /\ mean <= 2 * SliceShare + 6
    <3> DEFINE n == encoderData[j].n_slices
               o == encoderData[j].olength
               l == 2 * SliceShare + 4
               h == 2 * SliceShare + 6
    <3>1. n \in Nat \ {0} /\ o \in Int /\ l * n <= o /\ o <= h * n
      BY PartTypes
    <3>2. l \in Nat /\ h \in Nat
      BY PartTypes
    <3> HIDE DEF n, o, l, h
    <3>3. l * n \in Nat
      BY <3>1, <3>2
    <3>4. o \in Nat
      BY <3>1, <3>3
    <3>5. o \div n \in Nat /\ l <= o \div n /\ o \div n <= h
      BY <3>1, <3>2, <3>4, DivMod, DivBounds
    <3> QED
      BY <3>5 DEF n, o, l, h
  <2> DEFINE mk == encoderData[k].olength \div encoderData[k].n_slices
             mm == encoderData[m].olength \div encoderData[m].n_slices
             q  == SliceShare
  <2>2. /\ mk \in Nat /\ mm \in Nat /\ q \in Nat
        /\ mk <= 2 * q + 6 /\ 2 * q + 4 <= mm
    BY <2>1, PartTypes
  <2> HIDE DEF mk, mm, q
  <2>3. mk <= mm + mSliceSizeScalar + 1
    BY <2>2 DEF mSliceSizeScalar
  <2> QED
    BY <2>3 DEF mk, mm
<1> QED
  BY <1>1, LayoutSlices, LayoutBytes, PTL

(* encodeData and getExtraLengthForFragmentHeaders divide by the mean size *)
(* of a slice: it is zero only if the caller's length is below four bytes  *)
(* a slice.                                                                *)
THEOREM LayoutTrapsOnlyStarved == Spec => []TrapsOnlyStarved
<1>1. BytesInv => TrapsOnlyStarved
  BY DEF BytesInv, TrapsOnlyStarved
<1> QED
  BY <1>1, LayoutBytes, PTL
-----------------------------------------------------------------------------
(* 3. The two loops.  Before partial k there remain SlotsAt(k) slices; with *)
(* `rest` units between them, both loops give it the same slices, body and  *)
(* headers.  Some R gives the rest before each partial: the layout has gone *)
(* through it, and getExtraLengthForFragmentHeaders goes through it again.  *)
SlotsAt(k) == mSlicesPerPicture - (k - 1) * n_slices
CountAt(k) == IF SlotsAt(k) > n_slices THEN n_slices ELSE SlotsAt(k)
BodyAt(rest, k) ==
  IF SlotsAt(k) > n_slices THEN CDiv(n_slices * rest, SlotsAt(k)) ELSE rest

\* What the partials before k take, their headers left out.
BytesBefore(rest, k) == 2 * (Body(pic.length) - rest) + 4 * ((k - 1) * n_slices)

ReplayAt(R, k) ==
  LET body == BodyAt(R[k], k)
  IN  /\ encoderData[k].n_slices = CountAt(k)
      /\ encoderData[k].olength = 2 * body + 4 * CountAt(k)
      /\ encoderData[k].full_length =
           encoderData[k].olength + FragmentHeaders(CountAt(k), body)
      /\ R[k+1] = R[k] - body
      /\ pic.fragment_size = 0 =>
           /\ encoderData[k].odata = BytesBefore(R[k], k)
           /\ FragmentHeaders(CountAt(k), body) = 0

Replay(R) ==
  /\ R[1] = Body(pic.length)
  /\ \A k \in 1 .. Parts : ReplayAt(R, k)
  /\ pc = "layout" => remaining_length = R[Parts + 1]

Measured(R) ==
  /\ pc \in {"layout", "link", "measure"} => extra = 0
  /\ pc = "extra" =>
       \E e \in 1 .. Parts :
         /\ remaining_slices = SlotsAt(e) /\ remaining_length = R[e]
         /\ extra = encoderData[e].odata - BytesBefore(R[e], e)
  /\ pc = "done" =>
       extra = encoderData[Parts].odata + encoderData[Parts].full_length
               - (2 * Body(pic.length) + 4 * mSlicesPerPicture)

ReplayInv == Enough => \E R \in [Nat -> Int] : Replay(R) /\ Measured(R)

LEMMA Slots ==
  ASSUME Types, NEW k \in Nat
  PROVE  /\ n_slices \in Nat \ {0} /\ mSlicesPerPicture \in Nat \ {0}
         /\ SlotsAt(k) \in Int /\ SlotsAt(k + 1) = SlotsAt(k) - n_slices
         /\ (k - 1) * n_slices \in Int
         /\ ((k + 1) - 1) * n_slices = (k - 1) * n_slices + n_slices
         /\ SlotsAt(1) = mSlicesPerPicture
<1> DEFINE n == n_slices
           N == mSlicesPerPicture
<1>1. n \in Nat \ {0} /\ N \in Nat \ {0}
  BY Sizes DEF Types
<1>2. /\ SlotsAt(k) = N - (k - 1) * n /\ SlotsAt(k + 1) = N - ((k + 1) - 1) * n
      /\ SlotsAt(1) = N - (1 - 1) * n
  BY DEF SlotsAt
<1> HIDE DEF n, N
<1>3. (k - 1) * n \in Int /\ ((k + 1) - 1) * n = (k - 1) * n + n /\ (1 - 1) * n = 0
  BY <1>1
<1> QED
  BY <1>1, <1>2, <1>3 DEF n, N

LEMMA NothingBefore ==
  ASSUME Types, Enough
  PROVE  BytesBefore(Body(pic.length), 1) = 0
<1> DEFINE B == Body(pic.length)
           n == n_slices
<1>1. B \in Int
  BY EnoughBody DEF Types
<1>2. n \in Int
  BY Sizes DEF Types
<1>3. BytesBefore(B, 1) = 2 * (B - B) + 4 * ((1 - 1) * n)
  BY DEF BytesBefore
<1> HIDE DEF B, n
<1>4. (1 - 1) * n = 0 /\ B - B = 0
  BY <1>1, <1>2
<1>5. BytesBefore(B, 1) = 0
  BY <1>3, <1>4
<1> QED
  BY <1>5 DEF B

\* What Replay says of depends on the picture and the table only.
LEMMA SamePicture ==
  ASSUME pic' = pic
  PROVE  /\ (Enough' <=> Enough) /\ mSlicesPerPicture' = mSlicesPerPicture
         /\ n_slices' = n_slices /\ Body(pic.length)' = Body(pic.length)
         /\ \A k : SlotsAt(k)' = SlotsAt(k) /\ CountAt(k)' = CountAt(k)
         /\ \A r, k : BodyAt(r, k)' = BodyAt(r, k) /\ BytesBefore(r, k)' = BytesBefore(r, k)
         /\ \A n, b : FragmentHeaders(n, b)' = FragmentHeaders(n, b)
<1>1. mSlicesPerPicture' = mSlicesPerPicture /\ n_slices' = n_slices
  BY DEF mSlicesPerPicture, n_slices
<1>2. (Enough' <=> Enough) /\ Body(pic.length)' = Body(pic.length)
  BY <1>1 DEF Enough, Body
<1>3. \A k : SlotsAt(k)' = SlotsAt(k)
  BY <1>1 DEF SlotsAt
<1>4. /\ \A k : CountAt(k)' = CountAt(k)
      /\ \A r, k : BodyAt(r, k)' = BodyAt(r, k)
  BY <1>1, <1>3 DEF CountAt, BodyAt
<1>5. \A r, k : BytesBefore(r, k)' = BytesBefore(r, k)
  BY <1>1, <1>2 DEF BytesBefore
<1>6. \A n, b : FragmentHeaders(n, b)' = FragmentHeaders(n, b)
  BY DEF FragmentHeaders, SlicesPerFrag, MeanSliceSize, Olength
<1> QED
  BY <1>1, <1>2, <1>3, <1>4, <1>5, <1>6

LEMMA SameReplay ==
  ASSUME NEW R \in [Nat -> Int], Replay(R), UNCHANGED <<pic, encoderData>>, pc' # "layout"
  PROVE  Replay(R)'
<1>1. Parts' = Parts
  BY DEF Parts
<1> QED
  BY <1>1, SamePicture DEF Replay, ReplayAt

LEMMA NoFragments ==
  ASSUME Types, pic.fragment_size = 0, NEW n \in Nat \ {0}, NEW body \in Int, ~Trap(n, body)
  PROVE  FragmentHeaders(n, body) = 0
<1> DEFINE mean == MeanSliceSize(n, body)
<1>1. mean \in Int \ {0}
  <2>1. Olength(n, body) \in Int
    BY DEF Olength, mSliceSizeScalar
  <2> QED
    BY <2>1, CDivInt DEF MeanSliceSize, Trap
<1> HIDE DEF mean
<1>2. Abs(mean) \in Nat \ {0} /\ Abs(0) = 0
  BY <1>1 DEF Abs
<1>3. 0 \div Abs(mean) = 0
  BY <1>2
<1>4. CDiv(0, mean) = 0
  BY <1>2, <1>3 DEF CDiv
<1>5. SlicesPerFrag(n, body) = 0
  BY <1>4 DEF SlicesPerFrag, mean
<1> QED
  BY <1>5 DEF FragmentHeaders

(* The layout: one partial more.                                           *)
LEMMA ReplayOfPartial ==
  ASSUME SlicesInv, SlicesInv', BytesInv, ReplayInv, Enough, pc = "layout", pic' = pic,
         NEW n \in Nat \ {0}, NEW body \in Nat, ~Trap(n, body),
         Partial(n, body) \in PartialSet,
         n = CountAt(Parts + 1), body = BodyAt(remaining_length, Parts + 1),
         encoderData' = Append(encoderData, Partial(n, body)), extra' = extra,
         pc' \in {"layout", "link", "measure"},
         pc' = "layout" => remaining_length' = remaining_length - body
  PROVE  ReplayInv'
<1>1. Types /\ encoderData \in Seq(PartialSet) /\ Chained
  BY DEF SlicesInv, Types, BytesInv
<1>2. /\ Parts \in Nat /\ Parts' = Parts + 1
      /\ encoderData'[Parts + 1] = Partial(n, body)
      /\ \A k \in 1 .. Parts : encoderData'[k] = encoderData[k]
  BY <1>1, Appended
<1>3. PICK R \in [Nat -> Int] : Replay(R) /\ Measured(R)
  BY DEF ReplayInv
<1>4. PICK S \in [Nat -> Int] : S = [R EXCEPT ![Parts + 2] = remaining_length - body]
  <2>1. Parts + 2 \in Nat /\ remaining_length - body \in Int
    BY <1>1, <1>2 DEF Types
  <2>2. [R EXCEPT ![Parts + 2] = remaining_length - body] \in [Nat -> Int]
    BY <1>3, <2>1
  <2> QED
    BY <2>2
<1>5. /\ S[Parts + 2] = remaining_length - body
      /\ \A k \in 1 .. Parts + 1 : S[k] = R[k]
  BY <1>2, <1>3, <1>4
<1>6. R[Parts + 1] = remaining_length /\ extra = 0
  BY <1>3 DEF Replay, Measured
<1> DEFINE p == Partial(n, body)
<1>7. /\ p.n_slices = n /\ p.odata = odata
      /\ p.olength = 2 * body + 4 * n
      /\ p.full_length = p.olength + FragmentHeaders(n, body)
  BY DEF Partial, Olength, mSliceSizeScalar
<1>8. pic.fragment_size = 0 => FragmentHeaders(n, body) = 0
  <2> SUFFICES ASSUME pic.fragment_size = 0 PROVE FragmentHeaders(n, body) = 0
    OBVIOUS
  <2> HIDE DEF p
  <2>1. body \in Int
    OBVIOUS
  <2> QED
    BY <1>1, <2>1, NoFragments
<1>9. pic.fragment_size = 0 => odata = BytesBefore(remaining_length, Parts + 1)
  <2> SUFFICES ASSUME pic.fragment_size = 0 PROVE odata = BytesBefore(remaining_length, Parts + 1)
    OBVIOUS
  <2>1. CASE Parts = 0
    <3>1. odata = 0 /\ remaining_length = Body(pic.length)
      BY <1>1, <1>3, <1>6, <2>1 DEF Chained, Replay
    <3>2. Parts + 1 = 1
      BY <2>1
    <3> QED
      BY <1>1, <3>1, <3>2, NothingBefore
  <2>2. CASE Parts # 0
    <3> DEFINE c == CountAt(Parts)
               b == BodyAt(R[Parts], Parts)
               d == encoderData[Parts]
               B == Body(pic.length)
               x == (Parts - 1) * n_slices
               y == ((Parts + 1) - 1) * n_slices
    <3>1. Parts \in 1 .. Parts
      <4>1. Parts \in Nat /\ Parts # 0
        BY <1>2, <2>2
      <4> HIDE DEF c, b, d, B, x, y
      <4> QED
        BY <4>1
    <3>2. /\ odata = d.odata + d.full_length
          /\ d.n_slices = c /\ d.n_slices = n_slices
          /\ d.olength = 2 * b + 4 * c /\ d.full_length = d.olength + 0
          /\ remaining_length = R[Parts] - b
          /\ d.odata = 2 * (B - R[Parts]) + 4 * x
      <4>1. odata = d.odata + d.full_length
        BY <1>1, <2>2 DEF Chained
      <4>2. d.n_slices = n_slices
        BY <3>1 DEF SlicesInv, NextSlices
      <4>3. ReplayAt(R, Parts)
        BY <1>3, <3>1 DEF Replay
      <4>4. d.odata = BytesBefore(R[Parts], Parts) /\ remaining_length = R[Parts] - b
        BY <1>6, <4>3 DEF ReplayAt
      <4>5. /\ d.n_slices = c /\ d.olength = 2 * b + 4 * c
            /\ d.full_length = d.olength + 0
        BY <4>3 DEF ReplayAt
      <4> QED
        BY <4>1, <4>2, <4>4, <4>5 DEF BytesBefore
    <3>3. /\ n_slices \in Nat /\ B \in Int /\ x \in Int /\ y = x + n_slices
          /\ R[Parts] \in Int /\ d.olength \in Int
      <4>1. d \in PartialSet
        BY <1>1, <3>1, ElementOfSeq, LenProperties DEF Parts
      <4>2. d.olength \in Int
        BY <4>1 DEF PartialSet
      <4>3. B \in Int
        BY <1>1, EnoughBody DEF Types
      <4>4. R[Parts] \in Int
        BY <1>2, <1>3
      <4>5. n_slices \in Nat /\ x \in Int /\ y = x + n_slices
        BY <1>1, <1>2, Slots
      <4> QED
        BY <4>2, <4>3, <4>4, <4>5
    <3>4. b \in Int
      <4>1. CASE SlotsAt(Parts) > n_slices
        <5>1. SlotsAt(Parts) \in Int
          BY <1>1, <1>2, Slots
        <5>2. n_slices * R[Parts] \in Int
          <6>1. n_slices \in Int /\ R[Parts] \in Int
            BY <3>3
          <6> QED
            BY <6>1, OneMore
        <5>3. SlotsAt(Parts) # 0
          BY <3>3, <4>1, <5>1
        <5> QED
          BY <4>1, <5>1, <5>2, <5>3, CDivInt DEF BodyAt
      <4>2. CASE ~(SlotsAt(Parts) > n_slices)
        BY <3>3, <4>2 DEF BodyAt
      <4> QED
        BY <4>1, <4>2
    <3>5. BytesBefore(remaining_length, Parts + 1) = 2 * (B - remaining_length) + 4 * y
      BY DEF BytesBefore
    <3> DEFINE r == R[Parts]
    <3>6. /\ odata = (2 * (B - r) + 4 * x) + (2 * b + 4 * n_slices)
          /\ remaining_length = r - b
          /\ r \in Int /\ b \in Int /\ B \in Int /\ x \in Int /\ n_slices \in Int
      <4> HIDE DEF c, b, d, B, x, y
      <4>1. c = n_slices /\ n_slices \in Int /\ b \in Int /\ B \in Int /\ x \in Int /\ r \in Int
        BY <3>2, <3>3, <3>4
      <4>2. d.full_length = 2 * b + 4 * n_slices
        BY <3>2, <4>1
      <4> QED
        BY <3>2, <4>1, <4>2
    <3> HIDE DEF c, b, d, B, x, y, r
    <3>7. 2 * (B - remaining_length) + 4 * y = (2 * (B - r) + 4 * x) + (2 * b + 4 * n_slices)
      BY <3>3, <3>6
    <3> QED
      BY <3>5, <3>6, <3>7
  <2> QED
    BY <2>1, <2>2
<1> HIDE DEF p
<1>10. Replay(S)'
  <2>1. ASSUME NEW k \in 1 .. Parts + 1
        PROVE  ReplayAt(S, k)'
    <3>1. CASE k \in 1 .. Parts
      <4>0. k \in 1 .. Parts + 1 /\ k + 1 \in 1 .. Parts + 1
        BY <1>2, <3>1
      <4>1. S[k] = R[k] /\ S[k+1] = R[k+1] /\ encoderData'[k] = encoderData[k]
        BY <1>2, <1>5, <3>1, <4>0
      <4>2. ReplayAt(R, k)
        BY <1>3, <3>1 DEF Replay
      <4> QED
        BY <4>1, <4>2, SamePicture DEF ReplayAt
    <3>2. CASE k = Parts + 1
      <4>0. k + 1 = Parts + 2 /\ k \in 1 .. Parts + 1
        BY <1>2, <3>2
      <4>1. /\ encoderData'[k] = p /\ S[k] = remaining_length
            /\ S[k+1] = remaining_length - body /\ CountAt(k) = n /\ BodyAt(S[k], k) = body
        BY <1>2, <1>5, <1>6, <3>2, <4>0 DEF p
      <4>2. pic.fragment_size = 0 => p.odata = BytesBefore(S[k], k)
        BY <1>7, <1>9, <3>2, <4>1
      <4>3. /\ CountAt(k)' = n /\ BodyAt(S[k], k)' = body
            /\ BytesBefore(S[k], k)' = BytesBefore(S[k], k)
            /\ FragmentHeaders(n, body)' = FragmentHeaders(n, body)
        BY <4>1, SamePicture
      <4>4. FragmentHeaders(CountAt(k), BodyAt(S[k], k))' = FragmentHeaders(n, body)
        BY <4>1, <4>3, SamePicture
      <4> QED
        BY <1>7, <1>8, <4>1, <4>2, <4>3, <4>4 DEF ReplayAt
    <3>3. k \in 1 .. Parts \/ k = Parts + 1
      BY <1>2
    <3> QED
      BY <3>1, <3>2, <3>3
  <2>2. S[1] = Body(pic.length)
    BY <1>2, <1>3, <1>5 DEF Replay
  <2>3. pc' = "layout" => remaining_length' = S[Parts' + 1]
    <3>1. Parts' + 1 = Parts + 2
      BY <1>2
    <3> QED
      BY <1>5, <3>1
  <2> QED
    BY <1>2, <2>1, <2>2, <2>3, SamePicture DEF Replay
<1>11. Measured(S)'
  BY <1>6 DEF Measured
<1> QED
  BY <1>10, <1>11 DEF ReplayInv

\* Of the partials laid out, the last one only took all that remained.
LEMMA LastSlots ==
  ASSUME SlicesInv, LaidOut, NEW R \in [Nat -> Int], Replay(R)
  PROVE  /\ Parts \in Nat \ {0} /\ SlotsAt(Parts) <= n_slices
         /\ CountAt(Parts) = SlotsAt(Parts) /\ BodyAt(R[Parts], Parts) = R[Parts]
         /\ \A e \in 1 .. Parts : e # Parts => SlotsAt(e) > n_slices
<1> DEFINE n == n_slices
           N == mSlicesPerPicture
           start == (Parts - 1) * n
<1>1. Types /\ Parts \in Nat \ {0}
  BY LenProperties DEF SlicesInv, Types, AllSlices, Parts
<1>2. n \in Nat \ {0} /\ N \in Nat \ {0} /\ SlotsAt(Parts) \in Int /\ start \in Int
  BY <1>1, Slots
<1>3. /\ start + CountAt(Parts) = N /\ start < N /\ SlotsAt(Parts) = N - start
  BY <1>1 DEF SlicesInv, AllSlices, PlacedSlices, Replay, ReplayAt, SlotsAt
<1>4. CountAt(Parts) = IF SlotsAt(Parts) > n THEN n ELSE SlotsAt(Parts)
  BY DEF CountAt
<1>5. ASSUME NEW e \in 1 .. Parts, e # Parts
      PROVE  SlotsAt(e) > n
  <2> DEFINE before == (e - 1) * n
             next == e * n
  <2>1. e \in Nat /\ e <= Parts - 1 /\ Parts - 1 \in Nat
    BY <1>1, <1>5
  <2>2. next <= start
    BY <1>2, <2>1, Products
  <2>3. SlotsAt(e) = N - before /\ before + n = next /\ before \in Int /\ next \in Int
    <3>1. before + n = next /\ before \in Int /\ next \in Int
      BY <1>2, <2>1, OneMore
    <3> QED
      BY <3>1 DEF SlotsAt
  <2> HIDE DEF before, next, start, n, N
  <2> QED
    BY <1>2, <1>3, <2>2, <2>3
<1> HIDE DEF start, n, N
<1>6. SlotsAt(Parts) <= n /\ CountAt(Parts) = SlotsAt(Parts)
  BY <1>2, <1>3, <1>4
<1>7. BodyAt(R[Parts], Parts) = R[Parts]
  BY <1>2, <1>6 DEF BodyAt, n
<1> QED
  BY <1>1, <1>5, <1>6, <1>7 DEF n

\* What the picture takes, beyond the bytes its slices share.
LEMMA LayoutTotal ==
  ASSUME SlicesInv, BytesInv, Enough, LaidOut, NEW R \in [Nat -> Int], Replay(R)
  PROVE  /\ encoderData[Parts].odata \in Int /\ BytesBefore(R[Parts], Parts) \in Int
         /\ FragmentHeaders(SlotsAt(Parts), R[Parts]) \in Int
         /\ encoderData[Parts].odata + encoderData[Parts].full_length
              - (2 * Body(pic.length) + 4 * mSlicesPerPicture)
            = (encoderData[Parts].odata - BytesBefore(R[Parts], Parts))
              + FragmentHeaders(SlotsAt(Parts), R[Parts])
<1> DEFINE n == n_slices
           N == mSlicesPerPicture
           B == Body(pic.length)
           r == R[Parts]
           d == encoderData[Parts]
           h == FragmentHeaders(SlotsAt(Parts), r)
           x == (Parts - 1) * n
<1>1. Types /\ Parts \in 1 .. Parts /\ Parts \in Nat
  <2>1. Parts \in Nat \ {0}
    BY LastSlots
  <2> QED
    BY <2>1 DEF SlicesInv
<1>2. N \in Int /\ x \in Int /\ B \in Int /\ r \in Int
  <2>1. N \in Int /\ x \in Int
    BY <1>1, Slots
  <2>2. B \in Int
    BY <1>1, EnoughBody DEF Types
  <2> QED
    BY <1>1, <2>1, <2>2
<1>3. d \in PartialSet
  BY <1>1, ElementOfSeq, LenProperties DEF Types, Parts
<1>4. /\ d.olength = 2 * r + 4 * SlotsAt(Parts) /\ d.full_length = d.olength + h
      /\ SlotsAt(Parts) = N - x /\ BytesBefore(r, Parts) = 2 * (B - r) + 4 * x
  BY <1>1, LastSlots DEF Replay, ReplayAt, SlotsAt, BytesBefore
<1>5. h \in Int
  <2>1. SlotsAt(Parts) \in Nat \ {0} /\ R[Parts] \in Nat /\ Shared(SlotsAt(Parts), R[Parts])
    <3>1. SlotsAt(Parts) \in Nat \ {0}
      <4>1. CountAt(Parts) = d.n_slices /\ d.n_slices >= 1 /\ d.n_slices \in Int
        BY <1>1, <1>3 DEF Replay, ReplayAt, BytesInv, SharedParts, PartialSet
      <4> QED
        BY <4>1, LastSlots
    <3> DEFINE s == SlotsAt(Parts)
               q == SliceShare
    <3>2. q \in Nat /\ (2 * q + 4) * s <= d.olength /\ d.olength <= (2 * q + 6) * s
      <4>1. d.n_slices = s
        BY <1>1, LastSlots DEF Replay, ReplayAt
      <4> QED
        BY <1>1, <4>1, PartTypes
    <3>3. s \in Nat
      BY <3>1
    <3>4. d.olength = 2 * r + 4 * s
      BY <1>4
    <3> HIDE DEF s, q, r, d
    <3>5. /\ (2 * q + 4) * s = 2 * (q * s) + 4 * s
          /\ (2 * q + 6) * s = 2 * ((q + 1) * s) + 4 * s
          /\ q * s \in Nat /\ (q + 1) * s \in Nat
      BY <3>2, <3>3
    <3>6. q * s <= r /\ r <= (q + 1) * s /\ r \in Nat
      BY <1>2, <3>2, <3>3, <3>4, <3>5
    <3> QED
      BY <3>1, <3>6 DEF Shared, s, q, r
  <2> QED
    BY <1>1, <2>1, SharedPartial
<1>6. d.odata \in Int
  BY <1>3 DEF PartialSet
<1> DEFINE o == d.odata
           f == d.full_length
           bb == BytesBefore(r, Parts)
<1>7. f = 2 * r + 4 * (N - x) + h /\ bb = 2 * (B - r) + 4 * x /\ o \in Int
  <2> HIDE DEF n, N, B, r, h, x
  <2> QED
    BY <1>4, <1>6
<1> HIDE DEF n, N, B, r, d, h, x, o, f, bb
<1>8. o + f - (2 * B + 4 * N) = (o - bb) + h /\ bb \in Int
  BY <1>2, <1>5, <1>7
<1> QED
  BY <1>5, <1>7, <1>8 DEF N, B, r, d, h, o, f, bb

LEMMA InitReplayInv == Init => ReplayInv
<1> SUFFICES ASSUME Init, Enough PROVE ReplayInv
  BY DEF ReplayInv
<1>1. pic \in Pics /\ Parts = 0
  BY DEF Init, Pics, Parts
<1>2. Body(pic.length) \in Int
  BY <1>1, EnoughBody
<1> DEFINE R == [k \in Nat |-> Body(pic.length)]
<1>3. R \in [Nat -> Int]
  BY <1>2
<1>4. Replay(R)
  BY <1>1 DEF Init, Replay
<1>5. Measured(R)
  BY DEF Init, Measured
<1> QED
  BY <1>3, <1>4, <1>5 DEF ReplayInv

(* The second loop.                                                        *)
LEMMA MeasureReplay ==
  ASSUME SlicesInv, BytesInv, ReplayInv, Enough, Measure
  PROVE  ReplayInv'
<1>1. PICK R \in [Nat -> Int] : Replay(R) /\ Measured(R)
  BY DEF ReplayInv
<1>2. Types /\ LaidOut /\ extra = 0 /\ UNCHANGED <<pic, encoderData, extra>> /\ Parts' = Parts
  BY <1>1 DEF SlicesInv, LaidOut, Measure, Measured, Parts
<1>3. Replay(R)'
  BY <1>1, <1>2, SameReplay DEF Measure
<1>4. Parts \in Nat \ {0} /\ 1 \in 1 .. Parts /\ Parts \in 1 .. Parts
  <2>1. Parts \in Nat \ {0}
    BY <1>1, <1>2, LastSlots
  <2> QED
    BY <2>1
<1>5. CASE pic.fragment_size = 0
  <2>1. /\ encoderData[Parts].odata = BytesBefore(R[Parts], Parts)
        /\ FragmentHeaders(SlotsAt(Parts), R[Parts]) = 0
    BY <1>1, <1>2, <1>4, <1>5, LastSlots DEF Replay, ReplayAt
  <2>2. extra = encoderData[Parts].odata + encoderData[Parts].full_length
                - (2 * Body(pic.length) + 4 * mSlicesPerPicture)
    BY <1>1, <1>2, <2>1, LayoutTotal
  <2>3. Measured(R)'
    BY <1>2, <1>5, <2>2, SamePicture DEF Measured, Measure
  <2> QED
    BY <1>1, <1>3, <2>3 DEF ReplayInv
<1>6. CASE pic.fragment_size # 0
  <2>1. SlotsAt(1) = mSlicesPerPicture /\ R[1] = Body(pic.length)
    BY <1>1, <1>2, Slots DEF Replay
  <2>2. encoderData[1].odata = 0
    BY <1>4 DEF BytesInv, Chained
  <2>3. BytesBefore(R[1], 1) = 0
    BY <1>2, <2>1, NothingBefore
  <2>4. Measured(R)'
    <3>1. /\ pc' = "extra" /\ remaining_slices' = SlotsAt(1) /\ remaining_length' = R[1]
          /\ extra' = encoderData[1].odata - BytesBefore(R[1], 1)
      BY <1>2, <1>6, <2>1, <2>2, <2>3 DEF Measure
    <3>2. \E e \in 1 .. Parts' :
            /\ remaining_slices' = SlotsAt(e)' /\ remaining_length' = R[e]
            /\ extra' = encoderData'[e].odata - BytesBefore(R[e], e)'
      BY <1>2, <1>4, <3>1, SamePicture
    <3> QED
      BY <3>1, <3>2 DEF Measured
  <2> QED
    BY <1>1, <1>3, <2>4 DEF ReplayInv
<1> QED
  BY <1>5, <1>6

LEMMA ExtraNextReplay ==
  ASSUME SlicesInv, BytesInv, ReplayInv, Enough, ExtraNext
  PROVE  ReplayInv'
<1>1. PICK R \in [Nat -> Int] : Replay(R) /\ Measured(R)
  BY DEF ReplayInv
<1>2. /\ Types /\ LaidOut /\ UNCHANGED <<pic, encoderData, pc>> /\ Parts' = Parts
      /\ pc = "extra"
  BY DEF SlicesInv, LaidOut, ExtraNext, Parts
<1>3. PICK e \in 1 .. Parts :
        /\ remaining_slices = SlotsAt(e) /\ remaining_length = R[e]
        /\ extra = encoderData[e].odata - BytesBefore(R[e], e)
  BY <1>1, <1>2 DEF Measured
<1> DEFINE n == n_slices
           s == Share
           B == Body(pic.length)
           r == R[e]
           d == encoderData[e]
           h == FragmentHeaders(n_slices, Share)
           x == (e - 1) * n_slices
           y == ((e + 1) - 1) * n_slices
<1>4. SlotsAt(e) > n_slices /\ s = CDiv(n_slices * R[e], SlotsAt(e))
  BY <1>3 DEF ExtraNext, More, Share
<1>5. Parts \in Nat \ {0} /\ SlotsAt(Parts) <= n_slices /\ n_slices \in Nat \ {0}
  BY <1>1, <1>2, LastSlots, Sizes DEF Types
<1>6. e # Parts
  <2>1. SlotsAt(Parts) \in Int
    BY <1>2, <1>5, Slots
  <2> QED
    BY <1>4, <1>5, <2>1
<1>7. e \in Nat /\ e + 1 \in 1 .. Parts /\ (e + 1) - 1 = e /\ e + 1 # 1
  BY <1>3, <1>5, <1>6
<1>8. /\ d.olength = 2 * s + 4 * n /\ d.full_length = d.olength + h /\ R[e+1] = r - s
  <2>1. CountAt(e) = n_slices /\ BodyAt(R[e], e) = s
    BY <1>4 DEF CountAt, BodyAt
  <2>2. ReplayAt(R, e)
    BY <1>1, <1>3 DEF Replay
  <2> QED
    BY <2>1, <2>2 DEF ReplayAt
<1>9. encoderData[e+1].odata = d.odata + d.full_length
  BY <1>7 DEF BytesInv, Chained
<1>10. /\ SlotsAt(e + 1) = SlotsAt(e) - n /\ x \in Int /\ y = x + n
  BY <1>2, <1>7, Slots
<1>11. /\ BytesBefore(R[e], e) = 2 * (B - r) + 4 * x
       /\ BytesBefore(R[e+1], e + 1) = 2 * (B - R[e+1]) + 4 * y
  BY DEF BytesBefore
<1>12. s \in Int /\ B \in Int /\ r \in Int /\ n \in Int /\ h \in Int /\ d.odata \in Int
  <2>1. s \in Nat /\ Shared(n_slices, Share)
    BY <1>2, NextShare DEF BytesInv, SharedRest, ExtraNext
  <2>2. h \in Int
    BY <1>2, <1>5, <2>1, SharedPartial
  <2>3. d \in PartialSet
    BY <1>2, <1>3, ElementOfSeq, LenProperties DEF Types, Parts
  <2>4. d.odata \in Int
    BY <2>3 DEF PartialSet
  <2>5. B \in Int
    BY <1>2, EnoughBody DEF Types
  <2> QED
    BY <1>1, <1>3, <1>5, <1>7, <2>1, <2>2, <2>4, <2>5
<1>13. extra' = encoderData[e+1].odata - BytesBefore(R[e+1], e + 1)
  <2>1. extra' = extra + h
    BY DEF ExtraNext
  <2> DEFINE o == d.odata
  <2>2. o \in Int /\ extra' = (o - (2 * (B - r) + 4 * x)) + h
    BY <1>3, <1>11, <1>12, <2>1
  <2>3. d.full_length = 2 * s + 4 * n + h
    BY <1>8
  <2>4. encoderData[e+1].odata = o + (2 * s + 4 * n + h)
    BY <1>9, <2>3
  <2>5. BytesBefore(R[e+1], e + 1) = 2 * (B - (r - s)) + 4 * (x + n)
    BY <1>8, <1>10, <1>11
  <2> HIDE DEF n, s, B, r, d, h, x, y, o
  <2> QED
    BY <1>10, <1>12, <2>2, <2>4, <2>5
<1>14. remaining_slices' = SlotsAt(e + 1) /\ remaining_length' = R[e+1]
  BY <1>3, <1>8, <1>10 DEF ExtraNext
<1>15. Measured(R)'
  <2> HIDE DEF n, s, B, r, d, h, x, y
  <2>1. \E k \in 1 .. Parts' :
          /\ remaining_slices' = SlotsAt(k)' /\ remaining_length' = R[k]
          /\ extra' = encoderData'[k].odata - BytesBefore(R[k], k)'
    <3>1. e + 1 \in 1 .. Parts'
      BY <1>2, <1>7
    <3>2. /\ SlotsAt(e + 1)' = SlotsAt(e + 1)
          /\ BytesBefore(R[e+1], e + 1)' = BytesBefore(R[e+1], e + 1)
      BY <1>2, SamePicture
    <3>3. /\ remaining_slices' = SlotsAt(e + 1)' /\ remaining_length' = R[e+1]
          /\ extra' = encoderData'[e+1].odata - BytesBefore(R[e+1], e + 1)'
      BY <1>2, <1>13, <1>14, <3>2
    <3> QED
      BY <3>1, <3>3
  <2> QED
    BY <1>2, <2>1 DEF Measured
<1>16. Replay(R)'
  BY <1>1, <1>2, SameReplay
<1> QED
  BY <1>1, <1>15, <1>16 DEF ReplayInv

LEMMA ExtraLastReplay ==
  ASSUME SlicesInv, BytesInv, ReplayInv, Enough, ExtraLast
  PROVE  ReplayInv'
<1>1. PICK R \in [Nat -> Int] : Replay(R) /\ Measured(R)
  BY DEF ReplayInv
<1>2. /\ Types /\ LaidOut /\ UNCHANGED <<pic, encoderData>> /\ Parts' = Parts
      /\ pc = "extra" /\ pc' = "done"
  BY DEF SlicesInv, LaidOut, ExtraLast, Parts
<1>3. PICK e \in 1 .. Parts :
        /\ remaining_slices = SlotsAt(e) /\ remaining_length = R[e]
        /\ extra = encoderData[e].odata - BytesBefore(R[e], e)
  BY <1>1, <1>2 DEF Measured
<1>4. e = Parts
  <2>1. ~(SlotsAt(e) > n_slices)
    BY <1>3 DEF ExtraLast, More
  <2> QED
    BY <1>1, <1>2, <2>1, LastSlots
<1>5. extra' = extra + FragmentHeaders(SlotsAt(Parts), R[Parts])
  BY <1>3, <1>4 DEF ExtraLast
<1>6. extra' = encoderData[Parts].odata + encoderData[Parts].full_length
                 - (2 * Body(pic.length) + 4 * mSlicesPerPicture)
  BY <1>1, <1>2, <1>3, <1>4, <1>5, LayoutTotal
<1>7. Measured(R)'
  BY <1>2, <1>6, SamePicture DEF Measured
<1>8. Replay(R)'
  BY <1>1, <1>2, SameReplay
<1> QED
  BY <1>1, <1>7, <1>8 DEF ReplayInv

LEMMA ReplayStep ==
  ASSUME SlicesInv, SlicesInv', BytesInv, BytesInv', ReplayInv, [Next]_vars
  PROVE  ReplayInv'
<1>1. pic' = pic
  BY DEF Next, DivideByZero, NextPartial, LastPartial, Link, Linked, MeasureStarved,
         Measure, ExtraNext, ExtraLast, Done, vars
<1> SUFFICES ASSUME Enough PROVE ReplayInv'
  BY <1>1, SamePicture DEF ReplayInv
<1>2. Types /\ SharedRest
  BY DEF SlicesInv, BytesInv
<1>3. ASSUME pc = "layout"
      PROVE  /\ SlotsAt(Parts + 1) = remaining_slices
             /\ More => n_slices = CountAt(Parts + 1)
                        /\ Share = BodyAt(remaining_length, Parts + 1)
             /\ ~More => remaining_slices = CountAt(Parts + 1)
                         /\ remaining_length = BodyAt(remaining_length, Parts + 1)
  <2>1. Parts \in Nat /\ (Parts + 1) - 1 = Parts
    BY <1>2, LenProperties DEF Types, Parts
  <2>2. remaining_slices = mSlicesPerPicture - Parts * n_slices
    BY <1>3 DEF SlicesInv, NextSlices
  <2>3. SlotsAt(Parts + 1) = remaining_slices
    BY <2>1, <2>2 DEF SlotsAt
  <2> QED
    BY <2>3 DEF CountAt, BodyAt, More, Share
<1>4. CASE NextPartial
  <2>1. /\ n_slices \in Nat \ {0} /\ Share \in Nat
        /\ Partial(n_slices, Share) \in PartialSet
    BY <1>2, <1>4, NextShare, NextPartialTypes DEF SharedRest, NextPartial
  <2>2. /\ pc = "layout" /\ pc' = "layout" /\ More /\ ~Trap(n_slices, Share)
        /\ encoderData' = Append(encoderData, Partial(n_slices, Share))
        /\ extra' = extra /\ remaining_length' = remaining_length - Share
    BY <1>4 DEF NextPartial
  <2>3. n_slices = CountAt(Parts + 1) /\ Share = BodyAt(remaining_length, Parts + 1)
    BY <1>3, <2>2
  <2> QED
    BY <1>1, <2>1, <2>2, <2>3, ReplayOfPartial
<1>5. CASE LastPartial
  <2>1. /\ remaining_slices \in Nat \ {0}
        /\ Partial(remaining_slices, remaining_length) \in PartialSet
    BY <1>5, LastPartialSlices
  <2>2. /\ pc = "layout" /\ pc' \in {"link", "measure"} /\ ~More
        /\ ~Trap(remaining_slices, remaining_length)
        /\ encoderData' = Append(encoderData, Partial(remaining_slices, remaining_length))
        /\ extra' = extra
    BY <1>5 DEF LastPartial
  <2>3. remaining_length \in Nat
    BY <1>2, <2>1, <2>2, SharedNat DEF SharedRest, Types
  <2>4. /\ remaining_slices = CountAt(Parts + 1)
        /\ remaining_length = BodyAt(remaining_length, Parts + 1)
    BY <1>3, <2>2
  <2> QED
    BY <1>1, <2>1, <2>2, <2>3, <2>4, ReplayOfPartial
<1>6. CASE Measure
  BY <1>6, MeasureReplay
<1>7. CASE ExtraNext
  BY <1>7, ExtraNextReplay
<1>8. CASE ExtraLast
  BY <1>8, ExtraLastReplay
<1>9. CASE Link \/ Linked
  <2>1. PICK R \in [Nat -> Int] : Replay(R) /\ Measured(R)
    BY DEF ReplayInv
  <2>2. /\ UNCHANGED <<pic, encoderData, extra>> /\ pc = "link"
        /\ pc' \in {"link", "measure", "crashed"}
    BY <1>9 DEF Link, Linked
  <2>3. Replay(R)'
    BY <2>1, <2>2, SameReplay
  <2>4. Measured(R)'
    BY <2>1, <2>2 DEF Measured
  <2> QED
    BY <2>1, <2>3, <2>4 DEF ReplayInv
<1>10. CASE DivideByZero
  BY <1>1, <1>10, SamePicture DEF DivideByZero, BytesInv
<1>11. CASE MeasureStarved
  BY <1>11 DEF MeasureStarved
<1>12. CASE UNCHANGED vars
  <2>1. PICK R \in [Nat -> Int] : Replay(R) /\ Measured(R)
    BY DEF ReplayInv
  <2>2. Parts' = Parts /\ pc' = pc /\ extra' = extra /\ encoderData' = encoderData
        /\ remaining_slices' = remaining_slices /\ remaining_length' = remaining_length
    BY <1>12 DEF vars, Parts
  <2>3. Replay(R)'
    BY <1>1, <2>1, <2>2, SamePicture DEF Replay, ReplayAt
  <2>4. Measured(R)'
    BY <1>1, <2>1, <2>2, SamePicture DEF Measured
  <2> QED
    BY <2>1, <2>3, <2>4 DEF ReplayInv
<1> QED
  BY <1>4, <1>5, <1>6, <1>7, <1>8, <1>9, <1>10, <1>11, <1>12 DEF Next, Done

LEMMA LayoutReplay == Spec => []ReplayInv
<1>1. Init => ReplayInv
  BY InitReplayInv
<1>2. SlicesInv /\ SlicesInv' /\ BytesInv /\ BytesInv' /\ ReplayInv /\ [Next]_vars => ReplayInv'
  BY ReplayStep
<1> QED
  BY <1>1, <1>2, LayoutSlices, LayoutBytes, PTL DEF Spec

(* What getExtraLengthForFragmentHeaders makes of a loop of its own is     *)
(* what the loop of encodeData has laid out: length and what it returns    *)
(* are the end of the last partial, but for the byte that is lost when an  *)
(* odd length is divided by mSliceSizeScalar.                              *)
THEOREM LayoutExtraAgrees == Spec => []ExtraAgrees
<1>1. SlicesInv /\ BytesInv /\ ReplayInv => ExtraAgrees
  <2> SUFFICES ASSUME SlicesInv, BytesInv, ReplayInv, Enough, pc = "done"
               PROVE  ExtraAgrees
    BY DEF ExtraAgrees
  <2>1. PICK R \in [Nat -> Int] : Replay(R) /\ Measured(R)
    BY DEF ReplayInv
  <2> DEFINE o == encoderData[Parts].odata
             f == encoderData[Parts].full_length
             B == Body(pic.length)
             N == mSlicesPerPicture
             over == pic.length - 4 * mSlicesPerPicture
  <2>2. extra = o + f - (2 * B + 4 * N)
    BY <2>1 DEF Measured
  <2>3. N \in Nat /\ pic.length \in Nat /\ over \in Nat /\ B = over \div 2
    <3>1. pic \in Pics
      BY DEF SlicesInv, Types
    <3>2. N \in Nat /\ pic.length \in Nat
      BY <3>1, Sizes
    <3>3. over \in Nat
      BY <3>2 DEF Enough
    <3>4. B = over \div 2
      BY <3>1, EnoughBody
    <3> QED
      BY <3>2, <3>3, <3>4
  <2>4. o \in Int /\ f \in Int
    <3>1. Parts \in Nat \ {0} /\ Types
      BY <2>1, LastSlots DEF LaidOut, SlicesInv
    <3>2. encoderData[Parts] \in PartialSet
      BY <3>1, ElementOfSeq, LenProperties DEF Types, Parts
    <3> QED
      BY <3>2 DEF PartialSet
  <2> DEFINE l == pic.length
             m == over % 2
  <2>5. over = l - 4 * N
    OBVIOUS
  <2>6. m \in Nat /\ B \in Nat /\ over = 2 * B + m
    <3> HIDE DEF over, B
    <3> QED
      BY <2>3, Advance
  <2>7. l + extra - (o + f) = m
    <3> HIDE DEF o, f, B, N, over, l, m
    <3>1. l \in Nat /\ N \in Nat /\ o \in Int /\ f \in Int /\ extra = o + f - (2 * B + 4 * N)
      BY <2>2, <2>3, <2>4 DEF l
    <3> QED
      BY <2>5, <2>6, <3>1
  <2> QED
    BY <2>7 DEF ExtraAgrees, mSliceSizeScalar
<1> QED
  BY <1>1, LayoutSlices, LayoutBytes, LayoutReplay, PTL
=============================================================================
