----------------------------- MODULE SliceProofs -----------------------------
(***************************************************************************)
(* A slice, from the choice of its quantiser to its bytes in the stream.   *)
(* The search measures only what the tables hold and chooses well, for     *)
(* every MAX_QI and every content; what is then written decodes back, and  *)
(* takes the bytes that were measured, for every shape of slice.           *)
(***************************************************************************)
EXTENDS QuantiserSearch, SliceCoding, SequenceTheorems, WellFoundedInduction, TLAPS

SearchType == /\ QUAL \in {"full", "half", "quarter", "eighth"}
           /\ qi_bl \in 0..MAX_QI /\ fits \in Nat /\ qindex \in 0..MAX_QI
           /\ start \in qi_bl..MAX_QI
           /\ qi_cur \in Int /\ qi_floor \in Int /\ qi_ceil \in Int
           /\ phase \in {"climb", "halve", "chosen"}

\* While it climbs, the step before the one about to be measured did not fit.
Climbing == phase = "climb" =>
    /\ qi_cur >= start /\ qi_cur <= MAX_QI + 7
    /\ qi_cur = start \/ (qi_cur - QI_FIRST_INC >= start /\ qi_cur - QI_FIRST_INC < fits)

\* qi_ceil fits, unless nothing does, and qi_floor does not, or is as low as
\* the search goes.
Bracket(ceil, floor) ==
    /\ floor <= ceil /\ qi_bl <= floor /\ ceil <= MAX_QI + 7
    /\ fits <= MAX_QI => ceil >= fits
    /\ floor < fits \/ floor <= Larger(qi_bl, start - QI_FIRST_INC)

Halving == phase = "halve" =>
    /\ Halves
    /\ Bracket(qi_ceil, qi_floor)
    /\ qi_floor <= qi_cur /\ qi_cur <= qi_ceil

SearchInv == SearchType /\ Climbing /\ Halving /\ ChoosesWell

----------------------------------------------------------------------------
\* Steps and proximities of the qualities, as facts about numbers.
LEMMA Steps ==
    ASSUME QUAL \in {"full", "half", "quarter", "eighth"}
    PROVE  /\ QI_FIRST_INC \in {4, 8} /\ DESIRED_PROXIMITY \in {1, 2, 4, 8}
           /\ Halves => QI_FIRST_INC = 4 /\ DESIRED_PROXIMITY \in {1, 2}
           /\ ~Halves => DESIRED_PROXIMITY = QI_FIRST_INC
  BY DEF QI_FIRST_INC, DESIRED_PROXIMITY, Halves

\* The middle of two numbers lies between them.
LEMMA Middle ==
    ASSUME NEW a \in Int, NEW b \in Int, b <= a
    PROVE  Between(a, b) \in Int /\ b <= Between(a, b) /\ Between(a, b) <= a
  BY DEF Between

\* What is chosen from a bracket of the halving search that is narrow enough.
LEMMA HalvedWell ==
    ASSUME NEW top \in Int, NEW bottom \in Int, NEW bl \in Nat, NEW fit \in Nat,
           NEW max \in Nat, NEW low \in Int, NEW near \in Nat,
           bl <= max, bottom <= top, bl <= bottom, top - bottom <= near, near >= 1,
           fit <= max => top >= fit,
           bottom < fit \/ bottom <= low,
           NEW q \in Int, q = (IF top < max THEN top ELSE max)
    PROVE  /\ q \in 0..max /\ q >= bl
           /\ fit <= max => q >= fit
           /\ \A p \in Int : p >= low + 1 /\ p <= max /\ p >= fit => q < p + near
  OBVIOUS

LEMMA InitInv == ASSUME SearchAssumption, Init PROVE SearchInv
  BY SMTT(30) DEF SearchAssumption, Init, SearchInv, SearchType, Climbing, Halving, ChoosesWell

----------------------------------------------------------------------------
\* Both ways to narrow the bracket keep the invariant.
LEMMA Narrowed ==
    ASSUME SearchAssumption, SearchType, Halves, NEW top \in Int, NEW bottom \in Int,
           Bracket(top, bottom), Narrow(top, bottom),
           qi_ceil' = top, qi_floor' = bottom, qi_cur' \in Int,
           phase' = "halve" => bottom <= qi_cur' /\ qi_cur' <= top,
           UNCHANGED <<QUAL, content, start>>
    PROVE  SearchInv'
<1>1. /\ MAX_QI \in Nat /\ qi_bl \in Nat /\ qi_bl <= MAX_QI /\ fits \in Nat /\ start \in Int
      /\ QI_FIRST_INC = 4 /\ DESIRED_PROXIMITY \in {1, 2}
  BY Steps DEF SearchAssumption, SearchType
<1>2. UNCHANGED <<QUAL, qi_bl, fits, start, QI_FIRST_INC, DESIRED_PROXIMITY, Halves>>
  BY DEF content, QI_FIRST_INC, DESIRED_PROXIMITY, Halves
<1>3. Larger(qi_bl, top) = top /\ Clamp(top) = (IF top < MAX_QI THEN top ELSE MAX_QI)
  BY <1>1 DEF Bracket, Larger, Smaller, Clamp
<1>4. CASE Close(top, bottom)
  <2>1. phase' = "chosen" /\ qindex' = (IF top < MAX_QI THEN top ELSE MAX_QI)
    BY <1>3, <1>4 DEF Narrow
  <2> DEFINE low == Larger(qi_bl, start - QI_FIRST_INC)
  <2>2. low \in Int /\ top - bottom <= DESIRED_PROXIMITY /\ qindex' \in Int
    BY <1>1, <1>4, <2>1 DEF Close, Larger
  <2>3. /\ bottom <= top /\ qi_bl <= bottom /\ (fits <= MAX_QI => top >= fits)
        /\ bottom < fits \/ bottom <= low
    BY DEF Bracket
  <2> HIDE DEF low
  <2>4. /\ qindex' \in 0..MAX_QI /\ qindex' >= qi_bl /\ (fits <= MAX_QI => qindex' >= fits)
        /\ \A p \in Int : p >= low + 1 /\ p <= MAX_QI /\ p >= fits => qindex' < p + DESIRED_PROXIMITY
    BY <1>1, <2>1, <2>2, <2>3, HalvedWell
  <2>5. ChoosesWell'
    <3>1. \A q \in (low + 1)..MAX_QI : q >= fits => qindex' < q + DESIRED_PROXIMITY
      BY <2>4, <2>2, <1>1
    <3> QED  BY <1>2, <2>4, <3>1 DEF ChoosesWell, low
  <2>6. SearchType'
    BY <1>2, <2>1, <2>4 DEF SearchType
  <2> QED  BY <2>1, <2>5, <2>6 DEF SearchInv, Climbing, Halving
<1>5. CASE ~Close(top, bottom)
  <2>1. phase' = "halve" /\ qindex' = qindex
    BY <1>5 DEF Narrow
  <2>2. SearchType'
    BY <1>2, <2>1 DEF SearchType
  <2>3. Halving'
    BY <1>2, <2>1 DEF Halving, Bracket, Larger
  <2> QED  BY <2>1, <2>2, <2>3 DEF SearchInv, Climbing, ChoosesWell
<1> QED  BY <1>4, <1>5

LEMMA ClimbInv == ASSUME SearchAssumption, SearchInv, Climb PROVE SearchInv'
<1>1. /\ MAX_QI \in Nat /\ qi_bl \in Nat /\ qi_bl <= MAX_QI /\ fits \in Nat /\ start \in Int
      /\ qi_cur \in Int /\ start >= qi_bl /\ start <= MAX_QI /\ SearchType /\ phase = "climb"
  BY DEF SearchAssumption, SearchInv, SearchType, Climb
<1>2. /\ qi_cur >= start /\ qi_cur <= MAX_QI + 7
      /\ qi_cur = start \/ (qi_cur - QI_FIRST_INC >= start /\ qi_cur - QI_FIRST_INC < fits)
  BY <1>1 DEF SearchInv, Climbing
<1>3. QI_FIRST_INC \in {4, 8}
  BY <1>1, Steps DEF SearchType
<1>4. UNCHANGED <<QUAL, qi_bl, fits, start, QI_FIRST_INC, DESIRED_PROXIMITY, Halves>>
  BY DEF Climb, content, QI_FIRST_INC, DESIRED_PROXIMITY, Halves
<1>5. CASE qi_cur < MAX_QI /\ qi_cur < fits
  <2>1. qi_cur' = qi_cur + QI_FIRST_INC /\ UNCHANGED <<qindex, qi_floor, qi_ceil, phase>>
    BY <1>5 DEF Climb
  <2>2. SearchType'
    BY <1>1, <1>3, <1>4, <2>1 DEF SearchType
  <2>3. /\ qi_cur' >= start /\ qi_cur' <= MAX_QI + 7
        /\ qi_cur' - QI_FIRST_INC >= start /\ qi_cur' - QI_FIRST_INC < fits
    BY <1>1, <1>2, <1>3, <1>5, <2>1, SMT
  <2>4. Climbing'
    BY <1>4, <2>3 DEF Climbing
  <2> QED  BY <1>1, <2>1, <2>2, <2>4 DEF SearchInv, Halving, ChoosesWell
<1>6. CASE ~(qi_cur < MAX_QI /\ qi_cur < fits)
  <2> DEFINE below == qi_cur - QI_FIRST_INC
             floor == Larger(below, qi_bl)
  <2>1. /\ qi_ceil' = qi_cur /\ qi_floor' = floor /\ qi_cur' = Between(qi_cur, below)
        /\ Narrow(qi_cur, floor)
    BY <1>6 DEF Climb
  <2>2. below \in Int /\ below <= qi_cur /\ floor \in Int /\ floor <= qi_cur /\ qi_bl <= floor
    BY <1>1, <1>2, <1>3 DEF Larger
  <2>3. qi_cur' \in Int /\ qi_cur' <= qi_cur
    BY <1>1, <2>1, <2>2, Middle
  <2>4. CASE Halves
    <3>1. QI_FIRST_INC = 4 /\ DESIRED_PROXIMITY \in {1, 2}
      BY <1>1, <2>4, Steps DEF SearchType
    <3>2. Bracket(qi_cur, floor)
      <4>1. fits <= MAX_QI => qi_cur >= fits
        BY <1>1, <1>6
      <4>2. floor < fits \/ floor <= Larger(qi_bl, start - QI_FIRST_INC)
        BY <1>1, <1>2, <1>3 DEF Larger
      <4> QED  BY <1>1, <1>2, <2>2, <4>1, <4>2 DEF Bracket
    <3>3. ~Close(qi_cur, floor) => floor <= qi_cur'
      BY <1>1, <2>1, <2>4, <3>1, SMTT(30) DEF Close, Between, Larger
    <3>4. phase' = "halve" => ~Close(qi_cur, floor)
      BY <2>1 DEF Narrow
    <3> HIDE DEF floor
    <3>5. UNCHANGED <<QUAL, content, start>>
      BY DEF Climb
    <3> QED  BY <1>1, <2>1, <2>2, <2>3, <2>4, <3>2, <3>3, <3>4, <3>5, Narrowed
  <2>5. CASE ~Halves
    <3>1. DESIRED_PROXIMITY = QI_FIRST_INC
      BY <1>1, <2>5, Steps DEF SearchType
    <3>2. phase' = "chosen" /\ qindex' = Clamp(Larger(qi_bl, qi_cur))
      BY <2>1, <2>5 DEF Narrow, Close
    <3>3. qindex' = (IF qi_cur < MAX_QI THEN qi_cur ELSE MAX_QI)
      BY <1>1, <1>2, <3>2 DEF Clamp, Larger, Smaller
    <3>4. /\ qindex' \in 0..MAX_QI /\ qindex' >= qi_bl /\ (fits <= MAX_QI => qindex' >= fits)
          /\ \A q \in start..MAX_QI : q >= fits => qindex' < q + QI_FIRST_INC
      BY <1>1, <1>2, <1>3, <1>6, <3>3
    <3>5. ChoosesWell'
      BY <1>4, <2>5, <3>1, <3>4 DEF ChoosesWell
    <3>6. SearchType'
      BY <1>1, <1>4, <2>1, <2>2, <2>3, <3>2, <3>4 DEF SearchType
    <3> QED  BY <3>2, <3>5, <3>6 DEF SearchInv, Climbing, Halving
  <2> QED  BY <2>4, <2>5
<1> QED  BY <1>5, <1>6

LEMMA HalveInv == ASSUME SearchAssumption, SearchInv, Halve PROVE SearchInv'
<1>1. /\ MAX_QI \in Nat /\ qi_bl \in Nat /\ fits \in Nat /\ start \in Int
      /\ qi_cur \in Int /\ qi_floor \in Int /\ qi_ceil \in Int
      /\ SearchType /\ Halves /\ Bracket(qi_ceil, qi_floor)
      /\ qi_floor <= qi_cur /\ qi_cur <= qi_ceil
  BY DEF SearchAssumption, SearchInv, SearchType, Halving, Halve
<1> DEFINE bottom == IF qi_cur < fits THEN qi_cur ELSE qi_floor
           top == IF qi_cur < fits THEN qi_ceil ELSE qi_cur
<1>2. bottom \in Int /\ top \in Int /\ bottom <= top
  BY <1>1
<1>3. Bracket(top, bottom)
  BY <1>1 DEF Bracket
<1>4. qi_floor' = bottom /\ qi_ceil' = top /\ qi_cur' = Between(top, bottom) /\ Narrow(top, bottom)
  BY DEF Halve
<1>5. UNCHANGED <<QUAL, content, start>>
  BY DEF Halve
<1> HIDE DEF bottom, top
<1>6. qi_cur' \in Int /\ bottom <= qi_cur' /\ qi_cur' <= top
  BY <1>2, <1>4, Middle
<1> QED  BY <1>1, <1>2, <1>3, <1>4, <1>5, <1>6, Narrowed

LEMMA NextPictureInv == ASSUME SearchAssumption, SearchInv, NextPicture PROVE SearchInv'
<1>1. /\ qi_bl' \in 0..MAX_QI /\ fits' \in Nat
  BY DEF SearchAssumption, SearchInv, SearchType, NextPicture, content
<1>2. /\ start' = Larger(qi_bl', qindex) /\ qi_cur' = start' /\ qi_floor' = qi_bl'
      /\ qi_ceil' = MAX_QI /\ phase' = "climb" /\ UNCHANGED <<QUAL, qindex>>
  BY DEF NextPicture, Begin
<1>3. MAX_QI \in Nat /\ qindex \in 0..MAX_QI /\ QUAL \in {"full", "half", "quarter", "eighth"}
  BY DEF SearchAssumption, SearchInv, SearchType
<1>4. start' \in qi_bl'..MAX_QI
  BY <1>1, <1>2, <1>3 DEF Larger
<1>5. SearchType'
  BY <1>1, <1>2, <1>3, <1>4 DEF SearchType
<1>6. Climbing'
  BY <1>1, <1>2, <1>3, <1>4 DEF Climbing
<1> QED  BY <1>2, <1>5, <1>6 DEF SearchInv, Halving, ChoosesWell

\* The invariant of the search: the climb is past what it has measured, and
\* qi_floor and qi_ceil enclose the least quantiser that fits.
THEOREM SearchInvariant == ASSUME SearchAssumption PROVE Spec => []SearchInv
<1>1. Init => SearchInv
  BY InitInv
<1>2. SearchInv /\ [Next]_vars => SearchInv'
  <2>1. CASE UNCHANGED vars
    BY <2>1, SMTT(30) DEF vars, content, search, SearchInv, SearchType, Climbing, Halving, Bracket,
       ChoosesWell, QI_FIRST_INC, DESIRED_PROXIMITY, Halves, Larger
  <2> QED  BY <2>1, ClimbInv, HalveInv, NextPictureInv DEF Next
<1> QED  BY <1>1, <1>2, PTL DEF Spec

\* choose_quantiser measures with no quantiser below qi_bl (whose quotients
\* the table of word lengths does not hold) and none beyond MAX_QI + 7.
THEOREM SearchMeasuresInTable == ASSUME SearchAssumption PROVE Spec => []MeasuresInTable
<1>1. SearchInv => MeasuresInTable
  BY DEF SearchAssumption, SearchInv, SearchType, Climbing, Halving, Bracket, MeasuresInTable
<1> QED  BY <1>1, SearchInvariant, PTL

\* choose_quantiser finds a quantiser that fits if there is one, and one near
\* the finest within its reach.
THEOREM SearchChoosesWell == ASSUME SearchAssumption PROVE Spec => []ChoosesWell
<1>1. SearchInv => ChoosesWell
  BY DEF SearchInv
<1> QED  BY <1>1, SearchInvariant, PTL

----------------------------------------------------------------------------
(* Sequences put together from words, and induction over their lengths.    *)

\* A set of numbers has a least element: the library's well-founded order.
LEMMA LeastUnder ==
  ASSUME NEW R, IsWellFoundedOn(R, Nat), NEW T, T \subseteq Nat, T # {}
  PROVE  \E top \in T : \A m \in T : <<m, top>> \notin R
BY WFMin

LEMMA LeastNumber ==
  ASSUME NEW T, T \subseteq Nat, T # {}
  PROVE  \E top \in T : \A m \in T : top <= m
<1> DEFINE R == OpToRel(<, Nat)
<1>1. IsWellFoundedOn(R, Nat)
  BY NatLessThanWellFounded
<1> HIDE DEF R
<1>2. PICK top \in T : \A m \in T : <<m, top>> \notin R
  BY <1>1, LeastUnder
<1>3. \A m \in T : ~(m < top)
  BY <1>2 DEF R, OpToRel
<1> QED
  BY <1>3

\* Induction over the numbers, for a set: there is no least one outside it.
LEMMA AllNumbers ==
  ASSUME NEW S, 0 \in S, \A top \in Nat : top \in S => top + 1 \in S
  PROVE  Nat \subseteq S
<1> SUFFICES ASSUME NEW b \in Nat, b \notin S PROVE FALSE
  OBVIOUS
<1> DEFINE T == {top \in Nat : top \notin S}
<1>1. PICK top \in T : \A m \in T : top <= m
  BY LeastNumber
<1>2. top - 1 \in Nat /\ top - 1 \notin T
  BY <1>1
<1>3. (top - 1) + 1 \in S
  BY <1>2
<1> QED
  BY <1>3

\* A function on 1..top with values in S is a sequence.
LEMMA TupleType ==
  ASSUME NEW S, NEW top \in Nat, NEW s, DOMAIN s = 1..top, s = [i \in 1..top |-> s[i]],
         \A i \in 1..top : s[i] \in S
  PROVE  s \in Seq(S) /\ Len(s) = top
<1>1. s \in [1..top -> S]
  OBVIOUS
<1>2. s \in Seq(S)
  BY <1>1, SeqDef
<1> QED
  BY <1>1, <1>2, LenProperties

(* FlattenSeq, as it is computed: after i words the first i are put together. *)
IsFlat(g, ws) ==
  /\ DOMAIN g = 0..Len(ws) /\ g[0] = <<>>
  /\ \A i \in 1..Len(ws) : g[i] = g[i-1] \o ws[i]

Flat(ws) == CHOOSE g : IsFlat(g, ws) /\ g = [i \in 0..Len(ws) |-> g[i]]

Puts(g, ws, m) == g[0] = <<>> /\ \A i \in 1..m : g[i] = g[i-1] \o ws[i]

\* There is such a function: the longest that can be built goes to the end.
LEMMA FlatExists ==
  ASSUME NEW B, NEW ws \in Seq(Seq(B))
  PROVE  \E g \in [0..Len(ws) -> Seq(B)] : IsFlat(g, ws)
<1> DEFINE top == Len(ws)
           G == {m \in Nat : m <= top => \E g \in [0..m -> Seq(B)] : Puts(g, ws, m)}
<1>0. top \in Nat /\ \A i \in 1..top : ws[i] \in Seq(B)
  BY ElementOfSeq, LenProperties
<1> HIDE DEF top
<1>1. 0 \in G
  <2>0. <<>> \in Seq(B)
    BY EmptySeq
  <2>1. [i \in 0..0 |-> <<>>] \in [0..0 -> Seq(B)] /\ Puts([i \in 0..0 |-> <<>>], ws, 0)
    BY <2>0 DEF Puts
  <2> QED
    BY <2>1
<1>2. ASSUME NEW m \in Nat, m \in G PROVE m + 1 \in G
  <2> SUFFICES ASSUME m + 1 <= top
               PROVE  \E g \in [0..m+1 -> Seq(B)] : Puts(g, ws, m+1)
    OBVIOUS
  <2>0. PICK g \in [0..m -> Seq(B)] : Puts(g, ws, m)
    <3>1. m <= top
      BY <1>0
    <3> QED
      BY <1>2, <3>1, Zenon
  <2>1. g[0] = <<>> /\ \A i \in 1..m : g[i] = g[i-1] \o ws[i]
    BY <2>0 DEF Puts
  <2> DEFINE w == g[m] \o ws[m+1]
             h == [i \in 0..m+1 |-> IF i = m + 1 THEN w ELSE g[i]]
  <2>2. w \in Seq(B)
    <3>1. g[m] \in Seq(B) /\ ws[m+1] \in Seq(B)
      BY <1>0
    <3> QED
      BY <3>1, ConcatProperties
  <2>3. h \in [0..m+1 -> Seq(B)]
    <3> HIDE DEF w
    <3> QED
      BY <2>2
  <2>4. h[0] = <<>>
    BY SMTT(60), <2>1
  <2>5. \A i \in 1..m+1 : h[i] = h[i-1] \o ws[i]
    <3> SUFFICES ASSUME NEW i \in 1..m+1 PROVE h[i] = h[i-1] \o ws[i]
      OBVIOUS
    <3>1. i-1 \in 0..m+1 /\ i-1 # m+1 /\ i \in 0..m+1 /\ i-1 \in 0..m
      OBVIOUS
    <3>2. h[i-1] = g[i-1]
      BY <3>1
    <3>3. CASE i = m+1
      <4>1. i - 1 = m
        BY <3>3
      <4> QED
        BY <3>1, <3>2, <3>3, <4>1
    <3>4. CASE i # m+1
      <4>1. i \in 1..m /\ h[i] = g[i]
        BY <3>1, <3>4
      <4> QED
        BY <2>1, <3>2, <4>1
    <3> QED
      BY <3>3, <3>4
  <2> HIDE DEF h
  <2> QED
    BY <2>3, <2>4, <2>5 DEF Puts
<1>3. Nat \subseteq G
  <2> HIDE DEF G
  <2> QED
    BY <1>1, <1>2, AllNumbers
<1>4. top \in G
  BY <1>0, <1>3
<1>5. PICK g \in [0..top -> Seq(B)] : Puts(g, ws, top)
  BY <1>4
<1>6. IsFlat(g, ws)
  BY <1>5 DEF IsFlat, Puts, top
<1> QED
  BY <1>5, <1>6 DEF top

LEMMA FlatFunction ==
  ASSUME NEW B, NEW ws \in Seq(Seq(B))
  PROVE  Flat(ws) \in [0..Len(ws) -> Seq(B)] /\ IsFlat(Flat(ws), ws)
<1>0. Len(ws) \in Nat /\ \A i \in 1..Len(ws) : ws[i] \in Seq(B)
  BY ElementOfSeq, LenProperties
<1>1. PICK g \in [0..Len(ws) -> Seq(B)] : IsFlat(g, ws)
  BY FlatExists
<1> DEFINE f == Flat(ws)
<1>2. IsFlat(f, ws) /\ f = [i \in 0..Len(ws) |-> f[i]]
  <2>1. g = [i \in 0..Len(ws) |-> g[i]]
    OBVIOUS
  <2> QED
    BY <1>1, <2>1, Zenon DEF Flat
<1> HIDE DEF f
<1> DEFINE G == {m \in Nat : m <= Len(ws) => f[m] \in Seq(B)}
<1>3. 0 \in G
  BY <1>2, EmptySeq DEF IsFlat
<1>4. ASSUME NEW m \in Nat, m \in G PROVE m + 1 \in G
  <2> SUFFICES ASSUME m + 1 <= Len(ws) PROVE f[m+1] \in Seq(B)
    OBVIOUS
  <2>1. m + 1 \in 1..Len(ws) /\ (m+1)-1 = m /\ f[m] \in Seq(B)
    BY <1>0, <1>4
  <2>2. f[m+1] = f[m] \o ws[m+1] /\ ws[m+1] \in Seq(B)
    BY <1>0, <1>2, <2>1 DEF IsFlat
  <2> QED
    BY <2>1, <2>2, ConcatProperties
<1>5. Nat \subseteq G
  <2> HIDE DEF G
  <2> QED
    BY <1>3, <1>4, AllNumbers
<1>6. \A m \in 0..Len(ws) : f[m] \in Seq(B)
  BY <1>0, <1>5
<1> QED
  BY <1>2, <1>6 DEF f

\* A function that builds up in the same way is that one.
LEMMA FlatUnique ==
  ASSUME NEW B, NEW ws \in Seq(Seq(B)), NEW g, IsFlat(g, ws), NEW h, IsFlat(h, ws)
  PROVE  \A m \in 0..Len(ws) : g[m] = h[m]
<1>0. Len(ws) \in Nat
  BY LenProperties
<1> DEFINE G == {m \in Nat : m <= Len(ws) => g[m] = h[m]}
<1>1. 0 \in G
  BY DEF IsFlat
<1>2. ASSUME NEW m \in Nat, m \in G PROVE m + 1 \in G
  <2> SUFFICES ASSUME m + 1 <= Len(ws) PROVE g[m+1] = h[m+1]
    OBVIOUS
  <2>1. m + 1 \in 1..Len(ws) /\ (m+1)-1 = m /\ g[m] = h[m]
    BY <1>0, <1>2
  <2>2. g[m+1] = g[m] \o ws[m+1] /\ h[m+1] = h[m] \o ws[m+1]
    BY <2>1 DEF IsFlat
  <2> QED
    BY <2>1, <2>2
<1>3. Nat \subseteq G
  <2> HIDE DEF G
  <2> QED
    BY <1>1, <1>2, AllNumbers
<1> QED
  BY <1>0, <1>3

\* FlattenSeq is the last value of that function.
LEMMA FlatIs ==
  ASSUME NEW B, NEW ws \in Seq(Seq(B))
  PROVE  FlattenSeq(ws) = Flat(ws)[Len(ws)] /\ FlattenSeq(ws) \in Seq(B)
<1> DEFINE top == Len(ws)
           g == Flat(ws)
<1>0. top \in Nat /\ \A i \in 1..top : ws[i] \in Seq(B)
  BY ElementOfSeq, LenProperties
<1>1. g \in [0..top -> Seq(B)] /\ IsFlat(g, ws)
  BY FlatFunction
<1> HIDE DEF g
<1>2. CASE top = 0
  <2>1. ws = <<>>
    BY <1>2, EmptySeq
  <2>2. FlattenSeq(ws) = ws
    BY <1>2, Zenon DEF FlattenSeq
  <2> QED
    BY <1>1, <1>2, <2>1, <2>2 DEF IsFlat, g
<1>3. CASE top # 0
  <2> DEFINE Is(f) == f = [i \in 1..top |-> IF i = 1 THEN ws[i] ELSE f[i-1] \o ws[i]]
             f == CHOOSE f : Is(f)
  <2>1. Is([i \in 1..top |-> g[i]])
    <3> DEFINE r == [i \in 1..top |-> g[i]]
    <3>1. \A i \in 1..top : r[i] = IF i = 1 THEN ws[i] ELSE r[i-1] \o ws[i]
      <4> SUFFICES ASSUME NEW i \in 1..top PROVE r[i] = IF i = 1 THEN ws[i] ELSE r[i-1] \o ws[i]
        OBVIOUS
      <4>1. g[i] = g[i-1] \o ws[i] /\ ws[i] \in Seq(B) /\ g[0] = <<>>
        BY <1>0, <1>1 DEF IsFlat
      <4>2. CASE i = 1
        <5>1. g[i-1] = <<>>
          BY <4>1, <4>2
        <5> QED
          BY <4>1, <4>2, <5>1, ConcatEmptySeq
      <4>3. CASE i # 1
        <5>1. i - 1 \in 1..top
          BY <1>0, <4>3
        <5> QED
          BY <4>1, <4>3, <5>1
      <4> QED
        BY <4>2, <4>3
    <3>2. DOMAIN r = 1..top
      OBVIOUS
    <3> QED
      BY <3>1
  <2>2. Is(f)
    BY <2>1, Zenon
  <2>3. FlattenSeq(ws) = f[top]
    BY <1>3, Zenon DEF FlattenSeq
  <2> HIDE DEF f
  <2> DEFINE h == [i \in 0..top |-> IF i = 0 THEN <<>> ELSE f[i]]
  <2>4. IsFlat(h, ws)
    <3>1. DOMAIN h = 0..Len(ws) /\ h[0] = <<>>
      BY <1>0
    <3>2. \A i \in 1..Len(ws) : h[i] = h[i-1] \o ws[i]
      <4> SUFFICES ASSUME NEW i \in 1..top PROVE h[i] = h[i-1] \o ws[i]
        OBVIOUS
      <4>1. f[i] = IF i = 1 THEN ws[i] ELSE f[i-1] \o ws[i]
        BY <2>2
      <4>2. i \in 0..top /\ i - 1 \in 0..top /\ i # 0
        BY <1>0
      <4>3. CASE i = 1
        <5>1. h[i-1] = <<>>
          BY <4>2, <4>3
        <5>2. <<>> \o ws[i] = ws[i]
          BY <1>0, ConcatEmptySeq
        <5> QED
          BY <4>1, <4>2, <4>3, <5>1, <5>2
      <4>4. CASE i # 1
        <5>1. i - 1 # 0 /\ h[i-1] = f[i-1]
          BY <4>2, <4>4
        <5> QED
          BY <4>1, <4>2, <4>4, <5>1
      <4> QED
        BY <4>3, <4>4
    <3> QED
      BY <3>1, <3>2 DEF IsFlat
  <2>5. h[top] = g[top]
    <3>1. top \in 0..top
      BY <1>0
    <3> HIDE DEF h
    <3>2. \A m \in 0..Len(ws) : h[m] = g[m]
      BY <1>1, <2>4, FlatUnique
    <3> QED
      BY <3>1, <3>2
  <2>6. h[top] = f[top]
    BY <1>0, <1>3
  <2>7. FlattenSeq(ws) = g[top] /\ g[top] \in Seq(B)
    BY <1>0, <1>1, <2>3, <2>5, <2>6
  <2> QED
    BY <2>7 DEF g
<1> QED
  BY <1>2, <1>3

LEMMA FlatEmpty ==
  FlattenSeq(<<>>) = <<>>
BY DEF FlattenSeq

\* The first word, and then the others.
LEMMA FlatHead ==
  ASSUME NEW B, NEW ws \in Seq(Seq(B)), ws # <<>>
  PROVE  /\ Head(ws) \in Seq(B) /\ Tail(ws) \in Seq(Seq(B)) /\ FlattenSeq(Tail(ws)) \in Seq(B)
         /\ FlattenSeq(ws) = Head(ws) \o FlattenSeq(Tail(ws))
<1> DEFINE top == Len(ws)
           t == Tail(ws)
           a == Head(ws)
           g == Flat(ws)
           h == Flat(t)
<1>1. /\ top \in Nat \ {0} /\ a \in Seq(B) /\ t \in Seq(Seq(B)) /\ Len(t) = top - 1
      /\ \A i \in 1..top-1 : t[i] = ws[i+1] /\ t[i] \in Seq(B)
      /\ ws[1] = a
  <2>1. a \in Seq(B) /\ t \in Seq(Seq(B)) /\ Len(t) = top - 1 /\ \A i \in 1..Len(t) : t[i] = ws[i+1]
    BY HeadTailProperties
  <2>2. top \in Nat \ {0}
    BY EmptySeq
  <2>3. \A i \in 1..Len(t) : t[i] \in Seq(B)
    BY <2>1, ElementOfSeq
  <2> QED
    BY <2>1, <2>2, <2>3
<1>2. /\ IsFlat(g, ws) /\ g \in [0..top -> Seq(B)] /\ IsFlat(h, t) /\ h \in [0..top-1 -> Seq(B)]
  BY <1>1, FlatFunction
<1>3. FlattenSeq(ws) = g[top] /\ FlattenSeq(t) = h[top-1] /\ FlattenSeq(t) \in Seq(B)
  BY <1>1, FlatIs
<1> HIDE DEF g, h
<1>8. /\ g[0] = <<>> /\ h[0] = <<>>
      /\ \A i \in 1..top : g[i] = g[i-1] \o ws[i]
      /\ \A i \in 1..top-1 : h[i] = h[i-1] \o t[i]
  BY <1>1, <1>2 DEF IsFlat
<1> HIDE DEF top, t, a
<1> DEFINE G == {m \in Nat : m <= top - 1 => g[m+1] = a \o h[m]}
<1>4. 0 \in G
  <2>1. 1 \in 1..top /\ 1 - 1 = 0
    BY <1>1
  <2>2. g[1] = <<>> \o a
    BY <1>1, <1>8, <2>1
  <2>3. a \o <<>> = a /\ <<>> \o a = a
    BY <1>1, ConcatEmptySeq
  <2>4. g[0+1] = a \o h[0]
    BY <1>8, <2>2, <2>3
  <2> QED
    BY <2>4
<1>5. ASSUME NEW m \in Nat, m \in G PROVE m + 1 \in G
  <2> SUFFICES ASSUME m + 1 <= top - 1 PROVE g[(m+1)+1] = a \o h[m+1]
    OBVIOUS
  <2>1. PICK i \in 1..top-1 : i = m+1 /\ i-1 = m /\ i+1 \in 1..top /\ (i+1)-1 = i /\ m \in 0..top-1
    BY <1>1
  <2>2. g[i+1] = g[i] \o ws[i+1] /\ h[i] = h[m] \o t[i]
    BY <1>8, <2>1
  <2>3. g[i] = a \o h[m]
    BY <1>5, <2>1
  <2>4. ws[i+1] = t[i] /\ t[i] \in Seq(B) /\ h[m] \in Seq(B) /\ a \in Seq(B)
    BY <1>1, <1>2, <2>1
  <2>5. (a \o h[m]) \o t[i] = a \o (h[m] \o t[i])
    <3>1. PICK x \in Seq(B), y \in Seq(B), z \in Seq(B) : x = a /\ y = h[m] /\ z = t[i]
      BY <2>4, Zenon
    <3>2. (x \o y) \o z = x \o (y \o z)
      BY SMTT(60)
    <3> QED
      BY <3>1, <3>2, Zenon
  <2> QED
    BY <2>1, <2>2, <2>3, <2>4, <2>5
<1>6. Nat \subseteq G
  <2> HIDE DEF G
  <2> QED
    BY <1>4, <1>5, AllNumbers
<1>7. top-1 \in G /\ (top-1)+1 = top
  BY <1>1, <1>6
<1>9. FlattenSeq(ws) = a \o FlattenSeq(t)
  BY <1>1, <1>3, <1>7
<1> QED
  BY <1>1, <1>3, <1>9 DEF t, a

\* Flattening distributes over concatenation.
LEMMA FlatConcat ==
  ASSUME NEW B, NEW a \in Seq(Seq(B)), NEW b \in Seq(Seq(B))
  PROVE  FlattenSeq(a \o b) = FlattenSeq(a) \o FlattenSeq(b)
<1> DEFINE G == {m \in Nat : \A s \in Seq(Seq(B)) : Len(s) = m =>
                    FlattenSeq(s \o b) = FlattenSeq(s) \o FlattenSeq(b)}
<1>0. FlattenSeq(b) \in Seq(B)
  BY FlatIs
<1>1. 0 \in G
  <2> SUFFICES ASSUME NEW s \in Seq(Seq(B)), Len(s) = 0
               PROVE  FlattenSeq(s \o b) = FlattenSeq(s) \o FlattenSeq(b)
    OBVIOUS
  <2>1. s = <<>>
    BY EmptySeq
  <2>2. s \o b = b
    BY <2>1, ConcatEmptySeq
  <2>3. FlattenSeq(s) = <<>>
    BY <2>1, FlatEmpty
  <2>4. <<>> \o FlattenSeq(b) = FlattenSeq(b)
    BY <1>0, ConcatEmptySeq
  <2> QED
    BY <2>2, <2>3, <2>4, Zenon
<1>2. ASSUME NEW m \in Nat, m \in G PROVE m + 1 \in G
  <2> SUFFICES ASSUME NEW s \in Seq(Seq(B)), Len(s) = m + 1
               PROVE  FlattenSeq(s \o b) = FlattenSeq(s) \o FlattenSeq(b)
    OBVIOUS
  <2>1. s # <<>> /\ Len(Tail(s)) = m /\ Tail(s) \in Seq(Seq(B)) /\ Head(s) \in Seq(B)
    <3>1. s # <<>>
      BY EmptySeq
    <3> QED
      BY <3>1, HeadTailProperties
  <2>2. s \o b # <<>> /\ s \o b \in Seq(Seq(B)) /\ Head(s \o b) = Head(s) /\ Tail(s \o b) = Tail(s) \o b
    BY <2>1
  <2>3. FlattenSeq(s \o b) = Head(s) \o FlattenSeq(Tail(s) \o b)
    BY <2>2, FlatHead
  <2>4. FlattenSeq(Tail(s) \o b) = FlattenSeq(Tail(s)) \o FlattenSeq(b)
    BY <1>2, <2>1
  <2>5. FlattenSeq(s) = Head(s) \o FlattenSeq(Tail(s))
    BY <2>1, FlatHead
  <2>6. PICK x \in Seq(B), y \in Seq(B), z \in Seq(B) :
           x = Head(s) /\ y = FlattenSeq(Tail(s)) /\ z = FlattenSeq(b)
    BY <1>0, <2>1, FlatIs
  <2>7. x \o (y \o z) = (x \o y) \o z
    BY SMTT(60)
  <2> QED
    BY <2>3, <2>4, <2>5, <2>6, <2>7, Zenon
<1>3. Nat \subseteq G
  <2> HIDE DEF G
  <2> QED
    BY <1>1, <1>2, AllNumbers
<1>4. Len(a) \in G
  BY <1>3, LenProperties
<1> QED
  BY <1>4

LEMMA FlatOne ==
  ASSUME NEW B, NEW w \in Seq(B)
  PROVE  <<w>> \in Seq(Seq(B)) /\ FlattenSeq(<<w>>) = w
<1>1. <<w>> \in Seq(Seq(B)) /\ <<w>> # <<>> /\ Head(<<w>>) = w /\ Tail(<<w>>) = <<>>
  OBVIOUS
<1>2. FlattenSeq(<<w>>) = w \o <<>>
  BY <1>1, FlatHead, FlatEmpty
<1> QED
  BY <1>1, <1>2, ConcatEmptySeq

----------------------------------------------------------------------------
(* The table of code words holds VC-2's code: an entry goes on from the one *)
(* at half its index.                                                      *)

Binary == {0, 1}

\* What the table holds for 2 * e and 2 * e + 1 goes on from what it holds for
\* e: two more bits in front of the last two, a 0 and the last bit of the index.
LEMMA TableDoubles ==
  /\ CWLUT[1] = 1
  /\ \A e \in 1..256 : CWLUT[e] \in Nat
  /\ \A e \in 1..127, b \in Binary : CWLUT[2 * e + b] = 4 * (4 * (CWLUT[e] \div 4) + b) + 2
  /\ CWLUT[256] = 4 * (4 * (CWLUT[128] \div 4)) + 2
BY DEF CWLUT, Binary

Value(e) == CWLUT[e] \div 4

\* The same of the table's values without their last two bits.
LEMMA ValueDoubles ==
  /\ Value(1) = 0
  /\ \A e \in 1..256 : Value(e) \in Nat
  /\ \A e \in 1..128, b \in Binary : 2 * e + b <= 256 =>
        /\ Value(2 * e + b) = 4 * Value(e) + b
        /\ CWLUT[2 * e + b] = 4 * Value(2 * e + b) + 2
<1>1. Value(1) = 0
  BY TableDoubles DEF Value
<1>2. ASSUME NEW e \in 1..256 PROVE Value(e) \in Nat
  <2>1. \A y \in Nat : y \div 4 \in Nat
    OBVIOUS
  <2> QED
    BY <2>1, TableDoubles DEF Value
<1>3. ASSUME NEW e \in 1..128, NEW b \in Binary, 2 * e + b <= 256
      PROVE  /\ Value(2 * e + b) = 4 * Value(e) + b
             /\ CWLUT[2 * e + b] = 4 * Value(2 * e + b) + 2
  <2>1. CWLUT[2 * e + b] = 4 * (4 * Value(e) + b) + 2
    <3>1. CASE e = 128
      <4>1. b = 0
        BY <1>3, <3>1 DEF Binary
      <4> QED
        BY <3>1, <4>1, TableDoubles DEF Value
    <3>2. CASE e # 128
      BY <3>2, TableDoubles DEF Value
    <3> QED
      BY <3>1, <3>2
  <2>2. \A y \in Nat : (4 * y + 2) \div 4 = y
    OBVIOUS
  <2>3. 4 * Value(e) + b \in Nat
    BY <1>2, <1>3 DEF Binary
  <2>4. Value(2 * e + b) = (4 * (4 * Value(e) + b) + 2) \div 4
    BY <2>1 DEF Value
  <2>5. Value(2 * e + b) = 4 * Value(e) + b
    BY <2>2, <2>3, <2>4
  <2> QED
    BY <2>1, <2>5
<1> QED
  BY <1>1, <1>2, <1>3

Power == [k \in 0..30 |-> 2^k]

\* The powers of two that occur, as numbers.
LEMMA PowerTable ==
  /\ 2^0 = 1 /\ 2^1 = 2 /\ 2^2 = 4 /\ 2^3 = 8 /\ 2^4 = 16 /\ 2^5 = 32 /\ 2^6 = 64 /\ 2^7 = 128
  /\ 2^8 = 256 /\ 2^9 = 512 /\ 2^10 = 1024 /\ 2^11 = 2048 /\ 2^12 = 4096 /\ 2^13 = 8192
  /\ 2^14 = 16384 /\ 2^15 = 32768 /\ 2^16 = 65536 /\ 2^17 = 131072 /\ 2^18 = 262144
  /\ 2^19 = 524288 /\ 2^20 = 1048576 /\ 2^21 = 2097152 /\ 2^22 = 4194304 /\ 2^23 = 8388608
  /\ 2^24 = 16777216 /\ 2^25 = 33554432 /\ 2^26 = 67108864 /\ 2^27 = 134217728
  /\ 2^28 = 268435456 /\ 2^29 = 536870912 /\ 2^30 = 1073741824
BY SMT

LEMMA PowerValues ==
  /\ Power[0] = 1 /\ Power[1] = 2 /\ Power[2] = 4 /\ Power[3] = 8 /\ Power[4] = 16 /\ Power[5] = 32
  /\ Power[6] = 64 /\ Power[7] = 128 /\ Power[8] = 256 /\ Power[9] = 512 /\ Power[10] = 1024
  /\ Power[11] = 2048 /\ Power[12] = 4096 /\ Power[13] = 8192 /\ Power[14] = 16384
  /\ Power[15] = 32768 /\ Power[16] = 65536 /\ Power[17] = 131072 /\ Power[18] = 262144
  /\ Power[19] = 524288 /\ Power[20] = 1048576 /\ Power[21] = 2097152 /\ Power[22] = 4194304
  /\ Power[23] = 8388608 /\ Power[24] = 16777216 /\ Power[25] = 33554432
  /\ Power[26] = 67108864 /\ Power[27] = 134217728 /\ Power[28] = 268435456
  /\ Power[29] = 536870912 /\ Power[30] = 1073741824
BY PowerTable DEF Power

LEMMA PowerSteps ==
  /\ Power[0] = 1
  /\ \A k \in 0..30 : Power[k] \in Nat \ {0} /\ 2^k = Power[k]
  /\ \A k \in 0..29 : Power[k+1] = 2 * Power[k]
<1>1. \A k \in 0..30 : Power[k] \in Nat \ {0}
  BY PowerValues
<1>2. \A k \in 0..29 : Power[k+1] = 2 * Power[k]
  BY PowerValues
<1> QED
  BY <1>1, <1>2, PowerValues DEF Power

\* The logarithm is the only number that its definition allows.
LEMMA LogIs ==
  ASSUME NEW y \in Nat, NEW k \in 0..30, Power[k] <= y, y < 2 * Power[k]
  PROVE  ilog2(y) = k
<1>1. ASSUME NEW i \in 0..30, Power[i] <= y, y < 2 * Power[i] PROVE i = k
  <2>1. \A a, b \in 0..30 : a < b => 2 * Power[a] <= Power[b]
    BY PowerValues, SMTT(60)
  <2> QED
    BY SMTT(60), <1>1, <2>1, PowerSteps
<1>2. \A i \in 0..30 : 2^i = Power[i]
  BY PowerSteps, Zenon
<1>3. ilog2(y) = CHOOSE i \in 0..30 : Power[i] <= y /\ y < 2 * Power[i]
  BY <1>2, Zenon DEF ilog2
<1> QED
  BY <1>1, <1>3

\* The logarithms of the indices of the table.
LEMMA LogDoubles ==
  /\ ilog2(1) = 0
  /\ \A e \in 1..256 : /\ ilog2(e) \in 0..8
                       /\ Power[ilog2(e)] <= e /\ e < 2 * Power[ilog2(e)]
  /\ \A e \in 1..128, b \in Binary : 2 * e + b <= 256 => ilog2(2 * e + b) = ilog2(e) + 1
<1>1. ASSUME NEW e \in 1..256
      PROVE  \E k \in 0..8 : Power[k] <= e /\ e < 2 * Power[k]
  <2>1. \/ e = 1 \/ e \in 2..3 \/ e \in 4..7 \/ e \in 8..15 \/ e \in 16..31 \/ e \in 32..63
        \/ e \in 64..127 \/ e \in 128..255 \/ e = 256
    OBVIOUS
  <2> QED
    BY <2>1, PowerValues
<1>2. ASSUME NEW e \in 1..256
      PROVE  ilog2(e) \in 0..8 /\ Power[ilog2(e)] <= e /\ e < 2 * Power[ilog2(e)]
  <2>1. PICK k \in 0..8 : Power[k] <= e /\ e < 2 * Power[k]
    BY <1>1
  <2>2. ilog2(e) = k
    BY <2>1, LogIs
  <2> QED
    BY SMTT(60), <2>1, <2>2
<1>3. ilog2(1) = 0
  BY LogIs, PowerValues
<1>4. ASSUME NEW e \in 1..128, NEW b \in Binary, 2 * e + b <= 256
      PROVE  ilog2(2 * e + b) = ilog2(e) + 1
  <2>1. PICK k \in 0..8 : ilog2(e) = k /\ Power[k] <= e /\ e < 2 * Power[k]
    BY SMTT(60), <1>2
  <2>2. Power[k + 1] = 2 * Power[k] /\ k + 1 \in 0..30 /\ Power[k] \in Nat
    BY PowerSteps
  <2>3. 2 * e + b \in Nat /\ Power[k + 1] <= 2 * e + b /\ 2 * e + b < 2 * Power[k + 1]
    BY <2>1, <2>2 DEF Binary
  <2>4. ilog2(2 * e + b) = k + 1
    BY <2>2, <2>3, LogIs
  <2> QED
    BY <2>1, <2>4
<1> QED
  BY <1>2, <1>3, <1>4

\* The table of lengths is what a code word is long: 2 * ilog2(d + 1) + 2.
LEMMA WordLengths ==
  \A d \in 0..255 : WLLUT[d] = IF d = 0 THEN 1 ELSE 2 * ilog2(d + 1) + 2
<1> SUFFICES ASSUME NEW d \in 0..255
             PROVE  WLLUT[d] = IF d = 0 THEN 1 ELSE 2 * ilog2(d + 1) + 2
  OBVIOUS
<1>1. PICK k \in 0..8 : ilog2(d + 1) = k /\ Power[k] <= d + 1 /\ d + 1 < 2 * Power[k]
  <2>1. d + 1 \in 1..256
    OBVIOUS
  <2> QED
    BY <2>1, LogDoubles
<1>2. \/ d = 0
      \/ (k = 1 /\ d \in 1..2) \/ (k = 2 /\ d \in 3..6) \/ (k = 3 /\ d \in 7..14)
      \/ (k = 4 /\ d \in 15..30) \/ (k = 5 /\ d \in 31..62) \/ (k = 6 /\ d \in 63..126)
      \/ (k = 7 /\ d \in 127..254) \/ (k = 8 /\ d = 255)
  <2>1. k = 0 \/ k = 1 \/ k = 2 \/ k = 3 \/ k = 4 \/ k = 5 \/ k = 6 \/ k = 7 \/ k = 8
    OBVIOUS
  <2> QED
    BY <1>1, <2>1, PowerValues
<1>3. WLLUT[d] = CASE d = 0 -> 1 [] d \in 1..2 -> 4 [] d \in 3..6 -> 6
                   [] d \in 7..14 -> 8 [] d \in 15..30 -> 10 [] d \in 31..62 -> 12
                   [] d \in 63..126 -> 14 [] d \in 127..254 -> 16 [] OTHER -> 18
  BY Zenon DEF WLLUT
<1> QED
  BY SMTT(60), <1>1, <1>2, <1>3

\* Sequences given by their elements.
LEMMA SeqIs ==
  ASSUME NEW S, NEW m \in Nat, NEW s, s = [i \in 1..m |-> s[i]], \A i \in 1..m : s[i] \in S
  PROVE  s \in Seq(S) /\ Len(s) = m /\ DOMAIN s = 1..m
<1>1. DOMAIN s = 1..m
  BY Zenon
<1> QED
  BY <1>1, TupleType

\* The last bits of doubled numbers.
LEMMA Halves2 ==
  /\ \A y \in Nat : y % 2 \in Binary /\ y \div 2 \in Nat
  /\ \A y \in Nat, b \in Binary : (2 * y + b) % 2 = b
  /\ \A y \in Nat, b \in Binary : (4 * y + b) % 2 = b /\ ((4 * y + b) \div 2) % 2 = 0
BY SMT DEF Binary

\* Division is what leaves a remainder below the divisor.
LEMMA QuotientIs ==
  ASSUME NEW z \in Nat, NEW d \in Nat, NEW q \in Nat, NEW r \in 0..(d - 1), z = d * q + r
  PROVE  z \div d = q
BY SMT

LEMMA PowerNext ==
  ASSUME NEW i \in Int, NEW j \in Int, i - j \in 0..28
  PROVE  /\ 2^(i - j) \in Nat \ {0} /\ 2^(i + 1 - j) \in Nat \ {0}
         /\ 2^(i + 1 - j) = 2 * 2^(i - j) /\ 2^(i + 2 - j) = 2 * 2^(i + 1 - j)
<1>1. PICK p \in 0..28 : p = i - j
  OBVIOUS
<1>2. i + 1 - j = p + 1 /\ i + 2 - j = p + 2
  BY <1>1
<1>3. p \in 0..30 /\ p + 1 \in 0..30 /\ p + 2 \in 0..30 /\ p \in 0..29 /\ p + 1 \in 0..29
      /\ (p + 1) + 1 = p + 2
  OBVIOUS
<1>4. 2^p = Power[p] /\ 2^(p+1) = Power[p+1] /\ 2^(p+2) = Power[p+2]
      /\ Power[p] \in Nat \ {0} /\ Power[p+1] \in Nat \ {0}
  BY <1>3, PowerSteps, Zenon
<1>5. Power[p+1] = 2 * Power[p] /\ Power[p+2] = 2 * Power[p+1]
  BY <1>3, PowerSteps
<1> QED
  BY <1>1, <1>2, <1>4, <1>5, Zenon

\* Division by a power of two looks only at the bits above.
LEMMA DivideDoubled ==
  ASSUME NEW y \in Nat, NEW b \in Binary, NEW m \in Nat \ {0}
  PROVE  (2 * y + b) \div (2 * m) = y \div m
<1> DEFINE q == y \div m
           t == y % m
<1>1. q \in Nat /\ t \in 0..(m-1) /\ y = m * q + t
  BY SMT
<1> HIDE DEF q, t
<1>2. 2 * y + b = (2 * m) * q + (2 * t + b) /\ 2 * t + b \in 0..(2 * m - 1)
  <2>1. \A u \in Nat : y = u + t => 2 * y + b = 2 * u + (2 * t + b)
    BY <1>1 DEF Binary
  <2>2. (2 * m) * q = 2 * (m * q) /\ m * q \in Nat
    BY <1>1
  <2> QED
    BY <1>1, <2>1, <2>2 DEF Binary
<1>3. 2 * y + b \in Nat /\ 2 * m \in Nat
  BY DEF Binary
<1>4. (2 * y + b) \div (2 * m) = q
  BY <1>1, <1>2, <1>3, QuotientIs
<1> QED
  BY <1>4 DEF q

LEMMA DivideTwice ==
  ASSUME NEW y \in Nat, NEW b \in Binary, NEW m \in Nat \ {0}
  PROVE  (4 * y + b) \div (4 * m) = y \div m
<1>1. 4 * y + b = 2 * (2 * y) + b /\ 4 * m = 2 * (2 * m) /\ 2 * y = 2 * y + 0 /\ 0 \in Binary
      /\ 2 * y \in Nat /\ 2 * m \in Nat \ {0}
  BY DEF Binary
<1>2. (4 * y + b) \div (4 * m) = (2 * y) \div (2 * m)
  BY <1>1, DivideDoubled
<1>3. (2 * y + 0) \div (2 * m) = y \div m
  BY <1>1, DivideDoubled
<1> QED
  BY <1>1, <1>2, <1>3

PairSeq(e, k) == [i \in 1..k |-> <<0, (e \div 2^(k - i)) % 2>>]
Pairs(e, k) == FlattenSeq(PairSeq(e, k))

\* The pairs of VC-2's code as a sequence of bits.
LEMMA PairType ==
  ASSUME NEW e \in Nat, NEW k \in 0..8
  PROVE  /\ PairSeq(e, k) \in Seq(Seq(Binary)) /\ Len(PairSeq(e, k)) = k
         /\ \A i \in 1..k : PairSeq(e, k)[i] = <<0, (e \div 2^(k - i)) % 2>>
         /\ Pairs(e, k) \in Seq(Binary)
<1> DEFINE s == PairSeq(e, k)
<1>1. ASSUME NEW i \in 1..k PROVE <<0, (e \div 2^(k - i)) % 2>> \in Seq(Binary)
  <2>1. 2^(k - i) \in Nat \ {0}
    <3>1. k - i \in 0..28 /\ k \in Int /\ i \in Int
      OBVIOUS
    <3> QED
      BY <3>1, PowerNext
  <2>2. e \div 2^(k - i) \in Nat
    <3>1. \A m \in Nat \ {0} : e \div m \in Nat
      BY SMT
    <3> QED
      BY <2>1, <3>1
  <2>3. (e \div 2^(k - i)) % 2 \in Binary
    BY <2>2, Halves2
  <2>4. \A b \in Binary : <<0, b>> \in Seq(Binary)
    BY DEF Binary
  <2> QED
    BY <2>3, <2>4
<1>2. \A i \in 1..k : s[i] \in Seq(Binary) /\ s[i] = <<0, (e \div 2^(k - i)) % 2>>
  BY <1>1 DEF PairSeq
<1>3. s = [i \in 1..k |-> s[i]]
  BY DEF PairSeq
<1> HIDE DEF s
<1>4. s \in Seq(Seq(Binary)) /\ Len(s) = k
  <2>1. k \in Nat
    OBVIOUS
  <2> QED
    BY <1>2, <1>3, <2>1, SeqIs
<1>5. FlattenSeq(s) \in Seq(Binary)
  BY <1>4, FlatIs
<1> QED
  BY <1>2, <1>4, <1>5 DEF s, Pairs

\* A number with one bit more has one pair more.
LEMMA PairsDouble ==
  ASSUME NEW e \in Nat, NEW b \in Binary, NEW k \in 0..7
  PROVE  Pairs(2 * e + b, k + 1) = Pairs(e, k) \o <<0, b>>
<1> DEFINE s == PairSeq(e, k)
           t == PairSeq(2 * e + b, k + 1)
           w == <<0, b>>
<1>1. 2 * e + b \in Nat /\ k + 1 \in 0..8 /\ k \in 0..8 /\ k \in Nat
  BY DEF Binary
<1>2. t \in Seq(Seq(Binary)) /\ Len(t) = k + 1 /\ s \in Seq(Seq(Binary)) /\ Len(s) = k
      /\ (\A i \in 1..k : s[i] = <<0, (e \div 2^(k - i)) % 2>>)
      /\ (\A i \in 1..(k+1) : t[i] = <<0, ((2 * e + b) \div 2^(k + 1 - i)) % 2>>)
  <2>1. PICK y \in Nat, m \in 0..8 : y = 2 * e + b /\ m = k + 1
    BY <1>1
  <2>2. /\ PairSeq(y, m) \in Seq(Seq(Binary)) /\ Len(PairSeq(y, m)) = m
        /\ \A i \in 1..m : PairSeq(y, m)[i] = <<0, (y \div 2^(m - i)) % 2>>
    BY PairType
  <2>3. /\ s \in Seq(Seq(Binary)) /\ Len(s) = k
        /\ \A i \in 1..k : s[i] = <<0, (e \div 2^(k - i)) % 2>>
    BY <1>1, PairType
  <2>4. t = PairSeq(y, m)
    BY <2>1
  <2> HIDE DEF t, s
  <2>5. \A i \in 1..(k+1) : t[i] = <<0, ((2 * e + b) \div 2^(k + 1 - i)) % 2>>
    <3> SUFFICES ASSUME NEW i \in 1..(k+1)
                 PROVE  t[i] = <<0, ((2 * e + b) \div 2^(k + 1 - i)) % 2>>
      OBVIOUS
    <3>1. i \in 1..m /\ m - i = k + 1 - i
      BY <2>1
    <3>2. t[i] = <<0, (y \div 2^(m - i)) % 2>>
      BY <2>2, <2>4, <3>1
    <3> QED
      BY <2>1, <3>1, <3>2, Zenon
  <2> QED
    BY <2>1, <2>2, <2>3, <2>4, <2>5
<1>3. w \in Seq(Binary) /\ <<w>> \in Seq(Seq(Binary)) /\ FlattenSeq(<<w>>) = w
  <2>1. w \in Seq(Binary)
    BY DEF Binary
  <2> QED
    BY <2>1, FlatOne
<1>4. ASSUME NEW i \in 1..k PROVE t[i] = s[i]
  <2>1. k - i \in 0..28 /\ i \in 1..(k+1) /\ k \in Int /\ i \in Int
    OBVIOUS
  <2>2. 2^(k + 1 - i) = 2 * 2^(k - i) /\ 2^(k - i) \in Nat \ {0}
    BY <2>1, PowerNext
  <2>3. (2 * e + b) \div 2^(k + 1 - i) = e \div 2^(k - i)
    BY <2>2, DivideDoubled
  <2> QED
    BY <1>2, <2>1, <2>3
<1>5. t[k+1] = w
  <2>1. k + 1 - (k + 1) = 0 /\ 2^0 = 1 /\ k + 1 \in 1..(k + 1)
    BY PowerTable
  <2>2. (2 * e + b) \div 1 = 2 * e + b
    BY <1>1
  <2>3. (2 * e + b) % 2 = b
    BY Halves2
  <2> QED
    BY <1>2, <2>1, <2>2, <2>3
<1>6. t = s \o <<w>>
  <2> HIDE DEF s, t, w
  <2>1. /\ s \o <<w>> \in Seq(Seq(Binary)) /\ Len(s \o <<w>>) = k + 1
        /\ \A i \in 1..(k+1) : (s \o <<w>>)[i] = IF i <= k THEN s[i] ELSE w
    <3>1. Len(<<w>>) = 1 /\ <<w>>[1] = w
      OBVIOUS
    <3>2. \A i \in 1..(k+1) : i <= k \/ i - k = 1
      OBVIOUS
    <3>3. /\ s \o <<w>> \in Seq(Seq(Binary)) /\ Len(s \o <<w>>) = Len(s) + Len(<<w>>)
          /\ \A i \in 1..Len(s) + Len(<<w>>) : (s \o <<w>>)[i] =
                IF i <= Len(s) THEN s[i] ELSE <<w>>[i - Len(s)]
      BY <1>2, <1>3, ConcatProperties
    <3> QED
      BY <1>1, <1>2, <1>3, <3>1, <3>2, <3>3
  <2>2. \A i \in 1..Len(t) : t[i] = (s \o <<w>>)[i]
    <3> SUFFICES ASSUME NEW i \in 1..(k+1) PROVE t[i] = (s \o <<w>>)[i]
      BY <1>2
    <3>1. i \in 1..k \/ i = k + 1
      BY <1>1
    <3> QED
      BY <1>1, <1>4, <1>5, <2>1, <3>1
  <2> QED
    BY <1>2, <2>1, <2>2, SeqEqual
<1>7. FlattenSeq(t) = FlattenSeq(s) \o FlattenSeq(<<w>>)
  BY <1>2, <1>3, <1>6, FlatConcat
<1> QED
  BY <1>3, <1>7 DEF Pairs

\* Bits as a sequence.
LEMMA BitsType ==
  ASSUME NEW y \in Nat, NEW m \in 0..18
  PROVE  /\ Bits(y, m) \in Seq(Binary) /\ Len(Bits(y, m)) = m
         /\ \A i \in 1..m : Bits(y, m)[i] = (y \div 2^(m - i)) % 2
<1>1. ASSUME NEW i \in 1..m PROVE (y \div 2^(m - i)) % 2 \in Binary
  <2>1. 2^(m - i) \in Nat \ {0}
    <3>1. m - i \in 0..28 /\ m \in Int /\ i \in Int
      OBVIOUS
    <3> QED
      BY <3>1, PowerNext
  <2>2. \A d \in Nat \ {0} : y \div d \in Nat
    BY SMT
  <2> QED
    BY <2>1, <2>2, Halves2
<1> DEFINE s == Bits(y, m)
<1>2. s = [i \in 1..m |-> (y \div 2^(m - i)) % 2]
  BY DEF Bits
<1>3. \A i \in 1..m : s[i] = (y \div 2^(m - i)) % 2
  BY <1>2
<1>4. s = [i \in 1..m |-> s[i]]
  BY <1>2
<1> HIDE DEF s
<1>5. s \in Seq(Binary) /\ Len(s) = m
  <2>1. \A i \in 1..m : s[i] \in Binary
    BY <1>1, <1>3, Zenon
  <2>2. m \in Nat
    OBVIOUS
  <2> QED
    BY <1>4, <2>1, <2>2, SeqIs, Zenon
<1> QED
  BY <1>3, <1>5 DEF s

\* Two more bits, of which the first is 0.
LEMMA BitsDouble ==
  ASSUME NEW y \in Nat, NEW m \in 0..16, NEW a \in Binary, NEW b \in Binary
  PROVE  /\ Bits(4 * y + b, m + 2) = Bits(y, m) \o <<0, b>>
         /\ Bits(4 * y + 2 + b, m + 2) = Bits(y, m) \o <<1, b>>
<1> DEFINE w(u) == <<u, b>>
           v(u) == 4 * y + 2 * u + b
<1>0. m \in Nat /\ m + 2 \in 0..18 /\ m \in 0..18
  OBVIOUS
<1> HIDE DEF v
<1>1. ASSUME NEW u \in Binary PROVE Bits(v(u), m + 2) = Bits(y, m) \o w(u)
  <2>1. v(u) \in Nat /\ v(u) = 2 * (2 * y + u) + b
    BY DEF Binary, v
  <2>2. /\ Bits(v(u), m + 2) \in Seq(Binary) /\ Len(Bits(v(u), m + 2)) = m + 2
        /\ \A i \in 1..(m+2) : Bits(v(u), m + 2)[i] = (v(u) \div 2^(m + 2 - i)) % 2
        /\ Bits(y, m) \in Seq(Binary) /\ Len(Bits(y, m)) = m
        /\ \A i \in 1..m : Bits(y, m)[i] = (y \div 2^(m - i)) % 2
    <3>1. PICK z \in Nat, j \in 0..18 : z = v(u) /\ j = m + 2
      BY <1>0, <2>1
    <3>2. /\ Bits(z, j) \in Seq(Binary) /\ Len(Bits(z, j)) = j
          /\ \A i \in 1..j : Bits(z, j)[i] = (z \div 2^(j - i)) % 2
      BY BitsType
    <3>3. /\ Bits(y, m) \in Seq(Binary) /\ Len(Bits(y, m)) = m
          /\ \A i \in 1..m : Bits(y, m)[i] = (y \div 2^(m - i)) % 2
      BY <1>0, BitsType
    <3> QED
      BY <3>1, <3>2, <3>3
  <2>3. w(u) \in Seq(Binary) /\ Len(w(u)) = 2 /\ w(u)[1] = u /\ w(u)[2] = b
    BY DEF Binary
  <2>4. ASSUME NEW i \in 1..m PROVE Bits(v(u), m + 2)[i] = Bits(y, m)[i]
    <3>1. m - i \in 0..28 /\ m \in Int /\ i \in Int /\ i \in 1..(m+2)
      OBVIOUS
    <3>2. /\ 2^(m + 2 - i) = 2 * 2^(m + 1 - i) /\ 2^(m + 1 - i) = 2 * 2^(m - i)
          /\ 2^(m - i) \in Nat \ {0} /\ 2^(m + 1 - i) \in Nat \ {0}
      BY <3>1, PowerNext
    <3>3. v(u) \div 2^(m + 2 - i) = (2 * y + u) \div 2^(m + 1 - i)
      <4>1. PICK z \in Nat, d \in Nat \ {0} : z = 2 * y + u /\ d = 2^(m + 1 - i)
        BY <3>2 DEF Binary
      <4>2. (2 * z + b) \div (2 * d) = z \div d
        BY DivideDoubled
      <4> QED
        BY <2>1, <3>2, <4>1, <4>2
    <3>4. (2 * y + u) \div 2^(m + 1 - i) = y \div 2^(m - i)
      <4>1. PICK d \in Nat \ {0} : d = 2^(m - i)
        BY <3>2
      <4>2. (2 * y + u) \div (2 * d) = y \div d
        BY DivideDoubled
      <4> QED
        BY <3>2, <4>1, <4>2
    <3> QED
      BY <2>2, <3>1, <3>3, <3>4
  <2>5. Bits(v(u), m + 2)[m + 1] = u
    <3>1. m + 2 - (m + 1) = 1 /\ 2^1 = 2 /\ m + 1 \in 1..(m+2)
      BY PowerTable
    <3>2. v(u) \div 2 = 2 * y + u
      BY <2>1 DEF Binary
    <3>3. (2 * y + u) % 2 = u
      BY Halves2
    <3> QED
      BY <2>2, <3>1, <3>2, <3>3
  <2>6. Bits(v(u), m + 2)[m + 2] = b
    <3>1. m + 2 - (m + 2) = 0 /\ 2^0 = 1 /\ m + 2 \in 1..(m+2)
      BY PowerTable
    <3>2. v(u) \div 1 = v(u)
      BY <2>1
    <3>3. v(u) % 2 = b
      BY <2>1 DEF Binary
    <3> QED
      BY <2>2, <3>1, <3>2, <3>3
  <2> HIDE DEF w, v
  <2>7. /\ Bits(y, m) \o w(u) \in Seq(Binary) /\ Len(Bits(y, m) \o w(u)) = m + 2
        /\ \A i \in 1..(m + 2) : (Bits(y, m) \o w(u))[i]
                = IF i <= m THEN Bits(y, m)[i] ELSE w(u)[i - m]
    <3>1. /\ Bits(y, m) \o w(u) \in Seq(Binary)
          /\ Len(Bits(y, m) \o w(u)) = Len(Bits(y, m)) + Len(w(u))
          /\ \A i \in 1..Len(Bits(y, m)) + Len(w(u)) : (Bits(y, m) \o w(u))[i]
                = IF i <= Len(Bits(y, m)) THEN Bits(y, m)[i] ELSE w(u)[i - Len(Bits(y, m))]
      <4>1. PICK g \in Seq(Binary), h \in Seq(Binary) : g = Bits(y, m) /\ h = w(u)
        BY <2>2, <2>3
      <4>2. /\ g \o h \in Seq(Binary) /\ Len(g \o h) = Len(g) + Len(h)
            /\ \A i \in 1..Len(g) + Len(h) : (g \o h)[i] = IF i <= Len(g) THEN g[i] ELSE h[i - Len(g)]
        BY ConcatProperties
      <4> QED
        BY <4>1, <4>2
    <3> QED
      BY <2>2, <2>3, <3>1
  <2>8. \A i \in 1..(m + 2) : Bits(v(u), m + 2)[i] = (Bits(y, m) \o w(u))[i]
    <3> SUFFICES ASSUME NEW i \in 1..(m + 2)
                 PROVE  Bits(v(u), m + 2)[i] = (Bits(y, m) \o w(u))[i]
      OBVIOUS
    <3>1. i \in 1..m \/ (i = m + 1 /\ i - m = 1 /\ ~(i <= m)) \/ (i = m + 2 /\ i - m = 2 /\ ~(i <= m))
      BY <1>0
    <3>2. (Bits(y, m) \o w(u))[i] = IF i <= m THEN Bits(y, m)[i] ELSE w(u)[i - m]
      BY <2>7
    <3>3. CASE i \in 1..m
      <4>1. i <= m
        BY <3>3
      <4>2. (Bits(y, m) \o w(u))[i] = Bits(y, m)[i]
        BY <3>2, <4>1
      <4> QED
        BY <2>4, <3>3, <4>2
    <3>4. CASE i = m + 1 /\ i - m = 1 /\ ~(i <= m)
      <4>1. (Bits(y, m) \o w(u))[i] = w(u)[1]
        BY <3>2, <3>4
      <4> QED
        BY <2>3, <2>5, <3>4, <4>1
    <3>5. CASE i = m + 2 /\ i - m = 2 /\ ~(i <= m)
      <4>1. (Bits(y, m) \o w(u))[i] = w(u)[2]
        BY <3>2, <3>5
      <4> QED
        BY <2>3, <2>6, <3>5, <4>1
    <3> QED
      BY <3>1, <3>3, <3>4, <3>5
  <2> QED
    BY <2>2, <2>7, <2>8, SeqEqual
<1>2. v(0) = 4 * y + b /\ v(1) = 4 * y + 2 + b /\ 0 \in Binary /\ 1 \in Binary
  BY DEF Binary, v
<1> QED
  BY <1>1, <1>2

\* The bits of the table's values are the pairs of VC-2's code.
LEMMA PairsAreBits ==
  \A e \in 1..256 : Pairs(e, ilog2(e)) = Bits(Value(e), 2 * ilog2(e))
<1> DEFINE T == {e \in 1..256 : Pairs(e, ilog2(e)) # Bits(Value(e), 2 * ilog2(e))}
<1> SUFFICES ASSUME T # {} PROVE FALSE
  OBVIOUS
<1>1. T \subseteq Nat
  OBVIOUS
<1>2. PICK e \in T : \A m \in T : e <= m
  BY <1>1, LeastNumber
<1>3. e \in 1..256 /\ Pairs(e, ilog2(e)) # Bits(Value(e), 2 * ilog2(e))
  OBVIOUS
<1>4. CASE e = 1
  <2>1. ilog2(e) = 0 /\ 2 * ilog2(e) = 0
    BY <1>4, LogDoubles
  <2>2. PairSeq(e, 0) \in Seq(Seq(Binary)) /\ Len(PairSeq(e, 0)) = 0
    <3>1. e \in Nat /\ 0 \in 0..8
      BY <1>3
    <3> QED
      BY <3>1, PairType
  <2>3. PairSeq(e, 0) = <<>>
    BY <2>2, EmptySeq
  <2>4. Pairs(e, 0) = <<>>
    BY <2>3, FlatEmpty DEF Pairs
  <2>5. Value(e) \in Nat /\ 0 \in 0..18
    BY <1>3, ValueDoubles
  <2>6. Bits(Value(e), 0) \in Seq(Binary) /\ Len(Bits(Value(e), 0)) = 0
    BY <2>5, BitsType
  <2>7. Bits(Value(e), 0) = <<>>
    BY <2>6, EmptySeq
  <2> QED
    BY <1>3, <2>1, <2>4, <2>7
<1>5. CASE e # 1
  <2>1. PICK h \in 1..128, b \in Binary : e = 2 * h + b
    <3>1. PICK z \in 2..256 : z = e
      BY <1>3, <1>5
    <3>2. z \div 2 \in 1..128 /\ z % 2 \in {0, 1} /\ z = 2 * (z \div 2) + (z % 2)
      BY SMT
    <3> QED
      BY <3>1, <3>2 DEF Binary
  <2>2. h \in 1..256 /\ ~(e <= h)
    BY <2>1 DEF Binary
  <2>3. Pairs(h, ilog2(h)) = Bits(Value(h), 2 * ilog2(h))
    BY <1>2, <2>2
  <2>4. PICK k \in 0..7 : k = ilog2(h) /\ ilog2(e) = k + 1
    <3>1. ilog2(e) = ilog2(h) + 1 /\ ilog2(e) \in 0..8 /\ ilog2(h) \in 0..8
      BY SMTT(60), <1>3, <2>1, <2>2, LogDoubles
    <3> QED
      BY <3>1
  <2>5. Pairs(e, k + 1) = Pairs(h, k) \o <<0, b>>
    <3>1. h \in Nat
      OBVIOUS
    <3> QED
      BY <2>1, <3>1, PairsDouble
  <2>6. PICK y \in Nat, m \in 0..16 : y = Value(h) /\ m = 2 * k /\ Value(e) = 4 * y + b
    <3>1. Value(h) \in Nat /\ Value(e) = 4 * Value(h) + b
      BY SMTT(60), <1>3, <2>1, <2>2, ValueDoubles
    <3> QED
      BY <3>1
  <2>7. Bits(4 * y + b, m + 2) = Bits(y, m) \o <<0, b>>
    BY BitsDouble, 0 \in Binary DEF Binary
  <2>8. 2 * ilog2(e) = m + 2
    BY <2>4, <2>6
  <2> QED
    BY <1>3, <2>3, <2>4, <2>5, <2>6, <2>7, <2>8
<1> QED
  BY <1>4, <1>5

\* What a coefficient may be coded as.
Coefs == {x \in [s : {-1, 0, 1}, d : 0..255] : x.s = 0 => x.d = 0}

Sign(x) == IF x.s < 0 THEN 1 ELSE 0

\* The word of 0 is the one bit 1.
LEMMA WordOfZero ==
  ASSUME NEW x \in Coefs, x.d = 0
  PROVE  Codeword(x) = <<1>> /\ ExpGolomb(x) = <<1>>
<1>1. Codeword(x) = <<1>>
  <2>1. Codeword(x) = Bits(1, 1)
    <3>1. WLLUT[0] = 1
      BY WordLengths
    <3> QED
      BY <3>1, TableDoubles DEF Codeword
  <2>2. Bits(1, 1) \in Seq(Binary) /\ Len(Bits(1, 1)) = 1 /\ Bits(1, 1)[1] = (1 \div 2^(1 - 1)) % 2
    <3>1. 1 \in Nat /\ 1 \in 0..18 /\ 1 \in 1..1
      OBVIOUS
    <3> QED
      BY ZenonT(60), <3>1, BitsType
  <2>3. Bits(1, 1)[1] = 1
    <3>1. 1 - 1 = 0 /\ 2^0 = 1
      BY PowerTable
    <3> QED
      BY <2>2, <3>1
  <2>4. <<1>> \in Seq(Binary) /\ Len(<<1>>) = 1 /\ <<1>>[1] = 1
    BY DEF Binary
  <2>5. \A i \in 1..Len(Bits(1, 1)) : Bits(1, 1)[i] = <<1>>[i]
    BY <2>2, <2>3, <2>4
  <2> QED
    BY <2>1, <2>2, <2>4, <2>5, SeqEqual
<1>2. ExpGolomb(x) = <<1>>
  <2>1. ilog2(x.d + 1) = 0
    BY LogDoubles
  <2>2. PairSeq(1, 0) \in Seq(Seq(Binary)) /\ Len(PairSeq(1, 0)) = 0
    <3>1. 1 \in Nat /\ 0 \in 0..8
      OBVIOUS
    <3> QED
      BY <3>1, PairType
  <2>3. FlattenSeq(PairSeq(1, 0)) = <<>>
    BY <2>2, EmptySeq, FlatEmpty
  <2>4. x.d + 1 = 1
    OBVIOUS
  <2>5. ExpGolomb(x) = (FlattenSeq(PairSeq(x.d + 1, ilog2(x.d + 1))) \o <<1>>) \o <<>>
    BY Zenon DEF ExpGolomb, PairSeq
  <2>6. (<<>> \o <<1>>) \o <<>> = <<1>>
    OBVIOUS
  <2> QED
    BY <2>1, <2>3, <2>4, <2>5, <2>6
<1> QED
  BY <1>1, <1>2

\* A code word of the table is VC-2's, and as long as the other table says.
LEMMA WordIs ==
  ASSUME NEW x \in Coefs
  PROVE  /\ Codeword(x) = ExpGolomb(x) /\ ExpGolomb(x) \in Seq(Binary)
         /\ Len(ExpGolomb(x)) = WLLUT[x.d] /\ WLLUT[x.d] \in 1..18
         /\ x.d = 0 => ExpGolomb(x) = <<1>>
<1>0. x.d \in 0..255 /\ x.s \in {-1, 0, 1}
  BY DEF Coefs
<1>1. CASE x.d = 0
  <2>1. WLLUT[x.d] = 1
    BY <1>1, WordLengths
  <2>2. <<1>> \in Seq(Binary) /\ Len(<<1>>) = 1
    BY DEF Binary
  <2> QED
    BY <1>1, <2>1, <2>2, WordOfZero
<1>2. CASE x.d # 0
  <2> DEFINE e == x.d + 1
  <2>1. e \in 2..256 /\ e \in 1..256
    BY <1>0, <1>2
  <2> HIDE DEF e
  <2>2. PICK k \in 0..8 : k = ilog2(e)
    BY <2>1, LogDoubles
  <2>3. PICK y \in Nat : y = Value(e) /\ CWLUT[e] = 4 * y + 2
    <3>1. PICK h \in 1..128, b \in Binary : e = 2 * h + b
      <4>1. e \div 2 \in 1..128 /\ e % 2 \in Binary /\ e = 2 * (e \div 2) + (e % 2)
        BY <2>1 DEF Binary
      <4> QED
        BY <4>1
    <3>2. CWLUT[2 * h + b] = 4 * Value(2 * h + b) + 2 /\ Value(e) \in Nat
      BY SMTT(60), <2>1, <3>1, ValueDoubles
    <3> QED
      BY <3>1, <3>2
  <2>4. PICK m \in 0..16 : m = 2 * k /\ WLLUT[x.d] = m + 2
    <3>1. WLLUT[x.d] = 2 * ilog2(x.d + 1) + 2
      BY <1>0, <1>2, WordLengths
    <3> QED
      BY <2>2, <3>1 DEF e
  <2> DEFINE b == Sign(x)
  <2>5. b \in Binary
    BY DEF Sign, Binary
  <2>6. Codeword(x) = Bits(4 * y + 2 + b, m + 2)
    <3>1. x.s < 0 => 4 * y + 2 + b = CWLUT[x.d + 1] + 1
      BY <2>3 DEF Sign, e
    <3>2. ~(x.s < 0) => 4 * y + 2 + b = CWLUT[x.d + 1]
      BY <2>3 DEF Sign, e
    <3> HIDE DEF b
    <3>3. Codeword(x) = Bits(4 * y + 2 + b, WLLUT[x.d])
      BY <1>2, <3>1, <3>2, Zenon DEF Codeword
    <3> QED
      BY <2>4, <3>3
  <2> HIDE DEF b
  <2>7. Bits(4 * y + 2 + b, m + 2) = Bits(y, m) \o <<1, b>>
    BY <2>5, BitsDouble
  <2>8. Bits(y, m) = Pairs(e, k)
    BY <2>1, <2>2, <2>3, <2>4, PairsAreBits
  <2>9. ExpGolomb(x) = (Pairs(e, k) \o <<1>>) \o <<b>>
    <3>1. (IF x.d = 0 THEN <<>> ELSE IF x.s < 0 THEN <<1>> ELSE <<0>>) = <<b>>
      BY <1>2 DEF b, Sign
    <3>2. ExpGolomb(x) = (FlattenSeq(PairSeq(e, ilog2(e))) \o <<1>>) \o
                         (IF x.d = 0 THEN <<>> ELSE IF x.s < 0 THEN <<1>> ELSE <<0>>)
      BY Zenon DEF ExpGolomb, PairSeq, e
    <3> QED
      BY <2>2, <3>1, <3>2 DEF Pairs
  <2>10. Pairs(e, k) \in Seq(Binary) /\ Len(Pairs(e, k)) = m
    <3>1. y \in Nat /\ m \in 0..18
      OBVIOUS
    <3> QED
      BY <2>8, <3>1, BitsType
  <2>11. (Pairs(e, k) \o <<1>>) \o <<b>> = Pairs(e, k) \o <<1, b>>
    <3>1. \A u \in Binary : /\ <<1>> \in Seq(Binary) /\ <<u>> \in Seq(Binary)
                            /\ <<1>> \o <<u>> = <<1, u>>
      <4> SUFFICES ASSUME NEW u \in Binary
                   PROVE  /\ <<1>> \in Seq(Binary) /\ <<u>> \in Seq(Binary)
                          /\ <<1>> \o <<u>> = <<1, u>>
        OBVIOUS
      <4>1. <<1>> \in Seq(Binary) /\ <<u>> \in Seq(Binary) /\ <<1, u>> \in Seq(Binary)
        BY DEF Binary
      <4>2. Len(<<1>>) = 1 /\ Len(<<u>>) = 1 /\ Len(<<1, u>>) = 2 /\ <<1>>[1] = 1 /\ <<u>>[1] = u
            /\ <<1, u>>[1] = 1 /\ <<1, u>>[2] = u
        OBVIOUS
      <4> DEFINE v == <<1>> \o <<u>>
      <4>3. v \in Seq(Binary) /\ Len(v) = 2 /\ v[1] = 1 /\ v[2] = u
        BY <4>1, <4>2, ConcatProperties
      <4>4. \A i \in 1..Len(v) : v[i] = <<1, u>>[i]
        BY <4>2, <4>3
      <4>5. v = <<1, u>>
        BY <4>1, <4>2, <4>3, <4>4, SeqEqual
      <4> QED
        BY <4>1, <4>5
    <3> QED
      BY <2>5, <2>10, <3>1, ConcatAssociative
  <2>12. /\ Pairs(e, k) \o <<1, b>> \in Seq(Binary) /\ Len(Pairs(e, k) \o <<1, b>>) = m + 2
    <3>1. <<1, b>> \in Seq(Binary) /\ Len(<<1, b>>) = 2
      BY <2>5 DEF Binary
    <3> QED
      BY <2>10, <3>1, ConcatProperties
  <2>13. m + 2 \in 1..18
    OBVIOUS
  <2> QED
    BY <1>2, <2>4, <2>6, <2>7, <2>8, <2>9, <2>11, <2>12, <2>13
<1> QED
  BY <1>1, <1>2

\* Runs of ones and of zeros as sequences.
LEMMA OnesType ==
  ASSUME NEW k \in Nat
  PROVE  Ones(k) \in Seq(Binary) /\ Len(Ones(k)) = k /\ \A i \in 1..k : Ones(k)[i] = 1
<1>1. Ones(k) = [i \in 1..k |-> Ones(k)[i]] /\ \A i \in 1..k : Ones(k)[i] = 1
  BY DEF Ones
<1> QED
  BY <1>1, SeqIs DEF Binary

LEMMA ZerosType ==
  ASSUME NEW k \in Nat
  PROVE  Zeros(k) \in Seq(Binary) /\ Len(Zeros(k)) = k
<1>1. Zeros(k) = [i \in 1..k |-> Zeros(k)[i]] /\ \A i \in 1..k : Zeros(k)[i] = 0
  BY DEF Zeros
<1> QED
  BY <1>1, SeqIs DEF Binary

WordSeq(xs) == [i \in DOMAIN xs |-> ExpGolomb(xs[i])]

\* The words of a sequence of coefficients.
LEMMA WordSeqType ==
  ASSUME NEW xs \in Seq(Coefs)
  PROVE  /\ WordSeq(xs) \in Seq(Seq(Binary)) /\ Len(WordSeq(xs)) = Len(xs)
         /\ \A i \in 1..Len(xs) : WordSeq(xs)[i] = ExpGolomb(xs[i])
         /\ Words(xs) = FlattenSeq(WordSeq(xs)) /\ Words(xs) \in Seq(Binary)
<1>1. DOMAIN xs = 1..Len(xs) /\ Len(xs) \in Nat
  BY LenProperties
<1>2. WordSeq(xs) = [i \in 1..Len(xs) |-> ExpGolomb(xs[i])]
  BY <1>1 DEF WordSeq
<1>3. \A i \in 1..Len(xs) : WordSeq(xs)[i] = ExpGolomb(xs[i]) /\ ExpGolomb(xs[i]) \in Seq(Binary)
  BY <1>2, ElementOfSeq, WordIs
<1>4. WordSeq(xs) = [i \in 1..Len(xs) |-> WordSeq(xs)[i]]
  BY <1>2
<1>5. WordSeq(xs) \in Seq(Seq(Binary)) /\ Len(WordSeq(xs)) = Len(xs)
  BY <1>1, <1>3, <1>4, SeqIs
<1>6. Words(xs) = FlattenSeq(WordSeq(xs))
  BY Zenon DEF Words, WordSeq
<1> QED
  BY <1>3, <1>5, <1>6, FlatIs

LEMMA NoWords == Words(<<>>) = <<>>
<1>1. <<>> \in Seq(Coefs) /\ Len(<<>>) = 0
  BY EmptySeq
<1>2. WordSeq(<<>>) \in Seq(Seq(Binary)) /\ Len(WordSeq(<<>>)) = 0
      /\ Words(<<>>) = FlattenSeq(WordSeq(<<>>))
  BY <1>1, WordSeqType
<1>3. WordSeq(<<>>) = <<>>
  BY <1>2, EmptySeq
<1> QED
  BY <1>2, <1>3, FlatEmpty

\* Words are put together like the coefficients.
LEMMA WordsConcat ==
  ASSUME NEW xs \in Seq(Coefs), NEW ys \in Seq(Coefs)
  PROVE  Words(xs \o ys) = Words(xs) \o Words(ys)
<1> DEFINE u == WordSeq(xs)
           v == WordSeq(ys)
           w == WordSeq(xs \o ys)
<1>1. /\ xs \o ys \in Seq(Coefs) /\ Len(xs \o ys) = Len(xs) + Len(ys)
      /\ Len(xs) \in Nat /\ Len(ys) \in Nat
      /\ \A i \in 1..Len(xs) + Len(ys) :
            (xs \o ys)[i] = IF i <= Len(xs) THEN xs[i] ELSE ys[i - Len(xs)]
  BY ConcatProperties, LenProperties
<1>2. /\ u \in Seq(Seq(Binary)) /\ Len(u) = Len(xs)
      /\ \A i \in 1..Len(xs) : u[i] = ExpGolomb(xs[i])
      /\ Words(xs) = FlattenSeq(u)
  BY WordSeqType
<1>3. /\ v \in Seq(Seq(Binary)) /\ Len(v) = Len(ys)
      /\ \A i \in 1..Len(ys) : v[i] = ExpGolomb(ys[i])
      /\ Words(ys) = FlattenSeq(v)
  BY WordSeqType
<1>4. /\ w \in Seq(Seq(Binary)) /\ Len(w) = Len(xs) + Len(ys)
      /\ \A i \in 1..Len(xs) + Len(ys) : w[i] = ExpGolomb((xs \o ys)[i])
      /\ Words(xs \o ys) = FlattenSeq(w)
  BY <1>1, WordSeqType
<1> HIDE DEF u, v, w
<1>5. /\ u \o v \in Seq(Seq(Binary)) /\ Len(u \o v) = Len(xs) + Len(ys)
      /\ \A i \in 1..Len(xs) + Len(ys) :
            (u \o v)[i] = IF i <= Len(xs) THEN u[i] ELSE v[i - Len(xs)]
  <2>1. /\ u \o v \in Seq(Seq(Binary)) /\ Len(u \o v) = Len(u) + Len(v)
        /\ \A i \in 1..Len(u) + Len(v) : (u \o v)[i] = IF i <= Len(u) THEN u[i] ELSE v[i - Len(u)]
    <3>1. PICK T : T = Seq(Binary)
      OBVIOUS
    <3>2. u \in Seq(T) /\ v \in Seq(T)
      BY <1>2, <1>3, <3>1
    <3> QED
      BY <3>1, <3>2, ConcatProperties
  <2> QED
    BY <1>2, <1>3, <2>1
<1>6. ASSUME NEW i \in 1..Len(xs) + Len(ys) PROVE w[i] = (u \o v)[i]
  <2>1. CASE i <= Len(xs)
    <3>1. i \in 1..Len(xs)
      BY <1>1, <2>1
    <3> QED
      BY <1>1, <1>2, <1>4, <1>5, <2>1, <3>1
  <2>2. CASE ~(i <= Len(xs))
    <3>1. i - Len(xs) \in 1..Len(ys)
      BY <1>1, <2>2
    <3> QED
      BY <1>1, <1>3, <1>4, <1>5, <2>2, <3>1
  <2> QED
    BY <2>1, <2>2
<1>7. w = u \o v
  BY <1>4, <1>5, <1>6, SeqEqual
<1> QED
  BY <1>2, <1>3, <1>4, <1>7, FlatConcat

LEMMA WordsOne ==
  ASSUME NEW x \in Coefs
  PROVE  Words(<<x>>) = ExpGolomb(x) /\ <<x>> \in Seq(Coefs)
<1>1. <<x>> \in Seq(Coefs) /\ Len(<<x>>) = 1 /\ <<x>>[1] = x
  OBVIOUS
<1>2. /\ WordSeq(<<x>>) \in Seq(Seq(Binary)) /\ Len(WordSeq(<<x>>)) = 1
      /\ WordSeq(<<x>>)[1] = ExpGolomb(x) /\ Words(<<x>>) = FlattenSeq(WordSeq(<<x>>))
  <2>1. PICK xs \in Seq(Coefs) : xs = <<x>>
    BY <1>1
  <2>2. /\ WordSeq(xs) \in Seq(Seq(Binary)) /\ Len(WordSeq(xs)) = Len(xs)
        /\ \A i \in 1..Len(xs) : WordSeq(xs)[i] = ExpGolomb(xs[i])
        /\ Words(xs) = FlattenSeq(WordSeq(xs))
    BY WordSeqType
  <2>3. Len(xs) = 1 /\ xs[1] = x
    BY <1>1, <2>1
  <2>4. WordSeq(xs)[1] = ExpGolomb(x) /\ Len(WordSeq(xs)) = 1
    BY <2>2, <2>3
  <2> QED
    BY <2>1, <2>2, <2>4
<1>3. ExpGolomb(x) \in Seq(Binary)
  BY WordIs
<1> DEFINE w == ExpGolomb(x)
           s == WordSeq(<<x>>)
<1> HIDE DEF w, s
<1>4. <<w>> \in Seq(Seq(Binary)) /\ Len(<<w>>) = 1 /\ <<w>>[1] = w
  BY <1>3 DEF w
<1>5. s = <<w>>
  <2>1. \A i \in 1..Len(s) : s[i] = <<w>>[i]
    BY <1>2, <1>4 DEF s, w
  <2> QED
    BY <1>2, <1>4, <2>1, SeqEqual DEF s
<1>6. FlattenSeq(<<w>>) = w
  BY <1>3, FlatOne DEF w
<1> QED
  BY <1>1, <1>2, <1>5, <1>6 DEF w, s

\* One coefficient more.
LEMMA WordsNext ==
  ASSUME NEW xs \in Seq(Coefs), NEW x \in Coefs
  PROVE  /\ Append(xs, x) \in Seq(Coefs) /\ Words(Append(xs, x)) = Words(xs) \o ExpGolomb(x)
         /\ Len(Words(Append(xs, x))) = Len(Words(xs)) + WLLUT[x.d]
<1>1. Append(xs, x) = xs \o <<x>> /\ Append(xs, x) \in Seq(Coefs)
  OBVIOUS
<1>2. Words(Append(xs, x)) = Words(xs) \o ExpGolomb(x)
  BY <1>1, WordsConcat, WordsOne
<1>3. Words(xs) \in Seq(Binary) /\ ExpGolomb(x) \in Seq(Binary) /\ Len(ExpGolomb(x)) = WLLUT[x.d]
  BY WordSeqType, WordIs
<1>4. Len(Words(xs) \o ExpGolomb(x)) = Len(Words(xs)) + Len(ExpGolomb(x))
  BY <1>3, ConcatProperties
<1> QED
  BY <1>1, <1>2, <1>3, <1>4

\* One element more of a sequence.
LEMMA PrefixNext ==
  ASSUME NEW S, NEW xs \in Seq(S), NEW m \in Nat, m < Len(xs)
  PROVE  SubSeq(xs, 1, m + 1) = Append(SubSeq(xs, 1, m), xs[m + 1]) /\ SubSeq(xs, 1, m) \in Seq(S)
         /\ xs[m + 1] \in S
<1>0. Len(xs) \in Nat /\ \A i \in 1..Len(xs) : xs[i] \in S
  BY LenProperties, ElementOfSeq
<1>1. /\ SubSeq(xs, 1, m + 1) \in Seq(S) /\ Len(SubSeq(xs, 1, m + 1)) = m + 1
      /\ \A i \in 1..m+1 : SubSeq(xs, 1, m + 1)[i] = xs[i]
  OBVIOUS
<1>2. /\ SubSeq(xs, 1, m) \in Seq(S) /\ Len(SubSeq(xs, 1, m)) = m
      /\ \A i \in 1..m : SubSeq(xs, 1, m)[i] = xs[i]
  OBVIOUS
<1>3. xs[m + 1] \in S
  BY <1>0
<1> DEFINE s == SubSeq(xs, 1, m + 1)
           t == SubSeq(xs, 1, m)
           a == Append(t, xs[m + 1])
<1> HIDE DEF s, t
<1>4. a \in Seq(S) /\ Len(a) = m + 1 /\ \A i \in 1..m+1 : a[i] = IF i <= m THEN t[i] ELSE xs[m + 1]
  BY <1>2, <1>3 DEF t
<1>5. \A i \in 1..Len(s) : s[i] = a[i]
  <2> SUFFICES ASSUME NEW i \in 1..m+1 PROVE s[i] = a[i]
    BY <1>1 DEF s
  <2>1. i \in 1..m \/ (i = m + 1 /\ ~(i <= m))
    OBVIOUS
  <2> QED
    BY <1>1, <1>2, <1>4, <2>1 DEF s, t
<1> HIDE DEF a
<1>6. s = a
  BY <1>1, <1>4, <1>5, SeqEqual DEF s
<1> QED
  BY <1>2, <1>3, <1>6 DEF s, t, a

\* Coefficients that are 0 have words of one bit, a 1.
LEMMA WordsOfZeros ==
  ASSUME NEW xs \in Seq(Coefs), \A i \in 1..Len(xs) : xs[i].d = 0
  PROVE  Words(xs) = Ones(Len(xs))
<1> DEFINE G == {m \in Nat : m <= Len(xs) => Words(SubSeq(xs, 1, m)) = Ones(m)}
<1>0. Len(xs) \in Nat
  BY LenProperties
<1>1. 0 \in G
  <2>1. SubSeq(xs, 1, 0) = <<>>
    BY SubSeqEmpty
  <2>2. Ones(0) \in Seq(Binary) /\ Len(Ones(0)) = 0
    BY OnesType
  <2>3. Ones(0) = <<>>
    BY <2>2, EmptySeq
  <2> QED
    BY <2>1, <2>3, NoWords
<1>2. ASSUME NEW m \in Nat, m \in G PROVE m + 1 \in G
  <2> SUFFICES ASSUME m + 1 <= Len(xs) PROVE Words(SubSeq(xs, 1, m + 1)) = Ones(m + 1)
    OBVIOUS
  <2>1. /\ SubSeq(xs, 1, m + 1) = Append(SubSeq(xs, 1, m), xs[m + 1])
        /\ SubSeq(xs, 1, m) \in Seq(Coefs) /\ xs[m + 1] \in Coefs
    <3>1. m < Len(xs)
      BY <1>0
    <3> QED
      BY <3>1, PrefixNext
  <2>2. Words(SubSeq(xs, 1, m)) = Ones(m)
    BY <1>0, <1>2
  <2>3. ExpGolomb(xs[m + 1]) = <<1>>
    <3>1. m + 1 \in 1..Len(xs)
      BY <1>0
    <3> QED
      BY <2>1, <3>1, WordIs
  <2>4. Words(SubSeq(xs, 1, m + 1)) = Ones(m) \o <<1>>
    BY <2>1, <2>2, <2>3, WordsNext
  <2>5. Ones(m) \o <<1>> = Ones(m + 1)
    <3>1. /\ Ones(m) \in Seq(Binary) /\ Len(Ones(m)) = m /\ \A i \in 1..m : Ones(m)[i] = 1
          /\ Ones(m+1) \in Seq(Binary) /\ Len(Ones(m+1)) = m+1 /\ \A i \in 1..m+1 : Ones(m+1)[i] = 1
      BY OnesType
    <3>2. <<1>> \in Seq(Binary) /\ Len(<<1>>) = 1 /\ <<1>>[1] = 1
      BY DEF Binary
    <3>3. /\ Ones(m) \o <<1>> \in Seq(Binary) /\ Len(Ones(m) \o <<1>>) = Len(Ones(m)) + Len(<<1>>)
          /\ \A i \in 1..Len(Ones(m)) + Len(<<1>>) : (Ones(m) \o <<1>>)[i]
                = IF i <= Len(Ones(m)) THEN Ones(m)[i] ELSE <<1>>[i - Len(Ones(m))]
      BY <3>1, <3>2, ConcatProperties
    <3> DEFINE s == Ones(m)
               t == Ones(m + 1)
               u == Ones(m) \o <<1>>
    <3>4. \A i \in 1..m+1 : u[i] = 1
      <4> SUFFICES ASSUME NEW i \in 1..m+1 PROVE u[i] = 1
        OBVIOUS
      <4>1. i \in 1..m \/ i - m = 1
        OBVIOUS
      <4> HIDE DEF u, s
      <4>2. u[i] = IF i <= m THEN s[i] ELSE <<1>>[i - m]
        BY <3>1, <3>2, <3>3 DEF u, s
      <4>3. \A j \in 1..m : s[j] = 1
        BY <3>1 DEF s
      <4> QED
        BY <3>2, <4>1, <4>2, <4>3
    <3>5. u \in Seq(Binary) /\ t \in Seq(Binary) /\ Len(u) = Len(t) /\ \A i \in 1..Len(u) : u[i] = t[i]
      BY <3>1, <3>2, <3>3, <3>4
    <3> HIDE DEF u, t
    <3>6. u = t
      BY <3>5, SeqEqual
    <3> QED
      BY <3>6 DEF u, t
  <2> QED
    BY <2>4, <2>5
<1>3. Nat \subseteq G
  <2> HIDE DEF G
  <2> QED
    BY <1>1, <1>2, AllNumbers
<1>4. Words(SubSeq(xs, 1, Len(xs))) = Ones(Len(xs))
  BY <1>0, <1>3
<1>5. SubSeq(xs, 1, Len(xs)) = xs
  OBVIOUS
<1> QED
  BY <1>4, <1>5

\* Behind the m-th coefficient there are only zeros.
LEMMA WordsAndZeros ==
  ASSUME NEW xs \in Seq(Coefs), NEW m \in 0..Len(xs), \A i \in m+1..Len(xs) : xs[i].s = 0
  PROVE  /\ SubSeq(xs, 1, m) \in Seq(Coefs)
         /\ Words(xs) = Words(SubSeq(xs, 1, m)) \o Ones(Len(xs) - m)
         /\ Len(Words(xs)) = Len(Words(SubSeq(xs, 1, m))) + (Len(xs) - m)
<1> DEFINE a == SubSeq(xs, 1, m)
           b == SubSeq(xs, m + 1, Len(xs))
<1>0. Len(xs) \in Nat /\ m \in Nat /\ Len(xs) - m \in Nat /\ \A i \in 1..Len(xs) : xs[i] \in Coefs
  BY LenProperties, ElementOfSeq
<1>1. a \in Seq(Coefs)
  BY <1>0
<1>2. b \in Seq(Coefs) /\ Len(b) = Len(xs) - m /\ \A i \in 1..Len(b) : b[i] = xs[m + i]
  <2>1. \A i \in m+1..Len(xs) : xs[i] \in Coefs
    BY <1>0
  <2>2. m + 1 \in Int /\ Len(xs) \in Int
    BY <1>0
  <2>3. /\ b \in Seq(Coefs) /\ Len(b) = (IF m + 1 <= Len(xs) THEN Len(xs) - (m + 1) + 1 ELSE 0)
        /\ \A i \in 1..Len(xs) - (m + 1) + 1 : b[i] = xs[(m + 1) + i - 1]
    BY <2>1, <2>2, SubSeqProperties
  <2>4. \A i \in 1..(Len(xs) - m) : (m + 1) + i - 1 = m + i
    BY <1>0
  <2>5. Len(xs) - (m + 1) + 1 = Len(xs) - m
    BY <1>0
  <2> HIDE DEF b
  <2>6. Len(b) = Len(xs) - m
    BY SMTT(60), <1>0, <2>3
  <2>7. \A i \in 1..Len(b) : b[i] = xs[m + i]
    BY <2>3, <2>4, <2>5, <2>6
  <2> QED
    BY <2>3, <2>6, <2>7
<1>3. xs = a \o b
  <2>1. Len(a) = m /\ \A i \in 1..m : a[i] = xs[i]
    BY <1>0
  <2> HIDE DEF a, b
  <2>2. /\ a \o b \in Seq(Coefs) /\ Len(a \o b) = Len(a) + Len(b)
        /\ \A i \in 1..Len(a) + Len(b) : (a \o b)[i] = IF i <= Len(a) THEN a[i] ELSE b[i - Len(a)]
    BY <1>1, <1>2, ConcatProperties
  <2>3. Len(a) + Len(b) = Len(xs)
    BY <1>0, <1>2, <2>1
  <2>4. ASSUME NEW i \in 1..Len(xs) PROVE xs[i] = (a \o b)[i]
    <3>1. CASE i <= m
      <4>1. i \in 1..m
        BY <1>0, <3>1
      <4> QED
        BY <2>1, <2>2, <2>3, <3>1, <4>1
    <3>2. CASE ~(i <= m)
      <4>1. i - m \in 1..Len(b) /\ m + (i - m) = i
        BY <1>0, <1>2, <3>2
      <4>2. (a \o b)[i] = b[i - m]
        BY <2>1, <2>2, <2>3, <3>2
      <4> QED
        BY <1>2, <4>1, <4>2
    <3> QED
      BY <3>1, <3>2
  <2>5. Len(a \o b) = Len(xs)
    BY <2>2, <2>3
  <2> QED
    BY <2>2, <2>4, <2>5, SeqEqual
<1>4. \A i \in 1..Len(b) : b[i].d = 0
  <2> SUFFICES ASSUME NEW i \in 1..Len(b) PROVE b[i].d = 0
    OBVIOUS
  <2>1. m + i \in m+1..Len(xs) /\ m + i \in 1..Len(xs)
    BY <1>0, <1>2
  <2>2. b[i] = xs[m + i] /\ xs[m + i].s = 0 /\ xs[m + i] \in Coefs
    BY <1>0, <1>2, <2>1
  <2> HIDE DEF b
  <2> QED
    BY <2>2 DEF Coefs
<1> HIDE DEF a, b
<1>5. Words(b) = Ones(Len(xs) - m)
  BY <1>2, <1>4, WordsOfZeros
<1>6. Words(xs) = Words(a) \o Ones(Len(xs) - m)
  BY <1>1, <1>2, <1>3, <1>5, WordsConcat
<1>7. Len(Words(xs)) = Len(Words(a)) + (Len(xs) - m)
  <2>1. Words(a) \in Seq(Binary) /\ Ones(Len(xs) - m) \in Seq(Binary)
        /\ Len(Ones(Len(xs) - m)) = Len(xs) - m
    BY <1>0, <1>1, WordSeqType, OnesType
  <2> QED
    BY ZenonT(60), <1>6, <2>1, ConcatProperties
<1> QED
  BY <1>1, <1>6, <1>7 DEF a

----------------------------------------------------------------------------
(* The coding of a slice, for every shape of slice.                        *)

\* The invariant of the coding of a slice.  First the types.
CodingType ==
    /\ shape \in Shapes /\ slice_size_scalar \in Scalars /\ last \in BOOLEAN
    /\ stage \in {"encode", "fit", "length", "words", "done"}
    /\ c \in Components /\ (stage = "fit" => c = 1) /\ (stage = "done" => c = Len(SAMPLES))
    /\ coefs \in [Components -> Seq(Coefs)]
    /\ length \in [Components -> Int] /\ samples \in [Components -> Int]
    /\ padding \in Nat /\ padding % slice_size_scalar = 0
    /\ n \in Nat /\ accum \in Seq(Binary)
    /\ optr \in Seq(Binary) /\ ocounter \in Nat /\ 8 * ocounter <= Len(optr)
    /\ components \in Seq([start : Nat, byte : Nat, p : Nat])
    /\ Len(components) = (IF stage \in {"encode", "fit"} THEN 0 ELSE IF stage = "length" THEN c - 1 ELSE c)

\* The words of component k that are, or will be, written.
Written(k) == Words(SubSeq(coefs[k], 1, samples[k]))

\* m is the number of coefficients of component k up to the last that is not 0.
LastNonzero(k, m) ==
    /\ m \in 0..Len(coefs[k])
    /\ \A i \in m+1..Len(coefs[k]) : coefs[k][i].s = 0
    /\ m # 0 => coefs[k][m].s # 0

\* While component k is encoded, and once it has been: length is that of the
\* words so far in bits, then that of the words to be written in bytes.
Counting(k) == /\ Len(coefs[k]) <= SAMPLES[k] /\ LastNonzero(k, samples[k] + 1)
               /\ length[k] = Len(Words(coefs[k]))
Counted(k) == /\ Len(coefs[k]) = SAMPLES[k] /\ samples[k] \in 0..SAMPLES[k]
              /\ length[k] = (Len(Written(k)) + 7) \div 8

\* What the first pass knows of the components.
LengthsInv ==
    /\ \A k \in Components : IF stage = "encode" /\ k >= c THEN Counting(k) ELSE Counted(k)
    /\ \/ stage # "encode" /\ Blanked
       \/ \A k \in Components : (stage = "encode" /\ k >= c) \/ LastNonzero(k, samples[k])
    /\ stage \in {"length", "words", "done"} =>
          \A k \in Components : Units(length[k]) <= MAX_LENGTH

\* The place behind component k.
EndOf(k) == IF k = Len(components) THEN ocounter ELSE components[k + 1].start - 1

\* Component k lies between start and EndOf(k) as its length byte says, its
\* words at the front and ones behind them.
Stands(k) ==
    LET from == components[k].start
    IN  /\ from + components[k].byte * slice_size_scalar = EndOf(k)
        /\ Len(Written(k)) <= 8 * (EndOf(k) - from)
        /\ \A i \in 1..8 * (EndOf(k) - from) :
              optr[8 * from + i] = IF i <= Len(Written(k)) THEN Written(k)[i] ELSE 1

\* The words written so far are the bits stored followed by those in accum.
Writing ==
    LET from == components[c].start
        stored == 8 * (ocounter - from)
        done == Words(SubSeq(coefs[c], 1, n))
    IN  /\ n <= samples[c] /\ Len(accum) < 8 /\ stored + Len(accum) = Len(done)
        /\ \A i \in 1..Len(done) :
              done[i] = IF i <= stored THEN optr[8 * from + i] ELSE accum[i - stored]

\* What the second pass has put into the stream.
OutputInv ==
    /\ \A k \in DOMAIN components :
          /\ components[k].start <= ocounter
          /\ components[k].byte * slice_size_scalar = length[k] + components[k].p
    /\ \A k \in DOMAIN components : (stage = "words" /\ k = c) \/ Stands(k)
    /\ stage = "words" => Writing

CodingInv == CodingType /\ LengthsInv /\ OutputInv

\* What the assumption says of the slice.
LEMMA ShapeIs ==
  ASSUME SliceCodingAssumption, shape \in Shapes, slice_size_scalar \in Scalars
  PROVE  /\ SAMPLES \in Seq(Nat \ {0}) /\ Len(SAMPLES) \in Nat \ {0} /\ Components = 1..Len(SAMPLES)
         /\ \A k \in Components : SAMPLES[k] \in Nat \ {0}
         /\ slice_size_scalar \in Nat \ {0} /\ MAX_LENGTH \in Nat
         /\ Coefficients \subseteq Coefs
<1>1. shape.SAMPLES \in Seq(Nat \ {0}) /\ shape.SAMPLES # <<>> /\ shape.quotients \subseteq 0..255
  BY DEF SliceCodingAssumption
<1>2. SAMPLES \in Seq(Nat \ {0}) /\ Len(SAMPLES) \in Nat \ {0} /\ Components = 1..Len(SAMPLES)
  BY <1>1, EmptySeq, LenProperties DEF SAMPLES, Components
<1>3. \A k \in Components : SAMPLES[k] \in Nat \ {0}
  BY <1>2, ElementOfSeq
<1>4. Coefficients \subseteq Coefs
  BY <1>1 DEF Coefficients, Coefs
<1> QED
  BY <1>2, <1>3, <1>4 DEF SliceCodingAssumption

\* A store leaves the bits before it alone.
LEMMA StoreIs ==
  ASSUME optr \in Seq(Binary), NEW at \in Nat, 8 * at <= Len(optr), NEW bits \in Seq(Binary)
  PROVE  /\ Store(at, bits) \in Seq(Binary) /\ Len(Store(at, bits)) >= 8 * at + Len(bits)
         /\ \A i \in 1..8 * at : Store(at, bits)[i] = optr[i]
         /\ \A i \in 1..Len(bits) : Store(at, bits)[8 * at + i] = bits[i]
<1> DEFINE a == SubSeq(optr, 1, 8 * at)
           from == 8 * at + Len(bits) + 1
           b == SubSeq(optr, from, Len(optr))
<1>0. Len(optr) \in Nat /\ Len(bits) \in Nat /\ 8 * at \in Nat /\ from \in Nat
      /\ \A i \in 1..Len(optr) : optr[i] \in Binary
  BY LenProperties, ElementOfSeq
<1>1. a \in Seq(Binary) /\ Len(a) = 8 * at /\ \A i \in 1..8 * at : a[i] = optr[i]
  <2>1. \A i \in 1..8 * at : optr[i] \in Binary
    BY <1>0
  <2>2. 1 \in Int /\ 8 * at \in Int
    BY <1>0
  <2>3. /\ a \in Seq(Binary) /\ Len(a) = (IF 1 <= 8 * at THEN 8 * at - 1 + 1 ELSE 0)
        /\ \A i \in 1..8 * at - 1 + 1 : a[i] = optr[1 + i - 1]
    BY <2>1, <2>2, SubSeqProperties
  <2> HIDE DEF a
  <2> QED
    BY <1>0, <2>3
<1>2. b \in Seq(Binary) /\ Len(b) \in Nat
  <2>1. \A i \in from..Len(optr) : optr[i] \in Binary
    BY <1>0
  <2>2. from \in Int /\ Len(optr) \in Int
    BY <1>0
  <2> HIDE DEF from
  <2>3. b \in Seq(Binary)
    BY <2>1, <2>2, SubSeqProperties
  <2> QED
    BY <2>3, LenProperties
<1>3. Store(at, bits) = (a \o bits) \o b
  BY DEF Store
<1> HIDE DEF a, b, from
<1> DEFINE ab == a \o bits
<1>4. /\ ab \in Seq(Binary) /\ Len(ab) = Len(a) + Len(bits)
      /\ \A i \in 1..Len(a) + Len(bits) : ab[i] = IF i <= Len(a) THEN a[i] ELSE bits[i - Len(a)]
  BY <1>1, ConcatProperties
<1> HIDE DEF ab
<1>5. /\ ab \o b \in Seq(Binary) /\ Len(ab \o b) = Len(ab) + Len(b)
      /\ \A i \in 1..Len(ab) + Len(b) : (ab \o b)[i] = IF i <= Len(ab) THEN ab[i] ELSE b[i - Len(ab)]
  <2>1. PICK u \in Seq(Binary), v \in Seq(Binary) : u = ab /\ v = b
    BY <1>2, <1>4
  <2>2. /\ u \o v \in Seq(Binary) /\ Len(u \o v) = Len(u) + Len(v)
        /\ \A i \in 1..Len(u) + Len(v) : (u \o v)[i] = IF i <= Len(u) THEN u[i] ELSE v[i - Len(u)]
    BY ConcatProperties
  <2> QED
    BY <2>1, <2>2
<1>6. Store(at, bits) = ab \o b
  BY <1>3 DEF ab
<1>7. Len(ab) = 8 * at + Len(bits) /\ Len(ab) \in Nat
  BY <1>0, <1>1, <1>4
<1>8. \A i \in 1..8 * at : (ab \o b)[i] = optr[i]
  <2> SUFFICES ASSUME NEW i \in 1..8 * at PROVE (ab \o b)[i] = optr[i]
    OBVIOUS
  <2>1. i \in 1..Len(ab) + Len(b) /\ i <= Len(ab) /\ i \in 1..Len(a) + Len(bits) /\ i <= Len(a)
    BY <1>0, <1>1, <1>2, <1>7
  <2> QED
    BY <1>1, <1>4, <1>5, <2>1
<1>9. \A i \in 1..Len(bits) : (ab \o b)[8 * at + i] = bits[i]
  <2> SUFFICES ASSUME NEW i \in 1..Len(bits) PROVE (ab \o b)[8 * at + i] = bits[i]
    OBVIOUS
  <2>1. PICK j \in Nat : j = 8 * at + i
    BY <1>0
  <2>2. j \in 1..Len(ab) + Len(b) /\ j <= Len(ab) /\ j \in 1..Len(a) + Len(bits) /\ ~(j <= Len(a))
        /\ j - Len(a) = i
    BY <1>0, <1>1, <1>2, <1>7, <2>1
  <2>3. ab[j] = bits[i]
    BY <1>4, <2>2
  <2> QED
    BY <1>5, <2>1, <2>2, <2>3
<1>10. Len(ab \o b) >= 8 * at + Len(bits)
  BY <1>2, <1>5, <1>7
<1> QED
  BY <1>5, <1>6, <1>8, <1>9, <1>10

\* The invariant holds at first and each action keeps it.
LEMMA CodingBegins ==
  ASSUME SliceCodingAssumption, CodingInit
  PROVE  CodingInv
<1>1. /\ shape \in Shapes /\ slice_size_scalar \in Scalars /\ last \in BOOLEAN
      /\ stage = "encode" /\ c = 1
      /\ coefs = [i \in Components |-> <<>>]
      /\ length = [i \in Components |-> 0] /\ samples = [i \in Components |-> -1]
      /\ padding = 0 /\ n = 0 /\ accum = <<>>
      /\ optr = Zeros(8) /\ ocounter = 1 /\ components = <<>>
  BY DEF CodingInit
<1>2. /\ Len(SAMPLES) \in Nat \ {0} /\ Components = 1..Len(SAMPLES)
      /\ \A k \in Components : SAMPLES[k] \in Nat \ {0}
      /\ slice_size_scalar \in Nat \ {0}
  BY <1>1, ShapeIs
<1>3. CodingType
  <2>1. optr \in Seq(Binary) /\ Len(optr) = 8
    BY <1>1, ZerosType
  <2>2. coefs \in [Components -> Seq(Coefs)] /\ accum \in Seq(Binary)
        /\ components \in Seq([start : Nat, byte : Nat, p : Nat]) /\ Len(components) = 0
    BY <1>1
  <2>3. length \in [Components -> Int] /\ samples \in [Components -> Int]
    BY <1>1
  <2>4. c \in Components /\ padding % slice_size_scalar = 0
    BY <1>1, <1>2
  <2>5. padding \in Nat /\ n \in Nat /\ ocounter \in Nat /\ 8 * ocounter <= Len(optr)
        /\ stage \in {"encode", "fit"} /\ stage # "fit" /\ stage # "done"
        /\ stage \in {"encode", "fit", "length", "words", "done"}
    <3>1. 8 * 1 <= 8 /\ 0 \in Nat /\ 1 \in Nat
      OBVIOUS
    <3>2. padding = 0 /\ n = 0 /\ ocounter = 1 /\ stage = "encode"
      BY <1>1
    <3>3. stage \in {"encode", "fit"} /\ stage # "fit" /\ stage # "done"
          /\ stage \in {"encode", "fit", "length", "words", "done"}
      BY <3>2
    <3> QED
      BY <2>1, <3>1, <3>2, <3>3, Zenon
  <2> QED
    BY <1>1, <2>1, <2>2, <2>3, <2>4, <2>5 DEF CodingType
<1>4. LengthsInv
  <2>1. ASSUME NEW k \in Components PROVE Counting(k) /\ k >= c
    <3>1. coefs[k] = <<>> /\ Len(coefs[k]) = 0 /\ samples[k] + 1 = 0 /\ length[k] = 0
      BY <1>1
    <3>2. Len(Words(coefs[k])) = 0
      BY <3>1, NoWords
    <3>3. LastNonzero(k, samples[k] + 1)
      BY <3>1 DEF LastNonzero
    <3> QED
      BY <1>1, <1>2, <3>1, <3>2, <3>3 DEF Counting
  <2> QED
    BY <1>1, <2>1 DEF LengthsInv
<1>5. OutputInv
  <2>1. DOMAIN components = {}
    BY <1>1
  <2> QED
    BY <1>1, <2>1 DEF OutputInv
<1> QED
  BY <1>3, <1>4, <1>5 DEF CodingInv

LEMMA EncodeSampleStep ==
  ASSUME SliceCodingAssumption, CodingInv, EncodeSample
  PROVE  CodingInv'
<1>1. /\ stage = "encode" /\ Len(coefs[c]) < SAMPLES[c]
      /\ UNCHANGED <<given, stage, c, padding, output>>
  BY DEF EncodeSample
<1>2. PICK x \in Coefficients :
        /\ coefs' = [coefs EXCEPT ![c] = Append(@, x)]
        /\ length' = [length EXCEPT ![c] = @ + WLLUT[x.d]]
        /\ samples' = IF x.s # 0 THEN [samples EXCEPT ![c] = Len(coefs[c])] ELSE samples
  BY DEF EncodeSample
<1>3. CodingType /\ LengthsInv /\ OutputInv
  BY DEF CodingInv
<1>4. /\ shape' = shape /\ slice_size_scalar' = slice_size_scalar /\ last' = last /\ stage' = stage
      /\ c' = c /\ padding' = padding /\ n' = n /\ accum' = accum /\ optr' = optr
      /\ ocounter' = ocounter /\ components' = components
  BY <1>1 DEF given, output
<1>5. /\ Len(SAMPLES) \in Nat \ {0} /\ Components = 1..Len(SAMPLES)
      /\ (\A k \in Components : SAMPLES[k] \in Nat \ {0}) /\ Coefficients \subseteq Coefs
      /\ SAMPLES' = SAMPLES /\ Components' = Components
  BY <1>3, <1>4, ShapeIs DEF CodingType, SAMPLES, Components
<1>6. x \in Coefs /\ WLLUT[x.d] \in 1..18
  BY <1>5, WordIs
<1>7. /\ c \in Components /\ coefs \in [Components -> Seq(Coefs)]
      /\ length \in [Components -> Int] /\ samples \in [Components -> Int]
  BY <1>3 DEF CodingType
<1> DEFINE xs == coefs[c]
<1>8. xs \in Seq(Coefs) /\ Len(xs) \in Nat
  BY <1>7, LenProperties
<1> HIDE DEF xs
<1>9. /\ Append(xs, x) \in Seq(Coefs) /\ Len(Append(xs, x)) = Len(xs) + 1
      /\ Append(xs, x)[Len(xs) + 1] = x /\ \A i \in 1..Len(xs) : Append(xs, x)[i] = xs[i]
  BY <1>6, <1>8
<1>10. CodingType'
  <2>1. /\ coefs' \in [Components -> Seq(Coefs)] /\ length' \in [Components -> Int]
        /\ samples' \in [Components -> Int]
    <3>1. coefs' \in [Components -> Seq(Coefs)]
      BY <1>2, <1>7, <1>9 DEF xs
    <3>2. length' \in [Components -> Int]
      <4>1. length[c] + WLLUT[x.d] \in Int
        <5>1. PICK y \in Int, w \in 1..18 : y = length[c] /\ w = WLLUT[x.d]
          BY <1>6, <1>7
        <5>2. y + w \in Int
          OBVIOUS
        <5> QED
          BY <5>1, <5>2
      <4> QED
        BY <1>2, <1>7, <4>1
    <3>3. samples' \in [Components -> Int]
      <4>1. Len(coefs[c]) \in Int
        BY <1>8 DEF xs
      <4> QED
        BY <1>2, <1>7, <4>1
    <3> QED
      BY <3>1, <3>2, <3>3
  <2> QED
    BY SMTT(60), <1>3, <1>4, <1>5, <2>1 DEF CodingType
<1>11. OutputInv'
  <2>1. DOMAIN components = {} /\ stage' # "words"
    <3>1. components \in Seq([start : Nat, byte : Nat, p : Nat]) /\ Len(components) = 0
      BY <1>1, <1>3 DEF CodingType
    <3>2. components = <<>>
      BY <3>1, EmptySeq
    <3> QED
      BY <1>1, <1>4, <3>2
  <2> QED
    BY <1>4, <2>1 DEF OutputInv
<1>12. ASSUME NEW k \in Components, k # c
       PROVE  coefs'[k] = coefs[k] /\ length'[k] = length[k] /\ samples'[k] = samples[k]
  BY <1>2, <1>7, <1>12
<1>13. coefs'[c] = Append(xs, x) /\ length'[c] = length[c] + WLLUT[x.d]
       /\ samples'[c] = IF x.s # 0 THEN Len(xs) ELSE samples[c]
  BY <1>2, <1>7 DEF xs
<1>14. Counting(c)'
  <2>1. /\ Len(xs) <= SAMPLES[c] /\ LastNonzero(c, samples[c] + 1) /\ length[c] = Len(Words(xs))
    <3>1. Counting(c)
      BY <1>1, <1>3, <1>5, <1>7 DEF LengthsInv
    <3> QED
      BY <3>1 DEF Counting, xs
  <2>2. Len(Append(xs, x)) <= SAMPLES[c]
    BY <1>1, <1>5, <1>7, <1>8, <1>9 DEF xs
  <2>3. length'[c] = Len(Words(Append(xs, x)))
    BY <1>6, <1>8, <1>13, <2>1, WordsNext
  <2>4. LastNonzero(c, samples[c] + 1)'
    <3>1. /\ samples[c] + 1 \in 0..Len(xs)
          /\ \A i \in samples[c] + 1 + 1..Len(xs) : xs[i].s = 0
          /\ samples[c] + 1 # 0 => xs[samples[c] + 1].s # 0
      BY <2>1 DEF LastNonzero, xs
    <3> DEFINE ys == Append(xs, x)
               m == samples'[c] + 1
               o == samples[c] + 1
    <3>2. CASE x.s # 0
      <4>1. m = Len(xs) + 1
        BY <1>13, <3>2
      <4> HIDE DEF ys, m
      <4>2. /\ m \in 0..Len(ys) /\ (\A i \in m + 1..Len(ys) : ys[i].s = 0)
            /\ m # 0 => ys[m].s # 0
        BY <1>8, <1>9, <3>2, <4>1 DEF ys
      <4> QED
        BY <1>4, <1>13, <4>2 DEF LastNonzero, ys, m
    <3>3. CASE x.s = 0
      <4>1. m = o
        BY <1>13, <3>3
      <4>2. o \in 0..Len(xs) /\ (\A i \in o + 1..Len(xs) : xs[i].s = 0) /\ (o # 0 => xs[o].s # 0)
        BY <3>1
      <4> HIDE DEF ys, m, o
      <4>3. /\ m \in 0..Len(ys) /\ (\A i \in m + 1..Len(ys) : ys[i].s = 0)
            /\ m # 0 => ys[m].s # 0
        BY <1>8, <1>9, <3>3, <4>1, <4>2 DEF ys
      <4> QED
        BY <1>4, <1>13, <4>3 DEF LastNonzero, ys, m
    <3> QED
      BY <3>2, <3>3
  <2> QED
    BY <1>4, <1>5, <1>13, <2>2, <2>3, <2>4 DEF Counting
<1>15. LengthsInv'
  <2>1. ASSUME NEW k \in Components
        PROVE  IF k >= c THEN Counting(k)' ELSE Counted(k)' /\ LastNonzero(k, samples[k])'
    <3>1. CASE k = c
      <4>1. Counting(k)'
        BY <1>4, <1>14, <3>1 DEF Counting, LastNonzero
      <4>2. k >= c
        BY <1>5, <3>1
      <4> QED
        BY <4>1, <4>2
    <3>2. CASE k # c
      <4>1. coefs'[k] = coefs[k] /\ length'[k] = length[k] /\ samples'[k] = samples[k]
        BY <1>12, <3>2
      <4>2. IF k >= c THEN Counting(k) ELSE Counted(k) /\ LastNonzero(k, samples[k])
        BY <1>1, <1>3 DEF LengthsInv
      <4>3. Counting(k) => Counting(k)'
        BY <1>5, <4>1 DEF Counting, LastNonzero
      <4>4. Counted(k) => Counted(k)'
        BY <1>5, <4>1 DEF Counted, Written
      <4>5. LastNonzero(k, samples[k]) => LastNonzero(k, samples[k])'
        BY <4>1 DEF LastNonzero
      <4> QED
        BY <4>2, <4>3, <4>4, <4>5
    <3> QED
      BY <3>1, <3>2
  <2> QED
    BY <1>1, <1>4, <1>5, <2>1 DEF LengthsInv
<1> QED
  BY <1>10, <1>11, <1>15 DEF CodingInv

LEMMA EndComponentStep ==
  ASSUME SliceCodingAssumption, CodingInv, EndComponent
  PROVE  CodingInv'
<1>1. /\ stage = "encode" /\ Len(coefs[c]) = SAMPLES[c]
      /\ length' = [length EXCEPT ![c] = (@ - TrailingZeros(c, samples[c]) + 7) \div 8]
      /\ samples' = [samples EXCEPT ![c] = @ + 1]
      /\ IF c < Len(SAMPLES) THEN c' = c + 1 /\ stage' = stage
                             ELSE c' = 1 /\ stage' = "fit"
      /\ UNCHANGED <<given, coefs, padding, output>>
  BY DEF EndComponent
<1>2. CodingType /\ LengthsInv /\ OutputInv
  BY DEF CodingInv
<1>3. /\ shape' = shape /\ slice_size_scalar' = slice_size_scalar /\ last' = last
      /\ coefs' = coefs /\ padding' = padding /\ n' = n /\ accum' = accum /\ optr' = optr
      /\ ocounter' = ocounter /\ components' = components
  BY <1>1 DEF given, output
<1>4. /\ Len(SAMPLES) \in Nat \ {0} /\ Components = 1..Len(SAMPLES)
      /\ (\A k \in Components : SAMPLES[k] \in Nat \ {0})
      /\ SAMPLES' = SAMPLES /\ Components' = Components
  BY <1>2, <1>3, ShapeIs DEF CodingType, SAMPLES, Components
<1>5. /\ c \in Components /\ coefs \in [Components -> Seq(Coefs)]
      /\ length \in [Components -> Int] /\ samples \in [Components -> Int]
  BY <1>2 DEF CodingType
<1>6. Counting(c)
  BY <1>1, <1>2, <1>4, <1>5 DEF LengthsInv
<1> DEFINE xs == coefs[c]
           m == samples[c] + 1
<1>7. /\ xs \in Seq(Coefs) /\ Len(xs) = SAMPLES[c] /\ Len(xs) \in Nat
      /\ m \in 0..Len(xs) /\ (\A i \in m + 1..Len(xs) : xs[i].s = 0) /\ (m # 0 => xs[m].s # 0)
      /\ length[c] = Len(Words(xs)) /\ samples[c] = m - 1
  <2>1. xs \in Seq(Coefs) /\ Len(xs) \in Nat
    BY <1>5, LenProperties
  <2>2. samples[c] \in Int
    BY <1>5
  <2>3. samples[c] = m - 1
    BY <2>2
  <2> QED
    BY <1>1, <1>6, <2>1, <2>3 DEF Counting, LastNonzero
<1> HIDE DEF xs, m
<1>8. /\ SubSeq(xs, 1, m) \in Seq(Coefs) /\ Len(Words(SubSeq(xs, 1, m))) \in Nat
      /\ Len(Words(xs)) = Len(Words(SubSeq(xs, 1, m))) + (Len(xs) - m)
  BY <1>7, WordsAndZeros, WordSeqType, LenProperties
<1>9. samples'[c] = m /\ length'[c] = (Len(Words(SubSeq(xs, 1, m))) + 7) \div 8
  <2>1. samples'[c] = samples[c] + 1 /\ length'[c] = (length[c] - TrailingZeros(c, samples[c]) + 7) \div 8
    BY <1>1, <1>5
  <2>2. length[c] - TrailingZeros(c, samples[c]) + 7 = Len(Words(SubSeq(xs, 1, m))) + 7
    BY SMTT(60), <1>7, <1>8 DEF TrailingZeros
  <2>3. samples[c] + 1 = m
    BY DEF m
  <2> QED
    BY <2>1, <2>2, <2>3
<1>10. ASSUME NEW k \in Components, k # c
       PROVE  length'[k] = length[k] /\ samples'[k] = samples[k]
  BY <1>1, <1>5, <1>10
<1>11. CodingType'
  <2>1. samples' \in [Components -> Int]
    <3>1. samples[c] + 1 \in Int
      BY <1>5
    <3> QED
      BY <1>1, <1>5, <3>1
  <2>2. length' \in [Components -> Int]
    <3>1. length'[c] \in Int
      <4>1. \A y \in Nat : (y + 7) \div 8 \in Int
        BY SMT
      <4> QED
        BY <1>8, <1>9, <4>1
    <3>2. length' = [length EXCEPT ![c] = length'[c]]
      BY <1>1, <1>5
    <3> QED
      BY <1>5, <3>1, <3>2
  <2>3. c' \in Components /\ stage' \in {"encode", "fit"} /\ (stage' = "fit" => c' = 1)
    BY <1>1, <1>4, <1>5
  <2>4. stage' # "done" /\ stage' \in {"encode", "fit", "length", "words", "done"}
    BY <2>3
  <2>5. Len(components) = 0
    BY <1>1, <1>2 DEF CodingType
  <2> QED
    BY <1>2, <1>3, <1>4, <2>1, <2>2, <2>3, <2>4, <2>5 DEF CodingType
<1>12. OutputInv'
  <2>1. DOMAIN components = {} /\ stage' # "words"
    <3>1. components \in Seq([start : Nat, byte : Nat, p : Nat]) /\ Len(components) = 0
      BY <1>1, <1>2 DEF CodingType
    <3>2. components = <<>>
      BY <3>1, EmptySeq
    <3> QED
      BY <1>1, <3>2
  <2> QED
    BY <1>3, <2>1 DEF OutputInv
<1>13. ASSUME NEW k \in Components, k = c
       PROVE  Counted(k)' /\ LastNonzero(k, samples[k])'
  <2>1. LastNonzero(k, samples[k])'
    BY <1>3, <1>7, <1>9, <1>13 DEF LastNonzero, xs
  <2>2. Counted(k)'
    <3>1. m \in 0..SAMPLES[c]
      BY <1>7
    <3> QED
      BY <1>3, <1>4, <1>7, <1>9, <1>13, <3>1 DEF Counted, Written, xs
  <2> QED
    BY <2>1, <2>2
<1>14. ASSUME NEW k \in Components, k # c
       PROVE  IF k >= c THEN Counting(k)' ELSE Counted(k)' /\ LastNonzero(k, samples[k])'
  <2>1. coefs'[k] = coefs[k] /\ length'[k] = length[k] /\ samples'[k] = samples[k]
    BY <1>3, <1>10, <1>14
  <2>2. IF k >= c THEN Counting(k) ELSE Counted(k) /\ LastNonzero(k, samples[k])
    BY <1>1, <1>2 DEF LengthsInv
  <2>3. Counting(k) => Counting(k)'
    BY <1>4, <2>1 DEF Counting, LastNonzero
  <2>4. Counted(k) => Counted(k)'
    BY <1>4, <2>1 DEF Counted, Written
  <2>5. LastNonzero(k, samples[k]) => LastNonzero(k, samples[k])'
    BY <2>1 DEF LastNonzero
  <2> QED
    BY <2>2, <2>3, <2>4, <2>5
<1>15. LengthsInv'
  <2>1. CASE c < Len(SAMPLES)
    <3>1. c' = c + 1 /\ stage' = "encode"
      BY <1>1, <2>1
    <3>2. \A k \in Components : IF k >= c' THEN Counting(k)' ELSE Counted(k)' /\ LastNonzero(k, samples[k])'
      <4> SUFFICES ASSUME NEW k \in Components
                   PROVE  IF k >= c' THEN Counting(k)' ELSE Counted(k)' /\ LastNonzero(k, samples[k])'
        OBVIOUS
      <4>1. k = c => ~(k >= c')
        BY <1>4, <1>5, <3>1
      <4>2. k # c => (k >= c' <=> k >= c)
        BY <1>4, <1>5, <3>1
      <4> QED
        BY <1>13, <1>14, <4>1, <4>2
    <3> QED
      BY <1>4, <3>1, <3>2 DEF LengthsInv
  <2>2. CASE ~(c < Len(SAMPLES))
    <3>1. stage' = "fit" /\ c = Len(SAMPLES)
      BY <1>1, <1>4, <1>5, <2>2
    <3>2. \A k \in Components : Counted(k)' /\ LastNonzero(k, samples[k])'
      <4> SUFFICES ASSUME NEW k \in Components PROVE Counted(k)' /\ LastNonzero(k, samples[k])'
        OBVIOUS
      <4>1. k # c => ~(k >= c)
        BY <1>4, <3>1
      <4> QED
        BY <1>13, <1>14, <4>1
    <3> QED
      BY <1>4, <3>1, <3>2 DEF LengthsInv
  <2> QED
    BY <2>1, <2>2
<1> QED
  BY <1>11, <1>12, <1>15 DEF CodingInv

\* Products and remainders: the padding is a multiple of the scalar.
LEMMA Multiples ==
  ASSUME NEW d \in Nat \ {0}
  PROVE  /\ \A y \in Nat : y * d \in Nat /\ (y * d) % d = 0
         /\ \A y \in Nat : y % d = 0 => \E q \in Nat : y = q * d
<1>1. ASSUME NEW y \in Nat PROVE y * d \in Nat /\ (y * d) % d = 0
  <2>1. y * d \in Nat
    OBVIOUS
  <2>2. (y * d) \div d = y
    <3>1. y * d = d * y + 0 /\ 0 \in 0..(d - 1)
      OBVIOUS
    <3> QED
      BY <2>1, <3>1, QuotientIs
  <2>3. PICK z \in Nat : z = y * d
    BY <2>1
  <2>4. z = d * (z \div d) + (z % d)
    BY SMT
  <2>5. z % d \in Int
    BY SMT
  <2> QED
    BY <2>1, <2>2, <2>3, <2>4, <2>5
<1>2. ASSUME NEW y \in Nat, y % d = 0 PROVE \E q \in Nat : y = q * d
  <2>1. y = d * (y \div d) + (y % d) /\ y \div d \in Nat
    BY SMT
  <2> QED
    BY <1>2, <2>1
<1> QED
  BY <1>1, <1>2

LEMMA BeginSliceStep ==
  ASSUME SliceCodingAssumption, CodingInv, BeginSlice
  PROVE  CodingInv'
<1>1. /\ Fit \/ Blank
      /\ stage = "fit" /\ stage' = "length"
      /\ UNCHANGED <<given, c, output>>
  BY DEF BeginSlice, Fit, Blank
<1>2. PICK p \in Paddings : padding' = p * slice_size_scalar
  BY DEF BeginSlice
<1>3. CodingType /\ LengthsInv /\ OutputInv
  BY DEF CodingInv
<1>4. /\ shape' = shape /\ slice_size_scalar' = slice_size_scalar /\ last' = last
      /\ c' = c /\ n' = n /\ accum' = accum /\ optr' = optr
      /\ ocounter' = ocounter /\ components' = components /\ coefs' = coefs
  BY <1>1 DEF given, output, coding, Fit, Blank
<1>5. /\ Len(SAMPLES) \in Nat \ {0} /\ Components = 1..Len(SAMPLES)
      /\ (\A k \in Components : SAMPLES[k] \in Nat \ {0})
      /\ slice_size_scalar \in Nat \ {0} /\ MAX_LENGTH \in Nat
      /\ SAMPLES' = SAMPLES /\ Components' = Components
  BY <1>3, <1>4, ShapeIs DEF CodingType, SAMPLES, Components
<1>6. padding' \in Nat /\ padding' % slice_size_scalar = 0
  <2>1. p \in Nat
    BY DEF SliceCodingAssumption
  <2> QED
    BY <1>2, <1>5, <2>1, Multiples
<1>7. /\ length' \in [Components -> Int] /\ samples' \in [Components -> Int]
      /\ \A k \in Components : Counted(k)' /\ Units(length[k])' <= MAX_LENGTH
      /\ Blanked' \/ \A k \in Components : LastNonzero(k, samples[k])'
  <2>1. /\ \A k \in Components : Counted(k)
        /\ Blanked \/ \A k \in Components : LastNonzero(k, samples[k])
    BY <1>1, <1>3 DEF LengthsInv
  <2>2. CASE Fit
    <3>1. length' = length /\ samples' = samples /\ \A k \in Components : Units(length[k]) <= MAX_LENGTH
      BY <2>2 DEF Fit, coding
    <3>2. length' \in [Components -> Int] /\ samples' \in [Components -> Int]
      BY <1>3, <3>1 DEF CodingType
    <3>3. ASSUME NEW k \in Components PROVE Counted(k)' /\ Units(length[k])' <= MAX_LENGTH
      <4>1. Counted(k)'
        <5>1. Counted(k)
          BY <2>1
        <5> QED
          BY <1>4, <1>5, <3>1, <5>1 DEF Counted, Written
      <4>2. Units(length[k])' = Units(length[k])
        BY <1>4, <3>1 DEF Units
      <4> QED
        BY <3>1, <4>1, <4>2
    <3>4. Blanked' \/ \A k \in Components : LastNonzero(k, samples[k])'
      <4>1. Blanked => Blanked'
        BY <1>5, <3>1 DEF Blanked
      <4>2. ASSUME NEW k \in Components, LastNonzero(k, samples[k])
            PROVE  LastNonzero(k, samples[k])'
        BY <1>4, <3>1, <4>2 DEF LastNonzero
      <4> QED
        BY <2>1, <4>1, <4>2
    <3> QED
      BY <3>2, <3>3, <3>4
  <2>3. CASE Blank
    <3>1. length' = [k \in Components |-> 0] /\ samples' = [k \in Components |-> 0]
      BY <2>3 DEF Blank
    <3>2. ASSUME NEW k \in Components PROVE Counted(k)' /\ Units(length[k])' <= MAX_LENGTH
      <4>1. length'[k] = 0 /\ samples'[k] = 0 /\ Len(coefs'[k]) = SAMPLES'[k]
        BY <1>4, <1>5, <2>1, <3>1 DEF Counted
      <4>2. Written(k)' = <<>>
        <5>1. Written(k)' = Words(SubSeq(coefs'[k], 1, 0))
          BY <4>1 DEF Written
        <5>2. SubSeq(coefs'[k], 1, 0) = <<>>
          BY SubSeqEmpty
        <5> QED
          BY <5>1, <5>2, NoWords
      <4>3. (Len(<<>>) + 7) \div 8 = 0
        OBVIOUS
      <4>4. Units(length[k])' = 0
        <5>1. 0 + slice_size_scalar - 1 = slice_size_scalar * 0 + (slice_size_scalar - 1)
              /\ slice_size_scalar - 1 \in Nat /\ 0 + slice_size_scalar - 1 = slice_size_scalar - 1
          BY <1>5
        <5>2. (slice_size_scalar - 1) \div slice_size_scalar = 0
          BY SMTT(60), <1>5, <5>1, QuotientIs
        <5> QED
          BY <1>4, <4>1, <5>1, <5>2 DEF Units
      <4> QED
        BY <1>5, <4>1, <4>2, <4>3, <4>4 DEF Counted
    <3>3. Blanked'
      BY <1>5, <3>1 DEF Blanked
    <3> QED
      BY <3>1, <3>2, <3>3
  <2> QED
    BY <1>1, <2>2, <2>3
<1>8. Len(components) = 0 /\ c = 1 /\ components = <<>>
  <2>1. components \in Seq([start : Nat, byte : Nat, p : Nat]) /\ Len(components) = 0 /\ c = 1
    BY <1>1, <1>3 DEF CodingType
  <2> QED
    BY <2>1, EmptySeq
<1>9. CodingType'
  <2>1. Len(components) = c - 1 /\ c \in Components
    BY <1>5, <1>8
  <2>2. /\ stage' = "length" /\ stage' # "fit" /\ stage' # "done" /\ stage' \notin {"encode", "fit"}
        /\ stage' \in {"encode", "fit", "length", "words", "done"}
    BY <1>1
  <2>3. /\ length' \in [Components -> Int] /\ samples' \in [Components -> Int]
    BY <1>7
  <2>4. /\ shape \in Shapes /\ slice_size_scalar \in Scalars /\ last \in BOOLEAN
        /\ coefs \in [Components -> Seq(Coefs)]
        /\ n \in Nat /\ accum \in Seq(Binary)
        /\ optr \in Seq(Binary) /\ ocounter \in Nat /\ 8 * ocounter <= Len(optr)
        /\ components \in Seq([start : Nat, byte : Nat, p : Nat])
    BY <1>3 DEF CodingType
  <2>5. Len(components)' = Len(components)
    BY <1>4
  <2> QED
    BY <1>4, <1>5, <1>6, <2>1, <2>2, <2>3, <2>4, <2>5, Zenon DEF CodingType
<1>10. LengthsInv'
  BY <1>1, <1>4, <1>5, <1>7 DEF LengthsInv
<1>11. OutputInv'
  <2>1. DOMAIN components = {} /\ stage' # "words"
    BY <1>1, <1>8
  <2> QED
    BY <1>4, <2>1 DEF OutputInv
<1> QED
  BY <1>9, <1>10, <1>11 DEF CodingInv

\* The second pass leaves what the first has found alone.
LEMMA LengthsStay ==
  ASSUME LengthsInv, UNCHANGED <<given, coding>>,
         stage \in {"length", "words"}, stage' \in {"length", "words", "done"}
  PROVE  LengthsInv'
<1>1. /\ shape' = shape /\ slice_size_scalar' = slice_size_scalar /\ coefs' = coefs
      /\ length' = length /\ samples' = samples
  BY DEF given, coding
<1>2. SAMPLES' = SAMPLES /\ Components' = Components
  BY <1>1 DEF SAMPLES, Components
<1>3. stage # "encode" /\ stage' # "encode"
  OBVIOUS
<1>4. ASSUME NEW k \in Components PROVE Counted(k)' /\ Units(length[k])' <= MAX_LENGTH
  <2>1. Counted(k) /\ Units(length[k]) <= MAX_LENGTH
    BY <1>3 DEF LengthsInv
  <2>2. Counted(k)'
    BY <1>1, <1>2, <2>1 DEF Counted, Written
  <2>3. Units(length[k])' = Units(length[k])
    BY <1>1 DEF Units
  <2> QED
    BY <2>1, <2>2, <2>3
<1>5. Blanked' \/ \A k \in Components : LastNonzero(k, samples[k])'
  <2>1. Blanked \/ \A k \in Components : LastNonzero(k, samples[k])
    BY <1>3 DEF LengthsInv
  <2>2. Blanked => Blanked'
    BY <1>1, <1>2 DEF Blanked
  <2>3. ASSUME NEW k \in Components, LastNonzero(k, samples[k])
        PROVE  LastNonzero(k, samples[k])'
    BY <1>1, <2>3 DEF LastNonzero
  <2> QED
    BY <2>1, <2>2, <2>3
<1> QED
  BY <1>2, <1>3, <1>4, <1>5 DEF LengthsInv

\* A component stands where it is when no bit of it is written again.
LEMMA StandsStays ==
  ASSUME NEW k \in Nat, Stands(k), UNCHANGED <<given, coding>>,
         components'[k] = components[k], components[k].start \in Nat,
         EndOf(k)' = EndOf(k), EndOf(k) \in Nat,
         \A i \in 1..8 * EndOf(k) : optr'[i] = optr[i]
  PROVE  Stands(k)'
<1>1. slice_size_scalar' = slice_size_scalar /\ coefs' = coefs /\ samples' = samples
  BY DEF given, coding
<1>2. Written(k)' = Written(k)
  BY <1>1 DEF Written
<1> DEFINE from == components[k].start
           end == EndOf(k)
<1>3. /\ from + components[k].byte * slice_size_scalar = end
      /\ Len(Written(k)) <= 8 * (end - from)
      /\ \A i \in 1..8 * (end - from) :
            optr[8 * from + i] = IF i <= Len(Written(k)) THEN Written(k)[i] ELSE 1
  BY DEF Stands
<1>4. from \in Nat /\ end \in Nat /\ components'[k].start = from /\ EndOf(k)' = end
      /\ \A i \in 1..8 * end : optr'[i] = optr[i]
  OBVIOUS
<1> HIDE DEF from, end
<1>5. \A i \in 1..8 * (end - from) :
         optr'[8 * from + i] = IF i <= Len(Written(k)) THEN Written(k)[i] ELSE 1
  <2> SUFFICES ASSUME NEW i \in 1..8 * (end - from)
               PROVE  optr'[8 * from + i] = IF i <= Len(Written(k)) THEN Written(k)[i] ELSE 1
    OBVIOUS
  <2>1. PICK j \in Nat : j = 8 * from + i
    BY <1>4
  <2>2. j \in 1..8 * end
    BY <1>4, <2>1
  <2>3. optr'[j] = optr[j]
    BY <1>4, <2>2
  <2>4. optr[8 * from + i] = IF i <= Len(Written(k)) THEN Written(k)[i] ELSE 1
    BY <1>3
  <2> QED
    BY <2>1, <2>3, <2>4
<1>6. components'[k].byte = components[k].byte /\ components'[k].start = from
  BY <1>4
<1> QED
  BY <1>1, <1>2, <1>3, <1>4, <1>5, <1>6, Zenon DEF Stands

\* What is known of component c during the second pass.
LEMMA WhileWriting ==
  ASSUME SliceCodingAssumption, CodingInv, stage \in {"length", "words"},
         UNCHANGED <<given, coding>>
  PROVE  /\ SAMPLES' = SAMPLES /\ Components' = Components
         /\ c \in Components /\ Components = 1..Len(SAMPLES) /\ Len(SAMPLES) \in Nat
         /\ slice_size_scalar \in Nat \ {0} /\ MAX_LENGTH \in Nat
         /\ coefs[c] \in Seq(Coefs) /\ Len(coefs[c]) \in Nat /\ samples[c] \in 0..Len(coefs[c])
         /\ Written(c) \in Seq(Binary) /\ Len(Written(c)) \in Nat
         /\ length[c] = (Len(Written(c)) + 7) \div 8 /\ length[c] \in Nat
         /\ Units(length[c]) <= MAX_LENGTH
         /\ optr \in Seq(Binary) /\ ocounter \in Nat /\ 8 * ocounter <= Len(optr)
         /\ components \in Seq([start : Nat, byte : Nat, p : Nat])
<1>1. CodingType /\ LengthsInv /\ stage # "encode"
  BY DEF CodingInv
<1>2. SAMPLES' = SAMPLES /\ Components' = Components
  BY DEF given, SAMPLES, Components
<1>3. /\ Components = 1..Len(SAMPLES) /\ Len(SAMPLES) \in Nat
      /\ slice_size_scalar \in Nat \ {0} /\ MAX_LENGTH \in Nat
  BY <1>1, ShapeIs DEF CodingType
<1>4. /\ c \in Components /\ coefs \in [Components -> Seq(Coefs)]
      /\ optr \in Seq(Binary) /\ ocounter \in Nat /\ 8 * ocounter <= Len(optr)
      /\ components \in Seq([start : Nat, byte : Nat, p : Nat])
  BY <1>1 DEF CodingType
<1>5. coefs[c] \in Seq(Coefs) /\ Len(coefs[c]) \in Nat
  BY <1>4, LenProperties
<1>6. Counted(c) /\ Units(length[c]) <= MAX_LENGTH
  BY <1>1, <1>4 DEF LengthsInv
<1>7. samples[c] \in 0..Len(coefs[c]) /\ length[c] = (Len(Written(c)) + 7) \div 8
  BY <1>6 DEF Counted
<1>8. Written(c) \in Seq(Binary) /\ Len(Written(c)) \in Nat
  <2> DEFINE xs == coefs[c]
             m == samples[c]
  <2>1. xs \in Seq(Coefs) /\ Len(xs) \in Nat /\ m \in 0..Len(xs)
    BY <1>5, <1>7
  <2> HIDE DEF xs, m
  <2>2. SubSeq(xs, 1, m) \in Seq(Coefs)
    <3>1. \A i \in 1..m : xs[i] \in Coefs
      BY <2>1, ElementOfSeq
    <3>2. 1 \in Int /\ m \in Int
      BY <2>1
    <3> QED
      BY <3>1, <3>2, SubSeqProperties
  <2>3. Words(SubSeq(xs, 1, m)) \in Seq(Binary)
    BY <2>2, WordSeqType
  <2> QED
    BY <2>3, LenProperties DEF Written, xs, m
<1>9. length[c] \in Nat
  <2>1. \A y \in Nat : (y + 7) \div 8 \in Nat
    BY SMT
  <2> QED
    BY <1>7, <1>8, <2>1
<1> QED
  BY <1>2, <1>3, <1>4, <1>5, <1>6, <1>7, <1>8, <1>9

\* A length in units of the scalar covers the length in bytes.
LEMMA LengthUnits ==
  ASSUME NEW d \in Nat \ {0}, NEW y \in Nat
  PROVE  /\ (y + d - 1) \div d \in Nat
         /\ ((y + d - 1) \div d) * d \in Nat /\ ((y + d - 1) \div d) * d >= y
<1>1. PICK z \in Nat : z = y + d - 1
  OBVIOUS
<1>2. PICK q \in Nat : q = z \div d
  BY SMT
<1>3. z = d * q + (z % d) /\ z % d \in 0..(d - 1)
  BY <1>2, SMT
<1>4. PICK t \in Nat : t = d * q
  OBVIOUS
<1>5. t >= y
  BY <1>1, <1>3, <1>4
<1>6. q * d = t
  BY <1>4
<1> QED
  BY <1>1, <1>2, <1>5, <1>6

LEMMA MultiplesLess ==
  ASSUME NEW d \in Nat \ {0}, NEW a \in Nat, NEW b \in Nat, a * d <= b * d
  PROVE  b - a \in Nat /\ b * d - a * d = (b - a) * d
<1>1. a <= b
  <2> SUFFICES ASSUME ~(a <= b) PROVE FALSE
    OBVIOUS
  <2>1. PICK t \in Nat : a = b + 1 + t
    <3>1. a - b - 1 \in Nat /\ a = b + 1 + (a - b - 1)
      OBVIOUS
    <3> QED
      BY <3>1
  <2>2. a * d = b * d + d + t * d
    BY <2>1
  <2>3. t * d \in Nat /\ b * d \in Nat
    OBVIOUS
  <2> QED
    BY <2>2, <2>3
<1> QED
  BY <1>1

LEMMA Distributes ==
  ASSUME NEW a \in Nat, NEW b \in Nat, NEW d \in Nat
  PROVE  /\ d * (a + b) = a * d + b * d /\ (a + b) * d = a * d + b * d
         /\ d * (a + b) \in Nat
  OBVIOUS

LEMMA LengthByteStep ==
  ASSUME SliceCodingAssumption, CodingInv, LengthByte
  PROVE  CodingInv'
<1> DEFINE l == Units(length[c])
           q == Least((MAX_LENGTH - l) * slice_size_scalar, padding)
           byte == (l * slice_size_scalar + q) \div slice_size_scalar
           entry == [start |-> ocounter + 1, byte |-> byte,
                     p |-> l * slice_size_scalar - length[c] + q]
<1>1. /\ stage = "length" /\ stage' = "words"
      /\ padding' = padding - q /\ optr' = Store(ocounter, Bits(byte, 8))
      /\ components' = Append(components, entry)
      /\ ocounter' = ocounter + 1 /\ n' = 0 /\ accum' = <<>>
      /\ UNCHANGED <<given, c, coding>>
  BY DEF LengthByte
<1>2. CodingType /\ LengthsInv /\ OutputInv
  BY DEF CodingInv
<1>3. /\ SAMPLES' = SAMPLES /\ Components' = Components
      /\ c \in Components /\ Components = 1..Len(SAMPLES) /\ Len(SAMPLES) \in Nat
      /\ slice_size_scalar \in Nat \ {0} /\ MAX_LENGTH \in Nat
      /\ coefs[c] \in Seq(Coefs) /\ samples[c] \in 0..Len(coefs[c])
      /\ Len(coefs[c]) \in Nat
      /\ length[c] \in Nat /\ l <= MAX_LENGTH
      /\ optr \in Seq(Binary) /\ ocounter \in Nat /\ 8 * ocounter <= Len(optr)
      /\ components \in Seq([start : Nat, byte : Nat, p : Nat])
  BY <1>1, WhileWriting
<1>4. /\ shape' = shape /\ slice_size_scalar' = slice_size_scalar /\ last' = last /\ c' = c
      /\ coefs' = coefs /\ length' = length /\ samples' = samples
  BY <1>1 DEF given, coding
<1>5. /\ Len(components) = c - 1 /\ padding \in Nat /\ padding % slice_size_scalar = 0
  BY <1>1, <1>2 DEF CodingType
<1>6. l \in Nat /\ l * slice_size_scalar \in Nat /\ l * slice_size_scalar >= length[c]
  BY <1>3, LengthUnits DEF Units
<1>7. PICK r \in Nat : padding = r * slice_size_scalar
  BY <1>3, <1>5, Multiples
<1>8. PICK t \in Nat : t = MAX_LENGTH - l
  BY <1>3, <1>6
<1> HIDE DEF l
<1>9. \E u \in Nat : /\ q = u * slice_size_scalar /\ q \in Nat
                     /\ padding - q \in Nat /\ (padding - q) % slice_size_scalar = 0
  <2>1. CASE t * slice_size_scalar < padding
    <3>1. q = t * slice_size_scalar
      BY <1>8, <2>1 DEF Least
    <3>2. t * slice_size_scalar \in Nat /\ r * slice_size_scalar \in Nat
      BY <1>3
    <3>3. t * slice_size_scalar <= r * slice_size_scalar
      BY <1>7, <2>1, <3>2
    <3>4. r - t \in Nat
          /\ r * slice_size_scalar - t * slice_size_scalar = (r - t) * slice_size_scalar
      BY <1>3, <3>3, MultiplesLess
    <3>5. padding - q = (r - t) * slice_size_scalar
      BY <1>7, <3>1, <3>4
    <3>6. padding - q \in Nat /\ (padding - q) % slice_size_scalar = 0
      BY ZenonT(60), <1>3, <3>4, <3>5, Multiples
    <3> QED
      BY <3>1, <3>2, <3>6
  <2>2. CASE ~(t * slice_size_scalar < padding)
    <3>1. q = padding /\ padding - q = 0 /\ 0 = 0 * slice_size_scalar
      BY <1>3, <1>5, <1>8, <2>2 DEF Least
    <3>2. (padding - q) % slice_size_scalar = 0
      <4>1. (0 * slice_size_scalar) % slice_size_scalar = 0
        BY <1>3, Multiples
      <4> QED
        BY <3>1, <4>1
    <3> QED
      BY <1>5, <1>7, <3>1, <3>2
  <2> QED
    BY <2>1, <2>2
<1>10. PICK u \in Nat : /\ q = u * slice_size_scalar /\ q \in Nat
                        /\ padding - q \in Nat /\ (padding - q) % slice_size_scalar = 0
  BY <1>9
<1> HIDE DEF q
<1>11. byte = l + u /\ byte \in Nat
  <2>1. PICK z \in Nat : z = l * slice_size_scalar + q
    BY <1>6, <1>10
  <2>2. z = slice_size_scalar * (l + u) + 0
    <3>1. slice_size_scalar * (l + u) = l * slice_size_scalar + u * slice_size_scalar
          /\ slice_size_scalar * (l + u) \in Nat
      BY <1>3, <1>6, Distributes
    <3> QED
      BY <1>10, <2>1, <3>1
  <2>3. 0 \in 0..(slice_size_scalar - 1) /\ l + u \in Nat
    BY <1>3, <1>6
  <2>4. z \div slice_size_scalar = l + u
    BY <1>3, <2>2, <2>3, QuotientIs
  <2> QED
    BY <2>1, <2>3, <2>4
<1> HIDE DEF byte
<1> DEFINE p == l * slice_size_scalar - length[c] + q
<1>12. p \in Nat /\ byte * slice_size_scalar = length[c] + p
  <2>1. byte * slice_size_scalar = l * slice_size_scalar + u * slice_size_scalar
    BY <1>3, <1>6, <1>11, Distributes
  <2>2. PICK a \in Nat, y \in Nat, len \in Nat :
          a = l * slice_size_scalar /\ y = q /\ len = length[c]
    BY <1>3, <1>6, <1>10
  <2>3. a >= len
    BY <1>6, <2>2
  <2>4. a - len + y \in Nat /\ a + y = len + (a - len + y)
    BY <2>3
  <2> QED
    BY <1>10, <2>1, <2>2, <2>4
<1>13. entry = [start |-> ocounter + 1, byte |-> byte, p |-> p]
  OBVIOUS
<1> HIDE DEF p, entry
<1>14. /\ entry \in [start : Nat, byte : Nat, p : Nat] /\ entry.start = ocounter + 1
       /\ entry.byte = byte /\ entry.p = p
  BY <1>3, <1>11, <1>12, <1>13
<1>15. /\ components' \in Seq([start : Nat, byte : Nat, p : Nat])
       /\ Len(components') = c /\ DOMAIN components' = 1..c /\ DOMAIN components = 1..c-1
       /\ components'[c] = entry /\ \A k \in 1..c-1 : components'[k] = components[k]
  <2>1. /\ Append(components, entry) \in Seq([start : Nat, byte : Nat, p : Nat])
        /\ Len(Append(components, entry)) = Len(components) + 1
        /\ Append(components, entry)[Len(components) + 1] = entry
        /\ \A k \in 1..Len(components) : Append(components, entry)[k] = components[k]
    BY <1>3, <1>14
  <2>2. Len(components) + 1 = c
    BY <1>3, <1>5
  <2> QED
    BY SMTT(60), <1>1, <1>3, <1>5, <2>1, <2>2
<1>b. \A y \in Nat : y <= ocounter => y <= ocounter + 1 /\ y - 1 \in Int /\ y - 1 <= ocounter
  <2>1. PICK o \in Nat : o = ocounter
    BY <1>3
  <2>2. \A y \in Nat : y <= o => y <= o + 1 /\ y - 1 \in Int /\ y - 1 <= o
    OBVIOUS
  <2> QED
    BY <2>1, <2>2
<1>a. ASSUME NEW k \in 1..c-1
      PROVE  /\ k \in Nat /\ k \in DOMAIN components
             /\ components[k].start \in Nat /\ components[k].byte \in Nat /\ components[k].p \in Nat
             /\ components[k].start <= ocounter
             /\ components[k].byte * slice_size_scalar = length[k] + components[k].p
             /\ Stands(k)
  <2>1. k \in DOMAIN components /\ k \in Nat /\ k # c
    BY <1>3, <1>15
  <2>2. components[k] \in [start : Nat, byte : Nat, p : Nat]
    <3>1. \A i \in 1..Len(components) : components[i] \in [start : Nat, byte : Nat, p : Nat]
      BY <1>3, ElementOfSeq
    <3> QED
      BY <1>5, <3>1
  <2>3. /\ components[k].start <= ocounter
        /\ components[k].byte * slice_size_scalar = length[k] + components[k].p
        /\ Stands(k)
    BY <1>2, <2>1 DEF OutputInv
  <2> QED
    BY <2>1, <2>2, <2>3
<1>16. Bits(byte, 8) \in Seq(Binary) /\ Len(Bits(byte, 8)) = 8
  <2>1. PICK y \in Nat : y = byte
    BY <1>11
  <2>2. 8 \in 0..18
    OBVIOUS
  <2>3. Bits(y, 8) \in Seq(Binary) /\ Len(Bits(y, 8)) = 8
    BY <2>2, BitsType
  <2> QED
    BY <2>1, <2>3
<1>17. /\ optr' \in Seq(Binary) /\ Len(optr') >= 8 * ocounter + 8
       /\ \A i \in 1..8 * ocounter : optr'[i] = optr[i]
  <2>1. PICK b \in Seq(Binary) : b = Bits(byte, 8)
    BY <1>16
  <2>2. /\ Store(ocounter, b) \in Seq(Binary) /\ Len(Store(ocounter, b)) >= 8 * ocounter + Len(b)
        /\ \A i \in 1..8 * ocounter : Store(ocounter, b)[i] = optr[i]
    BY <1>3, StoreIs
  <2> QED
    BY <1>1, <1>16, <2>1, <2>2
<1>18. CodingType'
  <2>1. ocounter' \in Nat /\ 8 * ocounter' <= Len(optr')
    <3>1. Len(optr') \in Nat
      BY <1>17, LenProperties
    <3> QED
      BY <1>1, <1>3, <1>17, <3>1
  <2>2. accum' \in Seq(Binary) /\ n' \in Nat
    BY <1>1
  <2>3. /\ stage' # "fit" /\ stage' # "done" /\ stage' \notin {"encode", "fit"}
        /\ stage' # "length" /\ stage' \in {"encode", "fit", "length", "words", "done"}
    BY <1>1
  <2>4. padding' \in Nat /\ padding' % slice_size_scalar = 0
    BY <1>1, <1>10
  <2>5. /\ shape \in Shapes /\ slice_size_scalar \in Scalars /\ last \in BOOLEAN
        /\ coefs \in [Components -> Seq(Coefs)]
        /\ length \in [Components -> Int] /\ samples \in [Components -> Int]
    BY <1>2 DEF CodingType
  <2> QED
    BY <1>3, <1>4, <1>15, <1>17, <2>1, <2>2, <2>3, <2>4, <2>5, Zenon DEF CodingType
<1>19. LengthsInv'
  <2>1. stage \in {"length", "words"} /\ stage' \in {"length", "words", "done"}
    BY <1>1
  <2> QED
    BY <1>1, <1>2, <2>1, LengthsStay
<1>20. ASSUME NEW k \in 1..c-1 PROVE Stands(k)'
  <2>1. Stands(k) /\ components[k].start \in Nat
    BY <1>a
  <2>2. EndOf(k)' = EndOf(k) /\ EndOf(k) \in Int /\ EndOf(k) <= ocounter
    <3>1. CASE k = c - 1
      <4>1. EndOf(k) = ocounter
        BY <1>5, <3>1 DEF EndOf
      <4>2. k + 1 = c
        BY <1>3, <3>1
      <4>3. EndOf(k)' = components'[c].start - 1
        <5>1. k # Len(components')
          BY <1>3, <1>15, <3>1
        <5>2. EndOf(k)' = components'[k + 1].start - 1
          BY <5>1 DEF EndOf
        <5> QED
          BY <4>2, <5>2
      <4> QED
        BY <1>3, <1>14, <1>15, <4>1, <4>3
    <3>2. CASE k # c - 1
      <4>1. k + 1 \in 1..c-1
        BY <1>3, <3>2
      <4>2. EndOf(k) = components[k + 1].start - 1 /\ EndOf(k)' = components'[k + 1].start - 1
        BY <1>3, <1>5, <1>15, <3>2 DEF EndOf
      <4>3. components[k + 1].start \in Nat /\ components[k + 1].start <= ocounter
            /\ components'[k + 1] = components[k + 1]
        BY <1>15, <1>a, <4>1
      <4> QED
        <5>1. PICK y \in Nat : y = components[k + 1].start
          BY <4>3
        <5>2. EndOf(k) = y - 1 /\ EndOf(k)' = y - 1 /\ y <= ocounter
          BY <4>2, <4>3, <5>1
        <5>3. y - 1 \in Int /\ y - 1 <= ocounter
          BY <1>b, <5>1, <5>2
        <5> QED
          BY <5>2, <5>3
    <3> QED
      BY <3>1, <3>2
  <2>3. EndOf(k) \in Nat
    <3>1. components[k].start + components[k].byte * slice_size_scalar = EndOf(k)
      BY <2>1 DEF Stands
    <3>2. components[k].byte * slice_size_scalar \in Nat
      <4>1. \A y \in Nat : y * slice_size_scalar \in Nat
        BY <1>3
      <4> QED
        BY <1>a, <4>1
    <3> QED
      BY <2>1, <3>1, <3>2
  <2>4. \A i \in 1..8 * EndOf(k) : optr'[i] = optr[i]
    <3>1. \A i \in 1..8 * EndOf(k) : i \in 1..8 * ocounter
      BY <1>3, <2>2, <2>3
    <3> QED
      BY <1>17, <3>1
  <2>5. components'[k] = components[k] /\ k \in Nat
    BY <1>3, <1>15
  <2> QED
    BY <1>1, <2>1, <2>2, <2>3, <2>4, <2>5, StandsStays
<1>21. Writing'
  <2> DEFINE done == Words(SubSeq(coefs[c], 1, 0))
  <2>1. SubSeq(coefs[c], 1, 0) = <<>>
    BY SubSeqEmpty
  <2>2. done = <<>> /\ Len(done) = 0
    <3>1. done = Words(<<>>)
      BY <2>1
    <3> HIDE DEF done
    <3>2. done = <<>>
      BY <3>1, NoWords
    <3> QED
      BY <3>2
  <2>3. /\ components'[c].start = ocounter + 1 /\ ocounter' = ocounter + 1
        /\ 8 * (ocounter' - components'[c].start) = 0 /\ Len(accum') = 0
    BY <1>1, <1>3, <1>14, <1>15
  <2>4. Words(SubSeq(coefs'[c'], 1, n')) = done /\ 0 <= samples'[c']
    BY <1>1, <1>3, <1>4
  <2> HIDE DEF done
  <2>5. 0 < 8 /\ 0 + 0 = 0 /\ \A i \in 1..0 : FALSE
    OBVIOUS
  <2> QED
    BY <1>1, <1>4, <2>2, <2>3, <2>4, <2>5 DEF Writing
<1>22. OutputInv'
  <2>1. ASSUME NEW k \in DOMAIN components'
        PROVE  /\ components'[k].start <= ocounter'
               /\ components'[k].byte * slice_size_scalar = length[k] + components'[k].p
    <3>1. CASE k = c
      <4>1. ocounter + 1 <= ocounter + 1 /\ components'[k] = entry
        BY <1>3, <1>15, <3>1
      <4> QED
        BY <1>1, <1>12, <1>14, <3>1, <4>1
    <3>2. CASE k # c
      <4>1. k \in 1..c-1 /\ k \in DOMAIN components
        BY SMTT(60), <1>3, <1>15, <3>2
      <4>2. /\ components[k].start <= ocounter /\ components[k].start \in Nat
            /\ components[k].byte * slice_size_scalar = length[k] + components[k].p
            /\ components'[k] = components[k]
        BY <1>15, <1>a, <4>1
      <4>3. components[k].start <= ocounter + 1
        BY <1>b, <4>2
      <4> QED
        BY <1>1, <4>2, <4>3
    <3> QED
      BY <3>1, <3>2
  <2>2. ASSUME NEW k \in DOMAIN components' PROVE (stage' = "words" /\ k = c') \/ Stands(k)'
    <3>1. k = c \/ k \in 1..c-1
      <4>1. PICK top \in Nat : top = c
        BY <1>3
      <4>2. \A y \in 1..top : y = top \/ y \in 1..top-1
        OBVIOUS
      <4> QED
        BY <1>15, <4>1, <4>2
    <3> QED
      BY <1>1, <1>4, <1>20, <3>1
  <2> QED
    BY <1>4, <1>21, <2>1, <2>2 DEF OutputInv
<1> QED
  BY <1>18, <1>19, <1>22 DEF CodingInv

\* What is known of the component that is being written.
LEMMA WhileWords ==
  ASSUME SliceCodingAssumption, CodingInv, stage = "words", UNCHANGED <<given, coding>>
  PROVE  /\ Len(components) = c /\ DOMAIN components = 1..c
         /\ n \in Nat /\ n <= samples[c] /\ accum \in Seq(Binary) /\ Len(accum) \in 0..7
         /\ components[c].start \in Nat /\ components[c].p \in Nat
         /\ components[c].start <= ocounter
         /\ components[c].byte * slice_size_scalar = length[c] + components[c].p
         /\ 8 * (ocounter - components[c].start) + Len(accum) = Len(Words(SubSeq(coefs[c], 1, n)))
         /\ \A i \in 1..Len(Words(SubSeq(coefs[c], 1, n))) :
               Words(SubSeq(coefs[c], 1, n))[i] =
                  IF i <= 8 * (ocounter - components[c].start) THEN optr[8 * components[c].start + i]
                  ELSE accum[i - 8 * (ocounter - components[c].start)]
<1>1. CodingType /\ OutputInv /\ Writing
  BY DEF CodingInv, OutputInv
<1>2. /\ c \in Components /\ Components = 1..Len(SAMPLES) /\ Len(SAMPLES) \in Nat
      /\ components \in Seq([start : Nat, byte : Nat, p : Nat])
  BY WhileWriting
<1>3. Len(components) = c /\ DOMAIN components = 1..c
  <2>1. Len(components) = c
    BY <1>1 DEF CodingType
  <2> QED
    BY <1>2, <2>1, LenProperties
<1>4. n \in Nat /\ accum \in Seq(Binary) /\ Len(accum) \in 0..7
  <2>1. n \in Nat /\ accum \in Seq(Binary)
    BY <1>1 DEF CodingType
  <2>2. Len(accum) \in Nat
    BY <2>1, LenProperties
  <2>3. Len(accum) < 8
    BY <1>1 DEF Writing
  <2>4. \A y \in Nat : y < 8 => y \in 0..7
    OBVIOUS
  <2> QED
    BY <2>1, <2>2, <2>3, <2>4
<1>5. c \in DOMAIN components /\ c \in 1..Len(components)
  BY <1>2, <1>3
<1>6. components[c] \in [start : Nat, byte : Nat, p : Nat]
  <2>1. \A i \in 1..Len(components) : components[i] \in [start : Nat, byte : Nat, p : Nat]
    BY ZenonT(60), <1>2, ElementOfSeq
  <2> QED
    BY <1>5, <2>1
<1>7. /\ components[c].start <= ocounter
      /\ components[c].byte * slice_size_scalar = length[c] + components[c].p
  BY <1>1, <1>5 DEF OutputInv
<1> QED
  BY <1>1, <1>3, <1>4, <1>6, <1>7 DEF Writing

\* The components already written stand where they are.
LEMMA OthersStand ==
  ASSUME SliceCodingAssumption, CodingInv, stage = "words", UNCHANGED <<given, coding, components>>,
         \A i \in 1..8 * ocounter : optr'[i] = optr[i], NEW k \in DOMAIN components, k # c
  PROVE  Stands(k)'
<1>1. /\ Len(components) = c /\ DOMAIN components = 1..c
      /\ c \in 1..Len(SAMPLES) /\ Len(SAMPLES) \in Nat /\ ocounter \in Nat
      /\ components \in Seq([start : Nat, byte : Nat, p : Nat])
      /\ slice_size_scalar \in Nat \ {0}
  BY WhileWords, WhileWriting
<1>2. OutputInv
  BY DEF CodingInv
<1>3. k \in Nat /\ k \in 1..Len(components) /\ k + 1 \in 1..Len(components)
      /\ k + 1 \in DOMAIN components /\ k # Len(components)
  BY SMTT(60), <1>1
<1>4. \A i \in 1..Len(components) : components[i] \in [start : Nat, byte : Nat, p : Nat]
  BY ZenonT(60), <1>1, ElementOfSeq
<1>5. Stands(k) /\ components[k].start \in Nat /\ components[k].byte \in Nat
  BY <1>2, <1>3, <1>4 DEF OutputInv
<1>6. PICK y \in Nat : y = components[k + 1].start
  BY <1>3, <1>4
<1>7. EndOf(k) = y - 1 /\ EndOf(k)' = y - 1 /\ y <= ocounter
  <2>1. y <= ocounter
    BY <1>2, <1>3, <1>6 DEF OutputInv
  <2>2. EndOf(k) = components[k + 1].start - 1
    BY <1>3 DEF EndOf
  <2>3. EndOf(k)' = components[k + 1].start - 1
    BY <1>3 DEF EndOf
  <2> QED
    BY <1>6, <2>1, <2>2, <2>3
<1>8. EndOf(k) \in Nat
  <2>1. components[k].start + components[k].byte * slice_size_scalar = EndOf(k)
    BY <1>5 DEF Stands
  <2>2. \A z \in Nat : z * slice_size_scalar \in Nat
    BY <1>1
  <2>3. PICK z \in Nat, u \in Nat :
          z = components[k].start /\ u = components[k].byte * slice_size_scalar
    BY <1>5, <2>2
  <2>4. z + u \in Nat
    OBVIOUS
  <2> QED
    BY <2>1, <2>3, <2>4
<1>9. \A i \in 1..8 * EndOf(k) : optr'[i] = optr[i]
  <2>1. PICK e \in Nat, o \in Nat : e = EndOf(k) /\ o = ocounter
    BY <1>1, <1>8
  <2>2. e <= o
    BY <1>6, <1>7, <2>1
  <2>3. \A i \in 1..8 * e : i \in 1..8 * o
    BY <2>2
  <2> QED
    BY <2>1, <2>3
<1>10. components'[k] = components[k] /\ EndOf(k)' = EndOf(k) /\ UNCHANGED <<given, coding>>
  BY <1>7
<1> QED
  BY <1>3, <1>5, <1>8, <1>9, <1>10, StandsStays

LEMMA WriteWordStep ==
  ASSUME SliceCodingAssumption, CodingInv, WriteWord
  PROVE  CodingInv'
<1> DEFINE xs == coefs[c]
           x == xs[n + 1]
           word == ExpGolomb(x)
           acc == accum \o Codeword(x)
           whole == Len(acc) \div 8
           bits == IF last THEN SubSeq(acc, 1, 8 * whole) ELSE acc \o Zeros(32 - Len(acc))
           from == components[c].start
           stored == 8 * (ocounter - from)
           done == Words(SubSeq(xs, 1, n))
           next == Words(SubSeq(xs, 1, n + 1))
<1>1. /\ stage = "words" /\ stage' = stage /\ n < samples[c]
      /\ optr' = Store(ocounter, bits) /\ ocounter' = ocounter + whole
      /\ accum' = SubSeq(acc, 8 * whole + 1, Len(acc)) /\ n' = n + 1
      /\ UNCHANGED <<given, c, coding, padding, components>>
  BY DEF WriteWord
<1> HIDE DEF xs, x, word, acc, whole, bits, from, done, next
<1>2. CodingType /\ LengthsInv /\ OutputInv
  BY DEF CodingInv
<1>3. /\ SAMPLES' = SAMPLES /\ Components' = Components
      /\ c \in Components /\ Components = 1..Len(SAMPLES) /\ Len(SAMPLES) \in Nat
      /\ xs \in Seq(Coefs) /\ samples[c] \in 0..Len(xs) /\ Len(xs) \in Nat
      /\ optr \in Seq(Binary) /\ ocounter \in Nat /\ 8 * ocounter <= Len(optr)
      /\ components \in Seq([start : Nat, byte : Nat, p : Nat])
  BY <1>1, WhileWriting DEF xs
<1>4. /\ shape' = shape /\ slice_size_scalar' = slice_size_scalar /\ last' = last /\ c' = c
      /\ coefs' = coefs /\ length' = length /\ samples' = samples
      /\ padding' = padding /\ components' = components
  BY <1>1 DEF given, coding
<1>5. /\ Len(components) = c /\ DOMAIN components = 1..c
      /\ n \in Nat /\ accum \in Seq(Binary) /\ Len(accum) \in 0..7
      /\ from \in Nat /\ from <= ocounter
      /\ stored + Len(accum) = Len(done)
  BY <1>1, WhileWords DEF from, done, xs
<1>5q. \A i \in 1..Len(done) :
          done[i] = IF i <= stored THEN optr[8 * from + i] ELSE accum[i - stored]
  BY <1>1, WhileWords DEF from, done, xs
<1>n. PICK o \in Nat, f \in Nat, s \in Nat, al \in 0..7 :
        o = ocounter /\ f = from /\ s = stored /\ al = Len(accum) /\ s = 8 * (o - f)
  <2>1. PICK o \in Nat, f \in Nat : o = ocounter /\ f = from
    BY <1>3, <1>5
  <2>2. f <= o
    BY <1>5, <2>1
  <2>3. 8 * (o - f) \in Nat
    BY <2>2
  <2> QED
    BY <1>5, <2>1, <2>3
<1>6. /\ x \in Coefs /\ SubSeq(xs, 1, n) \in Seq(Coefs)
      /\ SubSeq(xs, 1, n + 1) = Append(SubSeq(xs, 1, n), x)
  <2>0. PICK d \in Nat : d = Len(xs) /\ samples[c] \in 0..d
    BY <1>3
  <2>1. PICK a \in Nat, b \in 0..d : a = n /\ b = samples[c]
    BY <1>5, <2>0
  <2>2. a < b
    BY <1>1, <2>1
  <2>3. n < Len(xs)
    BY <2>0, <2>1, <2>2
  <2>4. n \in Nat
    BY <1>5
  <2> QED
    BY <1>3, <2>3, <2>4, PrefixNext DEF x
<1>7. Codeword(x) = word /\ word \in Seq(Binary) /\ Len(word) \in 1..18
  <2>1. /\ Codeword(x) = ExpGolomb(x) /\ ExpGolomb(x) \in Seq(Binary)
        /\ Len(ExpGolomb(x)) = WLLUT[x.d] /\ WLLUT[x.d] \in 1..18
    BY <1>6, WordIs
  <2> QED
    BY ZenonT(60), <2>1 DEF word
<1>w. PICK wl \in 1..18 : wl = Len(word)
  BY <1>7
<1>8. acc \in Seq(Binary) /\ Len(acc) = al + wl
      /\ \A i \in 1..al + wl : acc[i] = IF i <= al THEN accum[i] ELSE word[i - al]
  <2>1. PICK w \in Seq(Binary) : w = word
    BY <1>7
  <2>2. PICK a \in Seq(Binary) : a = accum
    BY <1>5
  <2>3. /\ a \o w \in Seq(Binary) /\ Len(a \o w) = Len(a) + Len(w)
        /\ \A i \in 1..Len(a) + Len(w) : (a \o w)[i] = IF i <= Len(a) THEN a[i] ELSE w[i - Len(a)]
    BY ConcatProperties
  <2>4. acc = a \o w
    BY <1>7, <2>1, <2>2 DEF acc
  <2>5. Len(a) = al /\ Len(w) = wl
    BY <1>n, <1>w, <2>1, <2>2
  <2> QED
    BY <2>1, <2>2, <2>3, <2>4, <2>5
<1>l. PICK ac \in 1..25 : ac = Len(acc) /\ ac = al + wl
  <2>1. al + wl \in 1..25
    OBVIOUS
  <2> QED
    BY <1>8, <2>1
<1>9. /\ done \in Seq(Binary) /\ Len(done) \in Nat /\ next \in Seq(Binary)
      /\ Len(done) = s + al /\ Len(next) = s + al + wl
      /\ \A i \in 1..s + al + wl : next[i] = IF i <= s + al THEN done[i] ELSE word[i - (s + al)]
  <2>1. next = done \o word
    BY <1>6, WordsNext DEF done, next, word
  <2>2. done \in Seq(Binary)
    BY <1>6, WordSeqType DEF done
  <2>3. PICK a \in Seq(Binary), w \in Seq(Binary) : a = done /\ w = word
    BY <1>7, <2>2
  <2>4. /\ a \o w \in Seq(Binary) /\ Len(a \o w) = Len(a) + Len(w)
        /\ \A i \in 1..Len(a) + Len(w) : (a \o w)[i] = IF i <= Len(a) THEN a[i] ELSE w[i - Len(a)]
    BY ConcatProperties
  <2>5. next = a \o w
    BY <2>1, <2>3
  <2>6. Len(a) = s + al /\ Len(w) = wl
    BY <1>5, <1>n, <1>w, <2>3
  <2>7. s + al \in Nat
    OBVIOUS
  <2> QED
    BY <2>2, <2>3, <2>4, <2>5, <2>6, <2>7
<1>10. PICK wh \in 0..3 : wh = whole /\ ac - 8 * wh \in 0..7 /\ 8 * wh <= ac
  <2>1. whole = ac \div 8
    BY <1>l DEF whole
  <2>2. ac \div 8 \in 0..3 /\ ac - 8 * (ac \div 8) \in 0..7 /\ 8 * (ac \div 8) <= ac
    BY SMT
  <2> QED
    BY <2>1, <2>2
<1>11. /\ bits \in Seq(Binary) /\ Len(bits) \in Nat /\ Len(bits) >= 8 * wh
       /\ \A i \in 1..8 * wh : bits[i] = acc[i]
  <2>e. \A i \in 1..ac : acc[i] \in Binary
    BY <1>8, <1>l, ElementOfSeq
  <2>1. CASE last
    <3>1. PICK m \in Nat : m = 8 * wh /\ m <= ac
      BY <1>10
    <3>2. \A i \in 1..m : acc[i] \in Binary
      BY <2>e, <3>1
    <3>3. 1 \in Int /\ m \in Int
      OBVIOUS
    <3>4. /\ SubSeq(acc, 1, m) \in Seq(Binary)
          /\ Len(SubSeq(acc, 1, m)) = (IF 1 <= m THEN m - 1 + 1 ELSE 0)
          /\ \A i \in 1..m - 1 + 1 : SubSeq(acc, 1, m)[i] = acc[1 + i - 1]
      BY <3>2, <3>3, SubSeqProperties
    <3>5. (IF 1 <= m THEN m - 1 + 1 ELSE 0) = m /\ \A i \in 1..m : i \in 1..m - 1 + 1 /\ 1 + i - 1 = i
      OBVIOUS
    <3>6. Len(SubSeq(acc, 1, m)) = m /\ \A i \in 1..m : SubSeq(acc, 1, m)[i] = acc[i]
      BY <3>4, <3>5
    <3>7. bits = SubSeq(acc, 1, m)
      BY <1>10, <2>1, <3>1 DEF bits
    <3>8. m >= m
      OBVIOUS
    <3> QED
      BY <3>1, <3>4, <3>6, <3>7, <3>8
  <2>2. CASE ~last
    <3>1. PICK k \in Nat : k = 32 - ac
      OBVIOUS
    <3>2. Zeros(k) \in Seq(Binary) /\ Len(Zeros(k)) = k
      BY ZerosType
    <3>3. PICK a \in Seq(Binary), w \in Seq(Binary) : a = acc /\ w = Zeros(k)
      BY <1>8, <3>2
    <3>4. /\ a \o w \in Seq(Binary) /\ Len(a \o w) = Len(a) + Len(w)
          /\ \A i \in 1..Len(a) + Len(w) : (a \o w)[i] = IF i <= Len(a) THEN a[i] ELSE w[i - Len(a)]
      BY ConcatProperties
    <3>5. bits = a \o w
      BY <1>l, <2>2, <3>1, <3>3 DEF bits
    <3>6. Len(a) = ac /\ Len(w) = k
      BY <1>l, <3>2, <3>3
    <3>7. \A i \in 1..8 * wh : i \in 1..ac + k /\ i <= ac
      BY <1>10
    <3>8. \A i \in 1..8 * wh : (a \o w)[i] = a[i]
      BY <3>4, <3>6, <3>7
    <3>9. ac + k \in Nat /\ ac + k >= 8 * wh
      BY <1>10
    <3> QED
      BY <3>3, <3>4, <3>5, <3>6, <3>8, <3>9
  <2> QED
    BY <2>1, <2>2
<1>12. /\ optr' \in Seq(Binary) /\ Len(optr') >= 8 * o + 8 * wh
       /\ \A i \in 1..8 * o : optr'[i] = optr[i]
       /\ \A i \in 1..8 * wh : optr'[8 * o + i] = acc[i]
  <2>1. /\ Store(o, bits) \in Seq(Binary)
        /\ Len(Store(o, bits)) >= 8 * o + Len(bits)
        /\ \A i \in 1..8 * o : Store(o, bits)[i] = optr[i]
        /\ \A i \in 1..Len(bits) : Store(o, bits)[8 * o + i] = bits[i]
    BY SMTT(60), <1>3, <1>n, <1>11, StoreIs
  <2>2. optr' = Store(o, bits)
    BY <1>1, <1>n
  <2>3. PICK bl \in Nat : bl = Len(bits)
    BY <1>11
  <2>4. bl >= 8 * wh /\ \A i \in 1..8 * wh : i \in 1..bl
    BY <1>11, <2>3
  <2>5. Len(optr') \in Nat
    BY <2>1, <2>2, LenProperties
  <2>6. Len(optr') >= 8 * o + 8 * wh
    <3>1. PICK ol \in Nat : ol = Len(optr')
      BY <2>5
    <3>2. ol >= 8 * o + bl
      BY <2>1, <2>2, <2>3, <3>1
    <3>3. ol >= 8 * o + 8 * wh
      BY <2>4, <3>2
    <3> QED
      BY <3>1, <3>3
  <2> QED
    BY <1>11, <2>1, <2>2, <2>3, <2>4, <2>6
<1>13. /\ accum' \in Seq(Binary) /\ Len(accum') = ac - 8 * wh
       /\ \A i \in 1..ac - 8 * wh : accum'[i] = acc[8 * wh + i]
  <2>1. PICK m \in 1..25 : m = 8 * wh + 1
    OBVIOUS
  <2>2. \A i \in m..ac : acc[i] \in Binary
    <3>1. \A i \in 1..ac : acc[i] \in Binary
      BY <1>8, <1>l, ElementOfSeq
    <3>2. \A i \in m..ac : i \in 1..ac
      OBVIOUS
    <3> QED
      BY <3>1, <3>2
  <2>3. m \in Int /\ ac \in Int
    OBVIOUS
  <2>4. /\ SubSeq(acc, m, ac) \in Seq(Binary)
        /\ Len(SubSeq(acc, m, ac)) = (IF m <= ac THEN ac - m + 1 ELSE 0)
        /\ \A i \in 1..ac - m + 1 : SubSeq(acc, m, ac)[i] = acc[m + i - 1]
    BY <2>2, <2>3, SubSeqProperties
  <2>5. accum' = SubSeq(acc, m, ac)
    BY <1>1, <1>10, <1>l, <2>1
  <2>6. (IF m <= ac THEN ac - m + 1 ELSE 0) = ac - 8 * wh
    BY <1>10, <2>1
  <2>7. \A i \in 1..ac - 8 * wh : i \in 1..ac - m + 1 /\ m + i - 1 = 8 * wh + i
    BY <1>10, <2>1
  <2> QED
    BY <2>4, <2>5, <2>6, <2>7
<1>14. Writing'
  <2>1. PICK t \in Nat : t = s + 8 * wh
    OBVIOUS
  <2>2. t = 8 * (ocounter' - from)
    <3>1. ocounter' = o + wh /\ from = f
      BY <1>1, <1>n, <1>10
    <3>2. 8 * (o + wh - f) = s + 8 * wh
      BY <1>n
    <3> QED
      BY <2>1, <3>1, <3>2
  <2>3. t + Len(accum') = Len(next) /\ Len(accum') < 8
    <3>1. t + (ac - 8 * wh) = s + al + wl /\ ac - 8 * wh < 8
      BY <1>10, <1>l, <2>1
    <3> QED
      BY <1>9, <1>13, <3>1
  <2>4. \A i \in 1..Len(next) :
           next[i] = IF i <= t THEN optr'[8 * from + i] ELSE accum'[i - t]
    <3> SUFFICES ASSUME NEW i \in 1..s + al + wl
                 PROVE  next[i] = IF i <= t THEN optr'[8 * f + i] ELSE accum'[i - t]
      BY <1>9, <1>n
    <3>2. CASE i <= s
      <4>1. i <= s + al /\ i \in 1..s + al
        BY <3>2
      <4>2. next[i] = done[i]
        BY <1>9, <4>1
      <4>3. done[i] = optr[8 * f + i]
        <5>1. i \in 1..Len(done)
          BY <1>9, <4>1
        <5> QED
          BY <1>5q, <1>n, <3>2, <5>1
      <4>4. PICK j \in Nat : j = 8 * f + i
        OBVIOUS
      <4>5. j \in 1..8 * o
        BY <1>n, <3>2, <4>4
      <4>6. i <= t
        BY <2>1, <3>2
      <4>7. optr'[j] = optr[j]
        BY <1>12, <4>5
      <4> QED
        BY <4>2, <4>3, <4>4, <4>6, <4>7
    <3>3. CASE ~(i <= s)
      <4>1. PICK j \in 1..ac : j = i - s
        BY <1>l, <3>3
      <4>2. next[i] = acc[j]
        <5>0. j \in 1..al + wl
          BY <1>l
        <5>1. CASE i <= s + al
          <6>1. i \in 1..s + al /\ j <= al
            BY <3>3, <4>1, <5>1
          <6>2. next[i] = done[i]
            BY <1>9, <5>1
          <6>3. done[i] = accum[i - s]
            <7>1. i \in 1..Len(done)
              BY <1>9, <6>1
            <7> QED
              BY <1>5q, <1>n, <3>3, <7>1
          <6>4. acc[j] = accum[j]
            BY <1>8, <5>0, <6>1
          <6> QED
            BY <4>1, <6>2, <6>3, <6>4
        <5>2. CASE ~(i <= s + al)
          <6>1. ~(j <= al) /\ i - (s + al) = j - al
            BY <3>3, <4>1, <5>2
          <6>2. next[i] = word[i - (s + al)]
            BY <1>9, <5>2
          <6>3. acc[j] = word[j - al]
            BY <1>8, <5>0, <6>1
          <6> QED
            BY <6>1, <6>2, <6>3
        <5> QED
          BY <5>1, <5>2
      <4>3. CASE i <= t
        <5>1. j \in 1..8 * wh /\ 8 * o + j = 8 * f + i
          BY <1>n, <2>1, <3>3, <4>1, <4>3
        <5>2. optr'[8 * o + j] = acc[j]
          BY <1>12, <5>1
        <5> QED
          BY <4>2, <4>3, <5>1, <5>2
      <4>4. CASE ~(i <= t)
        <5>1. PICK k \in Nat : k = i - t
          BY <2>1, <4>4
        <5>2. k \in 1..ac - 8 * wh /\ 8 * wh + k = j
          BY <1>l, <2>1, <4>1, <4>4, <5>1
        <5>3. accum'[k] = acc[j]
          BY <1>13, <5>2
        <5> QED
          BY <4>2, <4>4, <5>1, <5>3
      <4> QED
        BY <4>3, <4>4
    <3> QED
      BY <3>2, <3>3
  <2>6. n + 1 <= samples[c]
    <3>0. PICK d \in Nat : d = Len(xs) /\ samples[c] \in 0..d
      BY <1>3
    <3>1. PICK a \in Nat, b \in 0..d : a = n /\ b = samples[c]
      BY <1>5, <3>0
    <3>2. a + 1 <= b
      BY <1>1, <3>1
    <3> QED
      BY <3>1, <3>2
  <2>7. /\ components'[c'].start = from /\ n' = n + 1 /\ n' <= samples'[c']
        /\ Words(SubSeq(coefs'[c'], 1, n')) = next
    BY <1>1, <1>4, <2>6 DEF from, next, xs
  <2> QED
    BY <2>2, <2>3, <2>4, <2>7, Zenon DEF Writing
<1>15. CodingType'
  <2>1. ocounter' \in Nat /\ 8 * ocounter' <= Len(optr')
    <3>1. Len(optr') \in Nat
      BY <1>12, LenProperties
    <3>2. PICK ol \in Nat : ol = Len(optr') /\ ol >= 8 * o + 8 * wh
      BY <1>12, <3>1
    <3>3. 8 * (o + wh) <= ol /\ o + wh \in Nat
      BY <3>2
    <3>4. ocounter' = o + wh
      BY <1>1, <1>n, <1>10
    <3> QED
      BY <3>2, <3>3, <3>4
  <2>2. n' \in Nat
    BY <1>1, <1>5
  <2>3. /\ stage' # "fit" /\ stage' # "done" /\ stage' \notin {"encode", "fit"}
        /\ stage' # "length" /\ stage' \in {"encode", "fit", "length", "words", "done"}
    BY <1>1
  <2>4. /\ shape \in Shapes /\ slice_size_scalar \in Scalars /\ last \in BOOLEAN
        /\ coefs \in [Components -> Seq(Coefs)]
        /\ length \in [Components -> Int] /\ samples \in [Components -> Int]
        /\ padding \in Nat /\ padding % slice_size_scalar = 0
    BY <1>2 DEF CodingType
  <2> QED
    BY <1>3, <1>4, <1>5, <1>12, <1>13, <2>1, <2>2, <2>3, <2>4, Zenon DEF CodingType
<1>16. LengthsInv'
  <2>1. stage \in {"length", "words"} /\ stage' \in {"length", "words", "done"}
    BY <1>1
  <2> QED
    BY <1>1, <1>2, <2>1, LengthsStay
<1>17. OutputInv'
  <2>1. ASSUME NEW k \in DOMAIN components
        PROVE  /\ components[k].start <= ocounter'
               /\ components[k].byte * slice_size_scalar = length[k] + components[k].p
    <3>1. components[k].start <= ocounter
          /\ components[k].byte * slice_size_scalar = length[k] + components[k].p
      BY <1>2 DEF OutputInv
    <3>2. components[k].start \in Nat
      <4>1. k \in 1..Len(components)
        BY <1>5
      <4>2. components[k] \in [start : Nat, byte : Nat, p : Nat]
        BY ZenonT(60), <1>3, <4>1, ElementOfSeq
      <4> QED
        BY <4>2
    <3>3. PICK y \in Nat : y = components[k].start
      BY <3>2
    <3>4. y <= o
      BY <1>n, <3>1, <3>3
    <3>5. y <= o + wh
      BY <3>4
    <3> QED
      BY <1>1, <1>n, <1>10, <3>1, <3>3, <3>5
  <2>2. ASSUME NEW k \in DOMAIN components, k # c PROVE Stands(k)'
    <3>1. UNCHANGED <<given, coding, components>>
      BY <1>1
    <3>2. \A i \in 1..8 * ocounter : optr'[i] = optr[i]
      BY <1>n, <1>12
    <3> QED
      BY <1>1, <2>2, <3>1, <3>2, OthersStand
  <2> QED
    BY <1>1, <1>4, <1>14, <2>1, <2>2, Zenon DEF OutputInv
<1> QED
  BY <1>15, <1>16, <1>17 DEF CodingInv

LEMMA FlushStep ==
  ASSUME SliceCodingAssumption, CodingInv, Flush
  PROVE  CodingInv'
<1> DEFINE from == components[c].start
           p == components[c].p
           rest == IF accum = <<>> THEN <<>> ELSE Fill(accum)
           tail == rest \o Ones(8 * p)
           stored == 8 * (ocounter - from)
           done == Written(c)
<1>1. /\ stage = "words" /\ n = samples[c]
      /\ optr' = Store(ocounter, tail) /\ ocounter' = ocounter + Len(rest) \div 8 + p
      /\ IF c < Len(SAMPLES) THEN c' = c + 1 /\ stage' = "length" ELSE c' = c /\ stage' = "done"
      /\ UNCHANGED <<given, coding, padding, n, accum, components>>
  BY DEF Flush
<1> HIDE DEF from, p, rest, tail, done
<1>2. CodingType /\ LengthsInv /\ OutputInv
  BY DEF CodingInv
<1>3. /\ SAMPLES' = SAMPLES /\ Components' = Components
      /\ c \in Components /\ Components = 1..Len(SAMPLES) /\ Len(SAMPLES) \in Nat
      /\ done \in Seq(Binary) /\ Len(done) \in Nat /\ length[c] = (Len(done) + 7) \div 8
      /\ optr \in Seq(Binary) /\ ocounter \in Nat /\ 8 * ocounter <= Len(optr)
      /\ components \in Seq([start : Nat, byte : Nat, p : Nat])
      /\ slice_size_scalar \in Nat
  BY <1>1, WhileWriting DEF done
<1>4. /\ shape' = shape /\ slice_size_scalar' = slice_size_scalar /\ last' = last
      /\ coefs' = coefs /\ length' = length /\ samples' = samples
      /\ padding' = padding /\ components' = components /\ n' = n /\ accum' = accum
  BY <1>1 DEF given, coding
<1>5. /\ Len(components) = c /\ DOMAIN components = 1..c
      /\ n \in Nat /\ accum \in Seq(Binary) /\ Len(accum) \in 0..7
      /\ from \in Nat /\ p \in Nat /\ from <= ocounter
      /\ components[c].byte * slice_size_scalar = length[c] + p
      /\ stored + Len(accum) = Len(done)
  BY <1>1, WhileWords DEF from, p, done, Written
<1>6. \A i \in 1..Len(done) :
         done[i] = IF i <= stored THEN optr[8 * from + i] ELSE accum[i - stored]
  BY <1>1, WhileWords DEF from, done, Written
<1>7. PICK o \in Nat, f \in Nat, s \in Nat, al \in 0..7 :
        o = ocounter /\ f = from /\ s = stored /\ al = Len(accum) /\ s = 8 * (o - f) /\ f <= o
  <2>1. PICK o \in Nat, f \in Nat : o = ocounter /\ f = from
    BY <1>3, <1>5
  <2>2. f <= o
    BY <1>5, <2>1
  <2>3. 8 * (o - f) \in Nat
    BY <2>2
  <2> QED
    BY <1>5, <2>1, <2>2, <2>3
<1>8. PICK b \in 0..1 :
        /\ rest \in Seq(Binary) /\ Len(rest) = 8 * b /\ al <= 8 * b /\ (al + 7) \div 8 = b
        /\ \A i \in 1..8 * b : rest[i] = IF i <= al THEN accum[i] ELSE 1
  <2>1. CASE accum = <<>>
    <3>1. rest = <<>> /\ al = 0
      BY <1>7, <2>1 DEF rest
    <3>2. /\ <<>> \in Seq(Binary) /\ Len(<<>>) = 8 * 0 /\ 0 <= 8 * 0 /\ (0 + 7) \div 8 = 0
          /\ \A i \in 1..8 * 0 : FALSE
      BY SMT
    <3> QED
      BY <3>1, <3>2
  <2>2. CASE accum # <<>>
    <3>1. al # 0
      BY <1>5, <1>7, <2>2, EmptySeq
    <3>2. PICK k \in 1..7 : k = 8 - al
      BY <3>1
    <3>3. /\ Ones(k) \in Seq(Binary) /\ Len(Ones(k)) = k /\ \A i \in 1..k : Ones(k)[i] = 1
      BY OnesType
    <3>4. PICK a \in Seq(Binary), w \in Seq(Binary) : a = accum /\ w = Ones(k)
      BY <1>5, <3>3
    <3>5. /\ a \o w \in Seq(Binary) /\ Len(a \o w) = Len(a) + Len(w)
          /\ \A i \in 1..Len(a) + Len(w) : (a \o w)[i] = IF i <= Len(a) THEN a[i] ELSE w[i - Len(a)]
      BY ConcatProperties
    <3>6. Len(a) = al /\ Len(w) = k /\ al + k = 8
      BY <1>7, <3>2, <3>3, <3>4
    <3>7. rest = a \o w
      BY <1>7, <2>2, <3>2, <3>4 DEF rest, Fill
    <3>8. ASSUME NEW i \in 1..8 PROVE rest[i] = IF i <= al THEN accum[i] ELSE 1
      <4>1. rest[i] = IF i <= al THEN accum[i] ELSE w[i - al]
        BY <3>4, <3>5, <3>6, <3>7
      <4>2. ~(i <= al) => i - al \in 1..k
        BY <3>2
      <4> QED
        BY <3>3, <3>4, <4>1, <4>2
    <3>9. rest \in Seq(Binary) /\ Len(rest) = 8
      BY <3>5, <3>6, <3>7
    <3>10. 8 * 1 = 8 /\ al <= 8 /\ (al + 7) \div 8 = 1
      BY <3>1, SMT
    <3> QED
      BY <3>8, <3>9, <3>10
  <2> QED
    BY <2>1, <2>2
<1>9. PICK e \in Nat : e = p
  BY <1>5
<1>10. /\ tail \in Seq(Binary) /\ Len(tail) = 8 * b + 8 * e
       /\ \A i \in 1..8 * b + 8 * e : tail[i] = IF i <= al THEN accum[i] ELSE 1
  <2>1. PICK k \in Nat : k = 8 * e
    OBVIOUS
  <2>2. /\ Ones(k) \in Seq(Binary) /\ Len(Ones(k)) = k /\ \A i \in 1..k : Ones(k)[i] = 1
    BY OnesType
  <2>3. PICK a \in Seq(Binary), w \in Seq(Binary) : a = rest /\ w = Ones(k)
    BY <1>8, <2>2
  <2>4. /\ a \o w \in Seq(Binary) /\ Len(a \o w) = Len(a) + Len(w)
        /\ \A i \in 1..Len(a) + Len(w) : (a \o w)[i] = IF i <= Len(a) THEN a[i] ELSE w[i - Len(a)]
    BY ConcatProperties
  <2>5. tail = a \o w
    BY <1>9, <2>1, <2>3 DEF tail
  <2>6. Len(a) = 8 * b /\ Len(w) = k
    BY <1>8, <2>2, <2>3
  <2>7. ASSUME NEW i \in 1..8 * b + k PROVE tail[i] = IF i <= al THEN accum[i] ELSE 1
    <3>1. tail[i] = IF i <= 8 * b THEN rest[i] ELSE w[i - 8 * b]
      BY <2>3, <2>4, <2>5, <2>6
    <3>2. CASE i <= 8 * b
      <4>1. i \in 1..8 * b
        BY <3>2
      <4> QED
        BY <1>8, <3>1, <3>2, <4>1
    <3>3. CASE ~(i <= 8 * b)
      <4>1. i - 8 * b \in 1..k /\ ~(i <= al)
        BY <1>8, <3>3
      <4> QED
        BY <2>2, <2>3, <3>1, <3>3, <4>1
    <3> QED
      BY <3>2, <3>3
  <2> QED
    BY <2>1, <2>4, <2>5, <2>6, <2>7
<1>11. ocounter' = o + b + e
  <2>1. (8 * b) \div 8 = b
    BY SMT
  <2> QED
    BY <1>1, <1>7, <1>8, <1>9, <2>1
<1>12. /\ optr' \in Seq(Binary) /\ Len(optr') \in Nat /\ Len(optr') >= 8 * (o + b + e)
       /\ \A i \in 1..8 * o : optr'[i] = optr[i]
       /\ \A i \in 1..8 * b + 8 * e : optr'[8 * o + i] = IF i <= al THEN accum[i] ELSE 1
  <2>1. /\ Store(o, tail) \in Seq(Binary)
        /\ Len(Store(o, tail)) >= 8 * o + Len(tail)
        /\ \A i \in 1..8 * o : Store(o, tail)[i] = optr[i]
        /\ \A i \in 1..Len(tail) : Store(o, tail)[8 * o + i] = tail[i]
    BY ZenonT(60), <1>3, <1>7, <1>10, StoreIs
  <2>2. optr' = Store(o, tail)
    BY <1>1, <1>7
  <2>3. Len(optr') \in Nat
    BY <2>1, <2>2, LenProperties
  <2>4. Len(optr') >= 8 * (o + b + e)
    <3>1. 8 * o + (8 * b + 8 * e) = 8 * (o + b + e)
      OBVIOUS
    <3> QED
      BY <1>10, <2>1, <2>2, <3>1
  <2> QED
    BY <1>10, <2>1, <2>2, <2>3, <2>4
<1>13. ASSUME NEW k \in Nat, k = c PROVE Stands(k)'   \* c' may be another component
  <2>1. EndOf(k)' = o + b + e
    BY <1>4, <1>5, <1>11, <1>13 DEF EndOf
  <2>2. Written(k)' = done
    BY <1>4, <1>13 DEF Written, done
  <2>3. Len(done) = s + al
    BY <1>5, <1>7
  <2>4. from + components[c].byte * slice_size_scalar = o + b + e
    <3>1. length[c] = (s + al + 7) \div 8
      BY <1>3, <2>3
    <3>2. (s + al + 7) \div 8 = (o - f) + b
      <4>1. PICK y \in Nat : y = o - f
        BY <1>7
      <4>2. (8 * y + al + 7) \div 8 = y + (al + 7) \div 8
        BY SMT
      <4>3. s = 8 * y
        BY <1>7, <4>1
      <4> QED
        BY <1>8, <4>1, <4>2, <4>3
    <3>3. f + ((o - f) + b + e) = o + b + e
      OBVIOUS
    <3> QED
      BY <1>5, <1>7, <1>9, <3>1, <3>2, <3>3
  <2>5. s + al <= 8 * (o + b + e - f)
    BY <1>7, <1>8
  <2>6. ASSUME NEW i \in 1..8 * (o + b + e - f)
        PROVE  optr'[8 * f + i] = IF i <= s + al THEN done[i] ELSE 1
    <3>1. CASE i <= s
      <4>1. i \in 1..s + al /\ i <= s + al
        BY <3>1
      <4>2. done[i] = optr[8 * f + i]
        BY <1>6, <1>7, <2>3, <3>1, <4>1
      <4>3. PICK j \in Nat : j = 8 * f + i
        BY <1>7
      <4>4. j \in 1..8 * o
        BY <1>7, <3>1, <4>3
      <4>5. optr'[j] = optr[j]
        BY <1>12, <4>4
      <4> QED
        BY <4>1, <4>2, <4>3, <4>5
    <3>2. CASE ~(i <= s)
      <4>1. PICK j \in Nat : j = i - s
        BY <3>2
      <4>2. j \in 1..8 * b + 8 * e /\ 8 * o + j = 8 * f + i
        BY <1>7, <3>2, <4>1
      <4>3. optr'[8 * f + i] = IF j <= al THEN accum[j] ELSE 1
        BY <1>12, <4>2
      <4>4. j <= al <=> i <= s + al
        BY <4>1
      <4>5. i <= s + al => done[i] = accum[j]
        <5>1. i <= s + al => i \in 1..s + al
          OBVIOUS
        <5> QED
          BY <1>6, <1>7, <2>3, <3>2, <4>1, <5>1
      <4> QED
        BY <4>3, <4>4, <4>5
    <3> QED
      BY <3>1, <3>2
  <2>7. components'[k].start = f /\ components'[k].byte = components[c].byte /\ from = f
    BY <1>4, <1>7, <1>13 DEF from
  <2> QED
    <3> DEFINE first == components'[k].start
    <3>1. first + components'[k].byte * slice_size_scalar' = EndOf(k)'
      BY <1>4, <1>7, <2>1, <2>4, <2>7
    <3>2. Len(Written(k)') <= 8 * (EndOf(k)' - first)
      BY <2>1, <2>2, <2>3, <2>5, <2>7
    <3>3. \A i \in 1..8 * (EndOf(k)' - first) :
             optr'[8 * first + i] = IF i <= Len(Written(k)') THEN Written(k)'[i] ELSE 1
      BY <2>1, <2>2, <2>3, <2>6, <2>7
    <3> QED
      BY <3>1, <3>2, <3>3, Zenon DEF Stands
<1>14. CodingType'
  <2>1. ocounter' \in Nat /\ 8 * ocounter' <= Len(optr')
    <3>1. PICK z \in Nat, ol \in Nat : z = o + b + e /\ ol = Len(optr')
      BY <1>12
    <3>2. 8 * z <= ol
      BY <1>12, <3>1
    <3> QED
      BY <1>11, <3>1, <3>2
  <2>2. /\ c' \in Components /\ (stage' = "fit" => c' = 1) /\ (stage' = "done" => c' = Len(SAMPLES))
        /\ stage' \in {"length", "done"} /\ Len(components) = IF stage' = "length" THEN c' - 1 ELSE c'
    <3>1. CASE c < Len(SAMPLES)
      <4>1. c' = c + 1 /\ stage' = "length"
        BY <1>1, <3>1
      <4>2. c + 1 \in Components /\ c + 1 - 1 = c
        BY <1>3, <3>1
      <4> QED
        BY <1>5, <4>1, <4>2
    <3>2. CASE ~(c < Len(SAMPLES))
      <4>1. c' = c /\ stage' = "done" /\ c = Len(SAMPLES)
        BY <1>1, <1>3, <3>2
      <4> QED
        BY <1>3, <1>5, <4>1
    <3> QED
      BY <3>1, <3>2
  <2>3. /\ stage' \notin {"encode", "fit"} /\ stage' \in {"encode", "fit", "length", "words", "done"}
    BY <2>2
  <2>4. /\ shape \in Shapes /\ slice_size_scalar \in Scalars /\ last \in BOOLEAN
        /\ coefs \in [Components -> Seq(Coefs)]
        /\ length \in [Components -> Int] /\ samples \in [Components -> Int]
        /\ padding \in Nat /\ padding % slice_size_scalar = 0
    BY <1>2 DEF CodingType
  <2> QED
    BY <1>3, <1>4, <1>5, <1>12, <2>1, <2>2, <2>3, <2>4, Zenon DEF CodingType
<1>15. stage' \in {"length", "words", "done"} /\ stage' # "words"
  BY <1>1
<1>16. LengthsInv'
  <2>1. stage \in {"length", "words"}
    BY <1>1
  <2> QED
    BY <1>1, <1>2, <1>15, <2>1, LengthsStay
<1>17. OutputInv'
  <2>1. ASSUME NEW k \in DOMAIN components
        PROVE  /\ components[k].start <= ocounter'
               /\ components[k].byte * slice_size_scalar = length[k] + components[k].p
    <3>1. components[k].start <= ocounter
          /\ components[k].byte * slice_size_scalar = length[k] + components[k].p
      BY <1>2 DEF OutputInv
    <3>2. components[k].start \in Nat
      <4>1. k \in 1..Len(components)
        BY <1>5
      <4>2. components[k] \in [start : Nat, byte : Nat, p : Nat]
        BY <1>3, <4>1, ElementOfSeq
      <4> QED
        BY <4>2
    <3>3. PICK y \in Nat : y = components[k].start
      BY <3>2
    <3>4. y <= o
      BY <1>7, <3>1, <3>3
    <3>5. y <= o + b + e
      BY <3>4
    <3> QED
      BY <1>11, <3>1, <3>3, <3>5
  <2>2. ASSUME NEW k \in DOMAIN components PROVE Stands(k)'
    <3>1. CASE k = c
      <4>1. k \in Nat
        BY <1>3, <3>1
      <4> QED
        BY <1>13, <3>1, <4>1
    <3>2. CASE k # c
      <4>1. UNCHANGED <<given, coding, components>>
        BY <1>1
      <4>2. \A i \in 1..8 * ocounter : optr'[i] = optr[i]
        BY <1>7, <1>12
      <4> QED
        BY <1>1, <3>2, <4>1, <4>2, OthersStand
    <3> QED
      BY <3>1, <3>2
  <2> QED
    BY <1>4, <1>15, <2>1, <2>2, Zenon DEF OutputInv
<1> QED
  BY <1>14, <1>16, <1>17 DEF CodingInv

LEMMA CodingStutters ==
  ASSUME CodingInv, UNCHANGED codingVars
  PROVE  CodingInv'
<1>1. /\ shape' = shape /\ slice_size_scalar' = slice_size_scalar /\ last' = last /\ stage' = stage
      /\ c' = c /\ coefs' = coefs /\ length' = length /\ samples' = samples /\ padding' = padding
      /\ n' = n /\ accum' = accum /\ optr' = optr /\ ocounter' = ocounter /\ components' = components
  BY DEF codingVars, given, coding, output
<1>2. CodingType'
  BY <1>1 DEF CodingInv, CodingType, Components, SAMPLES
<1>3. LengthsInv'
  BY <1>1 DEF CodingInv, LengthsInv, Components, SAMPLES, Counting, Counted, Written, LastNonzero,
              Blanked, Units
<1>4. OutputInv'
  BY <1>1 DEF CodingInv, OutputInv, Stands, Writing, Written, EndOf
<1> QED
  BY <1>2, <1>3, <1>4 DEF CodingInv

\* Through both passes over a slice: lengths are those of VC-2's words for the
\* coefficients met, and what is stored, together with the bits in accum, are
\* the words of the coefficients written, whatever the stores behind them do.
THEOREM CodingInvariant == CodingSpec => []CodingInv
<1>1. CodingInit => CodingInv
  BY CodingBegins, SliceCodingAssumption
<1>2. CodingInv /\ [CodingNext]_codingVars => CodingInv'
  <2> SUFFICES ASSUME CodingInv, [CodingNext]_codingVars PROVE CodingInv'
    OBVIOUS
  <2>0. SliceCodingAssumption
    BY SliceCodingAssumption
  <2>1. CASE EncodeSample
    BY <2>0, <2>1, EncodeSampleStep
  <2>2. CASE EndComponent
    BY <2>0, <2>2, EndComponentStep
  <2>3. CASE BeginSlice
    BY <2>0, <2>3, BeginSliceStep
  <2>4. CASE LengthByte
    BY <2>0, <2>4, LengthByteStep
  <2>5. CASE WriteWord
    BY <2>0, <2>5, WriteWordStep
  <2>6. CASE Flush
    BY <2>0, <2>6, FlushStep
  <2>7. CASE Ended
    BY <2>7, CodingStutters DEF Ended
  <2>8. CASE UNCHANGED codingVars
    BY <2>8, CodingStutters
  <2> QED
    BY <2>1, <2>2, <2>3, <2>4, <2>5, <2>6, <2>7, <2>8 DEF CodingNext
<1> QED
  BY <1>1, <1>2, PTL DEF CodingSpec

----------------------------------------------------------------------------
(* What follows at the end of the slice.                                   *)

\* The last coefficient that is not 0, as BytesAsMeasured finds it.
LEMMA LastIs ==
  ASSUME NEW xs, Len(xs) \in Nat, NEW m \in 0..Len(xs),
         \A i \in m+1..Len(xs) : xs[i].s = 0, m # 0 => xs[m].s # 0
  PROVE  SelectLastInSeq(xs, LAMBDA x : x.s # 0) = m
<1> DEFINE nonzero == {i \in 1..Len(xs) : xs[i].s # 0}
<1>1. SelectLastInSeq(xs, LAMBDA x : x.s # 0) = IF nonzero # {} THEN Max(nonzero) ELSE 0
  BY DEF SelectLastInSeq
<1>2. \A i \in nonzero : i \in Nat /\ i <= m
  <2> SUFFICES ASSUME NEW i \in nonzero PROVE i \in Nat /\ i <= m
    OBVIOUS
  <2>1. i \in 1..Len(xs) /\ xs[i].s # 0
    OBVIOUS
  <2>2. i \notin m+1..Len(xs)
    BY <2>1
  <2> QED
    BY <2>1, <2>2
<1>3. CASE m = 0
  <2>1. nonzero = {}
    BY <1>2, <1>3
  <2> QED
    BY <1>1, <1>3, <2>1
<1>4. CASE m # 0
  <2>1. m \in nonzero
    BY <1>4
  <2> HIDE DEF nonzero
  <2>2. \A i \in nonzero : m >= i
    BY <1>2
  <2>3. \A j \in nonzero : (\A i \in nonzero : j >= i) => j = m
    BY <1>2, <2>1, <2>2
  <2>4. Max(nonzero) = m
    BY <2>1, <2>2, <2>3 DEF Max
  <2> QED
    BY <1>1, <2>1, <2>4
<1> QED
  BY <1>3, <1>4

\* What the invariant says of a component at the end.
LEMMA WhenDone ==
  ASSUME SliceCodingAssumption, CodingInv, stage = "done", NEW k \in Components
  PROVE  /\ k \in DOMAIN components /\ End(k) = EndOf(k) /\ EndOf(k) \in Nat /\ EndOf(k) <= ocounter
         /\ Stands(k) /\ Counted(k) /\ (Blanked \/ LastNonzero(k, samples[k]))
         /\ components[k].start \in Nat /\ components[k].byte \in Nat /\ components[k].p \in Nat
         /\ components[k].byte * slice_size_scalar = length[k] + components[k].p
         /\ coefs[k] \in Seq(Coefs) /\ SAMPLES[k] \in Nat \ {0} /\ length[k] \in Int
         /\ optr \in Seq(Binary) /\ ocounter \in Nat /\ 8 * ocounter <= Len(optr)
<1>1. CodingType /\ LengthsInv /\ OutputInv
  BY DEF CodingInv
<1>2. /\ Components = 1..Len(SAMPLES) /\ Len(SAMPLES) \in Nat \ {0}
      /\ SAMPLES[k] \in Nat \ {0} /\ slice_size_scalar \in Nat
  BY <1>1, ShapeIs DEF CodingType
<1>3. /\ c = Len(SAMPLES) /\ Len(components) = c
      /\ components \in Seq([start : Nat, byte : Nat, p : Nat])
      /\ coefs[k] \in Seq(Coefs) /\ length[k] \in Int
      /\ optr \in Seq(Binary) /\ ocounter \in Nat /\ 8 * ocounter <= Len(optr)
  BY <1>1 DEF CodingType
<1>4. DOMAIN components = 1..Len(SAMPLES) /\ k \in DOMAIN components /\ k \in Nat
  BY <1>2, <1>3, LenProperties
<1>5. \A i \in DOMAIN components : components[i] \in [start : Nat, byte : Nat, p : Nat]
  <2>1. \A i \in 1..Len(components) : components[i] \in [start : Nat, byte : Nat, p : Nat]
    BY <1>3, ElementOfSeq
  <2> QED
    BY <1>3, <1>4, <2>1
<1>6. components[k].start \in Nat /\ components[k].byte \in Nat /\ components[k].p \in Nat
  BY <1>4, <1>5
<1>7. Stands(k) /\ components[k].byte * slice_size_scalar = length[k] + components[k].p
  BY <1>1, <1>4 DEF OutputInv
<1>8. Counted(k) /\ (Blanked \/ LastNonzero(k, samples[k]))
  BY <1>1 DEF LengthsInv
<1>9. End(k) = EndOf(k)
  BY <1>3 DEF End, EndOf
<1>10. EndOf(k) \in Nat
  <2>1. components[k].start + components[k].byte * slice_size_scalar = EndOf(k)
    BY <1>7 DEF Stands
  <2>2. PICK y \in Nat, z \in Nat : y = components[k].start /\ z = components[k].byte
    BY <1>6
  <2>3. y + z * slice_size_scalar \in Nat
    BY <1>2
  <2> QED
    BY <2>1, <2>2, <2>3
<1>11. EndOf(k) <= ocounter
  <2>1. CASE k = Len(components)
    BY <1>3, <2>1 DEF EndOf
  <2>2. CASE k # Len(components)
    <3>1. k + 1 \in DOMAIN components
      <4>1. PICK a \in Nat, b \in Nat : a = k /\ b = Len(SAMPLES)
        BY <1>2, <1>4
      <4>2. a \in 1..b /\ a # b
        BY <1>2, <1>3, <2>2, <4>1
      <4>3. a + 1 \in 1..b
        BY <4>2
      <4> QED
        BY <1>4, <4>1, <4>3
    <3>2. PICK y \in Nat : y = components[k + 1].start /\ y <= ocounter
      BY <1>1, <1>5, <3>1 DEF OutputInv
    <3>3. PICK o \in Nat : o = ocounter
      BY <1>3
    <3>4. y - 1 <= o
      BY <3>2, <3>3
    <3> QED
      BY <2>2, <3>2, <3>3, <3>4 DEF EndOf
  <2> QED
    BY <2>1, <2>2
<1> QED
  BY <1>2, <1>3, <1>4, <1>6, <1>7, <1>8, <1>9, <1>10, <1>11

\* The invariant at the end gives the two properties.
LEMMA MeasuredIsWritten ==
  ASSUME SliceCodingAssumption, CodingInv
  PROVE  BytesAsMeasured
<1> SUFFICES ASSUME stage = "done", NEW k \in Components
             PROVE  LET coded == SelectLastInSeq(coefs[k], LAMBDA x : x.s # 0)
                        bits == Len(Words(SubSeq(coefs[k], 1, coded)))
                    IN  /\ End(k) = components[k].start + components[k].byte * slice_size_scalar
                        /\ Blanked \/ End(k) - components[k].p = components[k].start + (bits + 7) \div 8
  BY DEF BytesAsMeasured
<1> DEFINE coded == SelectLastInSeq(coefs[k], LAMBDA x : x.s # 0)
           bits == Len(Words(SubSeq(coefs[k], 1, coded)))
<1>1. /\ End(k) = EndOf(k) /\ Stands(k) /\ Counted(k) /\ (Blanked \/ LastNonzero(k, samples[k]))
      /\ components[k].start \in Nat /\ components[k].p \in Nat /\ length[k] \in Int
      /\ components[k].byte * slice_size_scalar = length[k] + components[k].p
      /\ coefs[k] \in Seq(Coefs)
  BY WhenDone
<1>2. End(k) = components[k].start + components[k].byte * slice_size_scalar
  BY <1>1 DEF Stands
<1>3. ASSUME ~Blanked
      PROVE  End(k) - components[k].p = components[k].start + (bits + 7) \div 8
  <2>1. LastNonzero(k, samples[k])
    BY <1>1, <1>3
  <2>2. PICK m \in 0..Len(coefs[k]) :
          /\ m = samples[k] /\ (\A i \in m+1..Len(coefs[k]) : coefs[k][i].s = 0)
          /\ m # 0 => coefs[k][m].s # 0
    BY <2>1 DEF LastNonzero
  <2>3. coded = m
    <3>1. Len(coefs[k]) \in Nat
      BY <1>1, LenProperties
    <3> QED
      BY <2>2, <3>1, LastIs
  <2> HIDE DEF coded
  <2>4. length[k] = (bits + 7) \div 8
    BY <1>1, <2>2, <2>3 DEF Counted, Written
  <2> HIDE DEF bits
  <2>5. PICK y \in Nat, p \in Nat, l \in Int :
          y = components[k].start /\ p = components[k].p /\ l = length[k]
    BY <1>1
  <2>6. y + (l + p) - p = y + l
    OBVIOUS
  <2> QED
    BY <1>1, <1>2, <2>4, <2>5, <2>6
<1> QED
  BY <1>2, <1>3

LEMMA WrittenIsRead ==
  ASSUME SliceCodingAssumption, CodingInv
  PROVE  DecodesBack
<1> SUFFICES ASSUME stage = "done", NEW k \in Components
             PROVE  LET from == components[k].start
                        bytes == SubSeq(optr, 8 * from + 1,
                                        8 * (from + components[k].byte * slice_size_scalar))
                        xs == [i \in 1..SAMPLES[k] |->
                                  IF Blanked THEN [s |-> 0, d |-> 0] ELSE coefs[k][i]]
                    IN  IsPrefix(Words(xs), bytes \o Ones(SAMPLES[k]))
  BY DEF DecodesBack
<1> DEFINE from == components[k].start
           bytes == SubSeq(optr, 8 * from + 1,
                           8 * (from + components[k].byte * slice_size_scalar))
           xs == [i \in 1..SAMPLES[k] |-> IF Blanked THEN [s |-> 0, d |-> 0] ELSE coefs[k][i]]
<1>1. /\ Stands(k) /\ Counted(k) /\ (Blanked \/ LastNonzero(k, samples[k]))
      /\ from \in Nat /\ EndOf(k) \in Nat /\ EndOf(k) <= ocounter /\ ocounter \in Nat
      /\ coefs[k] \in Seq(Coefs) /\ SAMPLES[k] \in Nat \ {0}
      /\ optr \in Seq(Binary) /\ 8 * ocounter <= Len(optr)
  BY WhenDone
<1> DEFINE word == Written(k)
<1>2. PICK num \in Nat : num = SAMPLES[k]
  BY <1>1
\* All the words are those written, and some more of one bit each.
<1>3. \E z \in 0..num : Words(xs) = word \o Ones(z) /\ word \in Seq(Binary)
  <2>1. CASE Blanked
    <3>1. xs = [i \in 1..num |-> [s |-> 0, d |-> 0]]
      BY <1>2, <2>1
    <3>2. [s |-> 0, d |-> 0] \in Coefs
      BY DEF Coefs
    <3> HIDE DEF xs
    <3>3. \A i \in 1..num : xs[i] \in Coefs /\ xs[i].d = 0
      BY <3>1, <3>2
    <3>4. xs \in Seq(Coefs) /\ Len(xs) = num
      <4>1. xs = [i \in 1..num |-> xs[i]] /\ \A i \in 1..num : xs[i] \in Coefs
        BY <3>1, <3>3
      <4> QED
        BY <4>1, SeqIs
    <3>5. Words(xs) = Ones(num)
      BY <3>3, <3>4, WordsOfZeros
    <3>6. word = <<>>
      <4>1. samples[k] = 0
        BY <2>1 DEF Blanked
      <4>2. word = Words(SubSeq(coefs[k], 1, 0))
        BY <4>1 DEF Written
      <4>3. SubSeq(coefs[k], 1, 0) = <<>>
        BY SubSeqEmpty
      <4> QED
        BY <4>2, <4>3, NoWords
    <3>7. Ones(num) \in Seq(Binary)
      BY OnesType
    <3>8. word \o Ones(num) = Ones(num) /\ word \in Seq(Binary)
      BY <3>6, <3>7, ConcatEmptySeq, EmptySeq
    <3> QED
      <4>1. num \in 0..num
        OBVIOUS
      <4> HIDE DEF word
      <4>2. Words(xs) = word \o Ones(num)
        BY <3>5, <3>8
      <4> QED
        BY <3>8, <4>1, <4>2
  <2>2. CASE ~Blanked
    <3>1. /\ samples[k] \in 0..Len(coefs[k]) /\ Len(coefs[k]) = num
          /\ \A i \in samples[k]+1..Len(coefs[k]) : coefs[k][i].s = 0
      BY <1>1, <1>2, <2>2 DEF Counted, LastNonzero
    <3>2. xs = coefs[k]
      <4>1. xs = [i \in 1..num |-> coefs[k][i]]
        BY <1>2, <2>2
      <4>2. coefs[k] = [i \in 1..Len(coefs[k]) |-> coefs[k][i]]
        BY <1>1
      <4> QED
        BY <3>1, <4>1, <4>2
    <3>3. PICK m \in 0..num : m = samples[k]
      BY <3>1
    <3>4. Words(coefs[k]) = Words(SubSeq(coefs[k], 1, m)) \o Ones(Len(coefs[k]) - m)
          /\ SubSeq(coefs[k], 1, m) \in Seq(Coefs)
      BY <1>1, <3>1, <3>3, WordsAndZeros
    <3>5. PICK z \in 0..num : z = num - m
      OBVIOUS
    <3>6. word = Words(SubSeq(coefs[k], 1, m))
      BY <3>3 DEF Written
    <3>7. word \in Seq(Binary)
      BY <3>4, <3>6, WordSeqType
    <3> HIDE DEF word, xs
    <3>8. Words(xs) = word \o Ones(z)
      BY <3>1, <3>2, <3>4, <3>5, <3>6
    <3> QED
      BY <3>7, <3>8
  <2> QED
    BY <2>1, <2>2
<1>4. PICK z \in 0..num : Words(xs) = word \o Ones(z) /\ word \in Seq(Binary)
  BY <1>3
<1>5. PICK wl \in Nat : wl = Len(word)
  BY <1>4, LenProperties
<1>6. PICK f \in Nat, l \in Nat : f = from /\ l = 8 * (EndOf(k) - from) /\ 8 * f + l = 8 * EndOf(k)
  <2>1. PICK f \in Nat, e \in Nat : f = from /\ e = EndOf(k)
    BY <1>1
  <2>2. wl <= 8 * (e - f)
    BY <1>1, <1>5, <2>1 DEF Stands
  <2>3. 8 * (e - f) \in Nat /\ 8 * f + 8 * (e - f) = 8 * e
    BY <2>2
  <2> QED
    BY <2>1, <2>3
<1>7. /\ wl <= l /\ bytes = SubSeq(optr, 8 * f + 1, 8 * f + l)
      /\ \A i \in 1..l : optr[8 * f + i] = IF i <= wl THEN word[i] ELSE 1
  <2>1. wl <= l /\ \A i \in 1..l : optr[8 * f + i] = IF i <= wl THEN word[i] ELSE 1
    BY <1>1, <1>5, <1>6 DEF Stands
  <2>2. from + components[k].byte * slice_size_scalar = EndOf(k)
    BY <1>1 DEF Stands
  <2> QED
    BY <1>6, <2>1, <2>2
<1> HIDE DEF from, bytes, xs, word
<1>8. /\ bytes \in Seq(Binary) /\ Len(bytes) = l
      /\ \A i \in 1..l : bytes[i] = IF i <= wl THEN word[i] ELSE 1
  <2>1. PICK a \in Nat, b \in Nat : a = 8 * f + 1 /\ b = 8 * f + l
    OBVIOUS
  <2>2. \A i \in a..b : optr[i] \in Binary
    <3>1. PICK e \in Nat, o \in Nat, ol \in Nat : e = EndOf(k) /\ o = ocounter /\ ol = Len(optr)
      BY <1>1, LenProperties
    <3>2. e <= o /\ 8 * o <= ol /\ b = 8 * e
      BY <1>1, <1>6, <2>1, <3>1
    <3>3. \A i \in a..b : i \in 1..ol
      BY <2>1, <3>2
    <3> QED
      BY <1>1, <3>1, <3>3, ElementOfSeq
  <2>3. /\ SubSeq(optr, a, b) \in Seq(Binary)
        /\ Len(SubSeq(optr, a, b)) = (IF a <= b THEN b - a + 1 ELSE 0)
        /\ \A i \in 1..b - a + 1 : SubSeq(optr, a, b)[i] = optr[a + i - 1]
    <3>1. a \in Int /\ b \in Int
      OBVIOUS
    <3> QED
      BY <2>2, <3>1, SubSeqProperties
  <2>4. bytes = SubSeq(optr, a, b)
    BY <1>7, <2>1
  <2>5. (IF a <= b THEN b - a + 1 ELSE 0) = l
    BY <2>1
  <2>6. \A i \in 1..l : i \in 1..b - a + 1 /\ a + i - 1 = 8 * f + i
    BY <2>1
  <2>7. \A i \in 1..l : bytes[i] = optr[8 * f + i]
    BY <2>3, <2>4, <2>6
  <2> QED
    BY <1>7, <2>3, <2>4, <2>5, <2>7
<1> DEFINE read == bytes \o Ones(num)
           written == Words(xs)
<1>9. /\ Ones(num) \in Seq(Binary) /\ Len(Ones(num)) = num /\ \A i \in 1..num : Ones(num)[i] = 1
  BY OnesType
<1>10. Ones(z) \in Seq(Binary) /\ Len(Ones(z)) = z /\ \A i \in 1..z : Ones(z)[i] = 1
  BY OnesType
<1>11. /\ read \in Seq(Binary) /\ Len(read) = l + num
       /\ \A i \in 1..l + num : read[i] = IF i <= wl THEN word[i] ELSE 1
  <2>1. PICK w \in Seq(Binary) : w = Ones(num)
    BY <1>9
  <2>2. /\ bytes \o w \in Seq(Binary) /\ Len(bytes \o w) = Len(bytes) + Len(w)
        /\ \A i \in 1..Len(bytes) + Len(w) :
              (bytes \o w)[i] = IF i <= Len(bytes) THEN bytes[i] ELSE w[i - Len(bytes)]
    BY ZenonT(60), <1>8, ConcatProperties
  <2>3. Len(bytes) = l /\ Len(w) = num /\ read = bytes \o w
    BY <1>8, <1>9, <2>1
  <2> HIDE DEF read
  <2>4. ASSUME NEW i \in 1..l + num PROVE read[i] = IF i <= wl THEN word[i] ELSE 1
    <3>1. read[i] = IF i <= l THEN bytes[i] ELSE w[i - l]
      BY <2>2, <2>3
    <3>2. CASE i <= l
      <4>1. i \in 1..l
        BY <3>2
      <4> QED
        BY <1>8, <3>1, <3>2, <4>1
    <3>3. CASE ~(i <= l)
      <4>1. i - l \in 1..num /\ ~(i <= wl)
        BY <1>7, <3>3
      <4> QED
        BY <1>9, <2>1, <3>1, <3>3, <4>1
    <3> QED
      BY <3>2, <3>3
  <2> QED
    BY <2>2, <2>3, <2>4
<1>12. /\ written \in Seq(Binary) /\ Len(written) = wl + z
       /\ \A i \in 1..wl + z : written[i] = IF i <= wl THEN word[i] ELSE 1
  <2>1. PICK w \in Seq(Binary) : w = Ones(z)
    BY <1>10
  <2>2. /\ word \o w \in Seq(Binary) /\ Len(word \o w) = Len(word) + Len(w)
        /\ \A i \in 1..Len(word) + Len(w) :
              (word \o w)[i] = IF i <= Len(word) THEN word[i] ELSE w[i - Len(word)]
    BY <1>4, ConcatProperties
  <2>3. Len(word) = wl /\ Len(w) = z /\ written = word \o w
    BY <1>4, <1>5, <1>10, <2>1
  <2> HIDE DEF written
  <2>4. ASSUME NEW i \in 1..wl + z PROVE written[i] = IF i <= wl THEN word[i] ELSE 1
    <3>1. written[i] = IF i <= wl THEN word[i] ELSE w[i - wl]
      BY <2>2, <2>3
    <3>2. ~(i <= wl) => i - wl \in 1..z
      OBVIOUS
    <3> QED
      BY <1>10, <2>1, <3>1, <3>2
  <2> QED
    BY <2>2, <2>3, <2>4
<1> HIDE DEF read, written
<1>13. PICK m \in Nat : m = wl + z
  OBVIOUS
<1>14. m <= l + num /\ \A i \in 1..m : i \in 1..l + num
  BY <1>7, <1>13
<1>15. \A i \in 1..m : written[i] = read[i]
  BY <1>11, <1>12, <1>13, <1>14
<1>16. SubSeq(written, 1, m) = SubSeq(read, 1, m)
  <2>1. \A i \in 1..m : written[i] \in Binary
    BY <1>12, <1>13, ElementOfSeq
  <2>2. \A i \in 1..m : read[i] \in Binary
    BY <1>15, <2>1
  <2>3. 1 \in Int /\ m \in Int
    OBVIOUS
  <2>4. /\ SubSeq(written, 1, m) \in Seq(Binary)
        /\ Len(SubSeq(written, 1, m)) = (IF 1 <= m THEN m - 1 + 1 ELSE 0)
        /\ \A i \in 1..m - 1 + 1 : SubSeq(written, 1, m)[i] = written[1 + i - 1]
    BY <2>1, <2>3, SubSeqProperties
  <2>5. /\ SubSeq(read, 1, m) \in Seq(Binary)
        /\ Len(SubSeq(read, 1, m)) = (IF 1 <= m THEN m - 1 + 1 ELSE 0)
        /\ \A i \in 1..m - 1 + 1 : SubSeq(read, 1, m)[i] = read[1 + i - 1]
    BY <2>2, <2>3, SubSeqProperties
  <2>6. (IF 1 <= m THEN m - 1 + 1 ELSE 0) = m /\ \A i \in 1..m : i \in 1..m - 1 + 1 /\ 1 + i - 1 = i
    OBVIOUS
  <2>7. /\ Len(SubSeq(written, 1, m)) = m /\ Len(SubSeq(read, 1, m)) = m
        /\ \A i \in 1..m : SubSeq(written, 1, m)[i] = SubSeq(read, 1, m)[i]
    BY <1>15, <2>4, <2>5, <2>6
  <2> QED
    BY <2>4, <2>5, <2>7, SeqEqual
<1>17. IsPrefix(written, read)
  BY <1>11, <1>12, <1>13, <1>14, <1>16 DEF IsPrefix
<1>18. IsPrefix(Words(xs), bytes \o Ones(SAMPLES[k]))
  BY <1>2, <1>17 DEF written, read
<1> QED
  BY <1>18 DEF xs, bytes, from

\* Every component takes the bytes its length byte says, and these are the
\* bytes of its measured length and its padding (serialise_slices against
\* encode_slice_component), for slices of any size, scalar and padding.
THEOREM SliceBytesAsMeasured == CodingSpec => []BytesAsMeasured
<1>1. CodingInv => BytesAsMeasured
  BY MeasuredIsWritten, SliceCodingAssumption
<1> QED
  BY <1>1, CodingInvariant, PTL

\* A decoder reads every coefficient back from what serialise_slices stores,
\* though the accumulator is stored ahead of what is complete.
THEOREM SliceDecodesBack == CodingSpec => []DecodesBack
<1>1. CodingInv => DecodesBack
  BY WrittenIsRead, SliceCodingAssumption
<1> QED
  BY <1>1, CodingInvariant, PTL
==============================================================================
