--------------------------- MODULE QuantiserSearch ---------------------------
(***************************************************************************)
(* choose_quantiser for one slice, picture after picture.  The search      *)
(* starts where the last picture's ended (slice->qindex), climbs in steps  *)
(* until the slice fits, and then halves the last step as far as the       *)
(* speed's quality asks for.                                               *)
(*                                                                         *)
(* The content of a slice is two numbers: qi_bl, the least quantiser its   *)
(* coefficients allow, and "fits", the least with which the coded slice is *)
(* no longer than it may be (a coarser quantiser codes no longer); it may  *)
(* lie beyond MAX_QI.  One action is one measurement of the length, with   *)
(* what follows from it.                                                   *)
(***************************************************************************)
EXTENDS Integers

CONSTANTS MAX_QI,       \* 64 in the code
          TopBaseline,  \* the largest qi_bl: about 43 for 16 bit coefficients
          Qualities     \* subset of the four

ASSUME SearchAssumption ==
    /\ MAX_QI \in Nat /\ TopBaseline \in 0..MAX_QI
    /\ Qualities \subseteq {"full", "half", "quarter", "eighth"}

VARIABLES QUAL,         \* chosen by the speed, the same for all pictures
          qi_bl, fits,  \* the slice in this picture
          qindex,
          start,        \* the quantiser the search began with
          qi_cur, qi_floor, qi_ceil,
          phase,        \* "climb", "halve" or "chosen"
          settled       \* the picture no longer changes

content == <<qi_bl, fits>>
search == <<start, qi_cur, qi_floor, qi_ceil>>
vars == <<QUAL, content, qindex, search, phase, settled>>

----------------------------------------------------------------------------
Larger(a, b) == IF a > b THEN a ELSE b
Smaller(a, b) == IF a < b THEN a ELSE b

QI_FIRST_INC == IF QUAL = "eighth" THEN 8 ELSE 4
DESIRED_PROXIMITY == CASE QUAL = "eighth" -> 8 [] QUAL = "quarter" -> 4
                       [] QUAL = "half" -> 2 [] OTHER -> 1
Halves == QUAL \in {"full", "half"}

\* With DESIRED_PROXIMITY steps or fewer between them the search is over.
Close_Early(ceil, floor) ==   \* a bug to look for: the search ends two steps early
    ~Halves \/ ceil - floor <= DESIRED_PROXIMITY + 2
Close(ceil, floor) == ~Halves \/ ceil - floor <= DESIRED_PROXIMITY

Clamp(qi) == Smaller(Larger(qi, 0), MAX_QI)

Between(ceil, floor) == (ceil + floor + 1) \div 2

\* The search begins: qi_cur is the first quantiser that will be measured.
Begin_Anew(bl, from) ==   \* a bug to look for: qi_bl is not looked at
    /\ start' = from /\ qi_cur' = from
    /\ qi_floor' = bl /\ qi_ceil' = MAX_QI
    /\ phase' = "climb"

Begin(bl, from) == LET m == Larger(bl, from)
                   IN  /\ start' = m /\ qi_cur' = m
                       /\ qi_floor' = bl /\ qi_ceil' = MAX_QI
                       /\ phase' = "climb"

\* The search is over, or the next one to measure lies in the middle.
Narrow_Floor(ceil, floor) ==   \* a bug to look for: ends with the one that does not fit
    IF Close(ceil, floor)
    THEN qindex' = Clamp(Larger(qi_bl, floor)) /\ phase' = "chosen"
    ELSE qindex' = qindex /\ phase' = "halve"

Narrow(ceil, floor) ==
    IF Close(ceil, floor)
    THEN qindex' = Clamp(Larger(qi_bl, ceil)) /\ phase' = "chosen"
    ELSE qindex' = qindex /\ phase' = "halve"

Init == /\ QUAL \in Qualities
        /\ qi_bl \in 0..TopBaseline /\ fits \in 0..(MAX_QI + 8)
        /\ qindex = 0
        /\ start = qi_bl /\ qi_cur = qi_bl /\ qi_floor = qi_bl /\ qi_ceil = MAX_QI
        /\ phase = "climb" /\ settled = FALSE

Climb ==
    /\ phase = "climb"
    /\ IF qi_cur < MAX_QI /\ qi_cur < fits
       THEN /\ qi_cur' = qi_cur + QI_FIRST_INC
            /\ UNCHANGED <<qindex, qi_floor, qi_ceil, phase>>
       ELSE \* qi_floor is the one before, measured or not
            LET below == qi_cur - QI_FIRST_INC
                floor == Larger(below, qi_bl)
            IN  /\ qi_ceil' = qi_cur /\ qi_floor' = floor
                /\ qi_cur' = Between(qi_cur, below)
                /\ Narrow(qi_cur, floor)
    /\ UNCHANGED <<QUAL, content, start, settled>>

Halve ==
    /\ phase = "halve"
    /\ qi_floor' = IF qi_cur < fits THEN qi_cur ELSE qi_floor
    /\ qi_ceil' = IF qi_cur < fits THEN qi_ceil ELSE qi_cur
    /\ qi_cur' = Between(qi_ceil', qi_floor')
    /\ Narrow(qi_ceil', qi_floor')
    /\ UNCHANGED <<QUAL, content, start, settled>>

\* The slice of the next picture, or of the next pass.
NextPicture ==
    /\ phase = "chosen"
    /\ \/ ~settled /\ qi_bl' \in 0..TopBaseline /\ fits' \in 0..(MAX_QI + 8)
       \/ UNCHANGED content
    /\ settled' = (settled \/ content' = content)
    /\ Begin(qi_bl', qindex)
    /\ UNCHANGED <<QUAL, qindex>>

Next == Climb \/ Halve \/ NextPicture

Spec == Init /\ [][Next]_vars
FairSpec == Spec /\ WF_vars(Next)

----------------------------------------------------------------------------
\* Lengths are measured only with quantisers the slice's coefficients allow
\* (else the quotient indexes beyond the table of word lengths) and that the
\* quantiser tables know, which end QI_FIRST_INC above MAX_QI; although the
\* first middle is taken before qi_floor is raised to qi_bl.
MeasuresInTable == phase \in {"climb", "halve"} => qi_cur \in qi_bl..(MAX_QI + 7)

\* The quantiser chosen makes the slice fit if any does, and no finer one that
\* fits is DESIRED_PROXIMITY away, down to where the search looked: above qi_bl
\* (which, when qi_floor is raised to it, counts as one that does not fit,
\* measured or not) and at most QI_FIRST_INC - 1 below the last picture's
\* quantiser; when it does not halve, never below that at all, so the two
\* fastest qualities coarsen a slice for good.
ChoosesWell ==
    phase = "chosen" =>
        LET from == IF Halves THEN Larger(qi_bl, start - QI_FIRST_INC) + 1 ELSE start
        IN  /\ fits <= MAX_QI => qindex >= fits
            /\ qindex >= qi_bl
            /\ \A q \in from..MAX_QI : q >= fits => qindex < q + DESIRED_PROXIMITY

\* After a coarse picture, and however coarse it was, the full and the half
\* search find their way back: once the content stays the same, the quantiser
\* ends up within DESIRED_PROXIMITY of the best one above qi_bl.
Best == Clamp(Larger(qi_bl + 1, fits))
Recovers == settled /\ Halves ~> phase = "chosen" /\ qindex < Best + DESIRED_PROXIMITY
=============================================================================
