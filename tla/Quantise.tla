------------------------------ MODULE Quantise ------------------------------
(***************************************************************************)
(* How a transformed coefficient is quantised: the division by a           *)
(* quantisation factor is a multiplication and a shift in 16 bits, whose   *)
(* numbers QuantisationMatrices prepares once per set of parameters.  Only *)
(* the tables for the quantisers 0..31 exist.  A coarser one is made of    *)
(* one of the last four and a shift.                                       *)
(*                                                                         *)
(* NextSample goes through the coefficients; what is claimed of each is    *)
(* claimed for every weight of a subband and every quantiser that          *)
(* choose_quantiser may try on a slice that holds the coefficient.         *)
(***************************************************************************)
EXTENDS Codewords

CONSTANTS Weights,     \* entries of preset_quantisation_matrices
          MAX_QI,      \* 64 in the code
          Chains,      \* coefficients to begin with ...
          Stride       \* ... and how many to go through from each

ASSUME QuantiseAssumption ==
    /\ Weights \subseteq 0..21 /\ MAX_QI \in 0..64
    /\ Chains \subseteq 1..32768 /\ Stride \in Nat \ {0}

VARIABLE sample    \* abs(x) of a coefficient x; 0 when none is looked at

----------------------------------------------------------------------------
Larger(a, b) == IF a > b THEN a ELSE b

\* Four times the factor by which a quantiser index divides.
quant_factor(index) ==
    LET base == 2^(index \div 4)
    IN  CASE index % 4 = 0 -> 4 * base
          [] index % 4 = 1 -> (503829 * base + 52958) \div 105917
          [] index % 4 = 2 -> (665857 * base + 58854) \div 117708
          [] index % 4 = 3 -> (440253 * base + 32722) \div 65444

\* Divisor<uint16_t>: the number of bits and the multiplier of a division by d.
Divisor_l(d) == IF d >= 2^15 THEN 16 ELSE ilog2(2 * d - 1)
Divisor_m_Floor(d) ==   \* a bug to look for: the multiplier is not rounded up
    ((2^16 * (2^Divisor_l(d) - d)) \div d) % 2^16
Divisor_m(d) == ((2^16 * (2^Divisor_l(d) - d)) \div d + 1) % 2^16

\* The tables of QuantisationMatrices: a coefficient of a subband of weight w
\* is divided with the entry qi - w, or entry 0.
mM  == [e \in 0..31 |-> Divisor_m(quant_factor(e))]
mSh == [e \in 0..31 |-> Divisor_l(quant_factor(e)) - 2]

udiv(num, m, sh) == (((num * m) \div 2^16 + num) \div 2^sh) % 2^16

Entry(qi, w) == Larger((IF qi <= 31 THEN qi ELSE 28 + (qi % 4)) - w, 0)
qshift_Late(qi) ==   \* a bug to look for: the shift begins a quantiser too late
    IF qi <= 32 THEN 0 ELSE qi \div 4 - 7
qshift(qi) == IF qi <= 31 THEN 0 ELSE qi \div 4 - 7

\* What encode_sample and coded_length_for_sample look up in their tables.
Quotient(num, qi, w) ==
    udiv(num, mM[Entry(qi, w)], mSh[Entry(qi, w)]) \div 2^qshift(qi)

\* The least quantiser for a subband whose coefficients have the bits of L.
qi_bl(L, w) == Larger(0, 4 * (ilog2(L + 1) - 7) + w)

NextSample == sample % Stride # 0 /\ sample' = sample + 1

----------------------------------------------------------------------------
\* The search tries quantisers up to MAX_QI + 7 (QuantiserSearch).
Tried(w) == qi_bl(sample, w)..(MAX_QI + 7)

ExactDivision ==
    \A w \in Weights : \A qi \in Tried(w) \cap 0..31 :
        Quotient(sample, qi, w) = (4 * sample) \div quant_factor(Larger(qi - w, 0))
CloseDivision ==
    \A w \in Weights : \A qi \in Tried(w) \cap 32..(47 + w) :
        LET exact == (4 * sample) \div quant_factor(Larger(qi - w, 0))
            slack == IF w <= 12 THEN 1 ELSE 4
        IN  Quotient(sample, qi, w) \in (exact - slack)..(exact + slack)

\* While there is a table for the quantiser the division is exact, although
\* the multiplier is a bit short for large coefficients and small factors:
\* those never meet, as large coefficients rule small factors out.  Beyond,
\* the factor is one of the last four of the subband, doubled.  That is not
\* quite what quant_factor, by which a decoder multiplies, would be: the
\* quotient may be one too small or too large, in a subband of a large weight
\* up to four.
DivisionExact == sample # 0 => ExactDivision /\ CloseDivision

\* The tables of code words, of 256 entries, hold every quotient, and a coarser
\* quantiser never makes a coefficient's word longer, across the change of
\* tables at 32 too: what QuantiserSearch builds on.
CoarserIsShorter ==
    sample # 0 => \A w \in Weights :
        /\ \A qi \in Tried(w) : Quotient(sample, qi, w) \in DOMAIN WLLUT
        /\ \A qi \in Tried(w) \ {MAX_QI + 7} :
              WLLUT[Quotient(sample, qi + 1, w)] <= WLLUT[Quotient(sample, qi, w)]
=============================================================================
