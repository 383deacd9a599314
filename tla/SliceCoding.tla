----------------------------- MODULE SliceCoding -----------------------------
(***************************************************************************)
(* The coefficients of a slice on their way into the stream: code words    *)
(* from a table (encode_slice_component), then bytes (serialise_slices).   *)
(* Words are gathered in a 32-bit accumulator, whose four bytes are stored *)
(* at once, mostly ahead of what is complete; in the last slice of a       *)
(* partial they are stored one by one.  Coefficients behind the last one   *)
(* that is not 0 are not written at all.                                   *)
(***************************************************************************)
EXTENDS Codewords, SequencesExt

CONSTANTS Shapes,       \* SAMPLES, samples per slice of each component, and
                        \* what quantisation may make of their coefficients
          Scalars,      \* slice_size_scalar
          MAX_LENGTH,   \* the largest length byte: 255 in the code
          Paddings      \* padding of the slice, divided by the scalar

ASSUME SliceCodingAssumption ==
    /\ \A s \in Shapes : /\ s.SAMPLES \in Seq(Nat \ {0}) /\ s.SAMPLES # <<>>
                         /\ s.quotients \subseteq 0..255
    /\ Scalars \subseteq Nat \ {0} /\ MAX_LENGTH \in Nat /\ Paddings \subseteq Nat

VARIABLES shape, slice_size_scalar, last,   \* given: is it the last slice of its partial?
          stage, c,     \* component being encoded or written
          coefs,        \* coefficients met: sign of x, and its quotient d
          length,       \* of each component: of its words in bits, then in bytes
          samples,      \* ... its last sample that is not 0, then their number
          padding,      \* left for the components to come
          n,            \* words of the component written
          accum,        \* bits that wait to be stored
          optr, ocounter,   \* bits stored, bytes completed
          components    \* where each component begins, and its length byte

coding == <<coefs, length, samples>>
output == <<n, accum, optr, ocounter, components>>
given == <<shape, slice_size_scalar, last>>
codingVars == <<given, stage, c, coding, padding, output>>

----------------------------------------------------------------------------
SAMPLES == shape.SAMPLES
Components == DOMAIN SAMPLES
Least(a, b) == IF a < b THEN a ELSE b
Ones(k) == [i \in 1..k |-> 1]
Zeros(k) == [i \in 1..k |-> 0]

Bits(value, l) == [i \in 1..l |-> (value \div 2^(l - i)) % 2]

\* The sign is the last bit of the word, 0 in the table but for the word of 0.
Codeword(x) ==
    Bits(IF x.s < 0 /\ x.d # 0 THEN CWLUT[x.d + 1] + 1 ELSE CWLUT[x.d + 1], WLLUT[x.d])

Coefficients == {[s |-> 0, d |-> 0]} \union [s : {-1, 1}, d : shape.quotients]

CodingInit ==
    /\ shape \in Shapes
    /\ slice_size_scalar \in Scalars /\ last \in BOOLEAN
    /\ stage = "encode" /\ c = 1
    /\ coefs = [i \in Components |-> <<>>]
    /\ length = [i \in Components |-> 0] /\ samples = [i \in Components |-> -1]
    /\ padding = 0 /\ n = 0 /\ accum = <<>>
    /\ optr = Zeros(8) /\ ocounter = 1 /\ components = <<>>   \* after qindex

EncodeSample ==
    /\ stage = "encode" /\ Len(coefs[c]) < SAMPLES[c]
    /\ \E x \in Coefficients :
        /\ coefs' = [coefs EXCEPT ![c] = Append(@, x)]
        /\ length' = [length EXCEPT ![c] = @ + WLLUT[x.d]]
        /\ samples' = IF x.s # 0 THEN [samples EXCEPT ![c] = Len(coefs[c])] ELSE samples
    /\ UNCHANGED <<given, stage, c, padding, output>>

\* The words behind the last sample that is not 0 are of one bit each.
TrailingZeros_OneMore(k, s) == SAMPLES[k] - s   \* a bug to look for
TrailingZeros(k, s) == (SAMPLES[k] - 1) - s

EndComponent ==
    /\ stage = "encode" /\ Len(coefs[c]) = SAMPLES[c]
    /\ length' = [length EXCEPT ![c] = (@ - TrailingZeros(c, samples[c]) + 7) \div 8]
    /\ samples' = [samples EXCEPT ![c] = @ + 1]
    /\ IF c < Len(SAMPLES) THEN c' = c + 1 /\ stage' = stage
                           ELSE c' = 1 /\ stage' = "fit"
    /\ UNCHANGED <<given, coefs, padding, output>>

Units(l) == (l + slice_size_scalar - 1) \div slice_size_scalar

\* encode_slices makes room for the slice, or else blanks it.
Fit == /\ stage = "fit" /\ \A k \in Components : Units(length[k]) <= MAX_LENGTH
       /\ UNCHANGED coding
Blank == /\ stage = "fit"
         /\ length' = [k \in Components |-> 0] /\ samples' = [k \in Components |-> 0]
         /\ UNCHANGED coefs
BeginSlice ==
    /\ Fit \/ Blank
    /\ \E p \in Paddings : padding' = p * slice_size_scalar
    /\ stage' = "length"
    /\ UNCHANGED <<given, c, output>>

----------------------------------------------------------------------------
\* Bits are stored over what an earlier store has left there.
Store(at, bits) ==
    SubSeq(optr, 1, 8 * at) \o bits \o SubSeq(optr, 8 * at + Len(bits) + 1, Len(optr))

LengthByte ==
    /\ stage = "length"
    /\ LET L == Units(length[c])
           p == Least((MAX_LENGTH - L) * slice_size_scalar, padding)
           byte == (L * slice_size_scalar + p) \div slice_size_scalar
       IN  /\ padding' = padding - p
           /\ optr' = Store(ocounter, Bits(byte, 8))
           /\ components' = Append(components,
                 [start |-> ocounter + 1, byte |-> byte,
                  p |-> L * slice_size_scalar - length[c] + p])
    /\ ocounter' = ocounter + 1
    /\ n' = 0 /\ accum' = <<>> /\ stage' = "words"
    /\ UNCHANGED <<given, c, coding>>

WriteWord ==
    /\ stage = "words" /\ n < samples[c]
    /\ LET acc == accum \o Codeword(coefs[c][n + 1])
           whole == Len(acc) \div 8
       IN  /\ optr' = Store(ocounter, IF last THEN SubSeq(acc, 1, 8 * whole)
                                      ELSE acc \o Zeros(32 - Len(acc)))
           /\ ocounter' = ocounter + whole
           /\ accum' = SubSeq(acc, 8 * whole + 1, Len(acc))
    /\ n' = n + 1
    /\ UNCHANGED <<given, stage, c, coding, padding, components>>

Fill_Zeros(bits) == bits \o Zeros(8 - Len(bits))   \* a bug to look for
Fill(bits) == bits \o Ones(8 - Len(bits))

Flush ==
    /\ stage = "words" /\ n = samples[c]
    /\ LET rest == IF accum = <<>> THEN <<>> ELSE Fill(accum)
           p == components[c].p
       IN  /\ optr' = Store(ocounter, rest \o Ones(8 * p))
           /\ ocounter' = ocounter + Len(rest) \div 8 + p
    /\ IF c < Len(SAMPLES) THEN c' = c + 1 /\ stage' = "length"
                           ELSE c' = c /\ stage' = "done"
    /\ UNCHANGED <<given, coding, padding, n, accum, components>>

Ended == stage = "done" /\ UNCHANGED codingVars

CodingNext ==
    EncodeSample \/ EndComponent \/ BeginSlice \/ LengthByte \/ WriteWord \/ Flush \/ Ended

CodingSpec == CodingInit /\ [][CodingNext]_codingVars

----------------------------------------------------------------------------
\* VC-2's code: the bits of d + 1 below its first, each announced by a 0; then
\* a 1; then, if d is not 0, the sign.
ExpGolomb(x) ==
    LET k == ilog2(x.d + 1)
    IN  FlattenSeq([i \in 1..k |-> <<0, ((x.d + 1) \div 2^(k - i)) % 2>>]) \o <<1>>
          \o (IF x.d = 0 THEN <<>> ELSE IF x.s < 0 THEN <<1>> ELSE <<0>>)
Words(xs) == FlattenSeq([i \in DOMAIN xs |-> ExpGolomb(xs[i])])

Blanked == \A k \in Components : samples[k] = 0
End(k) == IF k = Len(SAMPLES) THEN ocounter ELSE components[k + 1].start - 1

\* A decoder, which knows a component's length byte and takes all bits behind
\* its end for ones, reads the coefficients that were quantised: whatever the
\* words are and however they lie across bytes, no store has destroyed a bit of
\* another, and what was not written is read as zeros.
DecodesBack ==
    stage = "done" =>
        \A k \in Components :
            LET from == components[k].start
                bytes == SubSeq(optr, 8 * from + 1,
                                8 * (from + components[k].byte * slice_size_scalar))
                xs == [i \in 1..SAMPLES[k] |-> IF Blanked THEN [s |-> 0, d |-> 0] ELSE coefs[k][i]]
            IN  IsPrefix(Words(xs), bytes \o Ones(SAMPLES[k]))

\* A component takes the bytes its length byte says, and but for the padding
\* these are the bytes that choose_quantiser measured and that the lengths of
\* the slices, and so the whole partial's, are computed from.
BytesAsMeasured ==
    stage = "done" =>
        \A k \in Components :
            LET coded == SelectLastInSeq(coefs[k], LAMBDA x : x.s # 0)
                bits == Len(Words(SubSeq(coefs[k], 1, coded)))
            IN  /\ End(k) = components[k].start + components[k].byte * slice_size_scalar
                /\ Blanked \/ End(k) - components[k].p = components[k].start + (bits + 7) \div 8
=============================================================================
