--------------------------- MODULE PartialEncoder ---------------------------
(***************************************************************************)
(* EncodePartial: the bytes of one partial are shared out among its slices *)
(* (encode_slices, one to three passes) and the slices are written to its  *)
(* part of the output, in fragments if the client wants them               *)
(* (serialise_slices).                                                     *)
(*                                                                         *)
(* What choose_quantiser makes of a slice is any of a few triples of       *)
(* component lengths: it may or may not stay within the size asked for.    *)
(***************************************************************************)
EXTENDS Integers, Sequences, FiniteSetsExt, Sums

CONSTANTS slice_size_scalar,  \* 2 in the code
          MAX_LENGTH,   \* the largest length byte of a component: 255 in the code
          Triples,      \* component lengths, in bytes
          Counts,       \* n_slices
          Rests,        \* bytes of the partial beyond 4 per slice, divided by the scalar
          FragmentSizes,    \* slices_per_frag, 0 for no fragments
          slices_per_line

ASSUME PartialAssumption ==
    /\ slice_size_scalar \in Nat \ {0} /\ 4 % slice_size_scalar = 0
    /\ MAX_LENGTH \in Nat /\ slices_per_line \in Nat \ {0}
    /\ Counts \subseteq Nat \ {0} /\ Rests \subseteq Nat /\ FragmentSizes \subseteq Nat
    /\ Triples \subseteq [1..3 -> Nat]

HEADER == 25

VARIABLES passes, n_slices, encode_length, slices_per_frag, first_sx,   \* given
          phase, pass,
          remaining_length,
          slices,       \* of each slice begun: its lengths and padding
          tgt_slices,   \* slices that may grow, still to come in this pass
          again,        \* those of this pass that filled what they were given
          ocounter,
          at,           \* where each slice written begins
          frags,        \* fragment headers
          sx, sy,       \* the first slice of the fragment being written
          slices_til_next_frag_start,
          overreach     \* the end of what has been stored to

given == <<passes, n_slices, encode_length, slices_per_frag, first_sx>>
coding == <<pass, remaining_length, slices, tgt_slices, again>>
fragment == <<frags, sx, sy, slices_til_next_frag_start>>
output == <<ocounter, at, fragment, overreach>>
vars == <<given, phase, coding, output>>

----------------------------------------------------------------------------
Least(a, b) == IF a < b THEN a ELSE b
Most(a, b) == IF a > b THEN a ELSE b

Units(l) == (l + slice_size_scalar - 1) \div slice_size_scalar
Bytes(length) == [c \in 1..3 |-> Units(length[c]) * slice_size_scalar]
CodedLength(length) == 4 + SumTo(Bytes(length), 3)
Largest_OneComponent == 4 + MAX_LENGTH * slice_size_scalar   \* a bug to look for
Largest == 4 + 3 * MAX_LENGTH * slice_size_scalar

Share(rest, among) == ((rest \div slice_size_scalar) \div among) * slice_size_scalar

\* A slice too large for its share, or for its length bytes, is blanked.
Blank == [c \in 1..3 |-> 0]
Fits(length, coded_size) == /\ CodedLength(length) <= coded_size
                            /\ \A c \in 1..3 : Units(length[c]) <= MAX_LENGTH
Encode(length, coded_size) == IF Fits(length, coded_size) THEN length ELSE Blank

----------------------------------------------------------------------------
(* encode_slices *)

Init == /\ passes \in 1..3 /\ n_slices \in Counts /\ slices_per_frag \in FragmentSizes
        /\ \E r \in Rests : encode_length = r * slice_size_scalar + 4 * n_slices
        /\ phase = "encode" /\ pass = 0
        /\ remaining_length = encode_length
        /\ slices = <<>> /\ tgt_slices = <<>> /\ again = <<>>
        /\ ocounter = 0 /\ at = <<>> /\ frags = <<>> /\ overreach = 0
        /\ first_sx \in 0..(slices_per_line - 1) /\ sx = first_sx /\ sy = 0
        /\ slices_til_next_frag_start = 0

FirstPass ==
    /\ phase = "encode" /\ pass = 0 /\ Len(slices) < n_slices
    /\ \E t \in Triples :
        LET coded_size == Share(remaining_length, n_slices - Len(slices))
            length == Encode(t, coded_size)
            cl == CodedLength(length)
            used == IF passes = 1 THEN coded_size ELSE cl
        IN  /\ remaining_length' = remaining_length - used
            /\ slices' = Append(slices, [length |-> length, padding |-> used - cl])
            /\ again' = IF passes > 1 /\ cl = coded_size
                        THEN Append(again, Len(slices) + 1) ELSE again
    /\ UNCHANGED <<given, phase, pass, tgt_slices, output>>

LaterPass_Twice ==   \* a bug to look for: the old size is not given back
    /\ phase = "encode" /\ tgt_slices # <<>>
    /\ \E t \in Triples :
        LET s == Head(tgt_slices)
            coded_size == CodedLength(slices[s].length)
                            + Share(remaining_length, Len(tgt_slices))
            length == Encode(t, coded_size)
        IN  /\ remaining_length' = remaining_length - CodedLength(length)
            /\ slices' = [slices EXCEPT ![s] = [length |-> length, padding |-> 0]]
            /\ again' = again
    /\ tgt_slices' = Tail(tgt_slices)
    /\ UNCHANGED <<given, phase, pass, output>>

LaterPass ==
    /\ phase = "encode" /\ tgt_slices # <<>>
    /\ \E t \in Triples :
        LET s == Head(tgt_slices)
            old_cl == CodedLength(slices[s].length)
            coded_size == old_cl + Share(remaining_length, Len(tgt_slices))
            length == Encode(t, coded_size)
            cl == CodedLength(length)
        IN  /\ remaining_length' = remaining_length - (cl - old_cl)
            /\ slices' = [slices EXCEPT ![s] = [length |-> length, padding |-> 0]]
            /\ again' = IF cl = coded_size THEN Append(again, s) ELSE again
    /\ tgt_slices' = Tail(tgt_slices)
    /\ UNCHANGED <<given, phase, pass, output>>

PassEnds ==
    /\ phase = "encode" /\ Len(slices) = n_slices /\ tgt_slices = <<>>
    /\ pass' = pass + 1
    /\ IF pass' < passes
       THEN tgt_slices' = again /\ again' = <<>> /\ phase' = phase
       ELSE /\ phase' = IF passes > 1 THEN "pad" ELSE "check"
            /\ tgt_slices' = [s \in 1..n_slices |-> s]
            /\ again' = <<>>
    /\ UNCHANGED <<given, remaining_length, slices, output>>

\* What no pass could use is given back as padding, to the first slices.
Pad ==
    /\ phase = "pad"
    /\ IF tgt_slices = <<>> \/ remaining_length <= 0
       THEN phase' = "check" /\ UNCHANGED <<remaining_length, slices, tgt_slices>>
       ELSE LET s == Head(tgt_slices)
                p == Least(Largest - CodedLength(slices[s].length), remaining_length)
            IN  /\ slices' = [slices EXCEPT ![s].padding = p]
                /\ remaining_length' = remaining_length - p
                /\ tgt_slices' = Tail(tgt_slices)
                /\ phase' = phase
    /\ UNCHANGED <<given, pass, again, output>>

Check == /\ phase = "check"
         /\ phase' = IF remaining_length > 0 THEN "overrun" ELSE "serialise"
         /\ UNCHANGED <<given, coding, output>>

----------------------------------------------------------------------------
(* serialise_slices *)

N == Len(at) + 1
LastSlice == N = n_slices

\* A header is completed when the next fragment begins: then its length is
\* known, which goes into the next header too.
Close_FullCount(end, count) ==   \* a bug to look for: the last one is like the others
    LET f == Len(frags)
    IN  [frags EXCEPT ![f].length = end - frags[f].start, ![f].slices = slices_per_frag,
                      ![f].sx = sx, ![f].sy = sy]

Close(end, count) ==
    LET f == Len(frags)
    IN  [frags EXCEPT ![f].length = end - frags[f].start, ![f].slices = count,
                      ![f].sx = sx, ![f].sy = sy]

Header(prev) == [start |-> ocounter, prev |-> prev, length |-> 0, slices |-> 0, sx |-> 0, sy |-> 0]

BeginsFragment == slices_per_frag # 0 /\ slices_til_next_frag_start = 0

WriteHeader ==
    IF ~BeginsFragment
    THEN /\ slices_til_next_frag_start' = IF slices_per_frag = 0 THEN 0
                                          ELSE slices_til_next_frag_start - 1
         /\ UNCHANGED <<frags, sx, sy>>
    ELSE /\ slices_til_next_frag_start' = slices_per_frag - 1
         /\ IF frags = <<>>
            THEN frags' = <<Header(0)>> /\ UNCHANGED <<sx, sy>>
            ELSE /\ frags' = Append(Close(ocounter, slices_per_frag),
                                    Header(ocounter - frags[Len(frags)].start))
                 /\ sy' = sy + (sx + slices_per_frag) \div slices_per_line
                 /\ sx' = (sx + slices_per_frag) % slices_per_line

\* The padding of a slice goes to its first component as far as the length
\* byte lets it, then to the second, then to the third; what is left is lost.
Room(length) == [c \in 1..3 |-> (MAX_LENGTH - Units(length[c])) * slice_size_scalar]
PadOf(slice, c) ==
    Least(Room(slice.length)[c],
          Most(0, slice.padding - SumTo(Room(slice.length), c-1)))
Written(slice) == [c \in 1..3 |-> Bytes(slice.length)[c] + PadOf(slice, c)]
SliceSize(slice) == 4 + SumTo(Written(slice), 3)

\* Where the code words of a component go: behind the slice's index, the bytes
\* of the components before it, and a length byte for each.
Data(start, slice, c) == start + 1 + c + SumTo(Written(slice), c-1)

\* Code words are stored four bytes at a time, except in the last slice, so
\* that up to three bytes behind a component are touched.
Stored_InWords(start, slice, c) ==   \* a bug to look for: ... or in all slices
    Data(start, slice, c) + slice.length[c] + 3

Stored(start, slice, c) ==
    LET data == Data(start, slice, c)
    IN  IF LastSlice \/ slice.length[c] = 0 THEN data + Written(slice)[c]
        ELSE Most(data + Written(slice)[c], data + slice.length[c] + 3)

Refused(slice) == /\ ~LastSlice
                  /\ \/ slice.padding < 0
                     \/ \E c \in 1..3 : Units(slice.length[c]) > MAX_LENGTH

WriteSlice ==
    /\ phase = "serialise" /\ N <= n_slices
    /\ LET slice == slices[N]
           start == ocounter + (IF BeginsFragment THEN HEADER ELSE 0)
       IN  /\ WriteHeader
           /\ IF Refused(slice)
              THEN phase' = "refused" /\ UNCHANGED <<ocounter, at, overreach>>
              ELSE /\ at' = Append(at, start)
                   /\ ocounter' = start + SliceSize(slice)
                   /\ overreach' = Max({overreach} \union {Stored(start, slice, c) : c \in 1..3})
                   /\ phase' = phase
    /\ UNCHANGED <<given, coding>>

\* The rest of the partial is filled, and the last fragment's header written.
Finish ==
    /\ phase = "serialise" /\ N > n_slices
    /\ ocounter' = Most(ocounter, encode_length)
    /\ overreach' = Most(overreach, ocounter')
    /\ frags' = IF frags = <<>> THEN frags
                ELSE Close(ocounter', slices_per_frag - slices_til_next_frag_start)
    /\ phase' = "done"
    /\ UNCHANGED <<given, coding, at, sx, sy, slices_til_next_frag_start>>

Ended == phase \in {"done", "overrun", "refused"} /\ UNCHANGED vars

Next == FirstPass \/ LaterPass \/ PassEnds \/ Pad \/ Check \/ WriteSlice \/ Finish \/ Ended

Spec == Init /\ [][Next]_vars

----------------------------------------------------------------------------
full_length ==
    encode_length + (IF slices_per_frag = 0 THEN 0
                     ELSE ((n_slices + slices_per_frag - 1) \div slices_per_frag) * HEADER)

Used(s) == CodedLength(slices[s].length) + slices[s].padding

\* Through all the passes the bytes of the partial are the ones used and the
\* ones remaining, there are always enough left for a blank slice each, and
\* nothing is given to a slice twice, though a slice may grow in one pass and
\* be blanked in the next.
BytesConserved ==
    /\ remaining_length + SumTo([s \in DOMAIN slices |-> Used(s)], Len(slices)) = encode_length
    /\ remaining_length >= 4 * (n_slices - Len(slices))
    /\ \A s \in DOMAIN slices : slices[s].padding >= 0

\* Encoding fails only if the partial is longer than its slices can be made,
\* in an encoder with several passes.  With one pass nothing fails then, and
\* the bytes of a slice beyond its largest size are lost; in all other cases
\* the slices and headers fill the output up to the start of the next partial.
EndsWell ==
    LET most == 4 + 3 * MAX_LENGTH * slice_size_scalar
    IN  /\ phase # "refused"
        /\ phase = "overrun" => passes > 1 /\ encode_length > n_slices * most
        /\ phase = "done" =>
             \/ ocounter = full_length /\ at[n_slices] + SliceSize(slices[n_slices]) = full_length
             \/ passes = 1 /\ \E s \in 1..n_slices : Used(s) > most

\* The fragments follow each other, each names its length and that of the one
\* before, and its slices: as many as it has, starting with its first one.
FragmentsDescribeSlices ==
    phase = "done" /\ slices_per_frag # 0 =>
        /\ frags[Len(frags)].start + frags[Len(frags)].length = ocounter
        /\ \A f \in DOMAIN frags :
            LET h == frags[f]
                within == {s \in DOMAIN at : at[s] >= h.start /\ at[s] < h.start + h.length}
            IN  /\ h.start = IF f = 1 THEN 0 ELSE frags[f-1].start + frags[f-1].length
                /\ f > 1 => h.prev = frags[f-1].length
                /\ h.slices = Cardinality(within)
                /\ h.sx < slices_per_line
                /\ h.sy * slices_per_line + h.sx + 1 = first_sx + Min(within)

\* No store reaches into the output of the next partial, which another worker
\* writes at the same time, nor beyond the buffer in the last partial.
NoOverreach == overreach <= full_length
=============================================================================
