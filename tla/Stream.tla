------------------------------- MODULE Stream -------------------------------
(***************************************************************************)
(* A client that makes a sequence of data units with the calls of the      *)
(* library: the sequence header, which may be repeated, pictures,          *)
(* auxiliary data and the end.  Each unit begins with the distances to the *)
(* next unit and to the previous one.  A call is told the second by the    *)
(* client, who was told it by the call before; the units it writes, the    *)
(* place it leaves *data at and the distance it returns have to agree.     *)
(*                                                                         *)
(* With fragments a picture is a unit for its header and one for each      *)
(* fragment.  The fragments are written by workers, one partial each, in   *)
(* any order; the distance from the first one of a partial back to the one *)
(* before is only known, and filled in, when all have finished.            *)
(***************************************************************************)
EXTENDS SequenceHeader, FiniteSetsExt, Sums

CONSTANTS NFACTOR,        \* partials of a picture
          MinData,        \* 4 * mSlicesPerPicture
          mSliceSizeScalar,
          Lengths,        \* of the data of a picture or of auxiliary data
          mPictureHeader_length,
          MaxFragments,   \* bound: fragments of a partial
          MaxEnd,         \* bound: no call is made behind this byte ...
          Followed        \* ... and, in other formats, none but the first and the last

ASSUME StreamAssumption ==
    /\ NFACTOR \in Nat \ {0}
    /\ MinData \in Nat \ {0} /\ mSliceSizeScalar \in Nat \ {0} /\ MinData % NFACTOR = 0
    /\ Lengths \subseteq Nat /\ \A length \in Lengths : length >= MinData
    /\ mPictureHeader_length \in Nat /\ mPictureHeader_length > 17
    /\ MaxFragments \in Nat \ {0} /\ MaxEnd \in Nat /\ Followed \subseteq Formats

PARSE_INFO == 13
HEADER == 25
UNSET == -1

VARIABLES units,          \* by its place: next and prev of each unit in the output
          data,           \* the client's pointer
          parse_offset,   \* what the last call returned
          data_length,    \* of the picture that was started
          mEncoderData,   \* of each partial: odata, olength, its fragments, final_offset
          working         \* partials still with a worker

encoder == <<mEncoderData, working>>
streamVars == <<header, phase, units, data, parse_offset, data_length, encoder>>

----------------------------------------------------------------------------
More == video_format \in Followed /\ data < MaxEnd

Unit(next, prev) == [next |-> next, prev |-> prev]
At(a, unit) == [x \in {a} |-> unit]
Put(more) == [x \in DOMAIN units \union DOMAIN more |->
                IF x \in DOMAIN more THEN more[x] ELSE units[x]]

StreamInit ==
    /\ HeaderInit /\ units = [x \in {} |-> Unit(0, 0)]
    /\ data = 0 /\ parse_offset = 0 /\ data_length = 0
    /\ mEncoderData = [k \in 1..NFACTOR |->
            [odata |-> UNSET, olength |-> 0, fragments |-> 0, final_offset |-> UNSET]]
    /\ working = {}

\* The length of what was packed; the header itself names l.
mSequenceHeader_length == PARSE_INFO + Len(packed) \div 8

\* setParams: the header is packed once, and copied into the stream.
PackHeader == (Pack \/ Finish) /\ UNCHANGED <<units, data, parse_offset, data_length, encoder>>

StartSequence ==
    /\ phase = "new"
    /\ units' = Put(At(data, Unit(l, 0)))
    /\ data' = data + mSequenceHeader_length /\ parse_offset' = mSequenceHeader_length
    /\ phase' = "open" /\ UNCHANGED <<header, data_length, encoder>>

RepeatSequenceStart ==
    /\ phase = "open" /\ More
    /\ units' = Put(At(data, Unit(l, parse_offset)))
    /\ data' = data + mSequenceHeader_length /\ parse_offset' = mSequenceHeader_length
    /\ UNCHANGED <<header, phase, data_length, encoder>>

\* Without fragments the unit of a picture holds its data as well.
PictureOffset(length) ==
    IF fragmented THEN mPictureHeader_length ELSE length + mPictureHeader_length

StartPicture ==
    /\ phase = "open" /\ More
    /\ data_length' \in Lengths
    /\ units' = Put(At(data, Unit(PictureOffset(data_length'), parse_offset)))
    /\ data' = data + mPictureHeader_length
    /\ parse_offset' = PictureOffset(data_length')
    /\ phase' = "picture" /\ UNCHANGED <<header, encoder>>

\* The client writes auxiliary data itself, behind the header.
StartAuxiliaryData ==
    /\ phase = "open" /\ More
    /\ \E length \in Lengths :
        /\ units' = Put(At(data, Unit(PARSE_INFO + length, parse_offset)))
        /\ data' = data + PARSE_INFO + length
        /\ parse_offset' = PARSE_INFO + length
    /\ UNCHANGED <<header, phase, data_length, encoder>>

EndSequence ==
    /\ phase = "open"
    /\ units' = Put(At(data, Unit(0, parse_offset)))
    /\ data' = data + PARSE_INFO
    /\ phase' = "ended" /\ UNCHANGED <<header, parse_offset, data_length, encoder>>

----------------------------------------------------------------------------
(* encodeData *)

\* Without fragments the slices are written into the unit of the picture.
EncodeData ==
    /\ phase = "picture" /\ ~fragmented
    /\ data' = data + data_length
    /\ phase' = "open" /\ UNCHANGED <<header, units, parse_offset, data_length, encoder>>

\* The bytes for slices are shared out in units of mSliceSizeScalar; what
\* PictureLayout computes for each partial, bytes and fragments, is any here.
Shared(length) ==
    MinData + ((length - MinData) \div mSliceSizeScalar) * mSliceSizeScalar

SharesOf(length) ==
    LET Units == (Shared(length) - MinData) \div mSliceSizeScalar
        Splits == {u \in [1..NFACTOR -> 0..Units] : SumTo(u, NFACTOR) = Units}
    IN  {[k \in 1..NFACTOR |-> MinData \div NFACTOR + u[k] * mSliceSizeScalar] : u \in Splits}

BeginPartials ==
    /\ phase = "picture" /\ fragmented
    /\ \E olength \in SharesOf(data_length), n \in [1..NFACTOR -> 1..MaxFragments] :
        /\ \A k \in 1..NFACTOR : 4 * n[k] <= olength[k]   \* a fragment has a slice
        /\ LET full_length == [k \in 1..NFACTOR |-> olength[k] + n[k] * HEADER]
           IN  mEncoderData' = [k \in 1..NFACTOR |->
                  [odata |-> data + SumTo(full_length, k - 1), olength |-> olength[k],
                   fragments |-> n[k], final_offset |-> 0]]
    /\ working' = 1..NFACTOR /\ phase' = "encode"
    /\ UNCHANGED <<header, units, data, parse_offset, data_length>>

\* A worker writes its fragments one behind the other (PartialEncoder).  It
\* leaves the distance back from the first one as it is.
EncodePartial(k) ==
    LET p == mEncoderData[k]
        length == p.olength + p.fragments * HEADER
    IN  /\ phase = "encode" /\ k \in working
        /\ \E cut \in [1..(p.fragments - 1) -> (HEADER + 4)..(length - HEADER - 4)] :
             LET at == [i \in 0..p.fragments |->
                          IF i = 0 THEN 0 ELSE IF i = p.fragments THEN length ELSE cut[i]]
             IN  /\ \A i \in 1..p.fragments : at[i] - at[i - 1] >= HEADER + 4
                 /\ units' = Put([x \in {p.odata + at[i] : i \in 0..(p.fragments - 1)} |->
                        LET i == CHOOSE i \in 0..(p.fragments - 1) : x = p.odata + at[i]
                        IN  Unit(at[i + 1] - at[i], IF i = 0 THEN UNSET ELSE at[i] - at[i - 1])])
                 /\ mEncoderData' = [mEncoderData EXCEPT ![k].final_offset =
                                        length - at[p.fragments - 1]]
        /\ working' = working \ {k}
        /\ UNCHANGED <<header, phase, data, parse_offset, data_length>>

Back_StaleFirst(k) ==   \* a bug to look for: the first one is linked like the others
    mEncoderData[IF k = 1 THEN NFACTOR ELSE k - 1].final_offset
Back(k) == IF k = 1 THEN parse_offset ELSE mEncoderData[k - 1].final_offset

\* getExtraLengthForFragmentHeaders
Extra == HEADER * SumTo([k \in 1..NFACTOR |-> mEncoderData[k].fragments], NFACTOR)

Link ==
    /\ phase = "encode" /\ working = {}
    /\ units' = [x \in DOMAIN units |->
                    IF \E k \in 1..NFACTOR : x = mEncoderData[k].odata
                    THEN LET k == CHOOSE k \in 1..NFACTOR : x = mEncoderData[k].odata
                         IN  [units[x] EXCEPT !.prev = Back(k)]
                    ELSE units[x]]
    /\ parse_offset' = mEncoderData[NFACTOR].final_offset
    \* length + getExtraLengthForFragmentHeaders(length)
    /\ data' = data + data_length + Extra
    /\ phase' = "open" /\ UNCHANGED <<header, data_length, encoder>>

StreamEnded == phase = "ended" /\ UNCHANGED streamVars

StreamNext ==
    \/ PackHeader \/ StartSequence \/ RepeatSequenceStart \/ StartPicture \/ StartAuxiliaryData
    \/ EndSequence \/ EncodeData \/ BeginPartials \/ Link \/ StreamEnded
    \/ \E k \in 1..NFACTOR : EncodePartial(k)

StreamSpec == StreamInit /\ [][StreamNext]_streamVars

----------------------------------------------------------------------------
\* A decoder that follows the distances, forwards or backwards, meets every
\* unit: each names the distance to the next one, or to the place where the
\* client will write next, and is named by it as the one before.  The value
\* the client passes on is the length of the unit that ends where it is.
UnitsChain ==
    phase \in {"open", "ended"} =>
        \A a \in DOMAIN units :
            LET behind == {b \in DOMAIN units : b > a}
            IN  IF behind = {}
                THEN IF phase = "ended" THEN units[a].next = 0
                     ELSE units[a].next = parse_offset /\ a + parse_offset = data
                ELSE LET b == Min(behind)
                     IN  b - a = units[a].next /\ units[b].prev = units[a].next
=============================================================================
