--------------------------- MODULE SequenceHeader ---------------------------
(***************************************************************************)
(* The sequence header: which of the client's parameters it names, in      *)
(* which order (SequenceHeader::SequenceHeader), and how their code words  *)
(* become bytes.  setParams reads the same parameters a second time, into  *)
(* mVideoFormat; what a decoder finds in the header should be that format. *)
(*                                                                         *)
(* The format is a list of groups of values, each of which the client may  *)
(* set in place of those of the base format.                               *)
(***************************************************************************)
EXTENDS Integers, SequencesExt

CONSTANTS Formats,      \* video_format: of each group its flag and its values
          Levels,
          BaseFormats,
          Modes         \* picture_coding_mode

Dimensions == 1
FrameRate == 4
PixelAspectRatio == 5
ColorSpec == 8

\* Values of each group: dimensions, colour difference format, scan format,
\* frame rate, pixel aspect ratio, clean area, signal range, colour spec.  An
\* index of 0 in the 4th and 5th is followed by a ratio, in the 8th by three
\* more groups of one value.
Groups == <<2, 1, 1, 1, 1, 4, 1, 1>>

\* What encode_uint, which takes a uint16_t, makes a word of.
Codable == {x \in Nat : x < 65535}

ASSUME SequenceHeaderAssumption ==
    /\ \A f \in Formats : \A g \in 1..8 :
        /\ f[g].flag \in BOOLEAN
        /\ f[g].values \in Seq(Codable) /\ Len(f[g].values) = Groups[g]
        /\ g \in {FrameRate, PixelAspectRatio} => f[g].ratio \in Seq(Codable) /\ Len(f[g].ratio) = 2
        /\ g = ColorSpec =>
             /\ f[g].parts \in Seq([flag : BOOLEAN, values : Seq(Codable)]) /\ Len(f[g].parts) = 3
             /\ \A i \in 1..3 : Len(f[g].parts[i].values) = 1
    /\ Levels \subseteq 0..7
    /\ BaseFormats \subseteq 0..22 /\ Modes \subseteq 0..1

VARIABLES video_format, level, base_video_format, picture_coding_mode,   \* given
          fragmented,        \* given: fragment_size # 0
          words,      \* code words still to be packed
          l,          \* next_parse_offset, computed ahead
          accum, packed,   \* bits waiting, bits packed
          phase

given == <<video_format, level, base_video_format, picture_coding_mode, fragmented>>
header == <<given, words, l, accum, packed>>

----------------------------------------------------------------------------
ilog2(x) == CHOOSE k \in 0..16 : 2^k <= x /\ x < 2 * 2^k

encode_bool(b) == IF b THEN <<1>> ELSE <<0>>
\* The bits of x + 1 below its first, each behind a 0, and then a 1.
encode_uint(x) ==
    LET y == (x % 2^16) + 1   \* the parameter is a uint16_t
        k == ilog2(y)
    IN  [j \in 1..(2 * k + 1) |->
            IF j = 2 * k + 1 THEN 1
            ELSE IF j % 2 = 1 THEN 0 ELSE (y \div 2^(k - j \div 2)) % 2]

Uints(values) == [i \in DOMAIN values |-> encode_uint(values[i])]

Optional(flag, ws) == IF flag THEN <<encode_bool(TRUE)>> \o ws ELSE <<encode_bool(FALSE)>>

\* The ratio is written or not depending on the index of the frame rate, in
\* the group of the pixel aspect ratio too.
RatioOf(f, g) == IF f[FrameRate].values[1] = 0 THEN Uints(f[g].ratio) ELSE <<>>

PartsOf_Unflagged(f) ==   \* a bug to look for
    FlattenSeq([i \in 1..3 |->
        IF f[ColorSpec].parts[i].flag THEN Uints(f[ColorSpec].parts[i].values) ELSE <<>>])
PartsOf(f) ==
    IF f[ColorSpec].values[1] # 0 THEN <<>>
    ELSE FlattenSeq([i \in 1..3 |->
            LET part == f[ColorSpec].parts[i] IN Optional(part.flag, Uints(part.values))])

SourceParameter(f, g) ==
    Optional(f[g].flag,
        Uints(f[g].values) \o (CASE g \in {FrameRate, PixelAspectRatio} -> RatioOf(f, g)
                                 [] g = ColorSpec -> PartsOf(f)
                                 [] OTHER -> <<>>))

version == IF fragmented THEN 3 ELSE 2

Header == <<encode_uint(version), encode_uint(0), encode_uint(3), encode_uint(level),
            encode_uint(base_video_format)>>
            \o FlattenSeq([g \in 1..8 |-> SourceParameter(video_format, g)])
            \o <<encode_uint(picture_coding_mode)>>

HeaderInit ==
        /\ fragmented \in BOOLEAN /\ video_format \in Formats /\ level \in Levels
        /\ base_video_format \in BaseFormats /\ picture_coding_mode \in Modes
        /\ words = Header
        /\ l = (Len(FlattenSeq(words)) + 7) \div 8 + 13
        /\ accum = <<>> /\ packed = <<>> /\ phase = "pack"

\* Bytes that are complete leave the accumulator; a last one stays in it.
Bytes(bits) == IF bits = <<>> THEN 0 ELSE (Len(bits) - 1) \div 8

Pack == /\ phase = "pack" /\ words # <<>>
        /\ LET acc == accum \o Head(words)
               whole == 8 * Bytes(acc)
           IN  /\ packed' = packed \o SubSeq(acc, 1, whole)
               /\ accum' = SubSeq(acc, whole + 1, Len(acc))
        /\ words' = Tail(words)
        /\ UNCHANGED <<given, l, phase>>

Fill(bits) == IF bits = <<>> THEN <<>> ELSE bits \o [i \in 1..(8 - Len(bits)) |-> 1]

Finish == /\ phase = "pack" /\ words = <<>>
          /\ packed' = packed \o Fill(accum) /\ accum' = <<>> /\ phase' = "new"
          /\ UNCHANGED <<given, words, l>>

----------------------------------------------------------------------------
\* What setParams makes of the parameters: of each group the base format's
\* values, the client's, or those an index stands for.
Base == <<>>
mVideoFormat ==
    [g \in 1..8 |->
        LET p == video_format[g]
        IN  IF ~p.flag THEN Base
            ELSE CASE g \in {FrameRate, PixelAspectRatio} /\ p.values[1] = 0 -> p.ratio
                   [] g = ColorSpec /\ p.values[1] = 0 ->
                         [i \in 1..3 |-> IF p.parts[i].flag THEN p.parts[i].values ELSE Base]
                   [] OTHER -> p.values]

\* A decoder: readers take a position and return a value and the next position.
Bit(i) == IF i <= Len(packed) THEN packed[i] ELSE 1
ReadUint(i) ==
    LET k == CHOOSE k \in 0..Len(packed) :
                Bit(i + 2 * k) = 1 /\ \A j \in 0..(k - 1) : Bit(i + 2 * j) # 1
        value[j \in 0..k] == IF j = 0 THEN 1 ELSE 2 * value[j - 1] + Bit(i + 2 * j - 1)
    IN  [v |-> value[k] - 1, at |-> i + 2 * k + 1]

ReadUints(n, i) ==
    LET read[j \in 0..n] ==
          IF j = 0 THEN [v |-> <<>>, at |-> i]
          ELSE LET before == read[j - 1]
                   r == ReadUint(before.at)
               IN  [v |-> Append(before.v, r.v), at |-> r.at]
    IN  read[n]

ReadOptional(n, i) == IF Bit(i) = 0 THEN [v |-> Base, at |-> i + 1] ELSE ReadUints(n, i + 1)

ReadParts(i) ==
    LET a == ReadOptional(1, i)   b == ReadOptional(1, a.at)   c == ReadOptional(1, b.at)
    IN  [v |-> <<a.v, b.v, c.v>>, at |-> c.at]

ReadGroup(g, i) ==
    LET r == ReadOptional(Groups[g], i)
    IN  CASE r.v = <<0>> /\ g \in {FrameRate, PixelAspectRatio} -> ReadUints(2, r.at)
          [] r.v = <<0>> /\ g = ColorSpec -> ReadParts(r.at)
          [] OTHER -> r

ReadGroups(i) ==
    LET read[g \in 0..8] ==
          IF g = 0 THEN [v |-> <<>>, at |-> i]
          ELSE LET before == read[g - 1]
                   r == ReadGroup(g, before.at)
               IN  [v |-> Append(before.v, r.v), at |-> r.at]
    IN  read[8]

\* What RatioOf looks at is what it should look at.
RatiosAlike ==
    video_format[PixelAspectRatio].flag =>
        (video_format[PixelAspectRatio].values[1] = 0 <=> video_format[FrameRate].values[1] = 0)

\* What the decoder finds, with what it should: the video format the encoder
\* works with, and all that comes before and after it.
FormatReadBack ==
    LET first == ReadUints(5, 1)
        format == ReadGroups(first.at)
    IN  /\ first.v = <<version, 0, 3, level, base_video_format>>
        /\ format.v = mVideoFormat
        /\ ReadUint(format.at).v = picture_coding_mode

\* A decoder of the header finds the video format the encoder works with, and
\* all that comes before and after it, provided that the client gives both
\* ratios by index or both by value: the code asks the frame rate's index
\* whether the pixel aspect ratio is written.
HeaderTellsFormat == phase = "new" /\ RatiosAlike => FormatReadBack
=============================================================================
