--------------------------- MODULE MCSliceCoding ---------------------------
(***************************************************************************)
(* The coding of coefficients as TLC checks it: Quantise with all that 16  *)
(* bits hold, and SliceCoding with what Quantise says quantisation makes   *)
(* of them.  A slice has a component of three samples, so that words lie   *)
(* across bytes in every way and are followed or not by samples that are   *)
(* not written, and one of a single sample that is written over what the   *)
(* first has stored ahead; or one component of one sample, with any word   *)
(* of the table.  The state of one of the two parts is idle while the      *)
(* other moves.                                                            *)
(***************************************************************************)
EXTENDS Quantise, SliceCoding

ThreeAndOne == [SAMPLES |-> <<3, 1>>, quotients |-> {0, 1, 5, 255}]
One == [SAMPLES |-> <<1>>, quotients |-> 0..255]
MCShapes == {ThreeAndOne, One}
MCChains == {2048 * k + 1 : k \in 0..15}

Idle == given = <<One, 1, FALSE>>

MCInit == CodingInit /\ (sample = 0 \/ (sample \in Chains /\ Idle))

MCNext == \/ sample = 0 /\ CodingNext /\ UNCHANGED sample
          \/ NextSample /\ UNCHANGED codingVars
          \/ sample # 0 /\ sample % Stride = 0 /\ UNCHANGED <<codingVars, sample>>   \* the last

MCSpec == MCInit /\ [][MCNext]_<<codingVars, sample>>
=============================================================================
