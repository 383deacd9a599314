-------------------------- MODULE MCPartialEncoder --------------------------
(***************************************************************************)
(* PartialEncoder with the component lengths and partials that TLC tries:  *)
(* empty slices, lengths on and off the grid of slice_size_scalar, a       *)
(* component at its largest and one beyond it.                             *)
(***************************************************************************)
EXTENDS PartialEncoder

MCTriples == {<<0, 0, 0>>, <<1, 0, 0>>, <<2, 1, 1>>, <<4, 3, 0>>, <<3, 4, 4>>, <<5, 0, 0>>}
=============================================================================
