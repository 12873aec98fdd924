------------------------------- MODULE MCGPtr -------------------------------
(***************************************************************************)
(* A small instance of GPtr: four variables and three objects, so that     *)
(* some variables share an object while the others have different ones.    *)
(***************************************************************************)
EXTENDS GPtr, TLC

Symmetry == Permutations(Slots) \cup Permutations(Objects)
=============================================================================
