----------------------------- MODULE MCMat4Walk -----------------------------
(***************************************************************************)
(* A small instance of Mat4Walk: quarter turns from one full turn back to  *)
(* more than one full turn ahead, and axes along and against each          *)
(* coordinate axis, of lengths one and two; skew axes for the formula.     *)
(***************************************************************************)
EXTENDS Mat4Walk

QuarterTurns == -3..5
UnitAxes == {<<1, 0, 0>>, <<0, 1, 0>>, <<0, 0, 1>>, <<-1, 0, 0>>, <<0, -2, 0>>, <<0, 0, 2>>}
SkewDirections == {<<1, 2, 3>>, <<-2, 1, 5>>}
FewIntegers == {-1, 0, 2}
=============================================================================
