--------------------------- MODULE MCSimpleModule ---------------------------
(***************************************************************************)
(* A small instance of SimpleModule: two times and two poses (ClockFace is *)
(* checked with more), a wide picture, a high one and a very small one.    *)
(***************************************************************************)
EXTENDS SimpleModule, TLC

TwoTimes == {[hour |-> 9, min |-> 45, sec |-> 0], [hour |-> 23, min |-> 59, sec |-> 60]}
TwoPoses == {Identity, Rotate(1, <<1, 0, 0>>)}

Picture(w, h) == [width |-> w, height |-> h]
ThreePictures == {Picture(6, 3), Picture(1, 4), Picture(2, 1)}

Symmetry == Permutations(Names)
=============================================================================
