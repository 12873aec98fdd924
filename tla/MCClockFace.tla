----------------------------- MODULE MCClockFace -----------------------------
(***************************************************************************)
(* A small instance of ClockFace: the quarters of both hands, the last     *)
(* seconds before noon and midnight, a leap second, and three poses.       *)
(***************************************************************************)
EXTENDS ClockFace

T(h, m, s) == [hour |-> h, min |-> m, sec |-> s]
TellingTimes == {T(0, 0, 0), T(3, 0, 0), T(6, 30, 0), T(9, 45, 0), T(11, 59, 59), T(12, 0, 0),
                 T(17, 20, 0), T(20, 0, 0), T(23, 59, 60)}
ThreePoses == {Identity, Rotate(1, <<1, 0, 0>>), Rotate(2, <<0, 1, 0>>)}
=============================================================================
