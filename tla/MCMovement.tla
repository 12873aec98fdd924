----------------------------- MODULE MCMovement -----------------------------
(***************************************************************************)
(* Small instances of Movement.                                            *)
(***************************************************************************)
EXTENDS Movement

\* Clicks in place; drags in all four directions, of lengths that turn the clock by
\* one quarter and by five in a tick; and diagonal ones.
DragPoints == {<<0, 0>>, <<1, 0>>, <<0, 5>>}
TwoPoints  == {<<0, 0>>, <<1, 0>>}
OnePoint   == {<<0, 0>>}

\* Both ends of the legal range, their neighbours, and what atoi may make of text.
ManyRates == {-1, 0, 1, 20, 99, 100, 101}

\* What uninitialised memory may hold: a usable or a zero axis ...
FiniteAxes == {<<0, 0, 0>>, <<0, 3, 0>>}
ZeroAxis   == {<<0, 0, 0>>}
\* ... or a NaN.
NaNAxis    == {<<0, 0, 0>>, NotFinite}

\* The timer and ~movement leave gestures and attitude alone, draws are queued without
\* them, too, and a hidden clock is one that gets no frame for a while: where gestures
\* and attitude are looked at they are left out.
DragNext == Pointing \/ Realize \/ Expose \/ (\E now \in Times : Render(now)) \/ WindowClosed
DragSpec == Init /\ [][DragNext]_vars
=============================================================================
