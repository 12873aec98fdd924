------------------------------ MODULE Mat4Walk ------------------------------
(***************************************************************************)
(* The matrix functions under repeated use: movement::rotate of            *)
(* lib/movement.cpp multiplies one rotation after another into the         *)
(* attitude.  The invariants compare lib/mat4.c with the textbook          *)
(* definitions: the action of a matrix on a vector, Rodrigues' formula,    *)
(* and rotations as a group.                                               *)
(***************************************************************************)
EXTENDS Mat4Laws

CONSTANTS Angles, Axes,    \* angles (quarter turns) and axes passed to mat4_rotate
          SkewAxes, Values \* axes of any direction; integers for any cosine and sine

ASSUME WalkAssumption == /\ Angles \subseteq Int /\ Values \subseteq Int
                         /\ \A v \in Axes : v \in Vector /\ AlongOneAxis(v)
                         /\ SkewAxes \subseteq Vector

VARIABLES attitude,      \* _attitude
          angle, axis    \* arguments of the last mat4_rotate

walkVars == <<attitude, angle, axis>>

WalkInit ==
  /\ attitude = Identity
  /\ angle = 0 /\ axis = <<0, 0, 0>>

Turn(a, v) ==
  /\ angle' = a /\ axis' = v
  /\ attitude' = Multiply(Rotate(a, v), attitude)

WalkNext == \E a \in Angles, v \in Axes : Turn(a, v)

WalkSpec == WalkInit /\ [][WalkNext]_walkVars

-----------------------------------------------------------------------------
Basis == {[k \in Index |-> IF k = i THEN 1 ELSE 0] : i \in Index}
Probes == Basis \cup {[k \in Index |-> 2 * k - 3]}

(***************************************************************************)
(* Properties.                                                             *)
(***************************************************************************)

(* The column-major literal of mat4_rotate is Rodrigues' formula, entry by *)
(* entry: none of its signs and indices is swapped, for any axis (unit or  *)
(* not) and any cosine and sine.                                           *)
RodriguesFormula ==
  \A u \in SkewAxes \cup {Normalized(axis)}, cosine \in Values, sine \in Values, p \in Probes :
    Apply(RotationAbout(u, cosine, sine), p) = Rodrigues(u, cosine, sine, p)

(* mat4_multiply(x, y) applies y first and x second, so that rotate()      *)
(* turns the clock about the axes of the screen, not about its own.        *)
MultiplyComposes ==
  \A p \in Probes :
    Apply(Multiply(Rotate(angle, axis), attitude), p) = Apply(Rotate(angle, axis), Apply(attitude, p))

(* Turning by a and then by b about one axis is turning by a + b, also     *)
(* backward and past a full turn: frames can be cut anywhere.              *)
AnglesAdd ==
  axis # <<0, 0, 0>> =>
    \A b \in Angles : Multiply(Rotate(b, axis), Rotate(angle, axis)) = Rotate(angle + b, axis)

(* However many rotations are multiplied in, the attitude is one of the 24 *)
(* right-angle poses: a signed permutation of the axes, of determinant 1.  *)
OneOfTheCubePoses ==
  /\ \A i \in 0..2 : \E k \in 0..2 : attitude[i] \in
       {[l \in Index |-> IF l = k THEN sign ELSE 0] : sign \in {-1, 1}}
  /\ \A k \in 0..2 : \E i \in 0..2 : attitude[i][k] # 0
  /\ Det3(attitude) = 1
  /\ attitude[3] = Identity[3] /\ \A i \in 0..2 : attitude[i][3] = 0
=============================================================================
