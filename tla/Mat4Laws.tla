------------------------------ MODULE Mat4Laws ------------------------------
(***************************************************************************)
(* What the functions of lib/mat4.c are meant to compute, in textbook      *)
(* form: the action of a matrix on a column vector, the rotation of a      *)
(* vector about an axis, and what makes a matrix a rotation.               *)
(***************************************************************************)
EXTENDS Mat4

Column == [Index -> Int]
Apply(m, p) == [k \in Index |-> m[0][k] * p[0] + m[1][k] * p[1] + m[2][k] * p[2] + m[3][k] * p[3]]

Dot(u, p) == u[1] * p[0] + u[2] * p[1] + u[3] * p[2]

\* Rodrigues: c p + (1 - c)(u.p) u + s (u x p), the homogeneous part kept.
Rodrigues(u, cosine, sine, p) ==
  [k \in Index |->
     IF k = 0 THEN cosine * p[0] + (1 - cosine) * Dot(u, p) * u[1] + sine * (u[2] * p[2] - u[3] * p[1])
     ELSE IF k = 1 THEN cosine * p[1] + (1 - cosine) * Dot(u, p) * u[2] + sine * (u[3] * p[0] - u[1] * p[2])
     ELSE IF k = 2 THEN cosine * p[2] + (1 - cosine) * Dot(u, p) * u[3] + sine * (u[1] * p[1] - u[2] * p[0])
     ELSE p[3]]

TransposeOf(m) == [i \in Index |-> [k \in Index |-> m[k][i]]]
Det3(m) ==   m[0][0] * (m[1][1] * m[2][2] - m[1][2] * m[2][1])
           - m[1][0] * (m[0][1] * m[2][2] - m[0][2] * m[2][1])
           + m[2][0] * (m[0][1] * m[1][2] - m[0][2] * m[1][1])
ProperRotation(m) ==
  /\ Multiply(TransposeOf(m), m) = Identity
  /\ Det3(m) = 1

(***************************************************************************)
(* The axes whose normalisation is exact in the integers.                  *)
(***************************************************************************)
AlongOneAxis(v) == \E i \in 1..3 : v[i] # 0 /\ \A j \in (1..3) \ {i} : v[j] = 0
=============================================================================
