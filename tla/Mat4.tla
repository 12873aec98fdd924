-------------------------------- MODULE Mat4 --------------------------------
(***************************************************************************)
(* The 4x4 matrix functions of lib/mat4.c.  A matrix is indexed as in C:   *)
(* m[i] is the i-th COLUMN (OpenGL's column-major order) and m[i][k] the   *)
(* k-th component of that column.                                          *)
(*                                                                         *)
(* Data abstraction: the floats of the source are replaced by exact        *)
(* integers.  An angle is a whole number of quarter turns, so that its     *)
(* cosine and sine are in -1..1, and an axis has at most one nonzero       *)
(* component, so that its norm is the sum of the absolute values and the   *)
(* normalisation is exact.  Rounding is outside the model.                 *)
(***************************************************************************)
EXTENDS Integers

Index  == 0..3
Matrix == [Index -> [Index -> Int]]
Vector == Int \X Int \X Int

Identity == [i \in Index |-> [k \in Index |-> IF i = k THEN 1 ELSE 0]]

(***************************************************************************)
(* mat4_multiply(x, y, z): z[i][k] accumulates x[j][k] * y[i][j] over j,   *)
(* that is, z is the product x.y of two column-major matrices.             *)
(***************************************************************************)
\* Mutant: the operands are taken in the other order.
MultiplySwapped(x, y) ==
  [i \in Index |-> [k \in Index |->
     y[0][k] * x[i][0] + y[1][k] * x[i][1] + y[2][k] * x[i][2] + y[3][k] * x[i][3]]]

Multiply(x, y) ==
  [i \in Index |-> [k \in Index |->
     x[0][k] * y[i][0] + x[1][k] * y[i][1] + x[2][k] * y[i][2] + x[3][k] * y[i][3]]]

AbsValue(x) == IF x < 0 THEN -x ELSE x

(***************************************************************************)
(* Cosine and sine of a number of quarter turns.                           *)
(***************************************************************************)
\* Mutant: cosf and sinf exchanged.
CosIsSin(angle) == LET q == angle % 4 IN IF q = 1 THEN 1 ELSE IF q = 3 THEN -1 ELSE 0

Cos(angle) == LET q == angle % 4 IN IF q = 0 THEN 1 ELSE IF q = 2 THEN -1 ELSE 0
Sin(angle) == LET q == angle % 4 IN IF q = 1 THEN 1 ELSE IF q = 3 THEN -1 ELSE 0

(***************************************************************************)
(* The normalisation at the head of mat4_rotate: the zero axis is left as  *)
(* it is.                                                                  *)
(***************************************************************************)
Norm(v) == AbsValue(v[1]) + AbsValue(v[2]) + AbsValue(v[3])
\* Mutant: the axis is not normalised.
NotNormalized(v) == v

Normalized(v) ==
  IF Norm(v) = 0
  THEN v
  ELSE <<v[1] \div Norm(v), v[2] \div Norm(v), v[3] \div Norm(v)>>

(***************************************************************************)
(* mat4_rotate(angle, x, y, z, rotation), column by column.                *)
(***************************************************************************)
\* Mutant: the literal written in row-major order.
RotationRowMajor(u, c, s) ==
  LET skew == <<<<0, -u[3], u[2]>>, <<u[3], 0, -u[1]>>, <<-u[2], u[1], 0>>>> IN
  [i \in Index |-> [k \in Index |->
     IF i = 3 \/ k = 3 THEN (IF i = k THEN 1 ELSE 0)
     ELSE u[i + 1] * u[k + 1] * (1 - c) + (IF i = k THEN c ELSE 0) + s * skew[i + 1][k + 1]]]

RotationAbout(u, c, s) ==
  LET x == u[1]  y == u[2]  z == u[3] IN
  [i \in Index |->
     IF i = 0 THEN [k \in Index |-> IF k = 0 THEN x * x * (1 - c) + c
                               ELSE IF k = 1 THEN y * x * (1 - c) + z * s
                               ELSE IF k = 2 THEN z * x * (1 - c) - y * s ELSE 0]
     ELSE IF i = 1 THEN [k \in Index |-> IF k = 0 THEN x * y * (1 - c) - z * s
                                    ELSE IF k = 1 THEN y * y * (1 - c) + c
                                    ELSE IF k = 2 THEN z * y * (1 - c) + x * s ELSE 0]
     ELSE IF i = 2 THEN [k \in Index |-> IF k = 0 THEN x * z * (1 - c) + y * s
                                    ELSE IF k = 1 THEN y * z * (1 - c) - x * s
                                    ELSE IF k = 2 THEN z * z * (1 - c) + c ELSE 0]
     ELSE [k \in Index |-> IF k = 3 THEN 1 ELSE 0]]

Rotate(angle, axis) == RotationAbout(Normalized(axis), Cos(angle), Sin(angle))
=============================================================================
