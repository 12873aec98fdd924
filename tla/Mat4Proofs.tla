----------------------------- MODULE Mat4Proofs -----------------------------
(***************************************************************************)
(* Facts about the matrix functions, for every matrix, axis and angle.     *)
(***************************************************************************)
EXTENDS Mat4Laws, TLAPS

(* The cosine and sine of whole quarter turns are integers, 1 and 0 for no *)
(* turn at all.                                                            *)
LEMMA CosSinType ==
  ASSUME NEW angle \in Int
  PROVE  /\ Cos(angle) \in {-1, 0, 1}
         /\ Sin(angle) \in {-1, 0, 1}
BY DEF Cos, Sin

LEMMA CosSinZero == Cos(0) = 1 /\ Sin(0) = 0
BY DEF Cos, Sin

(* The normalised axis is a vector of integers.                            *)
LEMMA NormalizedType ==
  ASSUME NEW v \in Vector
  PROVE  Normalized(v) \in Vector
<1>1. v[1] \in Int /\ v[2] \in Int /\ v[3] \in Int
  BY DEF Vector
<1>2. Norm(v) \in Nat
  BY <1>1 DEF Norm, AbsValue
<1>3. CASE Norm(v) = 0
  BY <1>3 DEF Normalized
<1>4. CASE Norm(v) # 0
  BY <1>1, <1>2, <1>4 DEF Normalized, Vector
<1> QED BY <1>3, <1>4

LEMMA RotationType ==
  ASSUME NEW u \in Vector, NEW c \in Int, NEW s \in Int
  PROVE  RotationAbout(u, c, s) \in Matrix
<1>1. u[1] \in Int /\ u[2] \in Int /\ u[3] \in Int
  BY DEF Vector
<1> QED BY <1>1 DEF RotationAbout, Matrix, Index

LEMMA RotateType ==
  ASSUME NEW angle \in Int, NEW v \in Vector
  PROVE  Rotate(angle, v) \in Matrix
<1>1. Cos(angle) \in Int /\ Sin(angle) \in Int
  BY CosSinType
<1> QED BY <1>1, NormalizedType, RotationType DEF Rotate

LEMMA MultiplyType ==
  ASSUME NEW x \in Matrix, NEW y \in Matrix
  PROVE  Multiply(x, y) \in Matrix
BY DEF Multiply, Matrix, Index

LEMMA IdentityType == Identity \in Matrix
BY DEF Identity, Matrix, Index

(* Turning by nothing, about whatever axis, is the identity: the reason a  *)
(* clock without speed stays where it is, even with an axis of zeros.      *)
THEOREM RotateByNothing ==
  ASSUME NEW v \in Vector
  PROVE  Rotate(0, v) = Identity
<1> DEFINE u == Normalized(v)
<1>1. u[1] \in Int /\ u[2] \in Int /\ u[3] \in Int
  BY NormalizedType DEF Vector
<1> HIDE DEF u
<1>2. RotationAbout(u, 1, 0) = Identity
  BY <1>1 DEF RotationAbout, Identity, Index
<1> QED BY <1>2, CosSinZero DEF Rotate, u

(* The identity is neutral on the left, where rotate() puts the rotation.  *)
THEOREM IdentityIsNeutral ==
  ASSUME NEW m \in Matrix
  PROVE  Multiply(Identity, m) = m
<1>1. \A i, k \in Index : m[i][k] \in Int
  BY DEF Matrix
<1>2. \A i, k \in Index : Multiply(Identity, m)[i][k] = m[i][k]
  BY <1>1 DEF Multiply, Identity, Index
<1>3. \A i \in Index : Multiply(Identity, m)[i] = m[i]
  BY <1>2 DEF Multiply, Matrix
<1> QED BY <1>3 DEF Multiply, Matrix

LEMMA IdentityIsNeutralRight ==
  ASSUME NEW m \in Matrix
  PROVE  Multiply(m, Identity) = m
<1>1. \A i, k \in Index : m[i][k] \in Int
  BY DEF Matrix
<1>2. \A i, k \in Index : Multiply(m, Identity)[i][k] = m[i][k]
  BY <1>1 DEF Multiply, Identity, Index
<1>3. \A i \in Index : Multiply(m, Identity)[i] = m[i]
  BY <1>2 DEF Multiply, Matrix
<1> QED BY <1>3 DEF Multiply, Matrix

(* mat4_rotate's literal is Rodrigues' formula, for every axis, cosine,    *)
(* sine and vector: a polynomial identity in each component.               *)
THEOREM LiteralIsRodrigues ==
  ASSUME NEW u \in Vector, NEW c \in Int, NEW s \in Int, NEW p \in Column
  PROVE  Apply(RotationAbout(u, c, s), p) = Rodrigues(u, c, s, p)
<1> DEFINE r == RotationAbout(u, c, s)
           left == Apply(r, p)
           right == Rodrigues(u, c, s, p)
<1>1. PICK x \in Int, y \in Int, z \in Int : x = u[1] /\ y = u[2] /\ z = u[3]
  BY DEF Vector
<1>2. PICK a \in Int, b \in Int, d \in Int, e \in Int :
        a = p[0] /\ b = p[1] /\ d = p[2] /\ e = p[3]
  BY DEF Column, Index
<1>3. /\ r[0][0] = x * x * (1 - c) + c      /\ r[1][0] = x * y * (1 - c) - z * s
      /\ r[2][0] = x * z * (1 - c) + y * s  /\ r[3][0] = 0
      /\ r[0][1] = y * x * (1 - c) + z * s  /\ r[1][1] = y * y * (1 - c) + c
      /\ r[2][1] = y * z * (1 - c) - x * s  /\ r[3][1] = 0
      /\ r[0][2] = z * x * (1 - c) - y * s  /\ r[1][2] = z * y * (1 - c) + x * s
      /\ r[2][2] = z * z * (1 - c) + c      /\ r[3][2] = 0
      /\ r[0][3] = 0 /\ r[1][3] = 0 /\ r[2][3] = 0 /\ r[3][3] = 1
  BY <1>1 DEF RotationAbout, Index
<1>4. \A k \in Index : left[k] = r[0][k] * a + r[1][k] * b + r[2][k] * d + r[3][k] * e
  BY <1>2 DEF Apply
<1>5. /\ right[0] = c * a + (1 - c) * (x * a + y * b + z * d) * x + s * (y * d - z * b)
      /\ right[1] = c * b + (1 - c) * (x * a + y * b + z * d) * y + s * (z * a - x * d)
      /\ right[2] = c * d + (1 - c) * (x * a + y * b + z * d) * z + s * (x * b - y * a)
      /\ right[3] = e
  BY <1>1, <1>2 DEF Rodrigues, Dot, Index
<1>6. left = [k \in Index |-> left[k]] /\ right = [k \in Index |-> right[k]]
  BY DEF Apply, Rodrigues
<1> HIDE DEF r, left, right
<1>7. left[0] = right[0]
  <2>1. left[0] = (x * x * (1 - c) + c) * a + (x * y * (1 - c) - z * s) * b
                    + (x * z * (1 - c) + y * s) * d + 0 * e
    BY <1>3, <1>4 DEF Index
  <2>2. @ = c * a + (1 - c) * (x * a + y * b + z * d) * x + s * (y * d - z * b)
    OBVIOUS
  <2> QED BY <2>1, <2>2, <1>5
<1>8. left[1] = right[1]
  <2>1. left[1] = (y * x * (1 - c) + z * s) * a + (y * y * (1 - c) + c) * b
                    + (y * z * (1 - c) - x * s) * d + 0 * e
    BY <1>3, <1>4 DEF Index
  <2>2. @ = c * b + (1 - c) * (x * a + y * b + z * d) * y + s * (z * a - x * d)
    OBVIOUS
  <2> QED BY <2>1, <2>2, <1>5
<1>9. left[2] = right[2]
  <2>1. left[2] = (z * x * (1 - c) - y * s) * a + (z * y * (1 - c) + x * s) * b
                    + (z * z * (1 - c) + c) * d + 0 * e
    BY <1>3, <1>4 DEF Index
  <2>2. @ = c * d + (1 - c) * (x * a + y * b + z * d) * z + s * (x * b - y * a)
    OBVIOUS
  <2> QED BY <2>1, <2>2, <1>5
<1>10. left[3] = right[3]
  <2>1. left[3] = 0 * a + 0 * b + 0 * d + 1 * e
    BY <1>3, <1>4 DEF Index
  <2> QED BY <2>1, <1>5
<1>11. \A k \in Index : left[k] = right[k]
  BY <1>7, <1>8, <1>9, <1>10 DEF Index
<1>12. left = right
  BY <1>6, <1>11
<1> QED BY <1>12 DEF left, right, r

-----------------------------------------------------------------------------
(***************************************************************************)
(* Products.  A column of a product is the left factor applied to a column *)
(* of the right one, so that associativity comes down to composition.      *)
(***************************************************************************)
LEMMA Distribute ==
  ASSUME NEW a0 \in Int, NEW a1 \in Int, NEW a2 \in Int, NEW a3 \in Int,
         NEW b00 \in Int, NEW b01 \in Int, NEW b02 \in Int, NEW b03 \in Int,
         NEW b10 \in Int, NEW b11 \in Int, NEW b12 \in Int, NEW b13 \in Int,
         NEW b20 \in Int, NEW b21 \in Int, NEW b22 \in Int, NEW b23 \in Int,
         NEW b30 \in Int, NEW b31 \in Int, NEW b32 \in Int, NEW b33 \in Int,
         NEW p0 \in Int, NEW p1 \in Int, NEW p2 \in Int, NEW p3 \in Int
  PROVE    (a0 * b00 + a1 * b01 + a2 * b02 + a3 * b03) * p0
         + (a0 * b10 + a1 * b11 + a2 * b12 + a3 * b13) * p1
         + (a0 * b20 + a1 * b21 + a2 * b22 + a3 * b23) * p2
         + (a0 * b30 + a1 * b31 + a2 * b32 + a3 * b33) * p3
         = a0 * (b00 * p0 + b10 * p1 + b20 * p2 + b30 * p3)
         + a1 * (b01 * p0 + b11 * p1 + b21 * p2 + b31 * p3)
         + a2 * (b02 * p0 + b12 * p1 + b22 * p2 + b32 * p3)
         + a3 * (b03 * p0 + b13 * p1 + b23 * p2 + b33 * p3)
OBVIOUS

(* A product of matrices first does what its right factor does: the        *)
(* rotation that rotate() puts on the left turns the clock as it stands.   *)
THEOREM ProductsCompose ==
  ASSUME NEW x \in Matrix, NEW y \in Matrix, NEW p \in Column
  PROVE  Apply(Multiply(x, y), p) = Apply(x, Apply(y, p))
<1>1. /\ \A i, k \in Index : x[i][k] \in Int /\ y[i][k] \in Int
      /\ \A k \in Index : p[k] \in Int
  BY DEF Matrix, Column
<1>2. \A k \in Index : Apply(Multiply(x, y), p)[k] = Apply(x, Apply(y, p))[k]
  <2> TAKE k \in Index
  <2>1. 0 \in Index /\ 1 \in Index /\ 2 \in Index /\ 3 \in Index
    BY DEF Index
  <2>2. Apply(Multiply(x, y), p)[k] =
             (x[0][k] * y[0][0] + x[1][k] * y[0][1] + x[2][k] * y[0][2] + x[3][k] * y[0][3]) * p[0]
           + (x[0][k] * y[1][0] + x[1][k] * y[1][1] + x[2][k] * y[1][2] + x[3][k] * y[1][3]) * p[1]
           + (x[0][k] * y[2][0] + x[1][k] * y[2][1] + x[2][k] * y[2][2] + x[3][k] * y[2][3]) * p[2]
           + (x[0][k] * y[3][0] + x[1][k] * y[3][1] + x[2][k] * y[3][2] + x[3][k] * y[3][3]) * p[3]
    BY <2>1 DEF Apply, Multiply
  <2>3. Apply(x, Apply(y, p))[k] =
             x[0][k] * (y[0][0] * p[0] + y[1][0] * p[1] + y[2][0] * p[2] + y[3][0] * p[3])
           + x[1][k] * (y[0][1] * p[0] + y[1][1] * p[1] + y[2][1] * p[2] + y[3][1] * p[3])
           + x[2][k] * (y[0][2] * p[0] + y[1][2] * p[1] + y[2][2] * p[2] + y[3][2] * p[3])
           + x[3][k] * (y[0][3] * p[0] + y[1][3] * p[1] + y[2][3] * p[2] + y[3][3] * p[3])
    BY <2>1 DEF Apply
  <2>4. @ = (x[0][k] * y[0][0] + x[1][k] * y[0][1] + x[2][k] * y[0][2] + x[3][k] * y[0][3]) * p[0]
           + (x[0][k] * y[1][0] + x[1][k] * y[1][1] + x[2][k] * y[1][2] + x[3][k] * y[1][3]) * p[1]
           + (x[0][k] * y[2][0] + x[1][k] * y[2][1] + x[2][k] * y[2][2] + x[3][k] * y[2][3]) * p[2]
           + (x[0][k] * y[3][0] + x[1][k] * y[3][1] + x[2][k] * y[3][2] + x[3][k] * y[3][3]) * p[3]
    BY <1>1, <2>1, Distribute
  <2> QED BY <2>2, <2>3, <2>4
<1> QED BY <1>2 DEF Apply

LEMMA ColumnsOfProduct ==
  ASSUME NEW x, NEW y
  PROVE  Multiply(x, y) = [i \in Index |-> Apply(x, y[i])]
BY DEF Multiply, Apply

(* Rotations may be gathered in any grouping: frame by frame, as the clock *)
(* does, or at once.                                                       *)
THEOREM MultiplyAssociates ==
  ASSUME NEW x \in Matrix, NEW y \in Matrix, NEW z \in Matrix
  PROVE  Multiply(Multiply(x, y), z) = Multiply(x, Multiply(y, z))
<1>1. \A i \in Index : z[i] \in Column
  BY DEF Matrix, Column
<1>2. \A i \in Index : Apply(Multiply(x, y), z[i]) = Apply(x, Multiply(y, z)[i])
  BY <1>1, ProductsCompose, ColumnsOfProduct
<1> QED BY <1>2, ColumnsOfProduct

-----------------------------------------------------------------------------
(***************************************************************************)
(* Rotations about one axis.  About an axis of length one they are turns   *)
(* in the plane of the two others.                                         *)
(***************************************************************************)
LEMMA QuarterTurnsAdd ==
  ASSUME NEW a \in Int, NEW b \in Int
  PROVE  /\ Cos(a + b) = Cos(a) * Cos(b) - Sin(a) * Sin(b)
         /\ Sin(a + b) = Sin(a) * Cos(b) + Cos(a) * Sin(b)
<1> PICK p \in 0..3, q \in 0..3 : p = a % 4 /\ q = b % 4
  OBVIOUS
<1>1. (a + b) % 4 = (p + q) % 4
  OBVIOUS
<1>2. \A p1, q1 \in 0..3 : (p1 + q1) % 4 = IF p1 + q1 >= 4 THEN p1 + q1 - 4 ELSE p1 + q1
  OBVIOUS
<1> QED BY <1>1, <1>2 DEF Cos, Sin

(* Cosine and sine of a quarter turn: one of them is 0, the other 1 or -1. *)
OnCross(c, s) ==
  \/ c = 1 /\ s = 0
  \/ c = 0 /\ s = 1
  \/ c = -1 /\ s = 0
  \/ c = 0 /\ s = -1

LEMMA CosSinOnCross ==
  ASSUME NEW a \in Int
  PROVE  OnCross(Cos(a), Sin(a))
<1>1. a % 4 \in {0, 1, 2, 3}
  OBVIOUS
<1>2. /\ a % 4 = 0 => Cos(a) = 1 /\ Sin(a) = 0
      /\ a % 4 = 1 => Cos(a) = 0 /\ Sin(a) = 1
      /\ a % 4 = 2 => Cos(a) = -1 /\ Sin(a) = 0
      /\ a % 4 = 3 => Cos(a) = 0 /\ Sin(a) = -1
  BY DEF Cos, Sin
<1>3. CASE a % 4 = 0
  BY <1>2, <1>3 DEF OnCross
<1>4. CASE a % 4 = 1
  BY <1>2, <1>4 DEF OnCross
<1>5. CASE a % 4 = 2
  BY <1>2, <1>5 DEF OnCross
<1>6. CASE a % 4 = 3
  BY <1>2, <1>6 DEF OnCross
<1> QED BY <1>1, <1>3, <1>4, <1>5, <1>6

UnitAxes == {<<1, 0, 0>>, <<-1, 0, 0>>, <<0, 1, 0>>, <<0, -1, 0>>, <<0, 0, 1>>, <<0, 0, -1>>}

LEMMA Quotients ==
  ASSUME NEW n \in Nat \ {0}
  PROVE  n \div n = 1 /\ (-n) \div n = -1 /\ 0 \div n = 0
OBVIOUS

Signum(w) == IF w = 0 THEN 0 ELSE IF w > 0 THEN 1 ELSE -1

LEMMA NormalizedIsUnit ==
  ASSUME NEW v \in Vector, AlongOneAxis(v)
  PROVE  /\ Normalized(v) = <<Signum(v[1]), Signum(v[2]), Signum(v[3])>>
         /\ Normalized(v) \in UnitAxes
<1>1. PICK x \in Int, y \in Int, z \in Int : v = <<x, y, z>>
  BY DEF Vector
<1>2. \/ x # 0 /\ y = 0 /\ z = 0
      \/ x = 0 /\ y # 0 /\ z = 0
      \/ x = 0 /\ y = 0 /\ z # 0
  BY <1>1 DEF AlongOneAxis
<1>3. Norm(v) \in Nat \ {0} /\ (Norm(v) = x + y + z \/ Norm(v) = -(x + y + z))
  BY <1>1, <1>2 DEF Norm, AbsValue
<1>4. Normalized(v) = <<x \div Norm(v), y \div Norm(v), z \div Norm(v)>>
  BY <1>1, <1>3 DEF Normalized
<1>5. \A w \in {x, y, z} : w \in {0, Norm(v), -Norm(v)}
  BY <1>2, <1>3
<1>6. \A w \in {x, y, z} : w \div Norm(v) = Signum(w)
  BY <1>3, <1>5, Quotients DEF Signum
<1>7. Normalized(v) = <<Signum(x), Signum(y), Signum(z)>>
  BY <1>4, <1>6
<1> QED BY <1>1, <1>2, <1>7 DEF UnitAxes, Signum

(* The turn in the plane of the axes b and d, from b towards d.            *)
Planes == {<<1, 2>>, <<2, 0>>, <<0, 1>>}
InPlane(g, c, t) ==
  [i \in Index |-> [k \in Index |->
     IF i = g[1] /\ k = g[2] THEN t
     ELSE IF i = g[2] /\ k = g[1] THEN -t
     ELSE IF i # k THEN 0 ELSE IF i \in {g[1], g[2]} THEN c ELSE 1]]

LEMMA UnitRotation ==
  ASSUME NEW u \in UnitAxes
  PROVE  \E g \in Planes, sign \in {-1, 1} :
           \A c, s \in Int : RotationAbout(u, c, s) = InPlane(g, c, sign * s)
<1>1. ASSUME NEW sign \in {-1, 1}, u = <<sign, 0, 0>>
      PROVE \A c, s \in Int : RotationAbout(u, c, s) = InPlane(<<1, 2>>, c, sign * s)
  BY <1>1 DEF RotationAbout, InPlane, Index
<1>2. ASSUME NEW sign \in {-1, 1}, u = <<0, sign, 0>>
      PROVE \A c, s \in Int : RotationAbout(u, c, s) = InPlane(<<2, 0>>, c, sign * s)
  BY <1>2 DEF RotationAbout, InPlane, Index
<1>3. ASSUME NEW sign \in {-1, 1}, u = <<0, 0, sign>>
      PROVE \A c, s \in Int : RotationAbout(u, c, s) = InPlane(<<0, 1>>, c, sign * s)
  BY <1>3 DEF RotationAbout, InPlane, Index
<1> QED BY <1>1, <1>2, <1>3 DEF UnitAxes, Planes

LEMMA CrossFlips ==
  ASSUME NEW c, NEW s, OnCross(c, s), NEW sign \in {-1, 1}
  PROVE  OnCross(c, sign * s) /\ c \in Int /\ s \in Int /\ sign * s \in Int
BY DEF OnCross

LEMMA InPlaneType ==
  ASSUME NEW g \in Planes, NEW c \in Int, NEW t \in Int
  PROVE  InPlane(g, c, t) \in Matrix
BY DEF InPlane, Matrix, Index, Planes

(* What a turn makes of a vector: two of its components are mixed.         *)
LEMMA TurnedColumn ==
  ASSUME NEW g \in Planes, NEW c \in Int, NEW t \in Int, NEW p \in Column
  PROVE  /\ Apply(InPlane(g, c, t), p)[g[1]] = c * p[g[1]] - t * p[g[2]]
         /\ Apply(InPlane(g, c, t), p)[g[2]] = t * p[g[1]] + c * p[g[2]]
         /\ \A k \in Index \ {g[1], g[2]} : Apply(InPlane(g, c, t), p)[k] = p[k]
<1>1. \A k \in Index : p[k] \in Int
  BY DEF Column
<1>2. \A k \in Index : Apply(InPlane(g, c, t), p)[k] =
          InPlane(g, c, t)[0][k] * p[0] + InPlane(g, c, t)[1][k] * p[1]
            + InPlane(g, c, t)[2][k] * p[2] + InPlane(g, c, t)[3][k] * p[3]
  BY DEF Apply
<1>3. \A i, k \in Index : InPlane(g, c, t)[i][k] =
        IF i = g[1] /\ k = g[2] THEN t
        ELSE IF i = g[2] /\ k = g[1] THEN -t
        ELSE IF i # k THEN 0 ELSE IF i \in {g[1], g[2]} THEN c ELSE 1
  BY DEF InPlane
<1>4. \A i \in Index : i = 0 \/ i = 1 \/ i = 2 \/ i = 3
  BY DEF Index
<1>5. 0 \in Index /\ 1 \in Index /\ 2 \in Index /\ 3 \in Index
  BY DEF Index
<1>6. CASE g = <<1, 2>>
  <2>1. g[1] = 1 /\ g[2] = 2
    BY <1>6
  <2> QED BY <1>1, <1>2, <1>3, <1>4, <1>5, <2>1
<1>7. CASE g = <<2, 0>>
  <2>1. g[1] = 2 /\ g[2] = 0
    BY <1>7
  <2> QED BY <1>1, <1>2, <1>3, <1>4, <1>5, <2>1
<1>8. CASE g = <<0, 1>>
  <2>1. g[1] = 0 /\ g[2] = 1
    BY <1>8
  <2> QED BY <1>1, <1>2, <1>3, <1>4, <1>5, <2>1
<1> QED BY <1>6, <1>7, <1>8 DEF Planes

(* Two turns in one plane are one turn by the sum of their angles.         *)
LEMMA TurnsAdd ==
  ASSUME NEW u \in UnitAxes, NEW c1 \in Int, NEW s1 \in Int, NEW c2 \in Int, NEW s2 \in Int
  PROVE  Multiply(RotationAbout(u, c1, s1), RotationAbout(u, c2, s2))
           = RotationAbout(u, c2 * c1 - s2 * s1, s2 * c1 + c2 * s1)
<1>1. PICK g \in Planes, sign \in {-1, 1} :
        \A c, s \in Int : RotationAbout(u, c, s) = InPlane(g, c, sign * s)
  BY UnitRotation
<1> DEFINE t1 == sign * s1  t2 == sign * s2
<1>2. t1 \in Int /\ t2 \in Int /\ t2 * t1 = s2 * s1 /\ t2 * c1 + c2 * t1 = sign * (s2 * c1 + c2 * s1)
  OBVIOUS
<1> HIDE DEF t1, t2
<1>3. Multiply(InPlane(g, c1, t1), InPlane(g, c2, t2)) = InPlane(g, c2 * c1 - t2 * t1, t2 * c1 + c2 * t1)
  <2>1. CASE g = <<1, 2>>
    BY <1>2, <2>1 DEF Multiply, InPlane, Index
  <2>2. CASE g = <<2, 0>>
    BY <1>2, <2>2 DEF Multiply, InPlane, Index
  <2>3. CASE g = <<0, 1>>
    BY <1>2, <2>3 DEF Multiply, InPlane, Index
  <2> QED BY <2>1, <2>2, <2>3 DEF Planes
<1>4. c2 * c1 - s2 * s1 \in Int /\ s2 * c1 + c2 * s1 \in Int
  OBVIOUS
<1> QED BY <1>1, <1>2, <1>3, <1>4 DEF t1, t2

(* Turning by a and then by b about an axis is turning by a + b, for all   *)
(* angles: the frames of a rotation can be cut anywhere.                   *)
THEOREM AnglesAddUp ==
  ASSUME NEW a \in Int, NEW b \in Int, NEW v \in Vector, AlongOneAxis(v)
  PROVE  Multiply(Rotate(b, v), Rotate(a, v)) = Rotate(a + b, v)
<1>1. Cos(a) \in Int /\ Sin(a) \in Int /\ Cos(b) \in Int /\ Sin(b) \in Int
  BY CosSinType
<1> QED BY <1>1, NormalizedIsUnit, QuarterTurnsAdd, TurnsAdd DEF Rotate

-----------------------------------------------------------------------------
(***************************************************************************)
(* A turn keeps lengths, right angles and handedness.                      *)
(***************************************************************************)
LEMMA TransposedProduct ==
  ASSUME NEW x \in Matrix, NEW y \in Matrix
  PROVE  TransposeOf(Multiply(x, y)) = Multiply(TransposeOf(y), TransposeOf(x))
BY DEF TransposeOf, Multiply, Matrix, Index

LEMMA TransposeType ==
  ASSUME NEW x \in Matrix
  PROVE  TransposeOf(x) \in Matrix
BY DEF TransposeOf, Matrix

LEMMA TurnOrthonormal ==
  ASSUME NEW g \in Planes, NEW c, NEW t, OnCross(c, t)
  PROVE  Multiply(TransposeOf(InPlane(g, c, t)), InPlane(g, c, t)) = Identity
<1>1. CASE g = <<1, 2>>
  BY <1>1 DEF TransposeOf, Multiply, InPlane, Index, OnCross, Identity
<1>2. CASE g = <<2, 0>>
  BY <1>2 DEF TransposeOf, Multiply, InPlane, Index, OnCross, Identity
<1>3. CASE g = <<0, 1>>
  BY <1>3 DEF TransposeOf, Multiply, InPlane, Index, OnCross, Identity
<1> QED BY <1>1, <1>2, <1>3 DEF Planes

Upright(m) == Multiply(m, TransposeOf(m)) = Identity

LEMMA TurnUpright ==
  ASSUME NEW g \in Planes, NEW c, NEW t, OnCross(c, t)
  PROVE  Upright(InPlane(g, c, t))
<1>1. CASE g = <<1, 2>>
  BY <1>1 DEF Upright, TransposeOf, Multiply, InPlane, Index, OnCross, Identity
<1>2. CASE g = <<2, 0>>
  BY <1>2 DEF Upright, TransposeOf, Multiply, InPlane, Index, OnCross, Identity
<1>3. CASE g = <<0, 1>>
  BY <1>3 DEF Upright, TransposeOf, Multiply, InPlane, Index, OnCross, Identity
<1> QED BY <1>1, <1>2, <1>3 DEF Planes

LEMMA TurnKeepsDet ==
  ASSUME NEW g \in Planes, NEW c, NEW t, OnCross(c, t), NEW m \in Matrix
  PROVE  Det3(Multiply(InPlane(g, c, t), m)) = Det3(m)
<1>1. \A i, k \in Index : m[i][k] \in Int
  BY DEF Matrix
<1>2. \A i \in Index : m[i] \in Column
  BY DEF Matrix, Column
<1>3. c \in Int /\ t \in Int
  BY DEF OnCross
<1> DEFINE r == Multiply(InPlane(g, c, t), m)
<1>4. \A i \in Index : r[i] = Apply(InPlane(g, c, t), m[i])
  BY ColumnsOfProduct
<1> HIDE DEF r
<1>5. \A i \in Index : /\ r[i][g[1]] = c * m[i][g[1]] - t * m[i][g[2]]
                       /\ r[i][g[2]] = t * m[i][g[1]] + c * m[i][g[2]]
                       /\ \A k \in Index \ {g[1], g[2]} : r[i][k] = m[i][k]
  <2> TAKE i \in Index
  <2>1. m[i] \in Column /\ r[i] = Apply(InPlane(g, c, t), m[i])
    BY <1>2, <1>4
  <2> QED BY <1>3, <2>1, TurnedColumn
<1>6. /\ m[0][0] \in Int /\ m[0][1] \in Int /\ m[0][2] \in Int
      /\ m[1][0] \in Int /\ m[1][1] \in Int /\ m[1][2] \in Int
      /\ m[2][0] \in Int /\ m[2][1] \in Int /\ m[2][2] \in Int
  BY <1>1 DEF Index
<1>7. PICK x0 \in Int, x1 \in Int, x2 \in Int, y0 \in Int, y1 \in Int, y2 \in Int,
           z0 \in Int, z1 \in Int, z2 \in Int :
        /\ x0 = m[0][0] /\ x1 = m[0][1] /\ x2 = m[0][2]
        /\ y0 = m[1][0] /\ y1 = m[1][1] /\ y2 = m[1][2]
        /\ z0 = m[2][0] /\ z1 = m[2][1] /\ z2 = m[2][2]
  BY <1>6
<1>8. Det3(m) = x0 * (y1 * z2 - y2 * z1) - y0 * (x1 * z2 - x2 * z1) + z0 * (x1 * y2 - x2 * y1)
  BY <1>7 DEF Det3
<1>9. c * c + t * t = 1
  BY DEF OnCross
<1>10. CASE g = <<1, 2>>
  <2>1. /\ r[0][0] = x0 /\ r[0][1] = c * x1 - t * x2 /\ r[0][2] = t * x1 + c * x2
        /\ r[1][0] = y0 /\ r[1][1] = c * y1 - t * y2 /\ r[1][2] = t * y1 + c * y2
        /\ r[2][0] = z0 /\ r[2][1] = c * z1 - t * z2 /\ r[2][2] = t * z1 + c * z2
    BY <1>5, <1>7, <1>10 DEF Index
  <2>2. Det3(r) = x0 * ((c * y1 - t * y2) * (t * z1 + c * z2) - (t * y1 + c * y2) * (c * z1 - t * z2))
                - y0 * ((c * x1 - t * x2) * (t * z1 + c * z2) - (t * x1 + c * x2) * (c * z1 - t * z2))
                + z0 * ((c * x1 - t * x2) * (t * y1 + c * y2) - (t * x1 + c * x2) * (c * y1 - t * y2))
    BY <2>1 DEF Det3
  <2>3. @ = (c * c + t * t) * (x0 * (y1 * z2 - y2 * z1) - y0 * (x1 * z2 - x2 * z1) + z0 * (x1 * y2 - x2 * y1))
    BY <1>3
  <2>4. @ = Det3(m)
    BY <1>8, <1>9
  <2> QED BY <2>2, <2>3, <2>4 DEF r
<1>11. CASE g = <<2, 0>>
  <2>1. /\ r[0][0] = t * x2 + c * x0 /\ r[0][1] = x1 /\ r[0][2] = c * x2 - t * x0
        /\ r[1][0] = t * y2 + c * y0 /\ r[1][1] = y1 /\ r[1][2] = c * y2 - t * y0
        /\ r[2][0] = t * z2 + c * z0 /\ r[2][1] = z1 /\ r[2][2] = c * z2 - t * z0
    BY <1>5, <1>7, <1>11 DEF Index
  <2>2. Det3(r) = (t * x2 + c * x0) * (y1 * (c * z2 - t * z0) - (c * y2 - t * y0) * z1)
                - (t * y2 + c * y0) * (x1 * (c * z2 - t * z0) - (c * x2 - t * x0) * z1)
                + (t * z2 + c * z0) * (x1 * (c * y2 - t * y0) - (c * x2 - t * x0) * y1)
    BY <2>1 DEF Det3
  <2>3. @ = (c * c + t * t) * (x0 * (y1 * z2 - y2 * z1) - y0 * (x1 * z2 - x2 * z1) + z0 * (x1 * y2 - x2 * y1))
    BY <1>3
  <2>4. @ = Det3(m)
    BY <1>8, <1>9
  <2> QED BY <2>2, <2>3, <2>4 DEF r
<1>12. CASE g = <<0, 1>>
  <2>1. /\ r[0][0] = c * x0 - t * x1 /\ r[0][1] = t * x0 + c * x1 /\ r[0][2] = x2
        /\ r[1][0] = c * y0 - t * y1 /\ r[1][1] = t * y0 + c * y1 /\ r[1][2] = y2
        /\ r[2][0] = c * z0 - t * z1 /\ r[2][1] = t * z0 + c * z1 /\ r[2][2] = z2
    BY <1>5, <1>7, <1>12 DEF Index
  <2>2. Det3(r) = (c * x0 - t * x1) * ((t * y0 + c * y1) * z2 - y2 * (t * z0 + c * z1))
                - (c * y0 - t * y1) * ((t * x0 + c * x1) * z2 - x2 * (t * z0 + c * z1))
                + (c * z0 - t * z1) * ((t * x0 + c * x1) * y2 - x2 * (t * y0 + c * y1))
    BY <2>1 DEF Det3
  <2>3. @ = (c * c + t * t) * (x0 * (y1 * z2 - y2 * z1) - y0 * (x1 * z2 - x2 * z1) + z0 * (x1 * y2 - x2 * y1))
    BY <1>3
  <2>4. @ = Det3(m)
    BY <1>8, <1>9
  <2> QED BY <2>2, <2>3, <2>4 DEF r
<1> QED BY <1>10, <1>11, <1>12 DEF Planes, r

(* A rotation multiplied into a proper rotation leaves one.                *)
THEOREM TurnKeepsProper ==
  ASSUME NEW a \in Int, NEW v \in Vector, AlongOneAxis(v), NEW m \in Matrix, ProperRotation(m)
  PROVE  ProperRotation(Multiply(Rotate(a, v), m))
<1>1. PICK g \in Planes, sign \in {-1, 1} : Rotate(a, v) = InPlane(g, Cos(a), sign * Sin(a))
  BY CosSinType, NormalizedIsUnit, UnitRotation DEF Rotate
<1> DEFINE c == Cos(a)  t == sign * Sin(a)  r == InPlane(g, c, t)
<1>2. OnCross(c, t) /\ c \in Int /\ t \in Int
  BY CosSinOnCross, CrossFlips
<1> HIDE DEF c, t
<1>3. r \in Matrix /\ TransposeOf(r) \in Matrix /\ TransposeOf(m) \in Matrix /\ Multiply(r, m) \in Matrix
  BY <1>2, InPlaneType, TransposeType, MultiplyType
<1>4. Multiply(TransposeOf(r), r) = Identity /\ Det3(Multiply(r, m)) = 1
  BY <1>2, TurnOrthonormal, TurnKeepsDet DEF ProperRotation
<1> HIDE DEF r
<1>5. Multiply(TransposeOf(Multiply(r, m)), Multiply(r, m)) = Identity
  <2>1. Multiply(TransposeOf(r), Multiply(r, m)) = m
    BY <1>3, <1>4, MultiplyAssociates, IdentityIsNeutral
  <2>2. Multiply(TransposeOf(Multiply(r, m)), Multiply(r, m))
          = Multiply(TransposeOf(m), Multiply(TransposeOf(r), Multiply(r, m)))
    BY <1>3, TransposedProduct, MultiplyAssociates
  <2> QED BY <2>1, <2>2 DEF ProperRotation
<1> QED BY <1>1, <1>4, <1>5 DEF ProperRotation, c, t, r

(* The other half of orthonormality, that of the rows.                     *)
LEMMA TurnKeepsUpright ==
  ASSUME NEW a \in Int, NEW v \in Vector, AlongOneAxis(v), NEW m \in Matrix, Upright(m)
  PROVE  /\ Upright(Multiply(Rotate(a, v), m))
         /\ Multiply(Multiply(Rotate(a, v), m), TransposeOf(m)) = Rotate(a, v)
<1>1. PICK g \in Planes, sign \in {-1, 1} : Rotate(a, v) = InPlane(g, Cos(a), sign * Sin(a))
  BY CosSinType, NormalizedIsUnit, UnitRotation DEF Rotate
<1> DEFINE r == Rotate(a, v)
<1>2. OnCross(Cos(a), sign * Sin(a))
  BY CosSinOnCross, CrossFlips
<1>3. Upright(r)
  BY <1>1, <1>2, TurnUpright
<1>4. r \in Matrix /\ TransposeOf(r) \in Matrix /\ TransposeOf(m) \in Matrix /\ Multiply(r, m) \in Matrix
  BY RotateType, TransposeType, MultiplyType
<1> HIDE DEF r
<1>5. Multiply(Multiply(r, m), TransposeOf(m)) = r
  <2>1. Multiply(Multiply(r, m), TransposeOf(m)) = Multiply(r, Identity)
    BY <1>4, MultiplyAssociates DEF Upright
  <2> QED BY <1>4, <2>1, IdentityIsNeutralRight
<1>6. Multiply(Multiply(r, m), TransposeOf(Multiply(r, m)))
        = Multiply(Multiply(Multiply(r, m), TransposeOf(m)), TransposeOf(r))
  BY <1>4, TransposedProduct, MultiplyAssociates
<1> QED BY <1>3, <1>5, <1>6 DEF r, Upright
=============================================================================
