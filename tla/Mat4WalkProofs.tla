--------------------------- MODULE Mat4WalkProofs ---------------------------
(***************************************************************************)
(* The textbook laws of Mat4Walk hold after any number of rotations, for   *)
(* all angles, axes along one direction, and formula values.               *)
(***************************************************************************)
EXTENDS Mat4Walk, Mat4Proofs

WalkTypeOK ==
  /\ attitude \in Matrix
  /\ angle \in Int
  /\ axis \in Vector /\ (axis # <<0, 0, 0>> => AlongOneAxis(axis))

LEMMA WalkTypes == WalkSpec => []WalkTypeOK
<1>1. WalkInit => WalkTypeOK
  BY IdentityType DEF WalkInit, WalkTypeOK, Vector
<1>2. WalkTypeOK /\ [WalkNext]_walkVars => WalkTypeOK'
  <2> SUFFICES ASSUME WalkTypeOK, [WalkNext]_walkVars PROVE WalkTypeOK'
    OBVIOUS
  <2>1. ASSUME NEW a \in Angles, NEW v \in Axes, Turn(a, v) PROVE WalkTypeOK'
    <3>1. a \in Int /\ v \in Vector /\ AlongOneAxis(v)
      BY WalkAssumption
    <3> QED BY <2>1, <3>1, RotateType, MultiplyType DEF Turn, WalkTypeOK
  <2>2. CASE UNCHANGED walkVars
    BY <2>2 DEF walkVars, WalkTypeOK
  <2> QED BY <2>1, <2>2 DEF WalkNext
<1> QED BY <1>1, <1>2, PTL DEF WalkSpec

LEMMA ProbesAreColumns == Probes \subseteq Column
BY DEF Probes, Basis, Column, Index

(* mat4_rotate's literal is Rodrigues' formula for whatever axis, cosine   *)
(* and sine.                                                               *)
THEOREM FormulaAlways == WalkSpec => []RodriguesFormula
<1>1. WalkTypeOK => RodriguesFormula
  <2> SUFFICES ASSUME WalkTypeOK, NEW u \in SkewAxes \cup {Normalized(axis)},
                      NEW c \in Values, NEW s \in Values, NEW p \in Probes
               PROVE  Apply(RotationAbout(u, c, s), p) = Rodrigues(u, c, s, p)
    BY DEF RodriguesFormula
  <2>1. u \in Vector /\ c \in Int /\ s \in Int /\ p \in Column
    BY WalkAssumption, NormalizedType, ProbesAreColumns DEF WalkTypeOK
  <2> QED BY <2>1, LiteralIsRodrigues
<1> QED BY <1>1, WalkTypes, PTL

(* The rotation multiplied in last acts last.                              *)
THEOREM ComposesAlways == WalkSpec => []MultiplyComposes
<1>1. WalkTypeOK => MultiplyComposes
  BY ProductsCompose, RotateType, ProbesAreColumns DEF WalkTypeOK, MultiplyComposes
<1> QED BY <1>1, WalkTypes, PTL

(* Angles about one axis add up.                                           *)
THEOREM AnglesAlwaysAdd == WalkSpec => []AnglesAdd
<1>1. WalkTypeOK => AnglesAdd
  <2> SUFFICES ASSUME WalkTypeOK, axis # <<0, 0, 0>>, NEW b \in Angles
               PROVE  Multiply(Rotate(b, axis), Rotate(angle, axis)) = Rotate(angle + b, axis)
    BY DEF AnglesAdd
  <2>1. b \in Int /\ angle \in Int /\ axis \in Vector /\ AlongOneAxis(axis)
    BY WalkAssumption DEF WalkTypeOK
  <2> QED BY <2>1, AnglesAddUp
<1> QED BY <1>1, WalkTypes, PTL

-----------------------------------------------------------------------------
(***************************************************************************)
(* The right-angle poses.  A turn takes the direction of an axis to the    *)
(* direction of an axis, and a row of the product is, up to its sign, a    *)
(* row of the right factor.                                                *)
(***************************************************************************)
Along(k, sign) == [l \in Index |-> IF l = k THEN sign ELSE 0]

LEMMA TurnedDirection ==
  ASSUME NEW g \in Planes, NEW c, NEW t, OnCross(c, t), NEW k \in 0..2, NEW sign \in {-1, 1}
  PROVE  \E k2 \in 0..2, sign2 \in {-1, 1} :
           Apply(InPlane(g, c, t), Along(k, sign)) = Along(k2, sign2)
<1> DEFINE p == Along(k, sign)  turned == Apply(InPlane(g, c, t), p)
<1>1. p \in Column /\ \A l \in Index : p[l] = IF l = k THEN sign ELSE 0
  BY DEF Along, Column, Index
<1>2. c \in Int /\ t \in Int
  BY DEF OnCross
<1>3. /\ turned[g[1]] = c * p[g[1]] - t * p[g[2]]
      /\ turned[g[2]] = t * p[g[1]] + c * p[g[2]]
      /\ \A l \in Index \ {g[1], g[2]} : turned[l] = p[l]
  BY <1>1, <1>2, TurnedColumn
<1>4. turned = [l \in Index |-> turned[l]]
  BY DEF Apply
<1> HIDE DEF p, turned
<1>5. g[1] \in 0..2 /\ g[2] \in 0..2 /\ g[1] # g[2]
  BY DEF Planes
<1>6. ASSUME NEW k2 \in 0..2, NEW sign2 \in {-1, 1},
             \A l \in Index : turned[l] = IF l = k2 THEN sign2 ELSE 0
      PROVE  turned = Along(k2, sign2)
  BY <1>4, <1>6 DEF Along
<1>7. 0..2 \subseteq Index
  BY DEF Index
<1>8. CASE k # g[1] /\ k # g[2]
  <2>1. p[g[1]] = 0 /\ p[g[2]] = 0
    BY <1>1, <1>5, <1>7, <1>8
  <2>2. turned[g[1]] = 0 /\ turned[g[2]] = 0
    BY <1>2, <1>3, <2>1
  <2>3. \A l \in Index : turned[l] = IF l = k THEN sign ELSE 0
    BY <1>1, <1>3, <1>8, <2>2
  <2> QED BY <1>6, <2>3 DEF turned, p
<1>9. CASE k = g[1]
  <2>1. p[g[1]] = sign /\ p[g[2]] = 0
    BY <1>1, <1>5, <1>7, <1>9
  <2>2. turned[g[1]] = c * sign /\ turned[g[2]] = t * sign
    BY <1>2, <1>3, <2>1
  <2>3. \A l \in Index \ {g[1], g[2]} : turned[l] = 0
    BY <1>1, <1>3, <1>9
  <2>4. CASE t = 0
    <3>1. c * sign \in {-1, 1} /\ t * sign = 0
      BY <2>4 DEF OnCross
    <3>2. \A l \in Index : turned[l] = IF l = g[1] THEN c * sign ELSE 0
      BY <1>5, <2>2, <2>3, <3>1
    <3> QED BY <1>5, <1>6, <3>1, <3>2 DEF turned, p
  <2>5. CASE t # 0
    <3>1. t * sign \in {-1, 1} /\ c * sign = 0
      BY <2>5 DEF OnCross
    <3>2. \A l \in Index : turned[l] = IF l = g[2] THEN t * sign ELSE 0
      BY <1>5, <2>2, <2>3, <3>1
    <3> QED BY <1>5, <1>6, <3>1, <3>2 DEF turned, p
  <2> QED BY <2>4, <2>5
<1>10. CASE k = g[2]
  <2>1. p[g[1]] = 0 /\ p[g[2]] = sign
    BY <1>1, <1>5, <1>7, <1>10
  <2>2. turned[g[1]] = -(t * sign) /\ turned[g[2]] = c * sign
    BY <1>2, <1>3, <2>1
  <2>3. \A l \in Index \ {g[1], g[2]} : turned[l] = 0
    BY <1>1, <1>3, <1>10
  <2>4. CASE t = 0
    <3>1. c * sign \in {-1, 1} /\ -(t * sign) = 0
      BY <2>4 DEF OnCross
    <3>2. \A l \in Index : turned[l] = IF l = g[2] THEN c * sign ELSE 0
      BY <1>5, <2>2, <2>3, <3>1
    <3> QED BY <1>5, <1>6, <3>1, <3>2 DEF turned, p
  <2>5. CASE t # 0
    <3>1. -(t * sign) \in {-1, 1} /\ c * sign = 0
      BY <2>5 DEF OnCross
    <3>2. \A l \in Index : turned[l] = IF l = g[1] THEN -(t * sign) ELSE 0
      BY <1>5, <2>2, <2>3, <3>1
    <3> QED BY <1>5, <1>6, <3>1, <3>2 DEF turned, p
  <2> QED BY <2>4, <2>5
<1> QED BY <1>8, <1>9, <1>10

Directions(m) ==
  \A i \in 0..2 : \E k \in 0..2 : m[i] \in {Along(k, sign) : sign \in {-1, 1}}
RowsNonzero(m) == \A k \in 0..2 : \E i \in 0..2 : m[i][k] # 0
NoShift(m) == m[3] = Identity[3] /\ \A i \in 0..2 : m[i][3] = 0

LEMMA TurnKeepsDirections ==
  ASSUME NEW g \in Planes, NEW c, NEW t, OnCross(c, t), NEW m \in Matrix,
         Directions(m), RowsNonzero(m), NoShift(m)
  PROVE  LET r == Multiply(InPlane(g, c, t), m) IN Directions(r) /\ RowsNonzero(r) /\ NoShift(r)
<1> DEFINE r == Multiply(InPlane(g, c, t), m)
<1>1. /\ \A i \in Index : r[i] = Apply(InPlane(g, c, t), m[i]) /\ m[i] \in Column
      /\ \A i, k \in Index : m[i][k] \in Int
      /\ c \in Int /\ t \in Int
  BY ColumnsOfProduct DEF Matrix, Column, OnCross
<1> HIDE DEF r
<1>2. \A i \in Index : /\ r[i][g[1]] = c * m[i][g[1]] - t * m[i][g[2]]
                       /\ r[i][g[2]] = t * m[i][g[1]] + c * m[i][g[2]]
                       /\ \A k \in Index \ {g[1], g[2]} : r[i][k] = m[i][k]
  <2> TAKE i \in Index
  <2> QED BY <1>1, TurnedColumn
<1>3. g[1] \in 0..2 /\ g[2] \in 0..2 /\ g[1] # g[2]
  BY DEF Planes
<1>4. 0..2 \subseteq Index /\ 3 \in Index /\ 3 \notin 0..2
  BY DEF Index
<1>5. Directions(r)
  <2> SUFFICES ASSUME NEW i \in 0..2
               PROVE  \E k \in 0..2 : r[i] \in {Along(k, sign) : sign \in {-1, 1}}
    BY DEF Directions
  <2>1. PICK k \in 0..2, sign \in {-1, 1} : m[i] = Along(k, sign)
    BY DEF Directions
  <2>2. r[i] = Apply(InPlane(g, c, t), Along(k, sign))
    BY <1>1, <1>4, <2>1
  <2> QED BY <2>2, TurnedDirection
<1>6. RowsNonzero(r)
  <2> SUFFICES ASSUME NEW k \in 0..2 PROVE \E i \in 0..2 : r[i][k] # 0
    BY DEF RowsNonzero
  <2>1. CASE k # g[1] /\ k # g[2]
    BY <1>2, <1>4, <2>1 DEF RowsNonzero
  <2>2. CASE k \in {g[1], g[2]} /\ t = 0
    <3>1. PICK i \in 0..2 : m[i][k] # 0
      BY DEF RowsNonzero
    <3>2. r[i][k] = c * m[i][k] /\ m[i][k] \in Int
      BY <1>1, <1>2, <1>3, <1>4, <2>2
    <3>3. c \in {-1, 1}
      BY <2>2 DEF OnCross
    <3> QED BY <3>1, <3>2, <3>3
  <2>3. CASE k = g[1] /\ t # 0
    <3>1. PICK i \in 0..2 : m[i][g[2]] # 0
      BY <1>3 DEF RowsNonzero
    <3>2. c = 0 /\ t \in {-1, 1}
      BY <2>3 DEF OnCross
    <3>3. r[i][k] = c * m[i][g[1]] - t * m[i][g[2]] /\ m[i][g[1]] \in Int /\ m[i][g[2]] \in Int
      BY <1>1, <1>2, <1>3, <1>4, <2>3
    <3>4. r[i][k] = m[i][g[2]] \/ r[i][k] = -m[i][g[2]]
      BY <3>2, <3>3
    <3> QED BY <3>1, <3>3, <3>4
  <2>4. CASE k = g[2] /\ t # 0
    <3>1. PICK i \in 0..2 : m[i][g[1]] # 0
      BY <1>3 DEF RowsNonzero
    <3>2. c = 0 /\ t \in {-1, 1}
      BY <2>4 DEF OnCross
    <3>3. r[i][k] = t * m[i][g[1]] + c * m[i][g[2]] /\ m[i][g[1]] \in Int /\ m[i][g[2]] \in Int
      BY <1>1, <1>2, <1>3, <1>4, <2>4
    <3>4. r[i][k] = m[i][g[1]] \/ r[i][k] = -m[i][g[1]]
      BY <3>2, <3>3
    <3> QED BY <3>1, <3>3, <3>4
  <2> QED BY <2>1, <2>2, <2>3, <2>4
<1>7. NoShift(r)
  <2>1. \A i \in 0..2 : r[i][3] = 0
    BY <1>2, <1>3, <1>4 DEF NoShift
  <2>2. \A k \in Index : m[3][k] = IF k = 3 THEN 1 ELSE 0
    BY DEF NoShift, Identity, Index
  <2>3. r[3][g[1]] = 0 /\ r[3][g[2]] = 0
    <3>1. m[3][g[1]] = 0 /\ m[3][g[2]] = 0
      BY <1>3, <1>4, <2>2
    <3> QED BY <1>1, <1>2, <1>4, <3>1
  <2>4. \A k \in Index : r[3][k] = IF k = 3 THEN 1 ELSE 0
    BY <1>2, <1>3, <1>4, <2>2, <2>3
  <2>5. r[3] = [k \in Index |-> r[3][k]]
    BY <1>1, <1>4 DEF Apply
  <2>6. r[3] = [k \in Index |-> IF k = 3 THEN 1 ELSE 0]
    BY <2>4, <2>5
  <2>7. Identity[3] = [k \in Index |-> IF k = 3 THEN 1 ELSE 0]
    BY <1>4 DEF Identity
  <2> QED BY <2>1, <2>6, <2>7 DEF NoShift
<1> QED BY <1>5, <1>6, <1>7 DEF r

PoseInv ==
  Directions(attitude) /\ RowsNonzero(attitude) /\ NoShift(attitude) /\ Det3(attitude) = 1

LEMMA IdentityIsAPose ==
  Directions(Identity) /\ RowsNonzero(Identity) /\ NoShift(Identity) /\ Det3(Identity) = 1
<1>1. \A i \in 0..2 : Identity[i] = Along(i, 1)
  BY DEF Identity, Along, Index
<1>2. Directions(Identity)
  BY <1>1 DEF Directions
<1>3. \A i \in 0..2 : Identity[i][i] = 1 /\ Identity[i][3] = 0
  BY DEF Identity, Index
<1>4. Det3(Identity) = 1
  BY DEF Identity, Index, Det3
<1> QED BY <1>2, <1>3, <1>4 DEF RowsNonzero, NoShift

(* Whatever is multiplied in, the attitude is one of the 24 poses that     *)
(* right-angle turns can reach.                                            *)
THEOREM AlwaysAPose == WalkSpec => []OneOfTheCubePoses
<1>1. WalkInit => PoseInv
  BY IdentityIsAPose DEF WalkInit, PoseInv
<1>2. WalkTypeOK /\ PoseInv /\ [WalkNext]_walkVars => PoseInv'
  <2> SUFFICES ASSUME WalkTypeOK, PoseInv, [WalkNext]_walkVars PROVE PoseInv'
    OBVIOUS
  <2>1. ASSUME NEW a \in Angles, NEW v \in Axes, Turn(a, v) PROVE PoseInv'
    <3>1. a \in Int /\ v \in Vector /\ AlongOneAxis(v) /\ attitude \in Matrix
      BY WalkAssumption DEF WalkTypeOK
    <3>2. PICK g \in Planes, sign \in {-1, 1} : Rotate(a, v) = InPlane(g, Cos(a), sign * Sin(a))
      BY <3>1, CosSinType, NormalizedIsUnit, UnitRotation DEF Rotate
    <3>3. OnCross(Cos(a), sign * Sin(a))
      BY <3>1, CosSinOnCross, CrossFlips
    <3>4. attitude' = Multiply(InPlane(g, Cos(a), sign * Sin(a)), attitude)
      BY <2>1, <3>2 DEF Turn
    <3> QED BY <3>1, <3>3, <3>4, TurnKeepsDirections, TurnKeepsDet DEF PoseInv
  <2>2. CASE UNCHANGED walkVars
    BY <2>2 DEF walkVars, PoseInv
  <2> QED BY <2>1, <2>2 DEF WalkNext
<1>3. PoseInv => OneOfTheCubePoses
  BY DEF PoseInv, OneOfTheCubePoses, Directions, RowsNonzero, NoShift, Along
<1> QED BY <1>1, <1>2, <1>3, WalkTypes, PTL DEF WalkSpec
=============================================================================
