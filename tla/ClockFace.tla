------------------------------ MODULE ClockFace ------------------------------
(***************************************************************************)
(* The drawing half of modules/simple.c: simple_draw_clock paints one      *)
(* frame of the clock, twelve tick marks, two hands and the two sides of   *)
(* the base.  Every figure goes through the same OpenGL state: one buffer, *)
(* whose regions are overwritten by the next figure, and one model matrix. *)
(* The wall clock goes on, or is set, while a frame is being drawn.        *)
(*                                                                         *)
(* Data abstraction: an angle is a whole number of units of pi/21600, one  *)
(* second of the short hand, and coordinates are doubled, so that all are  *)
(* integers.  The rim of the base is kept in polar form.  The model matrix *)
(* is kept as the pair of its factors and multiplied out (with Mat4) where *)
(* the angle is a whole number of quarter turns.  Colours are left out.    *)
(***************************************************************************)
EXTENDS Mat4Laws, Sequences

CONSTANTS
  LocalTimes,  \* what localtime_r may return
  Poses        \* model matrices the movement may pass: its attitudes

ASSUME LocalTimeAssumption == LocalTimes \subseteq [hour : 0..23, min : 0..59, sec : 0..60]
ASSUME PoseAssumption      == Poses \subseteq Matrix

VARIABLES
  now,      \* the wall clock, in local time
  drawing,  \* simple_draw_clock is running
  lt,       \* lt: the time this frame shows
  pose,     \* model_matrix
  matrix,   \* OpenGL: the uniform modelMatrix
  buffer,   \* OpenGL: the writes to the buffer that are still there
  frame     \* OpenGL: what was drawn since glClear, in order

faceVars == <<now, drawing, lt, pose, matrix, buffer, frame>>

-----------------------------------------------------------------------------
(***************************************************************************)
(* The angles, clockwise from twelve.                                      *)
(***************************************************************************)
FullTurn    == 43200
QuarterTurn == 10800

\* Mutant: the first mark is that of one o'clock.
MarkAngleFromOne(i) == 3600 * (i + 1)

MarkAngle(i)  == 3600 * i
ShortAngle(t) == (t.hour * 60 + t.min) * 60 + t.sec
LongAngle(t)  == 12 * (t.min * 60 + t.sec)

(***************************************************************************)
(* rotate_z: the model matrix turned about (0, 0, -1).                     *)
(***************************************************************************)
\* Mutant: the face is turned about the screen's axis, not about its own.
MatrixSwapped(m) == Multiply(Rotate(m.angle \div QuarterTurn, <<0, 0, -1>>), m.pose)

RotatedZ(angle) == [pose |-> pose, angle |-> angle]
MatrixOf(m) == Multiply(m.pose, Rotate(m.angle \div QuarterTurn, <<0, 0, -1>>))

(***************************************************************************)
(* The figures.  A triangle is a triple of positions in the arrays.        *)
(***************************************************************************)
Fan(first, count) == {<<first, i, i + 1>> : i \in (first + 1)..(first + count - 2)}

MarkLength(i) == IF i = 0 THEN 9 ELSE IF i % 3 = 0 THEN 6 ELSE 4

TwoSlopes(k) == [i \in 1..(2 * k) |-> IF i <= k THEN <<1, 0, 2>> ELSE <<-1, 0, 2>>]

Mark(i) ==
  LET l == MarkLength(i) IN
  [vertices  |-> << <<2, 86 - 2 * l, 0>>, <<2, 86, 0>>, <<0, 86, 1>>, <<0, 86 - 2 * l, 1>>,
                    <<0, 86 - 2 * l, 1>>, <<0, 86, 1>>, <<-2, 86, 0>>, <<-2, 86 - 2 * l, 0>> >>,
   normals   |-> TwoSlopes(4),
   normalsAt |-> 256,
   triangles |-> Fan(1, 4) \cup Fan(5, 4)]

\* Mutant: the left half listed in the order of the right half, mirrored.
HandVerticesMirrored(length, height) ==
  << <<4, 0, 2 * height - 2>>, <<0, 2 * length, 2 * height>>, <<0, -4, 2 * height>>,
     <<-4, 0, 2 * height - 2>>, <<0, 2 * length, 2 * height>>, <<0, -4, 2 * height>> >>

HandVertices(length, height) ==
  << <<4, 0, 2 * height - 2>>, <<0, 2 * length, 2 * height>>, <<0, -4, 2 * height>>,
     <<0, -4, 2 * height>>, <<0, 2 * length, 2 * height>>, <<-4, 0, 2 * height - 2>> >>

Hand(length, height) ==
  [vertices  |-> HandVertices(length, height),
   normals   |-> TwoSlopes(3),
   normalsAt |-> 256,
   triangles |-> {<<1, 2, 3>>, <<4, 5, 6>>}]

ShortHand == Hand(25, 2)
LongHand  == Hand(40, 4)

(***************************************************************************)
(* The base: a fan around the centre, its rim given as <<radius, angle>>,  *)
(* the angle counted in N-ths of a turn.                                   *)
(***************************************************************************)
N == 36

\* Mutant: the normals are written where the other figures have theirs.
BaseLowNormals(back) ==
  [vertices  |-> <<<<0, 0>>>> \o [i \in 1..(N + 1) |-> <<90, IF back THEN i - 1 ELSE 1 - i>>],
   normals   |-> [i \in 1..(N + 2) |-> <<0, 0, IF back THEN -1 ELSE 1>>],
   normalsAt |-> 256,
   triangles |-> Fan(1, N + 2)]

Base(back) ==
  [vertices  |-> <<<<0, 0>>>> \o [i \in 1..(N + 1) |-> <<90, IF back THEN i - 1 ELSE 1 - i>>],
   normals   |-> [i \in 1..(N + 2) |-> <<0, 0, IF back THEN -1 ELSE 1>>],
   normalsAt |-> 2048,
   triangles |-> Fan(1, N + 2)]

-----------------------------------------------------------------------------
(***************************************************************************)
(* glBufferSubData destroys what it overlaps; out of the bounds given by   *)
(* init_buffers it is an error and writes nothing.                         *)
(***************************************************************************)
BufferSize == 8192

Written(b, at, size, data) ==
  IF at + size > BufferSize THEN b
  ELSE {r \in b : r.at + r.size <= at \/ at + size <= r.at}
         \cup {[at |-> at, size |-> size, data |-> data]}

ReadAt(b, at) == {r.data : r \in {w \in b : w.at = at}}

(***************************************************************************)
(* A figure f drawn under the model matrix m: both arrays are written, the *)
(* attribute pointers set to them, and glDrawArrays reads through these.   *)
(***************************************************************************)
Paint(f, m) ==
  /\ matrix' = m
  /\ buffer' = Written(Written(buffer, 0, 16 * Len(f.vertices), f.vertices),
                       f.normalsAt, 12 * Len(f.normals), f.normals)
  /\ frame' = Append(frame, [matrix    |-> matrix',
                             vertices  |-> ReadAt(buffer', 0),
                             normals   |-> ReadAt(buffer', f.normalsAt),
                             triangles |-> f.triangles])

Init ==
  /\ now \in LocalTimes /\ lt = now
  /\ drawing = FALSE
  /\ pose = Identity
  /\ matrix = [pose |-> Identity, angle |-> 0]
  /\ buffer = {} /\ frame = <<>>

(***************************************************************************)
(* simple_draw_clock: the time is read once, before the frame is cleared.  *)
(***************************************************************************)
BeginFrame(p) ==
  /\ ~drawing
  /\ drawing' = TRUE
  /\ lt' = now
  /\ pose' = p
  /\ frame' = <<>>
  /\ UNCHANGED <<now, matrix, buffer>>

DrawTickMark ==
  /\ drawing /\ Len(frame) < 12
  /\ Paint(Mark(Len(frame)), RotatedZ(MarkAngle(Len(frame))))
  /\ UNCHANGED <<now, drawing, lt, pose>>

DrawShortHand ==
  /\ drawing /\ Len(frame) = 12
  /\ Paint(ShortHand, RotatedZ(ShortAngle(lt)))
  /\ UNCHANGED <<now, drawing, lt, pose>>

\* Mutant: the time is read again for the second hand.
DrawLongHandNow ==
  /\ drawing /\ Len(frame) = 13
  /\ Paint(LongHand, RotatedZ(LongAngle(now)))
  /\ UNCHANGED <<now, drawing, lt, pose>>

DrawLongHand ==
  /\ drawing /\ Len(frame) = 13
  /\ Paint(LongHand, RotatedZ(LongAngle(lt)))
  /\ UNCHANGED <<now, drawing, lt, pose>>

DrawBase(back) ==
  /\ drawing /\ Len(frame) = (IF back THEN 15 ELSE 14)
  /\ Paint(Base(back), [pose |-> pose, angle |-> 0])
  /\ drawing' = ~back
  /\ UNCHANGED <<now, lt, pose>>

\* The wall clock moves on, or is set (external).
ClockMoves(t) ==
  /\ now' = t
  /\ UNCHANGED <<drawing, lt, pose, matrix, buffer, frame>>

Next ==
  \/ \E p \in Poses : BeginFrame(p)
  \/ DrawTickMark \/ DrawShortHand \/ DrawLongHand
  \/ DrawBase(FALSE) \/ DrawBase(TRUE)
  \/ \E t \in LocalTimes : ClockMoves(t)

Spec == Init /\ [][Next]_faceVars

-----------------------------------------------------------------------------
(***************************************************************************)
(* Properties.                                                             *)
(***************************************************************************)
Placement == [pose : Matrix, angle : Nat]

TypeOK ==
  /\ {now, lt} \subseteq LocalTimes
  /\ drawing \in BOOLEAN
  /\ pose \in Matrix /\ matrix \in Placement
  /\ Len(frame) \in 0..(IF drawing THEN 15 ELSE 16)
  /\ \A k \in 1..Len(frame) : frame[k].matrix \in Placement

(* The two hands of a frame always show one and the same instant: the long *)
(* one goes around twelve times as fast.                                   *)
HandsAgree ==
  Len(frame) >= 14 =>
    (12 * frame[13].matrix.angle - frame[14].matrix.angle) % FullTurn = 0

(* At the full hour the short hand lies on the mark of that hour, counted  *)
(* from the longest, and every five minutes the long hand lies on a mark.  *)
HandsMeetMarks ==
  Len(frame) >= 14 /\ lt.sec = 0 =>
    /\ lt.min = 0 =>
         frame[13].matrix.angle % FullTurn = frame[1 + (lt.hour % 12)].matrix.angle
    /\ lt.min % 5 = 0 =>
         frame[14].matrix.angle % FullTurn = frame[1 + (lt.min \div 5)].matrix.angle

(* No figure is spoiled by another that went through the same buffer and   *)
(* the same matrix: each is drawn from its own arrays, with the pose of    *)
(* this frame, and the base does not turn with the hands.                  *)
FigureAt(k) ==
  IF k <= 12 THEN Mark(k - 1) ELSE IF k = 13 THEN ShortHand ELSE IF k = 14 THEN LongHand
  ELSE Base(k = 16)
FiguresIntact ==
  \A k \in 1..Len(frame) :
    /\ frame[k].vertices = {FigureAt(k).vertices}
    /\ frame[k].normals = {FigureAt(k).normals}
    /\ frame[k].matrix.pose = pose
    /\ k > 14 => frame[k].matrix.angle = 0

(* GL_CULL_FACE is on: a triangle wound against its normals would vanish,  *)
(* and one of the wrong slope would be lit from the wrong side.  Every     *)
(* triangle is wound counterclockwise as seen from where its normals point.*)
Minus(p, q) == <<p[1] - q[1], p[2] - q[2], p[3] - q[3]>>
Cross(u, v) == <<u[2] * v[3] - u[3] * v[2], u[3] * v[1] - u[1] * v[3], u[1] * v[2] - u[2] * v[1]>>
Along(v, n) == Cross(v, n) = <<0, 0, 0>> /\ v[1] * n[1] + v[2] * n[2] + v[3] * n[3] > 0
FlatFacing(p, q, r, n) == Along(Cross(Minus(q, p), Minus(r, p)), n)
\* From the centre: the sine of the angle from q to r, both clockwise.
RimFacing(q, r, n) ==
  LET ahead == (q[2] - r[2]) % N
  IN IF n[3] > 0 THEN 0 < ahead /\ 2 * ahead < N ELSE ahead > 0 /\ 2 * ahead > N
Facing(v, n, t) ==
  IF Len(v[1]) = 3 THEN \A i \in 1..3 : FlatFacing(v[t[1]], v[t[2]], v[t[3]], n[t[i]])
  ELSE RimFacing(v[t[2]], v[t[3]], n[t[1]])
FacesShowTheirNormals ==
  \A k \in 1..Len(frame) : \A v \in frame[k].vertices, n \in frame[k].normals :
    \A t \in frame[k].triangles : Facing(v, n, t)

(* Seen from the front, whatever the pose, hands and marks go clockwise:   *)
(* after q quarter turns they point up, right, down and left.              *)
Compass == <<<<0, 1>>, <<1, 0>>, <<0, -1>>, <<-1, 0>>>>
Point(x, y) == [i \in Index |-> IF i = 0 THEN x ELSE IF i = 1 THEN y ELSE IF i = 2 THEN 0 ELSE 1]
ClockwiseFromFront ==
  \A k \in 1..Len(frame) :
    LET m == frame[k].matrix
        toward == Compass[1 + ((m.angle \div QuarterTurn) % 4)]
    IN m.angle % QuarterTurn = 0 =>
         Apply(MatrixOf(m), Point(0, 1)) = Apply(m.pose, Point(toward[1], toward[2]))
=============================================================================
