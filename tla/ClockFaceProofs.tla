--------------------------- MODULE ClockFaceProofs ---------------------------
(***************************************************************************)
(* Theorems about ClockFace, for every set of local times and of poses.    *)
(***************************************************************************)
EXTENDS ClockFace, Mat4Proofs, SequenceTheorems

(***************************************************************************)
(* frame is a sequence, of entries of any kind.                            *)
(***************************************************************************)
IsSeq(s) == Len(s) \in Nat /\ s = [k \in 1..Len(s) |-> s[k]]

LEMMA AppendIsSeq ==
  ASSUME NEW s, IsSeq(s), NEW e
  PROVE  /\ IsSeq(Append(s, e))
         /\ Len(Append(s, e)) = Len(s) + 1
         /\ Append(s, e)[Len(s) + 1] = e
         /\ \A k \in 1..Len(s) : Append(s, e)[k] = s[k]
<1> DEFINE S == {s[k] : k \in 1..Len(s)} \cup {e}
<1>1. s \in Seq(S)
  <2>1. s \in [1..Len(s) -> S]
    BY DEF IsSeq
  <2> QED BY <2>1 DEF IsSeq
<1>2. e \in S
  OBVIOUS
<1> HIDE DEF S
<1>3. Append(s, e) \in Seq(S)
  BY <1>1, <1>2
<1>4. IsSeq(Append(s, e))
  <2>1. /\ Len(Append(s, e)) \in Nat
        /\ Append(s, e) \in [1..Len(Append(s, e)) -> S]
    BY <1>3, LenProperties
  <2> QED BY <2>1 DEF IsSeq
<1> QED BY <1>1, <1>2, <1>4

(***************************************************************************)
(* A figure fits if its two arrays lie in the buffer, one after the other. *)
(***************************************************************************)
Fits(f) ==
  /\ Len(f.vertices) \in Nat \ {0} /\ Len(f.normals) \in Nat \ {0}
  /\ f.normalsAt \in Nat
  /\ 16 * Len(f.vertices) <= f.normalsAt
  /\ f.normalsAt + 12 * Len(f.normals) <= BufferSize

Regions(b) == \A r \in b : r.at \in Nat /\ r.size \in Nat \ {0}

LEMMA WrittenIsThere ==
  ASSUME NEW b, Regions(b), NEW at \in Nat, NEW size \in Nat \ {0}, NEW data,
         at + size <= BufferSize
  PROVE  /\ Regions(Written(b, at, size, data))
         /\ ReadAt(Written(b, at, size, data), at) = {data}
<1> DEFINE region == [at |-> at, size |-> size, data |-> data]
           kept   == {r \in b : r.at + r.size <= at \/ at + size <= r.at}
<1>1. Written(b, at, size, data) = kept \cup {region}
  BY DEF Written, BufferSize
<1>2. \A r \in kept : r.at # at
  BY DEF Regions
<1>3. region.at = at /\ region.size = size /\ region.data = data
  OBVIOUS
<1>4. Regions(kept \cup {region})
  BY <1>3 DEF Regions
<1> HIDE DEF region, kept
<1>5. {w \in kept \cup {region} : w.at = at} = {region}
  BY <1>2, <1>3
<1>6. ReadAt(kept \cup {region}, at) = {data}
  BY <1>3, <1>5 DEF ReadAt
<1> QED BY <1>1, <1>4, <1>6

LEMMA WrittenElsewhere ==
  ASSUME NEW b, Regions(b), NEW at \in Nat, NEW size \in Nat \ {0}, NEW data,
         \A r \in b : r.at = 0 => r.at + r.size <= at,
         0 # at, at + size <= BufferSize
  PROVE  ReadAt(Written(b, at, size, data), 0) = ReadAt(b, 0)
<1> DEFINE region == [at |-> at, size |-> size, data |-> data]
           kept   == {r \in b : r.at + r.size <= at \/ at + size <= r.at}
<1>1. Written(b, at, size, data) = kept \cup {region}
  BY DEF Written, BufferSize
<1>2. region.at # 0
  OBVIOUS
<1> HIDE DEF region
<1>3. {w \in kept \cup {region} : w.at = 0} = {w \in b : w.at = 0}
  BY <1>2
<1> QED BY <1>1, <1>3 DEF ReadAt

LEMMA FirstRegion ==
  ASSUME NEW b, Regions(b), NEW size \in Nat \ {0}, NEW data, size <= BufferSize
  PROVE  \A r \in Written(b, 0, size, data) : r.at = 0 => r.at + r.size = size
<1>1. SUFFICES ASSUME NEW r \in Written(b, 0, size, data), r.at = 0
               PROVE  r.at + r.size = size
  OBVIOUS
<1>2. r \notin {q \in b : q.at + q.size <= 0 \/ 0 + size <= q.at}
  BY <1>1 DEF Regions
<1>3. r = [at |-> 0, size |-> size, data |-> data]
  BY <1>1, <1>2 DEF Written, BufferSize
<1> QED BY <1>3

(***************************************************************************)
(* What a figure leaves in the frame, if it fits: its own two arrays.      *)
(***************************************************************************)
Entry(f, m) ==
  [matrix |-> m, vertices |-> {f.vertices}, normals |-> {f.normals}, triangles |-> f.triangles]

LEMMA PaintAppends ==
  ASSUME Regions(buffer), NEW f, NEW m, Fits(f), Paint(f, m)
  PROVE  /\ Regions(buffer')
         /\ matrix' = m
         /\ frame' = Append(frame, Entry(f, m))
<1> DEFINE n == 16 * Len(f.vertices)
           b == Written(buffer, 0, n, f.vertices)
<1>1. /\ n \in Nat \ {0} /\ 0 + n <= BufferSize /\ f.normalsAt \in Nat
      /\ n <= f.normalsAt
      /\ 12 * Len(f.normals) \in Nat \ {0}
      /\ f.normalsAt + 12 * Len(f.normals) <= BufferSize
  BY DEF Fits, BufferSize
<1>2. buffer' = Written(b, f.normalsAt, 12 * Len(f.normals), f.normals)
  BY DEF Paint
<1> HIDE DEF n
<1>3. Regions(b) /\ ReadAt(b, 0) = {f.vertices}
  BY <1>1, WrittenIsThere
<1>4. \A r \in b : r.at = 0 => r.at + r.size <= f.normalsAt
  BY <1>1, FirstRegion
<1> HIDE DEF b
<1>5. Regions(buffer') /\ ReadAt(buffer', f.normalsAt) = {f.normals}
  BY <1>1, <1>2, <1>3, WrittenIsThere
<1>6. ReadAt(buffer', 0) = {f.vertices}
  <2> DEFINE size == 12 * Len(f.normals)
  <2>1. size \in Nat \ {0} /\ 0 # f.normalsAt /\ f.normalsAt + size <= BufferSize
    BY <1>1
  <2>2. buffer' = Written(b, f.normalsAt, size, f.normals)
    BY <1>2
  <2> HIDE DEF size
  <2>3. ReadAt(Written(b, f.normalsAt, size, f.normals), 0) = ReadAt(b, 0)
    BY <1>1, <1>3, <1>4, <2>1, WrittenElsewhere
  <2> QED BY <1>3, <2>2, <2>3
<1> QED BY <1>5, <1>6 DEF Paint, Entry

(***************************************************************************)
(* Every figure simple_draw_clock draws fits: also the base, whose rim is  *)
(* why its normals are elsewhere.                                          *)
(***************************************************************************)
LEMMA SlopesLength ==
  ASSUME NEW k \in Nat
  PROVE  Len(TwoSlopes(k)) = 2 * k
BY DEF TwoSlopes

LEMMA MarkFits == ASSUME NEW i PROVE Fits(Mark(i))
<1>1. Len(Mark(i).vertices) = 8 /\ Mark(i).normalsAt = 256
  BY DEF Mark
<1>2. Mark(i).normals = TwoSlopes(4) /\ Len(TwoSlopes(4)) = 2 * 4
  BY SlopesLength DEF Mark
<1>3. Len(Mark(i).normals) = 8
  BY <1>2
<1> QED BY <1>1, <1>3 DEF Fits, BufferSize

LEMMA HandFits == ASSUME NEW l, NEW h PROVE Fits(Hand(l, h))
<1>1. Len(Hand(l, h).vertices) = 6 /\ Hand(l, h).normalsAt = 256
  BY DEF Hand, HandVertices
<1>2. Hand(l, h).normals = TwoSlopes(3) /\ Len(TwoSlopes(3)) = 2 * 3
  BY SlopesLength DEF Hand
<1>3. Len(Hand(l, h).normals) = 6
  BY <1>2
<1> QED BY <1>1, <1>3 DEF Fits, BufferSize

LEMMA BaseFits == ASSUME NEW back \in BOOLEAN PROVE Fits(Base(back))
<1> DEFINE rim == [i \in 1..(N + 1) |-> <<90, IF back THEN i - 1 ELSE 1 - i>>]
<1>1. <<<<0, 0>>>> \in Seq(Int \X Int) /\ Len(<<<<0, 0>>>>) = 1
  OBVIOUS
<1>2. rim \in Seq(Int \X Int) /\ Len(rim) = 37
  BY DEF N
<1>3. Base(back).vertices = <<<<0, 0>>>> \o rim
  BY DEF Base
<1> HIDE DEF rim
<1>4. Len(<<<<0, 0>>>> \o rim) = Len(<<<<0, 0>>>>) + Len(rim)
  BY <1>1, <1>2, ConcatProperties
<1>5. Len(Base(back).vertices) = 38
  BY <1>1, <1>2, <1>3, <1>4
<1>6. Len(Base(back).normals) = 38 /\ Base(back).normalsAt = 2048
  BY DEF Base, N
<1> QED BY <1>5, <1>6 DEF Fits, BufferSize

-----------------------------------------------------------------------------
(***************************************************************************)
(* The inductive invariant: of the frame under way, what has been drawn so *)
(* far is known completely.                                                *)
(***************************************************************************)
AngleAt(k) ==
  IF k <= 12 THEN MarkAngle(k - 1) ELSE IF k = 13 THEN ShortAngle(lt)
  ELSE IF k = 14 THEN LongAngle(lt) ELSE 0

PlaceAt(k) == [pose |-> pose, angle |-> AngleAt(k)]

Drawn(k) == frame[k] = Entry(FigureAt(k), PlaceAt(k))

FrameInv ==
  /\ now \in LocalTimes /\ lt \in LocalTimes /\ drawing \in BOOLEAN
  /\ pose \in Matrix /\ matrix \in Placement
  /\ Regions(buffer)
  /\ IsSeq(frame) /\ Len(frame) \in 0..16 /\ (drawing => Len(frame) # 16)
  /\ \A k \in 1..Len(frame) : Drawn(k)

LEMMA AngleType ==
  ASSUME NEW t \in LocalTimes
  PROVE  /\ ShortAngle(t) \in Nat /\ LongAngle(t) \in Nat
         /\ t.hour \in 0..23 /\ t.min \in 0..59 /\ t.sec \in 0..60
         /\ (12 * ShortAngle(t) - LongAngle(t)) % FullTurn = 0
<1>1. t.hour \in 0..23 /\ t.min \in 0..59 /\ t.sec \in 0..60
  BY LocalTimeAssumption
<1>2. PICK h \in 0..23, m \in 0..59, s \in 0..60 : h = t.hour /\ m = t.min /\ s = t.sec
  BY <1>1
<1>3. /\ (h * 60 + m) * 60 + s \in Nat /\ 12 * (m * 60 + s) \in Nat
      /\ 12 * ((h * 60 + m) * 60 + s) - 12 * (m * 60 + s) = 43200 * h
      /\ (43200 * h) % 43200 = 0
  OBVIOUS
<1>4. ShortAngle(t) = (h * 60 + m) * 60 + s /\ LongAngle(t) = 12 * (m * 60 + s)
  BY <1>2 DEF ShortAngle, LongAngle
<1> QED BY <1>1, <1>3, <1>4 DEF FullTurn

LEMMA PlaceType ==
  ASSUME FrameInv, NEW k \in 1..16
  PROVE  PlaceAt(k) \in Placement
<1>1. AngleAt(k) \in Nat
  BY AngleType DEF FrameInv, AngleAt, MarkAngle
<1> QED BY <1>1 DEF FrameInv, PlaceAt, Placement

LEMMA FigureFits ==
  ASSUME NEW k \in 1..16
  PROVE  Fits(FigureAt(k))
BY MarkFits, HandFits, BaseFits DEF FigureAt, ShortHand, LongHand

LEMMA PaintNext ==
  ASSUME FrameInv, drawing, NEW k, k = Len(frame) + 1,
         Paint(FigureAt(k), PlaceAt(k)), UNCHANGED <<now, lt, pose>>,
         drawing' \in BOOLEAN, drawing' => k # 16
  PROVE  FrameInv'
<1>0. IsSeq(frame) /\ Len(frame) \in 0..16 /\ Len(frame) # 16
  BY DEF FrameInv
<1>1. k \in 1..16 /\ IsSeq(frame) /\ Len(frame) \in Nat
  <2>1. PICK l \in 0..16 : l = Len(frame) /\ l # 16
    BY <1>0
  <2>2. l + 1 \in 1..16 /\ l \in Nat
    BY <2>1
  <2> QED BY <1>0, <2>1, <2>2
<1>2. /\ Regions(buffer')
      /\ matrix' = PlaceAt(k)
      /\ frame' = Append(frame, Entry(FigureAt(k), PlaceAt(k)))
  BY <1>1, FigureFits, PaintAppends DEF FrameInv
<1>3. /\ IsSeq(frame') /\ Len(frame') = k
      /\ frame'[k] = Entry(FigureAt(k), PlaceAt(k))
      /\ \A j \in 1..Len(frame) : frame'[j] = frame[j]
  BY <1>1, <1>2, AppendIsSeq
<1>4. \A j : PlaceAt(j)' = PlaceAt(j)
  BY DEF PlaceAt, AngleAt
<1>5. \A j \in 1..Len(frame') : Drawn(j)'
  <2>1. ASSUME NEW j \in 1..Len(frame) PROVE Drawn(j)'
    BY <1>3, <1>4 DEF FrameInv, Drawn
  <2>2. Drawn(k)'
    BY <1>3, <1>4 DEF Drawn
  <2> QED BY <1>1, <1>3, <2>1, <2>2
<1>6. matrix' \in Placement
  BY <1>1, <1>2, PlaceType
<1>7. drawing' \in BOOLEAN /\ Len(frame') \in 0..16 /\ (drawing' => Len(frame') # 16)
  BY <1>1, <1>3
<1> QED BY <1>2, <1>3, <1>5, <1>6, <1>7 DEF FrameInv

LEMMA EmptyIsSeq == IsSeq(<<>>) /\ Len(<<>>) = 0
BY DEF IsSeq

LEMMA FrameInit == Init => FrameInv
<1> SUFFICES ASSUME Init PROVE FrameInv
  OBVIOUS
<1>1. matrix \in Placement /\ pose \in Matrix
  BY IdentityType DEF Init, Placement
<1>2. Regions(buffer)
  BY DEF Init, Regions
<1>3. IsSeq(frame) /\ Len(frame) = 0 /\ lt = now /\ now \in LocalTimes
  BY EmptyIsSeq DEF Init
<1>4. drawing \in BOOLEAN /\ ~drawing
  BY DEF Init
<1>5. Len(frame) \in 0..16 /\ \A k \in 1..Len(frame) : Drawn(k)
  BY <1>3
<1> QED BY <1>1, <1>2, <1>3, <1>4, <1>5 DEF FrameInv

LEMMA FrameStep == FrameInv /\ [Next]_faceVars => FrameInv'
<1> SUFFICES ASSUME FrameInv, [Next]_faceVars PROVE FrameInv'
  OBVIOUS
<1> USE DEF FrameInv
<1>1. ASSUME NEW p \in Poses, BeginFrame(p) PROVE FrameInv'
  BY <1>1, PoseAssumption, EmptyIsSeq DEF BeginFrame
<1>2. CASE DrawTickMark
  <2>1. /\ FigureAt(Len(frame) + 1) = Mark(Len(frame))
        /\ PlaceAt(Len(frame) + 1) = RotatedZ(MarkAngle(Len(frame)))
    BY <1>2 DEF DrawTickMark, FigureAt, PlaceAt, AngleAt, RotatedZ
  <2>2. drawing' \in BOOLEAN /\ Len(frame) + 1 # 16
    BY <1>2 DEF DrawTickMark
  <2> QED BY <1>2, <2>1, <2>2, PaintNext DEF DrawTickMark
<1>3. CASE DrawShortHand
  <2>1. /\ FigureAt(Len(frame) + 1) = ShortHand
        /\ PlaceAt(Len(frame) + 1) = RotatedZ(ShortAngle(lt))
    BY <1>3 DEF DrawShortHand, FigureAt, PlaceAt, AngleAt, RotatedZ
  <2>2. drawing' \in BOOLEAN /\ Len(frame) + 1 # 16
    BY <1>3 DEF DrawShortHand
  <2> QED BY <1>3, <2>1, <2>2, PaintNext DEF DrawShortHand
<1>4. CASE DrawLongHand
  <2>1. /\ FigureAt(Len(frame) + 1) = LongHand
        /\ PlaceAt(Len(frame) + 1) = RotatedZ(LongAngle(lt))
    BY <1>4 DEF DrawLongHand, FigureAt, PlaceAt, AngleAt, RotatedZ
  <2>2. drawing' \in BOOLEAN /\ Len(frame) + 1 # 16
    BY <1>4 DEF DrawLongHand
  <2> QED BY <1>4, <2>1, <2>2, PaintNext DEF DrawLongHand
<1>5. ASSUME NEW back \in BOOLEAN, DrawBase(back) PROVE FrameInv'
  <2>1. /\ FigureAt(Len(frame) + 1) = Base(back)
        /\ PlaceAt(Len(frame) + 1) = [pose |-> pose, angle |-> 0]
    BY <1>5 DEF DrawBase, FigureAt, PlaceAt, AngleAt
  <2>2. drawing' \in BOOLEAN /\ (drawing' => Len(frame) + 1 # 16)
    <3>1. CASE back
      BY <1>5, <3>1 DEF DrawBase
    <3>2. CASE ~back
      <4>1. Len(frame) = 14
        BY <1>5, <3>2 DEF DrawBase
      <4>2. drawing' \in BOOLEAN
        BY <1>5, <3>2 DEF DrawBase
      <4> QED BY <4>1, <4>2
    <3> QED BY <3>1, <3>2
  <2> QED BY <1>5, <2>1, <2>2, PaintNext DEF DrawBase
<1>6. ASSUME NEW t \in LocalTimes, ClockMoves(t) PROVE FrameInv'
  BY <1>6 DEF ClockMoves, Drawn, PlaceAt, AngleAt
<1>7. CASE UNCHANGED faceVars
  BY <1>7 DEF faceVars, Drawn, PlaceAt, AngleAt
<1> QED BY <1>1, <1>2, <1>3, <1>4, <1>5, <1>6, <1>7 DEF Next

(* Spec keeps the invariant.                                               *)
THEOREM FrameKnown == Spec => []FrameInv
BY FrameInit, FrameStep, PTL DEF Spec

-----------------------------------------------------------------------------
(***************************************************************************)
(* What the invariant says of a frame under way.                           *)
(***************************************************************************)
LEMMA DrawnAngle ==
  ASSUME FrameInv, NEW k \in 1..Len(frame)
  PROVE  /\ frame[k].matrix = PlaceAt(k)
         /\ frame[k].matrix.pose = pose /\ frame[k].matrix.angle = AngleAt(k)
         /\ frame[k].vertices = {FigureAt(k).vertices}
         /\ frame[k].normals = {FigureAt(k).normals}
         /\ frame[k].triangles = FigureAt(k).triangles
         /\ k \in 1..16 /\ lt \in LocalTimes
<1>1. Drawn(k) /\ lt \in LocalTimes
  BY DEF FrameInv
<1>2. Len(frame) \in 0..16
  BY DEF FrameInv
<1>3. k \in 1..16
  <2>1. PICK l \in 0..16 : l = Len(frame)
    BY <1>2
  <2>2. k \in 1..l
    BY <2>1
  <2> QED BY <2>2
<1> QED BY <1>1, <1>3 DEF Drawn, Entry, PlaceAt

LEMMA FrameTypes == FrameInv => TypeOK
<1> SUFFICES ASSUME FrameInv PROVE TypeOK
  OBVIOUS
<1>1. Len(frame) \in 0..(IF drawing THEN 15 ELSE 16)
  <2>1. Len(frame) \in 0..16
    BY DEF FrameInv
  <2>2. CASE drawing
    <3>1. Len(frame) # 16
      BY <2>2 DEF FrameInv
    <3>2. Len(frame) \in 0..15
      BY <2>1, <3>1
    <3> QED BY <2>2, <3>2
  <2>3. CASE ~drawing
    BY <2>1, <2>3
  <2> QED BY <2>2, <2>3
<1>2. \A k \in 1..Len(frame) : frame[k].matrix \in Placement
  BY DrawnAngle, PlaceType
<1> QED BY <1>1, <1>2 DEF FrameInv, TypeOK

(* The wall clock may be set while a frame is drawn: both hands still show *)
(* the one instant that was read at its beginning.                         *)
LEMMA HandsFromOneTime == FrameInv => HandsAgree
<1> SUFFICES ASSUME FrameInv, Len(frame) >= 14
             PROVE  (12 * frame[13].matrix.angle - frame[14].matrix.angle) % FullTurn = 0
  BY DEF HandsAgree
<1>1. 13 \in 1..Len(frame) /\ 14 \in 1..Len(frame)
  BY DEF FrameInv
<1>2. /\ frame[13].matrix.angle = ShortAngle(lt)
      /\ frame[14].matrix.angle = LongAngle(lt)
      /\ lt \in LocalTimes
  BY <1>1, DrawnAngle DEF AngleAt
<1> QED BY <1>2, AngleType

LEMMA HandsOnMarks == FrameInv => HandsMeetMarks
<1> SUFFICES ASSUME FrameInv, Len(frame) >= 14, lt.sec = 0
             PROVE  /\ lt.min = 0 =>
                         frame[13].matrix.angle % FullTurn = frame[1 + (lt.hour % 12)].matrix.angle
                    /\ lt.min % 5 = 0 =>
                         frame[14].matrix.angle % FullTurn = frame[1 + (lt.min \div 5)].matrix.angle
  BY DEF HandsMeetMarks
<1>1. lt \in LocalTimes /\ \A k \in 1..14 : k \in 1..Len(frame)
  BY DEF FrameInv
<1>2. PICK h \in 0..23, m \in 0..59 : h = lt.hour /\ m = lt.min
  BY <1>1, AngleType
<1>3. /\ frame[13].matrix.angle = h * 3600 + m * 60
      /\ frame[14].matrix.angle = 12 * m * 60
  <2>1. frame[13].matrix.angle = ShortAngle(lt) /\ frame[14].matrix.angle = LongAngle(lt)
    BY <1>1, DrawnAngle DEF AngleAt
  <2>2. ShortAngle(lt) = (h * 60 + m) * 60 + 0 /\ LongAngle(lt) = 12 * (m * 60 + 0)
    BY <1>2 DEF ShortAngle, LongAngle
  <2> QED BY <2>1, <2>2
<1> DEFINE OnMark(i) == frame[1 + i].matrix.angle = 3600 * i
<1>4. \A i \in 0..11 : OnMark(i)
  <2> TAKE i \in 0..11
  <2>1. 1 + i \in 1..Len(frame) /\ 1 + i <= 12 /\ (1 + i) - 1 = i
    BY <1>1
  <2> QED BY <2>1, DrawnAngle DEF AngleAt, MarkAngle
<1> HIDE DEF OnMark
<1>5. ASSUME m = 0 PROVE frame[13].matrix.angle % FullTurn = frame[1 + (h % 12)].matrix.angle
  <2>1. h % 12 \in 0..11 /\ (h * 3600) % 43200 = 3600 * (h % 12)
    OBVIOUS
  <2>2. frame[1 + (h % 12)].matrix.angle = 3600 * (h % 12)
    <3>1. PICK j \in 0..11 : j = h % 12
      BY <2>1
    <3>2. OnMark(j)
      BY <1>4
    <3> QED BY <3>1, <3>2 DEF OnMark
  <2>3. frame[13].matrix.angle = h * 3600
    BY <1>3, <1>5
  <2> QED BY <2>1, <2>2, <2>3 DEF FullTurn
<1>6. ASSUME m % 5 = 0 PROVE frame[14].matrix.angle % FullTurn = frame[1 + (m \div 5)].matrix.angle
  <2>1. m \div 5 \in 0..11 /\ (12 * m * 60) % 43200 = 3600 * (m \div 5)
    BY <1>6
  <2>2. frame[1 + (m \div 5)].matrix.angle = 3600 * (m \div 5)
    <3>1. PICK j \in 0..11 : j = m \div 5
      BY <2>1
    <3>2. OnMark(j)
      BY <1>4
    <3> QED BY <3>1, <3>2 DEF OnMark
  <2> QED BY <1>3, <2>1, <2>2 DEF FullTurn
<1> QED BY <1>2, <1>5, <1>6

LEMMA FiguresApart == FrameInv => FiguresIntact
<1> SUFFICES ASSUME FrameInv, NEW k \in 1..Len(frame)
             PROVE  /\ frame[k].vertices = {FigureAt(k).vertices}
                    /\ frame[k].normals = {FigureAt(k).normals}
                    /\ frame[k].matrix.pose = pose
                    /\ k > 14 => frame[k].matrix.angle = 0
  BY DEF FiguresIntact
<1> QED BY DrawnAngle DEF AngleAt

(* Type correctness of the drawing code.                                   *)
THEOREM FaceTypeCorrect == Spec => []TypeOK
BY FrameKnown, FrameTypes, PTL

(* In every frame, for every setting of the wall clock while it is drawn,  *)
(* the two hands show one instant.                                         *)
THEOREM HandsAlwaysAgree == Spec => []HandsAgree
BY FrameKnown, HandsFromOneTime, PTL

(* At the full hour the short hand lies on its mark, every five minutes    *)
(* the long hand on one.                                                   *)
THEOREM HandsAlwaysMeetMarks == Spec => []HandsMeetMarks
BY FrameKnown, HandsOnMarks, PTL

(* No figure is drawn from the arrays or under the matrix of another.      *)
THEOREM FiguresAlwaysIntact == Spec => []FiguresIntact
BY FrameKnown, FiguresApart, PTL

-----------------------------------------------------------------------------
(***************************************************************************)
(* Winding.  On each half of a mark or of a hand the cross product of two  *)
(* edges is a multiple of the normal the source gives that half.           *)
(***************************************************************************)
LEMMA FacingRight ==
  ASSUME NEW p, NEW q, NEW r, NEW c \in Nat \ {0},
         Cross(Minus(q, p), Minus(r, p)) = <<c, 0, 2 * c>>
  PROVE  FlatFacing(p, q, r, <<1, 0, 2>>)
BY DEF FlatFacing, Along, Cross

LEMMA FacingLeft ==
  ASSUME NEW p, NEW q, NEW r, NEW c \in Nat \ {0},
         Cross(Minus(q, p), Minus(r, p)) = <<-c, 0, 2 * c>>
  PROVE  FlatFacing(p, q, r, <<-1, 0, 2>>)
BY DEF FlatFacing, Along, Cross

(* A hand of any length and at any height is wound toward its viewer.      *)
THEOREM HandFaces ==
  ASSUME NEW l \in Nat, NEW h \in Int
  PROVE  \A t \in Hand(l, h).triangles : Facing(Hand(l, h).vertices, Hand(l, h).normals, t)
<1> DEFINE v == Hand(l, h).vertices
           n == Hand(l, h).normals
<1>1. /\ v[1] = <<4, 0, 2 * h - 2>> /\ v[2] = <<0, 2 * l, 2 * h>> /\ v[3] = <<0, -4, 2 * h>>
      /\ v[4] = <<0, -4, 2 * h>> /\ v[5] = <<0, 2 * l, 2 * h>> /\ v[6] = <<-4, 0, 2 * h - 2>>
  BY DEF Hand, HandVertices
<1>2. /\ n[1] = <<1, 0, 2>> /\ n[2] = <<1, 0, 2>> /\ n[3] = <<1, 0, 2>>
      /\ n[4] = <<-1, 0, 2>> /\ n[5] = <<-1, 0, 2>> /\ n[6] = <<-1, 0, 2>>
  BY DEF Hand, TwoSlopes
<1>3. Hand(l, h).triangles = {<<1, 2, 3>>, <<4, 5, 6>>}
  BY DEF Hand
<1> HIDE DEF v, n
<1>4. 4 * l + 8 \in Nat \ {0} /\ Len(v[1]) = 3
  BY <1>1
<1>5. FlatFacing(v[1], v[2], v[3], <<1, 0, 2>>)
  <2>1. Cross(Minus(v[2], v[1]), Minus(v[3], v[1])) = <<4 * l + 8, 0, 2 * (4 * l + 8)>>
    BY <1>1 DEF Cross, Minus
  <2> QED BY <1>4, <2>1, FacingRight
<1>6. FlatFacing(v[4], v[5], v[6], <<-1, 0, 2>>)
  <2>1. Cross(Minus(v[5], v[4]), Minus(v[6], v[4])) = <<-(4 * l + 8), 0, 2 * (4 * l + 8)>>
    BY <1>1 DEF Cross, Minus
  <2> QED BY <1>4, <2>1, FacingLeft
<1>7. Facing(v, n, <<1, 2, 3>>) /\ Facing(v, n, <<4, 5, 6>>)
  BY <1>2, <1>4, <1>5, <1>6 DEF Facing
<1> QED BY <1>3, <1>7 DEF v, n

LEMMA MarkFaces ==
  ASSUME NEW k \in Nat
  PROVE  \A t \in Mark(k).triangles : Facing(Mark(k).vertices, Mark(k).normals, t)
<1> DEFINE v == Mark(k).vertices
           n == Mark(k).normals
           b == 86 - 2 * MarkLength(k)
<1>1. b \in Int /\ 86 - b \in Nat \ {0}
  BY DEF MarkLength
<1>2. /\ v[1] = <<2, b, 0>> /\ v[2] = <<2, 86, 0>> /\ v[3] = <<0, 86, 1>> /\ v[4] = <<0, b, 1>>
      /\ v[5] = <<0, b, 1>> /\ v[6] = <<0, 86, 1>> /\ v[7] = <<-2, 86, 0>> /\ v[8] = <<-2, b, 0>>
  BY DEF Mark
<1>3. /\ \A i \in 1..4 : n[i] = <<1, 0, 2>>
      /\ \A i \in 5..8 : n[i] = <<-1, 0, 2>>
  BY DEF Mark, TwoSlopes
<1>4. Mark(k).triangles = {<<1, 2, 3>>, <<1, 3, 4>>, <<5, 6, 7>>, <<5, 7, 8>>}
  <2>1. (1 + 1)..(1 + 4 - 2) = {2, 3} /\ (5 + 1)..(5 + 4 - 2) = {6, 7}
    OBVIOUS
  <2>2. Fan(1, 4) = {<<1, 2, 3>>, <<1, 3, 4>>} /\ Fan(5, 4) = {<<5, 6, 7>>, <<5, 7, 8>>}
    BY <2>1 DEF Fan
  <2> QED BY <2>2 DEF Mark
<1> DEFINE c == 86 - b
<1>5. c \in Nat \ {0} /\ b = 86 - c
  BY <1>1
<1> HIDE DEF v, n, b, c
<1>6. /\ FlatFacing(v[1], v[2], v[3], <<1, 0, 2>>)
      /\ FlatFacing(v[1], v[3], v[4], <<1, 0, 2>>)
  <2>1. Cross(Minus(v[2], v[1]), Minus(v[3], v[1])) = <<c, 0, 2 * c>>
    BY <1>2, <1>5 DEF Cross, Minus
  <2>2. Cross(Minus(v[3], v[1]), Minus(v[4], v[1])) = <<c, 0, 2 * c>>
    BY <1>2, <1>5 DEF Cross, Minus
  <2> QED BY <1>5, <2>1, <2>2, FacingRight
<1>7. /\ FlatFacing(v[5], v[6], v[7], <<-1, 0, 2>>)
      /\ FlatFacing(v[5], v[7], v[8], <<-1, 0, 2>>)
  <2>1. Cross(Minus(v[6], v[5]), Minus(v[7], v[5])) = <<-c, 0, 2 * c>>
    BY <1>2, <1>5 DEF Cross, Minus
  <2>2. Cross(Minus(v[7], v[5]), Minus(v[8], v[5])) = <<-c, 0, 2 * c>>
    BY <1>2, <1>5 DEF Cross, Minus
  <2> QED BY <1>5, <2>1, <2>2, FacingLeft
<1>8. Len(v[1]) = 3
  BY <1>2
<1>9. /\ Facing(v, n, <<1, 2, 3>>) /\ Facing(v, n, <<1, 3, 4>>)
      /\ Facing(v, n, <<5, 6, 7>>) /\ Facing(v, n, <<5, 7, 8>>)
  BY <1>3, <1>6, <1>7, <1>8 DEF Facing
<1> QED BY <1>4, <1>9 DEF v, n

(* One step backward on the rim is 35 steps forward.                       *)
LEMMA BeforeFullTurn ==
  ASSUME NEW x \in Int, x + 1 = 0
  PROVE  x % 36 = 35
<1>1. x % 36 \in 0..35
  OBVIOUS
<1>2. x = 36 * (x \div 36) + (x % 36)
  OBVIOUS
<1> QED BY <1>1, <1>2

(***************************************************************************)
(* The base: each rim point of the front is one step counterclockwise of   *)
(* the one before it, and of the back one step clockwise.                  *)
(***************************************************************************)
LEMMA BaseFaces ==
  ASSUME NEW back \in BOOLEAN
  PROVE  \A t \in Base(back).triangles : Facing(Base(back).vertices, Base(back).normals, t)
<1> DEFINE rim == [i \in 1..(N + 1) |-> <<90, IF back THEN i - 1 ELSE 1 - i>>]
           v == Base(back).vertices
           n == Base(back).normals
<1>1. v = <<<<0, 0>>>> \o rim
  BY DEF Base
<1>2. <<<<0, 0>>>> \in Seq(Int \X Int) /\ Len(<<<<0, 0>>>>) = 1
  OBVIOUS
<1>3. rim \in Seq(Int \X Int) /\ Len(rim) = 37
  BY DEF N
<1>4. \A i \in 1..37 : rim[i][2] = IF back THEN i - 1 ELSE 1 - i
  BY DEF N
<1>5. \A i \in 1..38 : n[i] = <<0, 0, IF back THEN -1 ELSE 1>>
  BY DEF Base, N
<1>6. Base(back).triangles = {<<1, i, i + 1>> : i \in 2..37}
  <2>1. (1 + 1)..(1 + (36 + 2) - 2) = 2..37
    OBVIOUS
  <2> QED BY <2>1 DEF Base, Fan, N
<1> HIDE DEF rim, n
<1>7. /\ v[1] = <<0, 0>>
      /\ \A i \in 2..38 : v[i] = rim[i - 1]
  <2>1. \A i \in 1..38 : v[i] = IF i <= 1 THEN <<<<0, 0>>>>[i] ELSE rim[i - 1]
    <3>1. \A i \in 1..(Len(<<<<0, 0>>>>) + Len(rim)) :
            (<<<<0, 0>>>> \o rim)[i]
              = IF i <= Len(<<<<0, 0>>>>) THEN <<<<0, 0>>>>[i] ELSE rim[i - Len(<<<<0, 0>>>>)]
      BY <1>2, <1>3, ConcatProperties
    <3> HIDE DEF v
    <3>2. Len(<<<<0, 0>>>>) + Len(rim) = 38
      BY <1>2, <1>3
    <3> QED BY <1>1, <1>2, <3>1, <3>2
  <2> QED BY <2>1
<1> HIDE DEF v
<1>8. ASSUME NEW i \in 2..37 PROVE RimFacing(v[i], v[i + 1], n[1])
  <2>1. /\ v[i][2] = IF back THEN i - 2 ELSE 2 - i
        /\ v[i + 1][2] = IF back THEN i - 1 ELSE 1 - i
    <3>1. i - 1 \in 1..37 /\ i \in 1..37 /\ i + 1 \in 2..38 /\ i \in 2..38
      OBVIOUS
    <3>2. v[i] = rim[i - 1] /\ v[i + 1] = rim[i]
      BY <1>7, <3>1
    <3> QED BY <1>4, <3>1, <3>2
  <2>2. n[1][3] = IF back THEN -1 ELSE 1
    BY <1>5
  <2>3. CASE back
    <3>1. (v[i][2] - v[i + 1][2]) % 36 = 35
      <4>1. v[i][2] - v[i + 1][2] \in Int /\ (v[i][2] - v[i + 1][2]) + 1 = 0
        BY <2>1, <2>3
      <4> QED BY <4>1, BeforeFullTurn
    <3>2. n[1][3] = -1
      BY <2>2, <2>3
    <3> QED BY <3>1, <3>2 DEF RimFacing, N
  <2>4. CASE ~back
    BY <2>1, <2>2, <2>4 DEF RimFacing, N
  <2> QED BY <2>3, <2>4
<1>9. ASSUME NEW i \in 2..37 PROVE Facing(v, n, <<1, i, i + 1>>)
  BY <1>7, <1>8 DEF Facing
<1> QED BY <1>6, <1>9 DEF v, n

LEMMA FigureFaces ==
  ASSUME NEW k \in 1..16
  PROVE  \A t \in FigureAt(k).triangles :
            Facing(FigureAt(k).vertices, FigureAt(k).normals, t)
<1>1. CASE k <= 12
  BY <1>1, MarkFaces DEF FigureAt
<1>2. CASE k = 13 \/ k = 14
  BY <1>2, HandFaces DEF FigureAt, ShortHand, LongHand
<1>3. CASE k > 14
  <2>1. (k = 16) \in BOOLEAN /\ FigureAt(k) = Base(k = 16)
    BY <1>3 DEF FigureAt
  <2> QED BY <2>1, BaseFaces
<1> QED BY <1>1, <1>2, <1>3

(* Every triangle the clock draws is wound toward where its normals point, *)
(* so that culling never removes one that faces the viewer.                *)
THEOREM FacesAlwaysShow == Spec => []FacesShowTheirNormals
<1>1. FrameInv => FacesShowTheirNormals
  <2> SUFFICES ASSUME FrameInv, NEW k \in 1..Len(frame),
                      NEW v \in frame[k].vertices, NEW n \in frame[k].normals,
                      NEW t \in frame[k].triangles
               PROVE  Facing(v, n, t)
    BY DEF FacesShowTheirNormals
  <2>1. /\ v = FigureAt(k).vertices /\ n = FigureAt(k).normals
        /\ t \in FigureAt(k).triangles /\ k \in 1..16
    BY DrawnAngle
  <2> QED BY <2>1, FigureFaces
<1> QED BY <1>1, FrameKnown, PTL

-----------------------------------------------------------------------------
(***************************************************************************)
(* Clockwise.  A turn about (0, 0, -1) takes the upward direction round    *)
(* the compass; the pose, a left factor, comes after it.                   *)
(***************************************************************************)
ClockTurn(q) == Rotate(q, <<0, 0, -1>>)

LEMMA PointType == ASSUME NEW x \in Int, NEW y \in Int PROVE Point(x, y) \in Column
BY DEF Point, Column, Index

LEMMA AroundTheCompass ==
  ASSUME NEW q \in Int
  PROVE  LET toward == Compass[1 + (q % 4)]
         IN /\ toward[1] \in Int /\ toward[2] \in Int
            /\ Apply(ClockTurn(q), Point(0, 1)) = Point(toward[1], toward[2])
<1>1. q % 4 \in {0, 1, 2, 3}
  OBVIOUS
<1>2. Normalized(<<0, 0, -1>>) = <<0, 0, -1>>
  BY DEF Normalized, Norm, AbsValue
<1>3. ClockTurn(q) = RotationAbout(<<0, 0, -1>>, Cos(q), Sin(q))
  BY <1>2 DEF ClockTurn, Rotate
<1>4. \A c, s \in Int : Apply(RotationAbout(<<0, 0, -1>>, c, s), Point(0, 1)) = Point(s, c)
  <2> TAKE c \in Int, s \in Int
  <2> DEFINE turned == Apply(RotationAbout(<<0, 0, -1>>, c, s), Point(0, 1))
  <2>1. turned[0] = s /\ turned[1] = c /\ turned[2] = 0 /\ turned[3] = 1
    BY DEF Apply, RotationAbout, Point, Index
  <2>2. turned = [k \in Index |-> turned[k]] /\ \A k \in Index : turned[k] = Point(s, c)[k]
    <3>1. turned = [k \in Index |-> turned[k]]
      BY DEF Apply
    <3> HIDE DEF turned
    <3> QED BY <2>1, <3>1 DEF Point, Index
  <2> HIDE DEF turned
  <2>3. turned = Point(s, c)
    BY <2>2 DEF Point
  <2> QED BY <2>3 DEF turned
<1>5. CASE q % 4 = 0
  <2>1. Cos(q) = 1 /\ Sin(q) = 0 /\ Compass[1 + (q % 4)] = <<0, 1>>
    BY <1>5 DEF Cos, Sin, Compass
  <2> QED BY <1>3, <1>4, <2>1
<1>6. CASE q % 4 = 1
  <2>1. Cos(q) = 0 /\ Sin(q) = 1 /\ Compass[1 + (q % 4)] = <<1, 0>>
    BY <1>6 DEF Cos, Sin, Compass
  <2> QED BY <1>3, <1>4, <2>1
<1>7. CASE q % 4 = 2
  <2>1. Cos(q) = -1 /\ Sin(q) = 0 /\ Compass[1 + (q % 4)] = <<0, -1>>
    BY <1>7 DEF Cos, Sin, Compass
  <2> QED BY <1>3, <1>4, <2>1
<1>8. CASE q % 4 = 3
  <2>1. Cos(q) = 0 /\ Sin(q) = -1 /\ Compass[1 + (q % 4)] = <<-1, 0>>
    BY <1>8 DEF Cos, Sin, Compass
  <2> QED BY <1>3, <1>4, <2>1
<1> QED BY <1>1, <1>5, <1>6, <1>7, <1>8

(* Hands and marks go clockwise for one who looks at the front, whatever   *)
(* the pose and the time.                                                  *)
THEOREM AlwaysClockwise == Spec => []ClockwiseFromFront
<1>1. TypeOK => ClockwiseFromFront
  <2> SUFFICES ASSUME TypeOK, NEW k \in 1..Len(frame)
               PROVE  LET m == frame[k].matrix
                          toward == Compass[1 + ((m.angle \div QuarterTurn) % 4)]
                      IN Apply(MatrixOf(m), Point(0, 1)) = Apply(m.pose, Point(toward[1], toward[2]))
    BY DEF ClockwiseFromFront
  <2> DEFINE m == frame[k].matrix
             q == m.angle \div QuarterTurn
  <2>1. m.pose \in Matrix /\ m.angle \in Nat
    BY DEF TypeOK, Placement
  <2>2. q \in Int
    BY <2>1 DEF QuarterTurn
  <2>3. MatrixOf(m) = Multiply(m.pose, ClockTurn(q))
    BY DEF MatrixOf, ClockTurn
  <2> HIDE DEF m, q
  <2>4. <<0, 0, -1>> \in Vector
    BY DEF Vector
  <2>5. ClockTurn(q) \in Matrix /\ Point(0, 1) \in Column
    BY <2>2, <2>4, RotateType, PointType DEF ClockTurn
  <2>6. Apply(Multiply(m.pose, ClockTurn(q)), Point(0, 1))
          = Apply(m.pose, Apply(ClockTurn(q), Point(0, 1)))
    BY <2>1, <2>5, ProductsCompose
  <2> QED BY <2>2, <2>3, <2>6, AroundTheCompass DEF m, q
<1> QED BY <1>1, FaceTypeCorrect, PTL
=============================================================================
