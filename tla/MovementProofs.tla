--------------------------- MODULE MovementProofs ---------------------------
(***************************************************************************)
(* Theorems about Movement, for every set of rates, buttons, points,       *)
(* clock values and initial garbage.                                       *)
(***************************************************************************)
EXTENDS Movement, Mat4Proofs

USE DEF owner, screen, unmoved, timer, pointer, motion, pose, history, WidgetOK, PointerOK, MotionOK, PoseOK

(***************************************************************************)
(* The type invariant is not inductive: re-beginning a drag on a           *)
(* GDK_2BUTTON_PRESS uses the point of the press before it, so there must  *)
(* have been one; and a release of button 1 ends a gesture that has begun. *)
(***************************************************************************)
SecondFollowsPress == second => ~menuShown /\ (recent = 1 => downAt # None /\ ~missed)
HeldKnown == 1 \in held <=> downAt # None
GestureKnown == SecondFollowsPress /\ HeldKnown

TypeInv == TypeOK /\ GestureKnown

LEMMA ElapsedType ==
  ASSUME NEW t \in Times \cup {Zero}, NEW u \in Times
  PROVE  Elapsed(t, u) \in Int
<1>1. UsecPerSec \in Int /\ Seconds \subseteq Int
  BY TimeAssumption
<1>2. ASSUME NEW w \in Times PROVE w.sec \in Int /\ w.usec \in Int
  <2>1. w.sec \in Seconds /\ w.usec \in 0..(UsecPerSec - 1)
    BY DEF Times
  <2>2. w.sec \in Int
    BY <1>1, <2>1
  <2>3. 0..(UsecPerSec - 1) \subseteq Int
    BY <1>1
  <2> QED BY <2>1, <2>2, <2>3
<1>3. Zero.sec \in Int /\ Zero.usec \in Int
  BY DEF Zero
<1>4. t.sec \in Int /\ t.usec \in Int /\ u.sec \in Int /\ u.usec \in Int
  BY <1>2, <1>3
<1> QED BY <1>1, <1>4 DEF Elapsed

LEMMA RenderAngleType ==
  ASSUME TypeOK, NEW now \in Times
  PROVE  RenderAngle(now) \in Int \cup {NotFinite, Oblique}
<1>1. CASE lastUpdated.sec = 0
  BY <1>1 DEF RenderAngle
<1>2. CASE lastUpdated.sec # 0 /\ rate = NotFinite
  BY <1>2 DEF RenderAngle
<1>3. CASE lastUpdated.sec # 0 /\ rate # NotFinite /\ rate # Oblique
  <2>1. rate \in Int /\ Elapsed(lastUpdated, now) \in Int
    BY <1>3, ElapsedType DEF TypeOK
  <2> QED BY <2>1, <1>3 DEF RenderAngle
<1>4. CASE lastUpdated.sec # 0 /\ rate = Oblique
  BY <1>4, OtherAssumption DEF RenderAngle
<1> QED BY <1>1, <1>2, <1>3, <1>4

LEMMA RotatedType ==
  ASSUME TypeOK, NEW angle \in Int \cup {NotFinite, Oblique}
  PROVE  Rotated(angle) \in Matrix \cup {NotFinite, Oblique}
BY RotateType, MultiplyType DEF Rotated, TypeOK

LEMMA DisplacementType ==
  ASSUME NEW p \in Points, NEW q \in Points
  PROVE  /\ Minus(p, q) \in Int \X Int
         /\ Sum2(Minus(p, q)) \in Nat
         /\ Speed(Minus(p, q)) \in Nat \cup {Oblique}
         /\ ThrowAxis(Minus(p, q)) \in Vector
BY PointAssumption DEF Minus, Speed, Sum2, AbsValue, ThrowAxis, Vector

LEMMA PointsDefined ==
  ASSUME NEW p \in Points
  PROVE  p # None /\ p # NotFinite
BY PointAssumption, OtherAssumption

LEMMA SourceTypes ==
  /\ \A id \in Nat, r \in 1..100 : NewSource(id, r) \in Source
  /\ \A s \in Source, due \in BOOLEAN : [s EXCEPT !.due = due] \in Source
<1>1. ASSUME NEW id \in Nat, NEW r \in 1..100 PROVE NewSource(id, r) \in Source
  <2>1. Interval(r) \in Nat
    BY DEF Interval
  <2> QED BY <2>1 DEF NewSource, Source
<1>2. ASSUME NEW s \in Source, NEW due \in BOOLEAN PROVE [s EXCEPT !.due = due] \in Source
  BY DEF Source
<1> QED BY <1>1, <1>2

LEMMA ResetTimeoutType ==
  ASSUME TypeOK, NEW r \in 1..100, ResetTimeout(r)
  PROVE  updateTimeout' \in Nat /\ sources' \subseteq Source
<1>1. PICK id \in SourceIds :
        /\ updateTimeout' = id
        /\ sources' \subseteq sources \cup {NewSource(id, r)}
  BY DEF ResetTimeout, RemoveSource
<1>2. NewSource(id, r) \in Source /\ id \in Nat
  BY SourceIdAssumption, SourceTypes
<1> QED BY <1>1, <1>2 DEF TypeOK, TimerOK

LEMMA TypeInit == Init => TypeInv
<1> SUFFICES ASSUME Init PROVE TypeInv
  OBVIOUS
<1>1. DefaultUpdateRate \in 1..100
  BY DEF DefaultUpdateRate
<1>2. updateTimeout \in Nat /\ NewSource(updateTimeout, DefaultUpdateRate) \in Source
  BY <1>1, SourceIdAssumption, SourceTypes DEF Init
<1>3. axis \in Vector \cup {NotFinite} /\ origin \in Points \cup {NotFinite}
  BY PointAssumption DEF Init
<1>4. Identity \in Matrix
  BY IdentityType
<1> QED BY <1>1, <1>2, <1>3, <1>4 DEF Init, TypeInv, TypeOK, TimerOK, SecondFollowsPress, HeldKnown, GestureKnown

LEMMA TypeStep == TypeInv /\ [Next]_vars => TypeInv'
<1> SUFFICES ASSUME TypeInv, [Next]_vars PROVE TypeInv'
  OBVIOUS
<1> USE DEF TypeInv
<1>1. CASE UNCHANGED vars
  BY <1>1 DEF vars, TypeOK, TimerOK, SecondFollowsPress, HeldKnown, GestureKnown
<1>2. ASSUME NEW b \in Buttons, NEW p \in Points, ButtonPress(b, p) PROVE TypeInv'
  <2>1. WidgetOK' /\ TimerOK' /\ PoseOK'
    BY <1>2 DEF ButtonPress, BeginDrag, NoDrag, TypeOK, TimerOK
  <2>2. second' \in BOOLEAN
    BY <1>2 DEF ButtonPress
  <2>3. PointerOK' /\ MotionOK'
    BY <1>2, <2>2 DEF ButtonPress, BeginDrag, NoDrag, TypeOK
  <2>4. SecondFollowsPress'
    BY <1>2, PointsDefined DEF ButtonPress, BeginDrag, NoDrag, SecondFollowsPress, HeldKnown, GestureKnown
  <2>5. HeldKnown'
    BY <1>2, PointsDefined DEF ButtonPress, BeginDrag, NoDrag, HeldKnown, GestureKnown
  <2> QED BY <2>1, <2>3, <2>4, <2>5 DEF TypeOK, GestureKnown
<1>3. ASSUME NEW b \in Buttons, NEW p \in Points, ButtonRelease(b, p) PROVE TypeInv'
  <2>1. CASE b = 1
    <3>1. downAt \in Points
      BY <1>3, <2>1 DEF ButtonRelease, TypeOK, GestureKnown, HeldKnown
    <3>2. /\ rate' \in Nat \cup {NotFinite, Oblique} /\ axis' \in Vector \cup {NotFinite}
          /\ drag' \in (Int \X Int) \cup {None}
      BY <1>3, <2>1, <3>1, DisplacementType DEF ButtonRelease, EndDrag, TypeOK
    <3> QED BY <1>3, <2>1, <3>2 DEF ButtonRelease, EndDrag, TypeOK, TimerOK, SecondFollowsPress, HeldKnown, GestureKnown
  <2>2. CASE b # 1
    BY <1>3, <2>2 DEF ButtonRelease, NoDrag, TypeOK, TimerOK, SecondFollowsPress, HeldKnown, GestureKnown
  <2> QED BY <2>1, <2>2
<1>4. CASE AbortOnDoublePress
  BY <1>4 DEF AbortOnDoublePress, TypeOK, TimerOK, SecondFollowsPress, HeldKnown, GestureKnown
<1>5. CASE DoublePress
  <2>1. WidgetOK' /\ TimerOK' /\ PoseOK'
    BY <1>5 DEF DoublePress, BeginDrag, NoDrag, TypeOK, TimerOK
  <2>2. recent = 1 => downAt \in Points
    BY <1>5 DEF DoublePress, TypeOK, SecondFollowsPress, HeldKnown, GestureKnown
  <2>3. PointerOK' /\ MotionOK'
    BY <1>5, <2>2 DEF DoublePress, BeginDrag, NoDrag, TypeOK
  <2>4. GestureKnown'
    BY <1>5, <2>2, PointsDefined DEF DoublePress, BeginDrag, NoDrag, SecondFollowsPress, HeldKnown, GestureKnown
  <2> QED BY <2>1, <2>3, <2>4 DEF TypeOK
<1>6. ASSUME NEW b \in Buttons, MenuTakesRelease(b) PROVE TypeInv'
  <2>1. WidgetOK' /\ TimerOK' /\ MotionOK' /\ PoseOK'
    BY <1>6 DEF MenuTakesRelease, TypeOK, TimerOK
  <2>2. menuShown' \in BOOLEAN
    BY <1>6 DEF MenuTakesRelease
  <2>3. /\ downAt' \in Points \cup {None} /\ missed' \in BOOLEAN
        /\ blind' \in BOOLEAN /\ lost' \in BOOLEAN
    BY <1>6 DEF MenuTakesRelease, TypeOK
  <2>4. second' \in BOOLEAN /\ held' \subseteq Buttons /\ recent' \in Buttons \cup {0}
    BY <1>6 DEF MenuTakesRelease, TypeOK
  <2>5. GestureKnown'
    BY <1>6 DEF MenuTakesRelease, SecondFollowsPress, HeldKnown, GestureKnown
  <2> QED BY <2>1, <2>2, <2>3, <2>4, <2>5 DEF TypeOK
<1>7. ASSUME NEW b \in Buttons, NEW p \in Points, MenuClosedByPress(b, p) PROVE TypeInv'
  <2>1. TimerOK'
    BY <1>7 DEF MenuClosedByPress, TypeOK, TimerOK
  <2>2. menuShown' \in BOOLEAN
    BY <1>7 DEF MenuClosedByPress
  <2>3. WidgetOK' /\ PointerOK' /\ MotionOK' /\ PoseOK'
    <3>1. WidgetOK' /\ MotionOK' /\ PoseOK'
      BY <1>7 DEF MenuClosedByPress, TypeOK
    <3>2. second' \in BOOLEAN /\ held' \subseteq Buttons /\ recent' \in Buttons \cup {0}
      BY <1>7 DEF MenuClosedByPress, TypeOK
    <3>3. /\ downAt' \in Points \cup {None} /\ missed' \in BOOLEAN
          /\ blind' \in BOOLEAN /\ lost' \in BOOLEAN
      BY <1>7 DEF MenuClosedByPress, TypeOK
    <3> QED BY <2>2, <3>1, <3>2, <3>3
  <2>4. GestureKnown'
    <3>1. SecondFollowsPress'
      BY <1>7 DEF MenuClosedByPress, SecondFollowsPress, HeldKnown, GestureKnown
    <3>2. HeldKnown'
      BY <1>7, PointsDefined DEF MenuClosedByPress, HeldKnown, GestureKnown
    <3> QED BY <3>1, <3>2 DEF GestureKnown
  <2> QED BY <2>1, <2>3, <2>4 DEF TypeOK
<1>8. CASE MenuClosed
  <2>1. TimerOK'
    BY <1>8 DEF MenuClosed, TypeOK, TimerOK
  <2>2. menuShown' \in BOOLEAN
    BY <1>8 DEF MenuClosed
  <2>3. WidgetOK' /\ PointerOK' /\ MotionOK' /\ PoseOK'
    BY <1>8, <2>2 DEF MenuClosed, TypeOK
  <2>4. GestureKnown'
    BY <1>8 DEF MenuClosed, TypeOK, SecondFollowsPress, HeldKnown, GestureKnown
  <2> QED BY <2>1, <2>3, <2>4 DEF TypeOK
<1>9. ASSUME NEW r \in Rates, SetUpdateRate(r) PROVE TypeInv'
  <2>1. CASE UNCHANGED vars
    BY <2>1, <1>1
  <2>2. CASE RateChanged(r)
    <3>1. r \in 1..100 /\ ResetTimeout(r)
      BY <2>2, RateAssumption DEF RateChanged, InRange
    <3> QED BY <2>2, <3>1, ResetTimeoutType DEF RateChanged, TypeOK, TimerOK, SecondFollowsPress, HeldKnown, GestureKnown
  <2> QED BY <1>9, <2>1, <2>2 DEF SetUpdateRate, RateOutOfRange, RateUnchanged
<1>10. ASSUME NEW s \in sources, TimerElapses(s) PROVE TypeInv'
  <2>1. TimerOK'
    BY <1>10, SourceTypes DEF TimerElapses, TypeOK, TimerOK
  <2>2. WidgetOK' /\ PointerOK' /\ MotionOK' /\ PoseOK'
    BY <1>10 DEF TimerElapses, TypeOK
  <2>3. GestureKnown'
    BY <1>10 DEF TimerElapses, TypeOK, SecondFollowsPress, HeldKnown, GestureKnown
  <2> QED BY <2>1, <2>2, <2>3 DEF TypeOK
<1>11. ASSUME NEW s \in sources, HandleTimeout(s) PROVE TypeInv'
  <2>1. TimerOK'
    BY <1>11, SourceTypes DEF HandleTimeout, Dispatched, TypeOK, TimerOK
  <2>2. WidgetOK' /\ PointerOK' /\ MotionOK' /\ PoseOK'
    BY <1>11 DEF HandleTimeout, Dispatched, TypeOK
  <2>3. GestureKnown'
    BY <1>11 DEF HandleTimeout, Dispatched, TypeOK, SecondFollowsPress, HeldKnown, GestureKnown
  <2> QED BY <2>1, <2>2, <2>3 DEF TypeOK
<1>12. CASE Realize
  BY <1>12 DEF Realize, TypeOK, TimerOK, SecondFollowsPress, HeldKnown, GestureKnown
<1>13. CASE Unrealize
  <2>1. TimerOK'
    BY <1>13 DEF Unrealize, TypeOK, TimerOK
  <2>2. realized' \in BOOLEAN
    BY <1>13 DEF Unrealize
  <2>3. WidgetOK' /\ PointerOK' /\ MotionOK' /\ PoseOK'
    BY <1>13, <2>2 DEF Unrealize, TypeOK
  <2>4. GestureKnown'
    BY <1>13 DEF Unrealize, TypeOK, SecondFollowsPress, HeldKnown, GestureKnown
  <2> QED BY <2>1, <2>3, <2>4 DEF TypeOK
<1>14. CASE Expose
  BY <1>14 DEF Expose, TypeOK, TimerOK, SecondFollowsPress, HeldKnown, GestureKnown
<1>15. ASSUME NEW now \in Times, Render(now) PROVE TypeInv'
  <2>1. attitude' \in Matrix \cup {NotFinite, Oblique}
    BY <1>15, RenderAngleType, RotatedType DEF Render
  <2>2. TimerOK' /\ GestureKnown'
    BY <1>15 DEF Render, TypeOK, TimerOK, SecondFollowsPress, HeldKnown, GestureKnown
  <2>3. lastUpdated' \in Times \cup {Zero} /\ base' \in Times \cup {Zero}
    BY <1>15 DEF Render, TypeOK
  <2>4. start' \in Matrix \cup {NotFinite, Oblique}
    BY <1>15 DEF Render, TypeOK
  <2>5. WidgetOK' /\ PointerOK' /\ MotionOK'
    <3>1. WidgetOK'
      BY <1>15 DEF Render, TypeOK
    <3>2. PointerOK'
      BY <1>15 DEF Render, TypeOK
    <3>3. MotionOK'
      BY <1>15 DEF Render, TypeOK
    <3> QED BY <3>1, <3>2, <3>3
  <2> QED BY <2>1, <2>2, <2>3, <2>4, <2>5 DEF TypeOK
<1>16. CASE Destroy
  <2>1. TimerOK'
    BY <1>16 DEF Destroy, RemoveSource, TypeOK, TimerOK
  <2>2. connected' \in BOOLEAN
    BY <1>16 DEF Destroy
  <2>3. WidgetOK' /\ PointerOK' /\ MotionOK' /\ PoseOK'
    BY <1>16, <2>2 DEF Destroy, TypeOK
  <2>4. GestureKnown'
    BY <1>16 DEF Destroy, RemoveSource, TypeOK, SecondFollowsPress, HeldKnown, GestureKnown
  <2> QED BY <2>1, <2>3, <2>4 DEF TypeOK
<1>17. CASE WindowClosed
  <2>1. TimerOK'
    BY <1>17 DEF WindowClosed, TypeOK, TimerOK
  <2>2. connected' \in BOOLEAN /\ realized' \in BOOLEAN /\ queued' \in BOOLEAN /\ grabbed' \in BOOLEAN
    BY <1>17 DEF WindowClosed
  <2>3. WidgetOK'
    BY <1>17, <2>2 DEF WindowClosed, TypeOK
  <2>4. PointerOK' /\ MotionOK' /\ PoseOK'
    BY <1>17 DEF WindowClosed, TypeOK
  <2>5. GestureKnown'
    BY <1>17 DEF WindowClosed, SecondFollowsPress, HeldKnown, GestureKnown
  <2> QED BY <2>1, <2>3, <2>4, <2>5 DEF TypeOK
<1> QED BY <1>1, <1>2, <1>3, <1>4, <1>5, <1>6, <1>7, <1>8, <1>9, <1>10, <1>11, <1>12,
           <1>13, <1>14, <1>15, <1>16, <1>17 DEF Next, Pointing, Timing, Showing

(* Every variable keeps its type: in particular the update rate in force   *)
(* is always one the range check of set_update_rate lets through.          *)
THEOREM TypeCorrect == Spec => []TypeOK
<1>1. TypeInv => TypeOK
  BY DEF TypeInv
<1> QED BY <1>1, TypeInit, TypeStep, PTL DEF Spec

-----------------------------------------------------------------------------
(***************************************************************************)
(* The timer.  The invariant adds that a live movement knows of a source:  *)
(* were _update_timeout ever 0, reset_timeout would forget one.            *)
(***************************************************************************)
TimerInv ==
  /\ life = "live" => updateTimeout \in SourceIds
  /\ OneTimeout
  /\ NoDanglingCallback

ownTimer == <<life, connected, updateRate, updateTimeout, sources>>

LEMMA TimerInit == Init => TimerInv
<1> SUFFICES ASSUME Init PROVE TimerInv
  OBVIOUS
<1>1. sources = {[NewSource(updateTimeout, updateRate) EXCEPT !.due = FALSE]}
  BY DEF Init, NewSource
<1> QED BY <1>1 DEF Init, TimerInv, OneTimeout, NoDanglingCallback

(* Only six actions touch the timer, the connections or the life.          *)
LEMMA OwnerUnchanged ==
  ASSUME [Next]_vars,
         ~ \E r \in Rates : RateChanged(r),
         ~ \E s \in sources : TimerElapses(s) \/ HandleTimeout(s),
         ~ AbortOnDoublePress, ~ WindowClosed, ~ Destroy
  PROVE  UNCHANGED ownTimer
<1>1. CASE UNCHANGED vars
  BY <1>1 DEF vars, ownTimer
<1>2. CASE Pointing
  BY <1>2 DEF Pointing, ownTimer, ButtonPress, ButtonRelease, DoublePress, MenuTakesRelease,
              MenuClosedByPress, MenuClosed
<1>3. CASE Timing
  BY <1>3 DEF Timing, ownTimer, vars, SetUpdateRate, RateOutOfRange, RateUnchanged
<1>4. CASE Showing
  BY <1>4 DEF Showing, ownTimer, Realize, Unrealize, Expose, Render
<1> QED BY <1>1, <1>2, <1>3, <1>4 DEF Next

LEMMA TimerStep == TypeInv /\ TimerInv /\ [Next]_vars => TimerInv'
<1> SUFFICES ASSUME TypeInv, TimerInv, [Next]_vars PROVE TimerInv'
  OBVIOUS
<1>1. ASSUME NEW r \in Rates, RateChanged(r) PROVE TimerInv'
  <2>1. life = "live" /\ life' = "live" /\ updateRate' = r
    BY <1>1 DEF RateChanged, InRange
  <2>2. PICK due \in BOOLEAN :
          sources = {[NewSource(updateTimeout, updateRate) EXCEPT !.due = due]}
    BY <2>1 DEF TimerInv, OneTimeout
  <2>3. \A s \in sources : s.id = updateTimeout
    BY <2>2 DEF NewSource
  <2>4. updateTimeout # 0
    BY <2>1, SourceIdAssumption DEF TimerInv
  <2>5. RemoveSource(updateTimeout, sources) = {}
    BY <2>3 DEF RemoveSource
  <2>6. PICK id \in SourceIds : updateTimeout' = id /\ sources' = {NewSource(id, r)}
    BY <1>1, <2>4, <2>5 DEF RateChanged, ResetTimeout
  <2>7. sources' = {[NewSource(updateTimeout', updateRate') EXCEPT !.due = FALSE]}
    BY <2>1, <2>6 DEF NewSource
  <2>8. OneTimeout'
    BY <2>1, <2>7 DEF OneTimeout
  <2> QED BY <2>1, <2>6, <2>8 DEF TimerInv, NoDanglingCallback
<1>2. ASSUME NEW s \in sources, TimerElapses(s) \/ HandleTimeout(s) PROVE TimerInv'
  <2>1. life = "live" /\ life' = "live" /\ UNCHANGED <<updateRate, updateTimeout, connected>>
    BY <1>2 DEF TimerElapses, HandleTimeout, TimerInv, NoDanglingCallback, TypeInv, TypeOK
  <2>2. PICK due \in BOOLEAN :
          sources = {[NewSource(updateTimeout, updateRate) EXCEPT !.due = due]}
    BY <2>1 DEF TimerInv, OneTimeout
  <2>3. PICK next \in BOOLEAN : sources' = (sources \ {s}) \cup {[s EXCEPT !.due = next]}
    BY <1>2 DEF TimerElapses, HandleTimeout, Dispatched
  <2>4. sources' = {[NewSource(updateTimeout, updateRate) EXCEPT !.due = next]}
    <3>1. s = [NewSource(updateTimeout, updateRate) EXCEPT !.due = due]
      BY <2>2
    <3>2. [s EXCEPT !.due = next] = [NewSource(updateTimeout, updateRate) EXCEPT !.due = next]
      BY <3>1 DEF NewSource
    <3> QED BY <2>2, <2>3, <3>1, <3>2
  <2>5. OneTimeout'
    BY <2>1, <2>4 DEF OneTimeout
  <2> QED BY <2>1, <2>5 DEF TimerInv, NoDanglingCallback
<1>3. CASE AbortOnDoublePress
  BY <1>3 DEF AbortOnDoublePress, TimerInv, OneTimeout, NoDanglingCallback
<1>4. CASE Destroy
  <2>1. life = "live" /\ life' = "destroyed" /\ ~connected'
    BY <1>4 DEF Destroy
  <2>2. PICK due \in BOOLEAN :
          sources = {[NewSource(updateTimeout, updateRate) EXCEPT !.due = due]}
    BY <2>1 DEF TimerInv, OneTimeout
  <2>3. updateTimeout # 0
    BY <2>1, SourceIdAssumption DEF TimerInv
  <2>4. sources' = {}
    BY <1>4, <2>2, <2>3 DEF Destroy, RemoveSource, NewSource
  <2> QED BY <2>1, <2>4 DEF TimerInv, OneTimeout, NoDanglingCallback
<1>5. CASE UNCHANGED ownTimer
  BY <1>5 DEF ownTimer, TimerInv, OneTimeout, NoDanglingCallback
<1>6. CASE WindowClosed
  BY <1>6 DEF WindowClosed, TimerInv, OneTimeout, NoDanglingCallback
<1> QED BY <1>1, <1>2, <1>3, <1>4, <1>5, <1>6, OwnerUnchanged

(* However often and whenever the rate is changed, a live movement owns    *)
(* exactly one timeout, of the interval of its rate.                       *)
THEOREM ExactlyOneTimeout == Spec => []OneTimeout
<1>1. TimerInv => OneTimeout
  BY DEF TimerInv
<1> QED BY <1>1, TypeInit, TypeStep, TimerInit, TimerStep, PTL DEF Spec

(* No timeout and no connected signal outlives the movement.               *)
THEOREM NothingDangles == Spec => []NoDanglingCallback
<1>1. TimerInv => NoDanglingCallback
  BY DEF TimerInv
<1> QED BY <1>1, TypeInit, TypeStep, TimerInit, TimerStep, PTL DEF Spec

-----------------------------------------------------------------------------
(***************************************************************************)
(* The gestures.  A throw is right because, while a button is down whose   *)
(* press the clock saw, what begin_drag stored is where it went down.      *)
(***************************************************************************)
GestureInv ==
  /\ downAt # None /\ ~missed => origin = downAt
  /\ ThrowFollowsGesture
  /\ GrabAccounted

gesture == <<grabbed, rate, axis, origin, downAt, missed, drag, blind, lost>>

LEMMA GestureInit == Init => GestureInv
BY DEF Init, GestureInv, ThrowFollowsGesture, GrabAccounted

(* Outside the button handlers and the menu no step touches a gesture.     *)
LEMMA GestureUnchanged ==
  ASSUME [Next]_vars, ~Pointing, ~WindowClosed
  PROVE  UNCHANGED gesture
<1>1. CASE UNCHANGED vars
  BY <1>1 DEF vars, gesture
<1>2. CASE Timing
  BY <1>2 DEF Timing, gesture, vars, SetUpdateRate, RateOutOfRange, RateUnchanged, RateChanged,
              TimerElapses, HandleTimeout
<1>3. CASE Showing
  BY <1>3 DEF Showing, gesture, Realize, Unrealize, Expose, Render
<1>4. CASE Destroy
  BY <1>4 DEF Destroy, gesture
<1> QED BY <1>1, <1>2, <1>3, <1>4 DEF Next

LEMMA GestureStep == TypeInv /\ GestureInv /\ [Next]_vars => GestureInv'
<1> SUFFICES ASSUME TypeInv, GestureInv, [Next]_vars PROVE GestureInv'
  OBVIOUS
<1> USE DEF GestureInv, ThrowFollowsGesture, Thrown, GrabAccounted
<1>1. ASSUME NEW b \in Buttons, NEW p \in Points, ButtonPress(b, p) PROVE GestureInv'
  BY <1>1, PointsDefined DEF ButtonPress, BeginDrag, NoDrag
<1>2. ASSUME NEW b \in Buttons, NEW p \in Points, ButtonRelease(b, p) PROVE GestureInv'
  <2>1. CASE b = 1 /\ missed
    BY <1>2, <2>1 DEF ButtonRelease, EndDrag
  <2>2. CASE b = 1 /\ ~missed
    <3>1. downAt # None
      BY <1>2, <2>2 DEF ButtonRelease, TypeInv, GestureKnown, HeldKnown
    <3>2. downAt \in Points /\ origin = downAt
      BY <2>2, <3>1 DEF TypeInv, TypeOK
    <3>3. origin # NotFinite /\ Minus(p, downAt) # NotFinite
      BY <3>2, PointsDefined, DisplacementType, OtherAssumption
    <3>4. drag' = Minus(p, downAt) /\ rate' = Speed(drag') /\ axis' = ThrowAxis(drag')
      BY <1>2, <2>2, <3>2, <3>3 DEF ButtonRelease, EndDrag
    <3>5. ~grabbed' /\ downAt' = None /\ ~lost'
      BY <1>2, <2>2 DEF ButtonRelease, EndDrag
    <3> QED BY <3>4, <3>5 DEF ThrowAxis
  <2>3. CASE b # 1
    BY <1>2, <2>3 DEF ButtonRelease, NoDrag
  <2> QED BY <2>1, <2>2, <2>3
<1>3. CASE AbortOnDoublePress
  BY <1>3 DEF AbortOnDoublePress
<1>4. CASE DoublePress
  BY <1>4 DEF DoublePress, BeginDrag, NoDrag, TypeInv, GestureKnown, HeldKnown, SecondFollowsPress
<1>5. ASSUME NEW b \in Buttons, MenuTakesRelease(b) PROVE GestureInv'
  <2>1. (downAt # None /\ ~missed => origin = downAt)' /\ ThrowFollowsGesture'
    BY <1>5 DEF MenuTakesRelease
  <2>2. CASE b = 1
    <3>1. downAt # None /\ downAt' = None /\ lost' = (lost \/ ~missed) /\ grabbed' = grabbed
      BY <1>5, <2>2 DEF MenuTakesRelease, TypeInv, HeldKnown, GestureKnown
    <3>2. GrabAccounted'
      BY <3>1
    <3> QED BY <2>1, <3>2
  <2>3. CASE b # 1
    <3>1. GrabAccounted'
      BY <1>5, <2>3 DEF MenuTakesRelease
    <3> QED BY <2>1, <3>1
  <2> QED BY <2>2, <2>3
<1>6. ASSUME NEW b \in Buttons, NEW p \in Points, MenuClosedByPress(b, p) PROVE GestureInv'
  <2>1. (downAt # None /\ ~missed => origin = downAt)' /\ ThrowFollowsGesture'
    BY <1>6 DEF MenuClosedByPress
  <2>2. CASE b = 1
    <3>1. downAt = None /\ missed' /\ lost' = lost /\ grabbed' = grabbed
      BY <1>6, <2>2 DEF MenuClosedByPress, TypeInv, HeldKnown, GestureKnown
    <3>2. GrabAccounted'
      BY <3>1
    <3> QED BY <2>1, <3>2
  <2>3. CASE b # 1
    <3>1. GrabAccounted'
      BY <1>6, <2>3 DEF MenuClosedByPress
    <3> QED BY <2>1, <3>1
  <2> QED BY <2>2, <2>3
<1>7. CASE MenuClosed
  BY <1>7 DEF MenuClosed
<1>8. CASE UNCHANGED gesture
  BY <1>8 DEF gesture
<1>9. CASE WindowClosed
  BY <1>9 DEF WindowClosed
<1> QED BY <1>1, <1>2, <1>3, <1>4, <1>5, <1>6, <1>7, <1>8, <1>9, GestureUnchanged DEF Pointing

(* Speed and axis are those of the gesture the user made, diagonal ones    *)
(* included, if the clock saw its press, whatever double clicks, menus,    *)
(* lost releases and throws without a press came before, for all points.   *)
(* A throw by a release whose press went to the menu is the run's          *)
(* stray_throw, and no theorem: the source does not keep it apart.         *)
THEOREM ThrowsFollowGestures == Spec => []ThrowFollowsGesture
<1>1. GestureInv => ThrowFollowsGesture
  BY DEF GestureInv
<1> QED BY <1>1, TypeInit, TypeStep, GestureInit, GestureStep, PTL DEF Spec

(* The grab is held exactly while a drag the clock saw begin is under way  *)
(* or its release was lost to the menu.                                    *)
THEOREM GrabIsAccounted == Spec => []GrabAccounted
<1>1. GestureInv => GrabAccounted
  BY DEF GestureInv
<1> QED BY <1>1, TypeInit, TypeStep, GestureInit, GestureStep, PTL DEF Spec

-----------------------------------------------------------------------------
(***************************************************************************)
(* The attitude, when the uninitialised members hold finite numbers.       *)
(***************************************************************************)
FiniteInv == rate # NotFinite /\ axis # NotFinite /\ origin # NotFinite /\ attitude # NotFinite

still == <<rate, axis, origin, attitude, start>>

LEMMA MatrixDefined ==
  ASSUME NEW m \in Matrix
  PROVE  m # NotFinite /\ m # Oblique
BY OtherAssumption

LEMMA NumbersDefined ==
  /\ \A n \in Int : n # NotFinite /\ n # Oblique
  /\ Oblique # NotFinite
  /\ \A v \in Vector : v # NotFinite
  /\ \A v \in Int \X Int : v # NotFinite
BY OtherAssumption

LEMMA FiniteInit ==
  ASSUME FiniteGarbage
  PROVE  Init => FiniteInv /\ StartsStationary
BY IdentityType, MatrixDefined, NumbersDefined, PointAssumption
   DEF Init, FiniteInv, StartsStationary, FiniteGarbage

(* Only a frame and a throw move the clock or change how it moves.         *)
LEMMA StillUnchanged ==
  ASSUME [Next]_vars, ~Pointing,
         ~ \E now \in Times : Render(now)
  PROVE  UNCHANGED still
<1>1. CASE UNCHANGED vars
  BY <1>1 DEF vars, still
<1>2. CASE Timing
  BY <1>2 DEF Timing, still, vars, SetUpdateRate, RateOutOfRange, RateUnchanged, RateChanged,
              TimerElapses, HandleTimeout
<1>3. CASE Showing
  BY <1>3 DEF Showing, still, Realize, Unrealize, Expose
<1>4. CASE Destroy
  BY <1>4 DEF Destroy, still
<1>5. CASE WindowClosed
  BY <1>5 DEF WindowClosed, still, motion, pose
<1> QED BY <1>1, <1>2, <1>3, <1>4, <1>5 DEF Next

(* A frame of a clock with finite members leaves a finite attitude, and    *)
(* the attitude it found when there is no speed.                           *)
LEMMA FrameFinite ==
  ASSUME TypeOK, FiniteInv, NEW now \in Times
  PROVE  /\ Rotated(RenderAngle(now)) \in Matrix \cup {Oblique}
         /\ rate = 0 => Rotated(RenderAngle(now)) = attitude
<1>1. /\ rate \in Int \cup {Oblique} /\ axis \in Vector /\ attitude \in Matrix \cup {Oblique}
      /\ rate # NotFinite /\ axis # NotFinite /\ attitude # NotFinite
  BY DEF TypeOK, FiniteInv
<1>2. Elapsed(lastUpdated, now) \in Int
  BY ElapsedType DEF TypeOK
<1>3. RenderAngle(now) \in Int \cup {Oblique}
  BY <1>1, <1>2 DEF RenderAngle
<1>4. rate = 0 => RenderAngle(now) = 0
  BY <1>2, NumbersDefined DEF RenderAngle
<1>5. RenderAngle(now) # NotFinite
  BY <1>3, NumbersDefined
<1>6. CASE RenderAngle(now) = Oblique \/ attitude = Oblique
  <2>1. Rotated(RenderAngle(now)) = Oblique
    BY <1>1, <1>5, <1>6 DEF Rotated
  <2>2. ASSUME rate = 0 PROVE attitude = Oblique
    BY <1>4, <1>6, <2>2, NumbersDefined
  <2> QED BY <2>1, <2>2
<1>7. CASE RenderAngle(now) # Oblique /\ attitude # Oblique
  <2>1. RenderAngle(now) \in Int /\ attitude \in Matrix
    BY <1>1, <1>3, <1>7
  <2>2. Rotated(RenderAngle(now)) = Multiply(Rotate(RenderAngle(now), axis), attitude)
    BY <1>1, <1>5, <1>7 DEF Rotated
  <2>3. Rotated(RenderAngle(now)) \in Matrix
    BY <1>1, <2>1, <2>2, RotateType, MultiplyType
  <2>4. ASSUME rate = 0 PROVE Rotated(RenderAngle(now)) = attitude
    BY <1>1, <1>4, <2>1, <2>2, <2>4, RotateByNothing, IdentityIsNeutral
  <2> QED BY <2>3, <2>4
<1> QED BY <1>6, <1>7

LEMMA FiniteStep ==
  TypeInv /\ FiniteInv /\ StartsStationary /\ [Next]_vars => (FiniteInv /\ StartsStationary)'
<1> SUFFICES ASSUME TypeInv, FiniteInv, StartsStationary, [Next]_vars
             PROVE  (FiniteInv /\ StartsStationary)'
  OBVIOUS
<1> USE DEF FiniteInv, StartsStationary
<1>1. ASSUME NEW b \in Buttons, NEW p \in Points, ButtonPress(b, p)
      PROVE  (FiniteInv /\ StartsStationary)'
  BY <1>1, PointsDefined DEF ButtonPress, BeginDrag, NoDrag
<1>2. ASSUME NEW b \in Buttons, NEW p \in Points, ButtonRelease(b, p)
      PROVE  (FiniteInv /\ StartsStationary)'
  <2>1. CASE b = 1
    <3>1. origin \in Points
      BY DEF TypeInv, TypeOK
    <3>2. /\ Minus(p, origin) # NotFinite /\ Speed(Minus(p, origin)) # NotFinite
          /\ ThrowAxis(Minus(p, origin)) # NotFinite
      BY <3>1, DisplacementType, NumbersDefined
    <3> QED BY <1>2, <2>1, <3>2 DEF ButtonRelease, EndDrag
  <2>2. CASE b # 1
    BY <1>2, <2>2 DEF ButtonRelease, NoDrag
  <2> QED BY <2>1, <2>2
<1>3. CASE AbortOnDoublePress
  BY <1>3 DEF AbortOnDoublePress
<1>4. CASE DoublePress
  <2>1. recent = 1 => downAt \in Points
    BY <1>4 DEF DoublePress, TypeInv, TypeOK, GestureKnown, HeldKnown, SecondFollowsPress, HeldKnown, GestureKnown
  <2> QED BY <1>4, <2>1, PointsDefined DEF DoublePress, BeginDrag, NoDrag
<1>5. ASSUME NEW b \in Buttons, MenuTakesRelease(b) PROVE (FiniteInv /\ StartsStationary)'
  BY <1>5 DEF MenuTakesRelease
<1>6. ASSUME NEW b \in Buttons, NEW p \in Points, MenuClosedByPress(b, p) PROVE (FiniteInv /\ StartsStationary)'
  BY <1>6 DEF MenuClosedByPress
<1>7. CASE MenuClosed
  BY <1>7 DEF MenuClosed
<1>8. ASSUME NEW now \in Times, Render(now) PROVE (FiniteInv /\ StartsStationary)'
  <2>1. attitude' \in Matrix \cup {Oblique} /\ (rate = 0 => attitude' = attitude)
    BY <1>8, FrameFinite DEF Render, TypeInv
  <2> QED BY <1>8, <2>1, MatrixDefined, NumbersDefined DEF Render
<1>9. CASE UNCHANGED still
  BY <1>9 DEF still
<1> QED BY <1>1, <1>2, <1>3, <1>4, <1>5, <1>6, <1>7, <1>8, <1>9, StillUnchanged DEF Pointing

(* README: the clock just starts stationary.  It does, from any finite     *)
(* garbage in _axis, whatever the wall clock does; and it is stationary    *)
(* again after a click in place.                                           *)
THEOREM StationaryUntilDragged ==
  ASSUME FiniteGarbage
  PROVE  Spec => []StartsStationary
BY TypeInit, TypeStep, FiniteInit, FiniteStep, PTL DEF Spec

(* The attitude becomes NaN only through uninitialised memory: no drag, no *)
(* click in place and no step of the wall clock does it.                   *)
THEOREM NaNOnlyFromGarbage == Spec => []BrokenOnlyFromGarbage
<1>1. CASE FiniteGarbage
  <2>1. FiniteInv => BrokenOnlyFromGarbage
    BY DEF FiniteInv, BrokenOnlyFromGarbage
  <2> QED BY <1>1, <2>1, TypeInit, TypeStep, FiniteInit, FiniteStep, PTL DEF Spec
<1>2. CASE ~FiniteGarbage
  <2>1. BrokenOnlyFromGarbage
    BY <1>2 DEF BrokenOnlyFromGarbage
  <2> QED BY <2>1, PTL
<1> QED BY <1>1, <1>2

-----------------------------------------------------------------------------
(***************************************************************************)
(* The course of the attitude.  That it can be computed from the last      *)
(* throw needs an axis about which angles add up, which any axis is that a *)
(* throw with a speed has left, and no speed where the axis is garbage.    *)
(***************************************************************************)
CourseInv ==
  /\ rate = NotFinite => axis = NotFinite
  /\ axis # NotFinite /\ rate # 0 /\ rate # Oblique => AlongOneAxis(axis)
  /\ Exact(attitude) => Exact(start) /\ Upright(attitude)
  /\ lastUpdated = Zero => base = Zero
  /\ RotationCompensated
  /\ AttitudeProper

course == <<rate, axis, attitude, start, base, lastUpdated>>

LEMMA IdentityProper == ProperRotation(Identity) /\ Upright(Identity)
<1>1. Det3(Identity) = 1
  BY DEF Det3, Identity, Index
<1>2. TransposeOf(Identity) = Identity
  BY DEF TransposeOf, Identity, Index
<1> QED BY <1>1, <1>2, IdentityIsNeutral, IdentityType DEF ProperRotation, Upright

LEMMA StampType ==
  ASSUME NEW t \in Times \cup {Zero}
  PROVE  Stamp(t) \in Int
<1>1. UsecPerSec \in Int /\ Seconds \subseteq Int
  BY TimeAssumption
<1>2. CASE t \in Times
  <2>1. t.sec \in Seconds /\ t.usec \in 0..(UsecPerSec - 1)
    BY <1>2 DEF Times
  <2>2. 0..(UsecPerSec - 1) \subseteq Int
    BY <1>1
  <2>3. t.sec \in Int /\ t.usec \in Int
    BY <1>1, <2>1, <2>2
  <2> HIDE DEF Times
  <2> QED BY <1>1, <2>3 DEF Stamp
<1>3. CASE t = Zero
  BY <1>1, <1>3 DEF Zero, Stamp
<1> QED BY <1>2, <1>3

LEMMA ElapsedIsDifference ==
  ASSUME NEW t \in Times, NEW u \in Times
  PROVE  Elapsed(t, u) = Stamp(u) - Stamp(t)
<1>1. UsecPerSec \in Int /\ Seconds \subseteq Int
  BY TimeAssumption
<1>2. 0..(UsecPerSec - 1) \subseteq Int
  BY <1>1
<1>3. /\ t.sec \in Seconds /\ t.usec \in 0..(UsecPerSec - 1)
      /\ u.sec \in Seconds /\ u.usec \in 0..(UsecPerSec - 1)
  BY DEF Times
<1>4. t.sec \in Int /\ t.usec \in Int /\ u.sec \in Int /\ u.usec \in Int
  BY <1>1, <1>2, <1>3
<1> HIDE DEF Times
<1>5. PICK a \in Int, b \in Int, c \in Int, d \in Int, n \in Int :
        a = t.sec /\ b = t.usec /\ c = u.sec /\ d = u.usec /\ n = UsecPerSec
  BY <1>1, <1>4
<1>6. (c - a) * n + d - b = (c * n + d) - (a * n + b)
  OBVIOUS
<1> QED BY <1>5, <1>6 DEF Elapsed, Stamp

LEMMA CourseInit == Init => CourseInv
<1> SUFFICES ASSUME Init PROVE CourseInv
  OBVIOUS
<1>1. rate = 0 /\ attitude = Identity /\ start = Identity /\ base = Zero /\ lastUpdated = Zero
  BY DEF Init
<1>2. Exact(Identity) /\ 0 # NotFinite
  BY IdentityType, MatrixDefined, NumbersDefined DEF Exact
<1>3. RotationCompensated
  <2> SUFFICES ASSUME axis # NotFinite
               PROVE  attitude = Multiply(Rotate(rate * (Stamp(lastUpdated) - Stamp(base)), axis), start)
    BY DEF RotationCompensated
  <2>1. axis \in Vector
    BY PointAssumption DEF Init
  <2>2. Stamp(Zero) \in Int
    BY StampType
  <2>3. rate * (Stamp(lastUpdated) - Stamp(base)) = 0
    BY <1>1, <2>2
  <2> QED BY <1>1, <2>1, <2>3, RotateByNothing, IdentityIsNeutral, IdentityType
<1> QED BY <1>1, <1>2, <1>3, IdentityProper DEF CourseInv, AttitudeProper

(* Only a frame and a throw change the course.                             *)
LEMMA CourseUnchanged ==
  ASSUME [Next]_vars, ~ \E now \in Times : Render(now), ~ \E p \in Points : ButtonRelease(1, p)
  PROVE  UNCHANGED course
<1> USE DEF course
<1>1. CASE UNCHANGED vars
  BY <1>1 DEF vars
<1>2. CASE Timing
  BY <1>2 DEF Timing, vars, SetUpdateRate, RateOutOfRange, RateUnchanged, RateChanged,
              TimerElapses, HandleTimeout
<1>3. CASE Showing
  BY <1>3 DEF Showing, Realize, Unrealize, Expose
<1>4. CASE Destroy
  BY <1>4 DEF Destroy
<1>5. CASE WindowClosed
  BY <1>5 DEF WindowClosed
<1>6. ASSUME NEW b \in Buttons, NEW p \in Points, ButtonPress(b, p) PROVE UNCHANGED course
  BY <1>6 DEF ButtonPress, BeginDrag, NoDrag
<1>7. ASSUME NEW b \in Buttons, NEW p \in Points, ButtonRelease(b, p) PROVE UNCHANGED course
  <2>1. b # 1
    BY <1>7
  <2> QED BY <1>7, <2>1 DEF ButtonRelease, NoDrag
<1>8. CASE AbortOnDoublePress
  BY <1>8 DEF AbortOnDoublePress
<1>9. CASE DoublePress
  BY <1>9 DEF DoublePress, BeginDrag, NoDrag
<1>10. ASSUME NEW b \in Buttons, MenuTakesRelease(b) PROVE UNCHANGED course
  BY <1>10 DEF MenuTakesRelease
<1>11. ASSUME NEW b \in Buttons, NEW p \in Points, MenuClosedByPress(b, p) PROVE UNCHANGED course
  BY <1>11 DEF MenuClosedByPress
<1>12. CASE MenuClosed
  BY <1>12 DEF MenuClosed
<1> QED
  BY <1>1, <1>2, <1>3, <1>4, <1>5, <1>6, <1>7, <1>8, <1>9, <1>10, <1>11, <1>12 DEF Next, Pointing

(* A throw starts a new course, along one axis if it has a speed.          *)
LEMMA ThrowStartsCourse ==
  ASSUME TypeInv, CourseInv, NEW p \in Points, ButtonRelease(1, p)
  PROVE  CourseInv'
<1>1. EndDrag(p) /\ UNCHANGED <<attitude, lastUpdated>>
  BY DEF ButtonRelease
<1>2. base' = lastUpdated /\ start' = attitude
  BY <1>1 DEF EndDrag
<1>3. CASE origin = NotFinite
  <2>1. rate' = NotFinite /\ axis' = NotFinite
    BY <1>1, <1>3 DEF EndDrag
  <2>2. RotationCompensated'
    BY <2>1 DEF RotationCompensated, Exact
  <2> QED BY <1>1, <1>2, <2>1, <2>2 DEF CourseInv, AttitudeProper
<1>4. CASE origin # NotFinite
  <2>1. origin \in Points
    BY <1>4 DEF TypeInv, TypeOK
  <2> DEFINE v == Minus(p, origin)
  <2>2. /\ v \in Int \X Int /\ v # NotFinite /\ Sum2(v) \in Nat /\ ThrowAxis(v) \in Vector
        /\ Speed(v) \in Nat \cup {Oblique}
    BY <2>1, DisplacementType, NumbersDefined
  <2>3. rate' = Speed(v) /\ axis' = ThrowAxis(v)
    BY <1>1, <1>4, <2>2 DEF EndDrag
  <2>4. ASSUME rate' # 0, rate' # Oblique PROVE AlongOneAxis(axis')
    <3>1. Straight(v) /\ Sum2(v) # 0
      BY <2>3, <2>4 DEF Speed
    <3>2. v[1] = 0 \/ v[2] = 0
      BY <3>1 DEF Straight
    <3>3. Sum2(v) # 0 => v[1] # 0 \/ v[2] # 0
      BY <2>2 DEF Sum2, AbsValue
    <3> HIDE DEF v
    <3>4. Sum2(v) # 0 => AlongOneAxis(<<v[2], v[1], 0>>)
      BY <2>2, <3>2, <3>3 DEF AlongOneAxis
    <3> QED BY <2>3, <3>1, <3>4 DEF ThrowAxis
  <2>5. /\ rate' \in Nat \cup {Oblique} /\ axis' \in Vector
        /\ rate' # NotFinite /\ axis' # NotFinite
    BY <2>2, <2>3, NumbersDefined
  <2> HIDE DEF v
  <2>6. RotationCompensated'
    <3> SUFFICES ASSUME Exact(attitude), Exact(rate')
                 PROVE  attitude = Multiply(Rotate(rate' * (Stamp(lastUpdated) - Stamp(lastUpdated)), axis'), attitude)
      BY <1>1, <1>2 DEF RotationCompensated, Stamp, Exact
    <3>1. attitude \in Matrix /\ rate' \in Nat /\ Stamp(lastUpdated) \in Int
      BY <2>5, StampType DEF TypeInv, TypeOK, Exact
    <3>2. rate' * (Stamp(lastUpdated) - Stamp(lastUpdated)) = 0
      BY <3>1
    <3> QED BY <2>5, <3>1, <3>2, RotateByNothing, IdentityIsNeutral
  <2> QED BY <1>1, <1>2, <2>4, <2>5, <2>6 DEF CourseInv, AttitudeProper, Exact
<1> QED BY <1>3, <1>4

(* A frame turns on along the course.                                      *)
LEMMA FrameKeepsCourse ==
  ASSUME TypeInv, CourseInv, NEW now \in Times, Render(now)
  PROVE  CourseInv'
<1>1. /\ attitude' = Rotated(RenderAngle(now)) /\ lastUpdated' = now
      /\ base' = IF lastUpdated.sec = 0 THEN now ELSE base
      /\ UNCHANGED <<rate, axis, start>>
  BY DEF Render
<1>2. now # Zero /\ (lastUpdated.sec = 0 <=> lastUpdated = Zero)
  BY TimeAssumption DEF TypeInv, TypeOK, Times, Zero
<1>3. CASE axis = NotFinite \/ ~Exact(attitude) \/ (rate = Oblique /\ RenderAngle(now) # 0)
  <2>1. rate = Oblique => RenderAngle(now) \in {0, Oblique}
    BY NumbersDefined DEF RenderAngle
  <2>2. ~Exact(attitude')
    BY <1>1, <1>3, <2>1 DEF Rotated, Exact
  <2>3. RotationCompensated' /\ AttitudeProper'
    BY <2>2 DEF RotationCompensated, AttitudeProper, Exact
  <2>4. lastUpdated' # Zero
    BY <1>1, <1>2
  <2> QED BY <1>1, <2>2, <2>3, <2>4 DEF CourseInv, Exact
<1>4. CASE axis # NotFinite /\ Exact(attitude) /\ rate = Oblique /\ RenderAngle(now) = 0
  <2>1. attitude \in Matrix /\ axis \in Vector /\ 0 # NotFinite /\ 0 # Oblique
    BY <1>4, NumbersDefined DEF TypeInv, TypeOK, Exact
  <2>2. attitude' = Multiply(Rotate(0, axis), attitude)
    BY <1>1, <1>4, <2>1 DEF Rotated, Exact
  <2>3. attitude' = attitude
    BY <2>1, <2>2, RotateByNothing, IdentityIsNeutral
  <2>4. RotationCompensated'
    BY <1>1, <1>4 DEF RotationCompensated, Exact
  <2>5. AttitudeProper'
    BY <2>3 DEF CourseInv, AttitudeProper, Exact
  <2>6. lastUpdated' # Zero /\ rate' = Oblique /\ rate # NotFinite
    BY <1>1, <1>2, <1>4, NumbersDefined
  <2> QED BY <1>1, <1>4, <2>3, <2>4, <2>5, <2>6 DEF CourseInv, Exact
<1>5. CASE axis # NotFinite /\ Exact(attitude) /\ rate # Oblique
  <2>1. /\ rate \in Nat /\ rate # NotFinite /\ rate # Oblique /\ axis \in Vector
        /\ attitude \in Matrix /\ start \in Matrix
    BY <1>5 DEF TypeInv, TypeOK, CourseInv, Exact
  <2>2. /\ Stamp(now) \in Int /\ Stamp(lastUpdated) \in Int /\ Stamp(base) \in Int
        /\ lastUpdated # Zero => Elapsed(lastUpdated, now) = Stamp(now) - Stamp(lastUpdated)
    BY StampType, ElapsedIsDifference DEF TypeInv, TypeOK
  <2> DEFINE gone  == rate * (Stamp(lastUpdated) - Stamp(base))
             angle == RenderAngle(now)
  <2>3. gone \in Int /\ angle \in Int
    BY <1>2, <2>1, <2>2 DEF RenderAngle
  <2>4. attitude' = Multiply(Rotate(angle, axis), attitude) /\ attitude' \in Matrix
    BY <1>1, <1>5, <2>1, <2>3, NumbersDefined, RotateType, MultiplyType DEF Rotated, Exact
  <2>5. attitude = Multiply(Rotate(gone, axis), start)
    BY <1>5, <2>1 DEF CourseInv, RotationCompensated, Exact
  <2>6. rate' * (Stamp(lastUpdated') - Stamp(base')) =
          IF lastUpdated = Zero THEN 0 ELSE gone + angle
    BY <1>1, <1>2, <2>1, <2>2 DEF RenderAngle
  <2>7. attitude' = Multiply(Rotate(rate' * (Stamp(lastUpdated') - Stamp(base')), axis), start)
    <3>1. CASE rate = 0 \/ lastUpdated = Zero
      <4>1. gone = 0 /\ angle = 0
        BY <1>2, <2>1, <2>2, <3>1 DEF CourseInv, RenderAngle
      <4>2. rate' * (Stamp(lastUpdated') - Stamp(base')) = 0
        BY <2>6, <4>1
      <4> QED BY <2>1, <2>4, <2>5, <4>1, <4>2, RotateByNothing, IdentityIsNeutral
    <3>2. CASE rate # 0 /\ lastUpdated # Zero
      <4>1. AlongOneAxis(axis)
        BY <1>5, <3>2 DEF CourseInv
      <4>2. Multiply(Rotate(angle, axis), Rotate(gone, axis)) = Rotate(gone + angle, axis)
        BY <2>1, <2>3, <4>1, AnglesAddUp
      <4>3. Rotate(angle, axis) \in Matrix /\ Rotate(gone, axis) \in Matrix
        BY <2>1, <2>3, RotateType
      <4> QED BY <2>1, <2>4, <2>5, <2>6, <3>2, <4>2, <4>3, MultiplyAssociates
    <3> QED BY <3>1, <3>2
  <2>8. ProperRotation(attitude') /\ Upright(attitude')
    <3>1. ProperRotation(attitude) /\ Upright(attitude)
      BY <1>5 DEF CourseInv, AttitudeProper
    <3>2. CASE rate = 0
      <4>1. angle = 0
        BY <1>2, <2>1, <2>2, <3>2 DEF RenderAngle
      <4> QED BY <2>1, <2>4, <3>1, <4>1, RotateByNothing, IdentityIsNeutral
    <3>3. CASE rate # 0
      <4>1. AlongOneAxis(axis)
        BY <1>5, <3>3 DEF CourseInv
      <4> QED BY <2>1, <2>3, <2>4, <3>1, <4>1, TurnKeepsProper, TurnKeepsUpright
    <3> QED BY <3>2, <3>3
  <2>9. RotationCompensated' /\ AttitudeProper'
    <3> HIDE DEF gone, angle
    <3> QED BY <1>1, <2>7, <2>8 DEF RotationCompensated, AttitudeProper, Stamp, Exact
  <2> HIDE DEF gone, angle
  <2> QED BY <1>1, <1>2, <1>5, <2>1, <2>8, <2>9, MatrixDefined DEF CourseInv, Exact
<1> QED BY <1>3, <1>4, <1>5

LEMMA CourseStep == TypeInv /\ CourseInv /\ [Next]_vars => CourseInv'
<1> SUFFICES ASSUME TypeInv, CourseInv, [Next]_vars PROVE CourseInv'
  OBVIOUS
<1>1. CASE UNCHANGED course
  BY <1>1 DEF course, CourseInv, RotationCompensated, AttitudeProper, Stamp, Exact
<1> QED BY <1>1, FrameKeepsCourse, ThrowStartsCourse, CourseUnchanged

(* NEWS 1.2.1: the rotation speed is compensated by the clock.  Whatever   *)
(* the frames, and however the wall clock is set, the attitude is that at  *)
(* the last throw, turned by the speed times the time since then.          *)
THEOREM AlwaysCompensated == Spec => []RotationCompensated
<1>1. CourseInv => RotationCompensated
  BY DEF CourseInv
<1> QED BY <1>1, TypeInit, TypeStep, CourseInit, CourseStep, PTL DEF Spec

(* No sequence of throws and frames shears, scales or mirrors the clock.   *)
THEOREM AlwaysProper == Spec => []AttitudeProper
<1>1. CourseInv => AttitudeProper
  BY DEF CourseInv
<1> QED BY <1>1, TypeInit, TypeStep, CourseInit, CourseStep, PTL DEF Spec

(***************************************************************************)
(* A quarter turn about the axis a throw has left.                         *)
(***************************************************************************)
LEMMA QuarterTurnTowards ==
  ASSUME NEW d \in Int \X Int, NEW a \in Int, a % 4 = 1, AlongOneAxis(ThrowAxis(d))
  PROVE  LET turn == Rotate(a, ThrowAxis(d))
         IN turn[2][0] = Sign(d[1]) /\ turn[2][1] = -Sign(d[2]) /\ turn[2][2] = 0
<1>1. PICK x \in Int, y \in Int : d = <<x, y>>
  OBVIOUS
<1>2. ThrowAxis(d) = <<y, x, 0>> /\ ThrowAxis(d) \in Vector
  BY <1>1 DEF ThrowAxis, Vector
<1>3. Normalized(ThrowAxis(d)) = <<Sign(y), Sign(x), 0>>
  BY <1>2, NormalizedIsUnit DEF Signum, Sign
<1>4. Cos(a) = 0 /\ Sin(a) = 1
  BY DEF Cos, Sin
<1>5. Sign(x) \in Int /\ Sign(y) \in Int
  BY DEF Sign
<1>6. Rotate(a, ThrowAxis(d)) = RotationAbout(<<Sign(y), Sign(x), 0>>, 0, 1)
  BY <1>3, <1>4 DEF Rotate
<1> HIDE DEF Sign, Rotate, Normalized
<1> QED BY <1>1, <1>5, <1>6 DEF RotationAbout, Index

(* README: the clock rotates in the direction you drag.  Between any two   *)
(* frames a quarter turn apart, the point that was nearest to the viewer   *)
(* has gone where the last throw pointed.                                  *)
THEOREM AlwaysTowardDrag == Spec => TurnsTowardDrag
<1>1. TypeInv /\ GestureInv /\ CourseInv /\ [Next]_vars =>
        [ (/\ drag # None /\ ~blind /\ Straight(drag)
           /\ Exact(attitude) /\ lastUpdated # lastUpdated' /\ lastUpdated # Zero
           /\ Sum2(drag) * (Stamp(lastUpdated') - Stamp(lastUpdated)) % 4 = 1)
          => LET turn == Multiply(attitude', TransposeOf(attitude))
             IN /\ turn[2][0] = Sign(drag[1])
                /\ turn[2][1] = -Sign(drag[2])
                /\ turn[2][2] = 0 ]_vars
  <2> SUFFICES ASSUME TypeInv, GestureInv, CourseInv, [Next]_vars,
                      drag # None, ~blind, Straight(drag),
                      Exact(attitude), lastUpdated # lastUpdated', lastUpdated # Zero,
                      Sum2(drag) * (Stamp(lastUpdated') - Stamp(lastUpdated)) % 4 = 1
               PROVE  LET turn == Multiply(attitude', TransposeOf(attitude))
                      IN /\ turn[2][0] = Sign(drag[1])
                         /\ turn[2][1] = -Sign(drag[2])
                         /\ turn[2][2] = 0
    OBVIOUS
  <2>1. PICK now \in Times : Render(now)
    BY CourseUnchanged DEF course, ButtonRelease
  <2>2. drag \in Int \X Int /\ rate = Sum2(drag) /\ axis = ThrowAxis(drag)
    BY DEF GestureInv, ThrowFollowsGesture, Thrown, Speed, ThrowAxis, TypeInv, TypeOK
  <2>3. Sum2(drag) \in Nat /\ ThrowAxis(drag) \in Vector
    BY <2>2 DEF Sum2, AbsValue, ThrowAxis, Vector
  <2>4. rate # NotFinite /\ rate # Oblique /\ axis # NotFinite /\ attitude \in Matrix
    BY <2>2, <2>3, NumbersDefined DEF TypeInv, TypeOK, Exact
  <2>5. lastUpdated \in Times /\ lastUpdated.sec # 0 /\ lastUpdated' = now
    BY <2>1, TimeAssumption DEF Render, TypeInv, TypeOK, Times
  <2> DEFINE angle == RenderAngle(now)
  <2>6. angle = Sum2(drag) * (Stamp(now) - Stamp(lastUpdated)) /\ angle \in Int
    <3>1. Stamp(now) \in Int /\ Stamp(lastUpdated) \in Int
      BY <2>5, StampType
    <3>2. Elapsed(lastUpdated, now) = Stamp(now) - Stamp(lastUpdated)
      BY <2>5, ElapsedIsDifference
    <3> QED BY <2>2, <2>3, <2>4, <2>5, <3>1, <3>2 DEF RenderAngle
  <2> HIDE DEF angle
  <2>7. angle % 4 = 1 /\ rate # 0
    <3>1. Stamp(lastUpdated') = Stamp(now)
      BY <2>5
    <3>2. angle % 4 = 1
      BY <2>6, <3>1
    <3>3. CASE rate = 0
      <4>1. Stamp(now) - Stamp(lastUpdated) \in Int
        BY <2>5, StampType
      <4>2. angle = 0
        BY <2>2, <2>6, <3>3, <4>1
      <4> QED BY <3>2, <4>2
    <3> QED BY <3>2, <3>3
  <2>8. AlongOneAxis(axis) /\ Upright(attitude)
    BY <2>4, <2>7 DEF CourseInv
  <2>9. attitude' = Multiply(Rotate(angle, axis), attitude)
    BY <2>1, <2>4, <2>6, NumbersDefined, MatrixDefined DEF Render, Rotated, angle
  <2>10. Multiply(attitude', TransposeOf(attitude)) = Rotate(angle, ThrowAxis(drag))
    BY <2>2, <2>3, <2>4, <2>6, <2>8, <2>9, TurnKeepsUpright
  <2> QED BY <2>2, <2>6, <2>7, <2>8, <2>10, QuarterTurnTowards
<1> QED
  BY <1>1, TypeInit, TypeStep, GestureInit, GestureStep, CourseInit, CourseStep, PTL
     DEF Spec, TurnsTowardDrag
=============================================================================
