------------------------------ MODULE Movement ------------------------------
(***************************************************************************)
(* Class movement of lib/clock.h and lib/movement.cpp: the clock widget,   *)
(* its redraw timer, its attitude in space, and the mouse gestures that    *)
(* throw it.  All of it runs in GTK's single-threaded main loop, so each   *)
(* handler is one atomic action; what interleaves is the order in which    *)
(* the loop delivers timeouts, draws and button events.                    *)
(*                                                                         *)
(* GTK, GDK and GLib are external: of them the model keeps the live        *)
(* timeout sources, whether the widget is realized and has a draw queued,  *)
(* its GTK grab, the popup menu's grab, and the synthesis of double-click  *)
(* events.                                                                 *)
(*                                                                         *)
(* Units: a pointer position is in units of the widget's size, so that the *)
(* division by the allocation in end_drag is already done; one unit of     *)
(* drag times one unit of a time stamp is a quarter turn (see Mat4).       *)
(***************************************************************************)
EXTENDS Mat4Laws

CONSTANTS
  SourceIds,      \* identifiers g_timeout_add may return; 0 is never one
  Rates,          \* update rates callers ask for
  Buttons,        \* mouse buttons
  Points,         \* pointer positions
  InitAxes,       \* what the uninitialised _axis may hold
  InitPoints,     \* what the uninitialised _x0, _y0 may hold
  Seconds,        \* tv_sec values gettimeofday may return
  UsecPerSec,     \* 1000000 in the source
  AssertEnabled,  \* FALSE when built with NDEBUG
  NotFinite,      \* a NaN or an infinity, or data computed from one
  Oblique,        \* a speed or an attitude that the integers do not have
  None            \* no value (of the history variables)

ASSUME SourceIdAssumption == SourceIds \subseteq Nat \ {0}
ASSUME RateAssumption     == Rates \subseteq Int
ASSUME PointAssumption    == /\ Points \subseteq Int \X Int
                             /\ InitPoints \subseteq Points \cup {NotFinite}
                             /\ InitAxes \subseteq Vector \cup {NotFinite}
ASSUME TimeAssumption     == Seconds \subseteq Nat \ {0} /\ UsecPerSec \in Nat \ {0}
ASSUME OtherAssumption    == /\ AssertEnabled \in BOOLEAN
                             /\ NotFinite \notin Int \X Int
                             /\ NotFinite \notin Vector
                             /\ NotFinite \notin Matrix
                             /\ NotFinite \notin Int
                             /\ Oblique \notin Int \cup Matrix \cup {NotFinite}
                             /\ None \notin Int \X Int

VARIABLES
  life,           \* "live", "destroyed" (~movement has run) or "aborted" (assert)
  connected,      \* the widget's signals are connected to this object
  updateRate,     \* _update_rate
  updateTimeout,  \* _update_timeout
  sources,        \* GLib: live timeout sources whose callback is handle_timeout
  realized,       \* GTK: the widget is realized
  queued,         \* GTK: the widget has a draw queued
  grabbed,        \* GTK: the widget has the GTK grab
  menuShown,      \* GTK: the popup menu is up and holds the pointer
  held,           \* the mouse buttons that are down
  recent,         \* GDK: the button last pressed, if a double click may follow
  second,         \* GDK: a GDK_2BUTTON_PRESS of recent is about to be delivered
  rate,           \* _rate
  axis,           \* _axis
  attitude,       \* _attitude
  lastUpdated,    \* _last_updated
  origin,         \* _x0, _y0
  base,           \* history: lastUpdated when the clock was last thrown
  start,          \* history: attitude when the clock was last thrown
  downAt,         \* history: where the user put button 1 down, or None if it is up
  missed,         \* history: that press went to the menu, not to the clock
  drag,           \* history: how far the pointer went in the gesture that threw
                  \*          the clock last, or None
  blind,          \* history: the clock had not seen the press of that gesture
  lost            \* history: the menu took the release of a drag begun on the clock

owner    == <<life, connected>>
screen   == <<realized, queued>>
timer    == <<updateRate, updateTimeout, sources>>
pointer  == <<menuShown, held, recent, second>>
motion   == <<rate, axis, origin>>
pose     == <<attitude, lastUpdated>>
history  == <<base, start, downAt, missed, drag, blind, lost>>
unmoved  == <<motion, pose, history>>
vars     == <<owner, screen, timer, grabbed, pointer, unmoved>>

-----------------------------------------------------------------------------
(***************************************************************************)
(* Time stamps as gettimeofday returns them.                               *)
(***************************************************************************)
Zero    == [sec |-> 0, usec |-> 0]
Times   == [sec : Seconds, usec : 0..(UsecPerSec - 1)]
Stamp(t) == t.sec * UsecPerSec + t.usec
\* Mutant: whole seconds only.
ElapsedWholeSeconds(t, u) == (u.sec - t.sec) * UsecPerSec

Elapsed(t, u) == (u.sec - t.sec) * UsecPerSec + u.usec - t.usec

Sum2(p) == AbsValue(p[1]) + AbsValue(p[2])
Minus(p, q) == <<p[1] - q[1], p[2] - q[2]>>

(***************************************************************************)
(* The length of a drag.  One along x or along y has it in the integers; a *)
(* diagonal one is Oblique, and so is every attitude it turns the clock to.*)
(***************************************************************************)
Straight(v) == v[1] = 0 \/ v[2] = 0
Speed(v) == IF Straight(v) THEN Sum2(v) ELSE Oblique

DefaultUpdateRate == 20
Interval(r) == 1000 \div r

Source == [id : Nat, interval : Nat, due : BOOLEAN]
NewSource(id, r) == [id |-> id, interval |-> Interval(r), due |-> FALSE]

TimerOK ==
  /\ updateRate \in 1..100
  /\ updateTimeout \in Nat
  /\ sources \subseteq Source

WidgetOK ==
  /\ life \in {"live", "destroyed", "aborted"}
  /\ connected \in BOOLEAN
  /\ realized \in BOOLEAN /\ queued \in BOOLEAN /\ grabbed \in BOOLEAN

PointerOK ==
  /\ menuShown \in BOOLEAN /\ second \in BOOLEAN
  /\ held \subseteq Buttons /\ recent \in Buttons \cup {0}
  /\ downAt \in Points \cup {None}
  /\ missed \in BOOLEAN /\ blind \in BOOLEAN /\ lost \in BOOLEAN

MotionOK ==
  /\ rate \in Nat \cup {NotFinite, Oblique}
  /\ axis \in Vector \cup {NotFinite}
  /\ origin \in Points \cup {NotFinite}
  /\ drag \in (Int \X Int) \cup {None}

PoseOK ==
  /\ attitude \in Matrix \cup {NotFinite, Oblique}
  /\ start \in Matrix \cup {NotFinite, Oblique}
  /\ lastUpdated \in Times \cup {Zero}
  /\ base \in Times \cup {Zero}

TypeOK == TimerOK /\ WidgetOK /\ PointerOK /\ MotionOK /\ PoseOK

(***************************************************************************)
(* The state the constructor leaves: default member initialisers, handlers *)
(* connected, and the first timeout added by reset_timeout.                *)
(***************************************************************************)
Init ==
  /\ life = "live" /\ connected = TRUE
  /\ updateRate = DefaultUpdateRate
  /\ updateTimeout \in SourceIds
  /\ sources = {NewSource(updateTimeout, DefaultUpdateRate)}
  /\ realized = FALSE /\ queued = FALSE /\ grabbed = FALSE
  /\ menuShown = FALSE /\ held = {} /\ recent = 0 /\ second = FALSE
  /\ rate = 0 /\ axis \in InitAxes
  /\ attitude = Identity /\ start = Identity
  /\ lastUpdated = Zero /\ base = Zero
  /\ origin \in InitPoints
  /\ downAt = None /\ missed = FALSE /\ drag = None /\ blind = FALSE /\ lost = FALSE

-----------------------------------------------------------------------------
(***************************************************************************)
(* The redraw timer.                                                       *)
(***************************************************************************)
RemoveSource(id, S) == {s \in S : s.id # id}
UsedIds(S) == {s.id : s \in S}

(***************************************************************************)
(* reset_timeout, for a new rate r: remove the source this object knows    *)
(* of, if any, and add one with the interval of r.                         *)
(***************************************************************************)
\* Mutant: the old source is not removed.
ResetTimeoutLeaky(r) ==
  \E id \in SourceIds \ UsedIds(sources) :
    /\ updateTimeout' = id
    /\ sources' = sources \cup {NewSource(id, r)}

ResetTimeout(r) ==
  LET rest == IF updateTimeout = 0 THEN sources ELSE RemoveSource(updateTimeout, sources)
  IN \E id \in SourceIds \ UsedIds(rest) :
       /\ updateTimeout' = id
       /\ sources' = rest \cup {NewSource(id, r)}

\* Mutant: the upper bound is off by one.
InRangeOffByOne(r) == 1 <= r /\ r <= 101

InRange(r) == 1 <= r /\ r <= 100

(***************************************************************************)
(* set_update_rate: out of range it throws and changes nothing; asked for  *)
(* the current rate it lets the running timeout be.                        *)
(***************************************************************************)
RateOutOfRange(r) ==
  /\ life = "live" /\ ~InRange(r)
  /\ UNCHANGED vars

RateUnchanged(r) ==
  /\ life = "live" /\ r = updateRate
  /\ UNCHANGED vars

RateChanged(r) ==
  /\ life = "live" /\ InRange(r) /\ r # updateRate
  /\ updateRate' = r
  /\ ResetTimeout(r)
  /\ UNCHANGED <<owner, screen, grabbed, pointer, unmoved>>

SetUpdateRate(r) == RateOutOfRange(r) \/ RateUnchanged(r) \/ RateChanged(r)

\* Mutant: the callback returns false, and GLib removes the source.
DispatchedOnce(s) == sources \ {s}

Dispatched(s) == (sources \ {s}) \cup {[s EXCEPT !.due = FALSE]}

(***************************************************************************)
(* The interval of a source elapses; then the main loop may dispatch it.   *)
(***************************************************************************)
TimerElapses(s) ==
  /\ life # "aborted" /\ ~s.due
  /\ sources' = (sources \ {s}) \cup {[s EXCEPT !.due = TRUE]}
  /\ UNCHANGED <<owner, updateRate, updateTimeout, screen, grabbed, pointer, unmoved>>

(***************************************************************************)
(* handle_timeout: update() queues a render; returning true keeps the      *)
(* source, which starts another interval.                                  *)
(***************************************************************************)
HandleTimeout(s) ==
  /\ life = "live" /\ s.due
  /\ sources' = Dispatched(s)
  /\ queued' = TRUE
  /\ UNCHANGED <<owner, updateRate, updateTimeout, realized, grabbed, pointer, unmoved>>

-----------------------------------------------------------------------------
(***************************************************************************)
(* The widget's life on the screen.  handle_realize runs simple_init,      *)
(* whose result the movement ignores.                                      *)
(***************************************************************************)
Realize ==
  /\ life = "live" /\ connected /\ ~realized
  /\ realized' = TRUE /\ queued' = TRUE
  /\ UNCHANGED <<owner, timer, grabbed, pointer, unmoved>>

Unrealize ==
  /\ life # "aborted" /\ realized
  /\ realized' = FALSE
  /\ UNCHANGED <<owner, timer, queued, grabbed, pointer, unmoved>>

Expose ==
  /\ life # "aborted" /\ realized
  /\ queued' = TRUE
  /\ UNCHANGED <<owner, timer, realized, grabbed, pointer, unmoved>>

(***************************************************************************)
(* The angle render turns the clock by: none on the very first frame, else *)
(* the speed times the time since the last frame.                          *)
(***************************************************************************)
RenderAngle(now) ==
  IF lastUpdated.sec = 0 THEN 0
  ELSE IF rate = NotFinite THEN NotFinite
  ELSE IF rate = Oblique THEN (IF Elapsed(lastUpdated, now) = 0 THEN 0 ELSE Oblique)
  ELSE rate * Elapsed(lastUpdated, now)

(***************************************************************************)
(* rotate: one not-finite operand makes every entry of the product a NaN,  *)
(* and it stays so.                                                        *)
(***************************************************************************)
Rotated(angle) ==
  IF angle = NotFinite \/ axis = NotFinite \/ attitude = NotFinite THEN NotFinite
  ELSE IF angle = Oblique \/ attitude = Oblique THEN Oblique
  ELSE Multiply(Rotate(angle, axis), attitude)

(***************************************************************************)
(* handle_render, with `now' read by gettimeofday: the wall clock, which   *)
(* the administrator may also set back.                                    *)
(***************************************************************************)
Render(now) ==
  /\ life = "live" /\ connected /\ realized /\ queued
  /\ queued' = FALSE
  /\ attitude' = Rotated(RenderAngle(now))
  /\ lastUpdated' = now
  /\ base' = IF lastUpdated.sec = 0 THEN now ELSE base
  /\ UNCHANGED <<owner, timer, realized, grabbed, pointer, motion, start, downAt, missed, drag, blind, lost>>

-----------------------------------------------------------------------------
(***************************************************************************)
(* The gestures.  begin_drag takes the GTK grab and remembers the point;   *)
(* end_drag gives the grab back and sets speed and axis from the           *)
(* displacement, however long ago the point was remembered.                *)
(***************************************************************************)
\* Mutant: gtk_grab_add is missing.
BeginDragNoGrab(p) ==
  /\ origin' = p
  /\ downAt' = p /\ missed' = FALSE /\ lost' = FALSE
  /\ UNCHANGED <<grabbed, rate, axis>>

\* Mutant: with the grab already held, the point is not taken again.
BeginDragOnce(p) ==
  /\ grabbed' = TRUE
  /\ origin' = IF grabbed THEN origin ELSE p
  /\ downAt' = p /\ missed' = FALSE /\ lost' = FALSE
  /\ UNCHANGED <<rate, axis>>

BeginDrag(p) ==
  /\ grabbed' = TRUE
  /\ origin' = p
  /\ downAt' = p /\ missed' = FALSE /\ lost' = FALSE
  /\ UNCHANGED <<rate, axis>>

\* Mutant: y taken to be upward on the screen.
ThrowAxisUpward(v) == <<-v[2], v[1], 0>>

\* Mutant: the axis divided by its length, zero for a click in place.
ThrowAxisDivided(v) == IF v = <<0, 0>> THEN NotFinite ELSE <<v[2], v[1], 0>>

ThrowAxis(v) == <<v[2], v[1], 0>>

EndDrag(p) ==
  LET v == IF origin = NotFinite THEN NotFinite ELSE Minus(p, origin) IN
  /\ grabbed' = FALSE
  /\ rate' = IF v = NotFinite THEN NotFinite ELSE Speed(v)
  /\ axis' = IF v = NotFinite THEN NotFinite ELSE ThrowAxis(v)
  /\ drag' = Minus(p, downAt) /\ blind' = missed
  /\ downAt' = None /\ missed' = FALSE /\ lost' = FALSE
  /\ base' = lastUpdated /\ start' = attitude
  /\ UNCHANGED origin

NoDrag == UNCHANGED <<grabbed, motion, history>>

Listening == life = "live" /\ connected /\ realized

(***************************************************************************)
(* handle_button_press_event.  GDK delivers the second press of a double   *)
(* click as a GDK_BUTTON_PRESS and then once more as a GDK_2BUTTON_PRESS,  *)
(* through the same signal.                                                *)
(***************************************************************************)
ButtonPress(b, p) ==
  /\ Listening /\ ~menuShown /\ ~second /\ b \notin held
  /\ held' = held \cup {b}
  /\ recent' = b
  /\ second' \in IF recent = b THEN BOOLEAN ELSE {FALSE}
  /\ IF b = 1 THEN BeginDrag(p) /\ UNCHANGED <<base, start, drag, blind>> ELSE NoDrag
  /\ UNCHANGED <<owner, timer, screen, menuShown, pose>>

AbortOnDoublePress ==
  /\ Listening /\ second /\ AssertEnabled
  /\ life' = "aborted"
  /\ UNCHANGED <<connected, timer, screen, grabbed, pointer, unmoved>>

DoublePress ==
  /\ Listening /\ second /\ ~AssertEnabled
  /\ recent' = 0 /\ second' = FALSE
  /\ IF recent = 1 THEN BeginDrag(downAt) /\ UNCHANGED <<base, start, drag, blind>> ELSE NoDrag
  /\ UNCHANGED <<owner, timer, screen, menuShown, held, pose>>

(***************************************************************************)
(* handle_button_release_event: button 1 ends the drag, button 3 pops up   *)
(* the menu, which takes over the pointer.                                 *)
(***************************************************************************)
ButtonRelease(b, p) ==
  /\ Listening /\ ~menuShown /\ ~second /\ b \in held
  /\ held' = held \ {b}
  /\ IF b = 1 THEN EndDrag(p) ELSE NoDrag
  /\ menuShown' = (b = 3)
  /\ UNCHANGED <<owner, timer, screen, recent, second, pose>>

(***************************************************************************)
(* While the menu is up the clock sees no button event: a release goes to  *)
(* the menu; a press outside closes it and only the release that follows   *)
(* reaches the clock; choosing an item or Escape closes it.                *)
(***************************************************************************)
MenuTakesRelease(b) ==
  /\ Listening /\ menuShown /\ b \in held
  /\ held' = held \ {b}
  /\ menuShown' \in BOOLEAN
  /\ IF b = 1 THEN /\ downAt' = None /\ missed' = FALSE
                   /\ lost' = (lost \/ ~missed)
              ELSE UNCHANGED <<downAt, missed, lost>>
  /\ UNCHANGED <<owner, timer, screen, grabbed, recent, second, motion, pose,
                 base, start, drag, blind>>

MenuClosedByPress(b, p) ==
  /\ Listening /\ menuShown /\ b \notin held
  /\ held' = held \cup {b}
  /\ menuShown' = FALSE /\ recent' = 0
  /\ IF b = 1 THEN downAt' = p /\ missed' = TRUE ELSE UNCHANGED <<downAt, missed>>
  /\ UNCHANGED <<owner, timer, screen, grabbed, second, motion, pose,
                 base, start, drag, blind, lost>>

MenuClosed ==
  /\ Listening /\ menuShown
  /\ menuShown' = FALSE
  /\ UNCHANGED <<owner, timer, screen, grabbed, held, recent, second, unmoved>>

(***************************************************************************)
(* The window is closed (external): GTK destroys the widget with it, drops *)
(* the grab, the menu and the connections; the movement and its timer live *)
(* on until the main loop has ended.                                       *)
(***************************************************************************)
WindowClosed ==
  /\ life = "live" /\ connected
  /\ connected' = FALSE
  /\ realized' = FALSE /\ queued' = FALSE /\ grabbed' = FALSE
  /\ menuShown' = FALSE /\ held' = {} /\ recent' = 0 /\ second' = FALSE
  /\ downAt' = None /\ missed' = FALSE /\ lost' = FALSE
  /\ UNCHANGED <<life, timer, motion, pose, base, start, drag, blind>>

(***************************************************************************)
(* ~movement: nothing of GTK or GLib may call this object any more.        *)
(***************************************************************************)
\* Mutant: the timeout outlives the movement.
DestroyKeepsTimer ==
  /\ life = "live"
  /\ life' = "destroyed" /\ connected' = FALSE
  /\ UNCHANGED <<timer, screen, grabbed, pointer, unmoved>>

Destroy ==
  /\ life = "live"
  /\ life' = "destroyed" /\ connected' = FALSE
  /\ sources' = IF updateTimeout = 0 THEN sources ELSE RemoveSource(updateTimeout, sources)
  /\ updateTimeout' = 0
  /\ UNCHANGED <<updateRate, screen, grabbed, pointer, unmoved>>

-----------------------------------------------------------------------------
Pointing ==
  \/ \E b \in Buttons, p \in Points :
       ButtonPress(b, p) \/ ButtonRelease(b, p) \/ MenuClosedByPress(b, p)
  \/ AbortOnDoublePress \/ DoublePress
  \/ \E b \in Buttons : MenuTakesRelease(b)
  \/ MenuClosed

Timing ==
  \/ \E r \in Rates : SetUpdateRate(r)
  \/ \E s \in sources : TimerElapses(s) \/ HandleTimeout(s)

Showing == Realize \/ Unrealize \/ Expose \/ \E now \in Times : Render(now)

Next == Pointing \/ Timing \/ Showing \/ WindowClosed \/ Destroy

Spec == Init /\ [][Next]_vars

(***************************************************************************)
(* The main loop dispatches a timeout whose interval has elapsed and the   *)
(* frame clock draws a visible widget that has a draw queued.              *)
(***************************************************************************)
Fairness ==
  /\ WF_vars(\E s \in sources : TimerElapses(s))
  /\ WF_vars(\E s \in sources : HandleTimeout(s))
  /\ WF_vars(\E now \in Times : Render(now))

FairSpec == Spec /\ Fairness

-----------------------------------------------------------------------------
(***************************************************************************)
(* Properties.                                                             *)
(***************************************************************************)

(* However often the rate is changed, a live movement has exactly one live *)
(* timeout, the one it remembers, at the interval of its current rate.     *)
OneTimeout ==
  life = "live" =>
    \E due \in BOOLEAN :
      sources = {[NewSource(updateTimeout, updateRate) EXCEPT !.due = due]}

(* Once ~movement has run neither GLib nor GTK can call the dead object.   *)
NoDanglingCallback == life = "destroyed" => sources = {} /\ ~connected

\* The attitude, or the speed, is one the integers have.
Exact(x) == x \notin {NotFinite, Oblique}

(* NEWS 1.2.1: the rotation speed is compensated by the clock.  However    *)
(* irregular the frames, after each one the attitude is that at the throw, *)
(* turned by the speed times the wall-clock time since the throw.          *)
RotationCompensated ==
  Exact(attitude) /\ Exact(rate) /\ axis # NotFinite =>
    attitude = Multiply(Rotate(rate * (Stamp(lastUpdated) - Stamp(base)), axis), start)

Thrown(v) == rate = Speed(v) /\ axis = <<v[2], v[1], 0>>

(* README: the clock rotates in the direction you drag, the faster the     *)
(* longer you drag.  Every throw has the length and the axis of the        *)
(* gesture the user made, from where the button went down.                 *)
ThrowIsTheGesture == drag # None => Thrown(drag)

(* So much is true of it: a throw is that of the gesture whenever the      *)
(* clock saw the press, whatever menus, lost releases, double clicks and   *)
(* throws from a press it did not see came before.                         *)
ThrowFollowsGesture == drag # None /\ ~blind => Thrown(drag)

(* README: the clock rotates in the direction you drag.  The point nearest *)
(* the viewer, after a quarter turn, lies where the drag pointed (y is     *)
(* downward on the screen and upward in space).                            *)
Sign(x) == IF x > 0 THEN 1 ELSE IF x < 0 THEN -1 ELSE 0
TurnsTowardDrag ==
  [][ (/\ drag # None /\ ~blind /\ Straight(drag)
       /\ Exact(attitude) /\ lastUpdated # lastUpdated' /\ lastUpdated # Zero
       /\ Sum2(drag) * (Stamp(lastUpdated') - Stamp(lastUpdated)) % 4 = 1)
      => LET turn == Multiply(attitude', TransposeOf(attitude))
         IN /\ turn[2][0] = Sign(drag[1])
            /\ turn[2][1] = -Sign(drag[2])
            /\ turn[2][2] = 0 ]_vars

(* The attitude stays a proper rotation: columns orthonormal, handedness   *)
(* kept, no translation; the clock is never sheared, scaled or mirrored.   *)
AttitudeProper == Exact(attitude) => ProperRotation(attitude)

(* README: the clock just starts stationary.  Until a drag has given it a  *)
(* speed, and whenever one has left it without, drawing does not turn it.  *)
StartsStationary == rate = 0 => attitude = start

\* The uninitialised members happen to hold finite numbers.
FiniteGarbage == NotFinite \notin InitAxes /\ NotFinite \notin InitPoints

(* The only way to a not-finite attitude is uninitialised memory.          *)
BrokenOnlyFromGarbage ==
  attitude = NotFinite => ~FiniteGarbage

(* The program does not fail its own assertion on the event's type.        *)
AssertionsHold == life # "aborted"

(* The GTK grab is held from the press of button 1 the clock saw until its *)
(* release, and beyond only if the popup menu took that release, until the *)
(* next one the clock sees.                                                *)
GrabAccounted == grabbed <=> (downAt # None /\ ~missed) \/ lost

(* While the clock stays live and on screen and its rate is left alone, it *)
(* is drawn again and again.                                               *)
KeepsRedrawing ==
  (<>[](life = "live" /\ realized) /\ <>[][updateRate' = updateRate]_updateRate)
    => []<><<\E now \in Times : Render(now)>>_vars
=============================================================================
