SPECIFICATION DragSpec
CONSTANTS
  SourceIds = {1}
  Rates = {20}
  Buttons = {1, 3}
  Points <- DragPoints
  InitAxes <- FiniteAxes
  InitPoints <- OnePoint
  Seconds = {1}
  UsecPerSec = 2
  AssertEnabled = FALSE
  NotFinite = NotFinite
  Oblique = Oblique
  None = None
INVARIANT RotationCompensated
INVARIANT AttitudeProper
INVARIANT StartsStationary
INVARIANT BrokenOnlyFromGarbage
INVARIANT ThrowFollowsGesture
INVARIANT GrabAccounted
PROPERTY TurnsTowardDrag
\* The program ends when the movement is no longer on the screen.
CHECK_DEADLOCK FALSE
