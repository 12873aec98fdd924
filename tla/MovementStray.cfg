SPECIFICATION Spec
CONSTANTS
  SourceIds = {1}
  Rates = {20}
  Buttons = {1, 3}
  Points <- TwoPoints
  InitAxes <- ZeroAxis
  InitPoints <- OnePoint
  Seconds = {1}
  UsecPerSec = 1
  AssertEnabled = FALSE
  NotFinite = NotFinite
  Oblique = Oblique
  None = None
INVARIANT ThrowIsTheGesture
\* The program ends when the movement is destroyed.
CHECK_DEADLOCK FALSE
