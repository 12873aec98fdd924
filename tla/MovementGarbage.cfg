SPECIFICATION Spec
CONSTANTS
  SourceIds = {1, 2}
  Rates = {20}
  Buttons = {1}
  Points <- OnePoint
  InitAxes <- NaNAxis
  InitPoints <- OnePoint
  Seconds = {1}
  UsecPerSec = 1
  AssertEnabled = TRUE
  NotFinite = NotFinite
  Oblique = Oblique
  None = None
INVARIANT StartsStationary
\* The program ends when the movement is destroyed or an assertion fails.
CHECK_DEADLOCK FALSE
