SPECIFICATION FairSpec
CONSTANTS
  SourceIds = {1, 2, 3}
  Rates <- ManyRates
  Buttons = {3}
  Points <- OnePoint
  InitAxes <- ZeroAxis
  InitPoints <- OnePoint
  Seconds = {1, 2}
  UsecPerSec = 1
  AssertEnabled = TRUE
  NotFinite = NotFinite
  Oblique = Oblique
  None = None
INVARIANT TypeOK
INVARIANT OneTimeout
INVARIANT NoDanglingCallback
PROPERTY KeepsRedrawing
\* The program ends when the movement is destroyed or an assertion fails.
CHECK_DEADLOCK FALSE
