SPECIFICATION WalkSpec
CONSTANTS
  Angles <- QuarterTurns
  Axes <- UnitAxes
  SkewAxes <- SkewDirections
  Values <- FewIntegers
INVARIANT RodriguesFormula
INVARIANT MultiplyComposes
