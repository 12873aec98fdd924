SPECIFICATION Spec
CONSTANTS
  Slots = {s1, s2, s3, s4}
  Objects = {o1, o2, o3}
  MaxOthers = 2
  Null = Null
  Unmade = Unmade
SYMMETRY Symmetry
INVARIANT CountsAreRight
INVARIANT NeverTouchesFreed
INVARIANT HeldIsSunk
