CONSTANTS
  Controllers = {k1, k2}
  NoController = NoController
  Paths = {p1, p2}
  NoPath = NoPath
  EmptyPath = EmptyPath
  MaxValue = 0
  Tolerance = 0
  NoEntry = NoEntry
  Nothing = Nothing
  Debug = FALSE
SPECIFICATION Spec
SYMMETRY Symmetry
INVARIANTS InjectiveAssignment AssignedHaveEntry AssignmentTakesEffect
