CONSTANTS
  MaxNumber = 1
  Knobs = {1}
  MaxValue = 1
  Paths = {p}
  NoPath = NoPath
  SizeLimit = 2
  None = None
SPECIFICATION Spec
INVARIANT ReservedIsNotSaved
