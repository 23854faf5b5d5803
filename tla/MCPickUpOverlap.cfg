CONSTANTS
  Controllers = {k1}
  NoController = NoController
  Paths = {p1}
  NoPath = NoPath
  EmptyPath = EmptyPath
  MaxValue = 2
  Tolerance = 1
  NoEntry = NoEntry
  Nothing = Nothing
  Debug = TRUE
SPECIFICATION Spec
SYMMETRY Symmetry
INVARIANT RecordedValueIsKept
