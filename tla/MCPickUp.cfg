CONSTANTS
  Controllers = {k1, k2}
  NoController = NoController
  Paths = {p1}
  NoPath = NoPath
  EmptyPath = EmptyPath
  MaxValue = 2
  Tolerance = 1
  NoEntry = NoEntry
  Nothing = Nothing
  Debug = TRUE
SPECIFICATION Spec
SYMMETRY Symmetry
INVARIANTS TypeOK StaleHasCause KnobObeysAnnouncement
PROPERTY ImplementsRule
