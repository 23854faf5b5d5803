SPECIFICATION Spec
CONSTANTS
  u1 = u1
  b1 = b1
  b2 = b2
  Buttons = {b1, b2}
  Units = {u1}
  UnitOf <- MCUnitOf
  StepsOf <- MCStepsOf
  Values = {0, 1000}
  SizeLimit = 2
  Nothing = Nothing
INVARIANTS
  TypeOK
  LampsFollow
PROPERTIES
  LampsSettle
