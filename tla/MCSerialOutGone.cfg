CONSTANTS
  Locals = {}
  Units = {u1}
  Messages = {m1}
  Presets = {p1}
  SizeLimit = 2
  Blank = Blank
  Torn = Torn
  Garbage = Garbage
  None = None
SPECIFICATION Spec
INVARIANTS WrittenWereMade
