CONSTANTS
  Locals = {"pickup"}
  Units = {u1}
  Messages = {m1}
  Presets = {p1}
  SizeLimit = 2
  Blank = Blank
  Torn = Torn
  Garbage = Garbage
  None = None
SPECIFICATION FairSpec
INVARIANTS TypeOK NewestArrives
PROPERTIES UntouchedIsWritten ShownOrReplaced ListenerReturns ImplementsMailboxes
