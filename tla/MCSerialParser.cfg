CONSTANTS
  MaxPackets = 5
  MaxLosses = 3
SPECIFICATION Spec
INVARIANTS TypeOK CommandsWereSent IntactPacketArrives
CHECK_DEADLOCK FALSE
