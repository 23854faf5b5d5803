CONSTANTS
  Producers = {p1, p2}
  Consumers = {c1, c2}
  Items = {x, y}
  SizeLimit = 2
  NoItem = NoItem
  NoThread = NoThread
SPECIFICATION FairSpec
INVARIANTS TypeOK CriticalSection NoLostWakeup
PROPERTIES ImplementsBoundedFifo PushReturns StoredItemsAreServed
