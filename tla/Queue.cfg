SPECIFICATION FairSpec
CONSTANTS
  Producers = {p1, p2}
  Consumers = {c1}
  Peekers = {k1}
  Items = {a, b}
  None = None
  Capacity = 2
INVARIANTS RoomForAccess
PROPERTIES ImplementsFifo SomePushReturns SomePopReturns
