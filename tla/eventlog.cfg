CONSTANTS
  Client = {c1, c2}
  MinEvents = 2
  MaxEvents = 4
  MaxCrashes = 1
  Faults = {}
SPECIFICATION FairSpec
INVARIANTS
  MemoryIsFile
  DeliveredOnce
  NothingSkipped
PROPERTIES
  ImplementsStream
  WaiterIsServed
