CONSTANTS
  Client = {c1}
  MinEvents = 2
  MaxEvents = 4
  MaxCrashes = 1
  Faults <- AllFaults
SPECIFICATION Spec
CHECK_DEADLOCK FALSE
INVARIANTS
  SeqIsFresh
