CONSTANTS
  Client = {c1}
  MinEvents = 2
  MaxEvents = 4
  MaxCrashes = 1
  Faults = {"write"}
SPECIFICATION Spec
INVARIANTS
  LogCanBeOpened
