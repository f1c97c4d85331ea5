CONSTANTS
  Request = {r1}
  Isolations = {"Host"}
  Linux = FALSE
  Faults = {"reuse"}
  MaxSteps = 1
SPECIFICATION FairSpec
PROPERTIES
  KillIsAnswered
  SignalledEnds
  DeadPidIsFound
