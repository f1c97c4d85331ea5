CONSTANTS
  Request = {r1, r2}
  Isolations = {"Host", "Docker"}
  Linux = TRUE
  Faults = {"reuse", "clock", "probe", "docker", "hangup"}
  MaxSteps = 1
SPECIFICATION Spec
SYMMETRY Symmetric
INVARIANTS
  KillIsForced
  SteadyLostIsTrue
  ContainerIsSignalled
