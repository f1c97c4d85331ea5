CONSTANTS
  Session = {s1, s2}
  Docker = {s2}
  Nobody = nobody
  Client = {c1}
  Panes = 2
  MaxCloses = 1
SPECIFICATION Spec
CHECK_DEADLOCK FALSE
INVARIANTS
  TypeOK
  SettledIsKept
  ReachesSession
PROPERTIES
  ShellIsEnded
  VictimEnds
