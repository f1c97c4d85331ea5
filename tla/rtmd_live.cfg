CONSTANTS
  Session = {s1, s2}
  Spawner = {h1}
  Watcher = {w1, w2}
  Sweep = sweep
  Nobody = nobody
  MaxAttempts = 3
  MaxCrashes = 1
  Kqueue = TRUE
  Faults = {"sync", "poll"}
SPECIFICATION LiveSpec
INVARIANTS
  EndIsLogged
PROPERTIES
  DeadIsRecorded
  SpawnIsAnswered
