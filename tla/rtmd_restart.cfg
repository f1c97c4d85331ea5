CONSTANTS
  Session = {s1}
  Spawner = {h1}
  Watcher = {w1, w2}
  Sweep = sweep
  Nobody = nobody
  MaxAttempts = 3
  MaxCrashes = 1
  Kqueue = FALSE
  Faults = {}
SPECIFICATION FairSpec
PROPERTIES
  EndSurvivesRestart
