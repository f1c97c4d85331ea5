CONSTANTS
  Session = {s1}
  Spawner = {h1, h2}
  Watcher = {w1, w2}
  Sweep = sweep
  Nobody = nobody
  MaxAttempts = 3
  MaxCrashes = 1
  Kqueue = FALSE
  Faults = {"update", "append", "sync"}
SPECIFICATION Spec
SYMMETRY Symmetric
INVARIANTS
  TypeOK
  OneRunningEvent
  OneEndPerIncarnation
  NoFalseEnd
  SenderHasRow
  LiveIsWatched
PROPERTIES
  RowsAreKept
