SPECIFICATION Spec
CONSTANTS
  NumDirs = 2
  f1 = f1
  f2 = f2
  cover = cover
  Files = {f1, f2, cover}
  Unreadable = Unreadable
  Walks <- SomeWalks
  Tags <- OneSong
  Faults = {"init", "error", "lost"}
  Nothing = Nothing
  MaxSyncs = 1
  MaxTime = 1
INVARIANTS
  TypeOK
  NotStale
  ProgressTells
  MutexHeld
PROPERTIES
  OneRowEach
  CommitsWhole
CHECK_DEADLOCK FALSE
