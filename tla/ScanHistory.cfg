CONSTANTS
  UiProc = {u}
  WatchProc = {w}
  Target = {t1, t2}
  Keep = 2
  NoScan = NoScan
  MaxScans = 4
  MaxTime = 4
  MaxCrashes = 1
SPECIFICATION Spec
INVARIANTS SavesAreAtomic NewestAreKept ComparedWithTheLast
CHECK_DEADLOCK FALSE
