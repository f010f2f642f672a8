SPECIFICATION FairSpec
CONSTANTS
  None = None
  Requests = {r1}
  Interval = 2
  Lead = 2
  Settlement = 1
  Grace = 1
  Allowance = 0
  Retention = 1
  CompactEvery = 1
  Settings = {s1, s2}
  MaxTime = 5
  MaxEdits = 1
  MaxCrashes = 1
CHECK_DEADLOCK FALSE
INVARIANTS EachFoldedOnce
PROPERTIES EveryWindowClosesInTime
