SPECIFICATION FairSpec
CONSTANTS
  Scans = {s1, s2}
  Workers = {w1, w2}
  Admins = {a1}
  Mode = "queue"
  Faults = {}
  MaxAttempts = 3
  MaxStalls = 1
  MaxRetries = 1
  NoScan = NoScan
  NoWorker = NoWorker
  DeadWorker = DeadWorker
INVARIANTS ExclusiveRunner NoScanAbandoned
PROPERTIES RefinesLifecycle
CHECK_DEADLOCK FALSE
