SPECIFICATION Spec
CONSTANTS
  Scans = {s1, s2}
  Workers = {w1, w2}
  Admins = {a1}
  Mode = "queue"
  Faults = {"crash", "api_abort"}
  MaxAttempts = 3
  MaxStalls = 1
  MaxRetries = 1
  NoScan = NoScan
  NoWorker = NoWorker
  DeadWorker = DeadWorker
SYMMETRY Symmetry
INVARIANTS PipelineInv DetectionBudget
PROPERTIES CompletedIsFinal
CHECK_DEADLOCK FALSE
