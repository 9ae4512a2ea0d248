SPECIFICATION SpecWithEvidence
CONSTANTS
  Scans = {s1}
  Workers = {w1}
  Admins = {a1}
  Mode = "direct"
  Faults = {}
  MaxAttempts = 1
  MaxStalls = 1
  MaxRetries = 1
  NoScan = NoScan
  NoWorker = NoWorker
  DeadWorker = DeadWorker
  Watched <- MCWatched
  Rank <- MCRank
  Models <- MCModels
  Artifacts <- MCArtifacts
INVARIANT EvidenceExplained
PROPERTY EveryScanSettles
CHECK_DEADLOCK FALSE
