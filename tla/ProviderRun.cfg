SPECIFICATION CallFairSpec
CONSTANTS
  reality_defender = reality_defender
  hive = hive
  Selected <- MCSelected
  Pollers <- MCPollers
  MaxAttempts = 3
  MaxStalls = 1
  MaxDbErrors = 1
  MaxRequeues = 1
  PollInterval = 2
  PollTimeout = 5
  MaxDelay = 1
  Cases <- MCCases
INVARIANTS ResultIsComplete FailedNamesCulprits RefusalsHold ProvidersExplained
PROPERTIES JobEnds
CHECK_DEADLOCK FALSE
