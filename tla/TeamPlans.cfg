SPECIFICATION FairPlansSpec
CONSTANTS
  ana = ana
  ben = ben
  Users <- BothUsers
  MaxTeams = 3
  r1 = r1
  r2 = r2
  Requests <- BothRequests
  Conns = {c1, c2}
  Scenarios <- Pairs
  ScanCounts = {0, 2, 600}
INVARIANTS LossExplained
PROPERTIES StaleTeamExplained RequestsEnd PlanPagesExplained
CHECK_DEADLOCK FALSE
