SPECIFICATION VerdictSpec
CONSTANTS
  Files <- MCFiles
  Drops <- MCDrops
  RdAnswers <- MCRdAnswers
  HiveAnswers <- MCHiveAnswers
  Runs = {r1, r2}
  MaxAttempts = 2
SYMMETRY Symmetry
INVARIANTS OppositeExplained
PROPERTIES UnfinishedVerdictExplained SubmissionExplained
CHECK_DEADLOCK FALSE
