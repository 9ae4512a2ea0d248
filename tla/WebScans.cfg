CONSTANTS
  Scans = {s1, s2}
  Slots = {f1, f2}
  Words <- MCWords
  MaxPage = 2
  MaxEvents = 3
  MaxPreview = 5
SPECIFICATION Spec
INVARIANTS HistoryExplained SearchHonoured
PROPERTY DetailSettles
CHECK_DEADLOCK FALSE
