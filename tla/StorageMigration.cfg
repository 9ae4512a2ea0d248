SPECIFICATION SpecWithReports
CONSTANTS
  Rows = 3
  Runs = {p1, p2}
  Requests = {q1}
  KeyRuns = 1
  Tools = {"audit", "verify", "cleanup"}
  ReportRows = 2
  Faults = {"crash", "error", "reply"}
SYMMETRY Symmetry
INVARIANTS MediaSurvives MissingMediaExplained ReportsTell
CHECK_DEADLOCK FALSE
