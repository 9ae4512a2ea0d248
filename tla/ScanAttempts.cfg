SPECIFICATION Spec
CONSTANTS
  Scans = {s1, s2, s3, s4}
  Requests = {r1, r2}
  ScanLimit = 1
  NoScan = NoScan
SYMMETRY Symmetry
INVARIANTS QuotaOvershoot AttemptClashes
CHECK_DEADLOCK FALSE
