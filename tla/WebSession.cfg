SPECIFICATION MCSpec
CONSTANTS
  u1 = u1
  u2 = u2
  t1 = t1
  t2 = t2
  Users = {u1, u2}
  Invited = u1
  Slots = {t1, t2}
  MaxEvents = 2
SYMMETRY Symmetry
INVARIANTS IdentityExplained ReportsExplained
PROPERTIES RedirectsExplained
CHECK_DEADLOCK FALSE
