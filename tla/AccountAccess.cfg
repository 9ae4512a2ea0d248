SPECIFICATION Spec
CONSTANTS
  e1 = e1
  e2 = e2
  h1 = h1
  h2 = h2
  p1 = p1
  p2 = p2
  g1 = g1
  r1 = r1
  r2 = r2
  Emails <- Addresses
  Hosts <- Places
  Passwords <- Secrets
  Identities <- Profiles
  Requests <- Slots
  Menus <- AllMenus
  MaxUsers = 3
  MaxAttempts = 2
  Window = 2
  TokenLife = 3
  MaxTime = 3
  MaxRestarts = 1
SYMMETRY SlotSymmetry
INVARIANTS OneLiveToken ResetRate
PROPERTIES PasswordByRight OAuthFailureExplained
CHECK_DEADLOCK FALSE
