SPECIFICATION Spec
CONSTANTS
  ana = ana
  ben = ben
  kim = kim
  Users <- Three
  Owner = ana
  Admin = ben
  Invitee = kim
  r1 = r1
  r2 = r2
  Requests <- Slots
  Menus <- AllMenus
  MaxTokens = 3
SYMMETRY SlotSymmetry
INVARIANTS InviteAgrees
PROPERTIES FreshLinkLives RemovalSticks RightsKept OfferedIsAllowed
CHECK_DEADLOCK FALSE
