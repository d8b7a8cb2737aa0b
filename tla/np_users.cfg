SPECIFICATION FairSpec
CONSTANTS
  c1 = c1
  c2 = c2
  None = none
  NB = 2
  Capacity = 6
  Clients = {c1, c2}
  Users <- AnyUser
  Digits <- AnyDigit
INVARIANTS
  RightReply
  Aligned
  BrokenByKill
PROPERTIES
  Served
CHECK_DEADLOCK FALSE
