SPECIFICATION FairSpec
CONSTANTS
  c1 = c1
  c2 = c2
  none = none
  NB_CONVERTERS = 3
  Clients = {c1, c2}
  Users <- AnyUser
  None = none
INVARIANTS
  PhasesApart
  NoUnaskedReply
  ResultsWhole
PROPERTIES
  ReplyStable
  Answered
CHECK_DEADLOCK FALSE
