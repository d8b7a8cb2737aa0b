SPECIFICATION Spec
CONSTANTS
  c1 = c1
  c2 = c2
  none = none
  NB_CONVERTERS = 2
  Clients = {c1, c2}
  Users <- PatientUser
  None = none
INVARIANTS
  CompleteReply
CHECK_DEADLOCK FALSE
