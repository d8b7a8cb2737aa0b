SPECIFICATION FairSpec
CONSTANTS
  NB_CONVERTERS = 2
  Requests = 1
CHECK_DEADLOCK FALSE
PROPERTIES Replied
