SPECIFICATION Spec
CONSTANTS
  a = a
  nul = nul
  garbage = garbage
  NUL = nul
  Garbage = garbage
  MAX_SIZ_MSG = 3
  MAX_MSG = 3
  Prios = {1, 2}
  Payloads <- Strings
INVARIANTS
  CellsPartition
  StringsReturned
PROPERTIES
  SequenceSteps
