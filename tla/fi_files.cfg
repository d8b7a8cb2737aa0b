SPECIFICATION Spec
CONSTANTS
  p1 = p1
  p2 = p2
  file1 = file1
  file2 = file2
  v = v
  w = w
  Procs = {p1, p2}
  Files = {file1, file2}
  Inds = {1, 2}
  Values = {v, w}
  AtFirst <- TwoRecords
  Fds = {0, 1}
  HEADER = 1
  MaxLength = 7
  Calls = 3
SYMMETRY Symmetry
INVARIANTS
  IndexKnown
  WholeRecords
PROPERTIES
  Reindexed
CONSTRAINT SomeFileUnmixed
CHECK_DEADLOCK FALSE
