SPECIFICATION Spec
CONSTANTS
  s1 = s1
  s2 = s2
  r1 = r1
  r2 = r2
  sub = sub
  nopid = nopid
  Senders = {s1, s2}
  Receivers = {r1, r2}
  Subscribers = {sub}
  Setters = {}
  Closers = {}
  Interruptible = {sub}
  Events = {}
  Prios = {1, 2}
  Lens = {32}
  MAX_MSG = 2
  Calls = 2
  NoPid = nopid
  Registered = sub
  Flags = {0, 1}
CHECK_DEADLOCK FALSE
SYMMETRY Symmetry
INVARIANTS MutualExclusion ListSorted NothingLost BlockedReaders NotifiedOnce NoCrash
PROPERTIES PrioQueueSpec ReaderFirst
