SPECIFICATION Spec
CONSTANTS
  s1 = s1
  s2 = s2
  r1 = r1
  r2 = r2
  sub = sub
  nopid = nopid
  Senders = {s1, s2}
  Receivers = {r1, r2}
  Subscribers = {}
  Setters = {}
  Closers = {}
  Interruptible = {}
  Events = {}
  Prios = {1, 2}
  Lens = {32}
  MAX_MSG = 2
  Calls = 2
  NoPid = nopid
  Registered = nopid
  Flags = {0}
CHECK_DEADLOCK FALSE
INVARIANTS FifoAmongEquals
