SPECIFICATION Spec
CONSTANTS
  s1 = s1
  s2 = s2
  r1 = r1
  r2 = r2
  sub = sub
  nopid = nopid
  Senders = {s1, s2}
  Receivers = {r1, s2}
  Subscribers = {s1}
  Setters = {s1}
  Closers = {s2}
  Interruptible = {}
  Events = {"SIGEV_SIGNAL", "SIGEV_NONE", "SIGEV_THREAD", "NULL"}
  Prios = {1, 33}
  Lens = {31, 32}
  MAX_MSG = 2
  Calls = 3
  NoPid = nopid
  Registered = nopid
  Flags = {0, 1}
CHECK_DEADLOCK FALSE
INVARIANTS Tokens NoOverrun
