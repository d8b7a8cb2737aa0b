SPECIFICATION SFairSpec
CONSTANTS
  s1 = s1
  s2 = s2
  r1 = r1
  r2 = r2
  nopid = nopid
  Senders = {s1, s2}
  Receivers = {r1, r2}
  Subscribers = {}
  Setters = {}
  Closers = {}
  Interruptible = {}
  Events = {}
  Prios = {1}
  Lens = {32}
  MAX_MSG = 1
  Calls = 1
  NoPid = nopid
  Registered = nopid
  Flags = {0}
  MaxRuns = 4
CHECK_DEADLOCK FALSE
INVARIANTS SoundAfterReopen CrashNeedsKill
PROPERTIES RunsEnd
