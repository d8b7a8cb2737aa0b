SPECIFICATION FairSpec
CONSTANTS
  NBUF = 3
  Commands = 7
  ForkFails_b = 1
  Chars = {"a", "b"}
  SIZE = 1
  MaxTyped = 2
  MaxLength = 2
  MaxLines = 3
  Passes <- MCPasses
  ForkFails_f = 2
  MaxSent_s = 3
  Sigs = {2, 3}
  SIGINT = 2
  MAX_INTR = 2
  MaxSent_a = 5
  STACK_SIZE = 2
  MaxIn = 4
  NB_CONVERTERS = 3
  Requests = 3
CHECK_DEADLOCK FALSE
INVARIANTS BatchesApart LinesAreWords FamilyOutcome SignalOutcome Accounts ContainersWhole WholeReply ReadsUninterrupted
PROPERTIES MeetingSpec BatchTogether Forwarded ProgramsEnd
