SPECIFICATION FairSpec
CONSTANTS
  s1 = s1
  s2 = s2
  s3 = s3
  agent = agent
  Procs = {s1, s2, s3}
  None = None
  MaxFaults = 2
  Slow = TRUE
  Idle = {s1}
  Sender <- MCSender
  MaxCount = 2
  KeepRead = 1
  KeepIdle = 1
INVARIANTS TypeOK TempsKept
PROPERTIES ImplementsMailbox CallReturns
CHECK_DEADLOCK FALSE
