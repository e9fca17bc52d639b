SPECIFICATION Spec
CONSTANTS
  s1 = s1
  s2 = s2
  s3 = s3
  agent = agent
  Procs = {s1, s2, s3}
  None = None
  MaxFaults = 1
  Slow = FALSE
  Idle = {s1}
  Sender <- MCSender
  MaxCount = 2
  KeepRead = 1
  KeepIdle = 1
INVARIANT MutualExclusion
CHECK_DEADLOCK FALSE
