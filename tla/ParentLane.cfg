SPECIFICATION Spec
CONSTANTS
  Children = {a, b}
  None = None
  Missing = Missing
  MaxEpoch = 3
  MaxFaults = 2
  MaxForeign = 2
  MaxHuman = 1
  MaxMishaps = 3
  MaxTries = 2
SYMMETRY Perms
INVARIANTS TypeOK LaneOwned CompleteIsPublished
PROPERTIES RemoteKeepsHistory ProgressKept
CHECK_DEADLOCK FALSE
