SPECIFICATION FairSpec
CONSTANTS
  Calls = {c1, c2, c3}
  Agents = {a1, a2}
  Resources = {r1, r2}
  Expiry = Expiry
  None = None
  MaxReleases = 1
INVARIANT TypeOK
PROPERTIES ImplementsLockService LockKept CallAnswered LockExpires
CHECK_DEADLOCK FALSE
