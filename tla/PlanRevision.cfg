SPECIFICATION FairSpec
CONSTANTS
  p1 = p1
  p2 = p2
  p3 = p3
  root = root
  child = child
  Plans = {p1, p2, p3}
  Scopes = {root, child}
  Answers = {1}
  None = None
  Manifest <- MCManifest
  Place <- MCPlace
  MaxEdits = 2
  MaxMishaps = 2
INVARIANTS TypeOK
PROPERTIES ImplementsPlanStore Settles
CHECK_DEADLOCK FALSE
