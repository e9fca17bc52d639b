SPECIFICATION FairSpec
CONSTANTS
  MaxReviews = 2
  MaxEvents = 2
INVARIANTS TypeOK HeadBound NotToldTwice
PROPERTY ApprovalTold
CHECK_DEADLOCK FALSE
