SPECIFICATION Spec
CONSTANTS
  Readers = {r1, r2}
  MaxReads = 2
  MaxSends = 2
SYMMETRY Symmetry
INVARIANTS TypeOK SentAlertsAreEarned FollowUpShowsCommand FlagAwaitsItsRead
CHECK_DEADLOCK FALSE
