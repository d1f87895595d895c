\* One order announced and cancelled up to twice, one shutdown or crash.
SPECIFICATION FairSpec
CONSTANTS
  o1 = o1
  Order = {o1}
  MaxCopies = 2
  MaxDowns = 1
INVARIANTS TypeOK ActiveIsCooking LateStatusAtMostOne CancelStopsUnlessCrossed
PROPERTIES StopsCleanly EntryReleased
CHECK_DEADLOCK FALSE
