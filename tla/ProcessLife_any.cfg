\* An HTTP request, a health watcher, two starts of each process.
CONSTANTS
  q1 = q1  h1 = h1
  Request = {q1}
  Watch = {h1}
  MaxStarts = 2
  MaxSyncs = 2
SPECIFICATION FairSpec
INVARIANTS
  TypeOK
  ClosedHasNoUser
  PollingMeansSynced
PROPERTIES
  CutOnlyOverdue
  StopsUnlessWatched
CHECK_DEADLOCK FALSE
