\* One order, one worker: room for the four stages and a repetition.
CONSTANTS
  o1 = o1  w1 = w1
  Order = {o1}
  Worker = {w1}
  MaxMessages = 5
SPECIFICATION FairSpec
INVARIANTS
  TypeOK
  CaughtUpUnlessLost
PROPERTIES
  EveryStatusTaken
  WorkersStop
