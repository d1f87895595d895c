\* The shipped configuration, one replica and one worker: three events of two
\* orders, the second of which Kafka never accepts.
CONSTANTS
  r1 = r1  r2 = r2  w1 = w1  w2 = w2  w3 = w3
  NEvents = 3
  OrderOf <- OrderOfThree
  Poison = {2}
  Replica = {r1}
  Worker = {w1}
  Home <- OneWorker
  BatchLimit = 2
  MaxAttempts = 2
  MaxFaults = 2
SPECIFICATION FairSpec
INVARIANTS
  TypeOK
  ProcessedWasPublished
  DuplicatesBounded
  InversionNeedsFailure
PROPERTIES
  EventuallyProcessed
