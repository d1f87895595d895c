\* One replica, one worker, one order: is the cancellation ever published first?
CONSTANTS
  r1 = r1  r2 = r2  w1 = w1  w2 = w2  w3 = w3
  NEvents = 2
  OrderOf <- OrderOfTwo
  Poison = {}
  Replica = {r1}
  Worker = {w1}
  Home <- OneWorker
  BatchLimit = 2
  MaxAttempts = 2
  MaxFaults = 1
SPECIFICATION Spec
INVARIANTS
  OrderKeepsSequence
