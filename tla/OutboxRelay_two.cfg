\* Two replicas, one with two workers, fetch from the same outbox.
CONSTANTS
  r1 = r1  r2 = r2  w1 = w1  w2 = w2  w3 = w3
  NEvents = 2
  OrderOf <- OrderOfTwo
  Poison = {}
  Replica = {r1, r2}
  Worker = {w1, w2, w3}
  Home <- TwoReplicas
  BatchLimit = 2
  MaxAttempts = 1
  MaxFaults = 2
SPECIFICATION Spec
INVARIANTS
  DuplicatesBounded
PROPERTIES
  ImplementsQueue
