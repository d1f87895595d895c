\* One order announced once, no shutdown: the two pollers race.
SPECIFICATION Spec
CONSTANTS
  o1 = o1
  Order = {o1}
  MaxCopies = 1
  MaxDowns = 0
INVARIANT CancelTakesEffect
CHECK_DEADLOCK FALSE
