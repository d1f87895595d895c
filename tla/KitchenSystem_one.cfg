\* One order announced once, one fault of the kitchen, one repeated status: four
\* stages and the repetition make five messages.
SPECIFICATION SystemFairSpec
CONSTANTS
  o1 = o1  w1 = w1
  Order = {o1}
  MaxCopies = 1
  MaxDowns = 1
  Worker = {w1}
  Asked = {"cancelled", "accepted"}
  MaxMessages = 5
  MaxRepeats = 1
INVARIANTS QuietMeansEnded
PROPERTIES ImplementsConsumer EveryOrderEnds
CHECK_DEADLOCK FALSE
