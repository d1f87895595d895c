\* Every request of up to three lines on every menu of two items.
CONSTANTS
  i1 = i1  i2 = i2
  Stopped = Stopped  Absent = Absent
  Item = {i1, i2}
  Quantity <- Quantities
  Price <- Prices
  MaxLines = 3
  Half = 16
  ColumnMax = 7
SPECIFICATION Spec
INVARIANTS
  TypeOK
  ExactUnlessWrappedRound
  RefusedForCause
CHECK_DEADLOCK FALSE
