\* Two syncs and an order of a new restaurant. Every call is made once: then
\* nothing is left to do.
CONSTANTS
  i1 = i1  i2 = i2  p1 = p1  p2 = p2  a = a  b = b  x = x
  Stopped = Stopped  Absent = Absent
  Item = {i1, i2}
  Price = {p1, p2}
  Sync = {a, b}
  Order = {x}
  MaxItems = 2
SPECIFICATION FairSpec
INVARIANTS
  TypeOK
  NoMixedMenu
PROPERTIES
  OrderedAsOffered
  EveryRequestEnds
CHECK_DEADLOCK FALSE
