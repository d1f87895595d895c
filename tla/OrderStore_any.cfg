\* Two sessions, each carrying any call, on one order; two users, two restaurants.
CONSTANTS
  o1 = o1  u1 = u1  u2 = u2  r1 = r1  r2 = r2  s1 = s1  s2 = s2  s3 = s3
  OrderId = {o1}
  User = {u1, u2}
  Restaurant = {r1, r2}
  Session = {s1, s2}
  Role <- AnyCall
  Requested = {"accepted", "rejected", "cooking", "cancelled", "bogus"}
  MaxConns = 2
SPECIFICATION Spec
SYMMETRY SessionSymmetry
INVARIANTS
  TypeOK
  AuditTrail
  OutboxMatchesStatus
  AcknowledgedChangeIsRecorded
  RefusalStaysTrue
PROPERTIES
  AuthorisedOnly
  ImplementsLifecycle
