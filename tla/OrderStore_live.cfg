\* Three callers of different kinds race on one order over two connections, so
\* that calls wait both for the pool and for the row lock.
CONSTANTS
  o1 = o1  u1 = u1  u2 = u2  r1 = r1  r2 = r2  s1 = s1  s2 = s2  s3 = s3
  OrderId = {o1}
  User = {u1}
  Restaurant = {r1}
  Session = {s1, s2, s3}
  Role <- MixedCalls
  Requested = {"accepted", "cooking"}
  MaxConns = 2
SPECIFICATION FairSpec
PROPERTIES
  EveryCallAnswered
