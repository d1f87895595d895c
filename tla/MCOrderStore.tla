---------------------------- MODULE MCOrderStore ----------------------------
(***************************************************************************)
(* Small instances of OrderStore for TLC.                                  *)
(***************************************************************************)
EXTENDS OrderStore, TLC

CONSTANTS o1, u1, u2, r1, r2, s1, s2, s3

\* Two sessions that carry any call.
AnyCall == [s \in Session |-> Kind]

\* Three callers of three kinds that race on an order one of them created.
MixedCalls == s1 :> {"create", "patch"} @@ s2 :> {"cancel"} @@ s3 :> {"event"}

SessionSymmetry == Permutations(Session) \cup Permutations(User) \cup Permutations(Restaurant)
=============================================================================
