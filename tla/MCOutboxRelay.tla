--------------------------- MODULE MCOutboxRelay ---------------------------
(***************************************************************************)
(* Small instances of OutboxRelay for TLC.                                 *)
(***************************************************************************)
EXTENDS OutboxRelay, TLC

CONSTANTS r1, r2, w1, w2, w3

\* Events 1 and 3 are the creation and the cancellation of one order.
OrderOfThree == <<"A", "B", "A">>
OrderOfTwo == <<"A", "A">>

OneWorker == w1 :> r1

\* Two goroutines in one replica, a third in another.
TwoReplicas == w1 :> r1 @@ w2 :> r1 @@ w3 :> r2
=============================================================================
