--------------------------- MODULE OrderLifecycle ---------------------------
(***************************************************************************)
(* What the order store promises, with no sessions, locks, transactions or *)
(* failures: an order is created once, then takes single steps of the      *)
(* status machine; its audit trail and the notices owed to the restaurant  *)
(* change in the same instant as its status.                               *)
(***************************************************************************)
EXTENDS OrderFSM, Sequences

CONSTANT OrderId

VARIABLES
  status,    \* [OrderId -> Status or NULL]: NULL until the order exists
  trail,     \* [OrderId -> Seq([old, new])]: every change, oldest first
  notices    \* [OrderId -> Seq(topic)]: announcements owed, oldest first

vars == <<status, trail, notices>>

Init ==
  /\ status = [o \in OrderId |-> NULL]
  /\ trail = [o \in OrderId |-> <<>>]
  /\ notices = [o \in OrderId |-> <<>>]

Create(o) ==
  /\ status[o] = NULL
  /\ status' = [status EXCEPT ![o] = "created"]
  /\ trail' = [trail EXCEPT ![o] = <<[old |-> NULL, new |-> "created"]>>]
  /\ notices' = [notices EXCEPT ![o] = <<"orders.created">>]

Advance(o, to) ==
  /\ CanTransition(status[o], to)
  /\ status' = [status EXCEPT ![o] = to]
  /\ trail' = [trail EXCEPT ![o] = Append(@, [old |-> status[o], new |-> to])]
  /\ notices' = IF to = "cancelled"
                THEN [notices EXCEPT ![o] = Append(@, "orders.cancelled")]
                ELSE notices

Next == \E o \in OrderId : Create(o) \/ \E to \in Status : Advance(o, to)

Spec == Init /\ [][Next]_vars
=============================================================================
