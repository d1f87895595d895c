------------------------------ MODULE OrderFSM ------------------------------
(***************************************************************************)
(* The status machine of an order (internal/domain/models.go and           *)
(* state_machine.go): the transitions every layer of the API consults.     *)
(***************************************************************************)

Status == {"created", "accepted", "rejected", "cooking", "ready",
           "completed", "cancelled"}

\* The Go zero value of a status column that has no row: also what the audit
\* trail holds as the old status of a new order (order_events.old_status NULL).
NULL == "NULL"

\* OrderStatus.Validate: the request layer refuses any other text.
Validate(s) == s \in Status

validTransitions ==
  {<<"created", "accepted">>, <<"created", "rejected">>, <<"created", "cancelled">>,
   <<"accepted", "cooking">>, <<"accepted", "cancelled">>,
   <<"cooking", "ready">>,
   <<"ready", "completed">>}

CanTransition(from, to) == <<from, to>> \in validTransitions
=============================================================================
