----------------------------- MODULE OrderStore -----------------------------
(***************************************************************************)
(* Orders and everything that changes one: the domain services             *)
(* (internal/domain/domain.go) over the repository                         *)
(* (internal/repository/repository.go) and PostgreSQL at READ COMMITTED.   *)
(*                                                                         *)
(* A session is one call in progress: an HTTP handler (create, cancel,     *)
(* patch) or the status consumer (event), which calls the repository       *)
(* directly.  A session goes through its SQL statements one at a time, so  *)
(* sessions interleave between any two of them.  What a transaction has    *)
(* written stays in tx[s], invisible to others, until Commit.              *)
(***************************************************************************)
EXTENDS OrderFSM, Sequences, FiniteSets, Integers

CONSTANTS
  OrderId,      \* the order identities PostgreSQL can hand out (a bound)
  User,
  Restaurant,
  Session,
  Role,         \* [Session -> SUBSET Kind]: the calls a session carries
  Requested,    \* the status texts a restaurant or the topic may ask for
  MaxConns      \* size of the connection pool

Kind == {"create", "cancel", "patch", "event"}

\* NULL is the absence of an order, of a user, of a restaurant and of a reply.
ASSUME NullAssumption ==
  NULL \notin OrderId \cup User \cup Restaurant \cup Requested
ASSUME SessionAssumption == IsFiniteSet(Session)
ASSUME RoleAssumption == Role \in [Session -> SUBSET Kind]
ASSUME MaxConnsAssumption == MaxConns \in Nat \ {0}

VARIABLES
  orders,   \* [OrderId -> Row]: the committed orders table
  events,   \* [OrderId -> Seq([old, new])]: order_events, in insertion order
  outbox,   \* [OrderId -> Seq(topic)]: outbox_events rows of the order
  issued,   \* identities taken from the sequence: a rollback gives none back
  pc,       \* [Session -> PC]: the statement the session is about to run
  req,      \* [Session -> Request]: the call; a create learns its order at Insert
  old,      \* [Session -> Status or NULL]: oldStatus of the transaction
  tx,       \* [Session -> SUBSET Table]: tables the open transaction has written
  reply     \* [Session -> Reply]: the answer to the session's last call

vars == <<orders, events, outbox, issued, pc, req, old, tx, reply>>

Table == {"orders", "order_events", "outbox_events"}
TxPC == {"lock", "insert", "update", "audit", "outbox", "commit"}
PC == {"idle", "read", "begin"} \cup TxPC
Error == {"ErrInvalidData", "ErrOrderNotFound", "ErrAccessDenied",
          "ErrOrderAlreadyCancelled", "ErrInvalidStatusTransition",
          "ErrMenuItemUnavailable", "ErrInternal"}
Reply == Error \cup {"ok", NULL}

Row == [user : User \cup {NULL}, restaurant : Restaurant \cup {NULL},
        status : Status \cup {NULL}]
NoRow == [user |-> NULL, restaurant |-> NULL, status |-> NULL]

NewOrder == [kind : {"create"}, user : User, restaurant : Restaurant,
             order : {NULL}, new : {"created"}]
Cancellation == [kind : {"cancel"}, user : User, restaurant : {NULL},
                 order : OrderId, new : {"cancelled"}]
Patch == [kind : {"patch"}, user : {NULL}, restaurant : Restaurant,
          order : OrderId, new : Requested]
StatusEvent == [kind : {"event"}, user : {NULL}, restaurant : {NULL},
                order : OrderId, new : Requested]
Request == NewOrder \cup Cancellation \cup Patch \cup StatusEvent
NoRequest == [kind |-> NULL, user |-> NULL, restaurant |-> NULL,
              order |-> NULL, new |-> NULL]

-----------------------------------------------------------------------------
Init ==
  /\ orders = [o \in OrderId |-> NoRow]
  /\ events = [o \in OrderId |-> <<>>]
  /\ outbox = [o \in OrderId |-> <<>>]
  /\ issued = {}
  /\ pc = [s \in Session |-> "idle"]
  /\ req = [s \in Session |-> NoRequest]
  /\ old = [s \in Session |-> NULL]
  /\ tx = [s \in Session |-> {}]
  /\ reply = [s \in Session |-> NULL]

tables == <<orders, events, outbox>>

\* The call returns err (or "ok"): tx.Rollback is deferred, so whatever the
\* transaction had written and not committed is gone, and its locks with it.
Return(s, err) ==
  /\ pc' = [pc EXCEPT ![s] = "idle"]
  /\ reply' = [reply EXCEPT ![s] = err]
  /\ tx' = [tx EXCEPT ![s] = {}]

Goto(s, l) == pc' = [pc EXCEPT ![s] = l] /\ UNCHANGED reply

\* A transaction keeps its pool connection from Begin to its end.
FreeConn == Cardinality({s \in Session : pc[s] \in TxPC}) < MaxConns

\* The bound on orders: a create is only submitted while an identity is left
\* for it.
Creating == {s \in Session : req[s].kind = "create" /\ pc[s] \in {"read", "begin", "insert"}}
IdLeft == Cardinality(Creating) + Cardinality(issued) < Cardinality(OrderId)

Submit(s) ==
  /\ pc[s] = "idle"
  /\ \E r \in Request :
       /\ r.kind \in Role[s]
       /\ r.kind = "create" => IdLeft
       /\ req' = [req EXCEPT ![s] = r]
       /\ pc' = [pc EXCEPT ![s] = IF r.kind = "event" THEN "begin" ELSE "read"]
  /\ old' = [old EXCEPT ![s] = NULL]
  /\ reply' = [reply EXCEPT ![s] = NULL]
  /\ UNCHANGED <<tables, issued, tx>>

-----------------------------------------------------------------------------
(* The unlocked check of the domain services. *)

\* Slip: the owner of the order is not compared with the caller.
Foreign_CancelByAnyone(r, row) == r.kind = "patch" /\ row.restaurant # r.restaurant

Foreign(r, row) ==
  \/ r.kind = "cancel" /\ row.user # r.user
  \/ r.kind = "patch" /\ row.restaurant # r.restaurant

\* The early returns of CancelOrder and PartnerService.UpdateOrderStatus, in
\* their order; "pass" when the call goes on to the repository.
DomainVerdict(r, row) ==
  IF r.kind = "patch" /\ ~Validate(r.new) THEN "ErrInvalidData"
  ELSE IF row.status = NULL THEN "ErrOrderNotFound"
  ELSE IF Foreign(r, row) THEN "ErrAccessDenied"
  ELSE IF row.status = "cancelled" THEN "ErrOrderAlreadyCancelled"
  ELSE IF r.kind = "patch" /\ row.status = r.new THEN "ok"
  ELSE IF ~CanTransition(row.status, r.new) THEN "ErrInvalidStatusTransition"
  ELSE "pass"

\* CreateOrder reads the restaurant and its menu; what it finds there is left
\* to chance here.
ReadMenu(s) ==
  /\ pc[s] = "read" /\ req[s].kind = "create" /\ FreeConn
  /\ \/ Goto(s, "begin") /\ UNCHANGED tx
     \/ Return(s, "ErrMenuItemUnavailable")
  /\ UNCHANGED <<tables, issued, req, old>>

ReadOrder(s) ==
  /\ pc[s] = "read" /\ req[s].kind # "create" /\ FreeConn
  /\ LET v == DomainVerdict(req[s], orders[req[s].order])
     IN  IF v = "pass" THEN Goto(s, "begin") /\ UNCHANGED tx ELSE Return(s, v)
  /\ UNCHANGED <<tables, issued, req, old>>

-----------------------------------------------------------------------------
(* The transactions of the repository, one action per statement. *)

Begin(s) ==
  /\ pc[s] = "begin" /\ FreeConn
  /\ Goto(s, IF req[s].kind = "create" THEN "insert" ELSE "lock")
  /\ UNCHANGED <<tables, issued, req, old, tx>>

\* SELECT ... FOR UPDATE holds the row from "update" to the end of the
\* transaction.  A row inserted and not committed is not there to be locked.
HoldsLock(s) == pc[s] \in {"update", "audit", "outbox", "commit"} /\ req[s].kind # "create"

\* Slip: a plain SELECT, which waits for nobody.
LockFree_PlainSelect(o) == TRUE

LockFree(o) == \A t \in Session : HoldsLock(t) => req[t].order # o

\* Slip: the repository trusts the check the domain made.
RecheckVerdict_TrustsDomain(status, new) ==
  IF status = NULL THEN "ErrOrderNotFound"
  ELSE IF status = new THEN "ok"
  ELSE "pass"

\* Slip: the answers of the two refusals are exchanged.
RecheckVerdict_ErrorsSwapped(status, new) ==
  IF status = NULL THEN "ErrOrderNotFound"
  ELSE IF status = new THEN "ok"
  ELSE IF CanTransition(status, new) THEN "pass"
  ELSE IF status = "cancelled" THEN "ErrInvalidStatusTransition"
  ELSE "ErrOrderAlreadyCancelled"

\* Slip: a change that is not legal any more is taken for one already made.
RecheckVerdict_StaleIsOk(status, new) ==
  IF status = NULL THEN "ErrOrderNotFound"
  ELSE IF CanTransition(status, new) THEN "pass"
  ELSE "ok"

\* The early returns of UpdateOrderStatus once the row is locked; "ok" is the
\* commit of a transaction that has changed nothing.
RecheckVerdict(status, new) ==
  IF status = NULL THEN "ErrOrderNotFound"
  ELSE IF status = new THEN "ok"
  ELSE IF CanTransition(status, new) THEN "pass"
  ELSE IF status = "cancelled" THEN "ErrOrderAlreadyCancelled"
  ELSE "ErrInvalidStatusTransition"

LockOrder(s) ==
  /\ pc[s] = "lock" /\ LockFree(req[s].order)
  /\ LET now == orders[req[s].order].status
         v   == RecheckVerdict(now, req[s].new)
     IN  IF v = "pass"
         THEN Goto(s, "update") /\ old' = [old EXCEPT ![s] = now] /\ UNCHANGED tx
         ELSE Return(s, v) /\ UNCHANGED old
  /\ UNCHANGED <<tables, issued, req>>

\* Statement number l has written table t inside the transaction.
Write(s, t, l) ==
  /\ tx' = [tx EXCEPT ![s] = @ \cup {t}]
  /\ Goto(s, l)

\* INSERT INTO orders and its items, after the menu rows were locked and
\* compared again (which may refuse).
InsertOrder(s) ==
  /\ pc[s] = "insert"
  /\ \/ \E o \in OrderId \ issued :
          /\ issued' = issued \cup {o}
          /\ req' = [req EXCEPT ![s].order = o]
          /\ Write(s, "orders", "audit")
     \/ Return(s, "ErrMenuItemUnavailable") /\ UNCHANGED <<issued, req>>
  /\ UNCHANGED <<tables, old>>

UpdateRow(s) ==
  /\ pc[s] = "update"
  /\ Write(s, "orders", "audit")
  /\ UNCHANGED <<tables, issued, req, old>>

\* The topic that must hear of a change to status new, NULL if none.
TopicOf(new) ==
  CASE new = "created"   -> "orders.created"
    [] new = "cancelled" -> "orders.cancelled"
    [] OTHER             -> NULL

InsertEvent(s) ==
  /\ pc[s] = "audit"
  /\ Write(s, "order_events", IF TopicOf(req[s].new) = NULL THEN "commit" ELSE "outbox")
  /\ UNCHANGED <<tables, issued, req, old>>

\* Slip: the outbox row goes through the pool, not through the transaction.
InsertOutbox_ThroughPool(s) ==
  /\ pc[s] = "outbox" /\ FreeConn
  /\ Write(s, "outbox_events", "commit")
  /\ UNCHANGED <<tables, issued, req, old>>

InsertOutbox(s) ==
  /\ pc[s] = "outbox"
  /\ Write(s, "outbox_events", "commit")
  /\ UNCHANGED <<tables, issued, req, old>>

\* The row as the transaction leaves it.
NewRow(s) ==
  IF req[s].kind = "create"
  THEN [user |-> req[s].user, restaurant |-> req[s].restaurant, status |-> "created"]
  ELSE [orders[req[s].order] EXCEPT !.status = req[s].new]

\* What the transaction has written becomes the committed state of its order.
Apply(s) ==
  LET o == req[s].order
  IN  /\ orders' = IF "orders" \in tx[s] THEN [orders EXCEPT ![o] = NewRow(s)] ELSE orders
      /\ events' = IF "order_events" \in tx[s]
                   THEN [events EXCEPT ![o] = Append(@, [old |-> old[s], new |-> req[s].new])]
                   ELSE events
      /\ outbox' = IF "outbox_events" \in tx[s]
                   THEN [outbox EXCEPT ![o] = Append(@, TopicOf(req[s].new))]
                   ELSE outbox

\* The reply to COMMIT may be lost: the change stands, the caller is told it
\* failed.
Commit(s) ==
  /\ pc[s] = "commit"
  /\ Apply(s)
  /\ \E answer \in {"ok", "ErrInternal"} : Return(s, answer)
  /\ UNCHANGED <<issued, req, old>>

-----------------------------------------------------------------------------
(* Failures. *)

\* Slip: a statement that fails does not end the transaction: what came before
\* it is committed.
Fail_CommitsAnyway(s) ==
  /\ pc[s] # "idle"
  /\ Apply(s)
  /\ Return(s, "ErrInternal")
  /\ UNCHANGED <<issued, req, old>>

\* Any statement may fail: connection lost, constraint, caller's context over.
Fail(s) ==
  /\ pc[s] # "idle"
  /\ Return(s, "ErrInternal")
  /\ UNCHANGED <<tables, issued, req, old>>

\* The API process dies: PostgreSQL rolls every open transaction back.
Crash ==
  /\ \E s \in Session : pc[s] # "idle"
  /\ pc' = [s \in Session |-> "idle"]
  /\ tx' = [s \in Session |-> {}]
  /\ reply' = [s \in Session |-> NULL]
  /\ UNCHANGED <<tables, issued, req, old>>

-----------------------------------------------------------------------------
Step(s) ==
  \/ ReadMenu(s) \/ ReadOrder(s) \/ Begin(s) \/ LockOrder(s) \/ InsertOrder(s)
  \/ UpdateRow(s) \/ InsertEvent(s) \/ InsertOutbox(s) \/ Commit(s)

Next == Crash \/ \E s \in Session : Submit(s) \/ Step(s) \/ Fail(s)

Spec == Init /\ [][Next]_vars

\* A session never stops between two statements; the pool and the row lock
\* serve waiters in the order they came, so none is passed over for ever.
Fairness ==
  \A s \in Session : /\ WF_vars(Step(s))
                     /\ SF_vars(ReadMenu(s) \/ ReadOrder(s))
                     /\ SF_vars(Begin(s))
                     /\ SF_vars(LockOrder(s))

FairSpec == Spec /\ Fairness

-----------------------------------------------------------------------------
(* Properties. *)

TypeOK ==
  /\ orders \in [OrderId -> Row]
  /\ events \in [OrderId -> Seq([old : Status \cup {NULL}, new : Status])]
  /\ outbox \in [OrderId -> Seq({"orders.created", "orders.cancelled"})]
  /\ issued \subseteq OrderId
  /\ pc \in [Session -> PC]
  /\ req \in [Session -> [kind : Kind \cup {NULL}, user : User \cup {NULL},
                          restaurant : Restaurant \cup {NULL},
                          order : OrderId \cup {NULL},
                          new : Requested \cup {"created", "cancelled", NULL}]]
  /\ old \in [Session -> Status \cup {NULL}]
  /\ tx \in [Session -> SUBSET Table]
  /\ reply \in [Session -> Reply]

\* The history e tells the whole life of an order that now has status now.
Chain(e, now) ==
  IF now = NULL
  THEN e = <<>>
  ELSE /\ e # <<>>
       /\ e[1] = [old |-> NULL, new |-> "created"]
       /\ e[Len(e)].new = now
       /\ \A i \in 2 .. Len(e) : e[i].old = e[i - 1].new /\ CanTransition(e[i].old, e[i].new)

\* The audit trail of every order is a path of the status machine from its
\* creation to its current status, whatever calls raced on it and whichever
\* of their statements failed (UpdateOrderStatus locks, rechecks, then writes
\* both tables in one transaction).
AuditTrail == \A o \in OrderId : Chain(events[o], orders[o].status)

DueNotices(status) ==
  IF status = NULL THEN <<>>
  ELSE IF status = "cancelled" THEN <<"orders.created", "orders.cancelled">>
  ELSE <<"orders.created">>

\* The restaurant is owed exactly one creation notice per order and exactly
\* one cancellation notice per cancelled order: two concurrent cancels, a
\* retry after a lost commit reply or a failing statement add or lose none.
OutboxMatchesStatus == \A o \in OrderId : outbox[o] = DueNotices(orders[o].status)

Recorded(o, new) == \E i \in 1 .. Len(events[o]) : events[o][i].new = new

\* A caller who was told "ok" finds the change in the trail of the order, also
\* when the domain or the repository answered "already so" without writing.
AcknowledgedChangeIsRecorded ==
  \A s \in Session : reply[s] = "ok" =>
    \E o \in OrderId : req[s].order = o /\ Recorded(o, req[s].new)

\* A refusal stays true: whoever was told the order is cancelled never sees it
\* revived, and a customer told that it is too late to cancel never sees the
\* order cancelled afterwards, though both answers came from reads that other
\* calls may have overtaken.
RefusalStaysTrue ==
  \A s \in Session, o \in OrderId : req[s].order = o =>
    /\ reply[s] = "ErrOrderAlreadyCancelled" => orders[o].status = "cancelled"
    /\ reply[s] = "ErrInvalidStatusTransition" /\ req[s].kind = "cancel"
         => orders[o].status \in {"rejected", "cooking", "ready", "completed"}

\* The status of an existing order only changes for its own customer, for its
\* own restaurant or for the status topic, though ownership is checked on a
\* read that the transaction does not repeat.
AuthorisedOnly ==
  [][\A o \in OrderId :
       orders[o].status # NULL /\ orders'[o].status # orders[o].status =>
         \E s \in Session : /\ pc[s] = "commit" /\ req[s].order = o
                            /\ req[s].new = orders'[o].status
                            /\ req[s].kind = "cancel" => req[s].user = orders[o].user
                            /\ req[s].kind = "patch" => req[s].restaurant = orders[o].restaurant]_vars

\* The store implements OrderLifecycle: with all its sessions, statements and
\* failures, status, trail and notices change in single atomic legal steps.
Lifecycle == INSTANCE OrderLifecycle
  WITH status <- [o \in OrderId |-> orders[o].status], trail <- events, notices <- outbox

ImplementsLifecycle == Lifecycle!Spec

\* Every call is answered: no cycle of sessions each holding a connection or a
\* row lock that another one waits for.
EveryCallAnswered == \A s \in Session : pc[s] # "idle" ~> pc[s] = "idle"
=============================================================================
