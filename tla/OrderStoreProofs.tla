-------------------------- MODULE OrderStoreProofs --------------------------
(***************************************************************************)
(* Theorems about OrderStore, for any sets of orders, users, restaurants   *)
(* and sessions and any pool size.                                         *)
(***************************************************************************)
EXTENDS OrderStore, SequenceTheorems, TLAPS

-----------------------------------------------------------------------------
(* The inductive invariant. *)

\* From its lock or its INSERT to its end a transaction owns its order.
Owns(s) == pc[s] \in {"update", "audit", "outbox", "commit"}

\* The request and the control point of a session agree.
CallShape(s) ==
  /\ pc[s] # "idle" => req[s].kind \in Kind
  /\ pc[s] # "idle" /\ req[s].kind # "create" => req[s].order \in OrderId
  /\ pc[s] = "insert" => req[s].kind = "create"
  /\ pc[s] \in {"lock", "update"} => req[s].kind # "create"
  /\ req[s].kind = "create" => req[s].new = "created" /\ old[s] = NULL
  /\ req[s].kind = "cancel" => req[s].new = "cancelled"

\* What the transaction has written, statement by statement.
TxShape(s) ==
  /\ ~Owns(s) \/ pc[s] = "update" => tx[s] = {}
  /\ pc[s] = "audit" => tx[s] = {"orders"}
  /\ pc[s] = "outbox" => /\ tx[s] = {"orders", "order_events"}
                         /\ TopicOf(req[s].new) # NULL
  /\ pc[s] = "commit" =>
       tx[s] = IF TopicOf(req[s].new) = NULL THEN {"orders", "order_events"}
               ELSE Table

\* oldStatus is still the status of the owned order, and the step legal.
OwnShape(s) ==
  Owns(s) => /\ req[s].order \in issued
             /\ old[s] = orders[req[s].order].status
             /\ req[s].kind # "create" => CanTransition(old[s], req[s].new)

\* The check of ownership made on the unlocked read still holds.
AuthShape(s) ==
  pc[s] \in {"begin"} \cup TxPC /\ req[s].kind \in {"cancel", "patch"} =>
    /\ orders[req[s].order].status # NULL
    /\ ~Foreign(req[s], orders[req[s].order])

SessionInv == \A s \in Session : CallShape(s) /\ TxShape(s) /\ OwnShape(s) /\ AuthShape(s)

\* No order has two owners.
Exclusive == \A s, t \in Session :
  Owns(s) /\ Owns(t) /\ req[s].order = req[t].order => s = t

\* Only issued identities are in the table.
Issued == \A o \in OrderId : orders[o].status # NULL => o \in issued

IInv == TypeOK /\ SessionInv /\ Exclusive /\ Issued /\ AuditTrail /\ OutboxMatchesStatus

-----------------------------------------------------------------------------
(* The status machine. *)

\* A legal transition leads from an existing, live status to another one and
\* never back to "created".
LEMMA TransitionFacts ==
  ASSUME NEW a, NEW b, CanTransition(a, b)
  PROVE  /\ a \in Status /\ b \in Status /\ a # b
         /\ a # NULL /\ b # NULL /\ b # "created" /\ a # "cancelled"
  BY DEF CanTransition, validTransitions, Status, NULL

\* Only creations and cancellations have a topic.
LEMMA TopicFacts ==
  /\ TopicOf("created") = "orders.created"
  /\ TopicOf("cancelled") = "orders.cancelled"
  /\ \A n : n # "created" /\ n # "cancelled" => TopicOf(n) = NULL
  /\ \A n : TopicOf(n) \in {"orders.created", "orders.cancelled", NULL}
  BY DEF TopicOf, NULL

-----------------------------------------------------------------------------
(* Type correctness. *)

\* Init establishes the types of all variables.
LEMMA TypeInit == Init => TypeOK
  BY DEF Init, TypeOK, Row, NoRow, NoRequest, PC, Reply, Status

\* What a Write, a Goto or a Return puts in a session's variables has their types.
LEMMA TypeSession ==
  ASSUME TypeOK, NEW s \in Session
  PROVE  /\ \A l \in PC : Goto(s, l) => pc' \in [Session -> PC] /\ reply' \in [Session -> Reply]
         /\ \A e \in Reply : Return(s, e) => /\ pc' \in [Session -> PC]
                                             /\ reply' \in [Session -> Reply]
                                             /\ tx' \in [Session -> SUBSET Table]
         /\ \A t \in Table, l \in PC : Write(s, t, l) => /\ pc' \in [Session -> PC]
                                                         /\ reply' \in [Session -> Reply]
                                                         /\ tx' \in [Session -> SUBSET Table]
  <1>1. ASSUME NEW l \in PC, Goto(s, l)
        PROVE  pc' \in [Session -> PC] /\ reply' \in [Session -> Reply]
    BY <1>1 DEF TypeOK, Goto
  <1>2. ASSUME NEW e \in Reply, Return(s, e)
        PROVE  pc' \in [Session -> PC] /\ reply' \in [Session -> Reply]
               /\ tx' \in [Session -> SUBSET Table]
    <2>1. pc' \in [Session -> PC] /\ reply' \in [Session -> Reply]
      BY <1>2 DEF TypeOK, Return, PC
    <2>2. tx' = [tx EXCEPT ![s] = {}]
      BY <1>2 DEF Return
    <2>3. tx' \in [Session -> SUBSET Table]
      BY <2>2 DEF TypeOK
    <2> QED BY <2>1, <2>3
  <1>3. ASSUME NEW t \in Table, NEW l \in PC, Write(s, t, l)
        PROVE  pc' \in [Session -> PC] /\ reply' \in [Session -> Reply]
               /\ tx' \in [Session -> SUBSET Table]
    <2>1. tx' = [tx EXCEPT ![s] = tx[s] \cup {t}]
      BY <1>3 DEF Write
    <2>2. tx[s] \cup {t} \in SUBSET Table
      BY DEF TypeOK
    <2>3. tx' \in [Session -> SUBSET Table]
      BY <2>1, <2>2 DEF TypeOK
    <2> QED BY <1>1, <1>3, <2>3 DEF Write
  <1> QED BY <1>1, <1>2, <1>3

\* Every step but Commit keeps the types by itself.
LEMMA TypeStep ==
  ASSUME TypeOK, [Next]_vars, \A s \in Session : ~Commit(s)
  PROVE  TypeOK'
  <1> USE DEF tables
  <1>1. ASSUME NEW s \in Session, Submit(s) PROVE TypeOK'
    <2>1. PICK r \in Request : req' = [req EXCEPT ![s] = r]
      BY <1>1 DEF Submit
    <2>2. req' \in [Session -> [kind : Kind \cup {NULL}, user : User \cup {NULL},
                          restaurant : Restaurant \cup {NULL},
                          order : OrderId \cup {NULL},
                          new : Requested \cup {"created", "cancelled", NULL}]]
      BY <2>1 DEF TypeOK, Request, NewOrder, Cancellation, Patch, StatusEvent, Kind
    <2> QED BY <1>1, <2>2 DEF Submit, TypeOK, PC, Reply
  <1>2. ASSUME NEW s \in Session, ReadMenu(s) PROVE TypeOK'
    BY <1>2, TypeSession DEF ReadMenu, TypeOK, PC, Reply, Error
  <1>3. ASSUME NEW s \in Session, ReadOrder(s) PROVE TypeOK'
    <2>1. DomainVerdict(req[s], orders[req[s].order]) \in Reply \cup {"pass"}
      BY DEF DomainVerdict, Reply, Error
    <2> QED BY <1>3, <2>1, TypeSession DEF ReadOrder, TypeOK, PC
  <1>4. ASSUME NEW s \in Session, Begin(s) PROVE TypeOK'
    BY <1>4, TypeSession DEF Begin, TypeOK, PC, TxPC
  <1>5. ASSUME NEW s \in Session, LockOrder(s) PROVE TypeOK'
    <2> DEFINE now == orders[req[s].order].status
    <2>1. RecheckVerdict(now, req[s].new) \in Reply \cup {"pass"}
      BY DEF RecheckVerdict, Reply, Error
    <2>2. RecheckVerdict(now, req[s].new) = "pass" => now \in Status
      BY TransitionFacts DEF RecheckVerdict
    <2> QED BY <1>5, <2>1, <2>2, TypeSession DEF LockOrder, TypeOK, PC, TxPC
  <1>6. ASSUME NEW s \in Session, InsertOrder(s) PROVE TypeOK'
    <2>1. CASE Return(s, "ErrMenuItemUnavailable") /\ UNCHANGED <<issued, req>>
      BY <1>6, <2>1, TypeSession DEF InsertOrder, TypeOK, Reply, Error
    <2>2. CASE \E o \in OrderId \ issued :
                 /\ issued' = issued \cup {o}
                 /\ req' = [req EXCEPT ![s].order = o]
                 /\ Write(s, "orders", "audit")
      <3>1. PICK o \in OrderId \ issued : /\ issued' = issued \cup {o}
                                          /\ req' = [req EXCEPT ![s].order = o]
                                          /\ Write(s, "orders", "audit")
        BY <2>2
      <3>2. req' \in [Session -> [kind : Kind \cup {NULL}, user : User \cup {NULL},
                          restaurant : Restaurant \cup {NULL},
                          order : OrderId \cup {NULL},
                          new : Requested \cup {"created", "cancelled", NULL}]]
        BY <3>1 DEF TypeOK
      <3>3. "orders" \in Table /\ "audit" \in PC BY DEF Table, PC, TxPC
      <3>4. /\ pc' \in [Session -> PC] /\ reply' \in [Session -> Reply]
            /\ tx' \in [Session -> SUBSET Table]
        BY <3>1, <3>3, TypeSession
      <3> QED BY <1>6, <3>1, <3>2, <3>4 DEF InsertOrder, TypeOK
    <2> QED BY <1>6, <2>1, <2>2 DEF InsertOrder
  <1>7. ASSUME NEW s \in Session, UpdateRow(s) PROVE TypeOK'
    BY <1>7, TypeSession DEF UpdateRow, TypeOK, Table, PC, TxPC
  <1>8. ASSUME NEW s \in Session, InsertEvent(s) PROVE TypeOK'
    BY <1>8, TypeSession DEF InsertEvent, TypeOK, Table, PC, TxPC
  <1>9. ASSUME NEW s \in Session, InsertOutbox(s) PROVE TypeOK'
    BY <1>9, TypeSession DEF InsertOutbox, TypeOK, Table, PC, TxPC
  <1>11. ASSUME NEW s \in Session, Fail(s) PROVE TypeOK'
    BY <1>11, TypeSession DEF Fail, TypeOK, Reply, Error
  <1>12. ASSUME Crash PROVE TypeOK'
    BY <1>12 DEF Crash, TypeOK, PC, Reply
  <1>13. ASSUME UNCHANGED vars PROVE TypeOK'
    BY <1>13 DEF vars, TypeOK
  <1> QED BY <1>1, <1>2, <1>3, <1>4, <1>5, <1>6, <1>7, <1>8, <1>9, <1>11, <1>12, <1>13
          DEF Next, Step

-----------------------------------------------------------------------------
(* The invariant is inductive: steps that commit nothing. *)

\* A step of s leaves the variables of the other sessions alone.
Others(s) == \A t \in Session \ {s} :
  pc'[t] = pc[t] /\ req'[t] = req[t] /\ old'[t] = old[t] /\ tx'[t] = tx[t]

\* A step of s that commits nothing and steals no owned order keeps the
\* invariant if s itself ends in good shape.
LEMMA QuietStep ==
  ASSUME IInv, NEW s \in Session, UNCHANGED tables, issued \subseteq issued', Others(s),
         TypeOK', CallShape(s)', TxShape(s)', OwnShape(s)', AuthShape(s)',
         \A t \in Session \ {s} :
           Owns(s)' /\ Owns(t) => req'[s].order # req[t].order
  PROVE  IInv'
  <1>1. ASSUME NEW t \in Session \ {s}
        PROVE  CallShape(t)' /\ TxShape(t)' /\ OwnShape(t)' /\ AuthShape(t)'
    <2>1. CallShape(t) /\ TxShape(t) /\ OwnShape(t) /\ AuthShape(t)
      BY DEF IInv, SessionInv
    <2>2. pc'[t] = pc[t] /\ req'[t] = req[t] /\ old'[t] = old[t] /\ tx'[t] = tx[t]
          /\ orders' = orders
      BY DEF Others, tables
    <2>3. CallShape(t)' BY <2>1, <2>2 DEF CallShape
    <2>4. TxShape(t)' BY <2>1, <2>2 DEF TxShape, Owns
    <2>5. OwnShape(t)' BY <2>1, <2>2 DEF OwnShape, Owns
    <2>6. AuthShape(t)' BY <2>1, <2>2 DEF AuthShape, Foreign
    <2> QED BY <2>3, <2>4, <2>5, <2>6
  <1>2. SessionInv' BY <1>1 DEF SessionInv
  <1>3. Exclusive'
    <2> SUFFICES ASSUME NEW t \in Session, NEW u \in Session, Owns(t)', Owns(u)',
                        req'[t].order = req'[u].order
                 PROVE  t = u
      BY DEF Exclusive
    <2>1. CASE t # s /\ u # s
      BY <2>1 DEF IInv, Exclusive, Others, Owns
    <2>2. CASE t = s /\ u # s
      BY <2>2 DEF Others, Owns
    <2>3. CASE t # s /\ u = s
      BY <2>3 DEF Others, Owns
    <2> QED BY <2>1, <2>2, <2>3
  <1>4. Issued' BY DEF IInv, Issued, tables
  <1>5. AuditTrail' /\ OutboxMatchesStatus'
    BY DEF IInv, AuditTrail, OutboxMatchesStatus, tables
  <1> QED BY <1>2, <1>3, <1>4, <1>5 DEF IInv

\* Returning from a call leaves the session in good shape.
LEMMA QuietReturn ==
  ASSUME IInv, NEW s \in Session, NEW e \in Reply, Return(s, e),
         UNCHANGED <<tables, issued, req, old>>, TypeOK'
  PROVE  IInv'
  <1>1. pc'[s] = "idle" /\ tx'[s] = {} /\ Others(s)
    BY DEF Return, Others, IInv, TypeOK
  <1>2. CallShape(s)' BY <1>1 DEF IInv, SessionInv, CallShape
  <1>3. TxShape(s)' /\ OwnShape(s)' /\ AuthShape(s)'
    BY <1>1 DEF TxShape, OwnShape, AuthShape, Owns, TxPC
  <1> QED BY <1>1, <1>2, <1>3, QuietStep DEF Owns

\* Every step but Commit keeps the invariant, one action at a time.
LEMMA QuietSteps ==
  ASSUME IInv, [Next]_vars, \A s \in Session : ~Commit(s)
  PROVE  IInv'
  <1>0. TypeOK' BY TypeStep DEF IInv
  <1> USE <1>0
  <1>1. ASSUME NEW s \in Session, Submit(s) PROVE IInv'
    <2>1. PICK r \in Request : /\ req' = [req EXCEPT ![s] = r]
                               /\ pc' = [pc EXCEPT ![s] = IF r.kind = "event" THEN "begin" ELSE "read"]
      BY <1>1 DEF Submit
    <2>2. /\ req'[s] = r /\ old'[s] = NULL /\ tx'[s] = tx[s] /\ Others(s)
          /\ pc'[s] = (IF r.kind = "event" THEN "begin" ELSE "read")
      BY <1>1, <2>1 DEF Submit, Others, IInv, TypeOK
    <2>3. CallShape(s)'
      BY <2>2 DEF CallShape, Request, NewOrder, Cancellation, Patch, StatusEvent, Kind
    <2>4. TxShape(s)'
      BY <1>1, <2>2 DEF TxShape, Owns, IInv, SessionInv, Submit
    <2>5. ~Owns(s)' /\ OwnShape(s)' /\ AuthShape(s)'
      BY <2>2 DEF OwnShape, AuthShape, Owns, TxPC
    <2> QED BY <1>1, <2>2, <2>3, <2>4, <2>5, QuietStep DEF Submit, tables
  <1>2. ASSUME NEW s \in Session, ReadMenu(s) PROVE IInv'
    <2>1. CASE Return(s, "ErrMenuItemUnavailable")
      BY <1>2, <2>1, QuietReturn DEF ReadMenu, Reply, Error
    <2>2. CASE Goto(s, "begin") /\ UNCHANGED tx
      <3>1. pc'[s] = "begin" /\ req'[s].kind = "create" /\ Others(s) /\ req' = req /\ old' = old /\ tx' = tx
        BY <1>2, <2>2 DEF ReadMenu, Goto, Others, IInv, TypeOK
      <3>2. CallShape(s)' /\ TxShape(s)' /\ OwnShape(s)' /\ AuthShape(s)' /\ ~Owns(s)'
        BY <1>2, <3>1 DEF ReadMenu, IInv, SessionInv, CallShape, TxShape, OwnShape, AuthShape, Owns
      <3> QED BY <1>2, <3>1, <3>2, QuietStep DEF ReadMenu
    <2> QED BY <1>2, <2>1, <2>2 DEF ReadMenu
  <1>3. ASSUME NEW s \in Session, ReadOrder(s) PROVE IInv'
    <2> DEFINE v == DomainVerdict(req[s], orders[req[s].order])
    <2>1. v \in Reply \cup {"pass"}
      BY DEF DomainVerdict, Reply, Error
    <2>2. CASE v # "pass"
      BY <1>3, <2>1, <2>2, QuietReturn DEF ReadOrder
    <2>3. CASE v = "pass"
      <3>1. pc'[s] = "begin" /\ Others(s) /\ req' = req /\ old' = old /\ tx' = tx /\ orders' = orders
        BY <1>3, <2>3 DEF ReadOrder, Goto, Others, IInv, TypeOK, tables
      <3>2. orders[req[s].order].status # NULL /\ ~Foreign(req[s], orders[req[s].order])
        BY <2>3 DEF DomainVerdict
      <3>3. CallShape(s)' /\ TxShape(s)' /\ OwnShape(s)' /\ ~Owns(s)'
        BY <1>3, <3>1 DEF ReadOrder, IInv, SessionInv, CallShape, TxShape, OwnShape, Owns
      <3>4. AuthShape(s)'
        BY <3>1, <3>2 DEF AuthShape, Foreign
      <3> QED BY <1>3, <3>1, <3>3, <3>4, QuietStep DEF ReadOrder
    <2> QED BY <2>2, <2>3
  <1>4. ASSUME NEW s \in Session, Begin(s) PROVE IInv'
    <2>1. /\ pc[s] = "begin" /\ Others(s) /\ req' = req /\ old' = old /\ tx' = tx /\ orders' = orders
          /\ pc'[s] = (IF req[s].kind = "create" THEN "insert" ELSE "lock")
      BY <1>4 DEF Begin, Goto, Others, IInv, TypeOK, tables
    <2>2. CallShape(s)' /\ TxShape(s)' /\ OwnShape(s)' /\ AuthShape(s)' /\ ~Owns(s)'
      BY <2>1 DEF IInv, SessionInv, CallShape, TxShape, OwnShape, AuthShape, Owns, Foreign
    <2> QED BY <1>4, <2>1, <2>2, QuietStep DEF Begin
  <1>5. ASSUME NEW s \in Session, LockOrder(s) PROVE IInv'
    <2> DEFINE o == req[s].order
               v == RecheckVerdict(orders[o].status, req[s].new)
    <2>1. v \in Reply \cup {"pass"}
      BY DEF RecheckVerdict, Reply, Error
    <2>2. CASE v # "pass"
      BY <1>5, <2>1, <2>2, QuietReturn DEF LockOrder
    <2>3. CASE v = "pass"
      <3>1. /\ pc[s] = "lock" /\ pc'[s] = "update" /\ Others(s) /\ UNCHANGED <<req, tx, tables, issued>>
            /\ old'[s] = orders[o].status
        BY <1>5, <2>3 DEF LockOrder, Goto, Others, IInv, TypeOK
      <3>2. CanTransition(orders[o].status, req[s].new)
        BY <2>3 DEF RecheckVerdict
      <3>3. CallShape(s) /\ TxShape(s) /\ AuthShape(s)
        BY DEF IInv, SessionInv
      <3>4. o \in OrderId /\ o \in issued
        BY <3>1, <3>2, <3>3, TransitionFacts DEF CallShape, IInv, Issued
      <3>5. CallShape(s)' /\ TxShape(s)'
        BY <3>1, <3>3 DEF CallShape, TxShape, Owns
      <3>6. OwnShape(s)'
        BY <3>1, <3>2, <3>4 DEF OwnShape, tables
      <3>7. AuthShape(s)'
        BY <3>1, <3>3 DEF AuthShape, tables, TxPC, Foreign
      <3>8. ASSUME NEW t \in Session \ {s}, Owns(t), req'[s].order = req[t].order
            PROVE FALSE
        <4>1. ~HoldsLock(t)
          BY <1>5, <3>1, <3>8 DEF LockOrder, LockFree
        <4>2. req[t].kind = "create"
          BY <3>8, <4>1 DEF HoldsLock, Owns
        <4>3. orders[o].status = NULL
          BY <3>1, <3>8, <4>2 DEF IInv, SessionInv, OwnShape, CallShape
        <4> QED BY <3>2, <4>3, TransitionFacts
      <3> QED BY <3>1, <3>5, <3>6, <3>7, <3>8, QuietStep
    <2> QED BY <2>2, <2>3
  <1>6. ASSUME NEW s \in Session, InsertOrder(s) PROVE IInv'
    <2>1. CASE Return(s, "ErrMenuItemUnavailable") /\ UNCHANGED <<issued, req>>
      BY <1>6, <2>1, QuietReturn DEF InsertOrder, Reply, Error
    <2>2. CASE \E o \in OrderId \ issued :
                 /\ issued' = issued \cup {o}
                 /\ req' = [req EXCEPT ![s].order = o]
                 /\ Write(s, "orders", "audit")
      <3>1. PICK o \in OrderId \ issued : /\ issued' = issued \cup {o}
                                          /\ req' = [req EXCEPT ![s].order = o]
                                          /\ Write(s, "orders", "audit")
        BY <2>2
      <3>2. CallShape(s) /\ TxShape(s) /\ pc[s] = "insert"
        BY <1>6 DEF IInv, SessionInv, InsertOrder
      <3>3. /\ pc'[s] = "audit" /\ tx'[s] = tx[s] \cup {"orders"} /\ old' = old /\ UNCHANGED tables
            /\ req'[s].order = o /\ req'[s].kind = req[s].kind /\ req'[s].new = req[s].new
            /\ Others(s)
        BY <1>6, <3>1 DEF InsertOrder, Write, Goto, Others, IInv, TypeOK
      <3>4. orders[o].status = NULL
        BY DEF IInv, Issued
      <3>5. CallShape(s)' /\ TxShape(s)'
        BY <3>2, <3>3 DEF CallShape, TxShape, Owns, Kind
      <3>6. OwnShape(s)'
        BY <3>1, <3>2, <3>3, <3>4 DEF OwnShape, CallShape, tables
      <3>7. AuthShape(s)'
        BY <3>2, <3>3 DEF AuthShape, CallShape
      <3>8. \A t \in Session \ {s} : Owns(t) => req'[s].order # req[t].order
        BY <3>3 DEF IInv, SessionInv, OwnShape
      <3> QED BY <3>1, <3>3, <3>5, <3>6, <3>7, <3>8, QuietStep
    <2> QED BY <1>6, <2>1, <2>2 DEF InsertOrder
  <1>7. ASSUME NEW s \in Session, NEW t \in Table, NEW l \in {"audit", "outbox", "commit"},
               Owns(s), Write(s, t, l), UNCHANGED <<tables, issued, req, old>>, TxShape(s)'
        PROVE  IInv'
    <2>1. pc'[s] = l /\ Others(s) /\ UNCHANGED <<req, old, issued, tables>>
      BY <1>7 DEF Write, Goto, Others, IInv, TypeOK
    <2>2. CallShape(s) /\ OwnShape(s) /\ AuthShape(s)
      BY DEF IInv, SessionInv
    <2>3. CallShape(s)' /\ OwnShape(s)'
      BY <1>7, <2>1, <2>2 DEF CallShape, OwnShape, Owns, tables
    <2>4. AuthShape(s)'
      BY <1>7, <2>1, <2>2 DEF AuthShape, Owns, tables, TxPC, Foreign
    <2>5. \A u \in Session \ {s} : Owns(u) => req'[s].order # req[u].order
      BY <1>7, <2>1 DEF IInv, Exclusive
    <2> QED BY <1>7, <2>1, <2>3, <2>4, <2>5, QuietStep
  <1>8. ASSUME NEW s \in Session, UpdateRow(s) PROVE IInv'
    <2>1. tx[s] = {} /\ tx'[s] = tx[s] \cup {"orders"} /\ pc'[s] = "audit" /\ req' = req
      BY <1>8 DEF UpdateRow, Write, Goto, IInv, SessionInv, TxShape, TypeOK
    <2>2. TxShape(s)'
      BY <2>1 DEF TxShape, Owns
    <2> QED BY <1>7, <1>8, <2>2 DEF UpdateRow, Table, Owns
  <1>9. ASSUME NEW s \in Session, InsertEvent(s) PROVE IInv'
    <2> DEFINE l == IF TopicOf(req[s].new) = NULL THEN "commit" ELSE "outbox"
    <2>1. tx[s] = {"orders"} /\ tx'[s] = tx[s] \cup {"order_events"} /\ pc'[s] = l /\ req' = req
      BY <1>9 DEF InsertEvent, Write, Goto, IInv, SessionInv, TxShape, TypeOK
    <2>2. TxShape(s)'
      BY <2>1 DEF TxShape, Owns
    <2>3. Owns(s) /\ Write(s, "order_events", l) /\ UNCHANGED <<tables, issued, req, old>>
      BY <1>9 DEF InsertEvent, Owns
    <2> QED BY <1>7, <2>2, <2>3 DEF Table
  <1>10. ASSUME NEW s \in Session, InsertOutbox(s) PROVE IInv'
    <2>1. /\ tx[s] = {"orders", "order_events"} /\ TopicOf(req[s].new) # NULL
          /\ tx'[s] = tx[s] \cup {"outbox_events"} /\ pc'[s] = "commit" /\ req' = req
      BY <1>10 DEF InsertOutbox, Write, Goto, IInv, SessionInv, TxShape, TypeOK
    <2>2. TxShape(s)'
      BY <2>1 DEF TxShape, Owns, Table
    <2> QED BY <1>7, <1>10, <2>2 DEF InsertOutbox, Table, Owns
  <1>11. ASSUME NEW s \in Session, Fail(s) PROVE IInv'
    BY <1>11, QuietReturn DEF Fail, Reply, Error
  <1>12. ASSUME Crash PROVE IInv'
    <2>1. \A s \in Session : pc'[s] = "idle" /\ tx'[s] = {} /\ req' = req /\ old' = old
      BY <1>12 DEF Crash
    <2>2. ASSUME NEW s \in Session PROVE CallShape(s)' /\ TxShape(s)' /\ OwnShape(s)' /\ AuthShape(s)'
      BY <2>1 DEF IInv, SessionInv, CallShape, TxShape, OwnShape, AuthShape, Owns, TxPC
    <2>3. SessionInv' /\ Exclusive'
      BY <2>1, <2>2 DEF SessionInv, Exclusive, Owns
    <2> QED BY <1>12, <2>3 DEF Crash, IInv, Issued, AuditTrail, OutboxMatchesStatus, tables
  <1>13. ASSUME UNCHANGED vars PROVE IInv'
    <2>1. \A s \in Session : (CallShape(s) /\ TxShape(s) /\ OwnShape(s) /\ AuthShape(s))
             => (CallShape(s) /\ TxShape(s) /\ OwnShape(s) /\ AuthShape(s))'
      BY <1>13 DEF vars, CallShape, TxShape, OwnShape, AuthShape, Owns, Foreign
    <2> QED BY <1>13, <2>1 DEF vars, IInv, SessionInv, Exclusive, Owns, Issued, AuditTrail,
                              OutboxMatchesStatus
  <1> QED BY <1>1, <1>2, <1>3, <1>4, <1>5, <1>6, <1>8, <1>9, <1>10, <1>11, <1>12, <1>13
          DEF Next, Step

-----------------------------------------------------------------------------
(* The invariant is inductive: Commit. *)

\* A change from status a to status b that the store may make.
LegalChange(a, b) == CanTransition(a, b) \/ (a = NULL /\ b = "created")

\* What a commit does, in terms of the owned order alone.
LEMMA CommitEffect ==
  ASSUME IInv, NEW s \in Session, Commit(s)
  PROVE  LET o == req[s].order
             new == req[s].new
             now == orders[o].status
         IN  /\ o \in OrderId /\ o \in issued
             /\ LegalChange(now, new)
             /\ (req[s].kind = "create") = (now = NULL)
             /\ orders' = [orders EXCEPT ![o] = NewRow(s)]
             /\ NewRow(s) \in Row /\ NewRow(s).status = new
             /\ now # NULL => NewRow(s) = [orders[o] EXCEPT !.status = new]
             /\ events' = [events EXCEPT ![o] = Append(@, [old |-> now, new |-> new])]
             /\ outbox' = IF TopicOf(new) = NULL THEN outbox
                          ELSE [outbox EXCEPT ![o] = Append(@, TopicOf(new))]
  <1> DEFINE o == req[s].order
             new == req[s].new
             now == orders[o].status
  <1>1. CallShape(s) /\ TxShape(s) /\ OwnShape(s) /\ pc[s] = "commit"
    BY DEF IInv, SessionInv, Commit
  <1>2. o \in issued /\ o \in OrderId /\ old[s] = now
    BY <1>1 DEF OwnShape, Owns, IInv, TypeOK
  <1>3. CASE req[s].kind = "create"
    <2>1. new = "created" /\ now = NULL
      BY <1>1, <1>2, <1>3 DEF CallShape
    <2>2. NewRow(s) \in [user : User \cup {NULL}, restaurant : Restaurant \cup {NULL}, status : {"created"}]
      BY <1>3 DEF NewRow, IInv, TypeOK
    <2>3. NewRow(s) \in Row /\ NewRow(s).status = new
      BY <2>1, <2>2 DEF Row, Status
    <2> QED BY <1>1, <1>2, <1>3, <2>1, <2>3, TopicFacts DEF TxShape, Commit, Apply, LegalChange, Table
  <1>4. CASE req[s].kind # "create"
    <2>1. CanTransition(now, new)
      BY <1>1, <1>2, <1>4 DEF OwnShape, Owns
    <2>2. now # NULL /\ new \in Status
      BY <2>1, TransitionFacts
    <2>3. NewRow(s) = [orders[o] EXCEPT !.status = new] /\ orders[o] \in Row
      BY <1>2, <1>4 DEF NewRow, IInv, TypeOK
    <2>4. NewRow(s) \in Row /\ NewRow(s).status = new
      BY <2>2, <2>3 DEF Row
    <2> QED BY <1>1, <1>2, <1>4, <2>1, <2>2, <2>3, <2>4 DEF TxShape, Commit, Apply, LegalChange, Table
  <1> QED BY <1>3, <1>4

\* A legal change appended to a history gives the history of the new status.
LEMMA ChainAppend ==
  ASSUME NEW e \in Seq([old : Status \cup {NULL}, new : Status]),
         NEW now \in Status \cup {NULL}, NEW new,
         Chain(e, now), LegalChange(now, new)
  PROVE  Chain(Append(e, [old |-> now, new |-> new]), new)
  <1> DEFINE r == [old |-> now, new |-> new]
             f == Append(e, r)
  <1>1. new \in Status /\ new # NULL
    BY TransitionFacts DEF LegalChange, Status, NULL
  <1>2. r \in [old : Status \cup {NULL}, new : Status]
    BY <1>1
  <1>3. /\ Len(f) = Len(e) + 1 /\ f # <<>> /\ f[Len(e) + 1] = r
        /\ \A i \in 1 .. Len(e) : f[i] = e[i]
        /\ Len(e) \in Nat
    BY <1>2, AppendProperties, LenProperties
  <1>4. CASE now = NULL
    <2>1. e = <<>> /\ Len(e) = 0
      BY <1>4 DEF Chain
    <2>2. new = "created"
      BY <1>4, TransitionFacts DEF LegalChange
    <2>3. f[1] = [old |-> NULL, new |-> "created"] /\ Len(f) = 1
      BY <1>3, <1>4, <2>1, <2>2
    <2>4. \A i \in 2 .. Len(f) : FALSE
      BY <2>3
    <2> HIDE DEF f
    <2> QED BY <1>1, <1>3, <2>2, <2>3, <2>4 DEF Chain
  <1>5. CASE now # NULL
    <2>1. /\ e # <<>> /\ e[1] = [old |-> NULL, new |-> "created"] /\ e[Len(e)].new = now
          /\ \A i \in 2 .. Len(e) : e[i].old = e[i - 1].new /\ CanTransition(e[i].old, e[i].new)
      BY <1>5 DEF Chain
    <2>2. Len(e) >= 1
      BY <1>3, <2>1, EmptySeq
    <2>3. CanTransition(now, new)
      BY <1>5 DEF LegalChange
    <2> HIDE DEF f
    <2>4. f[1] = e[1] /\ f[Len(f)].new = new
      BY <1>3, <2>2
    <2>5. ASSUME NEW i \in 2 .. Len(f)
          PROVE  f[i].old = f[i - 1].new /\ CanTransition(f[i].old, f[i].new)
      <3>1. CASE i = Len(e) + 1
        <4>1. f[i] = r /\ f[i - 1] = e[Len(e)]
          BY <1>3, <2>2, <3>1
        <4> QED BY <2>1, <2>3, <4>1
      <3>2. CASE i # Len(e) + 1
        <4>1. i \in 2 .. Len(e) /\ i \in 1 .. Len(e) /\ i - 1 \in 1 .. Len(e)
          BY <1>3, <3>2
        <4>2. f[i] = e[i] /\ f[i - 1] = e[i - 1]
          BY <1>3, <4>1
        <4> QED BY <2>1, <4>1, <4>2
      <3> QED BY <3>1, <3>2
    <2> QED BY <1>1, <1>3, <2>1, <2>4, <2>5 DEF Chain
  <1> QED BY <1>4, <1>5

\* Appending to a sequence of one element.
LEMMA AppendPair ==
  ASSUME NEW S, NEW a \in S, NEW b \in S
  PROVE  Append(<<a>>, b) = <<a, b>>
  <1> DEFINE e == <<a>>
             f == Append(e, b)
             g == <<a, b>>
  <1>1. e \in Seq(S) /\ Len(e) = 1 /\ e[1] = a
    OBVIOUS
  <1>2. g \in Seq(S) /\ Len(g) = 2 /\ g[1] = a /\ g[2] = b
    OBVIOUS
  <1> HIDE DEF e, f, g
  <1>3. /\ f \in Seq(S) /\ Len(f) = 2 /\ f[1] = e[1] /\ f[2] = b
    <2>1. Len(f) = Len(e) + 1 /\ f \in Seq(S)
      BY <1>1, AppendProperties DEF f
    <2>2. f[1] = e[1]
      BY <1>1, AppendProperties DEF f
    <2>3. f[Len(e) + 1] = b
      BY <1>1, AppendProperties DEF f
    <2> QED BY <1>1, <2>1, <2>2, <2>3
  <1>4. \A i \in 1 .. Len(f) : f[i] = g[i]
    BY <1>1, <1>2, <1>3
  <1>5. f = g
    BY <1>2, <1>3, <1>4, SeqEqual
  <1> QED BY <1>5 DEF e, f, g

\* A commit keeps the audit trail a path and adds the notice that is due.
LEMMA CommitTables ==
  ASSUME IInv, NEW s \in Session, Commit(s)
  PROVE  TypeOK' /\ AuditTrail' /\ OutboxMatchesStatus' /\ Issued'
  <1> DEFINE o == req[s].order
             new == req[s].new
             now == orders[o].status
             EventRow == [old : Status \cup {NULL}, new : Status]
             Topics == {"orders.created", "orders.cancelled"}
  <1>0. /\ o \in OrderId /\ o \in issued /\ LegalChange(now, new)
        /\ orders' = [orders EXCEPT ![o] = NewRow(s)]
        /\ NewRow(s) \in Row /\ NewRow(s).status = new
        /\ events' = [events EXCEPT ![o] = Append(@, [old |-> now, new |-> new])]
        /\ outbox' = IF TopicOf(new) = NULL THEN outbox
                     ELSE [outbox EXCEPT ![o] = Append(@, TopicOf(new))]
    BY CommitEffect
  <1>1. TypeOK
    BY DEF IInv
  <1>2. now \in Status \cup {NULL} /\ new \in Status
    BY <1>0, <1>1, TransitionFacts DEF LegalChange, TypeOK, Row, Status
  <1>3. orders' \in [OrderId -> Row] /\ orders'[o].status = new
        /\ \A p \in OrderId \ {o} : orders'[p] = orders[p]
    BY <1>0, <1>1 DEF TypeOK
  <1>4. /\ events' \in [OrderId -> Seq(EventRow)]
        /\ events'[o] = Append(events[o], [old |-> now, new |-> new])
        /\ \A p \in OrderId \ {o} : events'[p] = events[p]
    <2>1. Append(events[o], [old |-> now, new |-> new]) \in Seq(EventRow)
      BY <1>0, <1>1, <1>2, AppendProperties DEF TypeOK
    <2> QED BY <1>0, <1>1, <2>1 DEF TypeOK
  <1>5. /\ outbox' \in [OrderId -> Seq(Topics)]
        /\ \A p \in OrderId \ {o} : outbox'[p] = outbox[p]
        /\ outbox'[o] = IF TopicOf(new) = NULL THEN outbox[o] ELSE Append(outbox[o], TopicOf(new))
    <2>1. CASE TopicOf(new) = NULL
      BY <1>0, <1>1, <2>1 DEF TypeOK
    <2>2. CASE TopicOf(new) # NULL
      <3>1. TopicOf(new) \in Topics
        BY <2>2, TopicFacts
      <3>2. Append(outbox[o], TopicOf(new)) \in Seq(Topics)
        BY <1>0, <1>1, <3>1, AppendProperties DEF TypeOK
      <3> QED BY <1>0, <1>1, <2>2, <3>2 DEF TypeOK
    <2> QED BY <2>1, <2>2
  <1>6. TypeOK'
    <2>1. \E answer \in {"ok", "ErrInternal"} : Return(s, answer)
      BY DEF Commit
    <2>2. /\ pc' \in [Session -> PC] /\ reply' \in [Session -> Reply]
          /\ tx' \in [Session -> SUBSET Table]
      BY <1>1, <2>1, TypeSession DEF Reply, Error
    <2>3. UNCHANGED <<issued, req, old>>
      BY DEF Commit
    <2> QED BY <1>1, <1>3, <1>4, <1>5, <2>2, <2>3 DEF TypeOK
  <1>7. AuditTrail'
    <2>1. Chain(events[o], now) /\ events[o] \in Seq(EventRow)
      BY <1>0, <1>1 DEF IInv, AuditTrail, TypeOK
    <2>2. Chain(events'[o], orders'[o].status)
      BY <1>0, <1>2, <1>3, <1>4, <2>1, ChainAppend
    <2>3. \A p \in OrderId \ {o} : Chain(events'[p], orders'[p].status)
      BY <1>3, <1>4 DEF IInv, AuditTrail
    <2> QED BY <2>2, <2>3 DEF AuditTrail
  <1>8. OutboxMatchesStatus'
    <2>1. outbox[o] = DueNotices(now)
      BY <1>0 DEF IInv, OutboxMatchesStatus
    <2>2. outbox'[o] = DueNotices(new)
      <3>1. CASE now = NULL
        BY <1>0, <1>5, <2>1, <3>1, TopicFacts, TransitionFacts DEF LegalChange, DueNotices, NULL
      <3>2. CASE now # NULL /\ new = "cancelled"
        <4>1. now # "cancelled"
          BY <1>0, <3>2, TransitionFacts DEF LegalChange
        <4>2. outbox[o] = <<"orders.created">> /\ TopicOf(new) = "orders.cancelled"
          BY <2>1, <3>2, <4>1, TopicFacts DEF DueNotices
        <4>3. outbox'[o] = Append(<<"orders.created">>, "orders.cancelled")
          BY <1>5, <4>2 DEF NULL
        <4>4. Append(<<"orders.created">>, "orders.cancelled") = <<"orders.created", "orders.cancelled">>
          <5>1. "orders.created" \in Topics /\ "orders.cancelled" \in Topics OBVIOUS
          <5> QED BY <5>1, AppendPair
        <4> QED BY <3>2, <4>3, <4>4 DEF DueNotices, NULL
      <3>3. CASE now # NULL /\ new # "cancelled"
        <4>1. now # "cancelled" /\ new # "created" /\ new # NULL
          BY <1>0, <3>3, TransitionFacts DEF LegalChange
        <4> QED BY <1>5, <2>1, <3>3, <4>1, TopicFacts DEF DueNotices
      <3> QED BY <3>1, <3>2, <3>3
    <2>3. \A p \in OrderId \ {o} : outbox'[p] = DueNotices(orders'[p].status)
      BY <1>3, <1>5 DEF IInv, OutboxMatchesStatus
    <2> QED BY <1>3, <2>2, <2>3 DEF OutboxMatchesStatus
  <1>9. Issued'
    BY <1>0, <1>3 DEF IInv, Issued, Commit
  <1> QED BY <1>6, <1>7, <1>8, <1>9

\* A commit of s leaves every session in good shape: no other one owns the
\* order, and the row's customer and restaurant are those it had.
LEMMA CommitSessions ==
  ASSUME IInv, NEW s \in Session, Commit(s)
  PROVE  SessionInv' /\ Exclusive'
  <1> DEFINE o == req[s].order
  <1>0. /\ o \in OrderId /\ o \in issued
        /\ orders' = [orders EXCEPT ![o] = NewRow(s)]
        /\ NewRow(s).status \in Status
        /\ orders[o].status # NULL => NewRow(s) = [orders[o] EXCEPT !.status = req[s].new]
    <2>1. req[s].new \in Status
      BY CommitEffect, TransitionFacts DEF LegalChange, Status
    <2> QED BY <2>1, CommitEffect
  <1>1. pc'[s] = "idle" /\ tx'[s] = {} /\ Others(s) /\ UNCHANGED <<issued, req, old>>
    BY DEF Commit, Return, Others, IInv, TypeOK
  <1>2. Owns(s)
    BY DEF Commit, Owns
  <1>3. orders \in [OrderId -> Row]
    BY DEF IInv, TypeOK
  <1>4. CallShape(s)' /\ TxShape(s)' /\ OwnShape(s)' /\ AuthShape(s)'
    BY <1>1 DEF CallShape, TxShape, OwnShape, AuthShape, Owns, TxPC, IInv, SessionInv
  <1>5. ASSUME NEW t \in Session \ {s}
        PROVE  CallShape(t)' /\ TxShape(t)' /\ OwnShape(t)' /\ AuthShape(t)'
    <2>1. CallShape(t) /\ TxShape(t) /\ OwnShape(t) /\ AuthShape(t)
      BY DEF IInv, SessionInv
    <2>2. pc'[t] = pc[t] /\ req'[t] = req[t] /\ old'[t] = old[t] /\ tx'[t] = tx[t]
      BY <1>1 DEF Others
    <2>3. CallShape(t)' /\ TxShape(t)'
      BY <2>1, <2>2 DEF CallShape, TxShape, Owns
    <2>4. OwnShape(t)'
      <3>1. CASE Owns(t)
        <4>1. req[t].order # o /\ req[t].order \in OrderId
          BY <1>2, <2>1, <3>1 DEF IInv, Exclusive, OwnShape, TypeOK
        <4>2. orders'[req[t].order] = orders[req[t].order]
          BY <1>0, <1>3, <4>1
        <4> QED BY <1>1, <2>1, <2>2, <3>1, <4>2 DEF OwnShape, Owns
      <3>2. CASE ~Owns(t)
        BY <2>2, <3>2 DEF OwnShape, Owns
      <3> QED BY <3>1, <3>2
    <2>5. AuthShape(t)'
      <3> SUFFICES ASSUME pc[t] \in {"begin"} \cup TxPC, req[t].kind \in {"cancel", "patch"}
                   PROVE  /\ orders'[req[t].order].status # NULL
                          /\ ~Foreign(req[t], orders'[req[t].order])
        BY <2>2 DEF AuthShape
      <3>1. /\ orders[req[t].order].status # NULL /\ ~Foreign(req[t], orders[req[t].order])
            /\ req[t].order \in OrderId
        BY <2>1 DEF AuthShape, CallShape, TxPC
      <3>2. CASE req[t].order # o
        BY <1>0, <1>3, <3>1, <3>2
      <3>3. CASE req[t].order = o
        <4>1. orders'[o] = [orders[o] EXCEPT !.status = req[s].new] /\ orders[o] \in Row
          BY <1>0, <1>3, <3>1, <3>3
        <4>2. /\ orders'[o].user = orders[o].user
              /\ orders'[o].restaurant = orders[o].restaurant
              /\ orders'[o].status # NULL
          BY <1>0, <1>3, <4>1 DEF Row, Status, NULL
        <4> QED BY <3>1, <3>3, <4>2 DEF Foreign
      <3> QED BY <3>2, <3>3
    <2> QED BY <2>3, <2>4, <2>5
  <1>6. SessionInv'
    BY <1>4, <1>5 DEF SessionInv
  <1>7. Exclusive'
    BY <1>1 DEF IInv, Exclusive, Others, Owns
  <1> QED BY <1>6, <1>7

-----------------------------------------------------------------------------
(* The theorems. *)

\* The initial state satisfies the invariant: no order, no call in progress.
LEMMA InitInv == Init => IInv
  <1> SUFFICES ASSUME Init PROVE IInv OBVIOUS
  <1>1. TypeOK BY TypeInit
  <1>2. SessionInv
    BY DEF Init, SessionInv, CallShape, TxShape, OwnShape, AuthShape, Owns, TxPC, NoRequest, NULL
  <1>3. Exclusive /\ Issued /\ AuditTrail /\ OutboxMatchesStatus
    BY DEF Init, Exclusive, Owns, Issued, AuditTrail, OutboxMatchesStatus, Chain, DueNotices, NoRow
  <1> QED BY <1>1, <1>2, <1>3 DEF IInv

\* Every step of the store keeps the invariant.
LEMMA StepInv == IInv /\ [Next]_vars => IInv'
  <1> SUFFICES ASSUME IInv, [Next]_vars PROVE IInv' OBVIOUS
  <1>1. CASE \E s \in Session : Commit(s)
    BY <1>1, CommitTables, CommitSessions DEF IInv
  <1>2. CASE \A s \in Session : ~Commit(s)
    BY <1>2, QuietSteps
  <1> QED BY <1>1, <1>2

\* The invariant holds in every reachable state.
THEOREM Invariance == Spec => []IInv
  <1> QED BY InitInv, StepInv, PTL DEF Spec

\* Every variable keeps its type, the outbox and the audit rows included: no
\* text outside the status machine ever reaches order_events.
THEOREM TypeCorrectness == Spec => []TypeOK
  <1>1. IInv => TypeOK BY DEF IInv
  <1> QED BY <1>1, Invariance, PTL

\* The audit trail of every order is a path of the status machine from its
\* creation to its current status, for any number of racing calls.
THEOREM AuditTrailHolds == Spec => []AuditTrail
  <1>1. IInv => AuditTrail BY DEF IInv
  <1> QED BY <1>1, Invariance, PTL

\* The outbox owes exactly the notices the status calls for.
THEOREM OutboxMatchesStatusHolds == Spec => []OutboxMatchesStatus
  <1>1. IInv => OutboxMatchesStatus BY DEF IInv
  <1> QED BY <1>1, Invariance, PTL

-----------------------------------------------------------------------------
(* The length of a trail. *)

\* How far along the machine a status is.
Height(s) ==
  CASE s = "created" -> 1 [] s = "accepted" -> 2 [] s = "cooking" -> 3 [] s = "ready" -> 4
    [] OTHER -> 5

\* The machine has no cycle: every transition leads higher.
LEMMA TransitionsLeadHigher ==
  ASSUME NEW a, NEW b, CanTransition(a, b)
  PROVE  Height(a) < Height(b) /\ Height(a) < 5
BY DEF CanTransition, validTransitions, Height

LEMMA ChainIsShort ==
  ASSUME NEW e \in Seq([old : Status \cup {NULL}, new : Status]), NEW now, Chain(e, now)
  PROVE  /\ Len(e) <= 5
         /\ \A i, j \in 1 .. Len(e) : e[i].new = e[j].new => i = j
  <1> DEFINE h(i) == Height(e[i].new)
  <1>1. Len(e) \in Nat
    BY LenProperties
  <1>2. \A i : h(i) \in 1 .. 5
    BY DEF Height
  <1>3. \A i \in 2 .. Len(e) : h(i - 1) < h(i) /\ h(i - 1) < 5
    <2>1. CASE now = NULL
      BY <2>1 DEF Chain
    <2>2. CASE now # NULL
      BY <2>2, TransitionsLeadHigher DEF Chain
    <2> QED BY <2>1, <2>2
  <1> HIDE DEF h
  <1>4. /\ 2 <= Len(e) => h(1) < h(2) /\ h(1) < 5
        /\ 3 <= Len(e) => h(2) < h(3) /\ h(2) < 5
        /\ 4 <= Len(e) => h(3) < h(4) /\ h(3) < 5
        /\ 5 <= Len(e) => h(4) < h(5) /\ h(4) < 5
        /\ 6 <= Len(e) => h(5) < h(6) /\ h(5) < 5
    BY <1>1, <1>3
  <1>5. Len(e) <= 5
    BY <1>1, <1>2, <1>4
  <1>6. \A i, j \in 1 .. Len(e) : i < j => h(i) < h(j)
    <2> SUFFICES ASSUME NEW i \in 1 .. Len(e), NEW j \in 1 .. Len(e), i < j
                 PROVE  h(i) < h(j)
      OBVIOUS
    <2>1. i \in 1 .. 4 /\ j \in 2 .. 5 /\ j <= Len(e)
      BY <1>1, <1>5
    <2>2. h(1) \in Nat /\ h(2) \in Nat /\ h(3) \in Nat /\ h(4) \in Nat /\ h(5) \in Nat
      BY <1>2
    <2>3. CASE i = 1
      BY <1>1, <1>4, <2>1, <2>2, <2>3
    <2>4. CASE i = 2
      BY <1>1, <1>4, <2>1, <2>2, <2>4
    <2>5. CASE i = 3
      BY <1>1, <1>4, <2>1, <2>2, <2>5
    <2>6. CASE i = 4
      BY <1>1, <1>4, <2>1, <2>2, <2>6
    <2> QED BY <2>1, <2>3, <2>4, <2>5, <2>6
  <1>7. \A i, j \in 1 .. Len(e) : e[i].new = e[j].new => ~ (i < j) /\ ~ (j < i)
    BY <1>2, <1>6 DEF h
  <1> QED BY <1>1, <1>5, <1>7

\* A trail records no status twice and has at most five entries.
EachStatusOnce == \A o \in OrderId :
  /\ Len(events[o]) <= 5
  /\ \A i, j \in 1 .. Len(events[o]) : events[o][i].new = events[o][j].new => i = j

\* However often a change is retried, repeated by Kafka or raced by other calls, it
\* is recorded once: no trail ever gets longer than the longest path of the machine
\* (UpdateOrderStatus answers a repeated status without writing).
THEOREM EachStatusOnceHolds == Spec => []EachStatusOnce
  <1>1. IInv => EachStatusOnce
    BY ChainIsShort DEF IInv, TypeOK, AuditTrail, EachStatusOnce
  <1> QED BY <1>1, Invariance, PTL

\* Only a step of Commit touches the tables.
LEMMA OnlyCommitWrites ==
  ASSUME [Next]_vars, \A s \in Session : ~Commit(s)
  PROVE  UNCHANGED tables
  BY DEF Next, Step, Crash, Submit, ReadMenu, ReadOrder, Begin, LockOrder, InsertOrder, UpdateRow,
         InsertEvent, InsertOutbox, Fail, vars, tables

\* An existing order only changes on behalf of its own customer, its own
\* restaurant or the status topic.
THEOREM AuthorisedOnlyHolds == Spec => AuthorisedOnly
  <1> DEFINE A == \A o \in OrderId :
                    orders[o].status # NULL /\ orders'[o].status # orders[o].status =>
                      \E s \in Session : /\ pc[s] = "commit" /\ req[s].order = o
                                         /\ req[s].new = orders'[o].status
                                         /\ req[s].kind = "cancel" => req[s].user = orders[o].user
                                         /\ req[s].kind = "patch" => req[s].restaurant = orders[o].restaurant
  <1>1. ASSUME IInv, [Next]_vars, NEW o \in OrderId,
               orders[o].status # NULL, orders'[o].status # orders[o].status
        PROVE  \E s \in Session : /\ pc[s] = "commit" /\ req[s].order = o
                                  /\ req[s].new = orders'[o].status
                                  /\ req[s].kind = "cancel" => req[s].user = orders[o].user
                                  /\ req[s].kind = "patch" => req[s].restaurant = orders[o].restaurant
    <2>1. PICK s \in Session : Commit(s)
      BY <1>1, OnlyCommitWrites DEF tables
    <2>2. orders' = [orders EXCEPT ![req[s].order] = NewRow(s)] /\ NewRow(s).status = req[s].new
          /\ (req[s].kind = "create") = (orders[req[s].order].status = NULL)
      BY <1>1, <2>1, CommitEffect
    <2>3. req[s].order = o /\ req[s].new = orders'[o].status
      BY <1>1, <2>2 DEF IInv, TypeOK
    <2>4. pc[s] = "commit" /\ AuthShape(s)
      BY <1>1, <2>1 DEF Commit, IInv, SessionInv
    <2>5. /\ req[s].kind = "cancel" => req[s].user = orders[o].user
          /\ req[s].kind = "patch" => req[s].restaurant = orders[o].restaurant
      BY <2>3, <2>4 DEF AuthShape, Foreign, TxPC
    <2> QED BY <2>3, <2>4, <2>5
  <1>2. IInv /\ [Next]_vars => [A]_vars
    BY <1>1
  <1> QED BY <1>2, Invariance, PTL DEF Spec, AuthorisedOnly

-----------------------------------------------------------------------------
(* The store implements the life cycle. *)

\* A commit is one step of the life cycle of its order: its creation, or an
\* advance along a legal transition.
LEMMA CommitRefines ==
  ASSUME IInv, NEW s \in Session, Commit(s)
  PROVE  Lifecycle!Next
  <1> DEFINE o == req[s].order
             new == req[s].new
             now == orders[o].status
             st == [p \in OrderId |-> orders[p].status]
  <1>0. /\ o \in OrderId /\ LegalChange(now, new)
        /\ orders' = [orders EXCEPT ![o] = NewRow(s)]
        /\ NewRow(s).status = new
        /\ events' = [events EXCEPT ![o] = Append(@, [old |-> now, new |-> new])]
        /\ outbox' = IF TopicOf(new) = NULL THEN outbox
                     ELSE [outbox EXCEPT ![o] = Append(@, TopicOf(new))]
    BY CommitEffect
  <1>1. /\ orders \in [OrderId -> Row] /\ events \in [OrderId -> Seq([old : Status \cup {NULL}, new : Status])]
        /\ outbox \in [OrderId -> Seq({"orders.created", "orders.cancelled"})]
        /\ Chain(events[o], now) /\ outbox[o] = DueNotices(now)
    BY <1>0 DEF IInv, TypeOK, AuditTrail, OutboxMatchesStatus
  <1>2. st' = [st EXCEPT ![o] = new] /\ st[o] = now
    <2>1. \A p \in OrderId : orders'[p] = IF p = o THEN NewRow(s) ELSE orders[p]
      BY <1>0, <1>1
    <2> QED BY <1>0, <2>1
  <1>3. CASE now = NULL
    <2>1. new = "created" /\ TopicOf(new) = "orders.created"
      BY <1>0, <1>3, TransitionFacts, TopicFacts DEF LegalChange
    <2>2. events[o] = <<>> /\ outbox[o] = <<>>
      BY <1>1, <1>3 DEF Chain, DueNotices
    <2>3. events' = [events EXCEPT ![o] = <<[old |-> NULL, new |-> "created"]>>]
      BY <1>0, <1>1, <1>3, <2>1, <2>2
    <2>4. outbox' = [outbox EXCEPT ![o] = <<"orders.created">>]
      <3>1. TopicOf(new) # NULL /\ Append(<<>>, "orders.created") = <<"orders.created">>
        BY <2>1 DEF NULL
      <3> QED BY <1>0, <1>1, <2>1, <2>2, <3>1
    <2>5. Lifecycle!Create(o)
      BY <1>2, <1>3, <2>1, <2>3, <2>4 DEF Lifecycle!Create, Lifecycle!NULL, NULL
    <2>6. \E p \in OrderId : Lifecycle!Create(p)
      BY <1>0, <2>5 DEF Lifecycle!Create
    <2> QED BY <2>6 DEF Lifecycle!Next
  <1>4. CASE now # NULL
    <2>1. CanTransition(now, new) /\ new \in Status
      BY <1>0, <1>4, TransitionFacts DEF LegalChange
    <2>2. Lifecycle!CanTransition(now, new) /\ new \in Lifecycle!Status /\ new # "created"
      BY <2>1, TransitionFacts
         DEF CanTransition, validTransitions, Lifecycle!CanTransition, Lifecycle!validTransitions,
             Status, Lifecycle!Status
    <2>3. outbox' = IF new = "cancelled" THEN [outbox EXCEPT ![o] = Append(@, "orders.cancelled")]
                    ELSE outbox
      BY <1>0, <2>2, TopicFacts DEF NULL
    <2>4. Lifecycle!Advance(o, new)
      BY <1>0, <1>2, <2>2, <2>3 DEF Lifecycle!Advance
    <2>5. \E p \in OrderId, to \in Lifecycle!Status : Lifecycle!Advance(p, to)
      BY <1>0, <2>2, <2>4 DEF Lifecycle!Advance
    <2> QED BY <2>5 DEF Lifecycle!Next
  <1> QED BY <1>3, <1>4

\* Calls, statements, locks and failures behind it, the store behaves as the
\* atomic life cycle of its orders.
THEOREM LifecycleImplemented == Spec => ImplementsLifecycle
  <1>1. Init => Lifecycle!Init
    BY DEF Init, Lifecycle!Init, NoRow, NULL, Lifecycle!NULL
  <1>2. IInv /\ [Next]_vars => [Lifecycle!Next]_(Lifecycle!vars)
    <2> SUFFICES ASSUME IInv, [Next]_vars PROVE [Lifecycle!Next]_(Lifecycle!vars) OBVIOUS
    <2>1. CASE \E s \in Session : Commit(s)
      BY <2>1, CommitRefines
    <2>2. CASE \A s \in Session : ~Commit(s)
      BY <2>2, OnlyCommitWrites DEF tables, Lifecycle!vars
    <2> QED BY <2>1, <2>2
  <1> QED BY <1>1, <1>2, Invariance, PTL DEF Spec, ImplementsLifecycle, Lifecycle!Spec

-----------------------------------------------------------------------------
(* What the callers were told stays true. *)

\* A session has no answer while its call is in progress.
Unanswered(s) == pc[s] # "idle" => reply[s] = NULL

Ack(s) == reply[s] = "ok" => \E o \in OrderId : req[s].order = o /\ Recorded(o, req[s].new)

TooLate == {"rejected", "cooking", "ready", "completed"}

Refusal(s) == \A o \in OrderId : req[s].order = o =>
  /\ reply[s] = "ErrOrderAlreadyCancelled" => orders[o].status = "cancelled"
  /\ reply[s] = "ErrInvalidStatusTransition" /\ req[s].kind = "cancel" => orders[o].status \in TooLate

ReplyInv == \A s \in Session : Unanswered(s) /\ Ack(s) /\ Refusal(s)

\* A session whose call has no answer yet has nothing to be held to.
LEMMA NoAnswer ==
  ASSUME NEW s \in Session, reply'[s] \in {NULL, "ErrMenuItemUnavailable", "ErrInternal"},
         pc'[s] # "idle" => reply'[s] = NULL
  PROVE  Unanswered(s)' /\ Ack(s)' /\ Refusal(s)'
  BY DEF Unanswered, Ack, Refusal, NULL

\* Answers that were true stay true in a step of s that commits nothing.
LEMMA QuietOthers ==
  ASSUME ReplyInv, UNCHANGED tables, NEW s \in Session, NEW t \in Session \ {s},
         pc'[t] = pc[t], req'[t] = req[t], reply'[t] = reply[t]
  PROVE  Unanswered(t)' /\ Ack(t)' /\ Refusal(t)'
  BY DEF ReplyInv, Unanswered, Ack, Refusal, Recorded, tables

\* The current status of an existing order is recorded in its trail.
LEMMA StatusRecorded ==
  ASSUME IInv, NEW o \in OrderId, orders[o].status # NULL
  PROVE  Recorded(o, orders[o].status)
  <1>1. Chain(events[o], orders[o].status) /\ events[o] \in Seq([old : Status \cup {NULL}, new : Status])
    BY DEF IInv, AuditTrail, TypeOK
  <1>2. events[o] # <<>> /\ events[o][Len(events[o])].new = orders[o].status
    BY <1>1 DEF Chain
  <1>3. Len(events[o]) \in Nat /\ Len(events[o]) >= 1
    BY <1>1, <1>2, EmptySeq
  <1>4. Len(events[o]) \in 1 .. Len(events[o])
    BY <1>3
  <1> QED BY <1>2, <1>4 DEF Recorded

\* From these statuses cancelled cannot be reached.
LEMMA TooLateStays ==
  ASSUME NEW a \in TooLate, NEW b, LegalChange(a, b)
  PROVE  b \in TooLate
  BY DEF TooLate, LegalChange, CanTransition, validTransitions, NULL

\* An answer given from a verdict on the current row is true.
LEMMA VerdictTrue ==
  ASSUME IInv, NEW s \in Session, NEW e \in Reply, Return(s, e), UNCHANGED <<tables, req>>,
         NEW o \in OrderId, req[s].order = o,
         e = "ok" => orders[o].status # NULL /\ orders[o].status = req[s].new,
         e = "ErrOrderAlreadyCancelled" => orders[o].status = "cancelled",
         e = "ErrInvalidStatusTransition" =>
           /\ orders[o].status \in Status \ {"cancelled"}
           /\ ~CanTransition(orders[o].status, req[s].new)
  PROVE  Unanswered(s)' /\ Ack(s)' /\ Refusal(s)'
  <1>1. pc'[s] = "idle" /\ reply'[s] = e
    BY DEF Return, IInv, TypeOK
  <1>2. Ack(s)'
    <2>1. e = "ok" => Recorded(o, req[s].new)
      BY StatusRecorded
    <2> QED BY <1>1, <2>1 DEF Ack, Recorded, tables
  <1>3. Refusal(s)'
    <2>1. ASSUME e = "ErrInvalidStatusTransition", req[s].kind = "cancel"
          PROVE  orders[o].status \in TooLate
      <3>1. req[s].new = "cancelled"
        BY <2>1 DEF IInv, SessionInv, CallShape
      <3> QED BY <2>1, <3>1 DEF CanTransition, validTransitions, Status, TooLate
    <2> QED BY <1>1, <2>1 DEF Refusal, tables
  <1> QED BY <1>1, <1>2, <1>3 DEF Unanswered

\* A step of s leaves the calls and answers of the other sessions alone.
Bystanders(s) == \A t \in Session \ {s} : pc'[t] = pc[t] /\ req'[t] = req[t] /\ reply'[t] = reply[t]

\* It is enough that s itself ends with true answers.
LEMMA QuietReply ==
  ASSUME ReplyInv, UNCHANGED tables, NEW s \in Session, Bystanders(s),
         Unanswered(s)' /\ Ack(s)' /\ Refusal(s)'
  PROVE  ReplyInv'
  BY QuietOthers DEF Bystanders, ReplyInv

\* A call that goes on has no answer.
LEMMA CallGoesOn ==
  ASSUME IInv, ReplyInv, UNCHANGED tables, NEW s \in Session, Bystanders(s),
         pc[s] # "idle", reply'[s] = reply[s]
  PROVE  ReplyInv'
  <1>1. reply'[s] = NULL
    BY DEF ReplyInv, Unanswered
  <1> QED BY <1>1, NoAnswer, QuietReply

\* A call that ends with an error that says nothing of an order.
LEMMA CallFails ==
  ASSUME IInv, ReplyInv, UNCHANGED <<tables, req>>, NEW s \in Session,
         NEW e \in {"ErrMenuItemUnavailable", "ErrInternal"}, Return(s, e)
  PROVE  ReplyInv'
  <1>1. Bystanders(s) /\ reply'[s] = e /\ pc'[s] = "idle"
    BY DEF Return, Bystanders, IInv, TypeOK
  <1> QED BY <1>1, NoAnswer, QuietReply

\* A call that ends with a verdict on the row it has just read.
LEMMA CallJudged ==
  ASSUME IInv, ReplyInv, UNCHANGED <<tables, req>>, NEW s \in Session,
         NEW e \in Reply, Return(s, e), NEW o \in OrderId, req[s].order = o,
         e = "ok" => orders[o].status # NULL /\ orders[o].status = req[s].new,
         e = "ErrOrderAlreadyCancelled" => orders[o].status = "cancelled",
         e = "ErrInvalidStatusTransition" =>
           /\ orders[o].status \in Status \ {"cancelled"}
           /\ ~CanTransition(orders[o].status, req[s].new)
  PROVE  ReplyInv'
  <1>1. Bystanders(s)
    BY DEF Return, Bystanders, IInv, TypeOK
  <1> QED BY <1>1, VerdictTrue, QuietReply

\* Steps that commit nothing.
LEMMA QuietReplies ==
  ASSUME IInv, ReplyInv, [Next]_vars, \A s \in Session : ~Commit(s)
  PROVE  ReplyInv'
  <1>0. UNCHANGED tables
    BY OnlyCommitWrites
  <1>1. ASSUME NEW s \in Session, Submit(s) PROVE ReplyInv'
    <2>1. reply'[s] = NULL /\ Bystanders(s)
      BY <1>1 DEF Submit, Bystanders, IInv, TypeOK
    <2> QED BY <1>0, <2>1, NoAnswer, QuietReply
  <1>2. ASSUME NEW s \in Session, ReadMenu(s) PROVE ReplyInv'
    <2>1. CASE Return(s, "ErrMenuItemUnavailable")
      BY <1>2, <2>1, CallFails DEF ReadMenu
    <2>2. CASE Goto(s, "begin") /\ UNCHANGED tx
      <3>1. Bystanders(s) /\ pc[s] # "idle" /\ reply'[s] = reply[s]
        BY <1>2, <2>2 DEF ReadMenu, Goto, Bystanders, IInv, TypeOK
      <3> QED BY <1>0, <3>1, CallGoesOn
    <2> QED BY <1>2, <2>1, <2>2 DEF ReadMenu
  <1>3. ASSUME NEW s \in Session, ReadOrder(s) PROVE ReplyInv'
    <2> DEFINE o == req[s].order
               v == DomainVerdict(req[s], orders[o])
    <2>1. CASE v = "pass"
      <3>1. Bystanders(s) /\ pc[s] # "idle" /\ reply'[s] = reply[s]
        BY <1>3, <2>1 DEF ReadOrder, Goto, Bystanders, IInv, TypeOK
      <3> QED BY <1>0, <3>1, CallGoesOn
    <2>2. CASE v # "pass"
      <3>1. Return(s, v) /\ UNCHANGED <<tables, req>>
        BY <1>3, <2>2 DEF ReadOrder
      <3>2. o \in OrderId /\ orders[o].status \in Status \cup {NULL}
        BY <1>3 DEF ReadOrder, IInv, SessionInv, CallShape, TypeOK, Row
      <3>3. v \in Reply
        BY <2>2 DEF DomainVerdict, Reply, Error
      <3>4. /\ v = "ok" => orders[o].status # NULL /\ orders[o].status = req[s].new
            /\ v = "ErrOrderAlreadyCancelled" => orders[o].status = "cancelled"
            /\ v = "ErrInvalidStatusTransition" =>
                 /\ orders[o].status \in Status \ {"cancelled"}
                 /\ ~CanTransition(orders[o].status, req[s].new)
        BY <3>2 DEF DomainVerdict
      <3> HIDE DEF o, v
      <3> QED BY <3>1, <3>2, <3>3, <3>4, CallJudged DEF o
    <2> QED BY <2>1, <2>2
  <1>4. ASSUME NEW s \in Session, Begin(s) PROVE ReplyInv'
    <2>1. Bystanders(s) /\ pc[s] # "idle" /\ reply'[s] = reply[s]
      BY <1>4 DEF Begin, Goto, Bystanders, IInv, TypeOK
    <2> QED BY <1>0, <2>1, CallGoesOn
  <1>5. ASSUME NEW s \in Session, LockOrder(s) PROVE ReplyInv'
    <2> DEFINE o == req[s].order
               v == RecheckVerdict(orders[o].status, req[s].new)
    <2>1. CASE v = "pass"
      <3>1. Bystanders(s) /\ pc[s] # "idle" /\ reply'[s] = reply[s]
        BY <1>5, <2>1 DEF LockOrder, Goto, Bystanders, IInv, TypeOK
      <3> QED BY <1>0, <3>1, CallGoesOn
    <2>2. CASE v # "pass"
      <3>1. Return(s, v) /\ UNCHANGED <<tables, req>>
        BY <1>5, <2>2 DEF LockOrder
      <3>2. o \in OrderId /\ orders[o].status \in Status \cup {NULL}
        BY <1>5 DEF LockOrder, IInv, SessionInv, CallShape, TypeOK, Row
      <3>3. v \in Reply
        BY <2>2 DEF RecheckVerdict, Reply, Error
      <3>4. /\ v = "ok" => orders[o].status # NULL /\ orders[o].status = req[s].new
            /\ v = "ErrOrderAlreadyCancelled" => orders[o].status = "cancelled"
            /\ v = "ErrInvalidStatusTransition" =>
                 /\ orders[o].status \in Status \ {"cancelled"}
                 /\ ~CanTransition(orders[o].status, req[s].new)
        BY <3>2 DEF RecheckVerdict
      <3> HIDE DEF o, v
      <3> QED BY <3>1, <3>2, <3>3, <3>4, CallJudged DEF o
    <2> QED BY <2>1, <2>2
  <1>6. ASSUME NEW s \in Session, InsertOrder(s) PROVE ReplyInv'
    <2>1. CASE Return(s, "ErrMenuItemUnavailable") /\ UNCHANGED <<issued, req>>
      BY <1>6, <2>1, CallFails DEF InsertOrder
    <2>2. CASE \E o \in OrderId \ issued :
                 /\ issued' = issued \cup {o}
                 /\ req' = [req EXCEPT ![s].order = o]
                 /\ Write(s, "orders", "audit")
      <3>1. Bystanders(s) /\ pc[s] # "idle" /\ reply'[s] = reply[s]
        BY <1>6, <2>2 DEF InsertOrder, Write, Goto, Bystanders, IInv, TypeOK
      <3> QED BY <1>0, <3>1, CallGoesOn
    <2> QED BY <1>6, <2>1, <2>2 DEF InsertOrder
  <1>7. ASSUME NEW s \in Session, UpdateRow(s) \/ InsertEvent(s) \/ InsertOutbox(s) PROVE ReplyInv'
    <2>1. Bystanders(s) /\ pc[s] # "idle" /\ reply'[s] = reply[s]
      BY <1>7 DEF UpdateRow, InsertEvent, InsertOutbox, Write, Goto, Bystanders, IInv, TypeOK
    <2> QED BY <1>0, <2>1, CallGoesOn
  <1>8. ASSUME NEW s \in Session, Fail(s) PROVE ReplyInv'
    BY <1>8, CallFails DEF Fail
  <1>9. ASSUME Crash PROVE ReplyInv'
    <2>1. \A s \in Session : reply'[s] = NULL
      BY <1>9 DEF Crash
    <2> QED BY <2>1, NoAnswer DEF ReplyInv
  <1>10. ASSUME UNCHANGED vars PROVE ReplyInv'
    BY <1>10 DEF vars, ReplyInv, Unanswered, Ack, Refusal, Recorded
  <1> QED BY <1>1, <1>2, <1>3, <1>4, <1>5, <1>6, <1>7, <1>8, <1>9, <1>10 DEF Next, Step

\* A commit makes its own answer true and no earlier answer false.
LEMMA CommitReplies ==
  ASSUME IInv, ReplyInv, NEW s \in Session, Commit(s)
  PROVE  ReplyInv'
  <1> DEFINE o == req[s].order
             new == req[s].new
             now == orders[o].status
             r == [old |-> now, new |-> new]
             RecordedNext(p, n) == \E i \in 1 .. Len(events'[p]) : events'[p][i].new = n
             EventRow == [old : Status \cup {NULL}, new : Status]
  <1>0. /\ o \in OrderId /\ LegalChange(now, new)
        /\ orders' = [orders EXCEPT ![o] = NewRow(s)] /\ NewRow(s).status = new
        /\ events' = [events EXCEPT ![o] = Append(@, r)]
    BY CommitEffect
  <1>1. TypeOK /\ IInv' /\ events[o] \in Seq(EventRow)
    BY <1>0, CommitTables, CommitSessions DEF IInv, TypeOK
  <1>2. orders'[o].status = new /\ \A p \in OrderId \ {o} : orders'[p] = orders[p] /\ events'[p] = events[p]
    BY <1>0, <1>1 DEF TypeOK
  <1>3. \A p \in OrderId : \A n : Recorded(p, n) => RecordedNext(p, n)
    <2>1. r \in EventRow
      BY <1>0, <1>1, TransitionFacts DEF LegalChange, TypeOK, Row, Status
    <2>2. /\ Len(events'[o]) = Len(events[o]) + 1 /\ Len(events[o]) \in Nat
          /\ \A i \in 1 .. Len(events[o]) : events'[o][i] = events[o][i]
      BY <1>0, <1>1, <2>1, AppendProperties, LenProperties DEF TypeOK
    <2>3. \A n : Recorded(o, n) => RecordedNext(o, n)
      BY <2>2 DEF Recorded
    <2>4. \A p \in OrderId \ {o} : \A n : Recorded(p, n) => RecordedNext(p, n)
      BY <1>2 DEF Recorded
    <2> QED BY <2>3, <2>4
  <1>4. UNCHANGED req /\ Bystanders(s) /\ pc'[s] = "idle" /\ reply'[s] \in {"ok", "ErrInternal"}
    BY DEF Commit, Return, Bystanders, IInv, TypeOK
  <1>5. ASSUME NEW t \in Session \ {s}
        PROVE  Unanswered(t)' /\ Ack(t)' /\ Refusal(t)'
    <2>1. Unanswered(t) /\ Ack(t) /\ Refusal(t)
      BY DEF ReplyInv
    <2>2. pc'[t] = pc[t] /\ req'[t] = req[t] /\ reply'[t] = reply[t]
      BY <1>4 DEF Bystanders
    <2>3. Ack(t)'
      BY <1>3, <2>1, <2>2 DEF Ack, Recorded
    <2>4. now = "cancelled" => FALSE
      BY <1>0, TransitionFacts DEF LegalChange, NULL
    <2>5. now \in TooLate => new \in TooLate
      BY <1>0, TooLateStays
    <2>6. Refusal(t)'
      BY <1>2, <2>1, <2>2, <2>4, <2>5 DEF Refusal
    <2> QED BY <2>1, <2>2, <2>3, <2>6 DEF Unanswered
  <1>6. Unanswered(s)' /\ Ack(s)' /\ Refusal(s)'
    <2>1. RecordedNext(o, new)
      <3>1. r \in EventRow
        BY <1>0, <1>1, TransitionFacts DEF LegalChange, TypeOK, Row, Status
      <3>2. /\ Len(events'[o]) = Len(events[o]) + 1 /\ Len(events[o]) \in Nat
            /\ events'[o][Len(events[o]) + 1] = r
        BY <1>0, <1>1, <3>1, AppendProperties, LenProperties DEF TypeOK
      <3> QED BY <3>2
    <2> QED BY <1>0, <1>4, <2>1 DEF Unanswered, Ack, Refusal, Recorded
  <1> QED BY <1>5, <1>6 DEF ReplyInv

\* The answers are true in every reachable state.
THEOREM RepliesInvariance == Spec => []ReplyInv
  <1>1. Init => ReplyInv
    BY DEF Init, ReplyInv, Unanswered, Ack, Refusal, NULL
  <1>2. IInv /\ ReplyInv /\ [Next]_vars => ReplyInv'
    BY QuietReplies, CommitReplies
  <1> QED BY <1>1, <1>2, Invariance, PTL DEF Spec

\* Whoever was told "ok" finds the change in the trail of the order for ever.
THEOREM AcknowledgedHolds == Spec => []AcknowledgedChangeIsRecorded
  <1>1. ReplyInv => AcknowledgedChangeIsRecorded
    BY DEF ReplyInv, Ack, AcknowledgedChangeIsRecorded
  <1> QED BY <1>1, RepliesInvariance, PTL

\* A refusal given once stays true: cancelled is final, too late stays too late.
THEOREM RefusalHolds == Spec => []RefusalStaysTrue
  <1>1. ReplyInv => RefusalStaysTrue
    BY DEF ReplyInv, Refusal, RefusalStaysTrue, TooLate
  <1> QED BY <1>1, RepliesInvariance, PTL
====
