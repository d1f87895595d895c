----------------------------- MODULE MenuProofs -----------------------------
(***************************************************************************)
(* Theorems about Menu, for any number of items, prices, syncs and orders. *)
(***************************************************************************)
EXTENDS Menu, TLAPS

\* A row is locked by one sync or by orders.
Exclusion == \A c, d \in Call : Conflict(c, d) => Held(c) \cap Held(d) = {}

\* What an order locked is still as it was when it locked it.
Fresh ==
  \A c \in Order : ~ stale[c] => \A i \in Held(c) : menu[i] = entry[c][i]

\* An order in a transaction was priced by a menu that offered its items.
Priced ==
  \A c \in Order : pc[c] \in {"rows", "insert"} => \A i \in ItemsOf(want[c]) : entry[c][i] \in Price

IInv == TypeOK /\ Exclusion /\ Fresh /\ Priced

-----------------------------------------------------------------------------
(* Locks. *)

\* The rows held are the first ones of the request.
LEMMA HeldIsPrefix ==
  ASSUME TypeOK, NEW c \in Call
  PROVE  /\ Held(c) \subseteq ItemsOf(want[c])
         /\ ItemsOf(want[c]) \subseteq Item
         /\ got[c] = 0 => Held(c) = {}
         /\ AllLocked(c) => Held(c) = ItemsOf(want[c])
BY DEF TypeOK, Held, ItemsOf, AllLocked

\* Locking a row adds that row.
LEMMA HeldGrows ==
  ASSUME TypeOK, NEW c \in Call, LockRow(c)
  PROVE  /\ NextRow(c) \in Item
         /\ Held(c)' = Held(c) \cup {NextRow(c)}
         /\ \A d \in Call : d # c => Held(d)' = Held(d)
<1>1. got[c] \in Nat /\ got[c] < Len(want[c]) /\ want' = want
  BY DEF TypeOK, LockRow, AllLocked, request
<1>2. got' = [got EXCEPT ![c] = @ + 1]
  BY DEF LockRow
<1>3. NextRow(c) \in Item
  BY <1>1 DEF TypeOK, NextRow
<1>4. got'[c] = got[c] + 1 /\ \A d \in Call : d # c => got'[d] = got[d]
  BY <1>2 DEF TypeOK
<1>5. 1 .. got'[c] = (1 .. got[c]) \cup {got[c] + 1}
  BY <1>1, <1>4
<1>6. QED
  BY <1>1, <1>3, <1>4, <1>5 DEF Held, NextRow

\* Ending a transaction gives up its rows and nobody else's.
LEMMA HeldAfterEnd ==
  ASSUME TypeOK, NEW c \in Call, End(c), want' = want
  PROVE  Held(c)' = {} /\ \A d \in Call : d # c => Held(d)' = Held(d)
BY DEF TypeOK, End, Held

-----------------------------------------------------------------------------
(* Type correctness. *)

LEMMA TypeInit == Init => TypeOK
BY DEF Init, TypeOK, AllLocked, Call

LEMMA EndKeepsType ==
  ASSUME TypeOK, NEW c \in Call, End(c), UNCHANGED <<request, placed>>,
         menu' \in [Item -> Entry \cup {Absent}], by' \in [Item -> Sync \cup {Absent}]
  PROVE  TypeOK'
BY DEF TypeOK, End, AllLocked, request

LEMMA TypeStep == TypeOK /\ [Next]_vars => TypeOK'
<1> SUFFICES ASSUME TypeOK, [Next]_vars PROVE TypeOK'
  OBVIOUS
<1>1. ASSUME NEW c \in Call, SubmitSync(c) PROVE TypeOK'
  <2>1. PICK w \in Request, e \in [Item -> Entry \cup {Absent}] :
          want' = [want EXCEPT ![c] = w] /\ entry' = [entry EXCEPT ![c] = e]
    BY <1>1 DEF SubmitSync
  <2>2. w \in Seq(Item)
    BY MaxItemsAssumption DEF Request
  <2>3. QED
    BY <1>1, <2>1, <2>2 DEF SubmitSync, TypeOK, AllLocked, table
<1>2. ASSUME NEW c \in Call, PriceOrder(c) PROVE TypeOK'
  <2>1. PICK w \in Request :
          /\ want' = [want EXCEPT ![c] = w] /\ entry' = [entry EXCEPT ![c] = menu]
          /\ pc' = [pc EXCEPT ![c] = IF \A i \in ItemsOf(w) : menu[i] \in Price THEN "rows" ELSE "done"]
    BY <1>2 DEF PriceOrder
  <2>2. w \in Seq(Item)
    BY MaxItemsAssumption DEF Request
  <2>3. QED
    BY <1>2, <2>1, <2>2 DEF PriceOrder, TypeOK, AllLocked, table
<1>3. ASSUME NEW c \in Call, LockRow(c) PROVE TypeOK'
  BY <1>3 DEF LockRow, TypeOK, AllLocked, table, request
<1>4. ASSUME NEW c \in Call, CommitSync(c) PROVE TypeOK'
  BY <1>4, EndKeepsType DEF CommitSync, TypeOK
<1>5. ASSUME NEW c \in Call, Recheck(c) PROVE TypeOK'
  <2>1. CASE stale[c]
    BY <1>5, <2>1, EndKeepsType DEF Recheck, TypeOK, table
  <2>2. CASE ~ stale[c]
    BY <1>5, <2>2 DEF Recheck, TypeOK, AllLocked, table, request
  <2>3. QED
    BY <2>1, <2>2
<1>6. ASSUME NEW c \in Call, CommitOrder(c) PROVE TypeOK'
  BY <1>6 DEF CommitOrder, End, TypeOK, AllLocked, request
<1>7. ASSUME NEW c \in Call, Fail(c) PROVE TypeOK'
  BY <1>7, EndKeepsType DEF Fail, TypeOK, table
<1>8. CASE BreakDeadlock
  <2>1. PICK c \in Call : End(c) /\ UNCHANGED <<table, request>>
    BY <1>8 DEF BreakDeadlock
  <2>2. QED
    BY <2>1, EndKeepsType DEF TypeOK, table
<1>9. CASE UNCHANGED vars
  BY <1>9 DEF vars, TypeOK, AllLocked
<1>10. QED
  BY <1>1, <1>2, <1>3, <1>4, <1>5, <1>6, <1>7, <1>8, <1>9 DEF Next

\* Type correctness of the menu and the calls on it.
THEOREM TypeCorrectness == Spec => []TypeOK
BY TypeInit, TypeStep, PTL DEF Spec

-----------------------------------------------------------------------------
(* Snapshot pricing. *)

LEMMA InvInit == Init => IInv
BY TypeInit DEF Init, IInv, Exclusion, Fresh, Priced, Held, Call

\* The end of a transaction that changes no row disturbs nothing.
LEMMA EndKeepsInv ==
  ASSUME IInv, NEW c \in Call, End(c), UNCHANGED <<menu, want, entry>>
  PROVE  Exclusion' /\ Fresh' /\ Priced'
<1>1. Held(c)' = {} /\ \A d \in Call : d # c => Held(d)' = Held(d)
  BY HeldAfterEnd DEF IInv
<1>2. Exclusion'
  BY <1>1 DEF IInv, Exclusion, Conflict
<1>3. Fresh'
  BY <1>1 DEF IInv, Fresh, End, TypeOK, Call
<1>4. Priced'
  BY DEF IInv, Priced, End, TypeOK, Call
<1>5. QED
  BY <1>2, <1>3, <1>4

\* The exclusive locks of a sync keep what orders have read: its commit changes no
\* row an order holds.
LEMMA InvStep == IInv /\ [Next]_vars => IInv'
<1> SUFFICES ASSUME IInv, [Next]_vars PROVE Exclusion' /\ Fresh' /\ Priced'
  BY TypeStep DEF IInv
<1>t. TypeOK
  BY DEF IInv
<1>1. ASSUME NEW c \in Call, SubmitSync(c) PROVE Exclusion' /\ Fresh' /\ Priced'
  <2>1. c \notin Order /\ got[c] = 0
    BY <1>1, <1>t, CallAssumption DEF SubmitSync, TypeOK
  <2>2. \A d \in Call : Held(d)' = Held(d)
    BY <1>1, <1>t, <2>1 DEF SubmitSync, Held, TypeOK
  <2>3. \A d \in Order : want'[d] = want[d] /\ entry'[d] = entry[d] /\ pc'[d] = pc[d]
    BY <1>1, <1>t, <2>1 DEF SubmitSync, TypeOK, Call
  <2>4. QED
    BY <1>1, <2>2, <2>3 DEF IInv, Exclusion, Conflict, Fresh, Priced, SubmitSync, table, Call
<1>2. ASSUME NEW c \in Call, PriceOrder(c) PROVE Exclusion' /\ Fresh' /\ Priced'
  <2>1. got[c] = 0 /\ got'[c] = 0 /\ got' = got
    BY <1>2, <1>t DEF PriceOrder, TypeOK
  <2>2. \A d \in Call : Held(d)' = Held(d)
    BY <1>2, <1>t, <2>1 DEF PriceOrder, Held, TypeOK
  <2>3. Held(c) = {}
    BY <1>t, <2>1, HeldIsPrefix
  <2>4. \A d \in Order : d # c => want'[d] = want[d] /\ entry'[d] = entry[d] /\ pc'[d] = pc[d]
    BY <1>2, <1>t DEF PriceOrder, TypeOK, Call
  <2>5. pc'[c] = "rows" => \A i \in ItemsOf(want'[c]) : entry'[c][i] \in Price
    BY <1>2, <1>t DEF PriceOrder, TypeOK
  <2>6. pc'[c] \in {"rows", "done"}
    BY <1>2, <1>t DEF PriceOrder, TypeOK
  <2>7. Exclusion'
    BY <2>2 DEF IInv, Exclusion, Conflict
  <2>8. Fresh'
    BY <1>2, <2>2, <2>3, <2>4 DEF IInv, Fresh, PriceOrder, table, Call
  <2>9. Priced'
    BY <2>4, <2>5, <2>6 DEF IInv, Priced
  <2>10. QED
    BY <2>7, <2>8, <2>9
<1>3. ASSUME NEW c \in Call, LockRow(c) PROVE Exclusion' /\ Fresh' /\ Priced'
  <2>1. /\ Held(c)' = Held(c) \cup {NextRow(c)}
        /\ \A d \in Call : d # c => Held(d)' = Held(d)
    BY <1>3, <1>t, HeldGrows
  <2>2. \A d \in Call : Conflict(c, d) => NextRow(c) \notin Held(d)
    BY <1>3 DEF LockRow, WaitsFor
  <2>3. Exclusion'
    BY <2>1, <2>2 DEF IInv, Exclusion, Conflict
  <2>4. Fresh'
    <3>1. \A d \in Order : d # c => stale'[d] = stale[d]
      BY <1>3, <1>t DEF LockRow, TypeOK, Call
    <3>2. c \in Order /\ ~ stale'[c] => ~ stale[c] /\ menu[NextRow(c)] = entry[c][NextRow(c)]
      BY <1>3, <1>t DEF LockRow, TypeOK, Call
    <3>3. QED
      BY <1>3, <2>1, <3>1, <3>2 DEF IInv, Fresh, LockRow, table, request, Call
  <2>5. Priced'
    BY <1>3 DEF IInv, Priced, LockRow, request
  <2>6. QED
    BY <2>3, <2>4, <2>5
<1>4. ASSUME NEW c \in Call, CommitSync(c) PROVE Exclusion' /\ Fresh' /\ Priced'
  <2>1. Held(c)' = {} /\ \A d \in Call : d # c => Held(d)' = Held(d)
    BY <1>4, <1>t, HeldAfterEnd DEF CommitSync, request
  <2>2. Exclusion'
    BY <2>1 DEF IInv, Exclusion, Conflict
  <2>3. Fresh'
    <3>1. SUFFICES ASSUME NEW d \in Order, ~ stale'[d], NEW i \in Held(d)'
                   PROVE  menu'[i] = entry'[d][i]
      BY DEF Fresh
    <3>2. d # c /\ d \in Call /\ c \in Sync
      BY <1>4, CallAssumption DEF CommitSync, Call
    <3>3. i \in Held(d) /\ i \notin Held(c) /\ i \in Item
      BY <1>t, <2>1, <3>1, <3>2, HeldIsPrefix DEF IInv, Exclusion, Conflict
    <3>4. menu'[i] = menu[i]
      BY <1>4, <3>3 DEF CommitSync
    <3>5. ~ stale[d]
      BY <1>4, <1>t, <3>1, <3>2 DEF CommitSync, End, TypeOK
    <3>6. QED
      BY <1>4, <3>3, <3>4, <3>5 DEF IInv, Fresh, CommitSync, request
  <2>4. Priced'
    BY <1>4, <1>t DEF IInv, Priced, CommitSync, End, TypeOK, request, Call
  <2>5. QED
    BY <2>2, <2>3, <2>4
<1>5. ASSUME NEW c \in Call, Recheck(c) PROVE Exclusion' /\ Fresh' /\ Priced'
  <2>1. CASE stale[c]
    BY <1>5, <2>1, EndKeepsInv DEF Recheck, table, request
  <2>2. CASE ~ stale[c]
    <3>1. UNCHANGED <<menu, want, entry, got, stale>> /\ pc' = [pc EXCEPT ![c] = "insert"] /\ pc[c] = "rows"
      BY <1>5, <2>2 DEF Recheck, table, request
    <3>2. Exclusion' /\ Fresh'
      BY <3>1 DEF IInv, Exclusion, Conflict, Fresh, Held
    <3>3. Priced'
      BY <1>t, <3>1 DEF IInv, Priced, TypeOK, Call
    <3>4. QED
      BY <3>2, <3>3
  <2>3. QED
    BY <2>1, <2>2
<1>6. ASSUME NEW c \in Call, CommitOrder(c) PROVE Exclusion' /\ Fresh' /\ Priced'
  BY <1>6, EndKeepsInv DEF CommitOrder, request
<1>7. ASSUME NEW c \in Call, Fail(c) PROVE Exclusion' /\ Fresh' /\ Priced'
  BY <1>7, EndKeepsInv DEF Fail, table, request
<1>8. CASE BreakDeadlock
  <2>1. PICK c \in Call : End(c) /\ UNCHANGED <<table, request>>
    BY <1>8 DEF BreakDeadlock
  <2>2. QED
    BY <2>1, EndKeepsInv DEF table, request
<1>9. CASE UNCHANGED vars
  BY <1>9 DEF vars, IInv, Exclusion, Conflict, Fresh, Priced, Held
<1>10. QED
  BY <1>1, <1>2, <1>3, <1>4, <1>5, <1>6, <1>7, <1>8, <1>9 DEF Next

\* Snapshot pricing holds for any number of syncs, orders, items and prices: the
\* locks of CreateOrder keep its rows until it commits.
THEOREM OrderedAsOfferedHolds == Spec => OrderedAsOffered
<1>1. ASSUME IInv, Next, NEW c \in Order, c \in placed' \ placed
      PROVE  \A i \in ItemsOf(want[c]) : menu[i] = entry[c][i] /\ menu[i] \in Price
  <2>1. CommitOrder(c)
    <3>1. ASSUME NEW d \in Call, CommitOrder(d) PROVE d = c
      BY <1>1, <3>1 DEF CommitOrder
    <3>2. QED
      BY <1>1, <3>1 DEF Next, SubmitSync, PriceOrder, LockRow, CommitSync, Recheck, Fail,
                        BreakDeadlock, table
  <2>2. pc[c] = "insert" /\ AllLocked(c) /\ ~ stale[c] /\ c \in Call
    BY <1>1, <2>1 DEF CommitOrder, IInv, TypeOK, Call
  <2>3. Held(c) = ItemsOf(want[c])
    BY <1>1, <2>2, HeldIsPrefix DEF IInv
  <2>4. QED
    BY <1>1, <2>2, <2>3 DEF IInv, Fresh, Priced
<1>2. IInv /\ [Next]_vars =>
        [\A c \in Order : c \in placed' \ placed =>
           \A i \in ItemsOf(want[c]) : menu[i] = entry[c][i] /\ menu[i] \in Price]_vars
  BY <1>1
<1>3. QED
  BY InvInit, InvStep, <1>2, PTL DEF Spec, OrderedAsOffered

-----------------------------------------------------------------------------
(* Batches. *)

\* The rows of a sync are in the menu only once it is over, and then its request
\* does not change any more.
Written == \A i \in Item : by[i] \in Sync => pc[by[i]] = "done"

LEMMA MixInit == Init => Written /\ NoMixedMenu
BY CallAssumption DEF Init, Written, NoMixedMenu

\* A step that changes no row and takes no call back changes nothing about the menu.
LEMMA MixUntouched ==
  ASSUME TypeOK, Written, NoMixedMenu, UNCHANGED <<menu, by>>,
         \A c \in Sync : pc[c] = "done" =>
           pc'[c] = "done" /\ want'[c] = want[c] /\ entry'[c] = entry[c]
  PROVE  Written' /\ NoMixedMenu'
<1>1. Written'
  BY DEF Written
<1>2. \A i \in Item : by[i] # Absent => by[i] \in Sync
  BY DEF TypeOK
<1>3. \A i \in Item : by'[i] # Absent => menu'[i] = entry'[by'[i]][i]
  BY <1>2 DEF Written, NoMixedMenu
<1>4. ASSUME NEW i \in Item, NEW j \in Item, NEW a \in Sync, NEW b \in Sync, a # b,
             {i, j} \subseteq ItemsOf(want'[a]) \cap ItemsOf(want'[b]),
             by'[i] = a, by'[j] = b
      PROVE  FALSE
  <2>1. want'[a] = want[a] /\ want'[b] = want[b]
    BY <1>4 DEF Written
  <2> QED
    BY <1>4, <2>1 DEF NoMixedMenu
<1> QED
  BY <1>1, <1>3, <1>4 DEF NoMixedMenu, ItemsOf

\* The commit of a sync writes all its rows, so that what is left of another sync
\* is outside of them.
LEMMA MixCommitted ==
  ASSUME TypeOK, Written, NoMixedMenu, NEW c \in Call, CommitSync(c)
  PROVE  Written' /\ NoMixedMenu'
<1>1. /\ c \in Sync /\ pc[c] = "rows" /\ UNCHANGED <<want, entry>>
      /\ Held(c) = ItemsOf(want[c]) /\ Held(c) \subseteq Item
  BY HeldIsPrefix DEF CommitSync, request
<1>2. \A i \in Item : /\ by'[i] = IF i \in Held(c) THEN c ELSE by[i]
                      /\ menu'[i] = IF i \in Held(c) THEN entry[c][i] ELSE menu[i]
  BY DEF CommitSync
<1>3. pc' = [pc EXCEPT ![c] = "done"]
  BY DEF CommitSync, End
<1>4. Written'
  BY <1>1, <1>2, <1>3 DEF Written, TypeOK, Call
<1>5. \A i \in Item : by'[i] # Absent => menu'[i] = entry'[by'[i]][i]
  BY <1>1, <1>2 DEF NoMixedMenu
<1>6. ASSUME NEW i \in Item, NEW j \in Item, NEW a \in Sync, NEW b \in Sync, a # b,
             {i, j} \subseteq ItemsOf(want[a]) \cap ItemsOf(want[b]),
             by'[i] = a, by'[j] = b
      PROVE  FALSE
  <2>1. by[i] # c /\ by[j] # c
    BY <1>1 DEF Written
  <2>2. CASE a = c \/ b = c
    BY <1>1, <1>2, <1>6, <2>1, <2>2
  <2>3. CASE a # c /\ b # c
    <3>1. by[i] = a /\ by[j] = b
      BY <1>2, <1>6, <2>3
    <3> QED
      BY <1>6, <3>1 DEF NoMixedMenu
  <2> QED
    BY <2>2, <2>3
<1> QED
  BY <1>1, <1>4, <1>5, <1>6 DEF NoMixedMenu, ItemsOf

LEMMA MixStep == TypeOK /\ Written /\ NoMixedMenu /\ [Next]_vars => Written' /\ NoMixedMenu'
<1> SUFFICES ASSUME TypeOK, Written, NoMixedMenu, [Next]_vars
             PROVE  Written' /\ NoMixedMenu'
  OBVIOUS
<1>1. ASSUME NEW c \in Call, CommitSync(c) PROVE Written' /\ NoMixedMenu'
  BY <1>1, MixCommitted
<1>2. CASE \E c \in Call : SubmitSync(c) \/ PriceOrder(c)
  <2>1. PICK c \in Call : /\ pc[c] = "idle" /\ UNCHANGED <<menu, by>>
                          /\ \A d \in Call : d # c => /\ pc'[d] = pc[d] /\ want'[d] = want[d]
                                                      /\ entry'[d] = entry[d]
    BY <1>2 DEF SubmitSync, PriceOrder, table, TypeOK
  <2> QED
    BY <2>1, MixUntouched DEF Call
<1>3. CASE \E c \in Call : LockRow(c) \/ Recheck(c) \/ CommitOrder(c) \/ Fail(c)
  <2>1. PICK c \in Call : /\ pc[c] \in {"rows", "insert"} /\ UNCHANGED <<menu, by, want, entry>>
                          /\ \A d \in Call : d # c => pc'[d] = pc[d]
    BY <1>3 DEF LockRow, Recheck, CommitOrder, Fail, End, table, request, TypeOK
  <2> QED
    BY <2>1, MixUntouched DEF Call
<1>4. CASE BreakDeadlock
  <2>1. PICK c \in Call : End(c) /\ UNCHANGED <<table, request>>
    BY <1>4 DEF BreakDeadlock
  <2>2. \A d \in Call : pc[d] = "done" => pc'[d] = "done"
    BY <2>1 DEF End, TypeOK
  <2> QED
    BY <2>1, <2>2, MixUntouched DEF table, request, Call
<1>5. CASE UNCHANGED vars
  BY <1>5, MixUntouched DEF vars
<1> QED
  BY <1>1, <1>2, <1>3, <1>4, <1>5 DEF Next

\* The menu never mixes two syncs of the same items, for any number of them:
\* UpsertMenuItems writes its batch in one transaction.
THEOREM NoMixedMenuHolds == Spec => []NoMixedMenu
BY TypeInit, TypeStep, MixInit, MixStep, PTL DEF Spec
=============================================================================
