-------------------------------- MODULE Menu --------------------------------
(***************************************************************************)
(* Menu synchronisation against ordering: UpsertMenu (HTTP and gRPC) and   *)
(* the part of CreateOrder that depends on the menu of one restaurant.     *)
(*                                                                         *)
(* Both lock rows of menu_items one by one until their transaction ends: a *)
(* sync in the order of its request, an order (SELECT ... FOR SHARE) in    *)
(* the order its scan meets the rows.  Nothing fixes either order, so they *)
(* can wait for each other in a cycle; PostgreSQL then ends one of them.   *)
(***************************************************************************)
EXTENDS Integers, Sequences

CONSTANTS
  Item,      \* menu items (external_id)
  Price,     \* prices
  Stopped,   \* an entry on the stop list (is_available = false)
  Absent,    \* an item the menu does not have
  Sync,      \* calls of UpsertMenu
  Order,     \* calls of CreateOrder
  MaxItems   \* bound on the items of a call

ASSUME MaxItemsAssumption == MaxItems \in Nat \ {0}
ASSUME EntryAssumption == Stopped \notin Price /\ Absent \notin Price \cup {Stopped}
ASSUME CallAssumption == Sync \cap Order = {} /\ Absent \notin Sync

Entry == Price \cup {Stopped}
Call == Sync \cup Order

VARIABLES
  menu,     \* [Item -> Entry or Absent]: menu_items, committed
  by,       \* history: [Item -> the sync that wrote the row, or Absent]
  pc,       \* [Call -> "idle", "rows", "insert" or "done"]
  want,     \* [Call -> Seq(Item)]: the items, in locking order
  entry,    \* [Call -> [Item -> Entry or Absent]]: a sync's new entries, or
            \* the menu an order was priced by
  got,      \* [Call -> number of rows locked]
  stale,    \* [Call -> BOOLEAN]: a row read by the order differs from its price
  placed    \* history: orders committed

vars == <<menu, by, pc, want, entry, got, stale, placed>>
table == <<menu, by, placed>>
request == <<want, entry>>

\* No item twice: UpsertMenu refuses it, CreateOrder merges it.
Request == {w \in UNION {[1 .. n -> Item] : n \in 1 .. MaxItems} :
              \A k, l \in DOMAIN w : w[k] = w[l] => k = l}

ItemsOf(w) == {w[k] : k \in DOMAIN w}
Held(c) == {want[c][k] : k \in 1 .. got[c]}

\* A new restaurant: any menu is the work of syncs.
Init ==
  /\ menu = [i \in Item |-> Absent]
  /\ by = [i \in Item |-> Absent]
  /\ pc = [c \in Call |-> "idle"]
  /\ want = [c \in Call |-> <<>>]
  /\ entry = [c \in Call |-> [i \in Item |-> Absent]]
  /\ got = [c \in Call |-> 0] /\ stale = [c \in Call |-> FALSE]
  /\ placed = {}

-----------------------------------------------------------------------------
(* A call begins. *)

\* UpsertMenu has validated the request; the transaction begins.
SubmitSync(c) ==
  /\ c \in Sync /\ pc[c] = "idle"
  /\ \E w \in Request, e \in [Item -> Entry \cup {Absent}] :
       /\ \A i \in Item : e[i] = Absent <=> i \notin ItemsOf(w)
       /\ want' = [want EXCEPT ![c] = w] /\ entry' = [entry EXCEPT ![c] = e]
  /\ pc' = [pc EXCEPT ![c] = "rows"]
  /\ UNCHANGED <<table, got, stale>>

\* OrderService.CreateOrder reads the menu, prices the items by it and refuses
\* those it does not offer.
PriceOrder(c) ==
  /\ c \in Order /\ pc[c] = "idle"
  /\ \E w \in Request :
       /\ want' = [want EXCEPT ![c] = w] /\ entry' = [entry EXCEPT ![c] = menu]
       /\ pc' = [pc EXCEPT ![c] = IF \A i \in ItemsOf(w) : menu[i] \in Price THEN "rows" ELSE "done"]
  /\ UNCHANGED <<table, got, stale>>

-----------------------------------------------------------------------------
(* Its transaction. *)

NextRow(c) == want[c][got[c] + 1]
AllLocked(c) == got[c] = Len(want[c])

\* Slip: CreateOrder reads the rows with a plain SELECT.
Conflict_PlainSelect(c, d) == c # d /\ c \in Sync /\ d \in Sync

\* Two orders share a row; a sync shares with nobody.
Conflict(c, d) == c # d /\ (c \in Sync \/ d \in Sync)

WaitsFor(c, d) ==
  pc[c] = "rows" /\ ~ AllLocked(c) /\ Conflict(c, d) /\ NextRow(c) \in Held(d)

\* The next INSERT ... ON CONFLICT of the batch, or the next row of the scan.
LockRow(c) ==
  /\ pc[c] = "rows" /\ ~ AllLocked(c)
  /\ \A d \in Call : ~ WaitsFor(c, d)
  /\ got' = [got EXCEPT ![c] = @ + 1]
  /\ stale' = [stale EXCEPT ![c] = @ \/ (c \in Order /\ menu[NextRow(c)] # entry[c][NextRow(c)])]
  /\ UNCHANGED <<table, pc, request>>

\* Slip: a transaction that is given up stays open, and its locks with it.
End_WithoutRollback(c) ==
  /\ pc' = [pc EXCEPT ![c] = "done"]
  /\ UNCHANGED <<got, stale>>

\* The transaction ends, by commit or by the deferred rollback.
End(c) ==
  /\ pc' = [pc EXCEPT ![c] = "done"]
  /\ got' = [got EXCEPT ![c] = 0]
  /\ stale' = [stale EXCEPT ![c] = FALSE]

\* The batch is through: its entries become the menu.
CommitSync(c) ==
  /\ c \in Sync /\ pc[c] = "rows" /\ AllLocked(c)
  /\ menu' = [i \in Item |-> IF i \in Held(c) THEN entry[c][i] ELSE menu[i]]
  /\ by' = [i \in Item |-> IF i \in Held(c) THEN c ELSE by[i]]
  /\ End(c)
  /\ UNCHANGED <<request, placed>>

\* Repo.CreateOrder compares price and availability of what it locked.
Recheck(c) ==
  /\ c \in Order /\ pc[c] = "rows" /\ AllLocked(c)
  /\ IF stale[c] THEN End(c)
     ELSE pc' = [pc EXCEPT ![c] = "insert"] /\ UNCHANGED <<got, stale>>
  /\ UNCHANGED <<table, request>>

\* The order and its items are inserted at the price they were given.
CommitOrder(c) ==
  /\ pc[c] = "insert"
  /\ placed' = placed \cup {c}
  /\ End(c)
  /\ UNCHANGED <<menu, by, request>>

\* Slip: a statement fails and what the batch did before is committed.
Fail_KeepsRows(c) ==
  /\ pc[c] \in {"rows", "insert"}
  /\ menu' = [i \in Item |-> IF c \in Sync /\ i \in Held(c) THEN entry[c][i] ELSE menu[i]]
  /\ by' = [i \in Item |-> IF c \in Sync /\ i \in Held(c) THEN c ELSE by[i]]
  /\ End(c)
  /\ UNCHANGED <<request, placed>>

\* A statement fails, the client goes away, the process dies: rolled back.
Fail(c) ==
  /\ pc[c] \in {"rows", "insert"}
  /\ End(c)
  /\ UNCHANGED <<table, request>>

\* PostgreSQL ends a call of a cycle.
Deadlocked(D) == D # {} /\ \A c \in D : \E d \in D : WaitsFor(c, d)

BreakDeadlock ==
  \E D \in SUBSET Call :
     /\ Deadlocked(D)
     /\ \E c \in D : End(c)
     /\ UNCHANGED <<table, request>>

Next ==
  \/ \E c \in Call : \/ SubmitSync(c) \/ PriceOrder(c) \/ LockRow(c) \/ CommitSync(c)
                     \/ Recheck(c) \/ CommitOrder(c) \/ Fail(c)
  \/ BreakDeadlock

Spec == Init /\ [][Next]_vars

\* A lock that is free is granted, a statement sent is executed, and PostgreSQL
\* looks for cycles.  No call has to begin or to fail.
FairSpec ==
  /\ Spec
  /\ \A c \in Call : WF_vars(LockRow(c) \/ CommitSync(c) \/ Recheck(c) \/ CommitOrder(c))
  /\ WF_vars(BreakDeadlock)

-----------------------------------------------------------------------------
(* Properties. *)

\* Type correctness: locks are held inside a transaction only.
TypeOK ==
  /\ menu \in [Item -> Entry \cup {Absent}]
  /\ by \in [Item -> Sync \cup {Absent}]
  /\ pc \in [Call -> {"idle", "rows", "insert", "done"}]
  /\ want \in [Call -> Seq(Item)]
  /\ entry \in [Call -> [Item -> Entry \cup {Absent}]]
  /\ got \in [Call -> Nat] /\ stale \in [Call -> BOOLEAN]
  /\ placed \subseteq Order
  /\ \A c \in Call :
       /\ got[c] <= Len(want[c])
       /\ pc[c] \in {"idle", "done"} => got[c] = 0
       /\ pc[c] = "insert" => c \in Order /\ AllLocked(c) /\ ~ stale[c]

\* Snapshot pricing: in the instant an order is committed every item of it is on
\* offer at exactly the price the order records, though the menu it was priced by
\* was read before its transaction began (Repo.CreateOrder's comparison under
\* FOR SHARE against UpsertMenuItems).
OrderedAsOffered ==
  [][\A c \in Order : c \in placed' \ placed =>
       \A i \in ItemsOf(want[c]) : menu[i] = entry[c][i] /\ menu[i] \in Price]_vars

\* A sync is all or nothing: of two syncs that both contain two items the menu
\* never shows one item of the one and the other item of the other, and every row
\* is what its last sync said (UpsertMenuItems' transaction).
NoMixedMenu ==
  /\ \A i \in Item : by[i] # Absent => menu[i] = entry[by[i]][i]
  /\ \A i, j \in Item : \A a, b \in Sync :
       a # b /\ {i, j} \subseteq ItemsOf(want[a]) \cap ItemsOf(want[b])
       => ~ (by[i] = a /\ by[j] = b)

\* Every call that began ends, whatever order the rows are locked in.
EveryRequestEnds == \A c \in Call : pc[c] \in {"rows", "insert"} ~> pc[c] = "done"
=============================================================================
