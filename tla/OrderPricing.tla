---------------------------- MODULE OrderPricing ----------------------------
(***************************************************************************)
(* The arithmetic of OrderService.CreateOrder: lines of one item are       *)
(* merged, priced by the menu and added up in 64-bit integers, then        *)
(* inserted into an INT and a BIGINT column with their CHECKs.  One        *)
(* request; the integers are scaled down to -Half .. Half - 1.             *)
(***************************************************************************)
EXTENDS Integers, Sequences, FiniteSets

CONSTANTS
  Item,
  Quantity,   \* quantities a request may name
  Price,      \* prices in the menu
  Stopped,    \* an item on the stop list
  Absent,     \* an item the menu does not have
  MaxLines,   \* bound on the lines of a request
  Half,       \* 2^63: int and int64 hold -Half .. Half - 1
  ColumnMax   \* 2^31 - 1: what order_items.quantity holds

ASSUME WidthAssumption == Half \in Nat \ {0} /\ ColumnMax \in 0 .. Half - 1
ASSUME InputAssumption == /\ Quantity \subseteq -Half .. Half - 1
                          /\ Price \subseteq 0 .. Half - 1
                          /\ MaxLines \in Nat \ {0}

\* Slip: integers without a width.
Wrap_Unbounded(x) == x

\* What a 64-bit operation leaves of x.
Wrap(x) == ((x + Half) % (2 * Half)) - Half

VARIABLES
  lines,   \* Seq([item, qty]): the request
  menu,    \* [Item -> Price, Stopped or Absent]
  done,    \* lines merged so far
  qty,     \* [Item -> int]: dedupMap
  ids,     \* Seq(Item): uniqueIDs
  added,   \* items priced so far
  total,   \* totalPrice
  reply    \* "none" while running, then the outcome

vars == <<lines, menu, done, qty, ids, added, total, reply>>
request == <<lines, menu>>

Line == [item : Item, qty : Quantity]

Init ==
  /\ lines \in UNION {[1 .. n -> Line] : n \in 1 .. MaxLines}
  /\ menu \in [Item -> Price \cup {Stopped, Absent}]
  /\ done = 0 /\ qty = [i \in Item |-> 0] /\ ids = <<>>
  /\ added = 0 /\ total = 0 /\ reply = "none"

Refuse(why) == reply' = why /\ UNCHANGED <<done, qty, ids, added, total>>

Merged(i, q) == Wrap(qty[i] + q)

\* The loop over the lines: quantities are checked line by line, never after
\* merging.
MergeLine ==
  /\ reply = "none" /\ done < Len(lines)
  /\ LET l == lines[done + 1]
     IN  IF l.qty <= 0 THEN Refuse("invalid_quantity")
         ELSE /\ done' = done + 1
              /\ ids' = IF \E k \in DOMAIN ids : ids[k] = l.item THEN ids ELSE Append(ids, l.item)
              /\ qty' = [qty EXCEPT ![l.item] = Merged(l.item, l.qty)]
              /\ UNCHANGED <<added, total, reply>>
  /\ UNCHANGED request

\* The loop over the merged items.
PriceItem ==
  /\ reply = "none" /\ done = Len(lines) /\ added < Len(ids)
  /\ LET i == ids[added + 1]
     IN  CASE menu[i] = Absent -> Refuse("item_not_found")
           [] menu[i] = Stopped -> Refuse("item_unavailable")
           [] OTHER -> /\ added' = added + 1
                       /\ total' = Wrap(total + Wrap(menu[i] * qty[i]))
                       /\ UNCHANGED <<done, qty, ids, reply>>
  /\ UNCHANGED request

\* Slip: a check that refuses an order of free items.
Storable_NotFree == total > 0 /\ \A k \in DOMAIN ids : qty[ids[k]] \in 1 .. ColumnMax

\* Slip: the total column without its CHECK.
Storable_AnyTotal == \A k \in DOMAIN ids : qty[ids[k]] \in 1 .. ColumnMax

\* What the columns accept: total_price_cents >= 0, quantity > 0 and of type INT.
Storable == total >= 0 /\ \A k \in DOMAIN ids : qty[ids[k]] \in 1 .. ColumnMax

\* Repo.CreateOrder inserts the order and its items.
Insert ==
  /\ reply = "none" /\ done = Len(lines) /\ added = Len(ids)
  /\ Refuse(IF Storable THEN "created" ELSE "internal_error")
  /\ UNCHANGED request

Next == MergeLine \/ PriceItem \/ Insert

Spec == Init /\ [][Next]_vars

-----------------------------------------------------------------------------
(* Properties. *)

\* Type correctness: everything stays within the width.
TypeOK ==
  /\ lines \in Seq(Line) /\ Len(lines) \in 1 .. MaxLines
  /\ menu \in [Item -> Price \cup {Stopped, Absent}]
  /\ done \in 0 .. Len(lines)
  /\ qty \in [Item -> -Half .. Half - 1]
  /\ ids \in Seq(Item) /\ added \in 0 .. Len(ids)
  /\ total \in -Half .. Half - 1
  /\ reply \in {"none", "created", "invalid_quantity", "item_not_found",
                "item_unavailable", "internal_error"}

Requested == {lines[k].item : k \in DOMAIN lines}

\* The sum of a sequence of integers.
Sum(s) == LET upTo[n \in 0 .. Len(s)] == IF n = 0 THEN 0 ELSE upTo[n - 1] + s[n]
          IN  upTo[Len(s)]

\* What the customer asked for and what the lines cost one by one, in integers
\* without a width.
Asked(i) == Sum([k \in DOMAIN lines |-> IF lines[k].item = i THEN lines[k].qty ELSE 0])
Due == Sum([k \in DOMAIN lines |-> lines[k].qty * menu[lines[k].item]])

\* The order that is created records every item asked for once, in the quantity
\* asked for, and costs what they cost, unless a number of it reaches 2^64 and so
\* has wrapped round to where it is not negative again.  A quantity or a total that
\* overflows into the negative is never recorded: nothing in CreateOrder looks for
\* an overflow, the CHECKs of the columns do.
ExactUnlessWrappedRound ==
  reply = "created" /\ Due < 2 * Half /\ (\A i \in Requested : Asked(i) < 2 * Half) =>
    /\ total = Due
    /\ {ids[k] : k \in DOMAIN ids} = Requested /\ Len(ids) = Cardinality(Requested)
    /\ \A i \in Requested : qty[i] = Asked(i)

\* A refusal tells the customer what is so, and the columns refuse what the
\* loops let through only when a number of the order is too big for them: no
\* order that can be priced and stored is lost to the arithmetic.
RefusedForCause ==
  /\ reply = "invalid_quantity" => \E k \in DOMAIN lines : lines[k].qty <= 0
  /\ reply = "item_not_found" => \E i \in Requested : menu[i] = Absent
  /\ reply = "item_unavailable" => \E i \in Requested : menu[i] = Stopped
  /\ reply = "internal_error" => Due >= Half \/ \E i \in Requested : Asked(i) > ColumnMax
=============================================================================
