---------------------------- MODULE NoticeQueue ----------------------------
(***************************************************************************)
(* What the outbox promises to the services behind it, with no replicas,   *)
(* batches, attempts or failures: delivery at least once.  A notice is     *)
(* owed from the commit that made it, is written to Kafka only while or    *)
(* after it is owed, as often as it may take, and is forgotten only when   *)
(* it has been written.  What is written stays written.                    *)
(***************************************************************************)
EXTENDS Sequences, Integers

CONSTANT Notice

VARIABLES
  owed,     \* notices whose row was committed
  settled,  \* those that will not be fetched again
  log       \* what was written to Kafka, oldest first

vars == <<owed, settled, log>>

Init == owed = {} /\ settled = {} /\ log = <<>>

Owe(n) ==
  /\ n \notin owed
  /\ owed' = owed \cup {n}
  /\ UNCHANGED <<settled, log>>

Write(n) ==
  /\ n \in owed
  /\ log' = Append(log, n)
  /\ UNCHANGED <<owed, settled>>

Settle(n) ==
  /\ n \in owed /\ \E i \in 1 .. Len(log) : log[i] = n
  /\ settled' = settled \cup {n}
  /\ UNCHANGED <<owed, log>>

Next == \E n \in Notice : Owe(n) \/ Write(n) \/ Settle(n)

Spec == Init /\ [][Next]_vars
=============================================================================
