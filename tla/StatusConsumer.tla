--------------------------- MODULE StatusConsumer ---------------------------
(***************************************************************************)
(* The status consumer of kitchen-api (ordersWorkers in cmd/api/main.go):  *)
(* workers share one reader of orders.status.updates and pass every status *)
(* to Repo.UpdateOrderStatus.                                              *)
(*                                                                         *)
(* UpdateOrderStatus is one atomic step here, which OrderStoreProofs       *)
(* (LifecycleImplemented) justifies.  Messages are keyed by order, so each *)
(* order has its own sequence and the reader serves the orders in any      *)
(* order.  ReadMessage commits the offset BEFORE it returns the message.   *)
(***************************************************************************)
EXTENDS OrderFSM, Integers, Sequences

CONSTANTS
  Order,
  Worker,       \* the worker goroutines: main starts one
  MaxMessages   \* bound on messages per order

ASSUME MaxMessagesAssumption == MaxMessages \in Nat

VARIABLES
  status,     \* [Order -> Status]: the orders table
  topic,      \* [Order -> Seq(stage)]: orders.status.updates
  position,   \* [Order -> messages the reader has taken]
  committed,  \* [Order -> messages whose offset is committed]
  mode,       \* "up", "stopping" (workerCtx is cancelled) or "down"
  pc,         \* [Worker -> "read", "update" or "done"]
  msg,        \* [Worker -> message in hand: an order and a place in its topic]
  lost        \* history: orders with a message taken and never handed to the store

vars == <<status, topic, position, committed, mode, pc, msg, lost>>
reader == <<position, committed>>
workers == <<pc, msg>>

NoMessage == [order |-> NULL, at |-> 0]

\* The stages a kitchen publishes.  Rank compares them with the status of an
\* order: 0 is before the kitchen has answered.
Stage == <<"accepted", "cooking", "ready", "completed">>
Rank(s) == CASE s = "accepted" -> 1 [] s = "cooking" -> 2 [] s = "ready" -> 3
             [] s = "completed" -> 4 [] OTHER -> 0

Init ==
  /\ status = [o \in Order |-> "created"]
  /\ topic = [o \in Order |-> <<>>]
  /\ position = [o \in Order |-> 0] /\ committed = [o \in Order |-> 0]
  /\ mode = "up"
  /\ pc = [w \in Worker |-> "read"] /\ msg = [w \in Worker |-> NoMessage]
  /\ lost = {}

-----------------------------------------------------------------------------
(* The kitchen and the HTTP handlers. *)

\* A pipeline publishes a stage after the one before it.  Stages come again: a
\* write is repeated, or a new pipeline of the order starts over.
Due(o) == {k \in DOMAIN Stage : k = 1 \/ \E i \in DOMAIN topic[o] : topic[o][i] = Stage[k - 1]}

Publish(o) ==
  /\ Len(topic[o]) < MaxMessages
  /\ \E k \in Due(o) : topic' = [topic EXCEPT ![o] = Append(@, Stage[k])]
  /\ UNCHANGED <<status, reader, mode, workers, lost>>

\* A cancel or a patch changes the order.
Change(o) ==
  /\ \E to \in Status : CanTransition(status[o], to) /\ status' = [status EXCEPT ![o] = to]
  /\ UNCHANGED <<topic, reader, mode, workers, lost>>

-----------------------------------------------------------------------------
(* The workers. *)

\* Slip: the offset of the next message is committed instead of this one's.
ReadMessage_CommitsNext(w, o) ==
  /\ pc[w] = "read" /\ mode = "up"
  /\ position[o] < Len(topic[o])
  /\ position' = [position EXCEPT ![o] = @ + 1]
  /\ committed' = [committed EXCEPT ![o] = position[o] + 2]
  /\ msg' = [msg EXCEPT ![w] = [order |-> o, at |-> position[o] + 1]]
  /\ pc' = [pc EXCEPT ![w] = "update"]
  /\ UNCHANGED <<status, topic, mode, lost>>

\* Once the context is cancelled a message the reader still takes can no longer
\* be used: that is ReadFails.
ReadMessage(w, o) ==
  /\ pc[w] = "read" /\ mode = "up"
  /\ position[o] < Len(topic[o])
  /\ position' = [position EXCEPT ![o] = @ + 1]
  /\ committed' = [committed EXCEPT ![o] = position[o] + 1]
  /\ msg' = [msg EXCEPT ![w] = [order |-> o, at |-> position[o] + 1]]
  /\ pc' = [pc EXCEPT ![w] = "update"]
  /\ UNCHANGED <<status, topic, mode, lost>>

\* Slip: any error ends the worker.
AfterError_Ends == "done"

\* What a worker does after an error: it goes on unless the context is over.
AfterError == IF mode = "up" THEN "read" ELSE "done"

\* The message is taken, but its commit fails (having worked or not) or its
\* payload cannot be decoded.
ReadFails(w, o) ==
  /\ pc[w] = "read" /\ mode # "down"
  /\ position[o] < Len(topic[o])
  /\ position' = [position EXCEPT ![o] = @ + 1]
  /\ \E c \in {committed[o], position[o] + 1} : committed' = [committed EXCEPT ![o] = c]
  /\ pc' = [pc EXCEPT ![w] = AfterError]
  /\ lost' = lost \cup {o}
  /\ UNCHANGED <<status, topic, mode, msg>>

\* Slip: the error of a cancelled context is logged and the loop goes on.
StopReading_Continues(w) ==
  /\ pc[w] = "read" /\ mode = "stopping"
  /\ UNCHANGED vars

\* ReadMessage returns the error of the cancelled context.
StopReading(w) ==
  /\ pc[w] = "read" /\ mode = "stopping"
  /\ pc' = [pc EXCEPT ![w] = "done"]
  /\ UNCHANGED <<status, topic, reader, mode, msg, lost>>

Incoming(w) == topic[msg[w].order][msg[w].at]

\* Slip: the status is written without a look at the one the order has.
Applies_Blindly(from, to) == from # to

\* UpdateOrderStatus writes `to` over `from`.
Applies(from, to) == CanTransition(from, to)

\* UpdateOrderStatus answers: applied, nothing to do, or refused (logged only).
\* In every case the worker returns to ReadMessage.
Update(w) ==
  LET o == msg[w].order
  IN  /\ pc[w] = "update" /\ mode # "down"
      /\ status' = [status EXCEPT ![o] = IF Applies(@, Incoming(w)) THEN Incoming(w) ELSE @]
      /\ pc' = [pc EXCEPT ![w] = "read"]
      /\ msg' = [msg EXCEPT ![w] = NoMessage]
      /\ UNCHANGED <<topic, reader, mode, lost>>

\* The database fails, or the cancelled context ends the call: the error is
\* logged and the message forgotten, whose offset is committed already.
UpdateFails(w) ==
  /\ pc[w] = "update" /\ mode # "down"
  /\ pc' = [pc EXCEPT ![w] = AfterError]
  /\ msg' = [msg EXCEPT ![w] = NoMessage]
  /\ lost' = lost \cup {msg[w].order}
  /\ UNCHANGED <<status, topic, reader, mode>>

-----------------------------------------------------------------------------
(* The process. *)

\* SIGTERM: cancelWorkers.
Stop ==
  /\ mode = "up" /\ mode' = "stopping"
  /\ UNCHANGED <<status, topic, reader, workers, lost>>

\* workersWg.Wait returns and main ends.
Exit ==
  /\ mode = "stopping" /\ \A w \in Worker : pc[w] = "done"
  /\ mode' = "down"
  /\ UNCHANGED <<status, topic, reader, workers, lost>>

Crash ==
  /\ mode # "down" /\ mode' = "down"
  /\ pc' = [w \in Worker |-> "done"] /\ msg' = [w \in Worker |-> NoMessage]
  /\ lost' = lost \cup {msg[w].order : w \in {v \in Worker : pc[v] = "update"}}
  /\ UNCHANGED <<status, topic, reader>>

\* The group resumes at the committed offsets.
Restart ==
  /\ mode = "down" /\ mode' = "up"
  /\ pc' = [w \in Worker |-> "read"]
  /\ position' = committed
  /\ UNCHANGED <<status, topic, committed, msg, lost>>

Next ==
  \/ \E o \in Order : Publish(o) \/ Change(o)
  \/ \E w \in Worker, o \in Order : ReadMessage(w, o) \/ ReadFails(w, o)
  \/ \E w \in Worker : StopReading(w) \/ Update(w) \/ UpdateFails(w)
  \/ Stop \/ Exit \/ Crash \/ Restart

Spec == Init /\ [][Next]_vars

\* Goroutines run, the broker serves what is there, the database answers, and
\* main returns from its wait.  Nothing promises that anyone restarts it.
FairSpec ==
  /\ Spec
  /\ \A w \in Worker :
       /\ WF_vars(Update(w) \/ UpdateFails(w)) /\ WF_vars(StopReading(w))
       /\ \A o \in Order : SF_vars(ReadMessage(w, o) \/ ReadFails(w, o))
  /\ WF_vars(Exit)

-----------------------------------------------------------------------------
(* Properties. *)

Message == [order : Order, at : 1 .. MaxMessages]

\* Type correctness: the committed offset never runs ahead of the reader, and a
\* worker has a message in hand exactly while it updates.
TypeOK ==
  /\ status \in [Order -> Status]
  /\ topic \in [Order -> Seq({Stage[k] : k \in 1 .. 4})]
  /\ position \in [Order -> Nat] /\ committed \in [Order -> Nat]
  /\ \A o \in Order : /\ committed[o] <= position[o]
                      /\ position[o] <= Len(topic[o])
                      /\ Len(topic[o]) <= MaxMessages
  /\ mode \in {"up", "stopping", "down"}
  /\ pc \in [Worker -> {"read", "update", "done"}]
  /\ msg \in [Worker -> Message \cup {NoMessage}]
  /\ \A w \in Worker : pc[w] = "update" <=> msg[w] # NoMessage
  /\ lost \subseteq Order

InHand(o) == \E w \in Worker : pc[w] = "update" /\ msg[w].order = o

\* Catching up: once every status of an order is read and handled, none was lost
\* and nobody ended the order otherwise, the order is at least as far as the
\* kitchen said, whatever repetitions came between and whatever was refused.
\* (One worker; main starts one.)
CaughtUpUnlessLost ==
  \A o \in Order :
     /\ position[o] = Len(topic[o]) /\ ~ InHand(o)
     /\ o \notin lost /\ status[o] \notin {"cancelled", "rejected"}
     => \A i \in DOMAIN topic[o] : Rank(topic[o][i]) <= Rank(status[o])

\* No message blocks the ones behind it: while the process is up every published
\* status is taken in the end, whatever UpdateOrderStatus answered to the others.
EveryStatusTaken ==
  \A o \in Order : \A n \in 1 .. MaxMessages :
     Len(topic[o]) >= n ~> (position[o] >= n \/ mode # "up")

\* A SIGTERM ends the workers: main's workersWg.Wait returns.
WorkersStop == mode = "stopping" ~> mode = "down"
=============================================================================
