------------------------ MODULE StatusConsumerProofs ------------------------
(***************************************************************************)
(* Theorems about the status consumer, for any number of orders and        *)
(* messages: type correctness with any number of workers, and catching up  *)
(* with the one worker that main starts.                                   *)
(***************************************************************************)
EXTENDS StatusConsumer, TLAPS

Stages == {Stage[k] : k \in 1 .. 4}

-----------------------------------------------------------------------------
(* Stages, ranks and transitions. *)

\* What the kitchen publishes are four statuses, ranked one to four.
LEMMA StageFacts ==
  /\ DOMAIN Stage = 1 .. 4
  /\ Stages = {"accepted", "cooking", "ready", "completed"}
  /\ \A k \in 1 .. 4 : Stage[k] \in Stages /\ Rank(Stage[k]) = k
  /\ \A s \in Stages : s \in Status /\ Rank(s) \in 1 .. 4 /\ s = Stage[Rank(s)]
  /\ \A s \in Status : Rank(s) \in 0 .. 4
BY DEF Stages, Stage, Rank, Status

\* A step of the status machine leaves cancelled and rejected orders alone and
\* never goes back.
LEMMA StepIsForward ==
  ASSUME NEW f \in Status, NEW t \in Status, CanTransition(f, t)
  PROVE  /\ f \notin {"cancelled", "rejected"}
         /\ t \in {"cancelled", "rejected"} \/ Rank(f) <= Rank(t)
BY DEF Status, CanTransition, validTransitions, Rank

\* An order that has reached the stage before s and refuses s is past s.
LEMMA RefusalIsPast ==
  ASSUME NEW f \in Status, f \notin {"cancelled", "rejected"},
         NEW s \in Stages, Rank(s) - 1 <= Rank(f), ~ CanTransition(f, s)
  PROVE  Rank(s) <= Rank(f)
<1>1. s \in {"accepted", "cooking", "ready", "completed"}
  BY StageFacts
<1>2. QED
  BY <1>1 DEF Status, CanTransition, validTransitions, Rank

-----------------------------------------------------------------------------
(* Type correctness. *)

\* A process that is down has no message in hand: a crash forgets them all.
DownIsEmpty == mode = "down" => \A w \in Worker : pc[w] = "done"

TInv == TypeOK /\ DownIsEmpty

LEMMA TypeInit == Init => TInv
BY MaxMessagesAssumption DEF Init, TInv, TypeOK, DownIsEmpty, Status, NoMessage

LEMMA TypeStep == TInv /\ [Next]_vars => TInv'
<1> SUFFICES ASSUME TInv, [Next]_vars PROVE TInv'
  OBVIOUS
<1> USE MaxMessagesAssumption
<1> USE DEF TInv, DownIsEmpty
<1>1. ASSUME NEW o \in Order, Publish(o) PROVE TInv'
  <2>1. PICK k \in 1 .. 4 : topic' = [topic EXCEPT ![o] = Append(@, Stage[k])]
    BY <1>1, StageFacts DEF Publish, Due
  <2>2. Stage[k] \in Stages
    BY StageFacts
  <2>3. topic' \in [Order -> Seq(Stages)]
    BY <2>1, <2>2 DEF TypeOK, Stages
  <2>4. \A p \in Order : Len(topic[p]) <= Len(topic'[p]) /\ Len(topic'[p]) <= MaxMessages
    BY <1>1, <2>1, <2>2 DEF Publish, TypeOK, Stages
  <2>5. QED
    BY <1>1, <2>3, <2>4 DEF Publish, TypeOK, Stages, reader, workers
<1>2. ASSUME NEW o \in Order, Change(o) PROVE TInv'
  BY <1>2 DEF Change, TypeOK, reader, workers
<1>3. ASSUME NEW w \in Worker, NEW o \in Order, ReadMessage(w, o) PROVE TInv'
  <2>1. position[o] + 1 \in 1 .. MaxMessages
    BY <1>3 DEF ReadMessage, TypeOK
  <2>2. [order |-> o, at |-> position[o] + 1] \in Message \ {NoMessage}
    BY <2>1 DEF Message, NoMessage
  <2>3. QED
    BY <1>3, <2>1, <2>2 DEF ReadMessage, TypeOK
<1>4. ASSUME NEW w \in Worker, NEW o \in Order, ReadFails(w, o) PROVE TInv'
  BY <1>4 DEF ReadFails, AfterError, TypeOK
<1>5. ASSUME NEW w \in Worker, StopReading(w) PROVE TInv'
  BY <1>5 DEF StopReading, TypeOK, reader
<1>6. ASSUME NEW w \in Worker, Update(w) PROVE TInv'
  <2>1. msg[w] \in Message
    BY <1>6 DEF Update, TypeOK
  <2>2. Applies(status[msg[w].order], Incoming(w)) => Incoming(w) \in Status
    BY DEF Applies, CanTransition, validTransitions, Status
  <2>3. QED
    BY <1>6, <2>1, <2>2 DEF Update, TypeOK, Message, reader
<1>7. ASSUME NEW w \in Worker, UpdateFails(w) PROVE TInv'
  <2>1. msg[w] \in Message
    BY <1>7 DEF UpdateFails, TypeOK
  <2>2. QED
    BY <1>7, <2>1 DEF UpdateFails, AfterError, TypeOK, Message, reader
<1>8. CASE Stop
  BY <1>8 DEF Stop, TypeOK, reader, workers
<1>9. CASE Exit
  BY <1>9 DEF Exit, TypeOK, reader, workers
<1>10. CASE Crash
  <2>1. \A w \in Worker : pc[w] = "update" => msg[w].order \in Order
    BY DEF TypeOK, Message
  <2>2. lost' \subseteq Order
    BY <1>10, <2>1 DEF Crash, TypeOK
  <2>3. QED
    BY <1>10, <2>2 DEF Crash, TypeOK, reader
<1>11. CASE Restart
  BY <1>11 DEF Restart, TypeOK
<1>12. CASE UNCHANGED vars
  BY <1>12 DEF vars, TypeOK
<1>13. QED
  BY <1>1, <1>2, <1>3, <1>4, <1>5, <1>6, <1>7, <1>8, <1>9, <1>10, <1>11, <1>12 DEF Next

\* Type correctness of the status consumer, for any number of workers.
THEOREM TypeCorrectness == Spec => []TypeOK
<1>1. Spec => []TInv
  BY TypeInit, TypeStep, PTL DEF Spec
<1>2. QED
  BY <1>1, PTL DEF TInv

-----------------------------------------------------------------------------
(* Catching up, with one worker. *)

OneWorker == \A v, w \in Worker : v = w

\* The message in hand is the last one the reader took of its order.
HandIsLast == \A w \in Worker : pc[w] = "update" => msg[w].at = position[msg[w].order]

\* A stage has the one before it somewhere ahead of it in the topic.
Sequenced ==
  \A o \in Order : \A i \in DOMAIN topic[o] :
     Rank(topic[o][i]) > 1 =>
       \E j \in 1 .. i - 1 : Rank(topic[o][j]) = Rank(topic[o][i]) - 1

\* What was read of an order is reached, but for the message in hand.
Reached ==
  \A o \in Order :
     o \notin lost /\ status[o] \notin {"cancelled", "rejected"} =>
       \A i \in 1 .. position[o] :
          Rank(topic[o][i]) <= Rank(status[o]) \/ (i = position[o] /\ InHand(o))

IInv == TInv /\ HandIsLast /\ Sequenced /\ Reached

LEMMA InvInit == Init => IInv
BY TypeInit DEF Init, IInv, HandIsLast, Sequenced, Reached

\* The topic only grows, and by a stage that is due.
LEMMA SequencedStep == IInv /\ [Next]_vars => Sequenced'
<1> SUFFICES ASSUME IInv, [Next]_vars PROVE Sequenced'
  OBVIOUS
<1>1. ASSUME NEW o \in Order, Publish(o) PROVE Sequenced'
  <2>1. PICK k \in Due(o) : topic' = [topic EXCEPT ![o] = Append(@, Stage[k])]
    BY <1>1 DEF Publish
  <2>2. k \in 1 .. 4 /\ Stage[k] \in Stages /\ Rank(Stage[k]) = k
    BY StageFacts DEF Due
  <2>3. k = 1 \/ \E j \in DOMAIN topic[o] : Rank(topic[o][j]) = k - 1
    <3>1. CASE k # 1
      <4>1. PICK j \in DOMAIN topic[o] : topic[o][j] = Stage[k - 1]
        BY <3>1 DEF Due
      <4>2. QED
        BY <2>2, <3>1, <4>1, StageFacts
    <3>2. QED
      BY <3>1
  <2>4. topic \in [Order -> Seq(Stages)]
    BY DEF IInv, TInv, TypeOK, Stages
  <2>5. SUFFICES ASSUME NEW p \in Order, NEW i \in DOMAIN topic'[p], Rank(topic'[p][i]) > 1
                 PROVE  \E j \in 1 .. i - 1 : Rank(topic'[p][j]) = Rank(topic'[p][i]) - 1
    BY DEF Sequenced
  <2>6. CASE p # o \/ i <= Len(topic[o])
    <3>1. i \in DOMAIN topic[p] /\ topic'[p][i] = topic[p][i]
      BY <2>1, <2>2, <2>4, <2>6
    <3>2. PICK j \in 1 .. i - 1 : Rank(topic[p][j]) = Rank(topic[p][i]) - 1
      BY <2>5, <3>1 DEF IInv, Sequenced
    <3>3. topic'[p][j] = topic[p][j]
      BY <2>1, <2>2, <2>4, <2>6, <3>1
    <3>4. QED
      BY <3>1, <3>2, <3>3
  <2>7. CASE p = o /\ i > Len(topic[o])
    <3>1. i = Len(topic[o]) + 1 /\ topic'[o][i] = Stage[k]
      BY <2>1, <2>2, <2>4, <2>7
    <3>2. PICK j \in DOMAIN topic[o] : Rank(topic[o][j]) = k - 1
      BY <2>2, <2>3, <2>5, <2>7, <3>1
    <3>3. j \in 1 .. i - 1 /\ topic'[o][j] = topic[o][j]
      BY <2>1, <2>2, <2>4, <3>1, <3>2
    <3>4. QED
      BY <2>2, <2>7, <3>1, <3>2, <3>3
  <2>8. i \in Nat /\ Len(topic[o]) \in Nat
    <3>1. topic'[p] \in Seq(Stages) /\ topic[o] \in Seq(Stages)
      BY <2>1, <2>2, <2>4
    <3>2. QED
      BY <3>1
  <2>9. QED
    BY <2>6, <2>7, <2>8
<1>2. CASE UNCHANGED topic
  BY <1>2 DEF IInv, Sequenced
<1>3. QED
  BY <1>1, <1>2 DEF Next, vars, Change, ReadMessage, ReadFails, StopReading, Update,
                    UpdateFails, Stop, Exit, Crash, Restart

\* With one worker the reader does not move while a message is in hand.
LEMMA HandStep ==
  ASSUME OneWorker
  PROVE  IInv /\ [Next]_vars => HandIsLast'
<1> SUFFICES ASSUME IInv, [Next]_vars PROVE HandIsLast'
  OBVIOUS
<1> USE DEF IInv, HandIsLast
<1>1. ASSUME NEW w \in Worker, NEW o \in Order, ReadMessage(w, o) PROVE HandIsLast'
  <2>1. SUFFICES msg'[w].at = position'[msg'[w].order]
    BY OneWorker DEF OneWorker
  <2>2. msg'[w] = [order |-> o, at |-> position[o] + 1]
    BY <1>1 DEF ReadMessage, TInv, TypeOK
  <2>3. position'[o] = position[o] + 1
    BY <1>1 DEF ReadMessage, TInv, TypeOK
  <2>4. QED
    BY <2>2, <2>3
<1>2. ASSUME NEW w \in Worker, NEW o \in Order, ReadFails(w, o) PROVE HandIsLast'
  <2>1. \A v \in Worker : pc'[v] # "update"
    BY <1>2, OneWorker DEF OneWorker, ReadFails, AfterError, TInv, TypeOK
  <2>2. QED
    BY <2>1
<1>3. ASSUME NEW w \in Worker, StopReading(w) \/ Update(w) \/ UpdateFails(w) PROVE HandIsLast'
  <2>1. \A v \in Worker : pc'[v] # "update"
    BY <1>3, OneWorker DEF OneWorker, StopReading, Update, UpdateFails, AfterError, TInv, TypeOK
  <2>2. QED
    BY <2>1
<1>4. CASE Crash \/ Restart
  <2>1. \A v \in Worker : pc'[v] # "update"
    BY <1>4 DEF Crash, Restart
  <2>2. QED
    BY <2>1
<1>5. CASE UNCHANGED <<pc, msg, position>>
  BY <1>5
<1>6. QED
  BY <1>1, <1>2, <1>3, <1>4, <1>5
  DEF Next, vars, Publish, Change, Stop, Exit, reader, workers

\* Reached is what the verdict of UpdateOrderStatus keeps: a status that is
\* refused on an order that has reached the stage before it is an old one.
LEMMA ReachedStep ==
  ASSUME OneWorker
  PROVE  IInv /\ [Next]_vars => Reached'
<1> SUFFICES ASSUME IInv, [Next]_vars,
                    NEW o \in Order,
                    o \notin lost', status'[o] \notin {"cancelled", "rejected"},
                    NEW i \in 1 .. position'[o]
             PROVE  Rank(topic'[o][i]) <= Rank(status'[o]) \/ (i = position'[o] /\ InHand(o)')
  BY DEF Reached
<1> USE DEF IInv
<1>a. /\ topic[o] \in Seq(Stages) /\ position[o] \in Nat /\ committed[o] \in Nat
      /\ committed[o] <= position[o] /\ position[o] <= Len(topic[o])
      /\ status[o] \in Status
  BY DEF TInv, TypeOK, Stages
<1>b. \A s \in Status : Rank(s) \in 0 .. 4
  BY StageFacts
<1>c. ASSUME o \notin lost, status[o] \notin {"cancelled", "rejected"},
             NEW n \in 1 .. position[o]
      PROVE  Rank(topic[o][n]) <= Rank(status[o]) \/ (n = position[o] /\ InHand(o))
  BY <1>c DEF Reached
<1> DEFINE Goal == Rank(topic'[o][i]) <= Rank(status'[o]) \/ (i = position'[o] /\ InHand(o)')
<1>d. ASSUME UNCHANGED <<status, topic>>, lost \subseteq lost',
             position'[o] <= position[o], ~ InHand(o), position'[o] \in Nat
      PROVE  Goal
  BY <1>a, <1>c, <1>d
<1>e. ASSUME UNCHANGED <<status, topic, position, pc, msg, lost>> PROVE Goal
  BY <1>c, <1>e DEF InHand
<1>1. ASSUME NEW p \in Order, Publish(p) PROVE Goal
  <2>1. PICK k \in 1 .. 4 : topic' = [topic EXCEPT ![p] = Append(@, Stage[k])]
    BY <1>1, StageFacts DEF Publish, Due
  <2>2. Stage[k] \in Stages
    BY StageFacts
  <2>3. UNCHANGED <<status, position, pc, msg, lost>>
    BY <1>1 DEF Publish, reader, workers
  <2>4. topic \in [Order -> Seq(Stages)]
    BY DEF TInv, TypeOK, Stages
  <2>5. topic'[o][i] = topic[o][i]
    BY <1>a, <2>1, <2>2, <2>3, <2>4
  <2>6. QED
    BY <1>c, <2>3, <2>5 DEF InHand
<1>2. ASSUME NEW p \in Order, Change(p) PROVE Goal
  <2>1. UNCHANGED <<topic, position, pc, msg, lost>>
    BY <1>2 DEF Change, reader, workers
  <2>2. /\ status[o] \notin {"cancelled", "rejected"}
        /\ status'[o] \in Status
        /\ Rank(status[o]) <= Rank(status'[o])
    <3>1. status \in [Order -> Status]
      BY DEF TInv, TypeOK
    <3>2. PICK to \in Status : CanTransition(status[p], to) /\ status' = [status EXCEPT ![p] = to]
      BY <1>2 DEF Change
    <3>3. CASE p = o
      BY <1>a, <3>1, <3>2, <3>3, StepIsForward
    <3>4. CASE p # o
      BY <1>a, <1>b, <3>1, <3>2, <3>4
    <3>5. QED
      BY <3>3, <3>4
  <2>3. Rank(topic[o][i]) \in 1 .. 4
    BY <1>a, <2>1, StageFacts
  <2>4. QED
    BY <1>a, <1>b, <1>c, <2>1, <2>2, <2>3 DEF InHand
<1>3. ASSUME NEW w \in Worker, NEW p \in Order, ReadMessage(w, p) PROVE Goal
  <2>1. ~ InHand(o)
    BY <1>3, OneWorker DEF InHand, OneWorker, ReadMessage
  <2>2. UNCHANGED <<status, topic, lost>>
    BY <1>3 DEF ReadMessage
  <2>3. CASE p = o /\ i = position[o] + 1
    BY <1>3, <2>3 DEF ReadMessage, InHand, TInv, TypeOK
  <2>4. CASE i <= position[o]
    BY <1>a, <1>c, <2>1, <2>2, <2>4
  <2>5. QED
    BY <1>3, <1>a, <2>3, <2>4 DEF ReadMessage, TInv, TypeOK
<1>4. ASSUME NEW w \in Worker, NEW p \in Order, ReadFails(w, p) PROVE Goal
  <2>1. ~ InHand(o)
    BY <1>4, OneWorker DEF InHand, OneWorker, ReadFails
  <2>2. p # o
    BY <1>4 DEF ReadFails
  <2>3. position'[o] = position[o]
    BY <1>4, <2>2 DEF ReadFails, TInv, TypeOK
  <2>4. QED
    BY <1>4, <1>a, <1>d, <2>1, <2>3 DEF ReadFails
<1>5. ASSUME NEW w \in Worker, StopReading(w) PROVE Goal
  <2>1. ~ InHand(o)
    BY <1>5, OneWorker DEF InHand, OneWorker, StopReading
  <2>2. QED
    BY <1>5, <1>a, <1>d, <2>1 DEF StopReading, reader
<1>6. ASSUME NEW w \in Worker, Update(w) PROVE Goal
  <2> DEFINE m == Incoming(w)
  <2>1. UNCHANGED <<topic, position, lost>>
    BY <1>6 DEF Update, reader
  <2>2. CASE msg[w].order # o
    <3>1. ~ InHand(o)
      BY <1>6, <2>2, OneWorker DEF InHand, OneWorker
    <3>2. status'[o] = status[o]
      BY <1>6, <2>2 DEF Update, TInv, TypeOK
    <3>3. QED
      BY <1>c, <2>1, <3>1, <3>2
  <2>3. CASE msg[w].order = o
    <3>1. msg[w].at = position[o] /\ m = topic[o][position[o]]
      BY <1>6, <2>3 DEF Update, HandIsLast, Incoming
    <3>2. position[o] \in 1 .. Len(topic[o]) /\ m \in Stages /\ m \in Status
      BY <1>a, <2>1, <3>1, StageFacts
    <3>3. status'[o] = IF CanTransition(status[o], m) THEN m ELSE status[o]
      BY <1>6, <2>3 DEF Update, TInv, TypeOK, Applies
    <3>4. /\ status[o] \notin {"cancelled", "rejected"}
          /\ status'[o] \in Status
          /\ Rank(status[o]) <= Rank(status'[o])
      <4>1. CASE CanTransition(status[o], m)
        BY <1>a, <3>2, <3>3, <4>1, StepIsForward
      <4>2. CASE ~ CanTransition(status[o], m)
        BY <1>a, <1>b, <3>3, <4>2
      <4>3. QED
        BY <4>1, <4>2
    <3>5. \A n \in 1 .. position[o] - 1 : Rank(topic[o][n]) <= Rank(status[o])
      BY <1>a, <1>c, <2>1, <3>4
    <3>6. CASE i # position[o]
      <4>1. Rank(topic[o][i]) <= Rank(status[o]) /\ Rank(topic[o][i]) \in 1 .. 4
        BY <1>a, <2>1, <3>5, <3>6, StageFacts
      <4>2. QED
        BY <1>a, <1>b, <2>1, <3>4, <4>1
    <3>7. CASE i = position[o]
      <4>1. Rank(m) - 1 <= Rank(status[o])
        <5>1. CASE Rank(m) = 1
          BY <1>a, <1>b, <5>1
        <5>2. CASE Rank(m) > 1
          <6>1. PICK j \in 1 .. position[o] - 1 : Rank(topic[o][j]) = Rank(m) - 1
            BY <1>a, <3>1, <3>2, <5>2 DEF Sequenced
          <6>2. QED
            BY <3>5, <6>1
        <5>3. QED
          BY <3>2, <5>1, <5>2, StageFacts
      <4>2. Rank(m) <= Rank(status'[o])
        <5>1. CASE CanTransition(status[o], m)
          BY <3>2, <3>3, <5>1, StageFacts
        <5>2. CASE ~ CanTransition(status[o], m)
          BY <1>a, <3>2, <3>3, <3>4, <4>1, <5>2, RefusalIsPast
        <5>3. QED
          BY <5>1, <5>2
      <4>3. QED
        BY <2>1, <3>1, <3>7, <4>2
    <3>8. QED
      BY <3>6, <3>7
  <2>4. QED
    BY <2>2, <2>3
<1>7. ASSUME NEW w \in Worker, UpdateFails(w) PROVE Goal
  <2>1. ~ InHand(o)
    BY <1>7, OneWorker DEF InHand, OneWorker, UpdateFails
  <2>2. QED
    BY <1>7, <1>a, <1>d, <2>1 DEF UpdateFails, reader
<1>8. CASE Stop
  BY <1>8, <1>e DEF Stop, reader, workers
<1>9. CASE Exit
  BY <1>9, <1>e DEF Exit, reader, workers
<1>10. CASE Crash
  <2>1. ~ InHand(o)
    BY <1>10 DEF Crash, InHand
  <2>2. QED
    BY <1>10, <1>a, <1>d, <2>1 DEF Crash, reader
<1>11. CASE Restart
  <2>1. ~ InHand(o)
    BY <1>11 DEF Restart, InHand, TInv, DownIsEmpty
  <2>2. QED
    BY <1>11, <1>a, <1>d, <2>1 DEF Restart
<1>12. CASE UNCHANGED vars
  BY <1>12, <1>e DEF vars
<1>13. QED
  BY <1>1, <1>2, <1>3, <1>4, <1>5, <1>6, <1>7, <1>8, <1>9, <1>10, <1>11, <1>12 DEF Next

\* With the one worker main starts, an order none of whose statuses was lost is
\* as far as its kitchen said once everything is read: repetitions, refusals,
\* cancellations, stops and restarts do not hold it back.
THEOREM CaughtUpHolds ==
  ASSUME OneWorker
  PROVE  Spec => []CaughtUpUnlessLost
<1>1. IInv /\ [Next]_vars => IInv'
  BY OneWorker, TypeStep, SequencedStep, HandStep, ReachedStep DEF IInv
<1>2. IInv => CaughtUpUnlessLost
  BY DEF IInv, Reached, CaughtUpUnlessLost, TInv, TypeOK
<1>3. QED
  BY InvInit, <1>1, <1>2, PTL DEF Spec
=============================================================================
