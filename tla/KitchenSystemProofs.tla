------------------------- MODULE KitchenSystemProofs -------------------------
(***************************************************************************)
(* Theorems about the kitchen and the status consumer together, for any    *)
(* number of orders, copies, workers, faults and repeated statuses: the    *)
(* composed system is the kitchen of Kitchen on one side, and for the      *)
(* consumer a kitchen as StatusConsumer assumes it on the other.           *)
(***************************************************************************)
EXTENDS KitchenSystem, KitchenProofs

Statuses == {Api!Stage[k] : k \in 1 .. LastStage}

\* The topic of the order holds stage k.
Said(o, k) == \E i \in DOMAIN topic[o] : topic[o][i] = Api!Stage[k]

\* A pipeline is at a stage only when it has published the one before it.
Announces ==
  \A p \in Run :
    /\ pipe[p].at = "check" => pipe[p].k = 1
    /\ pipe[p].at = "send" => pipe[p].k \in 1 .. LastStage /\ (pipe[p].k = 1 \/ Said(p[1], pipe[p].k - 1))
    /\ pipe[p].at \in {"sent", "sleep"} => pipe[p].k \in 1 .. LastStage /\ Said(p[1], pipe[p].k)

SInv == IInv /\ topic \in [Order -> Seq(Statuses)] /\ Announces

-----------------------------------------------------------------------------
(* The system and the kitchen. *)

LEMMA StageDomain == DOMAIN Api!Stage = 1 .. LastStage
BY DEF Api!Stage, LastStage

\* A step of the system is a step of the kitchen or none.
LEMMA KitchenMoves == [SystemNext]_systemVars => [Next]_vars
<1> SUFFICES ASSUME [SystemNext]_systemVars PROVE [Next]_vars
  OBVIOUS
<1>1. CASE PollersRun
  BY <1>1 DEF PollersRun, Next
<1>2. ASSUME NEW p \in Run, PublishStatus(p) \/ PipelineRuns(p) PROVE Next
  BY <1>2 DEF PublishStatus, PipelineRuns, Next, PipelineStep
<1>3. CASE ConsumerRuns \/ ConsumerProcess
  BY <1>3 DEF ConsumerRuns, ConsumerProcess
<1>4. ASSUME NEW o \in Order, Notify(o) \/ ChangeOrder(o) PROVE [Next]_vars
  BY <1>4 DEF Notify, ChangeOrder, Next
<1>5. ASSUME NEW p \in Run, RepeatStatus(p) PROVE UNCHANGED vars
  BY <1>5 DEF RepeatStatus
<1>6. CASE PollersMiss
  BY <1>6 DEF PollersMiss, Next
<1>7. CASE KitchenProcess
  BY <1>7 DEF KitchenProcess, Next
<1>8. CASE UNCHANGED systemVars
  BY <1>8 DEF systemVars
<1>9. QED
  BY <1>1, <1>2, <1>3, <1>4, <1>5, <1>6, <1>7, <1>8 DEF SystemNext, Work

\* The composed system implements the kitchen: what the API does changes nothing
\* for it that its topics do not bring.
THEOREM KitchenImplemented == SystemSpec => Spec
BY KitchenMoves, PTL DEF SystemSpec, SystemInit, Spec
-----------------------------------------------------------------------------
(* The system and the status consumer. *)

LEMMA StatusesFacts == \A k \in 1 .. LastStage : Api!Stage[k] \in Statuses
BY DEF Statuses

\* What a topic holds it keeps, and an appended status is in it.
LEMMA Appended ==
  ASSUME SInv, NEW p \in Run, NEW n \in 1 .. LastStage, pipe[p].k = n, Append1(p)
  PROVE  /\ topic' \in [Order -> Seq(Statuses)]
         /\ \A o \in Order, k \in 1 .. LastStage : Said(o, k) => Said(o, k)'
         /\ Said(p[1], n)'
<1>1. p[1] \in Order
  BY DEF Run
<1>2. Api!Stage[pipe[p].k] \in Statuses
  BY StatusesFacts
<1>3. topic' = [topic EXCEPT ![p[1]] = Append(@, Api!Stage[pipe[p].k])]
  BY DEF Append1
<1>4. topic \in [Order -> Seq(Statuses)]
  BY DEF SInv
<1> HIDE DEF Statuses
<1>5. topic' \in [Order -> Seq(Statuses)]
  BY <1>1, <1>2, <1>3, <1>4
<1>6. ASSUME NEW o \in Order, NEW i \in DOMAIN topic[o]
      PROVE  i \in DOMAIN topic'[o] /\ topic'[o][i] = topic[o][i]
  BY <1>1, <1>2, <1>3, <1>4, <1>6
<1>7. /\ Len(topic[p[1]]) + 1 \in DOMAIN topic'[p[1]]
      /\ topic'[p[1]][Len(topic[p[1]]) + 1] = Api!Stage[pipe[p].k]
  <2>1. topic[p[1]] \in Seq(Statuses)
    BY <1>1, <1>4
  <2>2. topic'[p[1]] = Append(topic[p[1]], Api!Stage[pipe[p].k])
    BY <1>1, <1>3, <1>4
  <2>3. QED
    BY <1>2, <2>1, <2>2
<1>8. \A o \in Order, k \in 1 .. LastStage : Said(o, k) => Said(o, k)'
  BY <1>6 DEF Said
<1>9. Said(p[1], n)'
  BY <1>7 DEF Said
<1>10. QED
  BY <1>5, <1>8, <1>9

\* An appended status of a pipeline that is sending is one that is due.
LEMMA AppendIsDue ==
  ASSUME SInv, NEW p \in Run, At(p, "send"), Room(p), Append1(p),
         UNCHANGED <<status, consumer>>
  PROVE  \E o \in Order : Api!Publish(o)
<1>1. p[1] \in Order /\ pipe[p].k \in 1 .. LastStage
  BY DEF SInv, Announces, At, Run
<1>2. pipe[p].k = 1 \/ Said(p[1], pipe[p].k - 1)
  BY DEF SInv, Announces, At
<1>3. pipe[p].k \in Api!Due(p[1])
  BY <1>1, <1>2, StageDomain DEF Api!Due, Said
<1>4. Api!Publish(p[1])
  BY <1>1, <1>3 DEF Api!Publish, Append1, Room, consumer, Api!reader, Api!workers
<1>5. QED
  BY <1>1, <1>4

\* Every step of the system is a step of the consumer or leaves it alone.
LEMMA ConsumerMoves == SInv /\ [SystemNext]_systemVars => [Api!Next]_(Api!vars)
<1> SUFFICES ASSUME SInv, [SystemNext]_systemVars PROVE [Api!Next]_(Api!vars)
  OBVIOUS
<1> USE DEF consumer, Api!vars
<1>1. CASE PollersRun \/ PollersMiss \/ KitchenProcess
  BY <1>1 DEF PollersRun, PollersMiss, KitchenProcess
<1>2. ASSUME NEW p \in Run, PublishStatus(p) PROVE [Api!Next]_(Api!vars)
  <2>1. At(p, "send") /\ Room(p) /\ UNCHANGED <<status, consumer>>
    BY <1>2 DEF PublishStatus, Send, SendLate
  <2>2. CASE Append1(p)
    BY <2>1, <2>2, AppendIsDue DEF Api!Next
  <2>3. QED
    BY <1>2, <2>2 DEF PublishStatus
<1>3. ASSUME NEW p \in Run, RepeatStatus(p) PROVE [Api!Next]_(Api!vars)
  BY <1>3, AppendIsDue DEF RepeatStatus, Api!Next
<1>4. ASSUME NEW p \in Run, PipelineRuns(p) PROVE UNCHANGED Api!vars
  BY <1>4 DEF PipelineRuns
<1>5. CASE ConsumerRuns
  BY <1>5 DEF ConsumerRuns, Api!Next
<1>6. CASE ConsumerProcess
  BY <1>6 DEF ConsumerProcess, Api!Next
<1>7. ASSUME NEW o \in Order, Notify(o) \/ ChangeOrder(o) PROVE [Api!Next]_(Api!vars)
  BY <1>7 DEF Notify, ChangeOrder, Api!Next
<1>8. CASE UNCHANGED systemVars
  BY <1>8 DEF systemVars
<1>9. QED
  BY <1>1, <1>2, <1>3, <1>4, <1>5, <1>6, <1>7, <1>8 DEF SystemNext, Work
-----------------------------------------------------------------------------
(* The invariant of the pipelines and their topic. *)

AnnouncesOf(p) ==
  /\ pipe[p].at = "check" => pipe[p].k = 1
  /\ pipe[p].at = "send" => pipe[p].k \in 1 .. LastStage /\ (pipe[p].k = 1 \/ Said(p[1], pipe[p].k - 1))
  /\ pipe[p].at \in {"sent", "sleep"} => pipe[p].k \in 1 .. LastStage /\ Said(p[1], pipe[p].k)

Keeps == \A o \in Order, k \in 1 .. LastStage : Said(o, k) => Said(o, k)'

\* A pipeline that stands still or ends needs no more than it had.
LEMMA StillAnnounces ==
  ASSUME SInv, Keeps, NEW p \in Run,
         pipe'[p] = pipe[p] \/ pipe'[p].at \notin {"check", "send", "sent", "sleep"}
  PROVE  AnnouncesOf(p)'
<1>1. AnnouncesOf(p) /\ p[1] \in Order /\ pipe[p].k \in 0 .. LastStage
  BY DEF SInv, Announces, AnnouncesOf, IInv, TypeOK, Pipeline, Run
<1>2. CASE pipe'[p] = pipe[p]
  <2>1. \A n \in 1 .. LastStage : Said(p[1], n) => Said(p[1], n)'
    BY <1>1 DEF Keeps
  <2>2. pipe[p].k - 1 \in 1 .. LastStage \/ pipe[p].k \in {0, 1}
    BY <1>1 DEF LastStage
  <2> HIDE DEF Said
  <2>3. QED
    BY <1>1, <1>2, <2>1, <2>2 DEF AnnouncesOf
<1>3. CASE pipe'[p].at \notin {"check", "send", "sent", "sleep"}
  BY <1>3 DEF AnnouncesOf
<1>4. QED
  BY <1>2, <1>3

LEMMA TopicStep ==
  ASSUME SInv, [SystemNext]_systemVars
  PROVE  topic' \in [Order -> Seq(Statuses)] /\ Keeps
<1>1. CASE UNCHANGED topic
  BY <1>1 DEF SInv, Keeps, Said
<1>2. ASSUME NEW p \in Run, At(p, "send"), Append1(p) PROVE topic' \in [Order -> Seq(Statuses)] /\ Keeps
  <2>1. pipe[p].k \in 1 .. LastStage
    BY <1>2 DEF SInv, Announces, At
  <2>2. QED
    BY <1>2, <2>1, Appended DEF Keeps
<1>3. ASSUME NEW p \in Run, PublishStatus(p) PROVE At(p, "send") /\ (Append1(p) \/ UNCHANGED topic)
  BY <1>3 DEF PublishStatus, Send, SendLate
<1>4. ASSUME NEW p \in Run, RepeatStatus(p) PROVE At(p, "send") /\ Append1(p)
  BY <1>4 DEF RepeatStatus
<1>5. ASSUME NEW p \in Run, PipelineRuns(p) PROVE UNCHANGED topic
  BY <1>5 DEF PipelineRuns
<1>6. ASSUME NEW o \in Order, Notify(o) \/ ChangeOrder(o) PROVE UNCHANGED topic
  BY <1>6 DEF Notify, ChangeOrder, Api!Change
<1>7. CASE PollersRun \/ PollersMiss \/ KitchenProcess
  BY <1>1, <1>7 DEF PollersRun, PollersMiss, KitchenProcess
<1>8. CASE ConsumerRuns \/ ConsumerProcess
  BY <1>1, <1>8 DEF ConsumerRuns, ConsumerProcess, Api!Update, Api!UpdateFails, Api!StopReading,
              Api!ReadMessage, Api!ReadFails, Api!Stop, Api!Exit, Api!Crash, Api!Restart
<1>9. CASE UNCHANGED systemVars
  BY <1>1, <1>9 DEF systemVars
<1>10. QED
  BY <1>1, <1>2, <1>3, <1>4, <1>5, <1>6, <1>7, <1>8, <1>9 DEF SystemNext, Work

\* A pipeline that moves has said what its new place takes for said.
LEMMA MoverAnnounces ==
  ASSUME SInv, Keeps, NEW p \in Run, PublishStatus(p) \/ PipelineRuns(p)
  PROVE  \A q \in Run : AnnouncesOf(q)'
<1>1. /\ pipe \in [Run -> Pipeline] /\ p[1] \in Order /\ pipe[p].k \in 0 .. LastStage
      /\ pipe[p].at = "sleep" => pipe[p].k < LastStage
      /\ AnnouncesOf(p)
  BY DEF SInv, IInv, TypeOK, StageInv, Pipeline, Run, Announces, AnnouncesOf
<1>a. ASSUME NEW where, Goto(p, where)
      PROVE  /\ pipe'[p].at = where /\ pipe'[p].k = pipe[p].k
             /\ \A q \in Run : q # p => pipe'[q] = pipe[q]
  BY <1>1, <1>a DEF Goto, Pipeline
<1>b. ASSUME NEW reason, End(p, reason)
      PROVE  pipe'[p].at = "delete" /\ \A q \in Run : q # p => pipe'[q] = pipe[q]
  BY <1>1, <1>b DEF End, Pipeline
<1>c. CASE PublishStatus(p)
  <2>1. At(p, "send") /\ pipe[p].k \in 1 .. LastStage
    BY <1>1, <1>c DEF PublishStatus, Send, SendLate, At, AnnouncesOf
  <2>2. Goto(p, "sent") \/ End(p, "failed") \/ End(p, "context")
    BY <1>c DEF PublishStatus, Send, SendLate
  <2>3. CASE Goto(p, "sent")
    <3>1. Append1(p)
      BY <1>a, <1>c, <2>3 DEF PublishStatus
    <3>2. ASSUME NEW n \in 1 .. LastStage, pipe[p].k = n PROVE Said(p[1], n)'
      BY <3>1, <3>2, Appended
    <3>3. AnnouncesOf(p)'
      BY <1>a, <2>1, <2>3, <3>2 DEF AnnouncesOf
    <3>4. QED
      BY <1>a, <2>3, <3>3, StillAnnounces
  <2>4. CASE End(p, "failed") \/ End(p, "context")
    BY <1>b, <2>4, StillAnnounces
  <2>5. QED
    BY <2>2, <2>3, <2>4
<1>d. CASE CheckContext(p)
  <2>1. At(p, "check") /\ (Goto(p, "send") \/ End(p, "context"))
    BY <1>d DEF CheckContext
  <2>2. CASE Goto(p, "send")
    <3>1. AnnouncesOf(p)'
      BY <1>1, <1>a, <2>1, <2>2 DEF At, AnnouncesOf, LastStage
    <3>2. QED
      BY <1>a, <2>2, <3>1, StillAnnounces
  <2>3. QED
    BY <1>b, <2>1, <2>2, StillAnnounces
<1>e. CASE EnterSleep(p)
  <2>1. At(p, "sent") /\ (Goto(p, "sleep") \/ End(p, "completed") \/ End(p, "context"))
    BY <1>1, <1>e DEF EnterSleep, LastStage
  <2>2. CASE Goto(p, "sleep")
    <3>1. pipe[p].k \in 1 .. LastStage /\ Said(p[1], pipe[p].k)
      BY <1>1, <2>1 DEF At, AnnouncesOf
    <3>2. ASSUME NEW n \in 1 .. LastStage, pipe[p].k = n PROVE Said(p[1], n)'
      BY <1>1, <3>1, <3>2 DEF Keeps
    <3>3. AnnouncesOf(p)'
      BY <1>a, <2>2, <3>1, <3>2 DEF AnnouncesOf
    <3>4. QED
      BY <1>a, <2>2, <3>3, StillAnnounces
  <2>3. QED
    BY <1>b, <2>1, <2>2, StillAnnounces
<1>f. CASE Wake(p)
  <2>1. /\ pipe'[p].at = "send" /\ pipe'[p].k = pipe[p].k + 1
        /\ \A q \in Run : q # p => pipe'[q] = pipe[q]
    BY <1>1, <1>f DEF Wake, Pipeline
  <2>2. pipe[p].k \in 1 .. LastStage /\ pipe[p].k < LastStage /\ Said(p[1], pipe[p].k)
    BY <1>1, <1>f DEF Wake, At, AnnouncesOf
  <2>3. pipe'[p].k - 1 = pipe[p].k /\ pipe'[p].k \in 1 .. LastStage
    BY <2>1, <2>2 DEF LastStage
  <2>4. ASSUME NEW n \in 1 .. LastStage, pipe[p].k = n PROVE Said(p[1], n)'
    BY <1>1, <2>2, <2>4 DEF Keeps
  <2>5. AnnouncesOf(p)'
    BY <2>1, <2>2, <2>3, <2>4 DEF AnnouncesOf
  <2>6. QED
    BY <2>1, <2>5, StillAnnounces
<1>g. CASE Interrupted(p) \/ Delete(p) \/ Release(p)
  <2>1. End(p, "context") \/ Goto(p, "release") \/ Goto(p, "over")
    BY <1>g DEF Interrupted, Delete, Release
  <2>2. pipe'[p].at \in {"delete", "release", "over"} /\ \A q \in Run : q # p => pipe'[q] = pipe[q]
    BY <1>a, <1>b, <2>1
  <2>3. QED
    BY <2>2, StillAnnounces
<1>h. QED
  BY <1>c, <1>d, <1>e, <1>f, <1>g DEF PipelineRuns

LEMMA SInvStep == SInv /\ IInv' /\ [SystemNext]_systemVars => SInv'
<1> SUFFICES ASSUME SInv, IInv', [SystemNext]_systemVars PROVE SInv'
  OBVIOUS
<1>1. topic' \in [Order -> Seq(Statuses)] /\ Keeps
  BY TopicStep
<1>2. \A p \in Run : AnnouncesOf(p)'
  <2>1. ASSUME NEW p \in Run, PublishStatus(p) \/ PipelineRuns(p)
        PROVE  \A q \in Run : AnnouncesOf(q)'
    BY <1>1, <2>1, MoverAnnounces
  <2>2. CASE UNCHANGED pipe
    BY <1>1, <2>2, StillAnnounces
  <2>3. CASE StoreActive
    <3>1. ASSUME NEW q \in Run PROVE pipe'[q] = pipe[q] \/ (pipe'[q].at = "check" /\ pipe'[q].k = 1)
      BY <2>3, <3>1 DEF StoreActive, SInv, IInv, TypeOK
    <3>2. QED
      BY <1>1, <3>1, StillAnnounces DEF AnnouncesOf
  <2>4. CASE GoDown
    <3>1. ASSUME NEW q \in Run PROVE pipe'[q] = pipe[q] \/ pipe'[q].at = "off"
      BY <2>4, <3>1 DEF GoDown, Off
    <3>2. QED
      BY <1>1, <3>1, StillAnnounces
  <2>5. CASE PollersRun
    BY <2>2, <2>3, <2>5 DEF PollersRun, PollerStep, CancellerStep, LoadActive, LoadCancelled,
       StopPoller, LoadCancelFunc, CallCancelFunc, StoreCancelled, StopCanceller, ReadOrder,
       ReadCancellation, cooking
  <2>6. CASE PollersMiss
    BY <2>2, <2>6 DEF PollersMiss, DropOrder, DropCancellation, cooking
  <2>7. CASE KitchenProcess
    BY <2>2, <2>4, <2>7 DEF KitchenProcess, Stop, Exit, Restart, Timeout, Crash, cooking
  <2>8. ASSUME NEW o \in Order, Notify(o) \/ ChangeOrder(o) PROVE UNCHANGED pipe
    BY <2>8 DEF Notify, ChangeOrder, Announce, Revoke, vars, cooking
  <2>9. ASSUME NEW p \in Run, RepeatStatus(p) PROVE UNCHANGED pipe
    BY <2>9 DEF RepeatStatus, vars, cooking
  <2>10. CASE ConsumerRuns \/ ConsumerProcess \/ UNCHANGED systemVars
    BY <2>2, <2>10 DEF ConsumerRuns, ConsumerProcess, systemVars, vars, cooking
  <2>11. QED
    BY <2>1, <2>2, <2>5, <2>6, <2>7, <2>8, <2>9, <2>10 DEF SystemNext, Work
<1>3. QED
  BY <1>1, <1>2 DEF SInv, Announces, AnnouncesOf

LEMMA SInvInit == SystemInit => SInv
<1> SUFFICES ASSUME SystemInit PROVE SInv
  OBVIOUS
<1>1. IInv
  BY Initially DEF SystemInit
<1>2. topic \in [Order -> Seq(Statuses)]
  BY DEF SystemInit, Api!Init
<1>3. Announces
  BY DEF SystemInit, Init, Off, Announces
<1>4. QED
  BY <1>1, <1>2, <1>3 DEF SInv

\* The kitchen publishes no stage before the one it follows, whatever fails, is
\* repeated, cancelled or crashes on either side.
THEOREM SystemInvariance == SystemSpec => []SInv
<1>1. SystemSpec => []IInv
  BY KitchenImplemented, Invariance, PTL
<1>2. QED
  BY <1>1, SInvInit, SInvStep, PTL DEF SystemSpec

\* The composed system implements the status consumer with its kitchen: what was
\* proved of StatusConsumer under Publish holds with the kitchen in its place.
THEOREM ConsumerImplemented == SystemSpec => ImplementsConsumer
<1>1. SystemInit => Api!Init
  BY DEF SystemInit
<1>2. SystemSpec => Api!Spec
  BY <1>1, SystemInvariance, ConsumerMoves, PTL DEF SystemSpec, Api!Spec
<1>3. QED
  BY <1>2 DEF ImplementsConsumer
-----------------------------------------------------------------------------
(* The fate of an order. *)

ApiP == INSTANCE StatusConsumerProofs WITH mode <- apiMode

\* Both instances of the consumer are the same one.
LEMMA SameConsumer == Api!Spec => ApiP!Spec
<1>1. Api!Init => ApiP!Init
  BY DEF Api!Init, ApiP!Init, Api!NoMessage, ApiP!NoMessage, Api!NULL, ApiP!NULL
<1>2. ASSUME [Api!Next]_(Api!vars) PROVE [ApiP!Next]_(ApiP!vars)
  <2>1. ASSUME NEW o \in Order, Api!Publish(o) \/ Api!Change(o) PROVE ApiP!Publish(o) \/ ApiP!Change(o)
        BY <2>1 DEF Api!Publish, ApiP!Publish, Api!Change, ApiP!Change, Api!Due, ApiP!Due,
       Api!Stage, ApiP!Stage, Api!reader, ApiP!reader, Api!workers, ApiP!workers, Api!CanTransition,
       ApiP!CanTransition, Api!validTransitions, ApiP!validTransitions, Api!Status, ApiP!Status
  <2>2. ASSUME NEW w \in Worker, NEW o \in Order, Api!ReadMessage(w, o) PROVE ApiP!ReadMessage(w, o)
    BY <2>2 DEF Api!ReadMessage, ApiP!ReadMessage
  <2>3. ASSUME NEW w \in Worker, NEW o \in Order, Api!ReadFails(w, o) PROVE ApiP!ReadFails(w, o)
    BY <2>3 DEF Api!ReadFails, ApiP!ReadFails, Api!AfterError, ApiP!AfterError
  <2>4. ASSUME NEW w \in Worker, Api!StopReading(w) PROVE ApiP!StopReading(w)
    BY <2>4 DEF Api!StopReading, ApiP!StopReading, Api!reader, ApiP!reader
  <2>5. ASSUME NEW w \in Worker, Api!Update(w) PROVE ApiP!Update(w)
        BY <2>5 DEF Api!Update, ApiP!Update, Api!Incoming, ApiP!Incoming, Api!Applies, ApiP!Applies,
       Api!CanTransition, ApiP!CanTransition, Api!validTransitions, ApiP!validTransitions,
       Api!NoMessage, ApiP!NoMessage, Api!NULL, ApiP!NULL, Api!reader, ApiP!reader
  <2>6. ASSUME NEW w \in Worker, Api!UpdateFails(w) PROVE ApiP!UpdateFails(w)
        BY <2>6 DEF Api!UpdateFails, ApiP!UpdateFails, Api!AfterError, ApiP!AfterError,
       Api!NoMessage, ApiP!NoMessage, Api!NULL, ApiP!NULL, Api!reader, ApiP!reader
  <2>7. Api!Stop \/ Api!Exit \/ Api!Crash \/ Api!Restart
          => ApiP!Stop \/ ApiP!Exit \/ ApiP!Crash \/ ApiP!Restart
        BY DEF Api!Stop, ApiP!Stop, Api!Exit, ApiP!Exit, Api!Crash, ApiP!Crash, Api!Restart,
       ApiP!Restart, Api!NoMessage, ApiP!NoMessage, Api!NULL, ApiP!NULL, Api!reader, ApiP!reader,
       Api!workers, ApiP!workers
  <2> QED
    BY <1>2, <2>1, <2>2, <2>3, <2>4, <2>5, <2>6, <2>7 DEF Api!Next, ApiP!Next, Api!vars, ApiP!vars
<1> QED
  BY <1>1, <1>2, PTL DEF Api!Spec, ApiP!Spec

\* An order that was announced is on its way to a pipeline, was missed, cooked or
\* cancelled.
Awaited ==
  \A o \in Order : announced[o] > 0 =>
    unread[o] > 0 \/ o \in InHand \/ o \in missed \/ runs[o] > 0 \/ o \in Revoked

\* The kitchen is told of cancellations that were made, and goes down by faults.
Called ==
  /\ status \in [Order -> Api!Status]
  /\ \A o \in Revoked : status[o] = "cancelled"
  /\ cancelledOrders \subseteq Revoked
  /\ mode # "up" => downs > 0

\* A pipeline has a reason to end: it has said everything, or could not, or its
\* context was ended, by a cancellation or a fault.
FateOf(p) ==
  /\ pipe[p].why = "completed" => Said(p[1], LastStage)
  /\ pipe[p].why = "context" => p[1] \in Revoked \/ downs > 0
  /\ pipe[p].at \in {"delete", "release", "over"} => pipe[p].why # "none"
  /\ p \in done => p[1] \in Revoked \/ pipe[p].at = "over"

QInv == Awaited /\ Called /\ \A p \in Run : FateOf(p)

\* Nothing is announced, cancelled or cooked at the start.
LEMMA QInit == SystemInit => QInv
BY DEF SystemInit, Init, Api!Init, QInv, Awaited, Called, FateOf, Revoked, Off, Api!Status

\* What pipelines, the consumer and repetitions leave alone.
unmoved == <<topics, process, poller, canceller, cancelledOrders, runs, missed>>

LEMMA Unmoved ==
  /\ \A p \in Run : PublishStatus(p) \/ PipelineRuns(p) \/ RepeatStatus(p) => UNCHANGED <<unmoved, status>>
  /\ ConsumerRuns \/ ConsumerProcess => UNCHANGED <<unmoved, cooking>>
  /\ \A o \in Order : ChangeOrder(o) => UNCHANGED <<unmoved, cooking>>
<1> USE DEF unmoved, vars, topics, process, maps, cooking, history, rest, outside
<1>1. ASSUME NEW p \in Run, PublishStatus(p) PROVE UNCHANGED <<unmoved, status>>
  BY <1>1 DEF PublishStatus, Send, SendLate
<1>2. ASSUME NEW p \in Run, PipelineRuns(p) PROVE UNCHANGED <<unmoved, status>>
  BY <1>2 DEF PipelineRuns, CheckContext, EnterSleep, Wake, Interrupted, Delete, Release
<1>3. ASSUME NEW p \in Run, RepeatStatus(p) PROVE UNCHANGED <<unmoved, status>>
  BY <1>3 DEF RepeatStatus
<1>4. ConsumerRuns \/ ConsumerProcess => UNCHANGED <<unmoved, cooking>>
  BY DEF ConsumerRuns, ConsumerProcess
<1>5. ASSUME NEW o \in Order, ChangeOrder(o) PROVE UNCHANGED <<unmoved, cooking>>
  BY <1>5 DEF ChangeOrder
<1> QED
  BY <1>1, <1>2, <1>3, <1>4, <1>5

\* A cancelled order stays cancelled, whatever the consumer reads about it.
LEMMA CalledStep == SInv /\ Called /\ [SystemNext]_systemVars => Called'
<1> SUFFICES ASSUME SInv, Called, [SystemNext]_systemVars PROVE Called'
  OBVIOUS
<1>t. TypeOK /\ PollersInv
  BY DEF SInv, IInv
<1> USE DEF topics, process, maps, Called, Revoked
<1>1. CASE UNCHANGED <<unmoved, status>>
  BY <1>1 DEF unmoved
<1>2. CASE ConsumerRuns \/ ConsumerProcess
  <2>1. UNCHANGED unmoved
    BY <1>2, Unmoved
  <2>2. ASSUME NEW w \in Worker, Api!Update(w) PROVE Called'
    <3>1. /\ status' \in [Order -> Api!Status]
          /\ \A o \in Order : status[o] = "cancelled" => status'[o] = "cancelled"
      BY <2>2 DEF Api!Update, Api!Applies, Api!CanTransition, Api!validTransitions, Api!Status
    <3> QED
      BY <1>t, <2>1, <3>1 DEF unmoved, TypeOK
  <2>3. CASE UNCHANGED status
    BY <1>1, <2>1, <2>3
  <2> QED
        BY <1>2, <2>2, <2>3 DEF ConsumerRuns, ConsumerProcess, Api!UpdateFails, Api!StopReading,
       Api!ReadMessage,
       Api!ReadFails, Api!Stop, Api!Exit, Api!Crash, Api!Restart
<1>3. ASSUME NEW o \in Order, ChangeOrder(o) PROVE Called'
  <2>1. /\ status' \in [Order -> Api!Status]
        /\ \A q \in Order : status[q] = "cancelled" => status'[q] = "cancelled"
    BY <1>3 DEF ChangeOrder, Api!Change, Api!CanTransition, Api!validTransitions, Api!Status
  <2>2. UNCHANGED unmoved
    BY <1>3, Unmoved
  <2> QED
    BY <1>t, <2>1, <2>2 DEF unmoved, TypeOK
<1>4. ASSUME NEW o \in Order, Notify(o) PROVE Called'
  BY <1>t, <1>4 DEF Notify, Announce, Revoke, TypeOK
<1>5. CASE PollersRun
  BY <1>t, <1>5 DEF PollersRun, PollerStep, CancellerStep, LoadActive, LoadCancelled, StoreActive,
     StopPoller, LoadCancelFunc, CallCancelFunc, StoreCancelled, StopCanceller, ReadOrder,
     ReadCancellation, PollersInv
<1>6. CASE PollersMiss
  BY <1>6 DEF PollersMiss, DropOrder, DropCancellation
<1>7. CASE KitchenProcess
  BY <1>t, <1>7 DEF KitchenProcess, Stop, Exit, Restart, Timeout, Crash, GoDown, Fault, TypeOK
<1>8. CASE UNCHANGED systemVars
  BY <1>1, <1>8 DEF systemVars, vars, unmoved, history, cooking
<1> QED
  BY <1>1, <1>2, <1>3, <1>4, <1>5, <1>6, <1>7, <1>8, Unmoved DEF SystemNext, Work

\* The poller gives an order up only for a pipeline that runs or a cancellation.
LEMMA AwaitedStep == SInv /\ RunsInv /\ Called /\ Awaited /\ [SystemNext]_systemVars => Awaited'
<1> SUFFICES ASSUME SInv, RunsInv, Called, Awaited, [SystemNext]_systemVars PROVE Awaited'
  OBVIOUS
<1>t. TypeOK /\ PollersInv /\ ActiveIsCooking
  BY DEF SInv, IInv
<1> USE DEF topics, process, maps, Revoked
<1>1. CASE UNCHANGED unmoved
  BY <1>1 DEF unmoved, Awaited, InHand
<1>2. ASSUME NEW o \in Order, Notify(o) PROVE Awaited'
  BY <1>t, <1>2 DEF Notify, Announce, Revoke, cooking, history, TypeOK, Awaited, InHand
<1>3. \A o \in Order : active[o] # 0 => runs[o] > 0
  <2> SUFFICES ASSUME NEW o \in Order, active[o] # 0 PROVE runs[o] > 0
    OBVIOUS
  <2> DEFINE p == <<o, active[o]>>
  <2>1. active[o] \in 1 .. MaxCopies /\ runs[o] \in 0 .. MaxCopies
    BY <1>t DEF TypeOK
  <2>2. p \in Run /\ p[1] = o /\ p[2] = active[o]
    BY <2>1 DEF Run
  <2>3. pipe[p].at # "off"
    BY <1>t, <2>2 DEF ActiveIsCooking, Cooking
  <2>4. ~ (p[2] > runs[p[1]])
    BY <2>2, <2>3 DEF RunsInv
  <2> HIDE DEF p
  <2> QED
    BY <2>1, <2>2, <2>4
<1>4. CASE PollersRun
  <2>1. ASSUME NEW o \in Order, ReadOrder(o) PROVE Awaited'
    BY <1>t, <1>4, <2>1 DEF PollersRun, ReadOrder, cooking, history, TypeOK, Awaited, InHand
  <2>2. CASE LoadActive
        BY <1>t, <1>3, <1>4, <2>2 DEF PollersRun, LoadActive, cooking, history, TypeOK, Awaited,
       InHand, Idle
  <2>3. CASE LoadCancelled
        BY <1>t, <1>4, <2>3 DEF PollersRun, LoadCancelled, cooking, history, TypeOK, Awaited,
       InHand, Idle, Called
  <2>4. CASE StoreActive
    <3>1. /\ poller.order \in Order /\ runs[poller.order] \in Nat
          /\ \A o \in Order : runs'[o] = IF o = poller.order THEN runs[o] + 1 ELSE runs[o]
          /\ UNCHANGED <<announced, unread, revoked, missed>> /\ poller.pc = "store"
      BY <1>t, <1>4, <2>4 DEF PollersRun, StoreActive, history, TypeOK, PollersInv, Handling
    <3> QED
      BY <3>1 DEF Awaited, InHand
  <2>5. CASE StopPoller
    BY <1>t, <1>4, <2>5 DEF PollersRun, StopPoller, cooking, history, TypeOK, Awaited, InHand
  <2>6. CASE CancellerStep \/ \E o \in Order : ReadCancellation(o)
    BY <1>4, <2>6 DEF PollersRun, CancellerStep, LoadCancelFunc, CallCancelFunc, StoreCancelled,
       StopCanceller, ReadCancellation, cooking, history, Awaited, InHand
  <2> QED
    BY <1>4, <2>1, <2>2, <2>3, <2>4, <2>5, <2>6 DEF PollersRun, PollerStep
<1>5. CASE PollersMiss
  BY <1>t, <1>5 DEF PollersMiss, DropOrder, DropCancellation, cooking, TypeOK, Awaited, InHand
<1>6. CASE KitchenProcess
  <2>1. CASE Stop \/ Restart
    BY <1>6, <2>1 DEF KitchenProcess, Stop, Restart, cooking, Awaited, InHand
  <2>2. CASE Exit
    BY <1>6, <2>2 DEF KitchenProcess, Exit, GoDown, Awaited, InHand, Idle
  <2>3. CASE (Timeout \/ Crash) /\ missed' = missed \cup InHand
    BY <1>6, <2>3 DEF KitchenProcess, Timeout, Crash, GoDown, Awaited, InHand
  <2> QED
    BY <1>6, <2>1, <2>2, <2>3 DEF KitchenProcess
<1>7. CASE UNCHANGED systemVars
  BY <1>1, <1>7 DEF systemVars, vars, unmoved, history, cooking
<1> QED
  BY <1>1, <1>2, <1>4, <1>5, <1>6, <1>7, Unmoved DEF SystemNext, Work

\* A pipeline that stands still keeps its reason, and one that is off needs none.
LEMMA FateKept ==
  ASSUME SInv, Keeps, NEW p \in Run, FateOf(p), Revoked \subseteq Revoked',
         downs > 0 => downs' > 0, p \in done' => p \in done,
         pipe'[p] = pipe[p] \/ (pipe'[p].why = "none" /\ pipe'[p].at \in {"off", "check"} /\ pipe[p].at # "over")
  PROVE  FateOf(p)'
<1>1. p[1] \in Order /\ LastStage \in 1 .. LastStage
  BY DEF Run, LastStage
<1>2. Said(p[1], LastStage) => Said(p[1], LastStage)'
  BY <1>1 DEF Keeps
<1> QED
  BY <1>2 DEF FateOf

\* A pipeline that moves and one of the steps that give it a reason to end.
LEMMA FateMoves ==
  ASSUME SInv, Called, Keeps, NEW p \in Run, PublishStatus(p) \/ PipelineRuns(p),
         \A q \in Run : FateOf(q)
  PROVE  \A q \in Run : FateOf(q)'
<1>1. /\ pipe \in [Run -> Pipeline] /\ p[1] \in Order /\ LastStage \in 1 .. LastStage
      /\ AnnouncesOf(p) /\ mode \in {"up", "stopping", "down"}
  <2>1. pipe \in [Run -> Pipeline] /\ mode \in {"up", "stopping", "down"}
    BY DEF SInv, IInv, TypeOK
  <2>2. p[1] \in Order /\ LastStage \in 1 .. LastStage
    BY DEF Run, LastStage
  <2>3. AnnouncesOf(p)
    BY DEF SInv, Announces, AnnouncesOf
  <2> QED
    BY <2>1, <2>2, <2>3
<1> USE DEF Revoked
<1>2. UNCHANGED <<revoked, mode, downs>>
  BY Unmoved DEF unmoved, topics, process
<1>3. /\ \A q \in Run : q # p => pipe'[q] = pipe[q]
      /\ done' \subseteq done \cup {p}
    BY <1>1 DEF PublishStatus, PipelineRuns, Send, SendLate, CheckContext, EnterSleep, Wake,
     Interrupted,
     Delete, Release, Goto, End, Pipeline
<1>4. \A q \in Run : q # p => FateOf(q)'
  BY <1>2, <1>3, FateKept
<1>5. Said(p[1], LastStage) => Said(p[1], LastStage)'
  BY <1>1 DEF Keeps
<1>6. CtxDone(p) /\ pipe[p].at # "over" => p[1] \in Revoked \/ downs > 0
  BY DEF CtxDone, Called, FateOf
<1>a. ASSUME NEW where, Goto(p, where)
      PROVE  pipe'[p].at = where /\ pipe'[p].why = pipe[p].why
  BY <1>1, <1>a DEF Goto, Pipeline
<1>b. ASSUME NEW reason, End(p, reason)
      PROVE  pipe'[p].at = "delete" /\ pipe'[p].why = reason
  BY <1>1, <1>b DEF End, Pipeline
<1>c. CASE Release(p)
  <2>1. pipe'[p].at = "over" /\ pipe'[p].why = pipe[p].why /\ pipe[p].at = "release"
    BY <1>a, <1>c DEF Release, At
  <2> QED
    BY <1>2, <1>4, <1>5, <2>1 DEF FateOf
<1>d. ASSUME pipe[p].at # "over", UNCHANGED done, pipe'[p].why = pipe[p].why,
             pipe'[p].at \in {"release"} => pipe[p].at = "delete",
             pipe'[p].at \notin {"delete", "over"}
      PROVE  FateOf(p)'
  BY <1>2, <1>5, <1>d DEF FateOf
<1>e. ASSUME pipe[p].at # "over", UNCHANGED done, End(p, "failed")
      PROVE  FateOf(p)'
  BY <1>2, <1>b, <1>e DEF FateOf
<1>f. ASSUME pipe[p].at # "over", UNCHANGED done, End(p, "context"), CtxDone(p)
      PROVE  FateOf(p)'
  BY <1>2, <1>6, <1>b, <1>f DEF FateOf
<1>g. CASE PublishStatus(p)
  <2>1. At(p, "send") /\ UNCHANGED done
        /\ (Goto(p, "sent") \/ End(p, "failed") \/ (End(p, "context") /\ CtxDone(p)))
    BY <1>g DEF PublishStatus, Send, SendLate
  <2> QED
    BY <1>4, <1>a, <1>d, <1>e, <1>f, <2>1 DEF At
<1>h. CASE CheckContext(p) \/ Wake(p) \/ Interrupted(p) \/ Delete(p)
  <2>1. CASE CheckContext(p)
    BY <1>4, <1>a, <1>d, <1>f, <2>1 DEF CheckContext, At
  <2>2. CASE Wake(p)
    <3>1. pipe'[p].at = "send" /\ pipe'[p].why = pipe[p].why
      BY <1>1, <2>2 DEF Wake, Pipeline
    <3> QED
      BY <1>4, <1>d, <2>2, <3>1 DEF Wake, At
  <2>3. CASE Interrupted(p)
    BY <1>4, <1>f, <2>3 DEF Interrupted, At
  <2>4. CASE Delete(p)
    BY <1>4, <1>a, <1>d, <2>4 DEF Delete, At
  <2> QED
    BY <1>h, <2>1, <2>2, <2>3, <2>4
<1>i. CASE EnterSleep(p)
  <2>1. At(p, "sent") /\ UNCHANGED done
    BY <1>i DEF EnterSleep
  <2>2. CASE End(p, "completed") /\ pipe[p].k = LastStage
    <3>1. Said(p[1], LastStage)
      BY <1>1, <2>1, <2>2 DEF AnnouncesOf, At
    <3> QED
      BY <1>2, <1>4, <1>5, <1>b, <2>1, <2>2, <3>1 DEF FateOf, At
  <2>3. CASE (End(p, "context") /\ CtxDone(p)) \/ Goto(p, "sleep")
    BY <1>4, <1>a, <1>d, <1>f, <2>1, <2>3 DEF At
  <2> QED
    BY <1>1, <1>i, <2>2, <2>3 DEF EnterSleep, Pipeline
<1> QED
  BY <1>c, <1>g, <1>h, <1>i DEF PipelineRuns

\* Only a pipeline's own steps, the cancellation of its order and the end of its
\* process touch the reason it ends for.
LEMMA FateStep ==
  ASSUME SInv, RunsInv, Called, Keeps, [SystemNext]_systemVars, \A q \in Run : FateOf(q)
  PROVE  \A q \in Run : FateOf(q)'
<1>t. TypeOK /\ PollersInv
  BY DEF SInv, IInv
<1> USE DEF topics, process, maps, cooking, Revoked
<1>1. ASSUME NEW p \in Run, PublishStatus(p) \/ PipelineRuns(p) PROVE \A q \in Run : FateOf(q)'
  BY <1>1, FateMoves
<1>2. CASE Revoked \subseteq Revoked' /\ (downs > 0 => downs' > 0) /\ UNCHANGED <<pipe, done>>
  BY <1>2, FateKept
<1>3. ASSUME NEW p \in Run, RepeatStatus(p) PROVE \A q \in Run : FateOf(q)'
  BY <1>2, <1>3 DEF RepeatStatus, vars
<1>4. ASSUME NEW o \in Order, Notify(o) \/ ChangeOrder(o) PROVE \A q \in Run : FateOf(q)'
  BY <1>t, <1>2, <1>4 DEF Notify, Announce, Revoke, ChangeOrder, vars, TypeOK
<1>5. CASE ConsumerRuns \/ ConsumerProcess
  BY <1>2, <1>5 DEF ConsumerRuns, ConsumerProcess, vars
<1>6. CASE PollersRun
  <2>1. CASE StoreActive
    <3>1. /\ UNCHANGED <<revoked, downs, done>>
          /\ \A q \in Run : pipe'[q] = pipe[q]
               \/ (pipe'[q].why = "none" /\ pipe'[q].at = "check" /\ pipe[q].at = "off")
      BY <1>t, <2>1 DEF StoreActive, TypeOK, PollersInv, Handling, RunsInv, Run
    <3> QED
      BY <3>1, FateKept
  <2>2. CASE CallCancelFunc
    <3>1. /\ UNCHANGED <<revoked, downs, pipe>> /\ canceller.order \in Revoked
          /\ done' = done \cup {<<canceller.order, canceller.run>>}
      BY <1>t, <2>2 DEF CallCancelFunc, PollersInv
    <3>2. \A q \in Run : q \in done' => q \in done \/ q[1] \in Revoked
      BY <3>1 DEF Run
    <3>3. LastStage \in 1 .. LastStage /\ \A q \in Run : q[1] \in Order
      BY DEF LastStage, Run
    <3>4. \A q \in Run : Said(q[1], LastStage) => Said(q[1], LastStage)'
      BY <3>3 DEF Keeps
    <3> QED
      BY <3>1, <3>2, <3>4 DEF FateOf
  <2>3. CASE LoadActive \/ LoadCancelled \/ StopPoller \/ LoadCancelFunc \/ StoreCancelled \/ StopCanceller
             \/ \E o \in Order : ReadOrder(o) \/ ReadCancellation(o)
        BY <1>2, <2>3 DEF LoadActive, LoadCancelled, StopPoller, LoadCancelFunc, StoreCancelled,
       StopCanceller,
       ReadOrder, ReadCancellation
  <2> QED
    BY <1>6, <2>1, <2>2, <2>3 DEF PollersRun, PollerStep, CancellerStep
<1>7. CASE PollersMiss
  BY <1>2, <1>7 DEF PollersMiss, DropOrder, DropCancellation
<1>8. CASE KitchenProcess
  <2>1. CASE Stop \/ Restart
    BY <1>t, <1>2, <2>1 DEF Stop, Restart, Fault, TypeOK
  <2>2. CASE Exit \/ Timeout \/ Crash
    <3>1. /\ UNCHANGED <<revoked, done>> /\ downs \in Nat /\ downs' \in {downs, downs + 1}
          /\ \A q \in Run : pipe'[q] = pipe[q] \/ (pipe'[q] = Off /\ Alive(q))
      BY <1>t, <2>2 DEF Exit, Timeout, Crash, GoDown, Fault, TypeOK
    <3>2. downs > 0 => downs' > 0
      BY <3>1
    <3> QED
      BY <3>1, <3>2, FateKept DEF Off, Alive
  <2> QED
    BY <1>8, <2>1, <2>2 DEF KitchenProcess
<1>9. CASE UNCHANGED systemVars
  BY <1>2, <1>9 DEF systemVars, vars
<1> QED
  BY <1>1, <1>3, <1>4, <1>5, <1>6, <1>7, <1>8, <1>9 DEF SystemNext, Work

\* What a quiet order has had happen to it.
LEMMA QuietIsEnded ==
  ASSUME SInv, QInv, ApiP!CaughtUpUnlessLost
  PROVE  QuietMeansEnded
<1> SUFFICES ASSUME NEW o \in Order, announced[o] > 0, Quiet(o), ~ Faulted(o)
             PROVE  Ended(o)
  BY DEF QuietMeansEnded
<1>1. CASE o \in Revoked
  BY <1>1 DEF QInv, Called, Ended
<1>2. CASE runs[o] > 0 /\ o \notin Revoked
  <2>1. PICK n \in 1 .. runs[o] : ~ Broken(<<o, n>>)
    BY <1>2 DEF Faulted
  <2> DEFINE p == <<o, n>>
  <2>2. p \in Run /\ p[1] = o
    <3>1. runs[o] \in 0 .. MaxCopies
      BY DEF SInv, IInv, TypeOK
    <3>2. n \in 1 .. MaxCopies
      BY <3>1, MaxCopiesAssumption
    <3> QED
      BY <3>2 DEF Run
  <2> HIDE DEF p
  <2>3. pipe[p] \in Pipeline /\ ~ Broken(p) /\ ~ Alive(p) /\ FateOf(p)
    BY <2>1, <2>2 DEF SInv, IInv, TypeOK, Quiet, QInv, p
  <2>4. pipe[p].why = "completed"
    BY <1>2, <2>2, <2>3 DEF Broken, Alive, FateOf, Pipeline
  <2>5. Said(o, LastStage)
    BY <2>2, <2>3, <2>4 DEF FateOf
  <2>6. PICK i \in DOMAIN topic[o] : topic[o][i] = "completed"
    BY <2>5 DEF Said, LastStage, Api!Stage
  <2>7. CASE status[o] \notin {"cancelled", "rejected"}
    <3>1. ~ ApiP!InHand(o) /\ position[o] = Len(topic[o]) /\ o \notin lost
      BY DEF Quiet, Faulted, Api!InHand, ApiP!InHand
    <3>2. ApiP!Rank("completed") <= ApiP!Rank(status[o])
      BY <2>6, <2>7, <3>1 DEF ApiP!CaughtUpUnlessLost
    <3>3. status[o] \in Api!Status
      BY DEF QInv, Called
    <3> QED
      BY <3>2, <3>3 DEF ApiP!Rank, Api!Status, Ended
  <2> QED
    BY <2>7 DEF Ended
<1> QED
  BY <1>1, <1>2 DEF QInv, Awaited, Quiet, Faulted

\* From end to end, with the one consumer worker that main starts: an announced
\* order with nothing under way any more has ended, or one of the faults that
\* Faulted names happened to it, for any number of orders, copies, repetitions,
\* cancellations, shutdowns and crashes.
THEOREM QuietMeansEndedHolds ==
  ASSUME ApiP!OneWorker
  PROVE  SystemSpec => []QuietMeansEnded
<1>1. SystemSpec => []LateInv
  BY LateInit, LateStep, Invariance, KitchenImplemented, PTL DEF Spec
<1>2. SInv /\ LateInv /\ QInv /\ [SystemNext]_systemVars => QInv'
  BY TopicStep, AwaitedStep, CalledStep, FateStep DEF QInv, LateInv
<1>3. SystemSpec => []QInv
  BY <1>1, <1>2, QInit, SystemInvariance, PTL DEF SystemSpec
<1>4. SystemSpec => []ApiP!CaughtUpUnlessLost
  <2>1. MaxMessages \in Nat
    BY MaxMessagesAssumption
  <2>2. ApiP!Spec => []ApiP!CaughtUpUnlessLost
    BY <2>1, ApiP!OneWorker, ApiP!CaughtUpHolds
  <2> QED
    BY <2>2, SameConsumer, ConsumerImplemented, PTL DEF ImplementsConsumer
<1> QED
  BY <1>3, <1>4, SystemInvariance, QuietIsEnded, PTL
=============================================================================
