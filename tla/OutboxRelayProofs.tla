------------------------- MODULE OutboxRelayProofs -------------------------
(***************************************************************************)
(* Theorems about OutboxRelay, for any number of events, replicas and      *)
(* workers, any batch limit and any bound on faults.                       *)
(***************************************************************************)
EXTENDS OutboxRelay, SequenceTheorems, FiniteSetTheorems, TLAPS

\* A worker that is publishing or marking has an event in hand, and one that is
\* about to mark has published it.
WorkerInv == \A w \in Worker :
  /\ ph[w] \in {"publish", "mark"} => job[w] \in visible
  /\ ph[w] = "mark" => Published(job[w])

IInv == TypeOK /\ WorkerInv /\ ProcessedWasPublished

\* Appending to the log unpublishes nothing and publishes the event.
LEMMA PublishedAppend ==
  ASSUME log \in Seq(Event), NEW x \in Event, log' = Append(log, x)
  PROVE  /\ log' \in Seq(Event)
         /\ Published(x)'
         /\ \A e : Published(e) => Published(e)'
  <1>1. /\ Len(log') = Len(log) + 1 /\ Len(log) \in Nat /\ log' \in Seq(Event)
        /\ \A i \in 1 .. Len(log) : log'[i] = log[i]
        /\ log'[Len(log) + 1] = x
    BY AppendProperties, LenProperties
  <1>2. Len(log) + 1 \in 1 .. Len(log')
    BY <1>1
  <1> QED BY <1>1, <1>2 DEF Published

\* No event is visible and nothing is published at the start.
LEMMA InitInv == Init => IInv
  BY BoundsAssumption DEF Init, IInv, TypeOK, WorkerInv, ProcessedWasPublished

\* A failed attempt leads to a retry or to the next event.
LEMMA AttemptEffect ==
  ASSUME TypeOK, NEW w \in Worker, ph[w] = "publish", job[w] \in visible, AttemptFails(w)
  PROVE  /\ ph' \in [Worker -> {"take", "publish", "mark", "done"}]
         /\ job' \in [Worker -> Event \cup {NoEvent}]
         /\ att' \in [Worker -> 0 .. MaxAttempts - 1]
         /\ failed' \subseteq visible
         /\ ph'[w] # "mark"
         /\ ph'[w] = "publish" => job'[w] = job[w]
         /\ \A v \in Worker \ {w} : ph'[v] = ph[v] /\ job'[v] = job[v]
  <1>1. CASE MayRetry(w)
    <2>1. att[w] + 1 \in 0 .. MaxAttempts - 1
      BY <1>1, BoundsAssumption DEF MayRetry, TypeOK
    <2> QED BY <1>1, <2>1 DEF AttemptFails, Retry, TypeOK
  <1>2. CASE ~MayRetry(w)
    <2>1. PublishFails(w, "take")
      BY <1>2 DEF AttemptFails
    <2>2. ph' = [ph EXCEPT ![w] = "take"] /\ job' = [job EXCEPT ![w] = NoEvent]
          /\ att' = [att EXCEPT ![w] = 0] /\ failed' = failed \cup {job[w]}
      BY <2>1 DEF PublishFails
    <2> QED BY <2>2, BoundsAssumption DEF TypeOK
  <1> QED BY <1>1, <1>2

\* Every step keeps the invariant, one action at a time.
LEMMA StepInv == IInv /\ [Next]_vars => IInv'
  <1> SUFFICES ASSUME IInv, [Next]_vars PROVE IInv' OBVIOUS
  <1>0. TypeOK /\ WorkerInv /\ ProcessedWasPublished
    BY DEF IInv
  <1> USE <1>0 DEF db, replicas, workers
  <1>1. ASSUME UNCHANGED log PROVE \A e : Published(e)' <=> Published(e)
    BY <1>1 DEF Published
  <1>2. ASSUME NEW e \in Event, Enqueue(e) PROVE IInv'
    BY <1>1, <1>2 DEF Enqueue, IInv, TypeOK, WorkerInv, ProcessedWasPublished
  <1>3. ASSUME NEW w \in Worker, Take(w) PROVE IInv'
    <2>1. PICK e \in jobs[Home[w]] : /\ jobs' = [jobs EXCEPT ![Home[w]] = @ \ {e}]
                                     /\ job' = [job EXCEPT ![w] = e]
      BY <1>3 DEF Take
    <2>2. e \in visible /\ e \in Event /\ jobs' \in [Replica -> SUBSET visible]
      BY <2>1, HomeAssumption DEF TypeOK
    <2>3. TypeOK'
      BY <1>3, <2>1, <2>2 DEF Take, TypeOK
    <2>4. WorkerInv'
      BY <1>1, <1>3, <2>1, <2>2 DEF Take, TypeOK, WorkerInv
    <2>5. ProcessedWasPublished'
      BY <1>1, <1>3 DEF Take, ProcessedWasPublished
    <2> QED BY <2>3, <2>4, <2>5 DEF IInv
  <1>4. ASSUME NEW w \in Worker, Finish(w) PROVE IInv'
    BY <1>1, <1>4 DEF Finish, IInv, TypeOK, WorkerInv, ProcessedWasPublished
  <1>5. ASSUME NEW w \in Worker, Deliver(w) PROVE IInv'
    <2>1. job[w] \in visible /\ job[w] \in Event
      BY <1>5 DEF Deliver, WorkerInv, TypeOK
    <2>2. log' \in Seq(Event) /\ Published(job[w])' /\ \A e : Published(e) => Published(e)'
      <3>1. log' \in Seq(Event) /\ \A e : Published(e) => Published(e)'
        BY <1>5, <2>1, PublishedAppend DEF Deliver, TypeOK
      <3>2. UNCHANGED job
        BY <1>5 DEF Deliver
      <3>3. \A x \in Event : log' = Append(log, x) => Published(x)'
        BY PublishedAppend DEF TypeOK
      <3> QED BY <1>5, <2>1, <3>1, <3>2, <3>3 DEF Deliver, Published
    <2>3. TypeOK'
      BY <1>5, <2>2, BoundsAssumption DEF Deliver, TypeOK
    <2>4. WorkerInv'
      <3> SUFFICES ASSUME NEW v \in Worker
                   PROVE  /\ ph'[v] \in {"publish", "mark"} => job'[v] \in visible'
                          /\ ph'[v] = "mark" => Published(job[v])'
        BY DEF WorkerInv
      <3>1. CASE v = w
        BY <1>5, <2>1, <2>2, <3>1 DEF Deliver, TypeOK
      <3>2. CASE v # w
        <4>1. ph'[v] = ph[v] /\ job' = job /\ visible' = visible
          BY <1>5, <3>2 DEF Deliver, TypeOK
        <4>2. Published(job[v]) => Published(job[v])'
          BY <2>2, <4>1 DEF Published
        <4> QED BY <4>1, <4>2 DEF WorkerInv
      <3> QED BY <3>1, <3>2
    <2>5. ProcessedWasPublished'
      BY <1>5, <2>2 DEF Deliver, ProcessedWasPublished
    <2> QED BY <2>3, <2>4, <2>5 DEF IInv
  <1>6. ASSUME NEW w \in Worker, NotWritten(w) PROVE IInv'
    <2>1. ph[w] = "publish" /\ job[w] \in visible /\ AttemptFails(w)
      BY <1>6 DEF NotWritten, WorkerInv
    <2>2. TypeOK'
      BY <1>6, <2>1, AttemptEffect DEF NotWritten, TypeOK
    <2>3. WorkerInv'
      BY <1>1, <1>6, <2>1, AttemptEffect DEF NotWritten, WorkerInv
    <2>4. ProcessedWasPublished'
      BY <1>1, <1>6 DEF NotWritten, ProcessedWasPublished
    <2> QED BY <2>2, <2>3, <2>4 DEF IInv
  <1>7. ASSUME NEW w \in Worker, AckLost(w) PROVE IInv'
    <2>1. ph[w] = "publish" /\ job[w] \in visible /\ job[w] \in Event /\ AttemptFails(w)
      BY <1>7 DEF AckLost, WorkerInv, TypeOK
    <2>2. log' \in Seq(Event) /\ \A e : Published(e) => Published(e)'
      BY <1>7, <2>1, PublishedAppend DEF AckLost, TypeOK
    <2>3. faults' \in 0 .. MaxFaults
      BY <1>7, BoundsAssumption DEF AckLost, Fault, TypeOK
    <2>4. TypeOK'
      BY <1>7, <2>1, <2>2, <2>3, AttemptEffect DEF AckLost, TypeOK
    <2>5. WorkerInv'
      <3> SUFFICES ASSUME NEW v \in Worker
                   PROVE  /\ ph'[v] \in {"publish", "mark"} => job'[v] \in visible'
                          /\ ph'[v] = "mark" => Published(job[v])'
        BY DEF WorkerInv
      <3>1. CASE v = w
        BY <1>7, <2>1, <3>1, AttemptEffect DEF AckLost
      <3>2. CASE v # w
        <4>1. ph'[v] = ph[v] /\ job'[v] = job[v] /\ visible' = visible
          BY <1>7, <2>1, <3>2, AttemptEffect DEF AckLost
        <4>2. Published(job[v]) => Published(job[v])'
          BY <2>2, <4>1 DEF Published
        <4> QED BY <4>1, <4>2 DEF WorkerInv
      <3> QED BY <3>1, <3>2
    <2>6. ProcessedWasPublished'
      BY <1>7, <2>2 DEF AckLost, ProcessedWasPublished
    <2> QED BY <2>4, <2>5, <2>6 DEF IInv
  <1>8. ASSUME NEW w \in Worker, Mark(w) PROVE IInv'
    <2>1. job[w] \in visible /\ Published(job[w])
      BY <1>8 DEF Mark, WorkerInv
    <2>2. TypeOK'
      BY <1>8, <2>1 DEF Mark, TypeOK
    <2>3. WorkerInv'
      BY <1>1, <1>8 DEF Mark, WorkerInv, TypeOK
    <2>4. ProcessedWasPublished'
      BY <1>1, <1>8, <2>1 DEF Mark, ProcessedWasPublished
    <2> QED BY <2>2, <2>3, <2>4 DEF IInv
  <1>9. ASSUME NEW w \in Worker, MarkFails(w) PROVE IInv'
    <2>1. faults' \in 0 .. MaxFaults
      BY <1>9, BoundsAssumption DEF MarkFails, Fault, TypeOK
    <2>2. TypeOK'
      BY <1>9, <2>1 DEF MarkFails, TypeOK
    <2>3. WorkerInv'
      BY <1>1, <1>9 DEF MarkFails, WorkerInv, TypeOK
    <2>4. ProcessedWasPublished'
      BY <1>1, <1>9 DEF MarkFails, ProcessedWasPublished
    <2> QED BY <2>2, <2>3, <2>4 DEF IInv
  <1>10. ASSUME NEW r \in Replica, ReplicaStep(r) PROVE IInv'
    <2>0. UNCHANGED <<db, log>>
      BY <1>10 DEF ReplicaStep, Fetch, EmptyFetch, Collect, FetchFails, BatchDone, Shutdown, Exit, Crash, Restart, vars
    <2>1. TypeOK'
      <3>1. CASE Fetch(r)
        <4>1. Batch(Fetchable(r)) \subseteq visible
          BY DEF Batch, Fetchable
        <4> QED BY <3>1, <4>1 DEF Fetch, TypeOK
      <3>2. CASE EmptyFetch(r) BY <3>2 DEF EmptyFetch, vars, TypeOK
      <3>3. CASE Collect(r) BY <3>3 DEF Collect, TypeOK
      <3>4. CASE BatchDone(r) BY <3>4 DEF BatchDone, TypeOK
      <3>5. CASE Shutdown(r) BY <3>5, BoundsAssumption DEF Shutdown, Fault, TypeOK
      <3>6. CASE Exit(r) BY <3>6 DEF Exit, TypeOK
      <3>7. CASE Crash(r)
        <4>1. /\ ph' \in [Worker -> {"take", "publish", "mark", "done"}]
              /\ job' \in [Worker -> Event \cup {NoEvent}]
          BY <3>7 DEF Crash, TypeOK
        <4>2. faults' \in 0 .. MaxFaults
          BY <3>7, BoundsAssumption DEF Crash, Fault, TypeOK
        <4> QED BY <3>7, <4>1, <4>2 DEF Crash, TypeOK
      <3>8. CASE Restart(r) BY <3>8 DEF Restart, TypeOK
      <3>9. CASE FetchFails(r) BY <3>9 DEF FetchFails, TypeOK
      <3> QED BY <1>10, <3>1, <3>2, <3>3, <3>4, <3>5, <3>6, <3>7, <3>8, <3>9 DEF ReplicaStep
    <2>2. \A w \in Worker : ph'[w] \in {"publish", "mark"} => ph'[w] = ph[w] /\ job'[w] = job[w]
      BY <1>10 DEF ReplicaStep, Fetch, EmptyFetch, Collect, FetchFails, BatchDone, Shutdown, Exit, Crash, Restart, vars
    <2>3. WorkerInv'
      BY <1>1, <2>0, <2>2 DEF WorkerInv, Published
    <2>4. ProcessedWasPublished'
      BY <1>1, <2>0 DEF ProcessedWasPublished
    <2> QED BY <2>1, <2>3, <2>4 DEF IInv
  <1>11. ASSUME UNCHANGED vars PROVE IInv'
    BY <1>1, <1>11 DEF vars, IInv, TypeOK, WorkerInv, ProcessedWasPublished
  <1> QED BY <1>2, <1>3, <1>4, <1>5, <1>6, <1>7, <1>8, <1>9, <1>10, <1>11 DEF Next, WorkerStep

\* The invariant holds in every reachable state.
THEOREM Invariance == Spec => []IInv
  <1> QED BY InitInv, StepInv, PTL DEF Spec

\* Every variable keeps its type; no Publish is attempted more than MaxAttempts
\* times.
THEOREM TypeCorrectness == Spec => []TypeOK
  <1>1. IInv => TypeOK BY DEF IInv
  <1> QED BY <1>1, Invariance, PTL

\* No row is marked as processed before its message is in Kafka: the relay may
\* repeat a message, it never loses one.
THEOREM NothingLost == Spec => []ProcessedWasPublished
  <1>1. IInv => ProcessedWasPublished BY DEF IInv
  <1> QED BY <1>1, Invariance, PTL

-----------------------------------------------------------------------------
(* The relay implements the queue. *)

\* A step that shows nothing to the outside.
LEMMA QueueStutters ==
  ASSUME UNCHANGED <<visible, processed, log>>
  PROVE  [Queue!Next]_(Queue!vars)
  BY DEF Queue!vars

\* A step that writes the event a worker has in hand.
LEMMA QueueWrites ==
  ASSUME IInv, NEW w \in Worker, ph[w] = "publish", log' = Append(log, job[w]), UNCHANGED db
  PROVE  Queue!Next
  <1>1. job[w] \in visible /\ job[w] \in Event
    BY DEF IInv, TypeOK, WorkerInv
  <1>2. Queue!Write(job[w])
    BY <1>1 DEF Queue!Write, db
  <1> QED BY <1>1, <1>2 DEF Queue!Next

LEMMA QueueStep == IInv /\ [Next]_vars => [Queue!Next]_(Queue!vars)
  <1> SUFFICES ASSUME IInv, [Next]_vars PROVE [Queue!Next]_(Queue!vars) OBVIOUS
  <1> USE DEF db, replicas, workers
  <1>1. ASSUME NEW e \in Event, Enqueue(e) PROVE Queue!Next
    <2>1. Queue!Owe(e)
      BY <1>1 DEF Enqueue, Queue!Owe
    <2> QED BY <2>1 DEF Queue!Next
  <1>2. ASSUME NEW w \in Worker, Deliver(w) \/ AckLost(w) PROVE Queue!Next
    BY <1>2, QueueWrites DEF Deliver, AckLost
  <1>3. ASSUME NEW w \in Worker, Mark(w) PROVE Queue!Next
    <2>1. job[w] \in visible /\ job[w] \in Event /\ Published(job[w])
      BY <1>3 DEF Mark, IInv, TypeOK, WorkerInv
    <2>2. Queue!Settle(job[w])
      BY <1>3, <2>1 DEF Mark, Queue!Settle, Published
    <2> QED BY <2>1, <2>2 DEF Queue!Next
  <1>4. ASSUME NEW w \in Worker, Take(w) \/ Finish(w) \/ NotWritten(w) \/ MarkFails(w)
        PROVE  UNCHANGED <<visible, processed, log>>
    BY <1>4 DEF Take, Finish, NotWritten, MarkFails
  <1>5. ASSUME NEW r \in Replica, ReplicaStep(r) PROVE UNCHANGED <<visible, processed, log>>
    BY <1>5 DEF ReplicaStep, Fetch, EmptyFetch, Collect, FetchFails, BatchDone, Shutdown, Exit, Crash, Restart, vars
  <1>6. UNCHANGED vars => UNCHANGED <<visible, processed, log>>
    BY DEF vars
  <1> QED BY <1>1, <1>2, <1>3, <1>4, <1>5, <1>6, QueueStutters DEF Next, WorkerStep

\* Delivery at least once: for any replicas, workers, batch limits, attempts and
\* faults the relay (outboxWorkers) is a NoticeQueue to those who read the topics.
THEOREM QueueImplemented == Spec => ImplementsQueue
  <1>1. Init => Queue!Init
    BY DEF Init, Queue!Init
  <1> QED BY <1>1, QueueStep, Invariance, PTL DEF Spec, ImplementsQueue, Queue!Spec

-----------------------------------------------------------------------------
(* Who has an event. *)

\* Workers are busy only while their replica works at a batch.
CrewInv == \A w \in Worker : ph[w] # "done" => phase[Home[w]] = "work"

\* A replica has an event once: in its channel or in the hands of one worker.
OnceInv ==
  \A v, w \in Worker :
    /\ ph[w] \in {"publish", "mark"} => job[w] \notin jobs[Home[w]]
    /\ v # w /\ Home[v] = Home[w] /\ ph[v] \in {"publish", "mark"} /\ ph[w] \in {"publish", "mark"}
       => job[v] # job[w]

HoldInv == CrewInv /\ OnceInv

LEMMA HoldInit == Init => HoldInv
BY DEF Init, HoldInv, CrewInv, OnceInv

\* Who only gives up what he has keeps it apart from others.
LEMMA HoldLess ==
  ASSUME OnceInv,
         \A w \in Worker : ph'[w] \in {"publish", "mark"} =>
           ph[w] \in {"publish", "mark"} /\ job'[w] = job[w],
         \A w \in Worker : jobs'[Home[w]] \subseteq jobs[Home[w]] \/ ph'[w] \notin {"publish", "mark"}
  PROVE  OnceInv'
BY DEF OnceInv

LEMMA HoldStep == IInv /\ HoldInv /\ [Next]_vars => HoldInv'
<1> SUFFICES ASSUME IInv, HoldInv, [Next]_vars PROVE HoldInv'
  OBVIOUS
<1> USE DEF db, replicas, workers
<1>t. TypeOK /\ WorkerInv /\ CrewInv /\ OnceInv
  BY DEF IInv, HoldInv
<1>1. ASSUME NEW e \in Event, Enqueue(e) PROVE HoldInv'
  BY <1>t, <1>1 DEF Enqueue, HoldInv, CrewInv, OnceInv
<1>2. ASSUME NEW w \in Worker, Take(w) PROVE HoldInv'
  <2>1. PICK e \in jobs[Home[w]] : /\ jobs' = [jobs EXCEPT ![Home[w]] = @ \ {e}]
                                   /\ job' = [job EXCEPT ![w] = e]
    BY <1>2 DEF Take
  <2>2. ph[w] = "take" /\ ph' = [ph EXCEPT ![w] = "publish"] /\ phase' = phase
    BY <1>2 DEF Take
  <2>3. /\ Home[w] \in Replica /\ jobs'[Home[w]] = jobs[Home[w]] \ {e}
        /\ \A r \in Replica : r # Home[w] => jobs'[r] = jobs[r]
        /\ job'[w] = e /\ \A v \in Worker : v # w => job'[v] = job[v] /\ ph'[v] = ph[v]
    BY <1>t, <2>1, <2>2, HomeAssumption DEF TypeOK
  <2>4. CrewInv'
    BY <1>t, <2>2, <2>3 DEF CrewInv
  <2>5. OnceInv'
    <3> SUFFICES ASSUME NEW u \in Worker, NEW v \in Worker
                 PROVE  /\ ph'[v] \in {"publish", "mark"} => job'[v] \notin jobs'[Home[v]]
                        /\ u # v /\ Home[u] = Home[v] /\ ph'[u] \in {"publish", "mark"}
                           /\ ph'[v] \in {"publish", "mark"} => job'[u] # job'[v]
      BY DEF OnceInv
    <3>1. \A x \in Worker : x # w /\ ph[x] \in {"publish", "mark"} /\ Home[x] = Home[w] => job[x] # e
      BY <1>t, <2>1 DEF OnceInv
    <3>2. CASE v # w /\ u # w
      BY <1>t, <2>3, <3>2, HomeAssumption DEF OnceInv
    <3>3. CASE v = w
      BY <2>3, <3>1, <3>3
    <3>4. CASE v # w /\ u = w
      BY <1>t, <2>3, <3>1, <3>4, HomeAssumption DEF OnceInv
    <3> QED
      BY <3>2, <3>3, <3>4
  <2> QED
    BY <2>4, <2>5 DEF HoldInv
<1>3. ASSUME NEW w \in Worker,
             Finish(w) \/ Mark(w) \/ MarkFails(w) \/ Deliver(w) \/ NotWritten(w) \/ AckLost(w)
      PROVE  HoldInv'
  <2>1. /\ UNCHANGED <<jobs, phase>> /\ ph[w] # "done"
        /\ \A v \in Worker \ {w} : ph'[v] = ph[v] /\ job'[v] = job[v]
        /\ ph'[w] \in {"publish", "mark"} => ph[w] \in {"publish", "mark"} /\ job'[w] = job[w]
    <3>1. CASE Finish(w) \/ Mark(w) \/ MarkFails(w) \/ Deliver(w)
      BY <1>t, <3>1 DEF Finish, Mark, MarkFails, Deliver, TypeOK
    <3>2. CASE NotWritten(w) \/ AckLost(w)
      <4>1. ph[w] = "publish" /\ AttemptFails(w) /\ UNCHANGED <<jobs, phase>> /\ job[w] \in visible
        BY <1>t, <3>2 DEF NotWritten, AckLost, WorkerInv
      <4> QED
        BY <1>t, <4>1, AttemptEffect
    <3> QED
      BY <1>3, <3>1, <3>2
  <2>2. CrewInv'
    BY <1>t, <2>1 DEF CrewInv
  <2>3. OnceInv'
    BY <1>t, <2>1, HoldLess
  <2> QED
    BY <2>2, <2>3 DEF HoldInv
<1>4. ASSUME NEW r \in Replica, ReplicaStep(r) PROVE HoldInv'
  <2>1. /\ \A q \in Replica : q # r => phase'[q] = phase[q] /\ jobs'[q] = jobs[q]
        /\ \A w \in Worker : Home[w] # r => ph'[w] = ph[w] /\ job'[w] = job[w]
    BY <1>t, <1>4 DEF ReplicaStep, Fetch, EmptyFetch, Collect, FetchFails, BatchDone, Shutdown, Exit, Crash,
                      Restart, vars, TypeOK, Crew
  <2>2. \/ phase'[r] = phase[r] /\ UNCHANGED <<jobs, ph, job>>
        \/ \A w \in Crew(r) : ph'[w] = "done"
        \/ phase'[r] = "work" /\ \A w \in Crew(r) : ph'[w] = "take"
    <3>1. phase[r] # "work" => \A w \in Crew(r) : ph[w] = "done"
      BY <1>t DEF CrewInv, Crew
    <3> QED
      BY <1>t, <1>4, <3>1 DEF ReplicaStep, Fetch, EmptyFetch, Collect, FetchFails, BatchDone, Shutdown, Exit, Crash,
                      Restart, vars, TypeOK, Crew
  <2>3. CrewInv'
    BY <1>t, <2>1, <2>2, HomeAssumption DEF CrewInv, Crew
  <2>4. OnceInv'
    BY <1>t, <2>1, <2>2, HomeAssumption, HoldLess DEF Crew
  <2> QED
    BY <2>3, <2>4 DEF HoldInv
<1>5. CASE UNCHANGED vars
  BY <1>t, <1>5 DEF vars, HoldInv, CrewInv, OnceInv
<1> QED
  BY <1>1, <1>2, <1>3, <1>4, <1>5 DEF Next, WorkerStep
-----------------------------------------------------------------------------
(* The order of the events of one order, with one replica and one worker. *)

Alone == (\A q, r \in Replica : q = r) /\ (\A v, w \in Worker : v = w)

Earlier(d, e) == d < e /\ OrderOf[d] = OrderOf[e]
Settled(d) == Published(d) \/ d \in failed
Publishing(d) == \E w \in Worker : ph[w] = "publish" /\ job[w] = d

\* The store commits the rows of an order in their sequence.
VisibleInv == \A d, e \in Event : Earlier(d, e) /\ e \in visible => d \in visible

\* Nothing is overtaken on its way through the channel and a worker's hands.
QueueInv ==
  \A r \in Replica, d, e \in Event :
    Earlier(d, e) /\ e \in jobs[r] => d \in jobs[r] \/ Settled(d) \/ Publishing(d)
HandInv ==
  \A w \in Worker, d \in Event :
    ph[w] = "publish" /\ Earlier(d, job[w]) => Settled(d)

SeqInv == VisibleInv /\ QueueInv /\ HandInv /\ InversionNeedsFailure

LEMMA SeqInit == Init => SeqInv
BY DEF Init, SeqInv, VisibleInv, QueueInv, HandInv, InversionNeedsFailure, Published

\* What an append adds.
LEMMA PublishedByAppend ==
  ASSUME log \in Seq(Event), NEW x \in Event, log' = Append(log, x), NEW e, Published(e)'
  PROVE  Published(e) \/ e = x
<1>1. PICK i \in 1 .. Len(log') : log'[i] = e
  BY DEF Published
<1>2. Len(log') = Len(log) + 1 /\ Len(log) \in Nat /\ i \in Nat
  BY AppendProperties, LenProperties
<1>3. \A k \in 1 .. Len(log) : log'[k] = log[k]
  BY AppendProperties
<1>4. log'[Len(log) + 1] = x
  BY AppendProperties
<1>5. i \in 1 .. Len(log) \/ i = Len(log) + 1
  BY <1>1, <1>2
<1> QED
  BY <1>1, <1>3, <1>4, <1>5 DEF Published

\* A step that takes up nothing new, drops whole batches only, and publishes or
\* gives up only what a worker has in hand overtakes nothing.
LEMMA NothingTakenUp ==
  ASSUME SeqInv, visible' = visible,
         \A d \in Event : Settled(d) => Settled(d)',
         \A r \in Replica : jobs'[r] \in {jobs[r], {}},
         \A w \in Worker : ph'[w] = "publish" => ph[w] = "publish" /\ job'[w] = job[w],
         \A w \in Worker, d \in Event : ph[w] = "publish" /\ job[w] = d =>
           \/ ph'[w] = "publish" /\ job'[w] = d
           \/ Settled(d)'
           \/ \A r \in Replica : jobs'[r] = {},
         \A e \in Event : Published(e)' => Published(e) \/ Publishing(e)
  PROVE  SeqInv'
<1>1. VisibleInv'
  BY DEF SeqInv, VisibleInv
<1>2. QueueInv'
  <2> SUFFICES ASSUME NEW r \in Replica, NEW d \in Event, NEW e \in Event, Earlier(d, e),
                      e \in jobs'[r]
               PROVE  d \in jobs'[r] \/ Settled(d)' \/ Publishing(d)'
    BY DEF QueueInv, Earlier
  <2>1. jobs'[r] = jobs[r] /\ jobs'[r] # {}
    OBVIOUS
  <2>2. d \in jobs[r] \/ Settled(d) \/ Publishing(d)
    BY <2>1 DEF SeqInv, QueueInv
  <2>3. CASE Publishing(d)
    <3>1. PICK w \in Worker : ph[w] = "publish" /\ job[w] = d
      BY <2>3 DEF Publishing
    <3>2. (ph'[w] = "publish" /\ job'[w] = d) \/ Settled(d)'
      BY <2>1, <3>1
    <3> QED
      BY <3>2 DEF Publishing
  <2> QED
    BY <2>1, <2>2, <2>3
<1>3. HandInv'
  BY DEF SeqInv, HandInv, Earlier
<1>4. InversionNeedsFailure'
  <2> SUFFICES ASSUME NEW d \in Event, NEW e \in Event, Earlier(d, e), Published(e)'
               PROVE  Settled(d)'
    BY DEF InversionNeedsFailure, Earlier, Settled
  <2>1. CASE Published(e)
    BY <2>1 DEF SeqInv, InversionNeedsFailure, Earlier, Settled
  <2>2. CASE Publishing(e)
    BY <2>2 DEF SeqInv, HandInv, Publishing
  <2> QED
    BY <2>1, <2>2
<1> QED
  BY <1>1, <1>2, <1>3, <1>4 DEF SeqInv

\* The fetch takes the oldest rows, so an earlier event comes along or is done.
LEMMA FetchInOrder ==
  ASSUME Alone, IInv, SeqInv, NEW r \in Replica, Fetch(r)
  PROVE  SeqInv'
<1>1. /\ UNCHANGED <<visible, processed, log, ph, job, failed>>
      /\ phase[r] = "tick" /\ phase' = [phase EXCEPT ![r] = "rows"]
      /\ jobs' = [jobs EXCEPT ![r] = Batch(Fetchable(r))]
  BY DEF Fetch, db, workers
<1>2. Fetchable(r) = visible \ processed
  BY DEF Fetchable, Alone
<1>3. /\ visible \subseteq Event /\ IsFiniteSet(Event)
      /\ jobs \in [Replica -> SUBSET visible] /\ phase \in [Replica -> {"tick", "rows", "work", "down"}]
  BY NEventsAssumption, FS_Interval DEF IInv, TypeOK, Event
<1>4. jobs'[r] = Batch(visible \ processed) /\ \A q \in Replica : q = r
  BY <1>1, <1>2, <1>3 DEF Alone
<1>5. \A e : Settled(e)' <=> Settled(e)
  BY <1>1 DEF Settled, Published
<1>7. VisibleInv' /\ HandInv' /\ InversionNeedsFailure'
  BY <1>1, <1>5 DEF SeqInv, VisibleInv, HandInv, InversionNeedsFailure, Published
<1>8. QueueInv'
  <2> SUFFICES ASSUME NEW d \in Event, NEW e \in Event, Earlier(d, e), e \in jobs'[r]
               PROVE  d \in jobs'[r] \/ Settled(d)
    BY <1>4, <1>5 DEF QueueInv, Earlier
  <2> DEFINE S == visible \ processed
             Before(x) == {y \in S : y < x}
  <2>1. e \in S /\ Cardinality(Before(e)) < BatchLimit
    BY <1>4 DEF Batch
  <2>2. d \in visible
    BY <2>1 DEF SeqInv, VisibleInv
  <2>3. CASE d \in processed
    BY <2>3 DEF IInv, ProcessedWasPublished, Settled
  <2>4. CASE d \in S
    <3>1. ASSUME NEW y \in Before(d) PROVE y \in Before(e)
      <4>1. y \in S /\ y \in Int /\ d \in Int /\ e \in Int
        BY <1>3 DEF Event
      <4>2. y < d /\ d < e
        BY DEF Earlier
      <4> QED
        BY <4>1, <4>2
    <3>2. IsFiniteSet(Before(e))
      BY <1>3, FS_Subset
    <3>3. /\ Cardinality(Before(d)) <= Cardinality(Before(e))
          /\ Cardinality(Before(d)) \in Nat /\ Cardinality(Before(e)) \in Nat
      BY <3>1, <3>2, FS_Subset, FS_CardinalityType
    <3>4. Cardinality(Before(d)) < BatchLimit
      BY <2>1, <3>3, BoundsAssumption
    <3> QED
      BY <1>4, <2>4, <3>4 DEF Batch
  <2> QED
    BY <2>2, <2>3, <2>4
<1> QED
  BY <1>7, <1>8 DEF SeqInv

\* The worker takes the oldest event of the channel.
LEMMA TakeInOrder ==
  ASSUME Alone, IInv, SeqInv, NEW w \in Worker, Take(w)
  PROVE  SeqInv'
<1> DEFINE r == Home[w]
<1>1. PICK e \in jobs[r] : /\ \A d \in jobs[r] : e <= d
                           /\ jobs' = [jobs EXCEPT ![r] = @ \ {e}]
                           /\ job' = [job EXCEPT ![w] = e]
  BY DEF Take
<1>2. /\ UNCHANGED <<visible, log, failed, phase>> /\ ph[w] = "take"
      /\ ph' = [ph EXCEPT ![w] = "publish"]
  BY DEF Take, db
<1>3. /\ r \in Replica /\ e \in Event /\ jobs \in [Replica -> SUBSET visible] /\ visible \subseteq Event
      /\ ph \in [Worker -> {"take", "publish", "mark", "done"}]
      /\ job \in [Worker -> Event \cup {NoEvent}]
  BY HomeAssumption DEF IInv, TypeOK
<1>4. /\ \A v \in Worker : v = w
      /\ \A q \in Replica : q = r
  BY <1>3 DEF Alone
<1> HIDE DEF r
<1>5. ph'[w] = "publish" /\ job'[w] = e /\ jobs'[r] = jobs[r] \ {e}
  BY <1>1, <1>2, <1>3
<1>6. \A d : Settled(d)' <=> Settled(d)
  BY <1>2 DEF Settled, Published
<1>7. \A d : ~ Publishing(d)
  BY <1>2, <1>4 DEF Publishing
<1>9. VisibleInv' /\ InversionNeedsFailure'
  BY <1>2, <1>6 DEF SeqInv, VisibleInv, InversionNeedsFailure, Published
<1>10. QueueInv'
  BY <1>4, <1>5, <1>6, <1>7 DEF SeqInv, QueueInv, Publishing
<1>11. HandInv'
  <2> SUFFICES ASSUME NEW d \in Event, Earlier(d, e) PROVE Settled(d)
    BY <1>4, <1>5, <1>6 DEF HandInv
  <2>1. d \notin jobs[r]
    BY <1>1, <1>3 DEF Earlier, Event
  <2> QED
    BY <1>3, <1>7, <2>1 DEF SeqInv, QueueInv
<1> QED
  BY <1>9, <1>10, <1>11 DEF SeqInv

LEMMA SeqStep ==
  ASSUME Alone
  PROVE  IInv /\ HoldInv /\ SeqInv /\ [Next]_vars => SeqInv'
<1> SUFFICES ASSUME IInv, HoldInv, SeqInv, [Next]_vars PROVE SeqInv'
  OBVIOUS
<1> USE DEF db, replicas, workers
<1>t. TypeOK /\ WorkerInv /\ CrewInv
  BY DEF IInv, HoldInv
<1>u. UNCHANGED <<log, failed>> => \A e : (Published(e)' <=> Published(e)) /\ (Settled(e)' <=> Settled(e))
  BY DEF Published, Settled
<1>1. ASSUME NEW e \in Event, Enqueue(e) PROVE SeqInv'
  <2>1. /\ UNCHANGED <<log, failed, phase, jobs, ph, job>>
        /\ visible' = visible \cup {e}
        /\ \A d \in Event : Earlier(d, e) => d \in visible
    BY <1>1 DEF Enqueue, Earlier
  <2>2. VisibleInv'
    BY <2>1 DEF SeqInv, VisibleInv
  <2>3. QueueInv' /\ HandInv' /\ InversionNeedsFailure'
    BY <1>u, <2>1 DEF SeqInv, QueueInv, HandInv, InversionNeedsFailure, Publishing
  <2> QED
    BY <2>2, <2>3 DEF SeqInv
<1>2. ASSUME NEW w \in Worker, Take(w) PROVE SeqInv'
  BY <1>2, TakeInOrder
<1>3. ASSUME NEW r \in Replica, Fetch(r) PROVE SeqInv'
  BY <1>3, FetchInOrder
<1>4. ASSUME NEW w \in Worker, Finish(w) \/ Mark(w) \/ MarkFails(w) PROVE SeqInv'
  <2>1. /\ UNCHANGED <<visible, log, failed, jobs, phase>> /\ ph[w] \in {"take", "mark"}
        /\ \A v \in Worker \ {w} : ph'[v] = ph[v] /\ job'[v] = job[v]
        /\ ph'[w] \in {"take", "done"}
    BY <1>t, <1>4 DEF Finish, Mark, MarkFails, TypeOK
  <2> QED
    BY <1>u, <2>1, NothingTakenUp
<1>5. ASSUME NEW w \in Worker, Deliver(w) \/ NotWritten(w) \/ AckLost(w) PROVE SeqInv'
  <2>1. /\ ph[w] = "publish" /\ job[w] \in visible /\ job[w] \in Event
        /\ UNCHANGED <<visible, jobs, phase>>
    BY <1>t, <1>5 DEF Deliver, NotWritten, AckLost, WorkerInv, TypeOK
  <2>2. UNCHANGED log \/ log' = Append(log, job[w])
    BY <1>5 DEF Deliver, NotWritten, AckLost
  <2>3. \A e \in Event : /\ Published(e) => Published(e)'
                         /\ Published(e)' => Published(e) \/ Publishing(e)
    <3>1. CASE UNCHANGED log
      BY <3>1 DEF Published
    <3>2. CASE log' = Append(log, job[w])
      <4>1. \A e : Published(e) => Published(e)'
        BY <1>t, <2>1, <3>2, PublishedAppend DEF TypeOK
      <4>2. \A e : Published(e)' => Published(e) \/ e = job[w]
        BY <1>t, <2>1, <3>2, PublishedByAppend DEF TypeOK
      <4> QED
        BY <2>1, <4>1, <4>2 DEF Publishing
    <3> QED
      BY <2>2, <3>1, <3>2
  <2>4. /\ \A v \in Worker \ {w} : ph'[v] = ph[v] /\ job'[v] = job[v]
        /\ ph'[w] = "publish" => job'[w] = job[w]
        /\ failed \subseteq failed'
    <3>1. CASE Deliver(w)
      BY <1>t, <3>1 DEF Deliver, TypeOK
    <3>2. CASE AttemptFails(w)
      <4>1. failed \subseteq failed'
        BY <3>2 DEF AttemptFails, Retry, PublishFails
      <4> QED
        BY <1>t, <2>1, <3>2, <4>1, AttemptEffect
    <3> QED
      BY <1>5, <3>1, <3>2 DEF NotWritten, AckLost
  <2>5. \A d \in Event : job[w] = d => \/ ph'[w] = "publish" /\ job'[w] = d
                                       \/ Settled(d)'
    <3>1. CASE Deliver(w)
      <4>1. \A x \in Event : log' = Append(log, x) => Published(x)'
        BY <1>t, PublishedAppend DEF TypeOK
      <4> QED
        BY <3>1, <4>1 DEF Deliver, Settled
    <3>2. CASE AttemptFails(w)
      <4>1. CASE MayRetry(w)
        BY <2>1, <3>2, <4>1 DEF AttemptFails, Retry
      <4>2. CASE ~ MayRetry(w)
        BY <2>1, <3>2, <4>2 DEF AttemptFails, PublishFails, Settled
      <4> QED
        BY <4>1, <4>2
    <3> QED
      BY <1>5, <3>1, <3>2 DEF NotWritten, AckLost
  <2>7. \A d \in Event : Settled(d) => Settled(d)'
    BY <2>3, <2>4 DEF Settled
  <2>8. \A v \in Worker : ph'[v] = "publish" => ph[v] = "publish" /\ job'[v] = job[v]
    BY <2>1, <2>4
  <2>9. \A v \in Worker, d \in Event : ph[v] = "publish" /\ job[v] = d =>
           (ph'[v] = "publish" /\ job'[v] = d) \/ Settled(d)'
    BY <2>4, <2>5
  <2> HIDE DEF workers
  <2> QED
    BY <2>1, <2>3, <2>7, <2>8, <2>9, NothingTakenUp
<1>6. ASSUME NEW r \in Replica,
             \/ EmptyFetch(r) \/ Collect(r) \/ FetchFails(r) \/ BatchDone(r)
             \/ Shutdown(r) \/ Exit(r) \/ Restart(r)
      PROVE  SeqInv'
  <2>1. /\ UNCHANGED <<visible, log, failed, job>>
        /\ \A q \in Replica : jobs'[q] \in {jobs[q], {}} /\ (q # r => phase'[q] = phase[q])
    BY <1>t, <1>6 DEF EmptyFetch, Collect, FetchFails, BatchDone, Shutdown, Exit, Restart, vars, TypeOK
  <2>2. \A w \in Worker : ph'[w] # ph[w] => Home[w] = r /\ ph'[w] = "take" /\ phase'[r] = "work"
                                            /\ phase[r] = "rows"
    BY <1>t, <1>6 DEF EmptyFetch, Collect, FetchFails, BatchDone, Shutdown, Exit, Restart, vars, TypeOK, Crew
  <2>5. \A w \in Worker : ph[w] = "publish" <=> ph'[w] = "publish"
    BY <1>t, <2>2 DEF CrewInv
  <2> QED
    BY <1>u, <2>1, <2>5, NothingTakenUp
<1>7. ASSUME NEW r \in Replica, Crash(r) PROVE SeqInv'
  <2>1. /\ UNCHANGED <<visible, log, failed>> /\ \A q \in Replica : q = r
        /\ jobs'[r] = {} /\ \A w \in Worker : ph'[w] = "done"
    BY <1>t, <1>7, HomeAssumption DEF Crash, Alone, Crew, TypeOK
  <2> QED
    BY <1>u, <2>1, NothingTakenUp
<1>8. CASE UNCHANGED vars
  BY <1>8, <1>u, NothingTakenUp DEF vars
<1> QED
  BY <1>1, <1>2, <1>3, <1>4, <1>5, <1>6, <1>7, <1>8 DEF Next, WorkerStep, ReplicaStep

\* With one replica and one worker, as shipped, only a publish that failed puts a
\* later event of an order before an earlier one, for any number of events and
\* faults: everything between the table and the topic is in the order of created_at.
THEOREM InversionNeedsFailureHolds ==
  ASSUME Alone
  PROVE  Spec => []InversionNeedsFailure
<1>1. IInv /\ HoldInv /\ SeqInv /\ [Next]_vars => SeqInv'
  BY Alone, SeqStep
<1>2. SeqInv => InversionNeedsFailure
  BY DEF SeqInv
<1> QED
  BY <1>1, <1>2, HoldInit, HoldStep, SeqInit, Invariance, PTL DEF Spec
-----------------------------------------------------------------------------
(* How often an event is published. *)

Handing(r, e, where) == \E w \in Crew(r) : ph[w] = where /\ job[w] = e

\* The replicas that may publish e once more without another fault: while the row
\* is unprocessed every one that is not about to mark it (one that is stopping
\* starts again), later those that already have it.
May(e) == {r \in Replica : IF e \in processed THEN e \in jobs[r] \/ Handing(r, e, "publish")
                           ELSE stop[r] \/ ~ Handing(r, e, "mark")}

\* A stopping replica publishes what it has in hand, fails to mark it and
\* publishes it again after its restart.
Cut(e) == {r \in Replica : e \notin processed /\ stop[r] /\ Handing(r, e, "publish")}

DupInv ==
  \A e \in Event :
    Copies(e) + Cardinality(May(e)) + Cardinality(Cut(e)) <= Cardinality(Replica) + faults

\* The sizes of subsets of the replicas: one that gains, or loses, an element.
LEMMA Sizes ==
  ASSUME IsFiniteSet(Replica), NEW A \in SUBSET Replica, NEW B \in SUBSET Replica
  PROVE  /\ Cardinality(A) \in Nat /\ Cardinality(B) \in Nat
         /\ B \subseteq A => Cardinality(B) <= Cardinality(A)
         /\ \A r \in Replica : B \subseteq A \cup {r} => Cardinality(B) <= Cardinality(A) + 1
         /\ \A r \in A : B \subseteq A \ {r} => Cardinality(B) + 1 <= Cardinality(A)
<1>1. IsFiniteSet(A) /\ IsFiniteSet(B)
  BY FS_Subset
<1>2. Cardinality(A) \in Nat /\ Cardinality(B) \in Nat
  BY <1>1, FS_CardinalityType
<1>3. B \subseteq A => Cardinality(B) <= Cardinality(A)
  BY <1>1, FS_Subset
<1>4. ASSUME NEW r \in Replica, B \subseteq A \cup {r} PROVE Cardinality(B) <= Cardinality(A) + 1
  <2>1. /\ IsFiniteSet(A \cup {r})
        /\ Cardinality(A \cup {r}) = IF r \in A THEN Cardinality(A) ELSE Cardinality(A) + 1
    BY <1>1, FS_AddElement
  <2>2. Cardinality(B) <= Cardinality(A \cup {r})
    BY <1>4, <2>1, FS_Subset
  <2> QED
    BY <1>2, <2>1, <2>2
<1>5. ASSUME NEW r \in A, B \subseteq A \ {r} PROVE Cardinality(B) + 1 <= Cardinality(A)
  <2>1. IsFiniteSet(A \ {r}) /\ Cardinality(A \ {r}) = Cardinality(A) - 1
    BY <1>1, FS_RemoveElement
  <2>2. Cardinality(B) <= Cardinality(A \ {r})
    BY <1>5, <2>1, FS_Subset
  <2> QED
    BY <1>2, <2>1, <2>2
<1> QED
  BY <1>2, <1>3, <1>4, <1>5

\* The log holds each event a number of times, and an append adds one.
LEMMA CopiesType ==
  ASSUME log \in Seq(Event), NEW e
  PROVE  Copies(e) \in Nat
<1>1. IsFiniteSet(1 .. Len(log))
  BY FS_Interval, LenProperties
<1>2. IsFiniteSet({i \in 1 .. Len(log) : log[i] = e})
  BY <1>1, FS_Subset
<1> QED
  BY <1>2, FS_CardinalityType DEF Copies

LEMMA CopiesAppend ==
  ASSUME log \in Seq(Event), NEW x \in Event, log' = Append(log, x), NEW e
  PROVE  Copies(e)' = IF e = x THEN Copies(e) + 1 ELSE Copies(e)
<1> DEFINE I == {i \in 1 .. Len(log) : log[i] = e}
           J == {i \in 1 .. Len(log') : log'[i] = e}
<1>1. /\ Len(log') = Len(log) + 1 /\ Len(log) \in Nat
      /\ \A i \in 1 .. Len(log) : log'[i] = log[i]
      /\ log'[Len(log) + 1] = x
  BY AppendProperties, LenProperties
<1>2. J = IF e = x THEN I \cup {Len(log) + 1} ELSE I
  <2>1. \A i : i \in 1 .. Len(log') <=> i \in 1 .. Len(log) \/ i = Len(log) + 1
    BY <1>1
  <2> QED
    BY <1>1, <2>1
<1>3. IsFiniteSet(I) /\ Len(log) + 1 \notin I
  <2>1. IsFiniteSet(1 .. Len(log)) /\ Len(log) + 1 \notin 1 .. Len(log)
    BY <1>1, FS_Interval
  <2> QED
    BY <2>1, FS_Subset
<1>4. Cardinality(I \cup {Len(log) + 1}) = Cardinality(I) + 1
  BY <1>3, FS_AddElement
<1> QED
  BY <1>2, <1>4 DEF Copies

\* The ways in which a step leaves the bound on the copies of e: it publishes
\* nothing and adds no chance to; a fault adds one chance; a fault or the loss of a
\* chance pays for one copy.
Idle(e) == Copies(e)' = Copies(e) /\ May(e)' \subseteq May(e) /\ Cut(e)' \subseteq Cut(e)
           /\ faults' \in {faults, faults + 1}
Chance(e) ==
  /\ Copies(e)' = Copies(e) /\ faults' = faults + 1
  /\ \E r \in Replica : \/ May(e)' \subseteq May(e) \cup {r} /\ Cut(e)' \subseteq Cut(e)
                        \/ May(e)' \subseteq May(e) /\ Cut(e)' \subseteq Cut(e) \cup {r}
PaidByFault(e) ==
  /\ Copies(e)' = Copies(e) + 1 /\ faults' = faults + 1
  /\ May(e)' \subseteq May(e) /\ Cut(e)' \subseteq Cut(e)
PaidByChance(e) ==
  /\ Copies(e)' = Copies(e) + 1 /\ faults' = faults
  /\ \/ \E r \in May(e) : May(e)' \subseteq May(e) \ {r} /\ Cut(e)' \subseteq Cut(e)
     \/ \E r \in Cut(e) : Cut(e)' \subseteq Cut(e) \ {r} /\ May(e)' \subseteq May(e)

LEMMA Tally ==
  ASSUME IsFiniteSet(Replica), TypeOK, DupInv,
         \A e \in Event : Idle(e) \/ Chance(e) \/ PaidByFault(e) \/ PaidByChance(e)
  PROVE  DupInv'
<1> SUFFICES ASSUME NEW e \in Event
             PROVE  Copies(e)' + Cardinality(May(e)') + Cardinality(Cut(e)')
                      <= Cardinality(Replica) + faults'
  BY DEF DupInv
<1> DEFINE c == Copies(e)  m == Cardinality(May(e))  k == Cardinality(Cut(e))
           m1 == Cardinality(May(e)')  k1 == Cardinality(Cut(e)')
<1>1. /\ May(e) \in SUBSET Replica /\ May(e)' \in SUBSET Replica
      /\ Cut(e) \in SUBSET Replica /\ Cut(e)' \in SUBSET Replica
  BY DEF May, Cut
<1>2. c \in Nat /\ faults \in Nat /\ Cardinality(Replica) \in Nat
  BY CopiesType, BoundsAssumption, FS_CardinalityType DEF TypeOK
<1>3. /\ m \in Nat /\ m1 \in Nat
      /\ May(e)' \subseteq May(e) => m1 <= m
      /\ \A r \in Replica : May(e)' \subseteq May(e) \cup {r} => m1 <= m + 1
      /\ \A r \in May(e) : May(e)' \subseteq May(e) \ {r} => m1 + 1 <= m
  BY <1>1, Sizes
<1>4. /\ k \in Nat /\ k1 \in Nat
      /\ Cut(e)' \subseteq Cut(e) => k1 <= k
      /\ \A r \in Replica : Cut(e)' \subseteq Cut(e) \cup {r} => k1 <= k + 1
      /\ \A r \in Cut(e) : Cut(e)' \subseteq Cut(e) \ {r} => k1 + 1 <= k
  BY <1>1, Sizes
<1>5. c + m + k <= Cardinality(Replica) + faults
  BY DEF DupInv
<1>6. \/ Copies(e)' = c /\ m1 <= m /\ k1 <= k /\ faults' \in {faults, faults + 1}
      \/ Copies(e)' = c /\ faults' = faults + 1 /\ ((m1 <= m + 1 /\ k1 <= k) \/ (m1 <= m /\ k1 <= k + 1))
      \/ Copies(e)' = c + 1 /\ faults' = faults + 1 /\ m1 <= m /\ k1 <= k
      \/ Copies(e)' = c + 1 /\ faults' = faults /\ ((m1 + 1 <= m /\ k1 <= k) \/ (m1 <= m /\ k1 + 1 <= k))
  <2>1. CASE Idle(e)
    BY <1>3, <1>4, <2>1 DEF Idle
  <2>2. CASE Chance(e)
    BY <1>3, <1>4, <2>2 DEF Chance
  <2>3. CASE PaidByFault(e)
    BY <1>3, <1>4, <2>3 DEF PaidByFault
  <2>4. CASE PaidByChance(e)
    BY <1>3, <1>4, <2>4 DEF PaidByChance
  <2> QED
    BY <2>1, <2>2, <2>3, <2>4
<1> HIDE DEF c, m, k, m1, k1
<1>7. Copies(e)' + m1 + k1 <= Cardinality(Replica) + faults'
  BY <1>2, <1>3, <1>4, <1>5, <1>6
<1> QED
  BY <1>7 DEF m1, k1

\* At the start every replica has its chance.
LEMMA DupInit ==
  ASSUME IsFiniteSet(Replica)
  PROVE  Init => DupInv
<1> SUFFICES ASSUME Init, NEW e \in Event
             PROVE  Copies(e) + Cardinality(May(e)) + Cardinality(Cut(e)) <= Cardinality(Replica) + faults
  BY DEF DupInv
<1>1. \A r \in Replica, where \in {"publish", "mark"} : ~ Handing(r, e, where)
  BY DEF Init, Handing, Crew
<1>2. May(e) = Replica /\ Cut(e) = {}
  BY <1>1 DEF Init, May, Cut
<1>3. {i \in 1 .. Len(log) : log[i] = e} = {} /\ faults = 0
  BY DEF Init
<1>4. Cardinality(Replica) \in Nat
  BY FS_CardinalityType
<1>5. Copies(e) = 0 /\ Cardinality(Cut(e)) = 0
  BY <1>2, <1>3, FS_EmptySet DEF Copies
<1> QED
  BY <1>2, <1>3, <1>4, <1>5

\* A worker that takes the oldest event of the channel, ends, or gives up what it
\* had to publish.
LEMMA DupWorkerIdle ==
  ASSUME IInv, HoldInv, NEW w \in Worker, Take(w) \/ Finish(w) \/ NotWritten(w), NEW e \in Event
  PROVE  Idle(e)
<1> USE DEF db, replicas, workers
<1>t. TypeOK /\ WorkerInv /\ CrewInv /\ OnceInv
  BY DEF IInv, HoldInv
<1>1. /\ UNCHANGED <<processed, log, stop, faults>>
      /\ \A v \in Worker \ {w} : ph'[v] = ph[v] /\ job'[v] = job[v]
  <2>1. CASE Take(w) \/ Finish(w)
    BY <1>t, <2>1 DEF Take, Finish, TypeOK
  <2>2. CASE NotWritten(w)
    BY <1>t, <2>2, AttemptEffect DEF NotWritten, WorkerInv
  <2> QED
    BY <2>1, <2>2
<1>2. Copies(e)' = Copies(e) /\ faults' = faults
  BY <1>1 DEF Copies
<1>3. CASE Take(w)
  <2>1. PICK x \in jobs[Home[w]] : /\ jobs' = [jobs EXCEPT ![Home[w]] = @ \ {x}]
                                   /\ job' = [job EXCEPT ![w] = x]
    BY <1>3 DEF Take
  <2>2. /\ ph[w] = "take" /\ ~ stop[Home[w]] /\ ph'[w] = "publish" /\ job'[w] = x
        /\ \A r \in Replica : jobs'[r] \subseteq jobs[r]
        /\ Home[w] \in Replica
    BY <1>t, <1>3, <2>1, HomeAssumption DEF Take, TypeOK
  <2>3. \A r \in Replica : Handing(r, e, "mark") => Handing(r, e, "mark")'
    BY <1>1, <2>2 DEF Handing, Crew
  <2>4. \A r \in Replica : Handing(r, e, "publish")' => Handing(r, e, "publish") \/ (r = Home[w] /\ e = x)
    BY <1>1, <2>2 DEF Handing, Crew
  <2> QED
    BY <1>1, <1>2, <2>1, <2>2, <2>3, <2>4 DEF Idle, May, Cut
<1>4. CASE Finish(w) \/ NotWritten(w)
  <2>1. UNCHANGED jobs /\ ph[w] # "mark" /\ (ph'[w] = "publish" => ph[w] = "publish" /\ job'[w] = job[w])
    <3>1. CASE Finish(w)
      BY <1>t, <3>1 DEF Finish, TypeOK
    <3>2. CASE NotWritten(w)
      BY <1>t, <3>2, AttemptEffect DEF NotWritten, WorkerInv
    <3> QED
      BY <1>4, <3>1, <3>2
  <2>2. \A r \in Replica : /\ Handing(r, e, "mark") => Handing(r, e, "mark")'
                           /\ Handing(r, e, "publish")' => Handing(r, e, "publish")
    BY <1>1, <2>1 DEF Handing, Crew
  <2> QED
    BY <1>1, <1>2, <2>1, <2>2 DEF Idle, May, Cut
<1> QED
  BY <1>3, <1>4

\* Writing a message: the chance of the replica pays for it when the worker goes
\* on to mark it, the fault when the acknowledgement is lost.
LEMMA DupWritten ==
  ASSUME IInv, HoldInv, NEW w \in Worker, Deliver(w) \/ AckLost(w), NEW e \in Event
  PROVE  Idle(e) \/ PaidByFault(e) \/ PaidByChance(e)
<1> USE DEF db, replicas, workers
<1> DEFINE r == Home[w]
<1>t. TypeOK /\ WorkerInv /\ CrewInv /\ OnceInv /\ r \in Replica
  BY HomeAssumption DEF IInv, HoldInv
<1>1. /\ ph[w] = "publish" /\ job[w] \in Event /\ log' = Append(log, job[w])
      /\ UNCHANGED <<processed, jobs, stop>>
      /\ faults' = IF Deliver(w) THEN faults ELSE faults + 1
  BY <1>t DEF Deliver, AckLost, Fault, WorkerInv, TypeOK
<1>2. Copies(e)' = IF e = job[w] THEN Copies(e) + 1 ELSE Copies(e)
  BY <1>t, <1>1, CopiesAppend DEF TypeOK
<1>3. CASE AckLost(w) /\ ~ Deliver(w)
  <2>1. /\ \A v \in Worker \ {w} : ph'[v] = ph[v] /\ job'[v] = job[v]
        /\ ph'[w] = "publish" => job'[w] = job[w]
    BY <1>t, <1>1, <1>3, AttemptEffect DEF AckLost, WorkerInv
  <2>2. \A q \in Replica : /\ Handing(q, e, "mark") => Handing(q, e, "mark")'
                           /\ Handing(q, e, "publish")' => Handing(q, e, "publish")
    BY <1>1, <2>1 DEF Handing, Crew
  <2>3. May(e)' \subseteq May(e) /\ Cut(e)' \subseteq Cut(e)
    BY <1>1, <2>2 DEF May, Cut
  <2> QED
    BY <1>1, <1>2, <1>3, <2>3 DEF Idle, PaidByFault
<1>4. CASE Deliver(w)
  <2>1. /\ \A v \in Worker \ {w} : ph'[v] = ph[v] /\ job'[v] = job[v]
        /\ ph'[w] = "mark" /\ job'[w] = job[w]
    BY <1>t, <1>4 DEF Deliver, TypeOK
  <2>2. \A q \in Replica : /\ Handing(q, e, "mark") => Handing(q, e, "mark")'
                           /\ Handing(q, e, "publish")' => Handing(q, e, "publish")
    BY <1>1, <2>1 DEF Handing, Crew
  <2>3. May(e)' \subseteq May(e) /\ Cut(e)' \subseteq Cut(e)
    BY <1>1, <2>2 DEF May, Cut
  <2>4. CASE e # job[w]
    BY <1>1, <1>2, <1>4, <2>3, <2>4 DEF Idle
  <2>5. CASE e = job[w]
    <3>1. Handing(r, e, "publish") /\ Handing(r, e, "mark")' /\ e \notin jobs[r]
      BY <1>t, <1>1, <2>1, <2>5 DEF Handing, Crew, OnceInv
    <3>2. \A v \in Crew(r) \ {w} : ph[v] \in {"publish", "mark"} => job[v] # e
      BY <1>t, <1>1, <2>5 DEF OnceInv, Crew
    <3>3. ~ Handing(r, e, "mark") /\ ~ Handing(r, e, "publish")'
      BY <1>1, <2>1, <3>2 DEF Handing, Crew
    <3>4. CASE e \in processed \/ ~ stop[r]
      <4>1. r \in May(e) /\ r \notin May(e)'
        BY <1>t, <1>1, <3>1, <3>3, <3>4 DEF May
      <4> QED
        BY <1>1, <1>2, <1>4, <2>3, <2>5, <4>1 DEF PaidByChance
    <3>5. CASE e \notin processed /\ stop[r]
      <4>1. r \in Cut(e) /\ r \notin Cut(e)'
        BY <1>t, <1>1, <3>1, <3>3, <3>5 DEF Cut
      <4> QED
        BY <1>1, <1>2, <1>4, <2>3, <2>5, <4>1 DEF PaidByChance
    <3> QED
      BY <3>4, <3>5
  <2> QED
    BY <2>4, <2>5
<1> QED
  BY <1>3, <1>4

\* A mark leaves no replica a chance it did not have; a failed one gives the
\* event back to the worker's replica.
LEMMA DupMark ==
  ASSUME IInv, HoldInv, NEW w \in Worker, Mark(w) \/ MarkFails(w), NEW e \in Event
  PROVE  Idle(e) \/ Chance(e)
<1> USE DEF db, replicas, workers
<1> DEFINE r == Home[w]
<1>t. TypeOK /\ WorkerInv /\ CrewInv /\ OnceInv /\ r \in Replica
  BY HomeAssumption DEF IInv, HoldInv
<1>1. /\ ph[w] = "mark" /\ UNCHANGED <<log, jobs, stop>> /\ ph'[w] = "take"
      /\ \A v \in Worker \ {w} : ph'[v] = ph[v] /\ job'[v] = job[v]
  BY <1>t DEF Mark, MarkFails, TypeOK
<1>2. Copies(e)' = Copies(e)
  BY <1>1 DEF Copies
<1>3. \A q \in Replica : Handing(q, e, "publish")' => Handing(q, e, "publish")
  BY <1>1 DEF Handing, Crew
<1>4. \A q \in Replica : e \in jobs[q] \/ Handing(q, e, "publish") => ~ Handing(q, e, "mark")
  BY <1>t DEF Handing, Crew, OnceInv
<1>5. \A q \in Replica \ {r} : Handing(q, e, "mark")' <=> Handing(q, e, "mark")
  BY <1>1 DEF Handing, Crew
<1>6. CASE Mark(w)
  <2>1. processed' = processed \cup {job[w]} /\ faults' = faults /\ ~ stop[r]
    BY <1>6 DEF Mark
  <2>2. CASE e = job[w]
    BY <1>1, <1>2, <1>3, <1>4, <2>1, <2>2 DEF Idle, May, Cut
  <2>3. CASE e # job[w]
    <3>1. Handing(r, e, "mark") => Handing(r, e, "mark")'
      BY <1>1, <2>3 DEF Handing, Crew
    <3> QED
      BY <1>1, <1>2, <1>3, <1>5, <2>1, <2>3, <3>1 DEF Idle, May, Cut
  <2> QED
    BY <2>2, <2>3
<1>7. CASE MarkFails(w)
  <2>1. processed' = processed /\ (IF stop[r] THEN faults' = faults ELSE faults' = faults + 1)
    BY <1>7 DEF MarkFails, Fault
  <2>2. Cut(e)' \subseteq Cut(e) /\ May(e)' \subseteq May(e) \cup (IF stop[r] THEN {} ELSE {r})
    BY <1>1, <1>3, <1>5, <2>1 DEF May, Cut
  <2> QED
    BY <1>t, <1>2, <2>1, <2>2 DEF Idle, Chance
<1> QED
  BY <1>6, <1>7

\* A replica gains no chance of an event without a fault: its fetch takes only
\* unprocessed rows, its end and its restart bring nothing back.
LEMMA DupReplica ==
  ASSUME IInv, HoldInv, NEW r \in Replica, ReplicaStep(r), NEW e \in Event
  PROVE  Idle(e) \/ Chance(e)
<1> USE DEF db, replicas, workers
<1>t. TypeOK /\ CrewInv /\ OnceInv
  BY DEF IInv, HoldInv
<1>1. /\ UNCHANGED <<processed, log>>
      /\ \A q \in Replica : q # r => jobs'[q] = jobs[q] /\ stop'[q] = stop[q]
      /\ \A w \in Worker : Home[w] # r => ph'[w] = ph[w] /\ job'[w] = job[w]
  BY <1>t DEF ReplicaStep, Fetch, EmptyFetch, Collect, FetchFails, BatchDone, Shutdown, Exit, Crash,
              Restart, vars, TypeOK, Crew
<1>2. Copies(e)' = Copies(e)
  BY <1>1 DEF Copies
<1>3. \A q \in Replica : q # r => /\ Handing(q, e, "mark")' <=> Handing(q, e, "mark")
                                  /\ Handing(q, e, "publish")' <=> Handing(q, e, "publish")
  BY <1>1 DEF Handing, Crew
<1>4. Handing(r, e, "publish") => ~ Handing(r, e, "mark")
  BY <1>t DEF Handing, Crew, OnceInv
<1>5. phase[r] # "work" => ~ Handing(r, e, "publish") /\ ~ Handing(r, e, "mark")
  BY <1>t DEF CrewInv, Handing, Crew
<1>6. CASE \/ Fetch(r) \/ EmptyFetch(r) \/ FetchFails(r) \/ BatchDone(r)
           \/ Exit(r) \/ Restart(r) \/ Collect(r)
  <2>1. /\ faults' = faults /\ (e \in processed /\ e \in jobs'[r] => e \in jobs[r])
        /\ stop'[r] => stop[r]
        /\ ~ stop'[r] /\ stop[r] => Restart(r)
    BY <1>t, <1>6 DEF Fetch, EmptyFetch, FetchFails, BatchDone, Exit, Restart, Collect, vars, TypeOK,
                      Batch, Fetchable
  <2>2. (~ Handing(r, e, "publish")' /\ ~ Handing(r, e, "mark")) \/ UNCHANGED <<ph, job, stop>>
    <3>1. CASE Collect(r)
      <4>1. phase[r] = "rows" /\ \A w \in Crew(r) : ph'[w] = "take"
        BY <3>1 DEF Collect, Crew
      <4> QED
        BY <1>5, <4>1 DEF Handing, Crew
    <3>2. CASE Restart(r)
      BY <1>5, <3>2 DEF Restart, Handing, Crew
    <3> QED
      BY <1>6, <3>1, <3>2 DEF Fetch, EmptyFetch, FetchFails, BatchDone, Exit, vars
  <2>3. UNCHANGED <<ph, job>> => /\ Handing(r, e, "mark")' <=> Handing(r, e, "mark")
                                 /\ Handing(r, e, "publish")' <=> Handing(r, e, "publish")
    BY DEF Handing, Crew
  <2>4. Idle(e)
    BY <1>1, <1>2, <1>3, <2>1, <2>2, <2>3 DEF Idle, May, Cut
  <2> QED
    BY <2>4
<1>7. CASE Shutdown(r)
  <2>1. UNCHANGED <<jobs, ph, job>> /\ faults' = faults + 1
    BY <1>7 DEF Shutdown, Fault
  <2>2. /\ Handing(r, e, "mark")' <=> Handing(r, e, "mark")
        /\ Handing(r, e, "publish")' <=> Handing(r, e, "publish")
    BY <2>1 DEF Handing, Crew
  <2>3. CASE Handing(r, e, "publish")
    <3>1. May(e)' \subseteq May(e) /\ Cut(e)' \subseteq Cut(e) \cup {r}
      BY <1>1, <1>3, <1>4, <2>1, <2>2, <2>3 DEF May, Cut
    <3> QED
      BY <1>2, <2>1, <3>1 DEF Chance
  <2>4. CASE ~ Handing(r, e, "publish")
    <3>1. May(e)' \subseteq May(e) \cup {r} /\ Cut(e)' \subseteq Cut(e)
      BY <1>1, <1>3, <2>1, <2>2, <2>4 DEF May, Cut
    <3> QED
      BY <1>2, <2>1, <3>1 DEF Chance
  <2> QED
    BY <2>3, <2>4
<1>8. CASE Crash(r)
  <2>1. faults' = faults + 1 /\ UNCHANGED stop /\ jobs'[r] = {} /\ \A w \in Crew(r) : ph'[w] = "done"
    BY <1>t, <1>8 DEF Crash, Fault, Crew, TypeOK
  <2>2. ~ Handing(r, e, "publish")'
    BY <2>1 DEF Handing, Crew
  <2>3. May(e)' \subseteq May(e) \cup {r} /\ Cut(e)' \subseteq Cut(e)
    BY <1>1, <1>3, <2>1, <2>2 DEF May, Cut
  <2> QED
    BY <1>2, <2>1, <2>3 DEF Chance
<1> QED
  BY <1>6, <1>7, <1>8 DEF ReplicaStep

\* Every step leaves the bound as it is or pays for what it publishes.
LEMMA DupStep ==
  ASSUME IsFiniteSet(Replica)
  PROVE  IInv /\ HoldInv /\ DupInv /\ [Next]_vars => DupInv'
<1> SUFFICES ASSUME IInv, HoldInv, DupInv, [Next]_vars PROVE DupInv'
  OBVIOUS
<1> SUFFICES ASSUME NEW e \in Event
             PROVE  Idle(e) \/ Chance(e) \/ PaidByFault(e) \/ PaidByChance(e)
  BY Tally DEF IInv
<1>1. ASSUME NEW d \in Event, Enqueue(d) PROVE Idle(e)
  BY <1>1 DEF Enqueue, replicas, workers, Idle, Copies, May, Cut, Handing, Crew
<1>2. ASSUME NEW w \in Worker, WorkerStep(w)
      PROVE  Idle(e) \/ Chance(e) \/ PaidByFault(e) \/ PaidByChance(e)
  BY <1>2, DupWorkerIdle, DupWritten, DupMark DEF WorkerStep
<1>3. ASSUME NEW r \in Replica, ReplicaStep(r) PROVE Idle(e) \/ Chance(e)
  BY <1>3, DupReplica
<1>4. CASE UNCHANGED vars
  BY <1>4 DEF vars, Idle, Copies, May, Cut, Handing, Crew
<1> QED
  BY <1>1, <1>2, <1>3, <1>4 DEF Next

\* No event is in the log more often than there are replicas and faults, for any
\* number of events, replicas (finitely many), workers and faults.
THEOREM DuplicatesBoundedHolds ==
  ASSUME IsFiniteSet(Replica)
  PROVE  Spec => []DuplicatesBounded
<1>1. IInv /\ HoldInv /\ DupInv /\ [Next]_vars => DupInv'
  BY DupStep
<1>2. IInv /\ DupInv => DuplicatesBounded
  <2> SUFFICES ASSUME IInv, DupInv, NEW e \in Event
               PROVE  Copies(e) <= Cardinality(Replica) + faults
    BY DEF DuplicatesBounded
  <2>1. /\ Copies(e) \in Nat /\ faults \in Nat /\ Cardinality(Replica) \in Nat
    BY CopiesType, BoundsAssumption, FS_CardinalityType DEF IInv, TypeOK
  <2>2. May(e) \in SUBSET Replica /\ Cut(e) \in SUBSET Replica
    BY DEF May, Cut
  <2>3. Cardinality(May(e)) \in Nat /\ Cardinality(Cut(e)) \in Nat
    BY <2>2, Sizes
  <2> QED
    BY <2>1, <2>3 DEF DupInv
<1> QED
  BY <1>1, <1>2, Invariance, HoldInit, HoldStep, DupInit, PTL DEF Spec
=============================================================================
