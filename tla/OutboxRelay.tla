---------------------------- MODULE OutboxRelay ----------------------------
(***************************************************************************)
(* The outbox relay of kitchen-api (outboxWorkers in cmd/api/main.go over  *)
(* GetOutboxEvents and MarkOutboxEventProcessed of the repository and the  *)
(* Kafka producer): every 5 seconds each replica of the API fetches the    *)
(* oldest unprocessed rows, its workers publish them one by one and mark   *)
(* each as processed.                                                      *)
(*                                                                         *)
(* Events are numbered by created_at, which is the START of the            *)
(* transaction that inserted them: rows of different orders may become     *)
(* visible in another order than their numbers.                            *)
(***************************************************************************)
EXTENDS Integers, Sequences, FiniteSets

CONSTANTS
  NEvents,      \* the bound on outbox rows
  OrderOf,      \* [Event -> order]
  Poison,       \* events Kafka never accepts
  Replica,      \* running copies of kitchen-api
  Worker,       \* worker goroutines, of all replicas
  Home,         \* [Worker -> Replica]
  BatchLimit,   \* GetOutboxEvents' limit: 50
  MaxAttempts,  \* attempts the Kafka writer makes per Publish: 3
  MaxFaults     \* bound on faults that can duplicate a message

Event == 1 .. NEvents

ASSUME NEventsAssumption == NEvents \in Nat
ASSUME PoisonAssumption == Poison \subseteq Event
ASSUME HomeAssumption == Home \in [Worker -> Replica]
ASSUME BoundsAssumption ==
  /\ BatchLimit \in Nat \ {0} /\ MaxAttempts \in Nat \ {0} /\ MaxFaults \in Nat

NoEvent == 0

VARIABLES
  visible,    \* rows committed by the order store
  processed,  \* rows with processed = true
  log,        \* messages in Kafka, in the order they were written
  phase,      \* [Replica -> "tick", "rows", "work", "down"]
  stop,       \* [Replica -> BOOLEAN]: workerCtx is cancelled
  jobs,       \* [Replica -> SUBSET Event]: the batch, then what the jobs channel
              \* still holds; it delivers in the order of created_at
  ph,         \* [Worker -> "take", "publish", "mark", "done"]
  job,        \* [Worker -> Event or NoEvent]
  att,        \* [Worker -> attempts made by the Publish in progress]
  failed,     \* history: events a Publish of which returned an error
  faults      \* history: crashes, shutdowns, lost acks and failed marks so far

vars == <<visible, processed, log, phase, stop, jobs, ph, job, att, failed, faults>>
db == <<visible, processed>>
replicas == <<phase, stop, jobs>>
workers == <<ph, job, att>>

Crew(r) == {w \in Worker : Home[w] = r}
Published(e) == \E i \in 1 .. Len(log) : log[i] = e

Init ==
  /\ visible = {} /\ processed = {} /\ log = <<>>
  /\ phase = [r \in Replica |-> "tick"]
  /\ stop = [r \in Replica |-> FALSE]
  /\ jobs = [r \in Replica |-> {}]
  /\ ph = [w \in Worker |-> "done"]
  /\ job = [w \in Worker |-> NoEvent]
  /\ att = [w \in Worker |-> 0]
  /\ failed = {} /\ faults = 0

Fault == faults < MaxFaults /\ faults' = faults + 1

\* The order store commits the row of e.  An order has two rows, its creation and
\* its cancellation, and the transaction of the second begins after the order was
\* read, so with the first committed: within an order the numbers are in the order
\* of the commits.
Enqueue(e) ==
  /\ e \notin visible
  /\ \A d \in Event : d < e /\ OrderOf[d] = OrderOf[e] => d \in visible
  /\ visible' = visible \cup {e}
  /\ UNCHANGED <<processed, log, replicas, workers, failed, faults>>

-----------------------------------------------------------------------------
(* GetOutboxEvents. *)

\* Rows locked by the fetch statement of replica r, until its rows are read.
Locked(r) == IF phase[r] = "rows" THEN jobs[r] ELSE {}

\* SKIP LOCKED: rows that no other replica is fetching right now.
Fetchable(r) == {e \in visible \ processed : \A q \in Replica \ {r} : e \notin Locked(q)}

\* Slip: ORDER BY created_at DESC.
Batch_NewestFirst(S) == {e \in S : Cardinality({d \in S : d > e}) < BatchLimit}

\* ORDER BY created_at ASC LIMIT BatchLimit.
Batch(S) == {e \in S : Cardinality({d \in S : d < e}) < BatchLimit}

Fetch(r) ==
  /\ phase[r] = "tick" /\ ~stop[r]
  /\ Fetchable(r) # {}
  /\ jobs' = [jobs EXCEPT ![r] = Batch(Fetchable(r))]
  /\ phase' = [phase EXCEPT ![r] = "rows"]
  /\ UNCHANGED <<db, log, stop, workers, failed, faults>>

\* Nothing to fetch: the replica waits for its next tick.
EmptyFetch(r) ==
  /\ phase[r] = "tick" /\ ~stop[r]
  /\ Fetchable(r) = {}
  /\ UNCHANGED vars

\* The rows are read; the statement ran outside a transaction, so its locks end
\* with it.  The jobs channel is filled and the workers start.
Collect(r) ==
  /\ phase[r] = "rows"
  /\ phase' = [phase EXCEPT ![r] = "work"]
  /\ ph' = [w \in Worker |-> IF w \in Crew(r) THEN "take" ELSE ph[w]]
  /\ UNCHANGED <<db, log, stop, jobs, job, att, failed, faults>>

\* GetOutboxEvents returns an error, which is logged: try at the next tick.
FetchFails(r) ==
  /\ phase[r] = "rows"
  /\ phase' = [phase EXCEPT ![r] = "tick"]
  /\ jobs' = [jobs EXCEPT ![r] = {}]
  /\ UNCHANGED <<db, log, stop, workers, failed, faults>>

-----------------------------------------------------------------------------
(* The workers. *)

\* range jobs: the oldest event left in the channel.
Take(w) ==
  LET r == Home[w]
  IN  /\ ph[w] = "take" /\ ~stop[r]
      /\ \E e \in jobs[r] :
           /\ \A d \in jobs[r] : e <= d
           /\ jobs' = [jobs EXCEPT ![r] = @ \ {e}]
           /\ job' = [job EXCEPT ![w] = e]
      /\ ph' = [ph EXCEPT ![w] = "publish"]
      /\ UNCHANGED <<db, log, phase, stop, att, failed, faults>>

\* The channel is closed and empty, or the context is cancelled (whatever the
\* channel still holds is dropped).
Finish(w) ==
  /\ ph[w] = "take" /\ (jobs[Home[w]] = {} \/ stop[Home[w]])
  /\ ph' = [ph EXCEPT ![w] = "done"]
  /\ UNCHANGED <<db, log, replicas, job, att, failed, faults>>

\* The broker has the message and the acknowledgement arrived.
Deliver(w) ==
  /\ ph[w] = "publish" /\ job[w] \notin Poison
  /\ log' = Append(log, job[w])
  /\ ph' = [ph EXCEPT ![w] = "mark"]
  /\ att' = [att EXCEPT ![w] = 0]
  /\ UNCHANGED <<db, replicas, job, failed, faults>>

\* Publish of worker w returns an error; the worker goes to l.
PublishFails(w, l) ==
  /\ ph' = [ph EXCEPT ![w] = l]
  /\ job' = [job EXCEPT ![w] = IF l = "mark" THEN @ ELSE NoEvent]
  /\ att' = [att EXCEPT ![w] = 0]
  /\ failed' = failed \cup {job[w]}

\* Slip: one attempt too many.
MayRetry_OneMore(w) == att[w] < MaxAttempts /\ ~stop[Home[w]]

MayRetry(w) == att[w] + 1 < MaxAttempts /\ ~stop[Home[w]]

Retry(w) == att' = [att EXCEPT ![w] = @ + 1] /\ UNCHANGED <<ph, job, failed>>

\* Slip: an event that could not be published goes on to be marked.
AttemptFails_MarksAnyway(w) == IF MayRetry(w) THEN Retry(w) ELSE PublishFails(w, "mark")

\* Slip: a failed publish ends the worker.
AttemptFails_EndsWorker(w) == IF MayRetry(w) THEN Retry(w) ELSE PublishFails(w, "done")

\* The writer tries again up to MaxAttempts times unless its context is over;
\* then Publish returns an error and the worker continues with the next event.
AttemptFails(w) == IF MayRetry(w) THEN Retry(w) ELSE PublishFails(w, "take")

\* The broker did not get the message.
NotWritten(w) ==
  /\ ph[w] = "publish"
  /\ AttemptFails(w)
  /\ UNCHANGED <<db, log, replicas, faults>>

\* The broker wrote the message and the acknowledgement was lost.
AckLost(w) ==
  /\ ph[w] = "publish" /\ job[w] \notin Poison
  /\ Fault
  /\ log' = Append(log, job[w])
  /\ AttemptFails(w)
  /\ UNCHANGED <<db, replicas>>

\* Slip: the UPDATE marks every row up to the event.
Mark_AllOlder(w) ==
  /\ ph[w] = "mark" /\ ~stop[Home[w]]
  /\ \A q \in Replica : job[w] \notin Locked(q)
  /\ processed' = processed \cup {e \in visible : e <= job[w]}
  /\ ph' = [ph EXCEPT ![w] = "take"]
  /\ job' = [job EXCEPT ![w] = NoEvent]
  /\ UNCHANGED <<visible, log, replicas, att, failed, faults>>

\* Slip: the UPDATE sets processed_at and forgets processed.
Mark_TimestampOnly(w) ==
  /\ ph[w] = "mark" /\ ~stop[Home[w]]
  /\ \A q \in Replica : job[w] \notin Locked(q)
  /\ ph' = [ph EXCEPT ![w] = "take"]
  /\ job' = [job EXCEPT ![w] = NoEvent]
  /\ UNCHANGED <<db, log, replicas, att, failed, faults>>

\* MarkOutboxEventProcessed: the UPDATE waits for a fetch that holds the row.
Mark(w) ==
  /\ ph[w] = "mark" /\ ~stop[Home[w]]
  /\ \A q \in Replica : job[w] \notin Locked(q)
  /\ processed' = processed \cup {job[w]}
  /\ ph' = [ph EXCEPT ![w] = "take"]
  /\ job' = [job EXCEPT ![w] = NoEvent]
  /\ UNCHANGED <<visible, log, replicas, att, failed, faults>>

\* The UPDATE fails and is only logged; with a cancelled context it always
\* does (the shutdown is the fault, then).
MarkFails(w) ==
  /\ ph[w] = "mark"
  /\ IF stop[Home[w]] THEN UNCHANGED faults ELSE Fault
  /\ ph' = [ph EXCEPT ![w] = "take"]
  /\ job' = [job EXCEPT ![w] = NoEvent]
  /\ UNCHANGED <<db, log, replicas, att, failed>>

-----------------------------------------------------------------------------
(* The life of a replica. *)

\* wg.Wait: all workers have ended, back to the ticker.
BatchDone(r) ==
  /\ phase[r] = "work" /\ \A w \in Crew(r) : ph[w] = "done"
  /\ phase' = [phase EXCEPT ![r] = "tick"]
  /\ jobs' = [jobs EXCEPT ![r] = {}]
  /\ UNCHANGED <<db, log, stop, workers, failed, faults>>

\* SIGTERM: cancelWorkers.
Shutdown(r) ==
  /\ phase[r] # "down" /\ ~stop[r] /\ Fault
  /\ stop' = [stop EXCEPT ![r] = TRUE]
  /\ UNCHANGED <<db, log, phase, jobs, workers, failed>>

\* ctx.Done at the ticker, or the fetch returns context.Canceled.
Exit(r) ==
  /\ phase[r] \in {"tick", "rows"} /\ stop[r]
  /\ phase' = [phase EXCEPT ![r] = "down"]
  /\ jobs' = [jobs EXCEPT ![r] = {}]
  /\ UNCHANGED <<db, log, stop, workers, failed, faults>>

Crash(r) ==
  /\ phase[r] # "down" /\ Fault
  /\ phase' = [phase EXCEPT ![r] = "down"]
  /\ jobs' = [jobs EXCEPT ![r] = {}]
  /\ ph' = [w \in Worker |-> IF w \in Crew(r) THEN "done" ELSE ph[w]]
  /\ job' = [w \in Worker |-> IF w \in Crew(r) THEN NoEvent ELSE job[w]]
  /\ UNCHANGED <<db, log, stop, att, failed>>

Restart(r) ==
  /\ phase[r] = "down"
  /\ phase' = [phase EXCEPT ![r] = "tick"]
  /\ stop' = [stop EXCEPT ![r] = FALSE]
  /\ UNCHANGED <<db, log, jobs, workers, failed, faults>>

-----------------------------------------------------------------------------
WorkerStep(w) ==
  Take(w) \/ Finish(w) \/ Deliver(w) \/ NotWritten(w) \/ AckLost(w)
  \/ Mark(w) \/ MarkFails(w)

ReplicaStep(r) ==
  Fetch(r) \/ EmptyFetch(r) \/ Collect(r) \/ FetchFails(r) \/ BatchDone(r)
  \/ Shutdown(r) \/ Exit(r) \/ Crash(r) \/ Restart(r)

Next ==
  \/ \E e \in Event : Enqueue(e)
  \/ \E w \in Worker : WorkerStep(w)
  \/ \E r \in Replica : ReplicaStep(r)

Spec == Init /\ [][Next]_vars

\* The ticker and the goroutines run; a replica that went down is started
\* again; a broker and a database that are tried again and again answer at last.
Fairness ==
  /\ \A r \in Replica : /\ WF_vars(Fetch(r)) /\ SF_vars(Collect(r)) /\ WF_vars(BatchDone(r))
                        /\ WF_vars(Exit(r)) /\ WF_vars(Restart(r))
  /\ \A w \in Worker : /\ WF_vars(Take(w) \/ Finish(w)) /\ WF_vars(Deliver(w) \/ NotWritten(w))
                       /\ SF_vars(Deliver(w)) /\ SF_vars(Mark(w)) /\ WF_vars(MarkFails(w))

FairSpec == Spec /\ Fairness

-----------------------------------------------------------------------------
(* Properties. *)

TypeOK ==
  /\ visible \subseteq Event /\ processed \subseteq visible /\ failed \subseteq visible
  /\ log \in Seq(Event)
  /\ phase \in [Replica -> {"tick", "rows", "work", "down"}]
  /\ stop \in [Replica -> BOOLEAN]
  /\ jobs \in [Replica -> SUBSET visible]
  /\ ph \in [Worker -> {"take", "publish", "mark", "done"}]
  /\ job \in [Worker -> Event \cup {NoEvent}]
  /\ att \in [Worker -> 0 .. MaxAttempts - 1]
  /\ faults \in 0 .. MaxFaults

\* No event is lost: a row is only taken out of the relay's sight once its
\* message is in Kafka, whatever crashes, failed publishes and concurrent
\* fetches come between (Publish, then MarkOutboxEventProcessed).
ProcessedWasPublished == \A e \in processed : Published(e)

\* The relay implements NoticeQueue: with replicas that fetch the same rows, retries,
\* lost acknowledgements, failed marks, shutdowns and crashes, every step writes one
\* committed notice, settles one that was written, or shows nothing outside.
Queue == INSTANCE NoticeQueue WITH Notice <- Event, owed <- visible, settled <- processed

ImplementsQueue == Queue!Spec

Copies(e) == Cardinality({i \in 1 .. Len(log) : log[i] = e})

\* Duplicates are bounded: each replica publishes an event once, plus once for
\* each lost acknowledgement, failed mark, shutdown or crash.  The row locks of
\* the fetch do not keep a second replica from publishing it (they end with the
\* statement), and nothing publishes it for ever.
DuplicatesBounded == \A e \in Event : Copies(e) <= Cardinality(Replica) + faults

\* With one replica and one worker, as shipped, the later event of an order is
\* published before the earlier one only after a publish of the earlier one
\* failed: crashes, shutdowns, lost acks and failed marks alone keep the order.
InversionNeedsFailure ==
  \A d, e \in Event : d < e /\ OrderOf[d] = OrderOf[e] /\ Published(e) =>
    Published(d) \/ d \in failed

\* The same without the exception: what README.md:215 says of the topics.
OrderKeepsSequence ==
  \A d, e \in Event : d < e /\ OrderOf[d] = OrderOf[e] /\ Published(e) => Published(d)

\* Every event that Kafka accepts is delivered and marked in the end, though
\* events it never accepts stay at the head of every batch (fewer of them than
\* a batch holds: with BatchLimit of them the relay would starve).
EventuallyProcessed ==
  \A e \in Event \ Poison : e \in visible ~> e \in processed
=============================================================================
