---------------------------- MODULE KitchenSystem ----------------------------
(***************************************************************************)
(* The kitchen service and the status consumer of kitchen-api over one     *)
(* topic: what the pipelines of Kitchen publish is what the workers of     *)
(* StatusConsumer read, and what changes an order at the API is what the   *)
(* kitchen is told to stop.                                                *)
(*                                                                         *)
(* Kitchen is extended; StatusConsumer is instantiated over the same       *)
(* orders with a process of its own (apiMode).  Every step is a step of    *)
(* one of them, or of both where a pipeline publishes.                     *)
(***************************************************************************)
EXTENDS Kitchen, Sequences

CONSTANTS
  Worker,        \* the worker goroutines of kitchen-api
  Asked,         \* the statuses that cancels and patches ask for
  MaxMessages,   \* bound on the statuses published about one order
  MaxRepeats     \* bound on statuses written twice by a retry of the writer

ASSUME MaxMessagesAssumption == MaxMessages \in Nat
ASSUME MaxRepeatsAssumption == MaxRepeats \in Nat

VARIABLES
  status, topic, position, committed, apiMode, pc, msg, lost,  \* StatusConsumer's
  repeats,   \* statuses written twice so far
  missed     \* history: orders whose orders.created message was taken for nothing

Api == INSTANCE StatusConsumer WITH mode <- apiMode

consumer == <<position, committed, apiMode, pc, msg, lost>>
history == <<repeats, missed>>
systemVars == <<vars, status, topic, consumer, history>>

SystemInit == Init /\ Api!Init /\ repeats = 0 /\ missed = {}

-----------------------------------------------------------------------------
\* Slip: the cancellation is announced before its transaction commits.
Notify_Uncommitted(o) ==
  /\ Announce(o) \/ Revoke(o)
  /\ UNCHANGED <<status, topic, consumer, history>>

\* The relay delivers what the outbox holds: the creation of every order, and
\* its cancellation once the API has made it.
Notify(o) ==
  /\ \/ Announce(o)
     \/ status[o] = "cancelled" /\ Revoke(o)
  /\ UNCHANGED <<status, topic, consumer, history>>

\* A cancel or a patch at the API.
ChangeOrder(o) == Api!Change(o) /\ status'[o] \in Asked /\ UNCHANGED <<vars, history>>

Append1(p) == topic' = [topic EXCEPT ![p[1]] = Append(@, Api!Stage[pipe[p].k])]
Room(p) == Len(topic[p[1]]) < MaxMessages

\* Slip: a status that cannot be published is logged and the pipeline goes on.
PublishStatus_GoesOn(p) ==
  /\ Room(p)
  /\ Send(p) /\ pipe'[p].at = "sent"
  /\ Append1(p) \/ UNCHANGED topic
  /\ UNCHANGED <<status, consumer, history>>

\* A pipeline publishes: its status is in the topic when Publish succeeds, when
\* an ended context let the writer take it, and perhaps when every attempt failed.
PublishStatus(p) ==
  /\ Room(p)
  /\ Send(p) \/ SendLate(p)
  /\ IF pipe'[p].at = "sent" \/ late'[p] # late[p] THEN Append1(p) ELSE UNCHANGED topic
  /\ UNCHANGED <<status, consumer, history>>

\* The acknowledgement of an attempt is lost: the writer tries again.
RepeatStatus(p) ==
  /\ At(p, "send") /\ Room(p)
  /\ repeats < MaxRepeats /\ repeats' = repeats + 1
  /\ Append1(p)
  /\ UNCHANGED <<vars, status, consumer, missed>>

\* Slip: the delay between two stages has no timer.
PipelineRuns_NoTimer(p) ==
  /\ \/ CheckContext(p) \/ EnterSleep(p) \/ Interrupted(p) \/ Delete(p) \/ Release(p)
  /\ UNCHANGED <<status, topic, consumer, history>>

PipelineRuns(p) ==
  /\ \/ CheckContext(p) \/ EnterSleep(p) \/ Wake(p) \/ Interrupted(p)
     \/ Delete(p) \/ Release(p)
  /\ UNCHANGED <<status, topic, consumer, history>>

\* The pollers of the kitchen.
PollersRun ==
  /\ PollerStep \/ CancellerStep \/ \E o \in Order : ReadOrder(o) \/ ReadCancellation(o)
  /\ UNCHANGED <<status, topic, consumer, history>>

InHand == IF poller.pc \in {"loadActive", "loadCancelled", "store"} THEN {poller.order} ELSE {}

PollersMiss ==
  /\ \/ \E o \in Order : DropOrder(o) /\ missed' = missed \cup {o}
     \/ (\E o \in Order : DropCancellation(o)) /\ missed' = missed
  /\ UNCHANGED <<status, topic, consumer, repeats>>

KitchenProcess ==
  /\ \/ (Stop \/ Exit \/ Restart) /\ missed' = missed
     \/ (Timeout \/ Crash) /\ missed' = missed \cup InHand
  /\ UNCHANGED <<status, topic, consumer, repeats>>

\* The workers of kitchen-api
ConsumerRuns ==
  /\ \/ \E w \in Worker : Api!Update(w) \/ Api!UpdateFails(w) \/ Api!StopReading(w)
     \/ \E w \in Worker, o \in Order : Api!ReadMessage(w, o) \/ Api!ReadFails(w, o)
  /\ UNCHANGED <<vars, history>>

\* and their process.
ConsumerProcess ==
  /\ Api!Stop \/ Api!Exit \/ Api!Crash \/ Api!Restart
  /\ UNCHANGED <<vars, history>>

\* What goroutines do by themselves: none of these steps can go on for ever.
Work ==
  \/ PollersRun
  \/ \E p \in Run : PublishStatus(p) \/ PipelineRuns(p)
  \/ ConsumerRuns

SystemNext ==
  \/ Work
  \/ \E o \in Order : Notify(o) \/ ChangeOrder(o)
  \/ \E p \in Run : RepeatStatus(p)
  \/ PollersMiss \/ KitchenProcess \/ ConsumerProcess

SystemSpec == SystemInit /\ [][SystemNext]_systemVars

\* Some goroutine that can run does: Publish returns, timers fire, the brokers
\* serve what is there.  Nobody has to start a process that went down.
SystemFairSpec == SystemSpec /\ WF_systemVars(Work)

-----------------------------------------------------------------------------
(* Properties. *)

\* What the kitchen publishes is what the proofs about the status consumer take
\* for granted: no stage before the one it follows, any number of times.
ImplementsConsumer == Api!Spec

Ended(o) == status[o] \in {"completed", "cancelled", "rejected"}

\* Nothing is left to do for the order at either process.
Quiet(o) ==
  /\ unread[o] = 0 /\ o \notin InHand /\ \A p \in Run : p[1] = o => ~ Alive(p)
  /\ position[o] = Len(topic[o]) /\ ~ Api!InHand(o)

\* A pipeline died with its process, could not publish, or was shut down.
Broken(p) ==
  \/ pipe[p].at = "off" \/ pipe[p].why = "failed"
  \/ pipe[p].why = "context" /\ downs > 0

\* What can keep an order from its end: its message or one of its statuses is
\* taken and not used, or every pipeline it had broke.
Faulted(o) ==
  \/ o \in lost \cup missed
  \/ runs[o] > 0 /\ \A n \in 1 .. runs[o] : Broken(<<o, n>>)

\* From end to end: an order that was announced and has nothing under way any
\* more is completed, cancelled or rejected, or one of those faults happened to
\* it; races of cancellations, patches, repetitions and duplicates are no excuse.
QuietMeansEnded ==
  \A o \in Order : announced[o] > 0 /\ Quiet(o) => Ended(o) \/ Faulted(o)

\* The same under way: while both processes are up, every announced order comes
\* to its end or meets a fault.
EveryOrderEnds ==
  \A o \in Order :
    announced[o] > 0 ~> Ended(o) \/ Faulted(o) \/ mode # "up" \/ apiMode # "up"
=============================================================================
