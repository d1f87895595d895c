------------------------------ MODULE Kitchen ------------------------------
(***************************************************************************)
(* The kitchen service (restaurant-example/main.go): one goroutine polls   *)
(* orders.created, one polls orders.cancelled, and every accepted order is *)
(* cooked by a pipeline goroutine of its own.  They share two sync.Maps,   *)
(* activeOrders and cancelledOrders, one map operation at a time.          *)
(*                                                                         *)
(* ReadMessage commits the offset of what it returns, so a message that    *)
(* was read is never seen again; the relay of kitchen-api may have written *)
(* several copies of it, and the two topics have no common order.          *)
(***************************************************************************)
EXTENDS Integers, FiniteSets

CONSTANTS
  Order,
  MaxCopies,   \* bound on copies of a message
  MaxDowns     \* bound on shutdowns and crashes

ASSUME MaxCopiesAssumption == MaxCopies \in Nat \ {0}
ASSUME MaxDownsAssumption == MaxDowns \in Nat

VARIABLES
  announced,   \* [Order -> copies of orders.created written so far]
  unread,      \* [Order -> copies of them not read yet]
  revoked,     \* [Order -> copies of orders.cancelled written so far]
  revocations, \* [Order -> copies of them not read yet]
  mode,        \* "up", "stopping" (pollCtx is cancelled) or "down"
  downs,       \* shutdowns and crashes so far
  poller,      \* [pc, order] of pollKafkaOrders
  canceller,   \* [pc, order, run] of pollKafkaCancelledOrders
  active,      \* activeOrders: [Order -> the run whose CancelFunc is stored, or 0]
  cancelledOrders,
  runs,        \* [Order -> pipelines started so far]
  pipe,        \* [Run -> Pipeline], the runs of an order numbered from 1
  done,        \* runs whose own context was cancelled by its CancelFunc
  late,        \* history: [Run -> statuses written after its context was over]
  handled,     \* history: <<order, run>> of each cancellation this process has dealt
               \* with: the run whose CancelFunc it called, 0 if it stored the order
  crossed      \* history: runs started while a cancellation of theirs was being stored

topics == <<announced, unread, revoked, revocations>>
process == <<mode, downs>>
maps == <<active, cancelledOrders>>
cooking == <<runs, pipe, done, late>>
dealings == <<handled, crossed>>
vars == <<topics, process, poller, canceller, maps, cooking, dealings>>

Run == Order \X (1 .. MaxCopies)
LastStage == 4   \* accepted, cooking, ready, completed

\* Where a pipeline is, the stage it is at, and why it ended.
Pipeline == [at : {"off", "check", "send", "sent", "sleep", "delete", "release", "over"},
             k : 0 .. LastStage,
             why : {"none", "completed", "failed", "context"}]

NoOrder == "none"
Off == [at |-> "off", k |-> 0, why |-> "none"]
Idle == [pc |-> "read", order |-> NoOrder]
IdleCanceller == [pc |-> "read", order |-> NoOrder, run |-> 0]

Init ==
  /\ announced = [o \in Order |-> 0] /\ unread = [o \in Order |-> 0]
  /\ revoked = [o \in Order |-> 0] /\ revocations = [o \in Order |-> 0]
  /\ mode = "up" /\ downs = 0
  /\ poller = Idle /\ canceller = IdleCanceller
  /\ active = [o \in Order |-> 0] /\ cancelledOrders = {}
  /\ runs = [o \in Order |-> 0]
  /\ pipe = [p \in Run |-> Off]
  /\ done = {}
  /\ late = [p \in Run |-> 0]
  /\ handled = {} /\ crossed = {}

\* The orders whose cancellation was announced.
Revoked == {o \in Order : revoked[o] > 0}

Cooking(p) == pipe[p].at \in {"check", "send", "sent", "sleep"}
Alive(p) == pipe[p].at \notin {"off", "over"}

\* orderCtx is derived from pollCtx: it ends with either.
CtxDone(p) == p \in done \/ mode = "stopping"

\* Both pollers have made their lookup and neither has stored: the run that the
\* order poller is about to start and the cancellation will not meet.
Crossing ==
  {<<o, runs[o] + 1>> : o \in {o \in Order :
     /\ poller.pc = "store" /\ poller.order = o
     /\ canceller.pc = "store" /\ canceller.order = o}}

-----------------------------------------------------------------------------
(* The relay of kitchen-api writes to the topics. *)

Announce(o) ==
  /\ announced[o] < MaxCopies
  /\ announced' = [announced EXCEPT ![o] = @ + 1]
  /\ unread' = [unread EXCEPT ![o] = @ + 1]
  /\ UNCHANGED <<revoked, revocations, process, poller, canceller, maps, cooking, dealings>>

Revoke(o) ==
  /\ revoked[o] < MaxCopies
  /\ revoked' = [revoked EXCEPT ![o] = @ + 1]
  /\ revocations' = [revocations EXCEPT ![o] = @ + 1]
  /\ UNCHANGED <<announced, unread, process, poller, canceller, maps, cooking, dealings>>

-----------------------------------------------------------------------------
(* pollKafkaOrders. *)

\* Slip: FetchMessage without a commit, so the message comes again.
ReadOrder_WithoutCommit(o) ==
  /\ mode = "up" /\ poller.pc = "read" /\ unread[o] > 0
  /\ poller' = [pc |-> "loadActive", order |-> o]
  /\ UNCHANGED <<topics, process, canceller, maps, cooking, dealings>>

ReadOrder(o) ==
  /\ mode = "up" /\ poller.pc = "read" /\ unread[o] > 0
  /\ unread' = [unread EXCEPT ![o] = @ - 1]
  /\ poller' = [pc |-> "loadActive", order |-> o]
  /\ UNCHANGED <<announced, revoked, revocations, process, canceller, maps, cooking, dealings>>

\* The message cannot be decoded, or ReadMessage took it and returned an error
\* (the commit failed, or pollCtx ended during it): the loop drops it.
DropOrder(o) ==
  /\ mode # "down" /\ poller.pc = "read" /\ unread[o] > 0
  /\ unread' = [unread EXCEPT ![o] = @ - 1]
  /\ UNCHANGED <<announced, revoked, revocations, process, poller, canceller, maps,
                 cooking, dealings>>

\* Slip: duplicates are not looked for.
LoadActive_Skipped ==
  /\ poller.pc = "loadActive"
  /\ poller' = [poller EXCEPT !.pc = "loadCancelled"]
  /\ UNCHANGED <<topics, process, canceller, maps, cooking, dealings>>

\* An order in progress is a duplicate.
LoadActive ==
  /\ poller.pc = "loadActive"
  /\ poller' = IF active[poller.order] # 0 THEN Idle ELSE [poller EXCEPT !.pc = "loadCancelled"]
  /\ UNCHANGED <<topics, process, canceller, maps, cooking, dealings>>

\* Slip: an order cancelled before is cooked.
LoadCancelled_Skipped ==
  /\ poller.pc = "loadCancelled"
  /\ poller' = [poller EXCEPT !.pc = "store"]
  /\ UNCHANGED <<topics, process, canceller, maps, cooking, dealings>>

LoadCancelled ==
  /\ poller.pc = "loadCancelled"
  /\ poller' = IF poller.order \in cancelledOrders THEN Idle ELSE [poller EXCEPT !.pc = "store"]
  /\ UNCHANGED <<topics, process, canceller, maps, cooking, dealings>>

\* context.WithCancel, activeOrders.Store, go processOrder.
StoreActive ==
  LET o == poller.order
      n == runs[o] + 1
  IN  /\ poller.pc = "store"
      /\ runs' = [runs EXCEPT ![o] = n]
      /\ active' = [active EXCEPT ![o] = n]
      /\ pipe' = [pipe EXCEPT ![<<o, n>>] = [at |-> "check", k |-> 1, why |-> "none"]]
      /\ poller' = Idle
      /\ crossed' = crossed \cup Crossing
      /\ UNCHANGED <<topics, process, canceller, cancelledOrders, done, late, handled>>

\* Slip: the read error of a cancelled context is logged and the loop goes on.
StopPoller_KeepsReading ==
  /\ mode = "stopping" /\ poller.pc = "read"
  /\ UNCHANGED vars

StopPoller ==
  /\ mode = "stopping" /\ poller.pc = "read"
  /\ poller' = [poller EXCEPT !.pc = "stopped"]
  /\ UNCHANGED <<topics, process, canceller, maps, cooking, dealings>>

-----------------------------------------------------------------------------
(* pollKafkaCancelledOrders. *)

ReadCancellation(o) ==
  /\ mode = "up" /\ canceller.pc = "read" /\ revocations[o] > 0
  /\ revocations' = [revocations EXCEPT ![o] = @ - 1]
  /\ canceller' = [pc |-> "load", order |-> o, run |-> 0]
  /\ UNCHANGED <<announced, unread, revoked, process, poller, maps, cooking, dealings>>

DropCancellation(o) ==
  /\ mode # "down" /\ canceller.pc = "read" /\ revocations[o] > 0
  /\ revocations' = [revocations EXCEPT ![o] = @ - 1]
  /\ UNCHANGED <<announced, unread, revoked, process, poller, canceller, maps, cooking,
                 dealings>>

LoadCancelFunc ==
  /\ canceller.pc = "load"
  /\ LET n == active[canceller.order]
     IN  canceller' = [canceller EXCEPT !.run = n, !.pc = IF n # 0 THEN "cancel" ELSE "store"]
  /\ UNCHANGED <<topics, process, poller, maps, cooking, dealings>>

CallCancelFunc ==
  /\ canceller.pc = "cancel"
  /\ done' = done \cup {<<canceller.order, canceller.run>>}
  /\ handled' = handled \cup {<<canceller.order, canceller.run>>}
  /\ canceller' = IdleCanceller
  /\ UNCHANGED <<topics, process, poller, maps, runs, pipe, late, crossed>>

StoreCancelled ==
  /\ canceller.pc = "store"
  /\ cancelledOrders' = cancelledOrders \cup {canceller.order}
  /\ handled' = handled \cup {<<canceller.order, 0>>}
  /\ crossed' = crossed \cup Crossing
  /\ canceller' = IdleCanceller
  /\ UNCHANGED <<topics, process, poller, active, cooking>>

StopCanceller ==
  /\ mode = "stopping" /\ canceller.pc = "read"
  /\ canceller' = [canceller EXCEPT !.pc = "stopped"]
  /\ UNCHANGED <<topics, process, poller, maps, cooking, dealings>>

-----------------------------------------------------------------------------
(* processOrder, the pipeline of one order. *)

At(p, where) == pipe[p].at = where
Goto(p, where) == pipe' = [pipe EXCEPT ![p].at = where]
End(p, reason) == pipe' = [pipe EXCEPT ![p].at = "delete", ![p].why = reason]

outside == <<topics, process, poller, canceller, dealings>>
rest == <<outside, cancelledOrders, runs>>

CheckContext(p) ==
  /\ At(p, "check")
  /\ IF CtxDone(p) THEN End(p, "context") ELSE Goto(p, "send")
  /\ UNCHANGED <<rest, active, done, late>>

\* Publish under a live context: Kafka acknowledges, or all attempts fail.
Send(p) ==
  /\ At(p, "send") /\ ~ CtxDone(p)
  /\ \/ Goto(p, "sent")
     \/ End(p, "failed")
  /\ UNCHANGED <<rest, active, done, late>>

\* Publish under an ended context: the writer may have taken the message before
\* it gives up, and may even see the acknowledgement first.
SendLate(p) ==
  /\ At(p, "send") /\ CtxDone(p)
  /\ \/ End(p, "context") /\ late' = late
     \/ (Goto(p, "sent") \/ End(p, "context")) /\ late' = [late EXCEPT ![p] = @ + 1]
  /\ UNCHANGED <<rest, active, done>>

\* Slip: a plain time.Sleep.
EnterSleep_Uninterruptible(p) ==
  /\ At(p, "sent")
  /\ IF pipe[p].k = LastStage THEN End(p, "completed") ELSE Goto(p, "sleep")
  /\ UNCHANGED <<rest, active, done, late>>

\* Return after "completed"; sleepContext under an ended context is false at once.
EnterSleep(p) ==
  /\ At(p, "sent")
  /\ CASE pipe[p].k = LastStage -> End(p, "completed")
       [] pipe[p].k < LastStage /\ CtxDone(p) -> End(p, "context")
       [] OTHER -> Goto(p, "sleep")
  /\ UNCHANGED <<rest, active, done, late>>

\* The timer fires; the select may prefer it to a context that is over, too.
Wake(p) ==
  /\ At(p, "sleep")
  /\ pipe' = [pipe EXCEPT ![p].at = "send", ![p].k = @ + 1]
  /\ UNCHANGED <<rest, active, done, late>>

Interrupted(p) ==
  /\ At(p, "sleep") /\ CtxDone(p)
  /\ End(p, "context")
  /\ UNCHANGED <<rest, active, done, late>>

\* Slip: the entry of an order that was cooked to the end stays.
Delete_OnlyUnfinished(p) ==
  /\ At(p, "delete")
  /\ active' = IF pipe[p].why = "completed" THEN active ELSE [active EXCEPT ![p[1]] = 0]
  /\ Goto(p, "release")
  /\ UNCHANGED <<rest, done, late>>

\* The deferred cleanup: the CancelFunc found in activeOrders is taken out of it,
Delete(p) ==
  /\ At(p, "delete")
  /\ active' = [active EXCEPT ![p[1]] = 0]
  /\ Goto(p, "release")
  /\ UNCHANGED <<rest, done, late>>

\* called, and the wait group is told.
Release(p) ==
  /\ At(p, "release")
  /\ done' = done \cup {p}
  /\ Goto(p, "over")
  /\ UNCHANGED <<rest, active, late>>

-----------------------------------------------------------------------------
(* The process. *)

GoDown ==
  /\ mode' = "down"
  /\ poller' = Idle /\ canceller' = IdleCanceller
  /\ active' = [o \in Order |-> 0] /\ cancelledOrders' = {}
  /\ pipe' = [p \in Run |-> IF Alive(p) THEN Off ELSE pipe[p]]
  /\ handled' = {} /\ crossed' = {}
  /\ UNCHANGED <<topics, runs, done, late>>

Fault == downs < MaxDowns /\ downs' = downs + 1

\* SIGTERM: cancelPoll.
Stop ==
  /\ mode = "up" /\ Fault
  /\ mode' = "stopping"
  /\ UNCHANGED <<topics, poller, canceller, maps, cooking, dealings>>

\* wg.Wait returns.
Exit ==
  /\ mode = "stopping"
  /\ poller.pc = "stopped" /\ canceller.pc = "stopped"
  /\ \A p \in Run : ~ Alive(p)
  /\ GoDown /\ UNCHANGED downs

\* cookCtx is over before: 30 seconds.
Timeout == mode = "stopping" /\ GoDown /\ UNCHANGED downs

Crash == mode # "down" /\ Fault /\ GoDown

Restart ==
  /\ mode = "down"
  /\ mode' = "up"
  /\ UNCHANGED <<topics, downs, poller, canceller, maps, cooking, dealings>>

PollerStep == LoadActive \/ LoadCancelled \/ StoreActive \/ StopPoller
CancellerStep == LoadCancelFunc \/ CallCancelFunc \/ StoreCancelled \/ StopCanceller
PipelineStep(p) ==
  \/ CheckContext(p) \/ Send(p) \/ SendLate(p) \/ EnterSleep(p)
  \/ Wake(p) \/ Interrupted(p) \/ Delete(p) \/ Release(p)

Next ==
  \/ \E o \in Order : Announce(o) \/ Revoke(o)
  \/ \E o \in Order : ReadOrder(o) \/ DropOrder(o)
  \/ \E o \in Order : ReadCancellation(o) \/ DropCancellation(o)
  \/ PollerStep
  \/ CancellerStep
  \/ \E p \in Run : PipelineStep(p)
  \/ Stop \/ Exit \/ Timeout \/ Crash \/ Restart

Spec == Init /\ [][Next]_vars

\* Goroutines that can run do run, Publish returns, timers fire, and main leaves
\* wg.Wait.  Nothing makes the 30 seconds of cookCtx run out.
Fairness ==
  /\ WF_vars(PollerStep) /\ WF_vars(CancellerStep)
  /\ \A p \in Run : WF_vars(PipelineStep(p))
  /\ WF_vars(Exit)

FairSpec == Spec /\ Fairness

-----------------------------------------------------------------------------
\* Every variable has its type; the counters stay in their bounds: a pipeline is
\* started at most once for each copy of the message.
TypeOK ==
  /\ announced \in [Order -> 0 .. MaxCopies]
  /\ unread \in [Order -> 0 .. MaxCopies]
  /\ revoked \in [Order -> 0 .. MaxCopies]
  /\ revocations \in [Order -> 0 .. MaxCopies]
  /\ mode \in {"up", "stopping", "down"} /\ downs \in 0 .. MaxDowns
  /\ poller \in [pc : {"read", "loadActive", "loadCancelled", "store", "stopped"},
                 order : Order \cup {NoOrder}]
  /\ canceller \in [pc : {"read", "load", "cancel", "store", "stopped"},
                    order : Order \cup {NoOrder}, run : 0 .. MaxCopies]
  /\ active \in [Order -> 0 .. MaxCopies] /\ cancelledOrders \subseteq Order
  /\ runs \in [Order -> 0 .. MaxCopies]
  /\ pipe \in [Run -> Pipeline]
  /\ done \subseteq Run
  /\ late \in [Run -> Nat]
  /\ handled \subseteq Revoked \X (0 .. MaxCopies) /\ crossed \subseteq Run

\* activeOrders holds exactly the running pipelines: an order that is being cooked
\* can be cancelled, one that is over blocks no later message, and no order is
\* cooked twice at a time however often its message is delivered
\* (pollKafkaOrders against the deferred cleanup of processOrder).
ActiveIsCooking ==
  \A p \in Run : (Cooking(p) \/ pipe[p].at = "delete") <=> active[p[1]] = p[2]

\* What "immediately stops sending statuses" amounts to: after the context of a
\* pipeline is over, by a cancellation or a shutdown, at most one more status of
\* that run reaches orders.status.updates.
LateStatusAtMostOne == \A p \in Run : late[p] <= 1

\* Whatever cancellation of its order the process has dealt with, a pipeline still
\* cooks only if that one was stored while this very run was being started, its
\* lookups crossing the order poller's, or if it called the CancelFunc of an
\* earlier run.  A cancellation kept before the lookup stops the order, one that
\* comes after the start ends the run (pollKafkaOrders, pollKafkaCancelledOrders).
CancelStopsUnlessCrossed ==
  \A p \in Run : Cooking(p) /\ ~ CtxDone(p) =>
    \A c \in handled : c[1] = p[1] => IF c[2] = 0 THEN p \in crossed ELSE c[2] < p[2]

\* A shutdown never needs its 30 seconds: pollers and pipelines all return and
\* wg.Wait with them.
StopsCleanly == (mode = "stopping") ~> (mode # "stopping")

\* No entry leaks: whatever ends a pipeline, its order leaves activeOrders, or
\* every later message of the order would be skipped as "already in progress".
EntryReleased == \A o \in Order : []<>(active[o] = 0)

\* Claimed by docs/cjm-restaurant.md: once the cancellation of an order has been
\* dealt with, its pipeline has been told to stop.
CancelTakesEffect ==
  \A c \in handled, p \in Run : c[1] = p[1] /\ Cooking(p) => CtxDone(p)
=============================================================================
