----------------------------- MODULE ProcessLife -----------------------------
(***************************************************************************)
(* The life of a kitchen-api process (main of cmd/api/main.go around the   *)
(* servers of internal/web and internal/grpc) and the start-up of the      *)
(* kitchen service that calls it (main of restaurant-example/main.go).     *)
(*                                                                         *)
(* main opens the database pool and the Kafka clients, starts two servers  *)
(* and two workers, and undoes all of it after a signal: HTTP within five  *)
(* seconds, then the workers, then gRPC with no deadline, then the         *)
(* deferred closes.  Calls of three kinds are under way meanwhile.         *)
(***************************************************************************)
EXTENDS Integers

CONSTANTS
  Request,    \* HTTP requests
  Watch,      \* health Watch streams, which end when their client leaves
  MaxStarts,  \* bound on starts of kitchen-api
  MaxSyncs    \* bound on starts of the kitchen, each of which syncs its menu once

SyncCall == 1 .. MaxSyncs
Call == Request \cup Watch \cup SyncCall
Worker == {"outboxWorkers", "ordersWorkers"}

ASSUME MaxStartsAssumption == MaxStarts \in Nat
ASSUME MaxSyncsAssumption == MaxSyncs \in Nat
ASSUME KindAssumption ==
  Request \cap Watch = {} /\ (Request \cup Watch) \cap SyncCall = {}

VARIABLES
  main,     \* the place in main(): "off" when there is no process
  starts,
  http,     \* the goroutine of ListenAndServe
  grpc,     \* the goroutine of Serve
  worker,   \* [Worker -> "off", "running" or "ended"]
  open,     \* database pool, producer and consumer are open
  overdue,  \* server.Shutdown gave up on the requests still running
  call,     \* [Call -> CallState]
  kitchen,  \* the place in the kitchen's main()
  syncs,    \* starts of the kitchen; the number of its SyncMenu call
  menu      \* the kitchen's menu is in the database

api == <<main, starts, http, grpc, worker, open, overdue>>
client == <<kitchen, syncs>>
vars == <<api, call, client, menu>>

\* "working" holds a connection of the pool, "worked" has committed; "cut" and
\* "crashed" are calls that the end of the process left without an answer.
CallState == {"idle", "accepted", "working", "worked", "answered", "refused", "cut", "crashed"}
Open(c) == call[c] \in {"accepted", "working", "worked"}

Init ==
  /\ main = "off" /\ starts = 0
  /\ http = "off" /\ grpc = "off"
  /\ worker = [w \in Worker |-> "off"]
  /\ open = FALSE /\ overdue = FALSE
  /\ call = [c \in Call |-> "idle"]
  /\ kitchen = "off" /\ syncs = 0
  /\ menu = FALSE

-----------------------------------------------------------------------------
(* main of kitchen-api. *)

Begin == main = "off" /\ starts < MaxStarts /\ starts' = starts + 1

\* GetDB reaches the database; the Kafka clients connect later.
Start ==
  /\ Begin
  /\ main' = "starting" /\ open' = TRUE /\ overdue' = FALSE
  /\ UNCHANGED <<http, grpc, worker, call, client, menu>>

\* GetDB fails: log.Fatalf.
StartFails ==
  /\ Begin
  /\ UNCHANGED <<main, http, grpc, worker, open, overdue, call, client, menu>>

\* net.Listen, and every goroutine is launched; main waits for a signal.
Launch ==
  /\ main = "starting" /\ main' = "serving"
  /\ http' = "launched" /\ grpc' = "launched"
  /\ worker' = [w \in Worker |-> "running"]
  /\ UNCHANGED <<starts, open, overdue, call, client, menu>>

ServeHTTP ==
  /\ http = "launched" /\ http' = "serving"
  /\ UNCHANGED <<main, starts, grpc, worker, open, overdue, call, client, menu>>

ServeGRPC ==
  /\ grpc = "launched" /\ grpc' = "serving"
  /\ UNCHANGED <<main, starts, http, worker, open, overdue, call, client, menu>>

\* The first SIGINT or SIGTERM: cancelWorkers.  Later ones are not read.
Signal ==
  /\ main = "serving" /\ main' = "shutting"
  /\ UNCHANGED <<starts, http, grpc, worker, open, overdue, call, client, menu>>

\* server.Shutdown closes the listener (or keeps ListenAndServe from opening it)
Shutdown ==
  /\ main = "shutting" /\ main' = "draining" /\ http' = "stopped"
  /\ UNCHANGED <<starts, grpc, worker, open, overdue, call, client, menu>>

\* Slip: Shutdown is not waited for.
Drained_AtOnce ==
  /\ main = "draining" /\ main' = "joining"
  /\ UNCHANGED <<starts, http, grpc, worker, open, overdue, call, client, menu>>

\* and waits for the requests,
Drained ==
  /\ main = "draining" /\ \A c \in Request : ~ Open(c)
  /\ main' = "joining"
  /\ UNCHANGED <<starts, http, grpc, worker, open, overdue, call, client, menu>>

\* for five seconds; what still runs is left running.
GiveUpDraining ==
  /\ main = "draining" /\ main' = "joining" /\ overdue' = TRUE
  /\ UNCHANGED <<starts, http, grpc, worker, open, call, client, menu>>

\* Slip: a worker is given the background context.
WorkerEnds_Never(w) ==
  /\ worker[w] = "running" /\ main \notin {"starting", "serving"}
  /\ UNCHANGED vars

\* A worker notices that workerCtx is cancelled.
WorkerEnds(w) ==
  /\ worker[w] = "running" /\ main \notin {"starting", "serving"}
  /\ worker' = [worker EXCEPT ![w] = "ended"]
  /\ UNCHANGED <<main, starts, http, grpc, open, overdue, call, client, menu>>

\* Slip: workersWg counts one worker.
Join_One ==
  /\ main = "joining" /\ \E w \in Worker : worker[w] = "ended"
  /\ main' = "stopping" /\ grpc' = "stopped"
  /\ UNCHANGED <<starts, http, worker, open, overdue, call, client, menu>>

\* workersWg.Wait returns; GracefulStop accepts no more calls
Join ==
  /\ main = "joining" /\ \A w \in Worker : worker[w] = "ended"
  /\ main' = "stopping" /\ grpc' = "stopped"
  /\ UNCHANGED <<starts, http, worker, open, overdue, call, client, menu>>

\* Slip: Stop instead of GracefulStop.
Stopped_AtOnce ==
  /\ main = "stopping"
  /\ main' = "closing" /\ open' = FALSE
  /\ UNCHANGED <<starts, http, grpc, worker, overdue, call, client, menu>>

\* and waits for the last call and the last stream.  Then the deferred closes:
\* from here the pool hands out no connection
Stopped ==
  /\ main = "stopping" /\ \A c \in Watch \cup SyncCall : ~ Open(c)
  /\ main' = "closing" /\ open' = FALSE
  /\ UNCHANGED <<starts, http, grpc, worker, overdue, call, client, menu>>

\* The process is gone: its calls get no answer.
Gone(end) ==
  /\ main' = "off" /\ open' = FALSE
  /\ http' = "off" /\ grpc' = "off"
  /\ worker' = [w \in Worker |-> "off"]
  /\ call' = [c \in Call |-> IF Open(c) THEN end ELSE call[c]]
  /\ UNCHANGED <<starts, overdue, client, menu>>

\* and its Close waits for those in use.
Exit ==
  /\ main = "closing" /\ \A c \in Call : call[c] # "working"
  /\ Gone("cut")

\* A crash, SIGKILL, a signal before Notify, or log.Fatalf: in main after a
\* failed Listen, or in the goroutine of a server.
Die == main # "off" /\ Gone("crashed")

-----------------------------------------------------------------------------
(* Calls. *)

UpdateCall(c, s) == call' = [call EXCEPT ![c] = s] /\ UNCHANGED <<api, client>>

\* A customer's or partner's request, or a stream of a health watcher.
Accept(c) ==
  /\ call[c] = "idle"
  /\ \/ c \in Request /\ http = "serving"
     \/ c \in Watch /\ grpc = "serving"
  /\ UpdateCall(c, "accepted") /\ UNCHANGED menu

Query(c) ==
  /\ call[c] = "accepted" /\ c \notin Watch /\ open
  /\ UpdateCall(c, "working") /\ UNCHANGED menu

\* An error answer: invalid input, no valid API key, a closed pool, a failing
\* database, a client that went away.
Refuse(c) ==
  /\ call[c] \in {"accepted", "working"} /\ c \notin Watch
  /\ UpdateCall(c, "refused") /\ UNCHANGED menu

Commit(c) ==
  /\ call[c] = "working"
  /\ menu' = (menu \/ c \in SyncCall)
  /\ UpdateCall(c, "worked")

Answer(c) ==
  /\ call[c] = "worked"
  /\ UpdateCall(c, "answered") /\ UNCHANGED menu

\* Watch ends when its client leaves.
Leave(c) ==
  /\ c \in Watch /\ call[c] = "accepted"
  /\ UpdateCall(c, "answered") /\ UNCHANGED menu

-----------------------------------------------------------------------------
(* Start-up of the kitchen. *)

Proceed(from, to) ==
  /\ kitchen = from /\ kitchen' = to
  /\ UNCHANGED <<api, syncs, menu>>

\* The kitchen is started, or started again wherever it was.
KitchenStart ==
  /\ syncs < MaxSyncs
  /\ kitchen' = "waitHTTP" /\ syncs' = syncs + 1
  /\ UNCHANGED <<api, call, menu>>

\* waitKitchenAPI and waitKitchenAPIGRPC ask every 500 ms ...
HTTPReady == http = "serving" /\ Proceed("waitHTTP", "waitGRPC") /\ UNCHANGED call
GRPCReady == grpc = "serving" /\ Proceed("waitGRPC", "sync") /\ UNCHANGED call

\* ... for 30 seconds: log.Fatalf.
NotReady == (Proceed("waitHTTP", "fatal") \/ Proceed("waitGRPC", "fatal")) /\ UNCHANGED call

SyncMenu ==
  /\ grpc = "serving" /\ Proceed("sync", "syncing")
  /\ call' = [call EXCEPT ![syncs] = "accepted"]

SyncUnavailable == grpc # "serving" /\ Proceed("sync", "fatal") /\ UNCHANGED call

\* Slip: the error of the call is logged only.
Synced_Anyway ==
  /\ Proceed("syncing", "polling") /\ UNCHANGED call
  /\ call[syncs] \in {"answered", "refused", "cut", "crashed"}

Synced ==
  /\ Proceed("syncing", "polling") /\ UNCHANGED call
  /\ call[syncs] = "answered"

\* An error answer, none at all, or five seconds are over: log.Fatalf, though
\* the menu may be in the database.
SyncFails == Proceed("syncing", "fatal") /\ UNCHANGED call

-----------------------------------------------------------------------------
MainStep ==
  Launch \/ Shutdown \/ Drained \/ GiveUpDraining \/ Join \/ Stopped \/ Exit
CallStep(c) == Query(c) \/ Refuse(c) \/ Commit(c) \/ Answer(c)
KitchenStep ==
  HTTPReady \/ GRPCReady \/ NotReady \/ SyncMenu \/ SyncUnavailable \/ Synced \/ SyncFails

Next ==
  \/ Start \/ StartFails \/ MainStep \/ Signal \/ Die
  \/ ServeHTTP \/ ServeGRPC
  \/ \E w \in Worker : WorkerEnds(w)
  \/ \E c \in Call : Accept(c) \/ CallStep(c) \/ Leave(c)
  \/ KitchenStart \/ KitchenStep

Spec == Init /\ [][Next]_vars

\* Goroutines run, handlers return, the deadlines pass.  Nothing makes a watcher
\* leave, a signal arrive or anybody start a process.
FairSpec ==
  /\ Spec
  /\ WF_vars(MainStep) /\ WF_vars(KitchenStep)
  /\ \A w \in Worker : WF_vars(WorkerEnds(w))
  /\ \A c \in Call : WF_vars(CallStep(c))

-----------------------------------------------------------------------------
(* Properties. *)

\* Every variable has its type, and what a process runs fits its place in main():
\* no goroutine before Launch, no worker left once gRPC is told to stop.
TypeOK ==
  /\ main \in {"off", "starting", "serving", "shutting", "draining", "joining",
               "stopping", "closing"}
  /\ starts \in 0 .. MaxStarts
  /\ http \in {"off", "launched", "serving", "stopped"}
  /\ grpc \in {"off", "launched", "serving", "stopped"}
  /\ worker \in [Worker -> {"off", "running", "ended"}]
  /\ open \in BOOLEAN /\ overdue \in BOOLEAN /\ menu \in BOOLEAN
  /\ call \in [Call -> CallState]
  /\ kitchen \in {"off", "waitHTTP", "waitGRPC", "sync", "syncing", "polling", "fatal"}
  /\ syncs \in 0 .. MaxSyncs
  /\ main \in {"off", "starting"} <=> http = "off"
  /\ http = "off" <=> grpc = "off"
  /\ http = "off" => \A w \in Worker : worker[w] = "off"
  /\ grpc = "stopped" => \A w \in Worker : worker[w] = "ended"

\* What is closed has no user left: when the deferred closes run, no worker and
\* no gRPC call is under way, and an HTTP request only if Shutdown gave up on it;
\* no connection survives the process that lent it.
ClosedHasNoUser ==
  ~ open =>
    /\ \A w \in Worker : worker[w] # "running"
    /\ \A c \in Watch \cup SyncCall : ~ Open(c)
    /\ overdue \/ \A c \in Request : ~ Open(c)
    /\ main = "off" => \A c \in Call : ~ Open(c)

\* A shutdown answers what was accepted: a call that a process leaves behind by
\* returning from main is an HTTP request that outlived the five seconds.
CutOnlyOverdue ==
  [][\A c \in Call : call[c] # "cut" /\ call'[c] = "cut" => overdue /\ c \in Request]_vars

\* The kitchen takes orders only after its menu is in the database, whatever
\* timeouts, crashes and repeated starts came before.
PollingMeansSynced == kitchen = "polling" => menu

\* After a signal the process ends, unless somebody watches its health:
\* GracefulStop waits for that stream for ever.
StopsUnlessWatched ==
  main = "shutting" ~> (main = "off" \/ \E c \in Watch : call[c] = "accepted")
=============================================================================
