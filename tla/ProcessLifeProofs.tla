-------------------------- MODULE ProcessLifeProofs --------------------------
(***************************************************************************)
(* Theorems about the life of kitchen-api and the start-up of the kitchen, *)
(* for any number of requests, watchers, starts and syncs: the safety      *)
(* properties of ProcessLife, from one inductive invariant.                *)
(***************************************************************************)
EXTENDS ProcessLife, TLAPS

\* What a place in main() says of the servers, of what is open and of the calls.
Places ==
  /\ open <=> main \notin {"off", "closing"}
  /\ main \in {"draining", "joining", "stopping", "closing"} => http = "stopped"
  /\ main \in {"stopping", "closing"} => grpc = "stopped"
  /\ main \in {"joining", "stopping", "closing"} => overdue \/ \A c \in Request : ~ Open(c)
  /\ main = "closing" => \A c \in Watch \cup SyncCall : ~ Open(c)
  /\ main = "off" => \A c \in Call : ~ Open(c)

\* A sync that has committed or was answered left the menu in the database; a
\* kitchen that was started waits for a call of its own.
SyncRecorded ==
  /\ kitchen # "off" => syncs \in SyncCall
  /\ \A c \in SyncCall : call[c] \in {"worked", "answered"} => menu
  /\ PollingMeansSynced

IInv == TypeOK /\ Places /\ SyncRecorded

-----------------------------------------------------------------------------
(* The steps of main. *)

LEMMA InvInit == Init => IInv
<1> SUFFICES ASSUME Init PROVE IInv
  OBVIOUS
<1>1. TypeOK
  <2>1. 0 \in 0 .. MaxStarts /\ 0 \in 0 .. MaxSyncs
    BY MaxStartsAssumption, MaxSyncsAssumption
  <2>2. open \in BOOLEAN /\ overdue \in BOOLEAN /\ menu \in BOOLEAN
    BY DEF Init
  <2>3. worker \in [Worker -> {"off", "running", "ended"}] /\ call \in [Call -> CallState]
    BY DEF Init, CallState
  <2>4. \A w \in Worker : worker[w] = "off"
    BY DEF Init
  <2>5. main = "off" /\ http = "off" /\ grpc = "off" /\ kitchen = "off" /\ starts = 0 /\ syncs = 0
    BY DEF Init
  <2>6. QED
    BY <2>1, <2>2, <2>3, <2>4, <2>5 DEF TypeOK
<1>2. Places
  BY DEF Init, Places, Open
<1>3. \A c \in SyncCall : call[c] = "idle"
  BY DEF Init, Call
<1>4. SyncRecorded
  BY <1>3 DEF Init, SyncRecorded, PollingMeansSynced
<1>5. QED
  BY <1>1, <1>2, <1>4 DEF IInv

\* No step of main before its end touches a call or the kitchen.
LEMMA MainKeeps ==
  ASSUME IInv,
         \/ Start \/ StartFails \/ Launch \/ ServeHTTP \/ ServeGRPC \/ Signal \/ Shutdown
         \/ Drained \/ GiveUpDraining \/ Join \/ Stopped \/ \E w \in Worker : WorkerEnds(w)
  PROVE  IInv'
<1> USE DEF IInv, Begin, client
<1>1. CASE Start
  <2>1. starts' \in 0 .. MaxStarts
    BY <1>1, MaxStartsAssumption DEF Start, TypeOK
  <2>2. main' = "starting" /\ open' = TRUE /\ overdue' = FALSE
    BY <1>1 DEF Start
  <2>3. TypeOK'
    BY <1>1, <2>1, <2>2 DEF Start, TypeOK
  <2>4. Places'
    BY <2>2 DEF Places
  <2>5. QED
    BY <1>1, <2>3, <2>4 DEF Start, SyncRecorded, PollingMeansSynced
<1>2. CASE StartFails
  BY <1>2, MaxStartsAssumption DEF StartFails, TypeOK, Places, Open, SyncRecorded, PollingMeansSynced
<1>3. CASE Launch
  BY <1>3 DEF Launch, TypeOK, Places, Open, SyncRecorded, PollingMeansSynced
<1>4. CASE ServeHTTP
  BY <1>4 DEF ServeHTTP, TypeOK, Places, Open, SyncRecorded, PollingMeansSynced
<1>5. CASE ServeGRPC
  BY <1>5 DEF ServeGRPC, TypeOK, Places, Open, SyncRecorded, PollingMeansSynced
<1>6. CASE Signal
  BY <1>6 DEF Signal, TypeOK, Places, Open, SyncRecorded, PollingMeansSynced
<1>7. CASE Shutdown
  BY <1>7 DEF Shutdown, TypeOK, Places, Open, SyncRecorded, PollingMeansSynced
<1>8. CASE Drained
  BY <1>8 DEF Drained, TypeOK, Places, Open, SyncRecorded, PollingMeansSynced
<1>9. CASE GiveUpDraining
  BY <1>9 DEF GiveUpDraining, TypeOK, Places, Open, SyncRecorded, PollingMeansSynced
<1>10. CASE Join
  BY <1>10 DEF Join, TypeOK, Places, Open, SyncRecorded, PollingMeansSynced
<1>11. CASE Stopped
  BY <1>11 DEF Stopped, TypeOK, Places, Open, SyncRecorded, PollingMeansSynced
<1>12. ASSUME NEW w \in Worker, WorkerEnds(w) PROVE IInv'
  BY <1>12 DEF WorkerEnds, TypeOK, Places, Open, SyncRecorded, PollingMeansSynced
<1>13. QED
  BY <1>1, <1>2, <1>3, <1>4, <1>5, <1>6, <1>7, <1>8, <1>9, <1>10, <1>11, <1>12

\* The end of the process leaves no call under way and records no sync.
LEMMA GoneKeeps ==
  ASSUME IInv, NEW end \in {"cut", "crashed"}, Gone(end)
  PROVE  IInv'
<1>1. \A c \in Call : ~ Open(c)' /\ (call'[c] \in {"worked", "answered"} => call'[c] = call[c])
  BY DEF Gone, Open, IInv, TypeOK
<1>2. call' \in [Call -> CallState]
  BY DEF Gone, IInv, TypeOK, CallState
<1>3. TypeOK'
  BY <1>2 DEF Gone, IInv, TypeOK, client
<1>4. Places'
  BY <1>1 DEF Gone, Places, Call
<1>5. SyncRecorded'
  BY <1>1 DEF Gone, IInv, SyncRecorded, PollingMeansSynced, client, Call
<1>6. QED
  BY <1>3, <1>4, <1>5 DEF IInv
-----------------------------------------------------------------------------
(* The steps of calls and of the kitchen. *)

\* A call goes on from one state to the next without touching main or the kitchen;
\* it is opened only while its server serves.
LEMMA CallKeeps ==
  ASSUME IInv, NEW c \in Call, Accept(c) \/ CallStep(c) \/ Leave(c)
  PROVE  IInv'
<1> USE DEF IInv, UpdateCall, CallStep, api, client
<1>1. PICK s \in CallState : call' = [call EXCEPT ![c] = s]
  BY DEF Accept, Query, Refuse, Commit, Answer, Leave, CallState
<1>2. UNCHANGED <<main, starts, http, grpc, worker, open, overdue, kitchen, syncs>>
  BY DEF Accept, Query, Refuse, Commit, Answer, Leave
<1>3. menu \in BOOLEAN /\ menu' \in BOOLEAN /\ (menu => menu')
  BY DEF Accept, Query, Refuse, Commit, Answer, Leave, TypeOK
<1>4. TypeOK'
  <2>1. call' \in [Call -> CallState]
    BY <1>1 DEF TypeOK
  <2>2. QED
    BY <1>2, <1>3, <2>1 DEF TypeOK
<1>5. \A d \in Call : Open(d)' =>
        \/ Open(d)
        \/ d \in Request /\ http = "serving"
        \/ d \in Watch /\ grpc = "serving"
  BY <1>1 DEF Accept, Query, Refuse, Commit, Answer, Leave, Open, TypeOK
<1>6. Places'
  BY <1>2, <1>5, KindAssumption DEF Places, TypeOK, Call
<1>7. ASSUME NEW d \in SyncCall, call'[d] \in {"worked", "answered"} PROVE menu'
  <2>1. CASE d = c
    <3>1. Commit(c) \/ (Answer(c) /\ call[c] = "worked")
      BY <1>1, <1>7, <2>1, KindAssumption
      DEF Accept, Query, Refuse, Commit, Answer, Leave, TypeOK, Call
    <3>2. QED
      BY <1>3, <2>1, <3>1 DEF Commit, SyncRecorded
  <2>2. CASE d # c
    BY <1>1, <1>3, <1>7, <2>2 DEF SyncRecorded, TypeOK, Call
  <2>3. QED
    BY <2>1, <2>2
<1>8. SyncRecorded'
  BY <1>2, <1>3, <1>7 DEF SyncRecorded, PollingMeansSynced
<1>9. QED
  BY <1>4, <1>6, <1>8

\* The kitchen polls only after the answer to its own call.
LEMMA KitchenKeeps ==
  ASSUME IInv, KitchenStart \/ KitchenStep
  PROVE  IInv'
<1> USE DEF IInv, Proceed, api
<1>1. CASE KitchenStart
  <2>1. syncs' \in SyncCall
    BY <1>1, MaxSyncsAssumption DEF KitchenStart, TypeOK, SyncCall
  <2>2. TypeOK'
    BY <1>1, <2>1 DEF KitchenStart, TypeOK, SyncCall
  <2>3. Places'
    BY <1>1 DEF KitchenStart, Places, Open
  <2>4. QED
    BY <1>1, <2>1, <2>2, <2>3 DEF KitchenStart, SyncRecorded, PollingMeansSynced
<1>2. CASE SyncMenu
  <2>1. syncs \in SyncCall /\ syncs \in Call
    BY <1>2 DEF SyncMenu, SyncRecorded, Call
  <2>2. call' \in [Call -> CallState]
    BY <1>2 DEF SyncMenu, TypeOK, CallState
  <2>3. TypeOK'
    BY <1>2, <2>2 DEF SyncMenu, TypeOK
  <2>4. \A d \in Call : Open(d)' => Open(d) \/ d = syncs
    BY <1>2 DEF SyncMenu, Open, TypeOK
  <2>5. Places'
    BY <1>2, <2>1, <2>4, KindAssumption DEF SyncMenu, Places, TypeOK, Call
  <2>6. \A d \in SyncCall : call'[d] \in {"worked", "answered"} => call'[d] = call[d]
    BY <1>2 DEF SyncMenu, TypeOK, Call
  <2>7. SyncRecorded'
    BY <1>2, <2>6 DEF SyncMenu, SyncRecorded, PollingMeansSynced
  <2>8. QED
    BY <2>3, <2>5, <2>7
<1>3. CASE Synced
  BY <1>3 DEF Synced, TypeOK, Places, Open, SyncRecorded, PollingMeansSynced
<1>4. CASE HTTPReady \/ GRPCReady \/ NotReady \/ SyncUnavailable \/ SyncFails
  BY <1>4 DEF HTTPReady, GRPCReady, NotReady, SyncUnavailable, SyncFails,
              TypeOK, Places, Open, SyncRecorded, PollingMeansSynced
<1>5. QED
  BY <1>1, <1>2, <1>3, <1>4 DEF KitchenStep

LEMMA InvStep == IInv /\ [Next]_vars => IInv'
<1> SUFFICES ASSUME IInv, [Next]_vars PROVE IInv'
  OBVIOUS
<1>1. CASE Exit
  BY <1>1, GoneKeeps DEF Exit
<1>2. CASE Die
  BY <1>2, GoneKeeps DEF Die
<1>3. ASSUME NEW c \in Call, Accept(c) \/ CallStep(c) \/ Leave(c) PROVE IInv'
  BY <1>3, CallKeeps
<1>4. CASE KitchenStart \/ KitchenStep
  BY <1>4, KitchenKeeps
<1>5. CASE UNCHANGED vars
  BY <1>5 DEF vars, api, client, IInv, TypeOK, Places, Open, SyncRecorded, PollingMeansSynced
<1>6. QED
  BY <1>1, <1>2, <1>3, <1>4, <1>5, MainKeeps DEF Next, MainStep

\* The invariant: the places in main() decide what is open and who still uses it.
THEOREM Invariance == Spec => []IInv
BY InvInit, InvStep, PTL DEF Spec

-----------------------------------------------------------------------------
(* What follows. *)

\* Type correctness, and goroutines that fit their place in main().
THEOREM TypeCorrectness == Spec => []TypeOK
<1>1. IInv => TypeOK
  BY DEF IInv
<1>2. QED
  BY <1>1, Invariance, PTL

LEMMA InvClosed == IInv => ClosedHasNoUser
<1> SUFFICES ASSUME IInv, ~ open PROVE ClosedHasNoUser
  BY DEF ClosedHasNoUser
<1> USE DEF IInv
<1>1. main \in {"off", "closing"}
  BY DEF Places
<1>2. \A w \in Worker : worker[w] # "running"
  BY <1>1 DEF Places, TypeOK
<1>3. QED
  BY <1>1, <1>2 DEF Places, ClosedHasNoUser, Call

\* The pool and the Kafka clients are closed only under HTTP requests that
\* outlived the five seconds of Shutdown.
THEOREM ClosedHasNoUserHolds == Spec => []ClosedHasNoUser
BY Invariance, InvClosed, PTL

\* No kitchen polls for orders before its menu is in the database.
THEOREM PollingMeansSyncedHolds == Spec => []PollingMeansSynced
<1>1. IInv => PollingMeansSynced
  BY DEF IInv, SyncRecorded
<1>2. QED
  BY <1>1, Invariance, PTL

\* A step that leaves a call behind is the return from main.
LEMMA CutStep ==
  IInv /\ [Next]_vars => [\A c \in Call : call[c] # "cut" /\ call'[c] = "cut" => overdue /\ c \in Request]_vars
<1> SUFFICES ASSUME IInv, [Next]_vars, NEW c \in Call, call[c] # "cut", call'[c] = "cut"
             PROVE  overdue /\ c \in Request
  OBVIOUS
<1>1. Exit /\ Open(c)
  <2>1. CASE Exit
    BY <2>1 DEF Exit, Gone, IInv, TypeOK
  <2>2. ~ Die
    BY DEF Die, Gone, IInv, TypeOK
  <2>3. ASSUME NEW d \in Call, Accept(d) \/ CallStep(d) \/ Leave(d) PROVE FALSE
    BY <2>3 DEF CallStep, Accept, Query, Refuse, Commit, Answer, Leave, UpdateCall, IInv, TypeOK
  <2>4. ~ (Start \/ StartFails \/ Launch \/ Shutdown \/ Drained \/ GiveUpDraining \/ Join \/ Stopped)
    BY DEF Start, StartFails, Launch, Shutdown, Drained, GiveUpDraining, Join, Stopped
  <2>5. ~ (Signal \/ ServeHTTP \/ ServeGRPC \/ \E w \in Worker : WorkerEnds(w))
    BY DEF Signal, ServeHTTP, ServeGRPC, WorkerEnds
  <2>6. ~ (KitchenStart \/ KitchenStep)
    BY DEF KitchenStart, KitchenStep, HTTPReady, GRPCReady, NotReady, SyncMenu, SyncUnavailable,
           Synced, SyncFails, Proceed, IInv, TypeOK
  <2>7. ~ UNCHANGED vars
    BY DEF vars
  <2>8. QED
    BY <2>1, <2>2, <2>3, <2>4, <2>5, <2>6, <2>7 DEF Next, MainStep
<1>2. ~ open
  BY <1>1 DEF Exit, IInv, Places
<1>3. QED
  BY <1>1, <1>2, InvClosed DEF ClosedHasNoUser, Call

\* A shutdown cuts only HTTP requests that outlived the five seconds.
THEOREM CutOnlyOverdueHolds == Spec => CutOnlyOverdue
<1>1. Spec => [][\A c \in Call : call[c] # "cut" /\ call'[c] = "cut" => overdue /\ c \in Request]_vars
  BY Invariance, CutStep, PTL DEF Spec
<1>2. QED
  BY <1>1 DEF CutOnlyOverdue
=============================================================================
