--------------------------- MODULE KitchenProofs ---------------------------
(***************************************************************************)
(* What the module Kitchen promises for any number of orders, copies of a  *)
(* message, shutdowns and crashes: type correctness, activeOrders as the   *)
(* exact set of running pipelines, and how many statuses come late.        *)
(*                                                                         *)
(* The invariant carries what the order poller has learnt between its two  *)
(* lookups and its store: that its order is not active, which stays true   *)
(* because no one else puts anything into activeOrders; and it counts the  *)
(* copies of a message, each of which starts at most one pipeline.         *)
(***************************************************************************)
EXTENDS Kitchen, TLAPS

Handling == {"loadActive", "loadCancelled", "store"}
Holds(o) == IF poller.pc \in Handling /\ poller.order = o THEN 1 ELSE 0

\* A goroutine that is handling a message has one, and the right kind of it.
PollersInv ==
  /\ poller.pc \in Handling => poller.order \in Order
  /\ canceller.pc \in {"load", "cancel", "store"} => canceller.order \in Revoked
  /\ canceller.pc = "cancel" => canceller.run \in 1 .. MaxCopies

\* No pipeline sleeps after its last stage.
StageInv == \A p \in Run : pipe[p].at = "sleep" => pipe[p].k < LastStage

\* Every pipeline was started by a copy of its own.
CopiesInv == \A o \in Order : runs[o] + unread[o] + Holds(o) <= announced[o]

\* No more copies of a cancellation are unread than were written.
UnreadRevoked == \A o \in Order : revocations[o] <= revoked[o]

\* After its first lookup, the poller's order is not active.
LookupInv == poller.pc \in {"loadCancelled", "store"} => active[poller.order] = 0

IInv ==
  /\ TypeOK /\ PollersInv /\ StageInv /\ CopiesInv /\ UnreadRevoked
  /\ LookupInv /\ ActiveIsCooking

USE MaxCopiesAssumption, MaxDownsAssumption

LEMMA Initially == Init => IInv
<1> SUFFICES ASSUME Init PROVE IInv
  OBVIOUS
<1> USE DEF Init, Run, Off, Idle, IdleCanceller
<1>1. TypeOK
  BY DEF TypeOK, Pipeline, LastStage
<1>2. PollersInv /\ StageInv /\ LookupInv
  BY DEF PollersInv, StageInv, LookupInv, Handling
<1>3. CopiesInv /\ UnreadRevoked
  BY DEF CopiesInv, UnreadRevoked, Holds, Handling
<1>4. ActiveIsCooking
  BY DEF ActiveIsCooking, Cooking
<1> QED
  BY <1>1, <1>2, <1>3, <1>4 DEF IInv

\* What a step that leaves maps and pipelines alone has to show.
LEMMA MapsUntouched ==
  ASSUME IInv, UNCHANGED <<maps, cooking>>
  PROVE  StageInv' /\ ActiveIsCooking'
BY DEF IInv, StageInv, ActiveIsCooking, Cooking, maps, cooking

\* A pipeline that stays on its side of the deferred Delete disturbs nothing
\* but its own place.
LEMMA PipelineMoves ==
  ASSUME IInv, NEW p \in Run, NEW x \in Pipeline,
         pipe' = [pipe EXCEPT ![p] = x], UNCHANGED active,
         x.at = "sleep" => x.k < LastStage,
         x.at \in {"check", "send", "sent", "sleep", "delete"}
           <=> pipe[p].at \in {"check", "send", "sent", "sleep", "delete"}
  PROVE  pipe' \in [Run -> Pipeline] /\ StageInv' /\ ActiveIsCooking'
<1>1. pipe \in [Run -> Pipeline]
  BY DEF IInv, TypeOK
<1>2. /\ pipe'[p] = x
      /\ \A q \in Run : q # p => pipe'[q] = pipe[q]
  BY <1>1
<1>3. pipe' \in [Run -> Pipeline]
  BY <1>1
<1>4. StageInv'
  BY <1>2 DEF IInv, StageInv
<1>5. ActiveIsCooking'
  BY <1>2 DEF IInv, ActiveIsCooking, Cooking
<1> QED
  BY <1>3, <1>4, <1>5

\* The run the order poller is about to start has a copy of its own left.
LEMMA CrossingIsRun ==
  ASSUME IInv
  PROVE  Crossing \subseteq Run
<1> SUFFICES ASSUME NEW o \in Order, poller.pc = "store", poller.order = o
             PROVE  <<o, runs[o] + 1>> \in Run
  BY DEF Crossing
<1>1. Holds(o) = 1
  BY DEF Holds, Handling
<1>2. runs[o] + unread[o] + 1 <= announced[o]
  BY <1>1 DEF IInv, CopiesInv
<1>3. runs[o] \in Nat /\ unread[o] \in Nat /\ announced[o] \in 0 .. MaxCopies
  BY DEF IInv, TypeOK
<1>4. runs[o] + 1 \in 1 .. MaxCopies
  BY <1>2, <1>3
<1> QED
  BY <1>4 DEF Run

\* The actions of the relay and of the two pollers.
LEMMA PollersPreserve ==
  ASSUME IInv,
         \/ \E o \in Order : Announce(o) \/ Revoke(o)
         \/ \E o \in Order : ReadOrder(o) \/ DropOrder(o)
         \/ \E o \in Order : ReadCancellation(o) \/ DropCancellation(o)
         \/ PollerStep
         \/ CancellerStep
         \/ Stop \/ Restart
  PROVE  IInv'
<1> USE DEF topics, process, maps, cooking, dealings
<1>t. TypeOK /\ PollersInv /\ CopiesInv /\ UnreadRevoked /\ LookupInv
  BY DEF IInv
<1>a. ASSUME NEW o \in Order, Announce(o) \/ Revoke(o)
      PROVE  IInv'
  <2>1. UNCHANGED <<process, poller, canceller, maps, cooking, dealings>>
    BY <1>a DEF Announce, Revoke
  <2>2. StageInv' /\ ActiveIsCooking'
    BY <2>1, MapsUntouched
  <2>3. TypeOK'
    <3>1. CASE Announce(o)
      <4>1. unread[o] <= announced[o] /\ announced[o] < MaxCopies
        BY <1>t, <3>1 DEF TypeOK, CopiesInv, Holds, Announce
      <4>2. unread' \in [Order -> 0 .. MaxCopies] /\ announced' \in [Order -> 0 .. MaxCopies]
        BY <1>t, <3>1, <4>1 DEF TypeOK, Announce
      <4>3. UNCHANGED <<revoked, revocations>>
        BY <3>1 DEF Announce
      <4> QED
        BY <1>t, <2>1, <4>2, <4>3 DEF TypeOK, Revoked
    <3>2. CASE Revoke(o)
      <4>1. revocations[o] <= revoked[o] /\ revoked[o] < MaxCopies
        BY <1>t, <3>2 DEF UnreadRevoked, Revoke
      <4>2. /\ revoked' \in [Order -> 0 .. MaxCopies] /\ revocations' \in [Order -> 0 .. MaxCopies]
            /\ Revoked \subseteq Revoked'
        BY <1>t, <3>2, <4>1 DEF TypeOK, Revoke, Revoked
      <4>3. UNCHANGED <<announced, unread>>
        BY <3>2 DEF Revoke
      <4>4. handled' \subseteq Revoked' \X (0 .. MaxCopies)
        BY <1>t, <2>1, <4>2 DEF TypeOK
      <4> QED
        BY <1>t, <2>1, <4>2, <4>3, <4>4 DEF TypeOK
    <3> QED
      BY <1>a, <3>1, <3>2
  <2>4. CopiesInv' /\ UnreadRevoked'
    <3>1. CASE Announce(o)
      BY <1>t, <2>1, <3>1 DEF TypeOK, CopiesInv, UnreadRevoked, Holds, Announce
    <3>2. CASE Revoke(o)
      BY <1>t, <2>1, <3>2 DEF TypeOK, CopiesInv, UnreadRevoked, Holds, Revoke
    <3> QED
      BY <1>a, <3>1, <3>2
  <2>5. PollersInv' /\ LookupInv'
    BY <1>t, <1>a, <2>1 DEF TypeOK, PollersInv, LookupInv, Announce, Revoke, Revoked
  <2> QED
    BY <2>2, <2>3, <2>4, <2>5 DEF IInv
<1>b. ASSUME NEW o \in Order, ReadOrder(o) \/ DropOrder(o)
      PROVE  IInv'
  <2>1. UNCHANGED <<announced, revoked, revocations, process, canceller, maps, cooking, dealings>>
    BY <1>b DEF ReadOrder, DropOrder
  <2>2. StageInv' /\ ActiveIsCooking'
    BY <2>1, MapsUntouched
  <2>3. TypeOK'
    BY <1>t, <1>b, <2>1 DEF TypeOK, Revoked, ReadOrder, DropOrder
  <2>4. CopiesInv' /\ UnreadRevoked'
    BY <1>t, <1>b, <2>1 DEF TypeOK, CopiesInv, UnreadRevoked, Holds, Handling, ReadOrder, DropOrder
  <2>5. PollersInv' /\ LookupInv'
    BY <1>t, <1>b, <2>1 DEF PollersInv, Revoked, LookupInv, Handling, ReadOrder, DropOrder
  <2> QED
    BY <2>2, <2>3, <2>4, <2>5 DEF IInv
<1>c. ASSUME NEW o \in Order, ReadCancellation(o) \/ DropCancellation(o)
      PROVE  IInv'
  <2>1. UNCHANGED <<announced, unread, revoked, process, poller, maps, cooking, dealings>>
    BY <1>c DEF ReadCancellation, DropCancellation
  <2>2. StageInv' /\ ActiveIsCooking'
    BY <2>1, MapsUntouched
  <2>3. TypeOK'
    BY <1>t, <1>c, <2>1 DEF TypeOK, Revoked, ReadCancellation, DropCancellation
  <2>4. CopiesInv' /\ LookupInv'
    BY <1>t, <2>1 DEF CopiesInv, Holds, LookupInv
  <2>5. PollersInv'
    <3>1. revocations[o] > 0 => o \in Revoked
      BY <1>t DEF TypeOK, UnreadRevoked, Revoked
    <3> QED
      BY <1>t, <1>c, <2>1, <3>1 DEF TypeOK, PollersInv, Revoked, ReadCancellation, DropCancellation
  <2>6. UnreadRevoked'
    BY <1>t, <1>c, <2>1 DEF TypeOK, UnreadRevoked, ReadCancellation, DropCancellation
  <2> QED
    BY <2>2, <2>3, <2>4, <2>5, <2>6 DEF IInv
<1>d. ASSUME LoadActive \/ LoadCancelled \/ StopPoller
      PROVE  IInv'
  <2>1. UNCHANGED <<topics, process, canceller, maps, cooking, dealings>>
    BY <1>d DEF LoadActive, LoadCancelled, StopPoller
  <2>2. StageInv' /\ ActiveIsCooking'
    BY <2>1, MapsUntouched
  <2>3. TypeOK'
    BY <1>t, <1>d, <2>1 DEF TypeOK, Revoked, LoadActive, LoadCancelled, StopPoller, Idle
  <2>4. CopiesInv' /\ UnreadRevoked'
    BY <1>t, <1>d, <2>1
       DEF TypeOK, CopiesInv, UnreadRevoked, Holds, Handling, LoadActive, LoadCancelled, StopPoller, Idle
  <2>5. PollersInv' /\ LookupInv'
    BY <1>t, <1>d, <2>1
       DEF TypeOK, PollersInv, Revoked, LookupInv, Handling, LoadActive, LoadCancelled, StopPoller, Idle
  <2> QED
    BY <2>2, <2>3, <2>4, <2>5 DEF IInv
<1>e. ASSUME StoreActive
      PROVE  IInv'
  <2> DEFINE o == poller.order
             n == runs[o] + 1
             x == [at |-> "check", k |-> 1, why |-> "none"]
  <2>1. /\ poller.pc = "store" /\ o \in Order /\ active[o] = 0
        /\ runs' = [runs EXCEPT ![o] = n] /\ active' = [active EXCEPT ![o] = n]
        /\ pipe' = [pipe EXCEPT ![<<o, n>>] = x] /\ poller' = Idle
        /\ UNCHANGED <<topics, process, canceller, cancelledOrders, done, late, handled>>
    BY <1>e, <1>t DEF StoreActive, PollersInv, LookupInv, Handling
  <2>2. Holds(o) = 1
    BY <2>1 DEF Holds, Handling
  <2>3. n \in 1 .. MaxCopies /\ <<o, n>> \in Run
    <3>1. runs[o] + unread[o] + 1 <= announced[o]
      BY <1>t, <2>1, <2>2 DEF CopiesInv
    <3>2. runs[o] \in Nat /\ unread[o] \in Nat /\ announced[o] \in 0 .. MaxCopies
      BY <1>t, <2>1 DEF TypeOK
    <3> HIDE DEF o
    <3>3. n \in 1 .. MaxCopies
      BY <3>1, <3>2
    <3> QED
      BY <2>1, <3>3 DEF Run
  <2>4. x \in Pipeline
    BY DEF Pipeline, LastStage
  <2>5. /\ pipe'[<<o, n>>] = x
        /\ \A q \in Run : q # <<o, n>> => pipe'[q] = pipe[q]
        /\ pipe' \in [Run -> Pipeline]
    BY <1>t, <2>1, <2>3, <2>4 DEF TypeOK
  <2>6. TypeOK'
    <3>1. runs' \in [Order -> 0 .. MaxCopies] /\ active' \in [Order -> 0 .. MaxCopies]
      BY <1>t, <2>1, <2>3 DEF TypeOK
    <3>2. poller' \in [pc : {"read", "loadActive", "loadCancelled", "store", "stopped"},
                       order : Order \cup {NoOrder}]
      BY <2>1 DEF Idle
    <3>3. crossed' \subseteq Run
      BY <1>t, <1>e, CrossingIsRun DEF TypeOK, StoreActive
    <3> QED
      BY <1>t, <2>1, <2>5, <3>1, <3>2, <3>3 DEF TypeOK, Revoked
  <2>7. PollersInv' /\ LookupInv' /\ UnreadRevoked'
    BY <1>t, <2>1 DEF PollersInv, Revoked, UnreadRevoked, LookupInv, Handling, Idle
  <2>8. StageInv'
    BY <2>5 DEF IInv, StageInv
  <2>9. CopiesInv'
    <3> SUFFICES ASSUME NEW r \in Order
                 PROVE  runs'[r] + unread'[r] + Holds(r)' <= announced'[r]
      BY DEF CopiesInv
    <3>1. Holds(r)' = 0
      BY <2>1 DEF Holds, Handling, Idle
    <3>2. Holds(r) \in {0, 1} /\ (r = o => Holds(r) = 1)
      BY <2>2 DEF Holds
    <3>3. runs'[r] = IF r = o THEN runs[r] + 1 ELSE runs[r]
      BY <1>t, <2>1 DEF TypeOK
    <3>4. runs[r] \in Nat /\ unread[r] \in Nat /\ announced[r] \in Nat
      BY <1>t DEF TypeOK
    <3>5. runs[r] + unread[r] + Holds(r) <= announced[r]
      BY <1>t DEF CopiesInv
    <3>6. unread' = unread /\ announced' = announced
      BY <2>1
    <3> HIDE DEF o
    <3> QED
      BY <3>1, <3>2, <3>3, <3>4, <3>5, <3>6
  <2>10. ActiveIsCooking'
    <3> SUFFICES ASSUME NEW q \in Run
                 PROVE  (Cooking(q)' \/ pipe'[q].at = "delete") <=> active'[q[1]] = q[2]
      BY DEF ActiveIsCooking
    <3>1. CASE q = <<o, n>>
      BY <1>t, <2>1, <2>3, <2>5, <3>1 DEF TypeOK, Cooking
    <3>2. CASE q # <<o, n>> /\ q[1] = o
      <4>1. q[2] # n /\ q[2] # 0
        BY <3>2 DEF Run
      <4>2. active'[o] = n /\ pipe'[q] = pipe[q]
        BY <1>t, <2>1, <2>5, <3>2 DEF TypeOK
      <4>3. ~ (Cooking(q) \/ pipe[q].at = "delete")
        BY <2>1, <3>2, <4>1 DEF IInv, ActiveIsCooking
      <4> QED
        BY <3>2, <4>1, <4>2, <4>3 DEF Cooking
    <3>3. CASE q[1] # o
      <4>1. active'[q[1]] = active[q[1]] /\ pipe'[q] = pipe[q]
        BY <1>t, <2>1, <2>5, <3>3 DEF TypeOK, Run
      <4> QED
        BY <4>1 DEF IInv, ActiveIsCooking, Cooking
    <3> QED
      BY <3>1, <3>2, <3>3
  <2> QED
    BY <2>6, <2>7, <2>8, <2>9, <2>10 DEF IInv
<1>f. ASSUME LoadCancelFunc \/ StopCanceller
      PROVE  IInv'
  <2>1. UNCHANGED <<topics, process, poller, maps, cooking, dealings>>
    BY <1>f DEF LoadCancelFunc, StopCanceller
  <2>2. StageInv' /\ ActiveIsCooking'
    BY <2>1, MapsUntouched
  <2>3. canceller.pc = "load" => active[canceller.order] \in 0 .. MaxCopies
    BY <1>t DEF TypeOK, PollersInv, Revoked
  <2>4. TypeOK'
    BY <1>t, <1>f, <2>1, <2>3 DEF TypeOK, Revoked, LoadCancelFunc, StopCanceller
  <2>5. PollersInv'
    <3>1. CASE LoadCancelFunc
      <4> DEFINE n == active[canceller.order]
      <4>1. /\ canceller.pc = "load" /\ n \in 0 .. MaxCopies
            /\ canceller' = [canceller EXCEPT !.run = n, !.pc = IF n # 0 THEN "cancel" ELSE "store"]
        BY <2>3, <3>1 DEF LoadCancelFunc
      <4>2. /\ canceller'.order = canceller.order /\ canceller'.run = n
            /\ canceller'.pc = IF n # 0 THEN "cancel" ELSE "store"
        BY <1>t, <4>1 DEF TypeOK
      <4>3. canceller.order \in Revoked
        BY <1>t, <4>1 DEF PollersInv
      <4> HIDE DEF n
      <4> QED
        BY <1>t, <2>1, <4>1, <4>2, <4>3 DEF PollersInv, Revoked
    <3>2. CASE StopCanceller
      BY <1>t, <2>1, <3>2 DEF TypeOK, PollersInv, Revoked, StopCanceller
    <3> QED
      BY <1>f, <3>1, <3>2
  <2>6. CopiesInv' /\ UnreadRevoked' /\ LookupInv'
    BY <1>t, <2>1 DEF CopiesInv, UnreadRevoked, Holds, LookupInv
  <2> QED
    BY <2>2, <2>4, <2>5, <2>6 DEF IInv
<1>g. ASSUME CallCancelFunc
      PROVE  IInv'
  <2>1. UNCHANGED <<topics, process, poller, maps, runs, pipe, late>> /\ canceller' = IdleCanceller
    BY <1>g DEF CallCancelFunc
  <2>2. /\ StageInv' /\ ActiveIsCooking' /\ CopiesInv' /\ UnreadRevoked'
        /\ LookupInv' /\ PollersInv'
    BY <2>1, <1>t DEF IInv, StageInv, ActiveIsCooking, Cooking, CopiesInv, UnreadRevoked, Holds,
                      LookupInv, PollersInv, Revoked, IdleCanceller
  <2>3. canceller.order \in Revoked /\ <<canceller.order, canceller.run>> \in Run
    BY <1>g, <1>t DEF CallCancelFunc, PollersInv, TypeOK, Revoked, Run
  <2>4. TypeOK'
    BY <1>t, <1>g, <2>1, <2>3 DEF TypeOK, Revoked, CallCancelFunc, IdleCanceller
  <2> QED
    BY <2>2, <2>4 DEF IInv
<1>h. ASSUME StoreCancelled
      PROVE  IInv'
  <2>1. UNCHANGED <<topics, process, poller, active, cooking>> /\ canceller' = IdleCanceller
    BY <1>h DEF StoreCancelled
  <2>2. /\ StageInv' /\ ActiveIsCooking' /\ CopiesInv' /\ UnreadRevoked'
        /\ LookupInv' /\ PollersInv'
    BY <2>1, <1>t DEF IInv, StageInv, ActiveIsCooking, Cooking, CopiesInv, UnreadRevoked, Holds,
                      LookupInv, PollersInv, Revoked, IdleCanceller
  <2>3. canceller.order \in Revoked
    BY <1>h, <1>t DEF StoreCancelled, PollersInv
  <2>4. crossed' \subseteq Run
    BY <1>t, <1>h, CrossingIsRun DEF TypeOK, StoreCancelled
  <2>5. TypeOK'
    BY <1>t, <1>h, <2>1, <2>3, <2>4 DEF TypeOK, Revoked, StoreCancelled, IdleCanceller
  <2> QED
    BY <2>2, <2>5 DEF IInv
<1>i. ASSUME Stop \/ Restart
      PROVE  IInv'
  <2>1. UNCHANGED <<topics, poller, canceller, maps, cooking, dealings>>
    BY <1>i DEF Stop, Restart
  <2>2. StageInv' /\ ActiveIsCooking'
    BY <2>1, MapsUntouched
  <2>3. TypeOK'
    BY <1>t, <1>i, <2>1 DEF TypeOK, Revoked, Stop, Restart, Fault
  <2>4. PollersInv' /\ CopiesInv' /\ UnreadRevoked' /\ LookupInv'
    BY <1>t, <2>1 DEF PollersInv, Revoked, CopiesInv, UnreadRevoked, Holds, LookupInv
  <2> QED
    BY <2>2, <2>3, <2>4 DEF IInv
<1> QED
  BY <1>a, <1>b, <1>c, <1>d, <1>e, <1>f, <1>g, <1>h, <1>i DEF PollerStep, CancellerStep

\* The pipelines.
LEMMA PipelinesPreserve ==
  ASSUME IInv, NEW p \in Run, PipelineStep(p)
  PROVE  IInv'
<1> USE DEF topics, process, maps, dealings, outside, rest
<1>t. TypeOK /\ PollersInv /\ CopiesInv /\ UnreadRevoked /\ LookupInv
  BY DEF IInv
<1>p. /\ pipe \in [Run -> Pipeline] /\ pipe[p] \in Pipeline
      /\ pipe[p].k \in 0 .. LastStage
      /\ pipe[p].at = "sleep" => pipe[p].k < LastStage
  BY DEF IInv, TypeOK, StageInv, Pipeline
<1>u. /\ UNCHANGED <<topics, process, poller, canceller, dealings, cancelledOrders, runs>>
      /\ done' \subseteq Run /\ late' \in [Run -> Nat]
  <2>1. UNCHANGED <<topics, process, poller, canceller, dealings, cancelledOrders, runs>>
    BY DEF PipelineStep, CheckContext, Send, SendLate, EnterSleep, Wake, Interrupted, Delete, Release
  <2>2. done' = done \/ done' = done \cup {p}
    BY DEF PipelineStep, CheckContext, Send, SendLate, EnterSleep, Wake, Interrupted, Delete, Release
  <2>3. late' = late \/ late' = [late EXCEPT ![p] = @ + 1]
    BY DEF PipelineStep, CheckContext, Send, SendLate, EnterSleep, Wake, Interrupted, Delete, Release
  <2> QED
    BY <1>t, <2>1, <2>2, <2>3 DEF TypeOK
\* It is enough to look at pipe and active.
<1>r. ASSUME pipe' \in [Run -> Pipeline], active' \in [Order -> 0 .. MaxCopies],
             StageInv', ActiveIsCooking',
             \A o \in Order : active'[o] \in {active[o], 0}
      PROVE  IInv'
  <2>1. TypeOK'
    BY <1>t, <1>u, <1>r DEF TypeOK, Revoked
  <2>2. PollersInv' /\ CopiesInv' /\ UnreadRevoked'
    BY <1>t, <1>u DEF PollersInv, Revoked, CopiesInv, UnreadRevoked, Holds
  <2>3. LookupInv'
    BY <1>t, <1>u, <1>r DEF LookupInv, PollersInv, Handling
  <2> QED
    BY <1>r, <2>1, <2>2, <2>3 DEF IInv
\* Every step but Delete keeps to its side of it.
<1>m. ASSUME NEW x \in Pipeline, pipe' = [pipe EXCEPT ![p] = x], UNCHANGED active,
             x.at = "sleep" => x.k < LastStage,
             x.at \in {"check", "send", "sent", "sleep", "delete"}
               <=> pipe[p].at \in {"check", "send", "sent", "sleep", "delete"}
      PROVE  IInv'
  <2>1. pipe' \in [Run -> Pipeline] /\ StageInv' /\ ActiveIsCooking'
    BY <1>m, PipelineMoves
  <2>2. active' \in [Order -> 0 .. MaxCopies]
    BY <1>t, <1>m DEF TypeOK
  <2> QED
    BY <1>m, <1>r, <2>1, <2>2
<1> DEFINE Go(where) == [pipe[p] EXCEPT !.at = where]
           Over(reason) == [pipe[p] EXCEPT !.at = "delete", !.why = reason]
<1>2. CASE CheckContext(p) \/ Send(p) \/ SendLate(p) \/ EnterSleep(p) \/ Interrupted(p)
  <2>1. pipe[p].at \in {"check", "send", "sent", "sleep"} /\ UNCHANGED active
    BY <1>2 DEF CheckContext, Send, SendLate, EnterSleep, Interrupted, At
  <2>2. \/ \E where \in {"send", "sent"} : pipe' = [pipe EXCEPT ![p].at = where]
        \/ pipe[p].k < LastStage /\ pipe' = [pipe EXCEPT ![p].at = "sleep"]
        \/ \E reason \in {"completed", "failed", "context"} :
             pipe' = [pipe EXCEPT ![p].at = "delete", ![p].why = reason]
    BY <1>2, <1>p DEF CheckContext, Send, SendLate, EnterSleep, Interrupted, Goto, End, LastStage
  <2>3. CASE \E where \in {"send", "sent"} : pipe' = [pipe EXCEPT ![p].at = where]
    <3>1. PICK where \in {"send", "sent"} : pipe' = [pipe EXCEPT ![p].at = where]
      BY <2>3
    <3>2. pipe' = [pipe EXCEPT ![p] = Go(where)] /\ Go(where) \in Pipeline
          /\ Go(where).at = where
      BY <1>p, <3>1 DEF Pipeline
    <3> HIDE DEF Go
    <3> QED
      BY <1>m, <2>1, <3>2
  <2>4. CASE pipe[p].k < LastStage /\ pipe' = [pipe EXCEPT ![p].at = "sleep"]
    <3>2. pipe' = [pipe EXCEPT ![p] = Go("sleep")] /\ Go("sleep") \in Pipeline
          /\ Go("sleep").at = "sleep" /\ Go("sleep").k = pipe[p].k
      BY <1>p, <2>4 DEF Pipeline
    <3> HIDE DEF Go
    <3> QED
      BY <1>m, <2>1, <2>4, <3>2
  <2>5. CASE \E reason \in {"completed", "failed", "context"} :
               pipe' = [pipe EXCEPT ![p].at = "delete", ![p].why = reason]
    <3>1. PICK reason \in {"completed", "failed", "context"} :
                 pipe' = [pipe EXCEPT ![p].at = "delete", ![p].why = reason]
      BY <2>5
    <3>2. pipe' = [pipe EXCEPT ![p] = Over(reason)] /\ Over(reason) \in Pipeline
          /\ Over(reason).at = "delete"
      BY <1>p, <3>1 DEF Pipeline
    <3> HIDE DEF Over
    <3> QED
      BY <1>m, <2>1, <3>2
  <2> QED
    BY <2>2, <2>3, <2>4, <2>5
<1>3. CASE Wake(p)
  <2> DEFINE x == [pipe[p] EXCEPT !.at = "send", !.k = pipe[p].k + 1]
  <2>1. /\ pipe[p].at = "sleep" /\ UNCHANGED active
        /\ pipe' = [pipe EXCEPT ![p].at = "send", ![p].k = @ + 1]
    BY <1>3 DEF Wake, At
  <2>2. pipe' = [pipe EXCEPT ![p] = x]
    BY <1>p, <2>1
  <2>3. x \in Pipeline /\ x.at = "send"
    BY <1>p, <2>1 DEF Pipeline, LastStage
  <2> HIDE DEF x
  <2> QED
    BY <1>m, <2>1, <2>2, <2>3
<1>4. CASE Release(p)
  <2>1. /\ pipe[p].at = "release" /\ UNCHANGED active
        /\ pipe' = [pipe EXCEPT ![p].at = "over"]
    BY <1>4 DEF Release, At, Goto
  <2>2. pipe' = [pipe EXCEPT ![p] = Go("over")] /\ Go("over") \in Pipeline
        /\ Go("over").at = "over"
    BY <1>p, <2>1 DEF Pipeline
  <2> HIDE DEF Go
  <2> QED
    BY <1>m, <2>1, <2>2
<1>5. CASE Delete(p)
  <2>1. /\ pipe[p].at = "delete" /\ active' = [active EXCEPT ![p[1]] = 0]
        /\ pipe' = [pipe EXCEPT ![p].at = "release"]
    BY <1>5 DEF Delete, At, Goto
  <2>2. p[1] \in Order /\ active[p[1]] = p[2]
    BY <2>1 DEF IInv, ActiveIsCooking, Run
  <2>3. pipe' = [pipe EXCEPT ![p] = Go("release")] /\ Go("release") \in Pipeline
        /\ Go("release").at = "release"
    BY <1>p, <2>1 DEF Pipeline
  <2> HIDE DEF Go
  <2>4. /\ pipe'[p].at = "release"
        /\ \A q \in Run : q # p => pipe'[q] = pipe[q]
        /\ pipe' \in [Run -> Pipeline]
    BY <1>p, <2>3
  <2>5. /\ active' \in [Order -> 0 .. MaxCopies] /\ active'[p[1]] = 0
        /\ \A o \in Order : o # p[1] => active'[o] = active[o]
    BY <1>t, <2>1, <2>2 DEF TypeOK
  <2>6. StageInv'
    BY <2>4 DEF IInv, StageInv
  <2>7. ActiveIsCooking'
    <3> SUFFICES ASSUME NEW q \in Run
                 PROVE  (Cooking(q)' \/ pipe'[q].at = "delete") <=> active'[q[1]] = q[2]
      BY DEF ActiveIsCooking
    <3>1. q[1] \in Order /\ q[2] # 0 /\ (q[1] = p[1] /\ q[2] = p[2] => q = p)
      BY DEF Run
    <3>2. CASE q = p
      BY <2>4, <2>5, <3>1, <3>2 DEF Cooking
    <3>3. CASE q # p /\ q[1] = p[1]
      BY <2>2, <2>4, <2>5, <3>1, <3>3 DEF IInv, ActiveIsCooking, Cooking
    <3>4. CASE q[1] # p[1]
      BY <2>4, <2>5, <3>1, <3>4 DEF IInv, ActiveIsCooking, Cooking
    <3> QED
      BY <3>2, <3>3, <3>4
  <2> QED
    BY <1>r, <2>4, <2>5, <2>6, <2>7
<1> QED
  BY <1>2, <1>3, <1>4, <1>5 DEF PipelineStep

\* The ends of the process.
LEMMA EndsPreserve ==
  ASSUME IInv, Exit \/ Timeout \/ Crash
  PROVE  IInv'
<1> USE DEF topics
<1>t. TypeOK /\ PollersInv /\ CopiesInv /\ UnreadRevoked
  BY DEF IInv
<1>1. GoDown /\ downs' \in 0 .. MaxDowns
  BY <1>t DEF Exit, Timeout, Crash, Fault, TypeOK
<1>2. \A p \in Run : pipe'[p] = IF Alive(p) THEN Off ELSE pipe[p]
  BY <1>1 DEF GoDown
<1>3. \A p \in Run : pipe'[p] \in Pipeline /\ pipe'[p].at \in {"off", "over"}
  <2> SUFFICES ASSUME NEW p \in Run
               PROVE  pipe'[p] \in Pipeline /\ pipe'[p].at \in {"off", "over"}
    OBVIOUS
  <2>1. pipe[p] \in Pipeline
    BY <1>t DEF TypeOK
  <2>2. Off \in Pipeline /\ Off.at = "off"
    BY DEF Off, Pipeline, LastStage
  <2> QED
    BY <1>2, <2>1, <2>2 DEF Alive
<1>4. TypeOK'
  <2>1. pipe' \in [Run -> Pipeline]
    BY <1>1, <1>3 DEF GoDown
  <2> QED
    BY <1>t, <1>1, <2>1 DEF TypeOK, Revoked, GoDown, Idle, IdleCanceller
<1>5. PollersInv' /\ LookupInv'
  BY <1>1 DEF GoDown, PollersInv, LookupInv, Handling, Idle, IdleCanceller
<1>6. CopiesInv' /\ UnreadRevoked'
  BY <1>t, <1>1 DEF TypeOK, GoDown, CopiesInv, UnreadRevoked, Holds, Handling, Idle
<1>7. StageInv' /\ ActiveIsCooking'
  BY <1>1, <1>3 DEF GoDown, StageInv, ActiveIsCooking, Cooking, Run
<1> QED
  BY <1>4, <1>5, <1>6, <1>7 DEF IInv

\* IInv is an invariant of the kitchen.
THEOREM Invariance == Spec => []IInv
<1>1. Init => IInv
  BY Initially
<1>2. IInv /\ [Next]_vars => IInv'
  <2> SUFFICES ASSUME IInv, [Next]_vars PROVE IInv'
    OBVIOUS
  <2>1. CASE UNCHANGED vars
    BY <2>1 DEF vars, topics, process, maps, cooking, dealings, IInv, TypeOK, PollersInv, StageInv,
                CopiesInv, UnreadRevoked, Revoked, Holds, LookupInv, ActiveIsCooking, Cooking
  <2>2. CASE Next
    BY <2>2, PollersPreserve, PipelinesPreserve, EndsPreserve DEF Next
  <2> QED
    BY <2>1, <2>2
<1> QED
  BY <1>1, <1>2, PTL DEF Spec

\* The kitchen keeps its types and bounds, whatever is delivered, cancelled or
\* crashes: in particular a copy of a message starts at most one pipeline.
THEOREM TypeCorrectness == Spec => []TypeOK
<1>1. IInv => TypeOK
  BY DEF IInv
<1> QED
  BY <1>1, Invariance, PTL

\* activeOrders is exactly the set of running pipelines (pollKafkaOrders against
\* the deferred cleanup of processOrder), for any number of orders and copies.
THEOREM ActiveIsCookingHolds == Spec => []ActiveIsCooking
<1>1. IInv => ActiveIsCooking
  BY DEF IInv
<1> QED
  BY <1>1, Invariance, PTL

-----------------------------------------------------------------------------
(* Late statuses. *)

\* Where a pipeline is that has written a status under an ended context: it does
\* not get to a second one.
Leaving(p) ==
  \/ pipe[p].at \in {"delete", "release", "over", "off"}
  \/ pipe[p].at = "sent" /\ CtxDone(p)

\* A run that was not started is nowhere and has written nothing.
RunsInv == \A p \in Run : p[2] > runs[p[1]] => pipe[p].at = "off" /\ late[p] = 0

LateInv == RunsInv /\ \A p \in Run : late[p] = 0 \/ (late[p] = 1 /\ Leaving(p))

LEMMA LateInit == Init => LateInv
BY DEF Init, LateInv, RunsInv, Off, Run

\* What leaves pipelines alone and ends no context's end.
LEMMA LateUntouched ==
  ASSUME LateInv, UNCHANGED <<runs, pipe, late>>,
         \A p \in Run : CtxDone(p) => CtxDone(p)' \/ pipe[p].at = "off"
  PROVE  LateInv'
BY DEF LateInv, RunsInv, Leaving

\* The steps of a pipeline.
LEMMA LatePipelines ==
  ASSUME IInv, LateInv, NEW p \in Run, PipelineStep(p)
  PROVE  LateInv'
<1>1. /\ mode' = mode /\ runs' = runs
      /\ done \subseteq done'
      /\ \A q \in Run : q # p => pipe'[q] = pipe[q] /\ late'[q] = late[q]
  BY DEF PipelineStep, CheckContext, Send, SendLate, EnterSleep, Wake, Interrupted, Delete,
         Release, Goto, End, rest, outside, process, IInv, TypeOK
<1>2. \A q \in Run : CtxDone(q) => CtxDone(q)'
  BY <1>1 DEF CtxDone
<1>3. pipe[p] \in Pipeline /\ pipe \in [Run -> Pipeline] /\ late \in [Run -> Nat]
      /\ p[1] \in Order /\ p[2] \in Nat /\ runs[p[1]] \in Nat
  BY DEF IInv, TypeOK, Run
<1>4. p[2] <= runs[p[1]]
  <2>1. pipe[p].at # "off"
    BY DEF PipelineStep, CheckContext, Send, SendLate, EnterSleep, Wake, Interrupted, Delete,
           Release, At
  <2> QED
    BY <1>3, <2>1 DEF LateInv, RunsInv
<1>5. RunsInv'
  <2> SUFFICES ASSUME NEW q \in Run, q[2] > runs[q[1]]
               PROVE  pipe'[q].at = "off" /\ late'[q] = 0
    BY <1>1 DEF RunsInv
  <2>1. q # p
    BY <1>3, <1>4
  <2> QED
    BY <1>1, <2>1 DEF LateInv, RunsInv
<1>6. late'[p] = 0 \/ (late'[p] = 1 /\ Leaving(p)')
  <2>1. CASE SendLate(p)
    <3>1. pipe[p].at = "send" /\ CtxDone(p)
      BY <2>1 DEF SendLate, At
    <3>2. late[p] = 0
      BY <3>1 DEF LateInv, Leaving
    <3>3. late' = late \/ late' = [late EXCEPT ![p] = @ + 1]
      BY <2>1 DEF SendLate
    <3>4. late'[p] \in {0, 1}
      BY <1>3, <3>2, <3>3
    <3>5. pipe'[p].at \in {"sent", "delete"}
      BY <1>3, <2>1 DEF SendLate, Goto, End, Pipeline
    <3> QED
      BY <1>2, <3>1, <3>4, <3>5 DEF Leaving
  <2>2. CASE EnterSleep(p)
    <3>1. late' = late /\ pipe[p].at = "sent"
      BY <2>2 DEF EnterSleep, At
    <3>2. CtxDone(p) => pipe'[p].at = "delete"
      BY <1>3, <2>2 DEF EnterSleep, End, Pipeline, LastStage
    <3> QED
      BY <3>1, <3>2 DEF LateInv, Leaving
  <2>3. CASE CheckContext(p) \/ Send(p) \/ Wake(p) \/ Interrupted(p)
    <3>1. late' = late /\ pipe[p].at \in {"check", "send", "sleep"}
      BY <2>3 DEF CheckContext, Send, Wake, Interrupted, At
    <3> QED
      BY <3>1 DEF LateInv, Leaving
  <2>4. CASE Delete(p) \/ Release(p)
    <3>1. late' = late /\ pipe'[p].at \in {"release", "over"}
      BY <1>3, <2>4 DEF Delete, Release, Goto, Pipeline
    <3> QED
      BY <3>1 DEF LateInv, Leaving
  <2> QED
    BY <2>1, <2>2, <2>3, <2>4 DEF PipelineStep
<1> QED
  BY <1>1, <1>2, <1>5, <1>6 DEF LateInv, Leaving

\* A new run has written nothing yet.
LEMMA LateStore ==
  ASSUME IInv, LateInv, StoreActive
  PROVE  LateInv'
<1> DEFINE o == poller.order
           n == runs[o] + 1
           r == <<o, n>>
<1>1. /\ o \in Order /\ UNCHANGED <<late, mode, done>>
      /\ runs' = [runs EXCEPT ![o] = n]
      /\ pipe' = [pipe EXCEPT ![r] = [at |-> "check", k |-> 1, why |-> "none"]]
  BY DEF StoreActive, IInv, PollersInv, Handling, process
<1>2. runs \in [Order -> Nat] /\ pipe \in [Run -> Pipeline]
  BY DEF IInv, TypeOK
<1> HIDE DEF o
<1>3. runs[o] \in Nat /\ runs'[o] = runs[o] + 1 /\ \A q \in Order : q # o => runs'[q] = runs[q]
  BY <1>1, <1>2
<1>4. \A q \in Run : q # r => pipe'[q] = pipe[q]
  BY <1>1, <1>2
<1>5. RunsInv'
  <2> SUFFICES ASSUME NEW q \in Run, q[2] > runs'[q[1]]
               PROVE  pipe'[q].at = "off" /\ late'[q] = 0
    BY DEF RunsInv
  <2>1. q[1] \in Order /\ q[2] \in Nat /\ runs[q[1]] \in Nat
    BY <1>2 DEF Run
  <2>2. q[2] > runs[q[1]] /\ q # r
    BY <1>3, <2>1
  <2> QED
    BY <1>1, <1>4, <2>2 DEF LateInv, RunsInv
<1>6. ASSUME NEW q \in Run
      PROVE  late'[q] = 0 \/ (late'[q] = 1 /\ Leaving(q)')
  <2>1. CASE q = r
    <3>1. q[2] > runs[q[1]]
      BY <1>3, <2>1
    <3> QED
      BY <1>1, <3>1 DEF LateInv, RunsInv
  <2>2. CASE q # r
    BY <1>1, <1>4, <2>2 DEF LateInv, Leaving, CtxDone
  <2> QED
    BY <2>1, <2>2
<1> QED
  BY <1>5, <1>6 DEF LateInv

LEMMA LateStep == IInv /\ LateInv /\ [Next]_vars => LateInv'
<1> SUFFICES ASSUME IInv, LateInv, [Next]_vars PROVE LateInv'
  OBVIOUS
<1> USE DEF topics, process, maps, cooking, dealings
<1>1. ASSUME NEW p \in Run, PipelineStep(p) PROVE LateInv'
  BY <1>1, LatePipelines
<1>2. CASE StoreActive
  BY <1>2, LateStore
<1>3. CASE Exit \/ Timeout \/ Crash
  <2>1. UNCHANGED <<runs, late>> /\ \A p \in Run : pipe'[p] = IF Alive(p) THEN Off ELSE pipe[p]
    BY <1>3 DEF Exit, Timeout, Crash, GoDown
  <2>2. \A p \in Run : /\ pipe'[p].at \in {"off", "over"}
                       /\ pipe[p].at = "off" => pipe'[p].at = "off"
    BY <2>1 DEF Alive, Off
  <2> QED
    BY <2>1, <2>2 DEF LateInv, RunsInv, Leaving
<1>4. CASE CallCancelFunc \/ Stop
  <2>1. UNCHANGED <<runs, pipe, late>> /\ \A p \in Run : CtxDone(p) => CtxDone(p)'
    BY <1>4 DEF CallCancelFunc, Stop, CtxDone
  <2> QED
    BY <2>1, LateUntouched
<1>5. CASE Restart
  <2>1. UNCHANGED <<runs, pipe, late>> /\ \A p \in Run : CtxDone(p) => CtxDone(p)'
    BY <1>5 DEF Restart, CtxDone
  <2> QED
    BY <2>1, LateUntouched
<1>6. CASE \/ UNCHANGED vars
           \/ \E o \in Order : \/ Announce(o) \/ Revoke(o) \/ ReadOrder(o) \/ DropOrder(o)
                               \/ ReadCancellation(o) \/ DropCancellation(o)
           \/ LoadActive \/ LoadCancelled \/ StopPoller
           \/ LoadCancelFunc \/ StoreCancelled \/ StopCanceller
  <2>1. UNCHANGED <<runs, pipe, late, mode, done>>
    BY <1>6 DEF vars, Announce, Revoke, ReadOrder, DropOrder, ReadCancellation, DropCancellation,
                LoadActive, LoadCancelled, StopPoller, LoadCancelFunc, StoreCancelled, StopCanceller
  <2> QED
    BY <2>1, LateUntouched DEF CtxDone
<1> QED
  BY <1>1, <1>2, <1>3, <1>4, <1>5, <1>6 DEF Next, PollerStep, CancellerStep

\* At most one status of a run goes out after its context has ended, whatever ends
\* it and whenever: after a late one sleepContext returns false at once.
THEOREM LateStatusAtMostOneHolds == Spec => []LateStatusAtMostOne
<1>1. Init => IInv /\ LateInv
  BY Initially, LateInit
<1>2. LateInv => LateStatusAtMostOne
  BY DEF LateInv, LateStatusAtMostOne
<1> QED
  BY <1>1, <1>2, Invariance, LateStep, PTL DEF Spec

-----------------------------------------------------------------------------
(* Cancellations. *)

\* Only the last run of an order is ever in activeOrders.
ActiveIsLast == \A o \in Order : active[o] \in {0, runs[o]}

\* The run whose CancelFunc was loaded has been started.
LoadedIsRun == canceller.pc = "cancel" => canceller.run <= runs[canceller.order]

\* A cancellation is kept in cancelledOrders, or has ended the run it found.
HandledIsDone ==
  \A o \in Order, n \in 0 .. MaxCopies : <<o, n>> \in handled =>
    IF n = 0 THEN o \in cancelledOrders ELSE <<o, n>> \in done /\ n <= runs[o]

\* A run that is in activeOrders, or about to be, met the cancellation of its
\* order that is kept, or being kept, only by crossing it.
KeptIsCrossed ==
  /\ \A o \in Order : <<o, 0>> \in handled /\ active[o] # 0 => <<o, active[o]>> \in crossed
  /\ poller.pc = "store" /\ <<poller.order, 0>> \in handled
       => <<poller.order, runs[poller.order] + 1>> \in crossed
  /\ canceller.pc = "store" /\ active[canceller.order] # 0
       => <<canceller.order, active[canceller.order]>> \in crossed

CancelInv == ActiveIsLast /\ LoadedIsRun /\ HandledIsDone /\ KeptIsCrossed

LEMMA CancelInit == Init => CancelInv
BY DEF Init, CancelInv, ActiveIsLast, LoadedIsRun, HandledIsDone, KeptIsCrossed, Idle, IdleCanceller

\* What deals with no cancellation and starts no run: at most an entry leaves
\* activeOrders, and neither poller reaches its store.
LEMMA CancelKept ==
  ASSUME IInv, CancelInv,
         UNCHANGED <<runs, handled, crossed, cancelledOrders>>,
         done \subseteq done', \A o \in Order : active'[o] \in {active[o], 0},
         canceller'.pc \in {"cancel", "store"} => canceller' = canceller,
         poller'.pc = "store" => poller' = poller
  PROVE  CancelInv'
<1>1. canceller.pc = "store" => canceller.order \in Order
  BY DEF IInv, PollersInv, Revoked
<1>2. ActiveIsLast' /\ LoadedIsRun'
  BY DEF CancelInv, ActiveIsLast, LoadedIsRun
<1>3. HandledIsDone'
  BY DEF CancelInv, HandledIsDone
<1>4. KeptIsCrossed'
  BY <1>1 DEF CancelInv, KeptIsCrossed
<1> QED
  BY <1>2, <1>3, <1>4 DEF CancelInv

\* The order poller looks into cancelledOrders and goes on without an entry there.
LEMMA CancelLookup == IInv /\ CancelInv /\ LoadCancelled => CancelInv'
<1> SUFFICES ASSUME IInv, CancelInv, LoadCancelled PROVE CancelInv'
  OBVIOUS
<1>1. /\ UNCHANGED <<runs, handled, crossed, cancelledOrders, done, active, canceller>>
      /\ poller.order \in Order
      /\ poller'.pc = "store" => poller'.order = poller.order /\ poller.order \notin cancelledOrders
  BY DEF LoadCancelled, IInv, TypeOK, PollersInv, Handling, Idle, maps, cooking, dealings
<1>2. ActiveIsLast' /\ LoadedIsRun' /\ HandledIsDone'
  BY <1>1 DEF CancelInv, ActiveIsLast, LoadedIsRun, HandledIsDone
<1>3. poller'.pc = "store" => <<poller.order, 0>> \notin handled
  BY <1>1, MaxCopiesAssumption DEF CancelInv, HandledIsDone
<1>4. KeptIsCrossed'
  BY <1>1, <1>3 DEF CancelInv, KeptIsCrossed
<1> QED
  BY <1>2, <1>4 DEF CancelInv

\* The order poller starts a run.
LEMMA CancelStart == IInv /\ CancelInv /\ StoreActive => CancelInv'
<1> SUFFICES ASSUME IInv, CancelInv, StoreActive PROVE CancelInv'
  OBVIOUS
<1> DEFINE o == poller.order
           n == runs[o] + 1
<1>1. /\ o \in Order /\ runs' = [runs EXCEPT ![o] = n] /\ active' = [active EXCEPT ![o] = n]
      /\ poller.pc = "store" /\ poller'.pc = "read" /\ crossed' = crossed \cup Crossing
      /\ UNCHANGED <<canceller, cancelledOrders, done, handled>>
  BY DEF StoreActive, IInv, PollersInv, Handling, Idle
<1>2. /\ \A r \in Order : runs[r] \in Nat
      /\ \A r \in Order : runs'[r] = IF r = o THEN n ELSE runs[r]
      /\ \A r \in Order : active'[r] = IF r = o THEN n ELSE active[r]
      /\ canceller.pc \in {"cancel", "store"} => canceller.order \in Order
      /\ canceller.pc = "cancel" => canceller.run \in Nat
  BY <1>1 DEF IInv, TypeOK, PollersInv, Revoked
<1>3. \A r \in Order : runs'[r] >= runs[r] /\ runs'[r] \in Nat
  BY <1>2
<1>4. ActiveIsLast'
  BY <1>2 DEF CancelInv, ActiveIsLast
<1>5. LoadedIsRun'
  <2> SUFFICES ASSUME canceller.pc = "cancel"
               PROVE  canceller.run <= runs'[canceller.order]
    BY <1>1 DEF LoadedIsRun
  <2>1. canceller.run <= runs[canceller.order]
    BY DEF CancelInv, LoadedIsRun
  <2> QED
    BY <1>2, <1>3, <2>1
<1>6. HandledIsDone'
  <2> SUFFICES ASSUME NEW r \in Order, NEW m \in 0 .. MaxCopies, <<r, m>> \in handled
               PROVE  IF m = 0 THEN r \in cancelledOrders ELSE <<r, m>> \in done /\ m <= runs'[r]
    BY <1>1 DEF HandledIsDone
  <2>1. IF m = 0 THEN r \in cancelledOrders ELSE <<r, m>> \in done /\ m <= runs[r]
    BY DEF CancelInv, HandledIsDone
  <2>2. runs'[r] >= runs[r] /\ runs[r] \in Nat /\ runs'[r] \in Nat /\ m \in Nat
    BY <1>2, <1>3
  <2> QED
    BY <2>1, <2>2
<1>7. KeptIsCrossed'
  <2>1. canceller.pc = "store" /\ canceller.order = o => <<o, n>> \in crossed'
    BY <1>1 DEF Crossing
  <2>2. <<o, 0>> \in handled => <<o, n>> \in crossed'
    BY <1>1 DEF CancelInv, KeptIsCrossed
  <2> HIDE DEF o, n
  <2> QED
    BY <1>1, <1>2, <2>1, <2>2 DEF CancelInv, KeptIsCrossed
<1> QED
  BY <1>4, <1>5, <1>6, <1>7 DEF CancelInv

\* The cancellation poller makes its lookup,
LEMMA CancelLoad == IInv /\ CancelInv /\ LoadCancelFunc => CancelInv'
<1> SUFFICES ASSUME IInv, CancelInv, LoadCancelFunc PROVE CancelInv'
  OBVIOUS
<1>1. /\ UNCHANGED <<runs, handled, crossed, cancelledOrders, active, done, poller>>
      /\ canceller' = [canceller EXCEPT !.run = active[canceller.order],
                         !.pc = IF active[canceller.order] # 0 THEN "cancel" ELSE "store"]
      /\ canceller.order \in Order
  BY DEF LoadCancelFunc, IInv, PollersInv, Revoked, maps, cooking, dealings
<1>2. /\ canceller'.order = canceller.order /\ canceller'.run = active[canceller.order]
      /\ canceller'.pc = IF active[canceller.order] # 0 THEN "cancel" ELSE "store"
  BY <1>1 DEF IInv, TypeOK
<1>3. LoadedIsRun'
  <2> SUFFICES ASSUME active[canceller.order] # 0
               PROVE  active[canceller.order] <= runs[canceller.order]
    BY <1>1, <1>2 DEF LoadedIsRun
  <2>1. active[canceller.order] = runs[canceller.order] /\ runs[canceller.order] \in Nat
    BY <1>1 DEF CancelInv, ActiveIsLast, IInv, TypeOK
  <2> QED
    BY <2>1
<1>4. ActiveIsLast' /\ HandledIsDone'
  BY <1>1 DEF CancelInv, ActiveIsLast, HandledIsDone
<1>5. KeptIsCrossed'
  BY <1>1, <1>2 DEF CancelInv, KeptIsCrossed
<1> QED
  BY <1>3, <1>4, <1>5 DEF CancelInv

\* calls the CancelFunc it found,
LEMMA CancelCall == IInv /\ CancelInv /\ CallCancelFunc => CancelInv'
<1> SUFFICES ASSUME IInv, CancelInv, CallCancelFunc PROVE CancelInv'
  OBVIOUS
<1> DEFINE c == <<canceller.order, canceller.run>>
<1>1. /\ UNCHANGED <<runs, active, cancelledOrders, poller, crossed>> /\ canceller'.pc = "read"
      /\ canceller.pc = "cancel" /\ done' = done \cup {c} /\ handled' = handled \cup {c}
  BY DEF CallCancelFunc, IdleCanceller, maps
<1>2. canceller.run \in 1 .. MaxCopies /\ canceller.run <= runs[canceller.order]
  BY <1>1 DEF IInv, PollersInv, CancelInv, LoadedIsRun
<1>3. \A r : <<r, 0>> \in handled' => <<r, 0>> \in handled
  BY <1>1, <1>2
<1>4. HandledIsDone'
  <2> SUFFICES ASSUME NEW r \in Order, NEW m \in 0 .. MaxCopies, <<r, m>> \in handled'
               PROVE  IF m = 0 THEN r \in cancelledOrders ELSE <<r, m>> \in done' /\ m <= runs[r]
    BY <1>1 DEF HandledIsDone
  <2>1. CASE <<r, m>> \in handled
    BY <1>1, <2>1 DEF CancelInv, HandledIsDone
  <2>2. CASE r = canceller.order /\ m = canceller.run
    BY <1>1, <1>2, <2>2
  <2> QED
    BY <1>1, <2>1, <2>2
<1>5. ActiveIsLast' /\ LoadedIsRun' /\ KeptIsCrossed'
  BY <1>1, <1>3 DEF CancelInv, ActiveIsLast, LoadedIsRun, KeptIsCrossed
<1> QED
  BY <1>4, <1>5 DEF CancelInv

\* or keeps the order.
LEMMA CancelStore == IInv /\ CancelInv /\ StoreCancelled => CancelInv'
<1> SUFFICES ASSUME IInv, CancelInv, StoreCancelled PROVE CancelInv'
  OBVIOUS
<1> DEFINE o == canceller.order
<1>1. /\ UNCHANGED <<runs, active, done, poller>> /\ canceller.pc = "store" /\ canceller'.pc = "read"
      /\ cancelledOrders' = cancelledOrders \cup {o}
      /\ handled' = handled \cup {<<o, 0>>} /\ crossed' = crossed \cup Crossing
  BY DEF StoreCancelled, IdleCanceller, cooking
<1>2. o \in Order
  BY <1>1 DEF IInv, PollersInv, Revoked
<1>3. ActiveIsLast' /\ LoadedIsRun' /\ HandledIsDone'
  BY <1>1 DEF CancelInv, ActiveIsLast, LoadedIsRun, HandledIsDone
<1>4. poller.pc = "store" /\ poller.order = o => <<o, runs[o] + 1>> \in crossed'
  BY <1>1, <1>2 DEF Crossing
<1>5. KeptIsCrossed'
  <2> HIDE DEF o
  <2>1. \A r : <<r, 0>> \in handled' => <<r, 0>> \in handled \/ r = o
    BY <1>1
  <2>2. active[o] # 0 => <<o, active[o]>> \in crossed
    BY <1>1 DEF CancelInv, KeptIsCrossed, o
  <2> QED
    BY <1>1, <1>4, <2>1, <2>2 DEF CancelInv, KeptIsCrossed
<1> QED
  BY <1>3, <1>5 DEF CancelInv

LEMMA CancelStep == IInv /\ CancelInv /\ [Next]_vars => CancelInv'
<1> SUFFICES ASSUME IInv, CancelInv, [Next]_vars PROVE CancelInv'
  OBVIOUS
<1>t. TypeOK
  BY DEF IInv
<1> USE DEF topics, process, maps, cooking, dealings
<1>1. CASE \/ UNCHANGED vars
           \/ \E o \in Order : \/ Announce(o) \/ Revoke(o) \/ ReadOrder(o) \/ DropOrder(o)
                               \/ ReadCancellation(o) \/ DropCancellation(o)
           \/ LoadActive \/ StopPoller \/ StopCanceller \/ Stop \/ Restart
  <2>1. UNCHANGED <<runs, handled, crossed, cancelledOrders, done, active>>
    BY <1>1 DEF vars, Announce, Revoke, ReadOrder, DropOrder, ReadCancellation, DropCancellation,
                LoadActive, StopPoller, StopCanceller, Stop, Restart
  <2>2. canceller'.pc \in {"cancel", "store"} => canceller' = canceller
    BY <1>t, <1>1 DEF TypeOK, vars, Announce, Revoke, ReadOrder, DropOrder, ReadCancellation,
                DropCancellation, LoadActive, StopPoller, StopCanceller, Stop, Restart
  <2>3. poller'.pc = "store" => poller' = poller
    BY <1>t, <1>1 DEF TypeOK, Idle, vars, Announce, Revoke, ReadOrder, DropOrder, ReadCancellation,
                DropCancellation, LoadActive, StopPoller, StopCanceller, Stop, Restart
  <2> QED
    BY <2>1, <2>2, <2>3, CancelKept
<1>2. ASSUME NEW p \in Run, PipelineStep(p) PROVE CancelInv'
  <2>1. /\ UNCHANGED <<runs, handled, crossed, cancelledOrders, canceller, poller>>
        /\ done \subseteq done'
    BY <1>2 DEF PipelineStep, CheckContext, Send, SendLate, EnterSleep, Wake, Interrupted,
                Delete, Release, rest, outside
  <2>2. \A o \in Order : active'[o] \in {active[o], 0}
    BY <1>t, <1>2 DEF PipelineStep, CheckContext, Send, SendLate, EnterSleep, Wake, Interrupted,
                Delete, Release, TypeOK
  <2> QED
    BY <2>1, <2>2, CancelKept
<1>3. CASE Exit \/ Timeout \/ Crash
  <2>1. /\ UNCHANGED runs /\ active' = [o \in Order |-> 0]
        /\ poller'.pc = "read" /\ canceller'.pc = "read" /\ handled' = {}
    BY <1>3 DEF Exit, Timeout, Crash, GoDown, Idle, IdleCanceller
  <2> QED
    BY <2>1 DEF CancelInv, ActiveIsLast, LoadedIsRun, HandledIsDone, KeptIsCrossed
<1> QED
  BY <1>1, <1>2, <1>3, CancelLookup, CancelStart, CancelLoad, CancelCall, CancelStore
     DEF Next, PollerStep, CancellerStep

\* A pipeline still cooks after its process has dealt with a cancellation of its
\* order only if the two lookups crossed over this very run, or if the cancellation
\* ended an earlier run (pollKafkaOrders against pollKafkaCancelledOrders), for any
\* number of orders, copies of either message, shutdowns and crashes.
THEOREM CancelStopsHolds == Spec => []CancelStopsUnlessCrossed
<1>1. Spec => []CancelInv
  BY CancelInit, CancelStep, Invariance, PTL DEF Spec
<1>2. IInv /\ CancelInv => CancelStopsUnlessCrossed
  <2> SUFFICES ASSUME IInv, CancelInv, NEW p \in Run, Cooking(p), ~ CtxDone(p),
                      NEW c \in handled, c[1] = p[1]
               PROVE  IF c[2] = 0 THEN p \in crossed ELSE c[2] < p[2]
    BY DEF CancelStopsUnlessCrossed
  <2>1. /\ p = <<p[1], p[2]>> /\ p[1] \in Order /\ p[2] \in 1 .. MaxCopies
        /\ c = <<p[1], c[2]>> /\ c[2] \in 0 .. MaxCopies
    BY DEF Run, IInv, TypeOK
  <2>2. active[p[1]] = p[2] /\ runs[p[1]] = p[2]
    BY <2>1 DEF IInv, ActiveIsCooking, CancelInv, ActiveIsLast
  <2>3. CASE c[2] = 0
    BY <2>1, <2>2, <2>3 DEF CancelInv, KeptIsCrossed
  <2>4. CASE c[2] # 0
    <3>1. <<p[1], c[2]>> \in done /\ c[2] <= p[2]
      BY <2>1, <2>2, <2>4 DEF CancelInv, HandledIsDone
    <3>2. c[2] # p[2]
      BY <2>1, <3>1 DEF CtxDone
    <3> QED
      BY <2>1, <2>4, <3>1, <3>2
  <2> QED
    BY <2>3, <2>4
<1> QED
  BY <1>1, <1>2, Invariance, PTL
=============================================================================
