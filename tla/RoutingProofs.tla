---------------------------- MODULE RoutingProofs ----------------------------
(***************************************************************************)
(* Theorems about Routing for every number of pods, requests, sessions,    *)
(* slots and faults.                                                       *)
(*                                                                         *)
(* The inductive invariant IInv is a conjunction proved part by part:       *)
(* 1. Placed: what a request carries at each point of its way.             *)
(* 2. InFlightCounts: a guard's subtraction saturates at 0, and would hide *)
(*    a wrong count; a counted request finds its own count still there, so  *)
(*    it never does.                                                       *)
(* 3. OtherPodEachTime: each attempt adds one pod to the excluded ones.     *)
(* 4. Homes: the session an attempt uses lives on the attempt's pod, which  *)
(*    is what the table is told.                                           *)
(***************************************************************************)
EXTENDS Routing, FiniteSetTheorems, TLAPS

(* What a request carries at each point of its way.                          *)
Placed ==
  \A r \in Requests :
    /\ pc[r] \in {"asking", "sent", "working", "answered"} => at[r] \in Pods
    /\ pc[r] \in {"idle", "asking", "rejected"} => attempt[r] = 0 /\ tried[r] = {}
    /\ pc[r] \in {"idle", "asking"} => want[r] = NoSession
    /\ used[r] # NoSession => pc[r] \in {"working", "answered"}

(* The slots a pod says are free are a natural number.                       *)
LEMMA FreeIsNat ==
  ASSUME WorkersOK, NEW p \in Pods
  PROVE  Free(p) \in Nat
<1> DEFINE kept == {s \in alive : home[s] = p}
<1>1. IsFiniteSet(load[p]) /\ IsFiniteSet(kept)
  BY FS_Subset, RoutingAssumption DEF WorkersOK, RoutingAssumption
<1>2. Cardinality(load[p]) \in Nat /\ Cardinality(kept) \in Nat
  BY <1>1, FS_CardinalityType
<1> HIDE DEF kept
<1>3. Taken(p) \in Nat
  BY <1>2 DEF Taken, kept
<1> QED BY <1>3, RoutingAssumption DEF Free, RoutingAssumption

(* A count that is given back stays a natural number.                        *)
LEMMA UncountTyped ==
  ASSUME SharedOK, RequestsOK, Placed, NEW r \in Requests
  PROVE  Uncount(r) \in [Pods -> Nat]
BY DEF SharedOK, RequestsOK, Placed, Uncount

(* A pod's answer keeps the map under construction a map of pods.            *)
LEMMA StatsMapGrows ==
  ASSUME NEW m, IsStatsMap(m), NEW p \in Pods, NEW n \in Nat
  PROVE  IsStatsMap([q \in DOMAIN m \cup {p} |-> IF q = p THEN n ELSE m[q]])
<1> DEFINE more == [q \in DOMAIN m \cup {p} |-> IF q = p THEN n ELSE m[q]]
<1>1. DOMAIN more = DOMAIN m \cup {p}
  OBVIOUS
<1>2. \A q \in DOMAIN more : more[q] = IF q = p THEN n ELSE m[q]
  OBVIOUS
<1>3. more = [q \in DOMAIN more |-> more[q]]
  OBVIOUS
<1> HIDE DEF more
<1>4. IsStatsMap(more)
  BY <1>1, <1>2, <1>3 DEF IsStatsMap
<1> QED BY <1>4 DEF more

(* So does the end of a pod's turn, and of the round.                        *)
LEMMA NextPodTyped ==
  ASSUME SharedOK, NEW m, IsStatsMap(m), NextPod(m)
  PROVE  /\ IsStatsMap(cache') /\ IsStatsMap(found')
         /\ dpc' \in {"ask", "store", "swap", "known"} /\ dpod' \in Pods
<1> USE RoutingAssumption DEF RoutingAssumption
<1>0. IsStatsMap(NoStats)
  BY DEF IsStatsMap, NoStats
<1>1. dpc' \in {"ask", "store", "swap", "known"} /\ dpod' \in Pods
  BY DEF NextPod, Install, SharedOK, Pods
<1>2. (cache' = cache \/ cache' = m) /\ (found' = m \/ found' = NoStats)
  BY DEF NextPod, Install
<1> QED BY <1>0, <1>1, <1>2 DEF SharedOK

--------------------------------------------------------------------------------
(* Types, one case per action. *)

(* The state of the pods keeps its type.                                     *)
LEMMA WorkersOKStep ==
  ASSUME WorkersOK, SharedOK, RequestsOK, Placed, [Next]_vars
  PROVE  WorkersOK'
<1> USE RoutingAssumption DEF RoutingAssumption
<1>1. ASSUME NEW p \in Pods, Drain(p) PROVE WorkersOK'
  BY <1>1 DEF WorkersOK, Drain, Fault
<1>2. ASSUME NEW p \in Pods, Stop(p) PROVE WorkersOK'
  BY <1>2 DEF WorkersOK, Stop, Fault
<1>3. ASSUME NEW p \in Pods, Boot(p) PROVE WorkersOK'
  BY <1>3 DEF WorkersOK, Boot
<1>4. ASSUME NEW p \in Pods, NEW r \in Requests, FreeSlot(r, p) PROVE WorkersOK'
  BY <1>4 DEF WorkersOK, FreeSlot
<1>5. ASSUME NEW s \in Sessions, EndSession(s) PROVE WorkersOK'
  BY <1>5 DEF WorkersOK, EndSession
<1>6. ASSUME NEW s \in Sessions, ExpireSession(s) PROVE WorkersOK'
  BY <1>6 DEF WorkersOK, ExpireSession, workerVars
<1>7. ASSUME AskStats PROVE WorkersOK'
  BY <1>7 DEF WorkersOK, AskStats, Lost, Fault, workerVars
<1>8. ASSUME StoreStats PROVE WorkersOK'
  BY <1>8 DEF WorkersOK, StoreStats, workerVars
<1>9. ASSUME SwapWorkers PROVE WorkersOK'
  BY <1>9 DEF WorkersOK, SwapWorkers, workerVars
<1>10. ASSUME SwapKnown PROVE WorkersOK'
  BY <1>10 DEF WorkersOK, SwapKnown, workerVars
<1>11. ASSUME HealthRound PROVE WorkersOK'
  BY <1>11 DEF WorkersOK, HealthRound, Fault, workerVars
<1>12. ASSUME NEW r \in Requests, NEW s \in Sessions, RouteSession(r, s) PROVE WorkersOK'
  BY <1>12 DEF WorkersOK, RouteSession, workerVars
<1>13. ASSUME NEW r \in Requests, MissingScope(r) PROVE WorkersOK'
  BY <1>13 DEF WorkersOK, MissingScope, workerVars
<1>14. ASSUME NEW r \in Requests, RouteNew(r) PROVE WorkersOK'
  BY <1>14 DEF WorkersOK, RouteNew, workerVars
<1>15. ASSUME NEW r \in Requests, FreshSlots(r) PROVE WorkersOK'
  BY <1>15 DEF WorkersOK, FreshSlots, workerVars
<1>16. ASSUME NEW r \in Requests, NoFreshSlots(r) PROVE WorkersOK'
  BY <1>16 DEF WorkersOK, NoFreshSlots, Lost, Fault, workerVars
<1>17. ASSUME NEW r \in Requests, RefuseTerminating(r) PROVE WorkersOK'
  BY <1>17 DEF WorkersOK, RefuseTerminating, workerVars
<1>18. ASSUME NEW r \in Requests, RefuseFull(r) PROVE WorkersOK'
  BY <1>18 DEF WorkersOK, RefuseFull, workerVars
<1>19. ASSUME NEW r \in Requests, Admit(r) PROVE WorkersOK'
  <2>1. CASE mode = "stateless"
    BY <1>19, <2>1 DEF WorkersOK, Admit
  <2>2. CASE mode = "dedicated"
    BY <1>19, <2>2 DEF WorkersOK, Admit, Arrived, Placed
  <2> QED BY <1>19, <2>1, <2>2 DEF Admit
<1>20. ASSUME NEW r \in Requests, Continue(r) PROVE WorkersOK'
  BY <1>20 DEF WorkersOK, Continue, workerVars
<1>21. ASSUME NEW r \in Requests, NEW code \in {"ok", "error", "terminating"}, Finish(r, code)
     PROVE WorkersOK'
  BY <1>21 DEF WorkersOK, Finish
<1>22. ASSUME NEW r \in Requests, Break(r) PROVE WorkersOK'
  BY <1>22 DEF WorkersOK, Break, Lost, Fault, workerVars
<1>23. ASSUME NEW r \in Requests, Conclude(r) PROVE WorkersOK'
  BY <1>23 DEF WorkersOK, Conclude, workerVars
<1>24. ASSUME NEW r \in Requests, NEW p \in Pods, Retry(r, p) PROVE WorkersOK'
  BY <1>24 DEF WorkersOK, Retry, workerVars
<1>25. ASSUME NEW r \in Requests, Return(r) PROVE WorkersOK'
  BY <1>25 DEF WorkersOK, Return, workerVars
<1>26. ASSUME NEW r \in Requests, Abandon(r) PROVE WorkersOK'
  BY <1>26 DEF WorkersOK, Abandon, Fault, workerVars
<1>27. ASSUME UNCHANGED vars PROVE WorkersOK'
  BY <1>27 DEF WorkersOK, vars, workerVars
<1> QED
  BY <1>1, <1>2, <1>3, <1>4, <1>5, <1>6, <1>7, <1>8, <1>9, <1>10, <1>11, <1>12, <1>13, <1>14,
       <1>15, <1>16, <1>17, <1>18, <1>19, <1>20, <1>21, <1>22, <1>23, <1>24, <1>25, <1>26, <1>27
       DEF Next, Pod, Discovery, Start, Advance

(* What the coordinator's tasks share and discovery's variables keep theirs. *)
LEMMA SharedOKStep ==
  ASSUME WorkersOK, SharedOK, RequestsOK, Placed, [Next]_vars
  PROVE  SharedOK'
<1> USE RoutingAssumption DEF RoutingAssumption
<1>1. ASSUME NEW p \in Pods, Drain(p) PROVE SharedOK'
  BY <1>1 DEF SharedOK, Drain, sharedVars, discoveryVars
<1>2. ASSUME NEW p \in Pods, Stop(p) PROVE SharedOK'
  BY <1>2 DEF SharedOK, Stop, sharedVars, discoveryVars
<1>3. ASSUME NEW p \in Pods, Boot(p) PROVE SharedOK'
  BY <1>3 DEF SharedOK, Boot, sharedVars, discoveryVars
<1>4. ASSUME NEW p \in Pods, NEW r \in Requests, FreeSlot(r, p) PROVE SharedOK'
  BY <1>4 DEF SharedOK, FreeSlot, sharedVars, discoveryVars
<1>5. ASSUME NEW s \in Sessions, EndSession(s) PROVE SharedOK'
  BY <1>5 DEF SharedOK, EndSession, sharedVars, discoveryVars
<1>6. ASSUME NEW s \in Sessions, ExpireSession(s) PROVE SharedOK'
  BY <1>6 DEF SharedOK, ExpireSession, discoveryVars
<1>7. ASSUME AskStats PROVE SharedOK'
  <2>1. CASE phase[dpod] # "down" /\ stats' = Free(dpod) /\ dpc' = "store" /\ UNCHANGED <<dpod, found, cache>>
    BY <1>7, <2>1, FreeIsNat DEF AskStats, SharedOK
  <2>2. CASE NextPod(found) /\ UNCHANGED stats
    BY <1>7, <2>2, NextPodTyped DEF AskStats, SharedOK
  <2> QED BY <1>7, <2>1, <2>2 DEF AskStats
<1>8. ASSUME StoreStats PROVE SharedOK'
  <2> DEFINE more == [p \in DOMAIN found \cup {dpod} |->
                        IF p = dpod THEN stats + inflight[p] ELSE found[p]]
  <2>1. more = [p \in DOMAIN found \cup {dpod} |->
                  IF p = dpod THEN stats + inflight[dpod] ELSE found[p]]
    OBVIOUS
  <2>2. IsStatsMap(more)
    <3>1. IsStatsMap(found) /\ dpod \in Pods /\ stats + inflight[dpod] \in Nat
      BY DEF SharedOK
    <3> QED BY <2>1, <3>1, StatsMapGrows
  <2>3. NextPod(more)
    BY <1>8 DEF StoreStats
  <2> HIDE DEF more
  <2> QED BY <1>8, <2>2, <2>3, NextPodTyped DEF StoreStats, SharedOK
<1>9. ASSUME SwapWorkers PROVE SharedOK'
  <2>1. IsStatsMap(NoStats)
    BY DEF IsStatsMap, NoStats
  <2> QED BY <1>9, <2>1 DEF SharedOK, SwapWorkers, Install
<1>10. ASSUME SwapKnown PROVE SharedOK'
  BY <1>10 DEF SharedOK, SwapKnown
<1>11. ASSUME HealthRound PROVE SharedOK'
  <2>1. healthy' \subseteq Pods
    BY <1>11 DEF HealthRound, SharedOK, IsStatsMap
  <2> QED BY <1>11, <2>1 DEF HealthRound, SharedOK, discoveryVars
<1>12. ASSUME NEW r \in Requests, NEW s \in Sessions, RouteSession(r, s) PROVE SharedOK'
  BY <1>12 DEF SharedOK, RouteSession, Send, discoveryVars
<1>13. ASSUME NEW r \in Requests, MissingScope(r) PROVE SharedOK'
  BY <1>13 DEF SharedOK, MissingScope, sharedVars, discoveryVars
<1>14. ASSUME NEW r \in Requests, RouteNew(r) PROVE SharedOK'
  <2>1. PICK p \in MostFree(Routable) :
          inflight' = [inflight EXCEPT ![p] = @ + 1] \/ inflight' = inflight
    BY <1>14 DEF RouteNew, Send
  <2>2. p \in Pods
    BY DEF MostFree, Routable, SharedOK, IsStatsMap
  <2> QED BY <1>14, <2>1, <2>2 DEF RouteNew, SharedOK, sharedVars, discoveryVars
<1>15. ASSUME NEW r \in Requests, FreshSlots(r) PROVE SharedOK'
  BY <1>15 DEF SharedOK, Placed, FreshSlots, Send, sharedVars, discoveryVars
<1>16. ASSUME NEW r \in Requests, NoFreshSlots(r) PROVE SharedOK'
  BY <1>16 DEF SharedOK, NoFreshSlots, sharedVars, discoveryVars
<1>17. ASSUME NEW r \in Requests, RefuseTerminating(r) PROVE SharedOK'
  BY <1>17 DEF SharedOK, RefuseTerminating, sharedVars, discoveryVars
<1>18. ASSUME NEW r \in Requests, RefuseFull(r) PROVE SharedOK'
  BY <1>18 DEF SharedOK, RefuseFull, sharedVars, discoveryVars
<1>19. ASSUME NEW r \in Requests, Admit(r) PROVE SharedOK'
  BY <1>19 DEF SharedOK, Admit, sharedVars, discoveryVars
<1>20. ASSUME NEW r \in Requests, Continue(r) PROVE SharedOK'
  BY <1>20 DEF SharedOK, Continue, sharedVars, discoveryVars
<1>21. ASSUME NEW r \in Requests, NEW code \in {"ok", "error", "terminating"}, Finish(r, code)
     PROVE SharedOK'
  BY <1>21 DEF SharedOK, Finish, sharedVars, discoveryVars
<1>22. ASSUME NEW r \in Requests, Break(r) PROVE SharedOK'
  BY <1>22 DEF SharedOK, Break, sharedVars, discoveryVars
<1>23. ASSUME NEW r \in Requests, Conclude(r) PROVE SharedOK'
  BY <1>23, UncountTyped DEF SharedOK, RequestsOK, Conclude, Forget, discoveryVars
<1>24. ASSUME NEW r \in Requests, NEW p \in Pods, Retry(r, p) PROVE SharedOK'
  BY <1>24, UncountTyped DEF SharedOK, Retry, sharedVars, discoveryVars
<1>25. ASSUME NEW r \in Requests, Return(r) PROVE SharedOK'
  BY <1>25, UncountTyped DEF SharedOK, Return, Forget, sharedVars, discoveryVars
<1>26. ASSUME NEW r \in Requests, Abandon(r) PROVE SharedOK'
  BY <1>26, UncountTyped DEF SharedOK, Abandon, Forget, sharedVars, discoveryVars
<1>27. ASSUME UNCHANGED vars PROVE SharedOK'
  BY <1>27 DEF SharedOK, vars, sharedVars, discoveryVars
<1> QED
  BY <1>1, <1>2, <1>3, <1>4, <1>5, <1>6, <1>7, <1>8, <1>9, <1>10, <1>11, <1>12, <1>13, <1>14,
       <1>15, <1>16, <1>17, <1>18, <1>19, <1>20, <1>21, <1>22, <1>23, <1>24, <1>25, <1>26, <1>27
       DEF Next, Pod, Discovery, Start, Advance

(* A request's variables keep theirs; no fourth attempt is made.             *)
LEMMA RequestsOKStep ==
  ASSUME WorkersOK, SharedOK, RequestsOK, Placed, [Next]_vars
  PROVE  RequestsOK'
<1> USE RoutingAssumption DEF RoutingAssumption
<1>1. ASSUME NEW p \in Pods, Drain(p) PROVE RequestsOK'
  BY <1>1 DEF RequestsOK, WorkerAnswers, Rejections, NoAnswer, Drain, requestVars
<1>2. ASSUME NEW p \in Pods, Stop(p) PROVE RequestsOK'
  BY <1>2 DEF RequestsOK, WorkerAnswers, Rejections, NoAnswer, Stop, requestVars
<1>3. ASSUME NEW p \in Pods, Boot(p) PROVE RequestsOK'
  BY <1>3 DEF RequestsOK, WorkerAnswers, Rejections, NoAnswer, Boot, requestVars
<1>4. ASSUME NEW p \in Pods, NEW r \in Requests, FreeSlot(r, p) PROVE RequestsOK'
  BY <1>4 DEF RequestsOK, WorkerAnswers, Rejections, NoAnswer, FreeSlot, requestVars
<1>5. ASSUME NEW s \in Sessions, EndSession(s) PROVE RequestsOK'
  BY <1>5 DEF RequestsOK, WorkerAnswers, Rejections, NoAnswer, EndSession, requestVars
<1>6. ASSUME NEW s \in Sessions, ExpireSession(s) PROVE RequestsOK'
  BY <1>6 DEF RequestsOK, WorkerAnswers, Rejections, NoAnswer, ExpireSession, requestVars
<1>7. ASSUME AskStats PROVE RequestsOK'
  BY <1>7 DEF RequestsOK, WorkerAnswers, Rejections, NoAnswer, AskStats, requestVars
<1>8. ASSUME StoreStats PROVE RequestsOK'
  BY <1>8 DEF RequestsOK, WorkerAnswers, Rejections, NoAnswer, StoreStats, requestVars
<1>9. ASSUME SwapWorkers PROVE RequestsOK'
  BY <1>9 DEF RequestsOK, WorkerAnswers, Rejections, NoAnswer, SwapWorkers, requestVars
<1>10. ASSUME SwapKnown PROVE RequestsOK'
  BY <1>10 DEF RequestsOK, WorkerAnswers, Rejections, NoAnswer, SwapKnown, requestVars
<1>11. ASSUME HealthRound PROVE RequestsOK'
  BY <1>11 DEF RequestsOK, WorkerAnswers, Rejections, NoAnswer, HealthRound, requestVars
<1>12. ASSUME NEW r \in Requests, NEW s \in Sessions, RouteSession(r, s) PROVE RequestsOK'
  BY <1>12 DEF RequestsOK, SharedOK, IsStatsMap, Placed, RouteSession, Call, Send, Reject,
       Rejections, NoPod
<1>13. ASSUME NEW r \in Requests, MissingScope(r) PROVE RequestsOK'
  BY <1>13 DEF RequestsOK, WorkerAnswers, Rejections, NoAnswer, MissingScope, Reject
<1>14. ASSUME NEW r \in Requests, RouteNew(r) PROVE RequestsOK'
  <2>1. PICK p \in MostFree(Routable) :
          IF Estimate(p) > 0
            THEN Send(r, p, NoSession)
            ELSE /\ pc' = [pc EXCEPT ![r] = "asking"]
                 /\ at' = [at EXCEPT ![r] = p]
                 /\ UNCHANGED <<attempt, inflight>>
    BY <1>14 DEF RouteNew
  <2>2. p \in Pods
    BY DEF MostFree, Routable, SharedOK, IsStatsMap
  <2>3. attempt[r] = 0
    BY <1>14 DEF RouteNew, Call, Placed
  <2> QED BY <1>14, <2>1, <2>2, <2>3 DEF RouteNew, Send, RequestsOK
<1>15. ASSUME NEW r \in Requests, FreshSlots(r) PROVE RequestsOK'
  BY <1>15 DEF RequestsOK, Placed, FreshSlots, Send
<1>16. ASSUME NEW r \in Requests, NoFreshSlots(r) PROVE RequestsOK'
  BY <1>16 DEF RequestsOK, WorkerAnswers, Rejections, NoAnswer, NoFreshSlots, Reject
<1>17. ASSUME NEW r \in Requests, RefuseTerminating(r) PROVE RequestsOK'
  BY <1>17 DEF RequestsOK, WorkerAnswers, Rejections, NoAnswer, RefuseTerminating, Reply
<1>18. ASSUME NEW r \in Requests, RefuseFull(r) PROVE RequestsOK'
  BY <1>18 DEF RequestsOK, WorkerAnswers, Rejections, NoAnswer, RefuseFull, Reply
<1>19. ASSUME NEW r \in Requests, Admit(r) PROVE RequestsOK'
  BY <1>19 DEF RequestsOK, WorkerAnswers, Rejections, NoAnswer, Admit
<1>20. ASSUME NEW r \in Requests, Continue(r) PROVE RequestsOK'
  BY <1>20 DEF RequestsOK, WorkerAnswers, Rejections, NoAnswer, Continue, Reply
<1>21. ASSUME NEW r \in Requests, NEW code \in {"ok", "error", "terminating"}, Finish(r, code)
     PROVE RequestsOK'
  BY <1>21 DEF RequestsOK, WorkerAnswers, Rejections, NoAnswer, Finish, Reply
<1>22. ASSUME NEW r \in Requests, Break(r) PROVE RequestsOK'
  BY <1>22 DEF RequestsOK, WorkerAnswers, Rejections, NoAnswer, Break, Reply
<1>23. ASSUME NEW r \in Requests, Conclude(r) PROVE RequestsOK'
  BY <1>23 DEF RequestsOK, WorkerAnswers, Rejections, NoAnswer, Conclude, Forget
<1>24. ASSUME NEW r \in Requests, NEW p \in Pods, Retry(r, p) PROVE RequestsOK'
  <2>1. attempt[r] + 1 \in 0..3
    BY <1>24 DEF Retry, MaxAttempts, RequestsOK
  <2> QED BY <1>24, <2>1 DEF Retry, RequestsOK, Placed, NoAnswer
<1>25. ASSUME NEW r \in Requests, Return(r) PROVE RequestsOK'
  BY <1>25 DEF RequestsOK, WorkerAnswers, Rejections, NoAnswer, Return, Forget
<1>26. ASSUME NEW r \in Requests, Abandon(r) PROVE RequestsOK'
  BY <1>26 DEF RequestsOK, WorkerAnswers, Rejections, NoAnswer, Abandon, Forget
<1>27. ASSUME UNCHANGED vars PROVE RequestsOK'
  BY <1>27 DEF RequestsOK, WorkerAnswers, Rejections, NoAnswer, vars, requestVars
<1> QED
  BY <1>1, <1>2, <1>3, <1>4, <1>5, <1>6, <1>7, <1>8, <1>9, <1>10, <1>11, <1>12, <1>13, <1>14,
       <1>15, <1>16, <1>17, <1>18, <1>19, <1>20, <1>21, <1>22, <1>23, <1>24, <1>25, <1>26, <1>27
       DEF Next, Pod, Discovery, Start, Advance

--------------------------------------------------------------------------------
(* Pods, discovery and the monitor touch no request and no count; of the     *)
(* sessions they only forget.                                                *)
RequestStep == \E r \in Requests : Start(r) \/ Advance(r) \/ Return(r) \/ Abandon(r)

OtherStep ==
  /\ UNCHANGED <<requestVars, inflight, home>>
  /\ \A s \in Sessions : table'[s] \in {table[s], NoPod}

(* Every step is one of the two kinds.                                      *)
LEMMA StepKinds ==
  ASSUME SharedOK, [Next]_vars
  PROVE  RequestStep \/ OtherStep
<1>1. ASSUME UNCHANGED <<requestVars, inflight, home, table>> PROVE OtherStep
  BY <1>1 DEF OtherStep
<1>2. ASSUME NEW s \in Sessions, ExpireSession(s) PROVE OtherStep
  BY <1>2 DEF ExpireSession, OtherStep, SharedOK, workerVars
<1>3. ASSUME NEW p \in Pods, Pod(p) PROVE UNCHANGED <<requestVars, inflight, home, table>>
  BY <1>3 DEF Pod, Drain, Stop, Boot, FreeSlot, sharedVars
<1>4. ASSUME NEW s \in Sessions, EndSession(s) PROVE UNCHANGED <<requestVars, inflight, home,
     table>>
  BY <1>4 DEF EndSession, sharedVars
<1>5. ASSUME Discovery PROVE UNCHANGED <<requestVars, inflight, home, table>>
  BY <1>5 DEF Discovery, AskStats, StoreStats, SwapWorkers, SwapKnown, workerVars
<1>6. ASSUME HealthRound PROVE UNCHANGED <<requestVars, inflight, home, table>>
  BY <1>6 DEF HealthRound, workerVars
<1>7. ASSUME UNCHANGED vars PROVE UNCHANGED <<requestVars, inflight, home, table>>
  BY <1>7 DEF vars, workerVars, sharedVars
<1> QED BY <1>1, <1>2, <1>3, <1>4, <1>5, <1>6, <1>7 DEF Next, RequestStep

(* Every step keeps a request and what it has been through in line.           *)
LEMMA PlacedStep ==
  ASSUME SharedOK, RequestsOK, Placed, [Next]_vars
  PROVE  Placed'
<1> USE RoutingAssumption DEF RoutingAssumption
<1>1. CASE OtherStep
  BY <1>1 DEF OtherStep, requestVars, Placed
<1>2. ASSUME NEW r \in Requests, NEW s \in Sessions, RouteSession(r, s) PROVE Placed'
  BY <1>2 DEF Placed, RequestsOK, SharedOK, IsStatsMap, RouteSession, Call, Send, Reject
<1>3. ASSUME NEW r \in Requests, MissingScope(r) PROVE Placed'
  BY <1>3 DEF Placed, RequestsOK, MissingScope, Call, Reject
<1>4. ASSUME NEW r \in Requests, RouteNew(r) PROVE Placed'
  <2>1. PICK p \in Pods :
          /\ at' = [at EXCEPT ![r] = p]
          /\ \/ pc' = [pc EXCEPT ![r] = "asking"] /\ UNCHANGED <<attempt, inflight>>
             \/ Send(r, p, NoSession)
    BY <1>4 DEF RouteNew, MostFree, Routable, SharedOK, IsStatsMap, Send
  <2> QED BY <1>4, <2>1 DEF RouteNew, Call, Send, Placed, RequestsOK
<1>5. ASSUME NEW r \in Requests, FreshSlots(r) PROVE Placed'
  BY <1>5 DEF Placed, RequestsOK, FreshSlots, Send
<1>6. ASSUME NEW r \in Requests, NoFreshSlots(r) PROVE Placed'
  BY <1>6 DEF Placed, RequestsOK, NoFreshSlots, Reject
<1>7. ASSUME NEW r \in Requests, RefuseTerminating(r) PROVE Placed'
  BY <1>7 DEF Placed, RequestsOK, RefuseTerminating, Arrived, Reply
<1>8. ASSUME NEW r \in Requests, RefuseFull(r) PROVE Placed'
  BY <1>8 DEF Placed, RequestsOK, RefuseFull, Arrived, Reply
<1>9. ASSUME NEW r \in Requests, Admit(r) PROVE Placed'
  BY <1>9 DEF Placed, RequestsOK, Admit, Arrived
<1>10. ASSUME NEW r \in Requests, Continue(r) PROVE Placed'
  BY <1>10 DEF Placed, RequestsOK, Continue, Arrived, Reply
<1>11. ASSUME NEW r \in Requests, NEW code \in {"ok", "error", "terminating"}, Finish(r, code)
     PROVE Placed'
  BY <1>11 DEF Placed, RequestsOK, Finish, Reply
<1>12. ASSUME NEW r \in Requests, Break(r) PROVE Placed'
  BY <1>12 DEF Placed, RequestsOK, Break, Reply
<1>13. ASSUME NEW r \in Requests, Conclude(r) PROVE Placed'
  BY <1>13 DEF Placed, RequestsOK, Conclude, Forget
<1>14. ASSUME NEW r \in Requests, NEW p \in Pods, Retry(r, p) PROVE Placed'
  BY <1>14 DEF Placed, RequestsOK, Retry
<1>15. ASSUME NEW r \in Requests, Return(r) PROVE Placed'
  BY <1>15 DEF Placed, RequestsOK, Return, Forget
<1>16. ASSUME NEW r \in Requests, Abandon(r) PROVE Placed'
  BY <1>16 DEF Placed, RequestsOK, Abandon, Forget
<1> QED
  BY StepKinds, <1>1, <1>2, <1>3, <1>4, <1>5, <1>6, <1>7, <1>8, <1>9, <1>10, <1>11, <1>12, <1>13,
       <1>14, <1>15, <1>16 DEF RequestStep, Start, Advance

--------------------------------------------------------------------------------
(* The in-flight count: what the guards of the attempts add up to.           *)
CountedAt(p) == {r \in Requests : Counted(r) /\ at[r] = p}

(* A step that moves no guard.                                               *)
LEMMA CountSame ==
  ASSUME InFlightCounts, inflight' = inflight,
         \A r \in Requests : (Counted(r))' = Counted(r) /\ (Counted(r) => at'[r] = at[r])
  PROVE  InFlightCounts'
<1>1. \A p \in Pods : {r \in Requests : Counted(r) /\ at[r] = p}' = {r \in Requests : Counted(r) /\ at[r] = p}
  OBVIOUS
<1> QED BY <1>1 DEF InFlightCounts

(* The requests counted at a pod are finitely many.                          *)
LEMMA CountsFinite ==
  ASSUME NEW p \in Pods
  PROVE  IsFiniteSet(CountedAt(p)) /\ Cardinality(CountedAt(p)) \in Nat
<1>1. IsFiniteSet(CountedAt(p))
  BY FS_Subset, RoutingAssumption DEF CountedAt, RoutingAssumption
<1> QED BY <1>1, FS_CardinalityType

(* A guard is created for a request that had none.                           *)
LEMMA CountMore ==
  ASSUME SharedOK, InFlightCounts, NEW r \in Requests, NEW p \in Pods,
         inflight' = [inflight EXCEPT ![p] = @ + 1],
         ~Counted(r), (Counted(r))', at'[r] = p,
         \A q \in Requests \ {r} : (Counted(q))' = Counted(q) /\ at'[q] = at[q]
  PROVE  InFlightCounts'
<1> SUFFICES ASSUME NEW q \in Pods PROVE inflight'[q] = Cardinality(CountedAt(q)')
  BY DEF InFlightCounts, CountedAt
<1>1. r \notin CountedAt(q) /\ inflight[q] = Cardinality(CountedAt(q))
  BY DEF CountedAt, InFlightCounts
<1>2. CASE q = p
  <2>1. CountedAt(q)' = CountedAt(q) \cup {r}
    BY <1>2 DEF CountedAt
  <2>2. Cardinality(CountedAt(q) \cup {r}) = Cardinality(CountedAt(q)) + 1
    BY <1>1, CountsFinite, FS_AddElement
  <2> QED BY <1>1, <1>2, <2>1, <2>2 DEF SharedOK
<1>3. CASE q # p
  <2>1. CountedAt(q)' = CountedAt(q)
    BY <1>3 DEF CountedAt
  <2> QED BY <1>1, <1>3, <2>1 DEF SharedOK
<1> QED BY <1>2, <1>3

(* A counted request finds its own count, so the guard's saturating          *)
(* subtraction subtracts.                                                    *)
LEMMA UncountExact ==
  ASSUME SharedOK, RequestsOK, Placed, InFlightCounts, NEW r \in Requests
  PROVE  /\ Uncount(r) \in [Pods -> Nat]
         /\ \A p \in Pods : Uncount(r)[p] = Cardinality(CountedAt(p) \ {r})
<1>1. Uncount(r) \in [Pods -> Nat]
  BY UncountTyped
<1> SUFFICES ASSUME NEW p \in Pods PROVE Uncount(r)[p] = Cardinality(CountedAt(p) \ {r})
  BY <1>1
<1>2. IsFiniteSet(CountedAt(p)) /\ Cardinality(CountedAt(p)) \in Nat
  BY CountsFinite
<1>3. inflight[p] = Cardinality(CountedAt(p))
  BY DEF InFlightCounts, CountedAt
<1>4. CASE r \in CountedAt(p)
  <2>1. Cardinality(CountedAt(p) \ {r}) = Cardinality(CountedAt(p)) - 1
    BY <1>2, <1>4, FS_RemoveElement
  <2>2. Cardinality(CountedAt(p)) # 0
    BY <1>2, <1>4, FS_EmptySet
  <2>3. Uncount(r)[p] = IF inflight[p] > 0 THEN inflight[p] - 1 ELSE 0
    BY <1>4 DEF Uncount, CountedAt, Counted, SharedOK
  <2> QED BY <1>2, <1>3, <2>1, <2>2, <2>3
<1>5. CASE r \notin CountedAt(p)
  <2>1. CountedAt(p) \ {r} = CountedAt(p)
    BY <1>5
  <2>2. Uncount(r)[p] = inflight[p]
    BY <1>5 DEF Uncount, CountedAt, Counted, SharedOK
  <2> QED BY <1>3, <2>1, <2>2
<1> QED BY <1>4, <1>5

(* A guard is dropped with the attempt, however the attempt ends.            *)
LEMMA CountLess ==
  ASSUME SharedOK, RequestsOK, Placed, InFlightCounts, NEW r \in Requests,
         inflight' = Uncount(r), ~(Counted(r))',
         \A q \in Requests \ {r} : (Counted(q))' = Counted(q) /\ at'[q] = at[q]
  PROVE  InFlightCounts'
<1> SUFFICES ASSUME NEW p \in Pods PROVE inflight'[p] = Cardinality(CountedAt(p)')
  BY DEF InFlightCounts, CountedAt
<1>1. CountedAt(p)' = CountedAt(p) \ {r}
  BY DEF CountedAt
<1> QED BY <1>1, UncountExact

(* A retry moves its count from one pod to another.                          *)
LEMMA CountMoves ==
  ASSUME SharedOK, RequestsOK, Placed, InFlightCounts, NEW r \in Requests, NEW p \in Pods,
         Counted(r), (Counted(r))', at'[r] = p,
         inflight' = [Uncount(r) EXCEPT ![p] = @ + 1],
         \A q \in Requests \ {r} : (Counted(q))' = Counted(q) /\ at'[q] = at[q]
  PROVE  InFlightCounts'
<1> SUFFICES ASSUME NEW q \in Pods PROVE inflight'[q] = Cardinality(CountedAt(q)')
  BY DEF InFlightCounts, CountedAt
<1> DEFINE rest == CountedAt(q) \ {r}
<1>1. IsFiniteSet(rest) /\ r \notin rest
  BY CountsFinite, FS_RemoveElement
<1>2. Uncount(r) \in [Pods -> Nat] /\ Uncount(r)[q] = Cardinality(rest)
  BY UncountExact
<1>3. CASE q = p
  <2>1. CountedAt(q)' = rest \cup {r}
    BY <1>3 DEF CountedAt
  <2>2. Cardinality(rest \cup {r}) = Cardinality(rest) + 1
    BY <1>1, FS_AddElement
  <2>3. inflight'[q] = Uncount(r)[q] + 1
    BY <1>2, <1>3
  <2> QED BY <1>2, <2>1, <2>2, <2>3
<1>4. CASE q # p
  <2>1. CountedAt(q)' = rest
    BY <1>4 DEF CountedAt
  <2>2. inflight'[q] = Uncount(r)[q]
    BY <1>2, <1>4
  <2> QED BY <1>2, <2>1, <2>2
<1> QED BY <1>3, <1>4

(* Every step keeps the count exact.                                          *)
LEMMA CountStep ==
  ASSUME SharedOK, RequestsOK, Placed, InFlightCounts, [Next]_vars
  PROVE  InFlightCounts'
<1> USE RoutingAssumption DEF RoutingAssumption
<1>1. CASE OtherStep
  BY <1>1, CountSame DEF OtherStep, requestVars, Counted
<1>2. ASSUME NEW r \in Requests, NEW s \in Sessions, RouteSession(r, s) PROVE InFlightCounts'
  <2>1. pc[r] = "idle" /\ s # NoSession
    BY <1>2 DEF RouteSession, Call
  <2>2. inflight' = inflight
    BY <1>2, <2>1 DEF RouteSession, Send
  <2>3. pc' = [pc EXCEPT ![r] = "sent"] \/ pc' = [pc EXCEPT ![r] = "rejected"]
    BY <1>2 DEF RouteSession, Send, Reject
  <2>4. want' = [want EXCEPT ![r] = s]
    BY <1>2 DEF RouteSession
  <2>5. \A q \in Requests \ {r} : at'[q] = at[q]
    BY <1>2 DEF RouteSession, Send, RequestsOK
  <2>6. \A q \in Requests : (Counted(q))' = Counted(q) /\ (Counted(q) => at'[q] = at[q])
    BY <2>1, <2>3, <2>4, <2>5 DEF Counted, RequestsOK
  <2> QED BY <2>2, <2>6, CountSame
<1>3. ASSUME NEW r \in Requests, MissingScope(r) PROVE InFlightCounts'
  BY <1>3, CountSame DEF Counted, RequestsOK, MissingScope, Call, Reject
<1>4. ASSUME NEW r \in Requests, RouteNew(r) PROVE InFlightCounts'
  <2>1. PICK p \in Pods :
          /\ at' = [at EXCEPT ![r] = p]
          /\ \/ pc' = [pc EXCEPT ![r] = "asking"] /\ UNCHANGED <<attempt, inflight>>
             \/ Send(r, p, NoSession)
    BY <1>4 DEF RouteNew, MostFree, Routable, SharedOK, IsStatsMap, Send
  <2>2. pc[r] = "idle" /\ want[r] = NoSession /\ want' = want
    BY <1>4 DEF RouteNew, Call, Placed
  <2>3. CASE pc' = [pc EXCEPT ![r] = "asking"] /\ UNCHANGED <<attempt, inflight>>
    BY <2>1, <2>2, <2>3, CountSame DEF Counted, RequestsOK
  <2>4. CASE Send(r, p, NoSession)
    BY <2>1, <2>2, <2>4, CountMore DEF Counted, RequestsOK, Send
  <2> QED BY <2>1, <2>3, <2>4
<1>5. ASSUME NEW r \in Requests, FreshSlots(r) PROVE InFlightCounts'
  <2>1. pc[r] = "asking" /\ want[r] = NoSession /\ want' = want /\ at[r] \in Pods
    BY <1>5 DEF FreshSlots, Placed
  <2> QED BY <1>5, <2>1, CountMore DEF FreshSlots, Send, Counted, RequestsOK
<1>6. ASSUME NEW r \in Requests, NoFreshSlots(r) PROVE InFlightCounts'
  BY <1>6, CountSame DEF Counted, RequestsOK, NoFreshSlots, Reject
<1>7. ASSUME NEW r \in Requests, RefuseTerminating(r) PROVE InFlightCounts'
  BY <1>7, CountSame DEF Counted, RequestsOK, RefuseTerminating, Arrived, Reply
<1>8. ASSUME NEW r \in Requests, RefuseFull(r) PROVE InFlightCounts'
  BY <1>8, CountSame DEF Counted, RequestsOK, RefuseFull, Arrived, Reply
<1>9. ASSUME NEW r \in Requests, Admit(r) PROVE InFlightCounts'
  BY <1>9, CountSame DEF Counted, RequestsOK, Admit, Arrived
<1>10. ASSUME NEW r \in Requests, Continue(r) PROVE InFlightCounts'
  BY <1>10, CountSame DEF Counted, RequestsOK, Continue, Arrived, Reply
<1>11. ASSUME NEW r \in Requests, NEW code \in {"ok", "error", "terminating"}, Finish(r, code)
     PROVE InFlightCounts'
  BY <1>11, CountSame DEF Counted, RequestsOK, Finish, Reply
<1>12. ASSUME NEW r \in Requests, Break(r) PROVE InFlightCounts'
  BY <1>12, CountSame DEF Counted, RequestsOK, Break, Reply
<1>13. ASSUME NEW r \in Requests, Conclude(r) PROVE InFlightCounts'
  BY <1>13, CountLess DEF Counted, RequestsOK, Conclude, Forget
<1>14. ASSUME NEW r \in Requests, NEW p \in Pods, Retry(r, p) PROVE InFlightCounts'
  <2>1. pc[r] = "answered" /\ want' = want /\ pc' = [pc EXCEPT ![r] = "sent"] /\ at' = [at EXCEPT ![r] = p]
    BY <1>14 DEF Retry
  <2>2. \A q \in Requests \ {r} : (Counted(q))' = Counted(q) /\ at'[q] = at[q]
    BY <2>1 DEF Counted, RequestsOK
  <2>3. CASE want[r] = NoSession
    <3>1. Counted(r) /\ (Counted(r))' /\ at'[r] = p
      BY <2>1, <2>3 DEF Counted, RequestsOK
    <3>2. inflight' = [Uncount(r) EXCEPT ![p] = @ + 1]
      BY <1>14, <2>3 DEF Retry
    <3> QED BY <2>2, <3>1, <3>2, CountMoves
  <2>4. CASE want[r] # NoSession
    <3>1. ~(Counted(r))' /\ inflight' = Uncount(r)
      BY <1>14, <2>1, <2>4 DEF Retry, Counted
    <3> QED BY <2>2, <3>1, CountLess
  <2> QED BY <2>3, <2>4
<1>15. ASSUME NEW r \in Requests, Return(r) PROVE InFlightCounts'
  BY <1>15, CountLess DEF Counted, RequestsOK, Return, Forget, sharedVars
<1>16. ASSUME NEW r \in Requests, Abandon(r) PROVE InFlightCounts'
  BY <1>16, CountLess DEF Counted, RequestsOK, Abandon, Forget, sharedVars
<1> QED
  BY StepKinds, <1>1, <1>2, <1>3, <1>4, <1>5, <1>6, <1>7, <1>8, <1>9, <1>10, <1>11, <1>12, <1>13,
       <1>14, <1>15, <1>16 DEF RequestStep, Start, Advance

--------------------------------------------------------------------------------
(* Retries. *)

(* So are the pods a request has tried.                                      *)
LEMMA TriedFinite ==
  ASSUME RequestsOK, NEW r \in Requests
  PROVE  IsFiniteSet(tried[r]) /\ Cardinality(tried[r]) \in Nat
<1>1. IsFiniteSet(Pods)
  BY FS_Interval, RoutingAssumption DEF Pods, RoutingAssumption
<1>2. IsFiniteSet(tried[r])
  BY <1>1, FS_Subset DEF RequestsOK
<1> QED BY <1>2, FS_CardinalityType

(* The first attempt has nothing to avoid.                                   *)
LEMMA FirstAttempt ==
  ASSUME RequestsOK, Placed, OtherPodEachTime, NEW r \in Requests, NEW p \in Pods,
         pc[r] \in {"idle", "asking"}, tried' = tried,
         pc' = [pc EXCEPT ![r] = "sent"], at' = [at EXCEPT ![r] = p],
         attempt' = [attempt EXCEPT ![r] = @ + 1]
  PROVE  OtherPodEachTime'
<1>1. Cardinality({}) = 0
  BY FS_EmptySet
<1>2. at'[r] \notin tried'[r] /\ Cardinality(tried'[r]) = attempt'[r] - 1
  <2>1. tried[r] = {} /\ attempt[r] = 0
    BY DEF Placed
  <2>2. at'[r] = p /\ attempt'[r] = attempt[r] + 1 /\ tried'[r] = tried[r]
    BY DEF RequestsOK
  <2>3. Cardinality(tried'[r]) = 0
    BY <1>1, <2>1, <2>2
  <2> QED BY <2>1, <2>2, <2>3
<1>3. \A q \in Requests \ {r} : pc'[q] = pc[q] /\ at'[q] = at[q] /\ tried'[q] = tried[q] /\ attempt'[q] = attempt[q]
  BY DEF RequestsOK
<1> QED BY <1>2, <1>3 DEF OtherPodEachTime

(* Every step keeps an attempt apart from the pods tried before it.            *)
LEMMA OtherPodStep ==
  ASSUME SharedOK, RequestsOK, Placed, OtherPodEachTime, [Next]_vars
  PROVE  OtherPodEachTime'
<1>1. CASE OtherStep
  BY <1>1 DEF OtherStep, requestVars, OtherPodEachTime
<1>2. ASSUME NEW r \in Requests, NEW s \in Sessions, RouteSession(r, s) PROVE OtherPodEachTime'
  <2>1. CASE table[s] \in DOMAIN cache
    BY <1>2, <2>1, FirstAttempt DEF RouteSession, Call, Send, SharedOK, IsStatsMap
  <2>2. CASE table[s] \notin DOMAIN cache
    BY <1>2, <2>2 DEF RouteSession, Reject, OtherPodEachTime, RequestsOK
  <2> QED BY <2>1, <2>2
<1>3. ASSUME NEW r \in Requests, MissingScope(r) PROVE OtherPodEachTime'
  BY <1>3 DEF OtherPodEachTime, Placed, RequestsOK, MissingScope, Call, Reject
<1>4. ASSUME NEW r \in Requests, RouteNew(r) PROVE OtherPodEachTime'
  <2>1. PICK p \in Pods :
          /\ at' = [at EXCEPT ![r] = p]
          /\ \/ pc' = [pc EXCEPT ![r] = "asking"] /\ UNCHANGED <<attempt, inflight>>
             \/ Send(r, p, NoSession)
    BY <1>4 DEF RouteNew, MostFree, Routable, SharedOK, IsStatsMap, Send
  <2>2. CASE pc' = [pc EXCEPT ![r] = "asking"] /\ UNCHANGED <<attempt, inflight>>
    BY <1>4, <2>1, <2>2 DEF RouteNew, OtherPodEachTime, RequestsOK
  <2>3. CASE Send(r, p, NoSession)
    BY <1>4, <2>3, FirstAttempt DEF RouteNew, Call, Send
  <2> QED BY <2>1, <2>2, <2>3
<1>5. ASSUME NEW r \in Requests, FreshSlots(r) PROVE OtherPodEachTime'
  BY <1>5, FirstAttempt DEF FreshSlots, Send, Placed
<1>6. ASSUME NEW r \in Requests, NoFreshSlots(r) PROVE OtherPodEachTime'
  BY <1>6 DEF OtherPodEachTime, Placed, RequestsOK, NoFreshSlots, Reject
<1>7. ASSUME NEW r \in Requests, RefuseTerminating(r) PROVE OtherPodEachTime'
  BY <1>7 DEF OtherPodEachTime, Placed, RequestsOK, RefuseTerminating, Arrived, Reply
<1>8. ASSUME NEW r \in Requests, RefuseFull(r) PROVE OtherPodEachTime'
  BY <1>8 DEF OtherPodEachTime, Placed, RequestsOK, RefuseFull, Arrived, Reply
<1>9. ASSUME NEW r \in Requests, Admit(r) PROVE OtherPodEachTime'
  BY <1>9 DEF OtherPodEachTime, Placed, RequestsOK, Admit, Arrived
<1>10. ASSUME NEW r \in Requests, Continue(r) PROVE OtherPodEachTime'
  BY <1>10 DEF OtherPodEachTime, Placed, RequestsOK, Continue, Arrived, Reply
<1>11. ASSUME NEW r \in Requests, NEW code \in {"ok", "error", "terminating"}, Finish(r, code)
     PROVE OtherPodEachTime'
  BY <1>11 DEF OtherPodEachTime, Placed, RequestsOK, Finish, Reply
<1>12. ASSUME NEW r \in Requests, Break(r) PROVE OtherPodEachTime'
  BY <1>12 DEF OtherPodEachTime, Placed, RequestsOK, Break, Reply
<1>13. ASSUME NEW r \in Requests, Conclude(r) PROVE OtherPodEachTime'
  BY <1>13 DEF OtherPodEachTime, Placed, RequestsOK, Conclude, Forget
<1>14. ASSUME NEW r \in Requests, NEW p \in Pods, Retry(r, p) PROVE OtherPodEachTime'
  <2>1. at[r] \notin tried[r] /\ Cardinality(tried[r]) = attempt[r] - 1
    BY <1>14 DEF Retry, OtherPodEachTime
  <2>2. Cardinality(tried[r] \cup {at[r]}) = attempt[r]
    <3>1. Cardinality(tried[r] \cup {at[r]}) = Cardinality(tried[r]) + 1
      BY <2>1, TriedFinite, FS_AddElement
    <3> QED BY <2>1, <3>1 DEF RequestsOK
  <2>3. p \notin tried[r] \cup {at[r]}
    BY <1>14 DEF Retry, MostFree, Elsewhere
  <2>4. at'[r] = p /\ tried'[r] = tried[r] \cup {at[r]} /\ attempt'[r] = attempt[r] + 1
    BY <1>14 DEF Retry, RequestsOK
  <2>5. at'[r] \notin tried'[r] /\ Cardinality(tried'[r]) = attempt'[r] - 1
    BY <2>2, <2>3, <2>4 DEF RequestsOK
  <2>6. \A q \in Requests \ {r} : pc'[q] = pc[q] /\ at'[q] = at[q] /\ tried'[q] = tried[q] /\ attempt'[q] = attempt[q]
    BY <1>14 DEF Retry, RequestsOK
  <2> QED BY <2>5, <2>6 DEF OtherPodEachTime
<1>15. ASSUME NEW r \in Requests, Return(r) PROVE OtherPodEachTime'
  BY <1>15 DEF OtherPodEachTime, Placed, RequestsOK, Return, Forget
<1>16. ASSUME NEW r \in Requests, Abandon(r) PROVE OtherPodEachTime'
  BY <1>16 DEF OtherPodEachTime, Placed, RequestsOK, Abandon, Forget
<1> QED
  BY StepKinds, <1>1, <1>2, <1>3, <1>4, <1>5, <1>6, <1>7, <1>8, <1>9, <1>10, <1>11, <1>12, <1>13,
       <1>14, <1>15, <1>16 DEF RequestStep, Start, Advance

--------------------------------------------------------------------------------
(* Sessions. *)

UsedInv ==
  \A r \in Requests :
    /\ used[r] # NoSession => home[used[r]] = at[r]
    /\ want[r] # NoSession /\ (pc[r] = "working" \/ (pc[r] = "answered" /\ answer[r] = "ok")) =>
         used[r] = want[r]

Homes == UsedInv /\ TableNamesHome

(* An answer of success came from the session's own pod.                     *)
LEMMA ServedThere ==
  ASSUME UsedInv
  PROVE  SessionServedAtHome
BY DEF UsedInv, SessionServedAtHome

(* Every step keeps sessions tied to the pod of their context.                *)
LEMMA HomesStep ==
  ASSUME WorkersOK, SharedOK, RequestsOK, Placed, Homes, [Next]_vars
  PROVE  Homes'
<1>1. CASE OtherStep
  BY <1>1 DEF OtherStep, requestVars, Homes, UsedInv, TableNamesHome, SharedOK
<1>2. ASSUME NEW r \in Requests, NEW s \in Sessions, RouteSession(r, s) PROVE Homes'
  BY <1>2 DEF Homes, UsedInv, TableNamesHome, WorkersOK, SharedOK, RequestsOK, Placed,
       RouteSession, Call, Send, Reject, workerVars
<1>3. ASSUME NEW r \in Requests, MissingScope(r) PROVE Homes'
  BY <1>3 DEF Homes, UsedInv, TableNamesHome, WorkersOK, SharedOK, RequestsOK, Placed,
       MissingScope, Call, Reject, workerVars, sharedVars
<1>4. ASSUME NEW r \in Requests, RouteNew(r) PROVE Homes'
  <2>1. PICK p \in Pods :
          /\ at' = [at EXCEPT ![r] = p]
          /\ \/ pc' = [pc EXCEPT ![r] = "asking"] /\ UNCHANGED <<attempt, inflight>>
             \/ Send(r, p, NoSession)
    BY <1>4 DEF RouteNew, MostFree, Routable, SharedOK, IsStatsMap, Send
  <2> QED BY <1>4, <2>1 DEF RouteNew, Call, Send, Homes, UsedInv, TableNamesHome, Placed,
       RequestsOK, workerVars, sharedVars
<1>5. ASSUME NEW r \in Requests, FreshSlots(r) PROVE Homes'
  BY <1>5 DEF Homes, UsedInv, TableNamesHome, WorkersOK, SharedOK, RequestsOK, Placed, FreshSlots,
       Send, workerVars, sharedVars
<1>6. ASSUME NEW r \in Requests, NoFreshSlots(r) PROVE Homes'
  BY <1>6 DEF Homes, UsedInv, TableNamesHome, WorkersOK, SharedOK, RequestsOK, Placed,
       NoFreshSlots, Reject, workerVars, sharedVars
<1>7. ASSUME NEW r \in Requests, RefuseTerminating(r) PROVE Homes'
  BY <1>7 DEF Homes, UsedInv, TableNamesHome, WorkersOK, SharedOK, RequestsOK, Placed,
       RefuseTerminating, Arrived, Reply, workerVars, sharedVars
<1>8. ASSUME NEW r \in Requests, RefuseFull(r) PROVE Homes'
  BY <1>8 DEF Homes, UsedInv, TableNamesHome, WorkersOK, SharedOK, RequestsOK, Placed, RefuseFull,
       Arrived, Reply, workerVars, sharedVars
<1>9. ASSUME NEW r \in Requests, Admit(r) PROVE Homes'
  <2>1. CASE mode = "stateless"
    BY <1>9, <2>1 DEF Admit, Arrived, Homes, UsedInv, TableNamesHome, RequestsOK, sharedVars
  <2>2. CASE mode = "dedicated"
    <3>1. PICK s \in Sessions :
            /\ home[s] = NoPod
            /\ home' = [home EXCEPT ![s] = at[r]]
            /\ used' = [used EXCEPT ![r] = s]
      BY <1>9, <2>2 DEF Admit
    <3>2. /\ want[r] = NoSession /\ UNCHANGED <<at, want, answer, table>>
          /\ pc' = [pc EXCEPT ![r] = "working"]
      BY <1>9 DEF Admit, sharedVars
    <3>3. \A t \in Sessions : table[t] # NoPod => home'[t] = home[t]
      BY <3>1 DEF Homes, TableNamesHome, WorkersOK
    <3>4. \A q \in Requests : used[q] # NoSession => used[q] # s
      BY <3>1 DEF Homes, UsedInv, Placed, Pods, NoPod
    <3>5. TableNamesHome'
      BY <3>2, <3>3 DEF Homes, TableNamesHome
    <3>6. \A q \in Requests \ {r} : pc'[q] = pc[q] /\ used'[q] = used[q]
      BY <3>1, <3>2 DEF RequestsOK
    <3>7. home'[s] = at[r] /\ used'[r] = s
      BY <3>1 DEF WorkersOK, RequestsOK
    <3>8. \A t \in Sessions \ {s} : home'[t] = home[t]
      BY <3>1 DEF WorkersOK
    <3> QED BY <3>2, <3>4, <3>5, <3>6, <3>7, <3>8 DEF Homes, UsedInv, RequestsOK
  <2> QED BY <1>9, <2>1, <2>2 DEF Admit
<1>10. ASSUME NEW r \in Requests, Continue(r) PROVE Homes'
  BY <1>10 DEF Homes, UsedInv, TableNamesHome, WorkersOK, SharedOK, RequestsOK, Placed, Continue,
       Arrived, Reply, HasSession, workerVars, sharedVars
<1>11. ASSUME NEW r \in Requests, NEW code \in {"ok", "error", "terminating"}, Finish(r, code)
     PROVE Homes'
  <2>1. pc[r] = "working" /\ UNCHANGED <<at, want, home, table>>
    BY <1>11 DEF Finish, sharedVars
  <2>2. /\ pc' = [pc EXCEPT ![r] = "answered"] /\ answer' = [answer EXCEPT ![r] = code]
        /\ \/ used' = [used EXCEPT ![r] = used[r]]
           \/ code = "error" /\ used' = [used EXCEPT ![r] = NoSession]
    BY <1>11 DEF Finish, Reply
  <2>3. \A q \in Requests \ {r} : pc'[q] = pc[q] /\ answer'[q] = answer[q] /\ used'[q] = used[q]
    BY <2>2 DEF RequestsOK
  <2>4. answer'[r] = code /\ used'[r] \in {used[r], NoSession} /\ (code = "ok" => used'[r] = used[r])
    BY <2>2 DEF RequestsOK
  <2>5. TableNamesHome'
    BY <2>1 DEF Homes, TableNamesHome
  <2>6. /\ used'[r] # NoSession => home'[used'[r]] = at'[r]
        /\ want'[r] # NoSession /\ answer'[r] = "ok" => used'[r] = want'[r]
    BY <2>1, <2>4 DEF Homes, UsedInv
  <2>7. pc'[r] = "answered"
    BY <2>2 DEF RequestsOK
  <2>8. UsedInv'
    BY <2>1, <2>3, <2>6, <2>7 DEF Homes, UsedInv
  <2> QED BY <2>5, <2>8 DEF Homes
<1>12. ASSUME NEW r \in Requests, Break(r) PROVE Homes'
  BY <1>12 DEF Homes, UsedInv, TableNamesHome, WorkersOK, SharedOK, RequestsOK, Placed, Break,
       Reply, workerVars, sharedVars
<1>13. ASSUME NEW r \in Requests, Conclude(r) PROVE Homes'
  BY <1>13 DEF Homes, UsedInv, TableNamesHome, WorkersOK, SharedOK, RequestsOK, Placed, Conclude,
       Forget, workerVars
<1>14. ASSUME NEW r \in Requests, NEW p \in Pods, Retry(r, p) PROVE Homes'
  BY <1>14 DEF Homes, UsedInv, TableNamesHome, WorkersOK, SharedOK, RequestsOK, Placed, Retry,
       workerVars, sharedVars
<1>15. ASSUME NEW r \in Requests, Return(r) PROVE Homes'
  BY <1>15 DEF Homes, UsedInv, TableNamesHome, WorkersOK, SharedOK, RequestsOK, Placed, Return,
       Forget, workerVars, sharedVars
<1>16. ASSUME NEW r \in Requests, Abandon(r) PROVE Homes'
  BY <1>16 DEF Homes, UsedInv, TableNamesHome, WorkersOK, SharedOK, RequestsOK, Placed, Abandon,
       Forget, workerVars, sharedVars
<1> QED
  BY StepKinds, <1>1, <1>2, <1>3, <1>4, <1>5, <1>6, <1>7, <1>8, <1>9, <1>10, <1>11, <1>12, <1>13,
       <1>14, <1>15, <1>16 DEF RequestStep, Start, Advance

--------------------------------------------------------------------------------
IInv == TypeOK /\ Placed /\ InFlightCounts /\ OtherPodEachTime /\ Homes

(* The coordinator starts in the invariant ...                               *)
LEMMA InitInv == Init => IInv
<1> SUFFICES ASSUME Init PROVE IInv
  OBVIOUS
<1> USE RoutingAssumption DEF RoutingAssumption, Init
<1>1. WorkersOK /\ RequestsOK
  BY DEF WorkersOK, RequestsOK, NoAnswer
<1>2. SharedOK
  <2>1. IsStatsMap(NoStats)
    BY DEF IsStatsMap, NoStats
  <2>2. 1 \in Pods
    BY DEF Pods
  <2> QED BY <2>1, <2>2 DEF SharedOK
<1>3. Placed /\ OtherPodEachTime /\ Homes
  BY DEF Placed, OtherPodEachTime, Homes, UsedInv, TableNamesHome
<1>4. InFlightCounts
  <2>1. \A p \in Pods : {r \in Requests : Counted(r) /\ at[r] = p} = {}
    BY DEF Counted
  <2> QED BY <2>1, FS_EmptySet DEF InFlightCounts
<1> QED BY <1>1, <1>2, <1>3, <1>4 DEF IInv, TypeOK

(* ... every step keeps it ...                                               *)
LEMMA NextInv == IInv /\ [Next]_vars => IInv'
BY WorkersOKStep, SharedOKStep, RequestsOKStep, PlacedStep, CountStep, OtherPodStep, HomesStep
   DEF IInv, TypeOK

(* ... so it always holds.                                                   *)
LEMMA Invariance == Spec => []IInv
BY InitInv, NextInv, PTL DEF Spec

(* Every variable keeps its type; no call is sent more than three times.     *)
THEOREM Typing == Spec => []TypeOK
<1>1. IInv => TypeOK
  BY DEF IInv
<1> QED BY Invariance, <1>1, PTL

(* InFlightTracker's count of a pod is exactly the number of attempts sent   *)
(* there and not yet over, sessions aside, for any number of pods, requests, *)
(* retries, broken calls and dropped futures.                                *)
THEOREM CountExact == Spec => []InFlightCounts
<1>1. IInv => InFlightCounts
  BY DEF IInv
<1> QED BY Invariance, <1>1, PTL

(* The retry loop never sends a request to a pod it has tried, whatever      *)
(* discovery and the health monitor do to the candidates meanwhile.          *)
THEOREM AlwaysElsewhere == Spec => []OtherPodEachTime
<1>1. IInv => OtherPodEachTime
  BY DEF IInv
<1> QED BY Invariance, <1>1, PTL

(* A continued session is served by the pod that holds its context.          *)
THEOREM ServedAtHome == Spec => []SessionServedAtHome
<1>1. IInv => SessionServedAtHome
  BY ServedThere DEF IInv, Homes
<1> QED BY Invariance, <1>1, PTL

(* The session table names the pod a session's context was created on.       *)
THEOREM TableExact == Spec => []TableNamesHome
<1>1. IInv => TableNamesHome
  BY DEF IInv, Homes
<1> QED BY Invariance, <1>1, PTL

================================================================================
