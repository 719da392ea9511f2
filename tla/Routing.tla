------------------------------- MODULE Routing -------------------------------
(***************************************************************************)
(* How the coordinator sends a scope's requests to its worker pods.        *)
(*                                                                         *)
(* Three tasks share what the coordinator knows: discovery replaces the    *)
(* map of routable workers and then the map of known scopes, the health    *)
(* monitor replaces the set of healthy pods, and each request picks a pod, *)
(* sends, and may send again elsewhere.  Between a worker's answer to      *)
(* GetStats and its use the world moves on; `InFlightTracker` counts the   *)
(* coordinator's own requests to correct for that.                         *)
(*                                                                         *)
(* One scope is modelled.  A pod is up, draining (SIGTERM received, server *)
(* still open) or down (dead, or booting: its server opens only when the   *)
(* pool is ready).  BrowserPool and WorkerRecovery say what happens inside *)
(* a pod; here it admits a request to a free slot or refuses it.           *)
(***************************************************************************)
EXTENDS Integers, FiniteSets

CONSTANTS
  NumPods,    \* pods of the scope, visited by discovery and monitor in order
  Requests,   \* clients' calls; each client calls again after its answer
  Sessions,   \* bound of the model: contexts a `dedicated` scope may create
  NoSession,
  Modes,      \* "stateless" (always_new, reusable) and/or "dedicated"
  Slots,      \* max_contexts of a pod
  MaxFaults   \* bound of the model: pods drained or killed, calls lost or given up

Pods == 1..NumPods
NoPod == 0

ASSUME RoutingAssumption ==
  /\ NumPods \in Nat \ {0} /\ Slots \in Nat /\ MaxFaults \in Nat
  /\ IsFiniteSet(Requests) /\ IsFiniteSet(Sessions)
  /\ NoSession \notin Sessions
  /\ Modes \subseteq {"stateless", "dedicated"}

VARIABLES
  \* the workers
  mode,      \* the scope's session mode
  phase,     \* of each pod
  load,      \* the requests whose context holds a slot of each pod
  home,      \* the pod each session's context was created on
  alive,     \* the sessions whose context still exists
  faults,    \* pods drained or killed and calls lost so far
  \* what the coordinator's tasks share
  cache,     \* `workers`: the routable pods, with their stats and baseline
  known,     \* `known_scopes` has the scope
  healthy,   \* `healthy_workers`
  inflight,  \* InFlightTracker.by_pod
  table,     \* SessionManager.sessions: which pod serves each session
  \* the discovery task
  dpc, dpod, stats, found,
  \* each request
  pc,        \* idle, asking (for fresh stats), sent, working, answered, rejected
  at,        \* `last_worker_id`
  attempt,   \* sends so far
  tried,     \* `excluded_workers`
  want,      \* the session the client asks for
  used,      \* the session whose id the answer carries
  answer     \* what the attempt, or a rejected client, was answered

workerVars == <<mode, phase, load, home, alive>>
discoveryVars == <<dpc, dpod, stats, found>>
sharedVars == <<cache, known, healthy, table>>
requestVars == <<pc, at, attempt, tried, want, used, answer>>
vars == <<workerVars, faults, discoveryVars, sharedVars, inflight, requestVars>>

NoAnswer == "none"
WorkerAnswers == {"ok", "error", "terminating", "capacity", "unreachable"}
Rejections == {"no_workers", "scope_not_found", "session_not_found"}

(* A map of routable pods, each with `available_slots + in_flight_at_snapshot`: *)
(* routing uses the two only in this sum.                                    *)
IsStatsMap(m) ==
  /\ DOMAIN m \subseteq Pods
  /\ m = [p \in DOMAIN m |-> m[p]]
  /\ \A p \in DOMAIN m : m[p] \in Nat

NoStats == [p \in {} |-> 0]

WorkersOK ==
  /\ mode \in Modes
  /\ phase \in [Pods -> {"up", "draining", "down"}]
  /\ load \in [Pods -> SUBSET Requests]
  /\ home \in [Sessions -> Pods \cup {NoPod}] /\ alive \subseteq Sessions
  /\ faults \in Nat

SharedOK ==
  /\ IsStatsMap(cache)
  /\ known \in BOOLEAN /\ healthy \subseteq Pods
  /\ inflight \in [Pods -> Nat]
  /\ table \in [Sessions -> Pods \cup {NoPod}]
  /\ dpc \in {"ask", "store", "swap", "known"}
  /\ dpod \in Pods /\ stats \in Nat
  /\ IsStatsMap(found)

RequestsOK ==
  /\ pc \in [Requests -> {"idle", "asking", "sent", "working", "answered", "rejected"}]
  /\ at \in [Requests -> Pods \cup {NoPod}]
  /\ attempt \in [Requests -> 0..3]
  /\ tried \in [Requests -> SUBSET Pods]
  /\ want \in [Requests -> Sessions \cup {NoSession}]
  /\ used \in [Requests -> Sessions \cup {NoSession}]
  /\ answer \in [Requests -> WorkerAnswers \cup Rejections \cup {NoAnswer}]

TypeOK == WorkersOK /\ SharedOK /\ RequestsOK

--------------------------------------------------------------------------------
(* Inside a pod. *)

(* The slots a pod has given away: contexts of requests and of sessions.     *)
Taken(p) == Cardinality(load[p]) + Cardinality({s \in alive : home[s] = p})
Free(p) == IF Taken(p) < Slots THEN Slots - Taken(p) ELSE 0

Init ==
  /\ mode \in Modes
  /\ phase \in [Pods -> {"up", "down"}]
  /\ load = [p \in Pods |-> {}]
  /\ home = [s \in Sessions |-> NoPod] /\ alive = {}
  /\ faults = 0
  /\ cache = NoStats
  /\ known = FALSE /\ healthy = {}
  /\ inflight = [p \in Pods |-> 0]
  /\ table = [s \in Sessions |-> NoPod]
  /\ dpc = "ask" /\ dpod = 1 /\ stats = 0 /\ found = NoStats
  /\ pc = [r \in Requests |-> "idle"]
  /\ at = [r \in Requests |-> NoPod]
  /\ attempt = [r \in Requests |-> 0]
  /\ tried = [r \in Requests |-> {}]
  /\ want = [r \in Requests |-> NoSession]
  /\ used = [r \in Requests |-> NoSession]
  /\ answer = [r \in Requests |-> NoAnswer]

Fault == faults < MaxFaults /\ faults' = faults + 1

(* A call to a pod does not arrive: the pod is down, or the network failed.  *)
Lost(p) == IF phase[p] = "down" THEN UNCHANGED faults ELSE Fault

(* SIGTERM: no new requests; those admitted go on.                           *)
Drain(p) ==
  /\ phase[p] = "up" /\ Fault
  /\ phase' = [phase EXCEPT ![p] = "draining"]
  /\ UNCHANGED <<mode, load, home, alive, discoveryVars, sharedVars, inflight, requestVars>>

(* The process ends, drained, crashed or killed, with all its contexts.      *)
Stop(p) ==
  /\ \/ phase[p] = "draining" /\ UNCHANGED faults
     \/ phase[p] = "up" /\ Fault
  /\ phase' = [phase EXCEPT ![p] = "down"]
  /\ load' = [load EXCEPT ![p] = {}]
  /\ alive' = {s \in alive : home[s] # p}
  /\ UNCHANGED <<mode, home, discoveryVars, sharedVars, inflight, requestVars>>

Boot(p) ==
  /\ phase[p] = "down"
  /\ phase' = [phase EXCEPT ![p] = "up"]
  /\ UNCHANGED <<mode, load, home, alive, faults, discoveryVars, sharedVars, inflight, requestVars>>

Working(r, p) == pc[r] = "working" /\ at[r] = p

(* A context whose request was dropped returns its slot a while later.       *)
FreeSlot(r, p) ==
  /\ r \in load[p] /\ ~Working(r, p)
  /\ load' = [load EXCEPT ![p] = @ \ {r}]
  /\ UNCHANGED <<mode, phase, home, alive, faults, discoveryVars, sharedVars, inflight, requestVars>>

(* A session that is used up or idle for too long ends.                      *)
EndSession(s) ==
  /\ s \in alive
  /\ \A r \in Requests : pc[r] = "working" => used[r] # s
  /\ alive' = alive \ {s}
  /\ UNCHANGED <<mode, phase, load, home, faults, discoveryVars, sharedVars, inflight, requestVars>>

--------------------------------------------------------------------------------
(* Discovery and health monitor. *)

Install(m) ==
  /\ cache' = m
  /\ found' = NoStats
  /\ dpc' = IF known THEN "ask" ELSE "known"

(* A round asks the pods one after the other; the wait before the next round *)
(* and the listing of the pods, which are always the same, need no step.     *)
(* Swapping the map in takes the write lock on `workers`, at once if nobody  *)
(* reads it.                                                                 *)
NextPod(m) ==
  IF dpod < NumPods
    THEN dpc' = "ask" /\ dpod' = dpod + 1 /\ found' = m /\ UNCHANGED cache
    ELSE /\ dpod' = 1
         /\ IF \A r \in Requests : pc[r] # "asking"
              THEN Install(m)
              ELSE dpc' = "swap" /\ found' = m /\ UNCHANGED cache

(* GetStats: the pod computes its free slots, or cannot be reached in time.  *)
AskStats ==
  /\ dpc = "ask"
  /\ \/ /\ phase[dpod] # "down"
        /\ stats' = Free(dpod) /\ dpc' = "store"
        /\ UNCHANGED <<dpod, found, cache, faults>>
     \/ Lost(dpod) /\ NextPod(found) /\ UNCHANGED stats
  /\ UNCHANGED <<known, healthy, table, workerVars, inflight, requestVars>>

(* The baseline is read when the stats arrive and stored beside them.        *)
StoreStats ==
  /\ dpc = "store"
  /\ NextPod([p \in DOMAIN found \cup {dpod} |->
                IF p = dpod THEN stats + inflight[p] ELSE found[p]])
  /\ stats' = 0
  /\ UNCHANGED <<known, healthy, table, workerVars, faults, inflight, requestVars>>

(* The last request that read `workers` has let go of it.                    *)
SwapWorkers ==
  /\ dpc = "swap"
  /\ \A r \in Requests : pc[r] # "asking"
  /\ Install(found)
  /\ UNCHANGED <<dpod, stats, known, healthy, table, workerVars, faults, inflight,
                 requestVars>>

(* A scope is known from the moment the cluster lists a pod of it, running   *)
(* or not; later rounds write the same again.                                *)
SwapKnown ==
  /\ dpc = "known"
  /\ known' = TRUE /\ dpc' = "ask"
  /\ UNCHANGED <<dpod, stats, found, cache, healthy, table, workerVars, faults, inflight, requestVars>>

(* A health round asks every routable pod; a draining one says it is not     *)
(* healthy.  How long the round takes is left out.                           *)
HealthRound ==
  /\ \E lost \in SUBSET {p \in DOMAIN cache : phase[p] = "up"} :
       /\ healthy' = {p \in DOMAIN cache \ lost : phase[p] = "up"}
       /\ IF lost = {} THEN UNCHANGED faults ELSE Fault
  /\ UNCHANGED <<cache, known, table, workerVars, discoveryVars, inflight, requestVars>>

--------------------------------------------------------------------------------
(* Choosing a pod. *)

(* A waiting writer holds up later readers of `workers`.                     *)
CanRead == dpc # "swap"

(* effective_free_slots: `available + baseline - now`, never below 0.        *)
Estimate(p) ==
  IF cache[p] > inflight[p] THEN cache[p] - inflight[p] ELSE 0

(* pick_most_free; the rotation may choose any of the pods that tie.         *)
MostFree(pods) == {p \in pods : \A q \in pods : Estimate(q) <= Estimate(p)}

(* select_best_worker                                                        *)
Routable ==
  LET good == healthy \cap DOMAIN cache
  IN IF good = {} THEN DOMAIN cache ELSE good

Reject(r, code) ==
  /\ pc' = [pc EXCEPT ![r] = "rejected"]
  /\ answer' = [answer EXCEPT ![r] = code]

(* InFlightTracker::start: counted from before the connect, unless the       *)
(* request continues a session.                                              *)
Send(r, p, s) ==
  /\ pc' = [pc EXCEPT ![r] = "sent"]
  /\ at' = [at EXCEPT ![r] = p]
  /\ attempt' = [attempt EXCEPT ![r] = @ + 1]
  /\ inflight' = IF s = NoSession THEN [inflight EXCEPT ![p] = @ + 1] ELSE inflight

Call(r) == pc[r] = "idle" /\ CanRead

(* A call that continues a session goes where the table says, if discovery   *)
(* still lists that pod; otherwise the session is forgotten.                 *)
RouteSession(r, s) ==
  /\ Call(r)
  /\ want' = [want EXCEPT ![r] = s]
  /\ IF table[s] \in DOMAIN cache
       THEN Send(r, table[s], s) /\ UNCHANGED <<table, answer>>
       ELSE /\ Reject(r, "session_not_found")
            /\ table' = [table EXCEPT ![s] = NoPod]
            /\ UNCHANGED <<at, attempt, inflight>>
  /\ UNCHANGED <<tried, used, cache, known, healthy, workerVars, faults, discoveryVars>>

(* No routable worker at all: a restart, or a scope nobody has heard of.     *)
MissingScope(r) ==
  /\ Call(r) /\ DOMAIN cache = {}
  /\ Reject(r, IF known THEN "no_workers" ELSE "scope_not_found")
  /\ UNCHANGED <<at, attempt, tried, want, used, workerVars, faults, discoveryVars, sharedVars, inflight>>

RouteNew(r) ==
  /\ Call(r)
  /\ \E p \in MostFree(Routable) :
       IF Estimate(p) > 0
         THEN Send(r, p, NoSession)
         ELSE /\ pc' = [pc EXCEPT ![r] = "asking"]
              /\ at' = [at EXCEPT ![r] = p]
              /\ UNCHANGED <<attempt, inflight>>
  /\ UNCHANGED <<tried, want, used, answer, workerVars, faults, discoveryVars, sharedVars>>

(* fetch_fresh_worker_stats, bounded by its timeout, under the read lock.    *)
FreshSlots(r) ==
  /\ pc[r] = "asking" /\ phase[at[r]] # "down" /\ Free(at[r]) > 0
  /\ Send(r, at[r], NoSession)
  /\ UNCHANGED <<tried, want, used, answer, workerVars, faults, discoveryVars, sharedVars>>

NoFreshSlots(r) ==
  /\ pc[r] = "asking"
  /\ \/ phase[at[r]] # "down" /\ Free(at[r]) = 0 /\ UNCHANGED faults
     \/ Lost(at[r])
  /\ Reject(r, "no_workers") /\ at' = [at EXCEPT ![r] = NoPod]
  /\ UNCHANGED <<attempt, tried, want, used, workerVars, discoveryVars, sharedVars, inflight>>

--------------------------------------------------------------------------------
(* At the worker. *)

Reply(r, code, s) ==
  /\ pc' = [pc EXCEPT ![r] = "answered"]
  /\ answer' = [answer EXCEPT ![r] = code]
  /\ used' = [used EXCEPT ![r] = s]

Arrived(r) == pc[r] = "sent" /\ phase[at[r]] # "down"

(* The gate of a worker that is shutting down.                               *)
RefuseTerminating(r) ==
  /\ Arrived(r) /\ phase[at[r]] = "draining"
  /\ Reply(r, "terminating", NoSession)
  /\ UNCHANGED <<at, attempt, tried, want, workerVars, faults, discoveryVars, sharedVars, inflight>>

RefuseFull(r) ==
  /\ Arrived(r) /\ phase[at[r]] = "up" /\ want[r] = NoSession /\ Free(at[r]) = 0
  /\ Reply(r, "capacity", NoSession)
  /\ UNCHANGED <<at, attempt, tried, want, workerVars, faults, discoveryVars, sharedVars, inflight>>

(* A new request takes a slot; a dedicated scope keeps it for the session.   *)
(* (The client's name also names the context, so a client whose dropped call *)
(* still holds a slot of this pod is admitted after that has come back.)     *)
Admit(r) ==
  /\ Arrived(r) /\ phase[at[r]] = "up" /\ want[r] = NoSession /\ Free(at[r]) > 0
  /\ pc' = [pc EXCEPT ![r] = "working"]
  /\ \/ /\ mode = "stateless"
        /\ r \notin load[at[r]]
        /\ load' = [load EXCEPT ![at[r]] = @ \cup {r}]
        /\ UNCHANGED <<home, alive, used>>
     \/ /\ mode = "dedicated"
        /\ \E s \in Sessions :
             /\ home[s] = NoPod
             /\ home' = [home EXCEPT ![s] = at[r]]
             /\ alive' = alive \cup {s}
             /\ used' = [used EXCEPT ![r] = s]
        /\ UNCHANGED load
  /\ UNCHANGED <<mode, phase, faults, at, attempt, tried, want, answer, discoveryVars, sharedVars,
                 inflight>>

HasSession_AnyPod(s, p) == s \in alive

HasSession(s, p) == s \in alive /\ home[s] = p

Busy(s) == \E r \in Requests : pc[r] = "working" /\ used[r] = s

(* A session is looked up by its context: found, busy, or not on this pod.   *)
Continue(r) ==
  /\ Arrived(r) /\ phase[at[r]] = "up" /\ want[r] # NoSession
  /\ IF HasSession(want[r], at[r]) /\ ~Busy(want[r])
       THEN /\ pc' = [pc EXCEPT ![r] = "working"]
            /\ used' = [used EXCEPT ![r] = want[r]]
            /\ UNCHANGED answer
       ELSE Reply(r, "error", IF HasSession(want[r], at[r]) THEN want[r] ELSE NoSession)
  /\ UNCHANGED <<at, attempt, tried, want, workerVars, faults, discoveryVars, sharedVars, inflight>>

(* Whether the pod still runs the request: its process was not replaced.     *)
Held(r) == r \in load[at[r]] \/ (used[r] # NoSession /\ HasSession(used[r], at[r]))

(* The page work ends, or is cancelled when the drain is over: the context   *)
(* gives its slot back and the answer is sent.  It names the session, unless *)
(* the session's context had to be destroyed.                                *)
Finish(r, code) ==
  /\ pc[r] = "working" /\ Held(r)
  /\ code = "terminating" => phase[at[r]] = "draining"
  /\ load' = [load EXCEPT ![at[r]] = @ \ {r}]
  /\ \/ Reply(r, code, used[r]) /\ UNCHANGED alive
     \/ /\ code = "error" /\ used[r] # NoSession
        /\ alive' = alive \ {used[r]}
        /\ Reply(r, code, NoSession)
  /\ UNCHANGED <<mode, phase, home, faults, at, attempt, tried, want, discoveryVars, sharedVars,
                 inflight>>

(* No connection, or the RPC broke: the pod is gone, or the network, or a    *)
(* keepalive was late.  What the pod was doing it may still be doing.        *)
Break(r) ==
  /\ pc[r] \in {"sent", "working"}
  /\ IF pc[r] = "working" /\ ~Held(r) THEN UNCHANGED faults ELSE Lost(at[r])
  /\ Reply(r, "unreachable", NoSession)
  /\ UNCHANGED <<at, attempt, tried, want, workerVars, discoveryVars, sharedVars, inflight>>

--------------------------------------------------------------------------------
(* After an attempt. *)

(* classify_retry and classify_unreachable_retry: how many attempts in all.  *)
MaxAttempts(r) ==
  CASE answer[r] = "terminating" -> 3
    [] answer[r] = "capacity" /\ want[r] = NoSession -> 2
    [] answer[r] = "unreachable" /\ want[r] = NoSession -> 2
    [] OTHER -> 1

Uncount_OnAnswerOnly(r) ==
  IF want[r] = NoSession /\ pc[r] = "answered"
    THEN [inflight EXCEPT ![at[r]] = @ - 1]
    ELSE inflight

(* InFlightGuard::drop, at the end of the attempt.                           *)
Uncount(r) ==
  IF want[r] = NoSession /\ pc[r] \in {"sent", "working", "answered"}
    THEN [inflight EXCEPT ![at[r]] = IF @ > 0 THEN @ - 1 ELSE 0]
    ELSE inflight

Elsewhere_Healthy(r) == healthy \cap DOMAIN cache

Elsewhere(r) == (healthy \cap DOMAIN cache) \ (tried[r] \cup {at[r]})

(* The attempt's pod is excluded, another one picked as on the first route.  *)
Retry(r, p) ==
  /\ pc[r] = "answered" /\ CanRead
  /\ attempt[r] < MaxAttempts(r)
  /\ p \in MostFree(Elsewhere(r)) /\ Estimate(p) > 0
  /\ tried' = [tried EXCEPT ![r] = @ \cup {at[r]}]
  /\ pc' = [pc EXCEPT ![r] = "sent"]
  /\ at' = [at EXCEPT ![r] = p]
  /\ attempt' = [attempt EXCEPT ![r] = @ + 1]
  /\ used' = [used EXCEPT ![r] = NoSession]
  /\ answer' = [answer EXCEPT ![r] = NoAnswer]
  /\ inflight' = IF want[r] = NoSession THEN [Uncount(r) EXCEPT ![p] = @ + 1] ELSE Uncount(r)
  /\ UNCHANGED <<want, workerVars, faults, discoveryVars, sharedVars>>

Forget(r) ==
  /\ pc' = [pc EXCEPT ![r] = "idle"]
  /\ at' = [at EXCEPT ![r] = NoPod]
  /\ attempt' = [attempt EXCEPT ![r] = 0]
  /\ tried' = [tried EXCEPT ![r] = {}]
  /\ want' = [want EXCEPT ![r] = NoSession]
  /\ used' = [used EXCEPT ![r] = NoSession]
  /\ answer' = [answer EXCEPT ![r] = NoAnswer]
  /\ inflight' = Uncount(r)

Conclude_FirstPod(r) ==
  /\ pc[r] = "answered"
  /\ table' = IF used[r] = NoSession THEN table
              ELSE [table EXCEPT ![used[r]] = CHOOSE p \in tried[r] \cup {at[r]} : TRUE]
  /\ Forget(r)
  /\ UNCHANGED <<cache, known, healthy, workerVars, faults, discoveryVars>>

(* The answer goes to the client: it is final, or there is no attempt, no    *)
(* time (less than 10 s of the deadline) or no pod left.  A context's id in  *)
(* it makes or refreshes the session.                                        *)
Conclude(r) ==
  /\ pc[r] = "answered"
  /\ table' = IF used[r] = NoSession THEN table ELSE [table EXCEPT ![used[r]] = at[r]]
  /\ Forget(r)
  /\ UNCHANGED <<cache, known, healthy, workerVars, faults, discoveryVars>>

(* The rejected client may call again.                                       *)
Return(r) ==
  /\ pc[r] = "rejected"
  /\ Forget(r)
  /\ UNCHANGED <<workerVars, faults, discoveryVars, sharedVars>>

(* The client gave up: the future is dropped wherever it is.                 *)
Abandon(r) ==
  /\ pc[r] \notin {"idle", "rejected"}
  /\ Fault
  /\ Forget(r)
  /\ UNCHANGED <<workerVars, discoveryVars, sharedVars>>

(* The table's TTL.                                                          *)
ExpireSession(s) ==
  /\ table[s] # NoPod
  /\ table' = [table EXCEPT ![s] = NoPod]
  /\ UNCHANGED <<cache, known, healthy, workerVars, faults, discoveryVars, inflight, requestVars>>

--------------------------------------------------------------------------------
Pod(p) == Drain(p) \/ Stop(p) \/ Boot(p) \/ \E r \in Requests : FreeSlot(r, p)

Discovery == AskStats \/ StoreStats \/ SwapWorkers \/ SwapKnown

Start(r) == (\E s \in Sessions : RouteSession(r, s)) \/ MissingScope(r) \/ RouteNew(r)

(* What a call goes through without anybody giving up on it.                 *)
Advance(r) ==
  \/ FreshSlots(r) \/ NoFreshSlots(r)
  \/ RefuseTerminating(r) \/ RefuseFull(r) \/ Admit(r) \/ Continue(r)
  \/ \E code \in {"ok", "error", "terminating"} : Finish(r, code)
  \/ Break(r) \/ Conclude(r)
  \/ \E p \in Pods : Retry(r, p)

Next ==
  \/ \E p \in Pods : Pod(p)
  \/ \E s \in Sessions : EndSession(s) \/ ExpireSession(s)
  \/ Discovery \/ HealthRound
  \/ \E r \in Requests : Start(r) \/ Advance(r) \/ Return(r) \/ Abandon(r)

Spec == Init /\ [][Next]_vars

--------------------------------------------------------------------------------
(* Properties. *)

(* The in-flight count of a pod is the number of requests sent there and not *)
(* yet answered, sessions aside, whatever retries, broken calls and dropped  *)
(* futures went before: a leaked count "would make the pod look busier than  *)
(* it is for the life of the process".                                       *)
Counted(r) == want[r] = NoSession /\ pc[r] \in {"sent", "working", "answered"}

InFlightCounts ==
  \A p \in Pods : inflight[p] = Cardinality({r \in Requests : Counted(r) /\ at[r] = p})

(* A retry goes to a pod the request has not been sent to yet, and every     *)
(* earlier attempt is remembered.                                            *)
OtherPodEachTime ==
  \A r \in Requests :
    pc[r] \in {"sent", "working", "answered"} =>
      at[r] \notin tried[r] /\ Cardinality(tried[r]) = attempt[r] - 1

(* A call that continues a session is served by the pod that holds its       *)
(* context: however it was resent, no other pod passes for it.               *)
SessionServedAtHome ==
  \A r \in Requests :
    want[r] # NoSession /\ pc[r] = "answered" /\ answer[r] = "ok" => at[r] = home[want[r]]

(* The session table sends a session to the pod its context was created on,  *)
(* not to one an earlier attempt of the same call had tried.                 *)
TableNamesHome == \A s \in Sessions : table[s] # NoPod => table[s] = home[s]

(* With nothing in flight, the free slots the coordinator believes in are    *)
(* there: "it holds in every session mode".                                  *)
IdleEstimateHolds ==
  \A p \in DOMAIN cache : phase[p] = "up" /\ inflight[p] = 0 => Estimate(p) <= Free(p)

================================================================================
