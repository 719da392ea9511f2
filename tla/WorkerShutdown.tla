---------------------------- MODULE WorkerShutdown ----------------------------
(***************************************************************************)
(* How a worker stops, and what the coordinator sees of it.  SIGTERM turns *)
(* the worker unhealthy, the drain waits for the requests in flight, the   *)
(* token is cancelled, and the gRPC server closes once no request is       *)
(* counted.  Requests arrive, count themselves, read the flags and work    *)
(* while this goes on; the coordinator learns the worker's health from its *)
(* own rounds, and may be told to stop itself at any time.                 *)
(*                                                                         *)
(* Time goes in steps of POLL_INTERVAL, half a second: a timer that is due *)
(* fires before the next step.  Nothing else takes a known time: a health  *)
(* round asks one worker after the other, connecting takes up to five      *)
(* seconds for each (WORKER_CONNECT_TIMEOUT), and its answer has no bound. *)
(***************************************************************************)
EXTENDS Naturals, FiniteSets

CONSTANTS
  Requests,      \* client calls; each is made once
  MinPause,      \* MIN_UNROUTABLE_PAUSE
  DrainTimeout,  \* WORKER_SHUTDOWN_DRAIN_TIMEOUT_SECS
  Behind         \* bound: the interval ticks a long round falls behind

ASSUME ShutdownAssumption ==
  /\ IsFiniteSet(Requests)
  /\ MinPause \in Nat /\ DrainTimeout \in Nat
  /\ Behind \in Nat \ {0}

VARIABLES
  stage,      \* of the worker: how far `shutdown_signal` and `run_worker` are
  ready,      \* `is_ready`
  cancelled,  \* the worker's cancellation token
  active,     \* the worker's `active_requests`
  outcome,    \* DrainOutcome, "none" until the drain ends
  clock,      \* time since the signal
  asleep,     \* whether the drain sleeps until the next step of the clock
  coStage,    \* of the coordinator: serving, cancelled, closed
  coActive,   \* the coordinator's `active_requests`
  at,         \* where each request is
  monitor,    \* the health monitor: resting, asking (not yet this worker), asked, stopped
  heard,      \* what the worker answered last
  half,       \* whether the monitor's interval, one second, is half over
  owed,       \* interval ticks the monitor has not taken yet
  healthy     \* whether the worker is in `healthy_workers`

drainVars == <<stage, ready, cancelled, outcome, clock, asleep>>
coVars == <<coStage, coActive>>
monVars == <<monitor, heard, half, owed, healthy>>
vars == <<drainVars, active, coVars, at, monVars>>

AtWorker == {"counted", "working"}
AtCoordinator == {"arrived", "selecting", "routed", "replied"} \cup AtWorker
Open == {"serving", "draining", "stopping", "waiting"}

TypeOK ==
  /\ stage \in Open \cup {"closed", "exited"}
  /\ ready \in BOOLEAN /\ cancelled \in BOOLEAN /\ asleep \in BOOLEAN
  /\ active \in Nat /\ coActive \in Nat
  /\ outcome \in {"none", "drained", "timedOut", "interrupted"}
  /\ clock \in 0..DrainTimeout
  /\ coStage \in {"serving", "cancelled", "closed"}
  /\ at \in [Requests -> AtCoordinator \cup {"idle", "over"}]
  /\ monitor \in {"resting", "asking", "asked", "stopped"}
  /\ heard \in BOOLEAN /\ half \in BOOLEAN /\ healthy \in BOOLEAN
  /\ owed \in 0..Behind

Init ==
  /\ stage = "serving" /\ ready = TRUE /\ cancelled = FALSE
  /\ active = 0 /\ outcome = "none" /\ clock = 0 /\ asleep = FALSE
  /\ coStage = "serving" /\ coActive = 0
  /\ at = [r \in Requests |-> "idle"]
  /\ monitor = "resting" /\ heard = TRUE /\ half = FALSE /\ owed = 0
  /\ healthy = TRUE

-----------------------------------------------------------------------------
(* The coordinator's request handler.                                       *)

Goes(r, from, to) == at[r] = from /\ at' = [at EXCEPT ![r] = to]

(* ActiveRequestGuard::new: counted before anything is read.  A request that *)
(* is on an open connection still arrives while the server closes.           *)
CoArrive(r) ==
  /\ Goes(r, "idle", "arrived")
  /\ coActive' = coActive + 1
  /\ UNCHANGED <<drainVars, active, coStage, monVars>>

(* Mutant: counted without a guard, and only routed requests uncounted.      *)
CoGate_Uncounted(r) ==
  /\ \/ coStage = "serving" /\ Goes(r, "arrived", "selecting")
     \/ coStage # "serving" /\ Goes(r, "arrived", "over")
  /\ UNCHANGED <<drainVars, active, coVars, monVars>>

(* The token decides: TERMINATING at once, or on to the routing.             *)
CoGate(r) ==
  /\ \/ coStage = "serving" /\ Goes(r, "arrived", "selecting") /\ UNCHANGED coActive
     \/ coStage # "serving" /\ Goes(r, "arrived", "over") /\ coActive' = coActive - 1
  /\ UNCHANGED <<drainVars, active, coStage, monVars>>

(* Routed here or to another pod.  select_best_worker takes this worker while *)
(* it is in `healthy_workers`, or when no worker of the scope is; a continued *)
(* session goes to its worker whatever the set says.  The scope's other pods *)
(* and the sessions are out of this module, so each of these may be so.      *)
Select(r) ==
  /\ Goes(r, "selecting", "routed") \/ Goes(r, "selecting", "replied")
  /\ UNCHANGED <<drainVars, active, coVars, monVars>>

(* The connection to a worker that has closed its port, or is gone, fails.   *)
Unreachable(r) ==
  /\ stage \notin Open
  /\ Goes(r, "routed", "replied")
  /\ UNCHANGED <<drainVars, active, coVars, monVars>>

(* The answer, or the failure on the last pod tried, goes to the client: the *)
(* guard is dropped.                                                         *)
Return(r) ==
  /\ Goes(r, "replied", "over")
  /\ coActive' = coActive - 1
  /\ UNCHANGED <<drainVars, active, coStage, monVars>>

CoSignal ==
  /\ coStage = "serving"
  /\ coStage' = "cancelled"
  /\ UNCHANGED <<drainVars, active, coActive, at, monVars>>

(* The coordinator does not drain: it stops once no request is counted.      *)
CoStop ==
  /\ coStage = "cancelled" /\ coActive = 0
  /\ coStage' = "closed"
  /\ UNCHANGED <<drainVars, active, coActive, at, monVars>>

-----------------------------------------------------------------------------
(* The worker's request handler.                                            *)

Arrive(r) ==
  /\ stage # "exited"
  /\ Goes(r, "routed", "counted")
  /\ active' = active + 1
  /\ UNCHANGED <<drainVars, coVars, monVars>>

(* Mutant: the gate as it was before the drain, the token alone.             *)
Gate_TokenOnly(r) ==
  /\ \/ ~cancelled /\ Goes(r, "counted", "working") /\ UNCHANGED active
     \/ cancelled /\ Goes(r, "counted", "replied") /\ active' = active - 1
  /\ UNCHANGED <<drainVars, coVars, monVars>>

(* The token is read before the flag, and cancelled after it was cleared: the *)
(* reading of the flag decides.  TERMINATING is answered before any work.    *)
Gate(r) ==
  /\ \/ ready /\ ~cancelled /\ Goes(r, "counted", "working") /\ UNCHANGED active
     \/ (~ready \/ cancelled) /\ Goes(r, "counted", "replied") /\ active' = active - 1
  /\ UNCHANGED <<drainVars, coVars, monVars>>

(* Mutant: uncounted where the handler returns, not where it is dropped.     *)
Finish_OnReturnOnly(r) ==
  /\ Goes(r, "working", "replied")
  /\ active' \in {active - 1, active}
  /\ UNCHANGED <<drainVars, coVars, monVars>>

(* The page ends, or the cancelled token wins a select! and the answer is    *)
(* TERMINATING, or the future is dropped at the server's deadline: whichever *)
(* it is, the guard is dropped with it.                                      *)
Finish(r) ==
  /\ Goes(r, "working", "replied")
  /\ active' = active - 1
  /\ UNCHANGED <<drainVars, coVars, monVars>>

-----------------------------------------------------------------------------
(* The worker's shutdown.                                                   *)

Signal ==
  /\ stage = "serving"
  /\ stage' = "draining" /\ ready' = FALSE /\ clock' = 0 /\ asleep' = FALSE
  /\ UNCHANGED <<cancelled, outcome, active, coVars, at, monVars>>

(* The pause is cut by the timeout: with a timeout of zero there is none.    *)
PauseEnd == IF MinPause < DrainTimeout THEN MinPause ELSE DrainTimeout

DrainEnds(how) ==
  /\ stage' = "stopping" /\ outcome' = how
  /\ UNCHANGED <<ready, cancelled, clock, asleep>>

(* One turn of drain's loop: the counter is read once, and decides.          *)
DrainTurn ==
  /\ stage = "draining" /\ ~asleep
  /\ \/ active = 0 /\ clock >= PauseEnd /\ DrainEnds("drained")
     \/ active > 0 /\ clock >= DrainTimeout /\ DrainEnds("timedOut")
     \/ /\ clock < DrainTimeout /\ (active > 0 \/ clock < PauseEnd)
        /\ asleep' = TRUE
        /\ UNCHANGED <<stage, ready, cancelled, outcome, clock>>
  /\ UNCHANGED <<active, coVars, at, monVars>>

SecondSignal ==
  /\ stage = "draining" /\ asleep
  /\ DrainEnds("interrupted")
  /\ UNCHANGED <<active, coVars, at, monVars>>

CancelToken ==
  /\ stage = "stopping"
  /\ stage' = "waiting" /\ cancelled' = TRUE
  /\ UNCHANGED <<ready, outcome, clock, asleep, active, coVars, at, monVars>>

(* The last loop of shutdown_signal: the counter is zero, the server closes. *)
CloseServer ==
  /\ stage = "waiting" /\ active = 0
  /\ stage' = "closed"
  /\ UNCHANGED <<ready, cancelled, outcome, clock, asleep, active, coVars, at, monVars>>

(* The process goes at once: SIGKILL, or the metrics server ended, the other *)
(* arm of run_worker's select!.  Requests in it are broken connections.      *)
Exit ==
  /\ stage \in Open
  /\ stage' = "exited" /\ active' = 0
  /\ at' = [r \in Requests |-> IF at[r] \in AtWorker THEN "replied" ELSE at[r]]
  /\ UNCHANGED <<ready, cancelled, outcome, clock, asleep, coVars, monVars>>

-----------------------------------------------------------------------------
(* The coordinator's health monitor: one round per second, worker by worker. *)

StartRound ==
  /\ monitor = "resting" /\ owed > 0
  /\ monitor' = "asking" /\ owed' = owed - 1
  /\ UNCHANGED <<heard, half, healthy, drainVars, active, coVars, at>>

(* health_check: healthy while ready and not terminating; no connection      *)
(* counts as unhealthy.                                                      *)
Ask ==
  /\ monitor = "asking"
  /\ monitor' = "asked"
  /\ heard' = (stage \in Open /\ ready /\ ~cancelled)
  /\ UNCHANGED <<half, owed, healthy, drainVars, active, coVars, at>>

(* The set is replaced as a whole when the last worker has been asked.       *)
EndRound ==
  /\ monitor = "asked"
  /\ monitor' = "resting" /\ healthy' = heard
  /\ UNCHANGED <<heard, half, owed, drainVars, active, coVars, at>>

MonitorStops ==
  /\ monitor = "resting" /\ coStage # "serving"
  /\ monitor' = "stopped"
  /\ UNCHANGED <<heard, half, owed, healthy, drainVars, active, coVars, at>>

(* What is due happens before time goes on.                                  *)
NothingDue ==
  /\ ~(stage = "draining" /\ ~asleep) /\ stage # "stopping"
  /\ monitor = "resting" => owed = 0 /\ coStage = "serving"

Tick ==
  /\ NothingDue
  /\ clock' = IF stage = "draining" THEN clock + 1 ELSE clock
  /\ asleep' = FALSE
  /\ half' = ~half
  /\ owed' = IF half /\ monitor # "stopped" /\ owed < Behind THEN owed + 1 ELSE owed
  /\ UNCHANGED <<stage, ready, cancelled, outcome, active, coVars, at, monitor, heard, healthy>>

-----------------------------------------------------------------------------
Handler(r) == CoGate(r) \/ Select(r) \/ Unreachable(r) \/ Return(r) \/ Arrive(r) \/ Gate(r)
Shutdown == DrainTurn \/ CancelToken \/ CloseServer
Monitor == StartRound \/ MonitorStops
Round == Ask \/ EndRound

Next ==
  \/ \E r \in Requests : CoArrive(r) \/ Handler(r) \/ Finish(r)
  \/ Shutdown \/ Signal \/ SecondSignal \/ Exit
  \/ CoSignal \/ CoStop
  \/ Monitor \/ Round \/ Tick

Spec == Init /\ [][Next]_vars

(* Tasks are polled, time goes on, and work ends by its own time limits or   *)
(* the server's deadline.  No signal ever has to come, and no worker has to   *)
(* answer a health round.                                                    *)
FairSpec ==
  /\ Spec
  /\ WF_vars(Shutdown) /\ WF_vars(CoStop) /\ WF_vars(Monitor) /\ WF_vars(Tick)
  /\ \A r \in Requests : WF_vars(Handler(r)) /\ WF_vars(Finish(r))

-----------------------------------------------------------------------------
(* The counters are the requests they stand for: a guard is never dropped    *)
(* twice or forgotten (ActiveRequestGuard, both services).                   *)
ActiveCounts ==
  /\ active = Cardinality({r \in Requests : at[r] \in AtWorker})
  /\ coActive = Cardinality({r \in Requests : at[r] \in AtCoordinator})

(* A drain that reports success, and a server that closes, leave no request  *)
(* at work, although requests arrive while the counter is read (drain and    *)
(* shutdown_signal against scrape_page's guard and gate).                    *)
NoneCutOff ==
  /\ outcome = "drained" \/ stage = "closed" => \A r \in Requests : at[r] # "working"
  /\ coStage = "closed" => \A r \in Requests : at[r] \notin AtCoordinator \ {"arrived"}

(* Both programs stop once they are told to, whatever arrives meanwhile.     *)
ShutdownEnds ==
  /\ stage = "draining" ~> stage \notin Open
  /\ coStage = "cancelled" ~> coStage = "closed"
=============================================================================
