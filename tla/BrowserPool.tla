------------------------------ MODULE BrowserPool ------------------------------
(***************************************************************************)
(* The browser context pool of one worker: who may use which context, how  *)
(* many contexts exist, and what happens to a context that leaves the      *)
(* pool.  The actors are the scrape requests (one task each), the          *)
(* lifecycle monitor, the detached cleanup tasks and Chrome.               *)
(*                                                                         *)
(* One step is one critical section of `contexts: RwLock<Vec<..>>`, one    *)
(* compare-and-swap of a busy flag, or one await point at which another    *)
(* task may run or the request future may be dropped (client gone).        *)
(*                                                                         *)
(* A context is an identifier (its uuid).  An identifier is used again     *)
(* only when nothing refers to it any more, so a finite set of identifiers *)
(* stands for an unbounded supply of uuids.  Isolation is `isolated`: every *)
(* slot owns a CDP BrowserContext.  Ages are abstracted to the two         *)
(* thresholds the code compares them with (`aged`, `stale`), and the       *)
(* least-used-first order among eligible contexts to any order.  Nothing   *)
(* ever measures cache_size_mb (config.rs:412), so no context is recycled  *)
(* for it.                                                                 *)
(***************************************************************************)
EXTENDS Naturals, FiniteSets

CONSTANTS
  Contexts,      \* context identifiers
  Requests,      \* scrape requests; each serves one client call after another
  NoContext,     \* "no context": an empty Option<Arc<BrowserContext>>
  Modes,         \* the session modes a scope of this instance may have
  MaxContexts,   \* ScopeConfig::max_contexts
  MinContexts,   \* ScopeConfig::min_contexts
  MaxRequests,   \* ContextLifecycleConfig::max_requests
  CountLimit,    \* bound of the model: total_requests is counted up to here
  Strategy,      \* ContextLifecycleConfig::rotation_strategy
  Origins,       \* registrable domains that may refuse an exit IP
  NoOrigin,      \* a request quarantines do not apply to
  CountryCodes   \* {FALSE}, or BOOLEAN when requests may carry a country_code

ASSUME PoolAssumption ==
  /\ NoContext \notin Contexts
  /\ NoOrigin \notin Origins
  /\ Modes \subseteq {"always_new", "reusable", "dedicated"}
  /\ MaxContexts \in Nat
  /\ MinContexts \in 0..MaxContexts
  /\ MaxRequests \in Nat
  /\ CountLimit \in Nat /\ CountLimit > MaxRequests
  /\ Strategy \in {"TimeBasedOnly", "RequestBasedOnly", "Hybrid"}
  /\ "dedicated" \in Modes => Strategy = "Hybrid"
  /\ CountryCodes \subseteq BOOLEAN
  /\ IsFiniteSet(Requests)

VARIABLES
  mode,      \* the scope's session mode, fixed at startup
  pool,      \* the contexts in `contexts`
  pending,   \* `pending_creations`: slots promised to contexts being built
  busy,      \* the contexts whose `is_busy` flag is set
  served,    \* `total_requests` of each context
  aged,      \* contexts older than max_lifetime
  stale,     \* contexts whose `last_used_at` is older than max_idle_time
  refused,   \* `blocked_origins`: the origins each context is quarantined for
  live,      \* contexts whose tab and CDP context exist in Chrome
  removed,   \* contexts taken out of the pool, `release_context` not yet done
  doomed,    \* contexts an AlwaysNewContextGuard has spawned a destroy for
  told,      \* contexts whose id a client was given (Dedicated)
  pc,        \* where each request is
  held,      \* the Arc<BrowserContext> each request holds
  cand,      \* the candidates a request collected under the read lock
  wants,     \* the origin and country_code of each request
  mpc,       \* where the lifecycle monitor is
  todo,      \* contexts the monitor's scan has not looked at
  claimed,   \* contexts the monitor has claimed for recycling
  cur,       \* the context the monitor is working on
  fresh      \* the replacement the monitor has built

ctxVars == <<busy, served, aged, stale, refused>>
chromeVars == <<live, removed, doomed>>
reqVars == <<pc, held, cand, wants>>
monVars == <<mpc, todo, claimed, cur, fresh>>
vars == <<mode, pool, pending, ctxVars, chromeVars, told, reqVars, monVars>>

--------------------------------------------------------------------------------
(* What the code computes from the state. *)

UsedUp(c) ==
  \/ Strategy \in {"TimeBasedOnly", "Hybrid"} /\ c \in aged
  \/ Strategy \in {"RequestBasedOnly", "Hybrid"} /\ served[c] >= MaxRequests

(* Mutant: used-up contexts are left to the replacement on demand. *)
ShouldRecycle_IdleOnly(c) == ~UsedUp(c) /\ Strategy = "Hybrid" /\ c \in stale

ShouldRecycle(c) == UsedUp(c) \/ (Strategy = "Hybrid" /\ c \in stale)

(* Mutant: a used-up context is still handed out. *)
Candidates_UsedUpToo(o) == {c \in pool \ busy : o \notin refused[c]}

Candidates(o) ==
  {c \in pool \ busy : ~UsedUp(c) /\ o \notin refused[c]}

Quarantined(o) ==
  {c \in pool \ busy : ~UsedUp(c) /\ o \in refused[c]}

UsedUpIdle == {c \in pool \ busy : UsedUp(c)}

Occupied == Cardinality(pool) + pending

ActiveSlots == Cardinality(pool \cap busy) + pending

ClaimedSlots == IF mode = "dedicated" THEN Occupied ELSE ActiveSlots

AvailableSlots ==
  IF ClaimedSlots > MaxContexts THEN 0 ELSE MaxContexts - ClaimedSlots

Building(r) == pc[r] \in {"build", "built"}

(* A request uses its context until it has destroyed it or dropped its       *)
(* guards; its busy guard outlives the destroy.                              *)
Using(r) == pc[r] \in {"claimed", "run", "destroy"}
Guarding(r) == Using(r) \/ pc[r] = "closing"

(* The RwLock around `contexts`.  The candidate loop (a reader), the second   *)
(* attempt of a request and the monitor's scan and sweep (writers) hold it    *)
(* for several steps.  It is first come, first served: a task waiting to      *)
(* write holds new readers back.                                             *)
WriteHeld ==
  mpc \in {"scan", "sweep"} \/ \E r \in Requests : pc[r] \in {"limit", "full", "last"}
WriteWaiting ==
  mpc \in {"due", "swap"} \/ \E r \in Requests : pc[r] \in {"lock", "built", "ending", "destroy"}
CanRead == ~WriteHeld /\ ~WriteWaiting
CanWrite == ~WriteHeld /\ \A r \in Requests : pc[r] # "look"

(* `Tab` mutex of a context: held for the whole of scrape_page_internal's *)
(* page work, released before any path that destroys the context.          *)
TabLocked(c) == \E r \in Requests : pc[r] = "run" /\ held[r] = c

(* What the monitor has claimed and not yet replaced.  The sweep of a         *)
(* Dedicated pool claims nothing: its `claimed` is a list.                   *)
MonitorOwns ==
  IF mpc = "sweep" THEN {}
  ELSE claimed \cup (IF mpc \in {"recycle", "swap"} THEN {cur} \ {NoContext} ELSE {})

Unused == Contexts \ (pool \cup removed \cup doomed \cup claimed
                      \cup {held[r] : r \in Requests} \cup {cur, fresh})

--------------------------------------------------------------------------------
(* Startup. *)

NoWish == [origin |-> NoOrigin, country |-> FALSE]

Init ==
  /\ mode \in Modes
  /\ pool \in SUBSET Contexts
  /\ IsFiniteSet(pool)
  /\ Cardinality(pool) = IF mode = "reusable" THEN MinContexts ELSE 0
  /\ pending = 0
  /\ busy = {} /\ aged = {} /\ stale = {}
  /\ served = [c \in Contexts |-> 0]
  /\ refused = [c \in Contexts |-> {}]
  /\ live = pool /\ removed = {} /\ doomed = {} /\ told = {}
  /\ pc = [r \in Requests |-> "idle"]
  /\ held = [r \in Requests |-> NoContext]
  /\ cand = [r \in Requests |-> {}]
  /\ wants = [r \in Requests |-> NoWish]
  /\ mpc = "sleep" /\ todo = {} /\ claimed = {}
  /\ cur = NoContext /\ fresh = NoContext

Goto(r, place) == pc' = [pc EXCEPT ![r] = place]

Hold(r, c) == held' = [held EXCEPT ![r] = c]

(* A context built just now: its metadata starts from scratch. *)
Reset(c) ==
  /\ served' = [served EXCEPT ![c] = 0]
  /\ refused' = [refused EXCEPT ![c] = {}]
  /\ aged' = aged \ {c}
  /\ stale' = stale \ {c}

(* Contexts leave the pool; releasing them in Chrome comes later. *)
Remove(C) ==
  /\ pool' = pool \ C
  /\ removed' = removed \cup C
  /\ told' = told \ C

--------------------------------------------------------------------------------
(* Reusable: get_or_create_context. *)

(* First attempt, under the read lock: collect the eligible contexts. *)
Arrive(r, o, country) ==
  /\ mode = "reusable"
  /\ pc[r] = "idle"
  /\ CanRead
  /\ wants' = [wants EXCEPT ![r] = [origin |-> o, country |-> country]]
  /\ IF country
       THEN Goto(r, "lock") /\ UNCHANGED cand
       ELSE Goto(r, "look") /\ cand' = [cand EXCEPT ![r] = Candidates(o)]
  /\ UNCHANGED <<mode, pool, pending, ctxVars, chromeVars, told, held, monVars>>

(* Mutant: the flag is stored, not compared and swapped. *)
TryCandidate_Store(r, c) ==
  /\ pc[r] = "look"
  /\ c \in cand[r]
  /\ busy' = busy \cup {c}
  /\ cand' = [cand EXCEPT ![r] = {}]
  /\ Goto(r, "claimed") /\ Hold(r, c)
  /\ UNCHANGED <<mode, pool, pending, served, aged, stale, refused, chromeVars, told,
                 wants, monVars>>

(* ... and try to claim them one after the other. *)
TryCandidate(r, c) ==
  /\ pc[r] = "look"
  /\ c \in cand[r]
  /\ IF c \in busy
       THEN /\ cand' = [cand EXCEPT ![r] = @ \ {c}]
            /\ UNCHANGED <<busy, pc, held>>
       ELSE /\ busy' = busy \cup {c}
            /\ cand' = [cand EXCEPT ![r] = {}]
            /\ Goto(r, "claimed") /\ Hold(r, c)
  /\ UNCHANGED <<mode, pool, pending, served, aged, stale, refused, chromeVars, told,
                 wants, monVars>>

NoCandidateLeft(r) ==
  /\ pc[r] = "look"
  /\ cand[r] = {}
  /\ Goto(r, "lock")
  /\ UNCHANGED <<mode, pool, pending, ctxVars, chromeVars, told, held, cand, wants, monVars>>

(* Second attempt, under the write lock.  Contexts are only claimed under the *)
(* lock, but busy flags are cleared, quarantines end and reservations are     *)
(* dropped without it, so each look of the code is a step of its own.         *)
LockedReuse(r, c) ==
  /\ pc[r] = "lock"
  /\ CanWrite
  /\ ~wants[r].country
  /\ c \in Candidates(wants[r].origin)
  /\ busy' = busy \cup {c}
  /\ Goto(r, "claimed") /\ Hold(r, c)
  /\ UNCHANGED <<mode, pool, pending, served, aged, stale, refused, chromeVars, told,
                 cand, wants, monVars>>

(* Nothing to reuse: a request with a country_code never reuses a context.    *)
NothingToReuse(r) ==
  /\ pc[r] = "lock"
  /\ CanWrite
  /\ wants[r].country \/ Candidates(wants[r].origin) = {}
  /\ Goto(r, "limit")
  /\ UNCHANGED <<mode, pool, pending, ctxVars, chromeVars, told, held, cand, wants, monVars>>

(* SlotReservation::take. *)
Reserve(r) == pending' = pending + 1 /\ Goto(r, "build")

(* Mutant: room for one more at the limit. *)
LockedReserve_OffByOne(r) ==
  /\ pc[r] = "limit"
  /\ IF Occupied <= MaxContexts THEN Reserve(r) ELSE Goto(r, "full") /\ UNCHANGED pending
  /\ UNCHANGED <<mode, pool, ctxVars, chromeVars, told, held, cand, wants, monVars>>

LockedReserve(r) ==
  /\ pc[r] = "limit"
  /\ IF Occupied < MaxContexts THEN Reserve(r) ELSE Goto(r, "full") /\ UNCHANGED pending
  /\ UNCHANGED <<mode, pool, ctxVars, chromeVars, told, held, cand, wants, monVars>>

(* Mutant: the old context is dropped, not released. *)
LockedReplace_NoRelease(r, c) ==
  /\ pc[r] = "full"
  /\ c \in UsedUpIdle
  /\ busy' = busy \cup {c}
  /\ pool' = pool \ {c}
  /\ Reserve(r)
  /\ UNCHANGED <<mode, served, aged, stale, refused, chromeVars, told, held, cand, wants,
                 monVars>>

(* At the limit: an idle used-up context gives its slot to a new one. *)
LockedReplace(r, c) ==
  /\ pc[r] = "full"
  /\ c \in UsedUpIdle
  /\ busy' = busy \cup {c}
  /\ Remove({c})
  /\ Reserve(r)
  /\ UNCHANGED <<mode, served, aged, stale, refused, live, doomed, held, cand, wants,
                 monVars>>

NothingToReplace(r) ==
  /\ pc[r] = "full"
  /\ UsedUpIdle = {}
  /\ Goto(r, "last")
  /\ UNCHANGED <<mode, pool, pending, ctxVars, chromeVars, told, held, cand, wants, monVars>>

(* Last resort: a context quarantined for this origin. *)
LockedFallback(r, c) ==
  /\ pc[r] = "last"
  /\ ~wants[r].country
  /\ c \in Quarantined(wants[r].origin)
  /\ busy' = busy \cup {c}
  /\ Goto(r, "claimed") /\ Hold(r, c)
  /\ UNCHANGED <<mode, pool, pending, served, aged, stale, refused, chromeVars, told,
                 cand, wants, monVars>>

LockedRefuse(r) ==
  /\ pc[r] = "last"
  /\ wants[r].country \/ Quarantined(wants[r].origin) = {}
  /\ Goto(r, "refused")
  /\ UNCHANGED <<mode, pool, pending, ctxVars, chromeVars, told, held, cand, wants, monVars>>

--------------------------------------------------------------------------------
(* AlwaysNew and Dedicated: a new context or nothing. *)

(* Mutant: contexts in use are taken for leaks, too. *)
AcquireAlwaysNew_All(r) ==
  /\ mode = "always_new"
  /\ pc[r] = "idle"
  /\ CanWrite
  /\ Remove(pool)
  /\ IF pending < MaxContexts THEN Reserve(r) ELSE UNCHANGED pending /\ Goto(r, "refused")
  /\ UNCHANGED <<mode, ctxVars, live, doomed, held, cand, wants, monVars>>

(* create_always_new_context: leaked contexts go first, then the limit. *)
AcquireAlwaysNew(r) ==
  /\ mode = "always_new"
  /\ pc[r] = "idle"
  /\ CanWrite
  /\ Remove(pool \ busy)
  /\ IF Cardinality(pool \cap busy) + pending < MaxContexts
       THEN Reserve(r)
       ELSE UNCHANGED pending /\ Goto(r, "refused")
  /\ UNCHANGED <<mode, ctxVars, live, doomed, held, cand, wants, monVars>>

(* Mutant: contexts still being built are not counted. *)
AcquireDedicated_PoolOnly(r) ==
  /\ mode = "dedicated"
  /\ pc[r] = "idle"
  /\ CanWrite
  /\ IF Cardinality(pool) < MaxContexts
       THEN Reserve(r)
       ELSE UNCHANGED pending /\ Goto(r, "refused")
  /\ UNCHANGED <<mode, pool, ctxVars, chromeVars, told, held, cand, wants, monVars>>

(* create_dedicated_context: every context in the pool is somebody's. *)
AcquireDedicated(r) ==
  /\ mode = "dedicated"
  /\ pc[r] = "idle"
  /\ CanWrite
  /\ IF Occupied < MaxContexts
       THEN Reserve(r)
       ELSE UNCHANGED pending /\ Goto(r, "refused")
  /\ UNCHANGED <<mode, pool, ctxVars, chromeVars, told, held, cand, wants, monVars>>

--------------------------------------------------------------------------------
(* build_reserved_context: Chrome works with the lock released.  From the     *)
(* moment the blocking thread has sent its result, nobody but this request    *)
(* knows the new context, whether it has been polled yet or not.              *)

BuildSucceeds(r, c) ==
  /\ pc[r] = "build"
  /\ c \in Unused
  /\ live' = live \cup {c}
  /\ Reset(c)
  /\ busy' = busy \cup {c}
  /\ Goto(r, "built") /\ Hold(r, c)
  /\ UNCHANGED <<mode, pool, pending, removed, doomed, told, cand, wants, monVars>>

(* Mutant: an early return keeps the reservation. *)
BuildFails_KeepsSlot(r) ==
  /\ pc[r] = "build"
  /\ Goto(r, "idle")
  /\ wants' = [wants EXCEPT ![r] = NoWish]
  /\ UNCHANGED <<mode, pool, pending, ctxVars, chromeVars, told, held, cand, monVars>>

(* An error, a stall of 30 s, or a client that went away: the reservation is  *)
(* dropped.  What had been made of the context is released, which may fail.   *)
BuildFails(r) ==
  /\ pc[r] = "build"
  /\ live' \in {live} \cup {live \cup {c} : c \in Unused}
  /\ pending' = pending - 1
  /\ Goto(r, "idle")
  /\ wants' = [wants EXCEPT ![r] = NoWish]
  /\ UNCHANGED <<mode, pool, ctxVars, removed, doomed, told, held, cand, monVars>>

Push(r) ==
  /\ pc[r] = "built"
  /\ CanWrite
  /\ pool' = pool \cup {held[r]}
  /\ pending' = pending - 1
  /\ Goto(r, "claimed")
  /\ UNCHANGED <<mode, ctxVars, chromeVars, told, held, cand, wants, monVars>>

--------------------------------------------------------------------------------
(* Dedicated: a client comes back to its session.  An id that is not in the  *)
(* pool is answered SESSION_NOT_FOUND and changes nothing.                   *)

FindSession(r, c) ==
  /\ mode = "dedicated"
  /\ pc[r] = "idle"
  /\ CanRead
  /\ c \in pool \cap told
  /\ Goto(r, "found") /\ Hold(r, c)
  /\ UNCHANGED <<mode, pool, pending, ctxVars, chromeVars, told, cand, wants, monVars>>

(* end_session_if_used_up, the check outside the lock ... *)
CheckUsedUp(r) ==
  /\ pc[r] = "found"
  /\ Goto(r, IF UsedUp(held[r]) THEN "ending" ELSE "checked")
  /\ UNCHANGED <<mode, pool, pending, ctxVars, chromeVars, told, held, cand, wants, monVars>>

(* Mutant: a busy session is ended, too. *)
EndSession_Unclaimed(r) ==
  /\ pc[r] = "ending"
  /\ CanWrite
  /\ IF held[r] \in pool
       THEN /\ busy' = busy \cup {held[r]}
            /\ Remove({held[r]})
            /\ Goto(r, "idle") /\ Hold(r, NoContext)
       ELSE Goto(r, "checked") /\ UNCHANGED <<pool, busy, removed, told, held>>
  /\ UNCHANGED <<mode, pending, served, aged, stale, refused, live, doomed, cand, wants,
                 monVars>>

(* ... and the removal inside it; a context that is gone or busy is left. *)
EndSession(r) ==
  /\ pc[r] = "ending"
  /\ CanWrite
  /\ IF held[r] \in pool \ busy
       THEN /\ busy' = busy \cup {held[r]}
            /\ Remove({held[r]})
            /\ Goto(r, "idle") /\ Hold(r, NoContext)
       ELSE Goto(r, "checked") /\ UNCHANGED <<pool, busy, removed, told, held>>
  /\ UNCHANGED <<mode, pending, served, aged, stale, refused, live, doomed, cand, wants,
                 monVars>>

(* Mutant: the flag is stored, not compared and swapped. *)
ClaimSession_Store(r) ==
  /\ pc[r] = "checked"
  /\ Goto(r, "claimed") /\ busy' = busy \cup {held[r]}
  /\ UNCHANGED <<mode, pool, pending, served, aged, stale, refused, chromeVars, told, held,
                 cand, wants, monVars>>

(* ContextBusyGuard::new, outside the pool lock; SESSION_BUSY when it fails. *)
ClaimSession(r) ==
  /\ pc[r] = "checked"
  /\ IF held[r] \in busy
       THEN Goto(r, "idle") /\ Hold(r, NoContext) /\ UNCHANGED busy
       ELSE Goto(r, "claimed") /\ busy' = busy \cup {held[r]} /\ UNCHANGED held
  /\ UNCHANGED <<mode, pool, pending, served, aged, stale, refused, chromeVars, told, cand,
                 wants, monVars>>

(* NO_AVAILABLE_CONTEXTS is on its way to the client. *)
Answered(r) ==
  /\ pc[r] = "refused"
  /\ Goto(r, "idle")
  /\ wants' = [wants EXCEPT ![r] = NoWish]
  /\ UNCHANGED <<mode, pool, pending, ctxVars, chromeVars, told, held, cand, monVars>>

--------------------------------------------------------------------------------
(* scrape_page_internal on a bound context.  scrape_page has validated the    *)
(* URL before it selects a context (service.rs:2618), so the InvalidUrl       *)
(* answer before the count is never taken.                                   *)

Begin(r) ==
  /\ pc[r] = "claimed"
  /\ served' = [served EXCEPT ![held[r]] = IF @ < CountLimit THEN @ + 1 ELSE @]
  /\ stale' = stale \ {held[r]}
  /\ Goto(r, "run")
  /\ UNCHANGED <<mode, pool, pending, busy, aged, refused, chromeVars, told, held, cand,
                 wants, monVars>>

(* The tab lock is released, the context is to be destroyed: AlwaysNew frees  *)
(* its slot as soon as it has the content; in every mode after a hard         *)
(* timeout, a stalled call, a blocked session or without a CDP context.       *)
Discard(r) ==
  /\ pc[r] = "run"
  /\ Goto(r, "destroy")
  /\ UNCHANGED <<mode, pool, pending, ctxVars, chromeVars, told, held, cand, wants, monVars>>

(* Mutant: the handler still holds the tab lock release_context waits for. *)
DestroyHeld_UnderTabLock(r) ==
  /\ pc[r] = "destroy"
  /\ CanWrite
  /\ ~ \E s \in Requests : Using(s) /\ held[s] = held[r]
  /\ IF held[r] \in pool THEN Remove({held[r]}) ELSE UNCHANGED <<pool, removed, told>>
  /\ Goto(r, "closing")
  /\ UNCHANGED <<mode, pending, ctxVars, live, doomed, held, cand, wants, monVars>>

(* destroy_context: the context goes, its busy flag stays set while the       *)
(* request waits for the release and, in AlwaysNew, asks the tab for a status. *)
DestroyHeld(r) ==
  /\ pc[r] = "destroy"
  /\ CanWrite
  /\ IF held[r] \in pool THEN Remove({held[r]}) ELSE UNCHANGED <<pool, removed, told>>
  /\ Goto(r, "closing")
  /\ UNCHANGED <<mode, pending, ctxVars, live, doomed, held, cand, wants, monVars>>

(* The guards drop: last_used_at is stamped, then the busy flag is cleared;  *)
(* the AlwaysNew guard spawns its destroy.                                   *)
DropGuards(r) ==
  /\ stale' = stale \ {held[r]}
  /\ busy' = busy \ {held[r]}
  /\ doomed' = IF mode = "always_new" THEN doomed \cup {held[r]} ELSE doomed
  /\ Goto(r, "idle") /\ Hold(r, NoContext)
  /\ wants' = [wants EXCEPT ![r] = NoWish]
  /\ UNCHANGED <<mode, pending, served, aged, live, cand, monVars>>

(* An answer whose context is gone: it names no session. *)
FinishDestroyed(r) ==
  /\ pc[r] = "closing"
  /\ DropGuards(r)
  /\ UNCHANGED <<pool, removed, told, refused>>

(* Other answers.  AlwaysNew: an error before the content was read; the guard *)
(* destroys the context.  Reusable remembers an origin that refused (403/429); *)
(* Dedicated hands the id to the client.                                      *)
FinishAlwaysNew(r) ==
  /\ mode = "always_new"
  /\ pc[r] = "run"
  /\ DropGuards(r)
  /\ UNCHANGED <<pool, removed, told, refused>>

FinishReusable(r) ==
  /\ mode = "reusable"
  /\ pc[r] = "run" /\ held[r] \in live
  /\ \/ UNCHANGED refused
     \/ /\ wants[r].origin # NoOrigin
        /\ refused' = [refused EXCEPT ![held[r]] = @ \cup {wants[r].origin}]
  /\ DropGuards(r)
  /\ UNCHANGED <<pool, removed, told>>

FinishDedicated(r) ==
  /\ mode = "dedicated"
  /\ pc[r] = "run"
  /\ told' = told \cup {held[r]}
  /\ DropGuards(r)
  /\ UNCHANGED <<pool, removed, refused>>

(* The client is gone and the request future is dropped at an await point. *)
CancelWhileUsing(r) ==
  /\ Guarding(r)
  /\ DropGuards(r)
  /\ UNCHANGED <<pool, removed, told, refused>>

CancelWhileWaiting(r) ==
  /\ pc[r] \in {"lock", "found", "ending", "checked"}
  /\ Goto(r, "idle") /\ Hold(r, NoContext)
  /\ wants' = [wants EXCEPT ![r] = NoWish]
  /\ UNCHANGED <<mode, pool, pending, ctxVars, chromeVars, told, cand, monVars>>

(* Dropped before taking the result, or while waiting for the write lock: the *)
(* reservation goes and the context with it (its flag means nothing any more),*)
(* but its tab and CDP context stay open in Chrome.                           *)
CancelWhileBuilt(r) ==
  /\ pc[r] = "built"
  /\ pending' = pending - 1
  /\ busy' = busy \ {held[r]}
  /\ Goto(r, "idle") /\ Hold(r, NoContext)
  /\ wants' = [wants EXCEPT ![r] = NoWish]
  /\ UNCHANGED <<mode, pool, served, aged, stale, refused, chromeVars, told, cand, monVars>>

--------------------------------------------------------------------------------
(* Detached tasks. *)

(* The task an AlwaysNewContextGuard spawned: destroy_context by id. *)
DestroyDoomed(c) ==
  /\ c \in doomed
  /\ CanWrite
  /\ doomed' = doomed \ {c}
  /\ IF c \in pool THEN Remove({c}) ELSE UNCHANGED <<pool, removed, told>>
  /\ UNCHANGED <<mode, pending, ctxVars, live, reqVars, monVars>>

(* release_context: take the tab, or give up after 5 s because somebody holds *)
(* the tab lock, then dispose the CDP context in Chrome.  A failure is only   *)
(* logged, and a request that is dropped while it waits for the tab lock      *)
(* releases nothing.                                                          *)
Release(c) ==
  /\ c \in removed
  /\ removed' = removed \ {c}
  /\ live' \in {live} \cup {L \in {live \ {c}} : ~TabLocked(c)}
  /\ UNCHANGED <<mode, pool, pending, ctxVars, doomed, told, reqVars, monVars>>

--------------------------------------------------------------------------------
(* The lifecycle monitor, every 60 s.  AlwaysNew: an idle context is a leak. *)

SweepAlwaysNew ==
  /\ mode = "always_new"
  /\ CanWrite
  /\ pool \ busy # {}
  /\ Remove(pool \ busy)
  /\ UNCHANGED <<mode, pending, ctxVars, live, doomed, reqVars, monVars>>

(* The other modes: a tick first waits for the write lock. *)
Tick ==
  /\ mode # "always_new"
  /\ mpc = "sleep"
  /\ mpc' = "due"
  /\ UNCHANGED <<mode, pool, pending, ctxVars, chromeVars, told, reqVars, todo, claimed, cur,
                 fresh>>

(* Dedicated, under that lock: for every context the busy flag is read first  *)
(* and the expiry after.  Nothing is claimed, and a session is claimed        *)
(* without the lock.                                                          *)
StartSweep ==
  /\ mode = "dedicated"
  /\ mpc = "due"
  /\ CanWrite
  /\ mpc' = "sweep"
  /\ todo' = pool
  /\ UNCHANGED <<mode, pool, pending, ctxVars, chromeVars, told, reqVars, claimed, cur, fresh>>

SweepLook(c) ==
  /\ mpc = "sweep"
  /\ cur = NoContext
  /\ c \in todo
  /\ todo' = todo \ {c}
  /\ cur' = IF c \in busy THEN NoContext ELSE c
  /\ UNCHANGED <<mode, pool, pending, ctxVars, chromeVars, told, reqVars, mpc, claimed, fresh>>

(* Mutant: idle time is not looked at. *)
SweepJudge_UsedUpOnly ==
  /\ mpc = "sweep"
  /\ cur # NoContext
  /\ claimed' = IF UsedUp(cur) THEN claimed \cup {cur} ELSE claimed
  /\ cur' = NoContext
  /\ UNCHANGED <<mode, pool, pending, ctxVars, chromeVars, told, reqVars, mpc, todo, fresh>>

SweepJudge ==
  /\ mpc = "sweep"
  /\ cur # NoContext
  /\ claimed' = IF ShouldRecycle(cur) THEN claimed \cup {cur} ELSE claimed
  /\ cur' = NoContext
  /\ UNCHANGED <<mode, pool, pending, ctxVars, chromeVars, told, reqVars, mpc, todo, fresh>>

(* What has expired leaves the pool, whatever its flag says now. *)
EndSweep ==
  /\ mpc = "sweep"
  /\ cur = NoContext /\ todo = {}
  /\ Remove(claimed)
  /\ claimed' = {}
  /\ mpc' = "sleep"
  /\ UNCHANGED <<mode, pending, ctxVars, live, doomed, reqVars, todo, cur, fresh>>

(* Reusable, phase 1, under that lock: for every context the expiry is read   *)
(* first and the busy flag swapped after.                                     *)
StartScan ==
  /\ mode = "reusable"
  /\ mpc = "due"
  /\ CanWrite
  /\ mpc' = "scan"
  /\ todo' = pool
  /\ UNCHANGED <<mode, pool, pending, ctxVars, chromeVars, told, reqVars, claimed, cur, fresh>>

LookAt(c) ==
  /\ mpc = "scan"
  /\ cur = NoContext
  /\ c \in todo
  /\ todo' = todo \ {c}
  /\ cur' = IF ShouldRecycle(c) THEN c ELSE NoContext
  /\ UNCHANGED <<mode, pool, pending, ctxVars, chromeVars, told, reqVars, mpc, claimed, fresh>>

(* Mutant: the flag is stored, not compared and swapped. *)
ClaimExpired_Store ==
  /\ mpc = "scan"
  /\ cur # NoContext
  /\ busy' = busy \cup {cur} /\ claimed' = claimed \cup {cur}
  /\ cur' = NoContext
  /\ UNCHANGED <<mode, pool, pending, served, aged, stale, refused, chromeVars, told,
                 reqVars, mpc, todo, fresh>>

ClaimExpired ==
  /\ mpc = "scan"
  /\ cur # NoContext
  /\ IF cur \in busy
       THEN UNCHANGED <<busy, claimed>>
       ELSE busy' = busy \cup {cur} /\ claimed' = claimed \cup {cur}
  /\ cur' = NoContext
  /\ UNCHANGED <<mode, pool, pending, served, aged, stale, refused, chromeVars, told,
                 reqVars, mpc, todo, fresh>>

EndScan ==
  /\ mpc = "scan"
  /\ cur = NoContext /\ todo = {}
  /\ mpc' = IF claimed = {} THEN "sleep" ELSE "recycle"
  /\ UNCHANGED <<mode, pool, pending, ctxVars, chromeVars, told, reqVars, todo, claimed,
                 cur, fresh>>

(* Phase 2, without the lock: release the old context, build a replacement.   *)
(* The tab lock is awaited without a bound; a release that fails is only      *)
(* logged; a creation Chrome refuses leaves an empty replacement.             *)
ReleaseClaimed(c) ==
  /\ mpc = "recycle"
  /\ cur = NoContext
  /\ c \in claimed
  /\ ~TabLocked(c)
  /\ live' \in {live, live \ {c}}
  /\ claimed' = claimed \ {c}
  /\ cur' = c
  /\ UNCHANGED <<mode, pool, pending, ctxVars, removed, doomed, told, reqVars, mpc, todo,
                 fresh>>

BuildReplacement(d) ==
  /\ mpc = "recycle"
  /\ cur # NoContext
  /\ d \in Unused
  /\ live' \in {live \ {d}, live \cup {d}}
  /\ Reset(d)
  /\ busy' = busy \ {d}
  /\ fresh' = d
  /\ mpc' = "swap"
  /\ UNCHANGED <<mode, pool, pending, removed, doomed, told, reqVars, todo, claimed, cur>>

(* Mutant: the replacement is pushed, the claimed slot is left as it is. *)
Swap_Pushes ==
  /\ mpc = "swap"
  /\ CanWrite
  /\ pool' = pool \cup {fresh}
  /\ cur' = NoContext /\ fresh' = NoContext
  /\ mpc' = IF claimed = {} THEN "sleep" ELSE "recycle"
  /\ UNCHANGED <<mode, pending, ctxVars, chromeVars, told, reqVars, todo, claimed>>

(* Phase 3, under the write lock: swap it into the claimed slot. *)
Swap ==
  /\ mpc = "swap"
  /\ CanWrite
  /\ IF cur \in pool
       THEN pool' = (pool \ {cur}) \cup {fresh} /\ UNCHANGED removed
       ELSE removed' = removed \cup {fresh} /\ UNCHANGED pool
  /\ cur' = NoContext /\ fresh' = NoContext
  /\ mpc' = IF claimed = {} THEN "sleep" ELSE "recycle"
  /\ UNCHANGED <<mode, pending, ctxVars, live, doomed, told, reqVars, todo, claimed>>

--------------------------------------------------------------------------------
(* Time passes. *)

Age(c) ==
  /\ c \in pool \ aged
  /\ mode # "always_new" /\ Strategy # "RequestBasedOnly"
  /\ aged' = aged \cup {c}
  /\ UNCHANGED <<mode, pool, pending, busy, served, stale, refused, chromeVars, told,
                 reqVars, monVars>>

GrowStale(c) ==
  /\ c \in pool \ stale
  /\ mode # "always_new" /\ Strategy = "Hybrid"
  /\ stale' = stale \cup {c}
  /\ UNCHANGED <<mode, pool, pending, busy, served, aged, refused, chromeVars, told,
                 reqVars, monVars>>

QuarantineEnds(c, o) ==
  /\ c \in pool /\ o \in refused[c]
  /\ refused' = [refused EXCEPT ![c] = @ \ {o}]
  /\ UNCHANGED <<mode, pool, pending, busy, served, aged, stale, chromeVars, told,
                 reqVars, monVars>>

--------------------------------------------------------------------------------

Acquire(r) ==
  \/ \E o \in Origins \cup {NoOrigin}, country \in CountryCodes : Arrive(r, o, country)
  \/ \E c \in Contexts : TryCandidate(r, c) \/ LockedReuse(r, c)
  \/ \E c \in Contexts : LockedReplace(r, c) \/ LockedFallback(r, c)
  \/ NoCandidateLeft(r) \/ NothingToReuse(r) \/ LockedReserve(r)
  \/ NothingToReplace(r) \/ LockedRefuse(r)
  \/ AcquireAlwaysNew(r) \/ AcquireDedicated(r)
  \/ \E c \in Contexts : BuildSucceeds(r, c)
  \/ BuildFails(r) \/ Push(r)

Continue(r) ==
  \/ \E c \in Contexts : FindSession(r, c)
  \/ CheckUsedUp(r) \/ EndSession(r) \/ ClaimSession(r)

Scrape(r) ==
  \/ Answered(r) \/ Begin(r) \/ Discard(r) \/ DestroyHeld(r) \/ FinishDestroyed(r)
  \/ FinishAlwaysNew(r) \/ FinishReusable(r) \/ FinishDedicated(r)

Cancel(r) == CancelWhileUsing(r) \/ CancelWhileWaiting(r) \/ CancelWhileBuilt(r)

Cleanup == \E c \in Contexts : DestroyDoomed(c) \/ Release(c)

Monitor ==
  \/ Tick \/ SweepAlwaysNew
  \/ StartSweep \/ (\E c \in Contexts : SweepLook(c)) \/ SweepJudge \/ EndSweep
  \/ StartScan \/ ClaimExpired \/ EndScan \/ Swap
  \/ \E c \in Contexts : LookAt(c) \/ ReleaseClaimed(c) \/ BuildReplacement(c)

Environment ==
  \E c \in Contexts :
    Age(c) \/ GrowStale(c) \/ \E o \in Origins : QuarantineEnds(c, o)

Next ==
  \/ \E r \in Requests : Acquire(r) \/ Continue(r) \/ Scrape(r) \/ Cancel(r)
  \/ Cleanup \/ Monitor \/ Environment

Spec == Init /\ [][Next]_vars

--------------------------------------------------------------------------------
(* Properties. *)

TypeOK ==
  /\ mode \in Modes
  /\ pool \in SUBSET Contexts /\ IsFiniteSet(pool)
  /\ pending \in Nat
  /\ busy \in SUBSET Contexts /\ aged \in SUBSET Contexts /\ stale \in SUBSET Contexts
  /\ served \in [Contexts -> Nat]
  /\ refused \in [Contexts -> SUBSET Origins]
  /\ live \in SUBSET Contexts /\ removed \in SUBSET Contexts
  /\ doomed \in SUBSET Contexts /\ told \in SUBSET Contexts
  /\ pc \in [Requests -> {"idle", "look", "lock", "limit", "full", "last", "build",
                          "built", "found", "ending", "checked", "claimed", "run",
                          "destroy", "closing", "refused"}]
  /\ held \in [Requests -> Contexts \cup {NoContext}]
  /\ cand \in [Requests -> SUBSET Contexts]
  /\ wants \in [Requests -> [origin : Origins \cup {NoOrigin}, country : BOOLEAN]]
  /\ mpc \in {"sleep", "due", "sweep", "scan", "recycle", "swap"}
  /\ todo \in SUBSET Contexts /\ claimed \in SUBSET Contexts
  /\ cur \in Contexts \cup {NoContext} /\ fresh \in Contexts \cup {NoContext}

(* `len + pending` never exceeds max_contexts, whatever is being built,      *)
(* replaced or recycled at the moment (occupied_slots, SlotReservation).     *)
Capacity == Occupied <= MaxContexts

(* Every promised slot belongs to exactly one request that is still building:*)
(* no error, stall or dropped future loses or returns a slot twice           *)
(* (SlotReservation's Drop).                                                 *)
PendingCounts == pending = Cardinality({r \in Requests : Building(r)})

(* Two requests never hold the same context, not even while one of them still *)
(* works on a tab it has destroyed, and never one the monitor has claimed for *)
(* recycling (try_claim, ContextBusyGuard).                                  *)
ExclusiveUse ==
  /\ \A r, s \in Requests : Guarding(r) /\ Guarding(s) /\ held[r] = held[s] => r = s
  /\ \A r \in Requests : Guarding(r) => held[r] \notin MonitorOwns

(* Outside Dedicated the context of a request stays in the pool until that    *)
(* request destroys it (try_claim, the purge of create_always_new_context).   *)
UsedStaysInPool ==
  mode # "dedicated" => \A r \in Requests : Using(r) => held[r] \in pool

(* What the monitor claimed is still in the pool when it comes back with the *)
(* replacement, and nobody holds its tab lock meanwhile (phases 2 and 3).    *)
MonitorKeepsItsSlots == MonitorOwns \subseteq pool /\ \A c \in MonitorOwns : ~TabLocked(c)

(* A context of a Reusable scope serves at most one request more than        *)
(* max_requests for every other request that may hold an old candidate list. *)
QuotaOvershoot ==
  mode = "reusable" /\ Strategy # "TimeBasedOnly" =>
    \A c \in pool : served[c] < MaxRequests + Cardinality(Requests)

(* While a request uses a context, nobody else takes it out of the pool, but  *)
(* for the sweep of a Dedicated pool, and only one the sweep had seen idle and *)
(* expired before that request claimed it (end_session_if_used_up,            *)
(* destroy_context, the lifecycle monitor).                                   *)
OnlySweepTakesUsed ==
  [][\A r \in Requests :
       Using(r) /\ Using(r)' /\ held[r] \in pool /\ held[r] \notin pool'
         => mpc = "sweep" /\ held[r] \in claimed]_vars

(* A context that exists in Chrome is lost from sight in four ways only:      *)
(* release_context or the monitor's phase 2 has tried to release it (and      *)
(* failed), a creation has failed, or a request was dropped between building  *)
(* and pushing it.  Nothing else takes a context out of the pool and forgets  *)
(* it.                                                                       *)
Tracked == pool \cup removed \cup MonitorOwns \cup {fresh}
             \cup {held[r] : r \in {s \in Requests : pc[s] = "built" \/ Using(s)}}

LostOnlyAfterRelease ==
  [][mode # "dedicated" =>
       \A c \in Contexts : c \notin live \ Tracked /\ c \in (live \ Tracked)' =>
         \/ c \in removed
         \/ mpc = "swap" /\ c = cur
         \/ \E r \in Requests : pc[r] = "build" /\ pc'[r] = "idle"
         \/ \E r \in Requests : pc[r] = "built" /\ pc'[r] = "idle" /\ held[r] = c]_vars

(* The session id handed to a client is that of a context in the pool.       *)
EchoedSessionExists == [][\A c \in Contexts : c \in told' \ told => c \in pool']_vars

--------------------------------------------------------------------------------
(* The pool as an allocator of slots, and liveness. *)

Slots == INSTANCE SlotPool WITH
  Owners <- Requests,
  Limit <- MaxContexts,
  slots <- pool,
  promised <- pending,
  lease <- [r \in Requests |-> IF Using(r) THEN held[r] ELSE NoContext],
  kept <- MonitorOwns

(* Every AlwaysNew or Reusable pool is a slot allocator.                     *)
ImplementsSlotPool == Slots!Spec

--------------------------------------------------------------------------------
(* Liveness.  A request that was started runs to its end: page work, CDP     *)
(* calls and creations are bounded by timeouts (cdp_call, the hard timeout),  *)
(* and tokio's RwLock is first come, first served, so a task that waits for   *)
(* it again and again gets it.  Detached tasks run, the monitor ticks, time   *)
(* passes.  Nothing makes a client call, cancel, or an origin refuse.         *)

Advance(r) ==
  \/ \E c \in Contexts : TryCandidate(r, c) \/ LockedReuse(r, c)
  \/ \E c \in Contexts : LockedReplace(r, c) \/ LockedFallback(r, c)
  \/ NoCandidateLeft(r) \/ NothingToReuse(r) \/ LockedReserve(r)
  \/ NothingToReplace(r) \/ LockedRefuse(r)
  \/ BuildFails(r) \/ (\E c \in Contexts : BuildSucceeds(r, c)) \/ Push(r)
  \/ CheckUsedUp(r) \/ EndSession(r) \/ ClaimSession(r)
  \/ Scrape(r)

Fairness ==
  /\ \A r \in Requests : SF_vars(Advance(r))
  /\ \A c \in Contexts : WF_vars(Release(c)) /\ SF_vars(DestroyDoomed(c))
  /\ SF_vars(Monitor)
  /\ \A c \in Contexts : WF_vars(GrowStale(c))

FairSpec == Spec /\ Fairness

(* Every request gets its answer: the locks, the monitor and the cleanup     *)
(* tasks never wait for one another in a circle.                             *)
RequestsEnd == \A r \in Requests : pc[r] # "idle" ~> pc[r] = "idle"

(* A used-up context leaves a Reusable pool, however busy the pool is: "what *)
(* bounds a context's age by max_lifetime plus one request".                 *)
UsedUpRetires ==
  \A c \in Contexts : mode = "reusable" /\ c \in pool /\ UsedUp(c) ~> c \notin pool \/ ~UsedUp(c)

(* Slots come back: the pool of a scope without sessions never stays full.   *)
SlotsReturn == mode # "dedicated" => []<>(AvailableSlots > 0)

(* A session nobody uses any more gives its slot back.                       *)
IdleSessionsEnd ==
  \A c \in Contexts :
    mode = "dedicated" /\ c \in pool \cap stale ~> c \notin pool \/ c \notin stale

================================================================================
