---------------------------- MODULE WorkerRecovery ----------------------------
(***************************************************************************)
(* Recovery from a dead browser.  A worker keeps its BrowserPool behind a  *)
(* second lock, `browser_pool: Arc<RwLock<BrowserPool>>`: requests read    *)
(* it, `recreate_browser_pool` writes it, and `pool_generation` counts the *)
(* replacements.  A request that fails while the generation moved runs     *)
(* once more on a context of the new pool.                                 *)
(*                                                                         *)
(* Browsers are numbered in the order their pools are installed; a         *)
(* replaced pool kills its browser when it is dropped, so every browser    *)
(* before the current one is dead.  A context is the browser it lives in.  *)
(* Inside the pool everything is BrowserPool's: here an acquisition        *)
(* succeeds, is refused, or meets the dead browser.                        *)
(*                                                                         *)
(* tokio's RwLock is fair: whoever waits stands in one queue, and a waiting *)
(* writer blocks the readers behind it, also those that hold a guard.      *)
(***************************************************************************)
EXTENDS Integers, Sequences, FiniteSets

CONSTANTS
  Requests,     \* scrape requests; each serves one client call after another
  Nobody,       \* the write lock is free
  Modes,        \* the session modes a scope of this instance may have
  Impatient,    \* the requests whose future may be dropped (client, deadline)
  MaxBrowsers   \* bound of the model: later browsers no longer die

ASSUME RecoveryAssumption ==
  /\ Nobody \notin Requests
  /\ Modes \subseteq {"always_new", "reusable", "dedicated"}
  /\ Impatient \subseteq Requests
  /\ MaxBrowsers \in Nat

VARIABLES
  mode,      \* the scope's session mode, fixed at startup
  pool,      \* which browser the installed pool belongs to
  down,      \* whether that browser is dead (or its transport closed)
  gen,       \* `pool_generation`
  readers,   \* how many read guards each request holds
  writer,    \* who holds the write guard
  queue,     \* who waits for the lock, first come first served
  pc,        \* where each request is
  ctx,       \* the browser of the context bound to each request
  start,     \* `generation_at_start` of each request
  attempt,   \* 1, or 2 for the retry after a replacement
  site,      \* what led the request into recovery
  session    \* the browser a client's session lives in, or NoSession

lockVars == <<readers, writer, queue>>
poolVars == <<pool, down, gen>>
vars == <<mode, poolVars, lockVars, pc, ctx, start, attempt, site, session>>

NoSession == -1

WaitsToRead == {"lookup", "acquire", "tabwait", "discard", "closing"}
WaitsToWrite == {"writing"}
Waiting == WaitsToRead \cup WaitsToWrite

Failed == {"failed", "restarted", "discarded"}  \* how an attempt that did not succeed ended

TypeOK ==
  /\ mode \in Modes
  /\ pool \in Nat /\ gen \in Nat
  /\ down \in BOOLEAN
  /\ readers \in [Requests -> 0..2]
  /\ writer \in Requests \cup {Nobody}
  /\ pc \in [Requests -> Waiting \cup {"idle", "create", "launch", "swapped", "bound",
                                       "tab", "page"} \cup Failed]
  /\ ctx \in [Requests -> Nat]
  /\ start \in [Requests -> Nat]
  /\ attempt \in [Requests -> 1..2]
  /\ site \in [Requests -> {"none", "acquire", "page"}]
  /\ session \in [Requests -> Nat \cup {NoSession}]

Init ==
  /\ mode \in Modes
  /\ pool = 0 /\ gen = 0 /\ down = FALSE
  /\ readers = [r \in Requests |-> 0]
  /\ writer = Nobody
  /\ queue = << >>
  /\ pc = [r \in Requests |-> "idle"]
  /\ ctx = [r \in Requests |-> 0]
  /\ start = [r \in Requests |-> 0]
  /\ attempt = [r \in Requests |-> 1]
  /\ site = [r \in Requests |-> "none"]
  /\ session = [r \in Requests |-> NoSession]

-------------------------------------------------------------------------------
(* The fair lock.  A request at the head of the queue reads unless somebody  *)
(* writes, and writes once nobody holds a guard.                             *)

Dead(b) == b < pool \/ (b = pool /\ down)

Goto(r, l) == pc' = [pc EXCEPT ![r] = l]
AwaitRead(r) == queue' = Append(queue, r)

GrantRead(r) ==
  /\ queue # << >> /\ Head(queue) = r
  /\ writer = Nobody

(* Who stops waiting leaves the queue from wherever it stands.               *)
Leave(r) ==
  IF \E i \in DOMAIN queue : queue[i] = r
  THEN LET place == CHOOSE i \in DOMAIN queue : queue[i] = r
       IN  [i \in 1..(Len(queue) - 1) |-> queue[IF i < place THEN i ELSE i + 1]]
  ELSE queue

(* The answer goes out, and with the handler's future every guard it holds.  *)
Answer(r, s) ==
  /\ Goto(r, "idle")
  /\ readers' = [readers EXCEPT ![r] = 0]
  /\ session' = [session EXCEPT ![r] = IF mode = "dedicated" THEN s ELSE NoSession]
  /\ site' = [site EXCEPT ![r] = "none"]
  /\ attempt' = [attempt EXCEPT ![r] = 1]

-------------------------------------------------------------------------------
(* The handler: look the session up, or acquire a context.                   *)

(* The client's next call; the handler first awaits a read guard.            *)
Arrive(r) ==
  /\ pc[r] = "idle"
  /\ Goto(r, "lookup") /\ AwaitRead(r)
  /\ UNCHANGED <<mode, poolVars, readers, writer, ctx, start, attempt, site, session>>

(* A continued session is found only in the installed pool.  Its handler     *)
(* keeps this guard until it answers.                                        *)
SessionFound(r) ==
  /\ pc[r] = "lookup" /\ GrantRead(r)
  /\ session[r] = pool
  /\ queue' = Tail(queue)
  /\ readers' = [readers EXCEPT ![r] = @ + 1]
  /\ ctx' = [ctx EXCEPT ![r] = pool]
  /\ Goto(r, "bound")
  /\ UNCHANGED <<mode, poolVars, writer, start, attempt, site, session>>

(* A session of another browser, or one that ended between two requests.     *)
SessionNotFound(r) ==
  /\ pc[r] = "lookup" /\ GrantRead(r)
  /\ session[r] # NoSession
  /\ queue' = Tail(queue)
  /\ Answer(r, NoSession)
  /\ UNCHANGED <<mode, poolVars, writer, ctx, start>>

(* Without a session the guard is dropped, and the acquisition awaits one of *)
(* its own.                                                                  *)
NoSessionGiven(r) ==
  /\ pc[r] = "lookup" /\ GrantRead(r)
  /\ session[r] = NoSession
  /\ Goto(r, "acquire")
  /\ queue' = Append(Tail(queue), r)
  /\ UNCHANGED <<mode, poolVars, readers, writer, ctx, start, attempt, site, session>>

AcquireLocked(r) ==
  /\ pc[r] = "acquire" /\ GrantRead(r)
  /\ queue' = Tail(queue)
  /\ readers' = [readers EXCEPT ![r] = @ + 1]
  /\ Goto(r, "create")
  /\ UNCHANGED <<mode, poolVars, writer, ctx, start, attempt, site, session>>

(* A context of the installed pool; the guard of the acquisition is dropped. *)
(* An idle context is reused without asking the browser whether it lives.    *)
Acquired(r) ==
  /\ pc[r] = "create"
  /\ ~down \/ mode = "reusable"
  /\ readers' = [readers EXCEPT ![r] = @ - 1]
  /\ ctx' = [ctx EXCEPT ![r] = pool]
  /\ site' = [site EXCEPT ![r] = "none"]
  /\ Goto(r, "bound")
  /\ UNCHANGED <<mode, poolVars, writer, queue, start, attempt, session>>

(* No slot, or an error that is not a dead browser: the client's answer.     *)
NotAcquired(r) ==
  /\ pc[r] = "create"
  /\ Answer(r, NoSession)
  /\ UNCHANGED <<mode, poolVars, writer, queue, ctx, start>>

(* Mutant: the guard stays held while the pool is replaced.                  *)
CreateDead_KeepsGuard(r) ==
  /\ pc[r] = "create" /\ down /\ site[r] # "acquire"
  /\ site' = [site EXCEPT ![r] = "acquire"]
  /\ Goto(r, "launch")
  /\ UNCHANGED <<mode, poolVars, lockVars, ctx, start, attempt, session>>

(* The creation meets the dead browser: drop the guard and replace the pool, *)
(* once per acquisition; a second time it is the client's answer             *)
(* (NotAcquired).                                                            *)
CreateDead(r) ==
  /\ pc[r] = "create" /\ down /\ site[r] # "acquire"
  /\ site' = [site EXCEPT ![r] = "acquire"]
  /\ readers' = [readers EXCEPT ![r] = @ - 1]
  /\ Goto(r, "launch")
  /\ UNCHANGED <<mode, poolVars, writer, queue, ctx, start, attempt, session>>

-------------------------------------------------------------------------------
(* recreate_browser_pool: launch outside the lock, install under it.         *)

(* BrowserPool::new succeeds; the write guard is awaited.                    *)
Launched(r) ==
  /\ pc[r] = "launch"
  /\ Goto(r, "writing") /\ AwaitRead(r)
  /\ UNCHANGED <<mode, poolVars, readers, writer, ctx, start, attempt, site, session>>

(* BrowserPool::new fails: the answer of a request that was acquiring; a     *)
(* failed attempt of one that already ran.                                   *)
LaunchFails(r) ==
  /\ pc[r] = "launch"
  /\ \/ site[r] = "acquire" /\ Answer(r, NoSession)
     \/ /\ site[r] = "page" /\ Goto(r, "failed")
        /\ site' = [site EXCEPT ![r] = "none"]
        /\ UNCHANGED <<readers, session, attempt>>
  /\ UNCHANGED <<mode, poolVars, writer, queue, ctx, start>>

(* The new pool goes in; dropping the old one kills its browser.             *)
Install(r) ==
  /\ pc[r] = "writing" /\ queue # << >> /\ Head(queue) = r
  /\ writer = Nobody /\ \A q \in Requests : readers[q] = 0
  /\ queue' = Tail(queue)
  /\ writer' = r
  /\ pool' = pool + 1 /\ down' = FALSE
  /\ Goto(r, "swapped")
  /\ UNCHANGED <<mode, gen, readers, ctx, start, attempt, site, session>>

(* Mutant: the generation is left alone when the page work recovers.         *)
Bump_AcquireOnly(r) ==
  /\ pc[r] = "swapped"
  /\ gen' = IF site[r] = "acquire" THEN gen + 1 ELSE gen
  /\ writer' = Nobody
  /\ \/ site[r] = "acquire" /\ Goto(r, "acquire") /\ AwaitRead(r) /\ UNCHANGED site
     \/ /\ site[r] = "page" /\ Goto(r, "restarted") /\ UNCHANGED queue
        /\ site' = [site EXCEPT ![r] = "none"]
  /\ UNCHANGED <<mode, pool, down, readers, ctx, start, attempt, session>>

(* The generation is bumped under the write guard, which is then dropped.    *)
(* An acquisition tries again, a running attempt is over.                    *)
Bump(r) ==
  /\ pc[r] = "swapped"
  /\ gen' = gen + 1
  /\ writer' = Nobody
  /\ \/ site[r] = "acquire" /\ Goto(r, "acquire") /\ AwaitRead(r) /\ UNCHANGED site
     \/ /\ site[r] = "page" /\ Goto(r, "restarted") /\ UNCHANGED queue
        /\ site' = [site EXCEPT ![r] = "none"]
  /\ UNCHANGED <<mode, pool, down, readers, ctx, start, attempt, session>>

-------------------------------------------------------------------------------
(* One attempt: scrape_page_internal.                                        *)

(* generation_at_start is loaded after the context is bound, holding nothing *)
(* (but the guard of a continued session), and only for the first attempt.   *)
(* The attempt then awaits a read guard.                                     *)
LoadGeneration(r) ==
  /\ pc[r] = "bound"
  /\ start' = [start EXCEPT ![r] = IF attempt[r] = 1 THEN gen ELSE @]
  /\ Goto(r, "tabwait") /\ AwaitRead(r)
  /\ UNCHANGED <<mode, poolVars, readers, writer, ctx, attempt, site, session>>

TabLocked(r) ==
  /\ pc[r] = "tabwait" /\ GrantRead(r)
  /\ queue' = Tail(queue)
  /\ readers' = [readers EXCEPT ![r] = @ + 1]
  /\ Goto(r, "tab")
  /\ UNCHANGED <<mode, poolVars, writer, ctx, start, attempt, site, session>>

(* The context has its tab; the guard is dropped before the page work.  A    *)
(* tab that needs no call to be used is not known to be dead.                *)
TabReady(r) ==
  /\ pc[r] = "tab"
  /\ readers' = [readers EXCEPT ![r] = @ - 1]
  /\ Goto(r, "page")
  /\ UNCHANGED <<mode, poolVars, writer, queue, ctx, start, attempt, site, session>>

(* The tab cannot be had, for another reason than a dead browser: also when  *)
(* the pool was replaced and the new browser does not know the context.      *)
TabFails(r) ==
  /\ pc[r] = "tab"
  /\ readers' = [readers EXCEPT ![r] = @ - 1]
  /\ Goto(r, "failed")
  /\ UNCHANGED <<mode, poolVars, writer, queue, ctx, start, attempt, site, session>>

(* The installed pool's browser is dead: drop this guard, replace the pool.  *)
TabDead(r) ==
  /\ pc[r] = "tab" /\ down
  /\ readers' = [readers EXCEPT ![r] = @ - 1]
  /\ site' = [site EXCEPT ![r] = "page"]
  /\ Goto(r, "launch")
  /\ UNCHANGED <<mode, poolVars, writer, queue, ctx, start, attempt, session>>

(* A call on the tab goes unanswered, or the page work runs into its hard    *)
(* timeout: the context is taken out of the pool, which awaits a read guard  *)
(* of its own, and the attempt has failed.                                   *)
Stalls(r) ==
  /\ pc[r] \in {"tab", "page"}
  /\ readers' = IF pc[r] = "tab" THEN [readers EXCEPT ![r] = @ - 1] ELSE readers
  /\ Goto(r, "discard") /\ AwaitRead(r)
  /\ UNCHANGED <<mode, poolVars, writer, ctx, start, attempt, site, session>>

Discarded(r) ==
  /\ pc[r] = "discard" /\ GrantRead(r)
  /\ queue' = Tail(queue)
  /\ Goto(r, "discarded")
  /\ UNCHANGED <<mode, poolVars, readers, writer, ctx, start, attempt, site, session>>

(* A page from a living browser is the answer, and names the session.        *)
PageLoads(r) ==
  /\ pc[r] = "page" /\ ~Dead(ctx[r]) /\ mode # "always_new"
  /\ Answer(r, ctx[r])
  /\ UNCHANGED <<mode, poolVars, writer, queue, ctx, start>>

(* Before the answer a context is destroyed, under another read guard, when  *)
(* it is AlwaysNew's, a session its site has blocked, or one whose tab       *)
(* stopped answering after the content was read.                             *)
PageLoadsLast(r) ==
  /\ pc[r] = "page" /\ ~Dead(ctx[r])
  /\ Goto(r, "closing") /\ AwaitRead(r)
  /\ UNCHANGED <<mode, poolVars, readers, writer, ctx, start, attempt, site, session>>

(* The answer names no session; a page that was blocked, or lacks what the   *)
(* client asked for, is a failed attempt all the same.                       *)
Closed(r) ==
  /\ pc[r] = "closing" /\ GrantRead(r)
  /\ queue' = Tail(queue)
  /\ \/ Answer(r, NoSession)
     \/ Goto(r, "discarded") /\ UNCHANGED <<readers, session, site, attempt>>
  /\ UNCHANGED <<mode, poolVars, writer, ctx, start>>

PageFails(r) ==
  /\ pc[r] = "page"
  /\ Goto(r, "failed")
  /\ UNCHANGED <<mode, poolVars, lockVars, ctx, start, attempt, site, session>>

-------------------------------------------------------------------------------
(* After a failed attempt the handler compares the generations.              *)

(* Mutant: any failed first attempt is run again.                            *)
Retry_Always(r) ==
  /\ pc[r] \in Failed /\ attempt[r] = 1
  /\ attempt' = [attempt EXCEPT ![r] = 2]
  /\ Goto(r, "acquire") /\ AwaitRead(r)
  /\ UNCHANGED <<mode, poolVars, readers, writer, ctx, start, site, session>>

(* The pool was replaced since: once more, on a context of the new pool.     *)
Retry(r) ==
  /\ pc[r] \in Failed /\ attempt[r] = 1
  /\ gen # start[r]
  /\ attempt' = [attempt EXCEPT ![r] = 2]
  /\ Goto(r, "acquire") /\ AwaitRead(r)
  /\ UNCHANGED <<mode, poolVars, readers, writer, ctx, start, site, session>>

(* The failure is the answer; it names the context unless that is gone.      *)
GiveUp(r) ==
  /\ pc[r] \in Failed
  /\ attempt[r] = 2 \/ gen = start[r]
  /\ Answer(r, IF pc[r] = "failed" THEN ctx[r] ELSE NoSession)
  /\ UNCHANGED <<mode, poolVars, writer, queue, ctx, start>>

(* The future is dropped at an await (installing has none): its guards and   *)
(* its place in the queue go with it.  The client got no answer.             *)
Drop(r) ==
  /\ r \in Impatient /\ pc[r] \notin {"idle", "swapped"}
  /\ queue' = Leave(r)
  /\ Answer(r, session[r])
  /\ UNCHANGED <<mode, poolVars, writer, ctx, start>>

(* The browser dies, or its transport closes, at any time.                   *)
BrowserDies ==
  /\ ~down /\ pool < MaxBrowsers
  /\ down' = TRUE
  /\ UNCHANGED <<mode, pool, gen, lockVars, pc, ctx, start, attempt, site, session>>

Handle(r) ==
  \/ SessionFound(r) \/ SessionNotFound(r) \/ NoSessionGiven(r)
  \/ AcquireLocked(r) \/ Acquired(r) \/ NotAcquired(r) \/ CreateDead(r)
  \/ Retry(r) \/ GiveUp(r)

Recreate(r) == Launched(r) \/ LaunchFails(r) \/ Install(r) \/ Bump(r)

Scrape(r) ==
  \/ LoadGeneration(r) \/ TabLocked(r) \/ TabReady(r) \/ TabFails(r) \/ TabDead(r)
  \/ Stalls(r) \/ Discarded(r)
  \/ PageLoads(r) \/ PageLoadsLast(r) \/ Closed(r) \/ PageFails(r)

Next ==
  \/ BrowserDies
  \/ \E r \in Requests : Arrive(r) \/ Handle(r) \/ Recreate(r) \/ Scrape(r) \/ Drop(r)

Spec == Init /\ [][Next]_vars

(* Tasks that can run do run: browser calls are bounded (BoundedCall) and    *)
(* the lock is fair.  Clients need not come, browsers need not die.          *)
FairSpec ==
  Spec /\ \A r \in Requests : WF_vars(Handle(r)) /\ WF_vars(Recreate(r)) /\ WF_vars(Scrape(r))

-------------------------------------------------------------------------------
(* "No request can observe the new pool with the old generation": with a     *)
(* read guard in hand, or none held by a writer, the two agree.              *)
GenerationMatchesPool ==
  (writer = Nobody \/ \E r \in Requests : readers[r] > 0) => gen = pool

(* Writer and readers exclude each other.                                    *)
LockExclusion == writer # Nobody => \A r \in Requests : readers[r] = 0

(* Only a request whose own browser is gone is run again: the conditions for *)
(* a retry are "precise rather than heuristic" (PROXY_NETWORKING.md), whoever *)
(* replaced the pool, and whatever was bound while it was being replaced.    *)
RetryOnlyAfterDeath ==
  [][\A r \in Requests : attempt[r] = 1 /\ attempt'[r] = 2 => Dead(ctx[r])]_vars

(* An attempt that replaced the pool itself is always run again: the answer  *)
(* "browser restarted" reaches a client from a second attempt only.          *)
RestartedIsRetried ==
  \A r \in Requests : pc[r] = "restarted" /\ attempt[r] = 1 => gen # start[r]

(* Without sessions every request ends, whoever else recovers or fails, and  *)
(* although no client gives up waiting.                                      *)
RequestsEnd == \A r \in Requests : mode # "dedicated" /\ pc[r] # "idle" ~> pc[r] = "idle"

(* ERROR_HANDLING.md, Session Management: "when the browser process dies     *)
(* mid-request the worker retries in a fresh context and returns its         *)
(* session": a request that set out to replace the pool gets to the retry,   *)
(* or to an answer, without waiting for its own deadline.                    *)
RecoveryGoesOn ==
  \A r \in Requests : pc[r] = "launch" ~> attempt[r] = 2 \/ pc[r] = "idle"

(* "Recreate the browser pool when the browser process has died": a living   *)
(* browser is not thrown away, with the requests that use it.                *)
LivingBrowserKept == [][pool' # pool => down]_vars
================================================================================
