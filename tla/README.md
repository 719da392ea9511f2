# A TLA+ development for browser-hive-rs

browser-hive-rs runs headless browsers as a service. A **coordinator** takes
`ScrapePage` calls over gRPC and routes each to a **worker**; a worker owns one Chrome
process with a bounded pool of browser contexts and runs each request on one of them.
These modules model the worker: who may use which context, what happens to a context
that leaves the pool, how a dead browser is replaced under running requests, how one
page is loaded, waited for, judged and given up on when Chrome does not answer, and how
the process stops; and the coordinator: how it chooses a worker, and another one, from
what it believes about them. They are translated from the Rust source; line references below are to that source.
`PROJECT.json` holds the machine-readable index (runs, mutants, source map, hazards,
theorems).

## 1. Inventory

### Components

| component | state it keeps | operations | modelled by |
| --- | --- | --- | --- |
| Context pool (`worker/browser_pool.rs`, `common/types.rs`) | `contexts: RwLock<Vec<Arc<BrowserContext>>>`, `pending_creations: AtomicUsize`; per context `is_busy`, `total_requests`, `last_used_at`, `blocked_origins`, `tab` (mutex) | three ways to acquire (one per session mode), find/end a session, destroy, release in Chrome, statistics, the lifecycle monitor task | `BrowserPool`, `SlotPool` |
| Request handler (`worker/service.rs`) | guards on its stack: `ContextBusyGuard`, `AlwaysNewContextGuard`, `RwLock` read guards | admission, session continuation or acquisition, one or two attempts at the page, the answer; may be dropped at every await | `BrowserPool` (slots), `WorkerRecovery` (attempts and locks), `PageScrape` (the page work), `WorkerShutdown` (gate and counter) |
| Browser recovery (`worker/service.rs` 592-621, 900-1035, 2641-2777) | `browser_pool: Arc<RwLock<BrowserPool>>`, `pool_generation: AtomicU64` | launch a new pool, install it, bump the generation, retry | `WorkerRecovery` |
| Bounded CDP calls (`worker/cdp_call.rs`) | a oneshot channel per call | run on the blocking pool, wait at most 30 s, clean up what comes too late | `BoundedCall`, inside `PageScrape` |
| Worker shutdown (`worker/shutdown.rs`, `lib.rs`) | `is_ready`, `active_requests`, a cancellation token | SIGTERM, drain, cancel, wait, second signal; the coordinator's own stop | `WorkerShutdown` |
| Coordinator routing (`coordinator/service.rs`, `in_flight.rs`) | `by_pod` counts, `healthy_workers`; per request the pod, the attempt, the excluded pods | pick a worker, ask it again, send, retry on another; health rounds | `Routing` |
| Worker discovery (`coordinator/worker_discovery.rs`) | `workers` and `known_scopes`, replaced every round | ask each pod for statistics, store the baseline, swap the maps | `Routing` |
| Session table (`common/session.rs`) | session id to worker, TTL | create, look up, remove, expire | `Routing` |
| Wait strategies, challenges (`common/wait_strategy.rs`, `challenge.rs`, `proto/wait.rs`) | none between requests but the tab's default timeout | challenge window, JSON body, the two strategies' polling loops, early exits, budgets | `PageScrape` |
| Page evidence (`worker/page_load.rs`, `third_party.rs`, `page_activity.rs`, `ProxyFailures`) | per request: what Chrome reported of the page's loads | one listener per event; the verdict on a missing selector | `PageEvidence` |
| Configuration (`common/config.rs`) | read-only after startup | validation; `is_used_up` | `is_used_up` in `BrowserPool` |
| CDP client, diagnostics, metrics, launch arguments, middlewares, process reaping, logging | none that others decide by | I/O, formatting, observation | no (section 7) |

### How they interact

* Requests, the monitor, and detached clean-up tasks share the pool through one
  `tokio::sync::RwLock` (`contexts`) and a few atomics. The lock is never held across
  a browser call: every path reads or promises under the lock, talks to Chrome without
  it, and comes back. Most of what can go wrong lies in those gaps.
* All of them reach the pool through a second, outer `RwLock<BrowserPool>`; recovery
  writes it. Tokio's lock is fair, so a waiting writer stands in front of later readers.
* A request future can be dropped at every await (client gone, 320 s deadline). Only
  `Drop` implementations run then: `SlotReservation`, `ContextBusyGuard`,
  `AlwaysNewContextGuard`, lock guards and places in lock queues.
* Blocking browser calls run on threads that outlive the request that waits for them.
* The coordinator reads a worker's statistics, up to 10 s old, and corrects them with
  its own count of requests in flight.

### What is hard, and what correct means

| component | hard behaviour | what has to hold |
| --- | --- | --- |
| pool | check and creation separated by an await; claim races; monitor rebuilding without the lock; dropped futures | at most `max_contexts` contexts and promises; one user per context; no flag or promise without an owner, no context forgotten before its release was tried; a used-up context retires; slots come back |
| sessions | look-up, quota check and claim are three steps; the sweep runs among them | nobody but the sweep removes a context in use, and the sweep only one it had seen idle; an answer names only a session that exists; an idle session ends |
| recovery | several requests notice one death; a read guard held where a write is awaited | retry exactly the requests whose browser is gone; pool and generation change together; nobody waits for himself; a living browser is not replaced |
| bounded calls | answer against timeout against dropped future | a created tab is either the caller's or closed |
| page work | a blocking thread nobody can abort against the hard timeouts, the shutdown's token and a client that leaves; documents that replace one another, or never reach the frame; selectors that appear between two looks | the request ends; an answer names a context only if it is still there; a skip selector is overlooked only if it came after its look |
| page evidence | events of several documents and loads arrive in any order while the handler reads | `SELECTOR_NOT_FOUND`, which the client takes as final, is given only for a page that could have shown the element; `PAGE_LOAD_INCOMPLETE` has a cause; the tables agree with Chrome |
| shutdown | admission against SIGTERM; the coordinator's view of a worker's health, a round old, however long that took | a drain that reports success cut nobody off, whoever is still sent to the worker; the process ends |
| routing | statistics up to a round old; retries among pods that drain, die and come back; futures dropped anywhere | the in-flight count is exact; a retry goes elsewhere; nothing counts as free that is not, once nothing is in flight |
| session table | it is written after several attempts, and outlives pods | it names the pod that has the context; no other pod answers for a session |

The hazards behind this table are listed one by one, at their lines, under `hazards` in
`PROJECT.json`.

## 2. Modules

### BrowserPool

One module for the pool with everything that acts on it: the requests, the lifecycle
monitor, the detached `AlwaysNewContextGuard` clean-up and Chrome. A step is one
critical section of the `contexts` lock, one compare-and-swap of `is_busy`, or the work
between two awaits.

* `pool`, `pending`, `busy`, `served` are `contexts`, `pending_creations`, the
  `is_busy` flags and `total_requests`. `aged` and `stale` are the two thresholds a
  context's age and idle time are compared with; `refused` is `blocked_origins`.
* `live`, `removed`, `doomed`: what still exists in Chrome, what left the pool and
  awaits `release_context`, what an `AlwaysNewContextGuard` has spawned a destroy for.
  `told` holds the contexts whose id some client was given.
* Per request: `pc`, `held` (its `Arc<BrowserContext>`), `cand` (the candidate list
  collected under the read lock), `wants` (origin, country code). Program points: `look`
  is the candidate loop under the read guard, `lock` the wait for the write guard,
  `limit`, `full`, `last` the looks under it at the limit, for a used-up and for a
  quarantined context, `build`/`built` the creation of a promised context without the lock,
  `found`, `ending`, `checked` the continuation of a session, `claimed`/`run` the page work,
  `destroy`/`closing` a request that destroys its context and still holds the busy guard.
* Monitor: `mpc` is `sleep`, `due` (waits for the lock), `sweep` (Dedicated: looks and
  judges under it), `scan` (Reusable: claims under it), `recycle` (rebuilds without it),
  `swap` (waits for it again); `todo`, `claimed`, `cur`, `fresh` are its loop variables.

`LockedReuse`, `NothingToReuse`, `LockedReserve`, `LockedReplace`, `NothingToReplace`,
`LockedFallback`, `LockedRefuse` are the looks of `get_or_create_context` under the write
lock, each a step of its own because busy flags, quarantines and promises change without
that lock; `AcquireAlwaysNew`, `AcquireDedicated` are its siblings; `BuildSucceeds`,
`BuildFails`, `Push` are `build_reserved_context`; `FindSession`, `CheckUsedUp`,
`EndSession`, `ClaimSession` are the session path of the handler. A request that ends by
destroying its context, as AlwaysNew does before it composes its answer and every mode
after a stall, takes three steps: `Discard` (the tab lock is free), `DestroyHeld` (the
context leaves the pool), and `FinishDestroyed`, since the release and, in AlwaysNew, the
status fallback are awaited in between with the busy guard held. The other `Finish*` end a
request with its context in the pool; between the last thing they decide by and the drop of
the guards nothing is awaited. `CancelWhile*` drops the future at an await. The release of
what left the pool (`Release`, `BuildFails`, `ReleaseClaimed`) may fail, and is not done at
all when the request that awaits it is dropped: the code only logs it. `Tick` ... `Swap` are
the monitor: `StartSweep`, `SweepLook`, `SweepJudge`, `EndSweep` for Dedicated, where the
look at the flag, the look at the expiry and the removal are apart and nothing is claimed;
`StartScan` ... `Swap` for Reusable, one action per phase and look.

Abstractions: a context is an identifier, used again once nothing refers to it any more;
isolation is `isolated` (every slot owns a CDP context); the least-used-first order among
eligible contexts is any order; `CountLimit` caps the request counter; a recycling for
`cache_size_mb` is left out, which nothing ever measures (`config.rs` 412); answers that
touch nothing (session not found, `SESSION_BUSY`) go straight back to `idle`.

### SlotPool

What the pool promises, with locks, flags and Chrome left out: an allocator of at most
`Limit` slots that promises a slot before filling it, leases a filled one to one owner,
and lets only the holder take out what is leased. `BrowserPool!ImplementsSlotPool`
instantiates it with a refinement mapping (`slots <- pool`, `promised <- pending`,
`lease` from the requests that use a context, `kept` from what the monitor has claimed).

### WorkerRecovery

The outer lock and the handler around it. Browsers are numbered in the order their
pools are installed, a context *is* the browser it lives in, and a replaced browser is
dead because `Drop for BrowserPool` kills it. The lock is modelled as it is: a FIFO
queue (`queue`), read guards per request (`readers`, at most two: a continued session
keeps one for the whole call), one `writer`. Each place that awaits the lock is a
program point in `WaitsToRead` or `WaitsToWrite`. `CreateDead`, `TabDead` lead into
`recreate_browser_pool` (`Launched`/`LaunchFails`, `Install`, `Bump`); `Retry` and
`GiveUp` compare the generations. `generation_at_start` is loaded in a step of its own,
after the context was bound and without a lock, so that a replacement in between is a
behaviour of the model.

Abstractions: what happens inside the pool is `BrowserPool`'s, here an acquisition
succeeds, is refused or meets the dead browser; page work succeeds only on a living
browser and may fail on any; an answer whose context is destroyed first (`PageLoadsLast`,
`Closed`) may be a success or a failure; `SESSION_BUSY` and requests with invalid
arguments are left out; `MaxBrowsers` caps the number of deaths.

### BoundedCall

`bounded_within`: the call (`Call`), the blocking thread (`Answer`, `Panic`, `Send`,
`CleanUp`), the waiter (`Receive`, `Expire`, `CloseReceiver`, `FinalLook`) and a future
dropped at its one await (`DropFuture`), around a oneshot channel. `PageScrape` extends it
and decides when a call is made; the module is checked there.

### PageScrape

One page request on its context, `scrape_page_internal` from the tab lock to the answer,
with the blocking thread that waits for the page.

* The handler, `at`: `LockTab`, `LostIsolation`, `CreateTab` ... `TabStalled` (a bounded
  call), `EnableFetch` and its one repetition on a new tab, `Observe`, then three selects
  (`navigating`, `waiting`, `reading`), each raced by its hard timeout (`NavigationOverrun`,
  `WaitOverrun`, `ContentOverrun`) and by the shutdown's token (`Cancelled`); `EarlyDestroy`,
  `ReadStatus`, `Report` compose the answer. `Reply` answers with the context left where it
  is, `GiveUp` takes it out of the pool first, which needs the tab lock (`TakeOut`).
  `Dropped` is the client leaving at any await.
* The thread, `task`: `WaitOutChallenge` (`challenge.rs`), `AwaitJson`, then `network_idle`
  (`UntilIdle`, `ReadyWaitOver`/`LoadFires`, `SearchSelector`: Phases 1, 1.5 and 2) or
  `timeout` (`UntilNavigated`, `PollForTimeout`). The skip selector is looked for first and by a
  CDP call of its own (`LooksForSkip`); what the rest of the iteration sees comes after, and the
  skip selector may come in between (`look` is `clean`, then `late`). `patience` is the tab's default timeout, which
  `network_idle` sets and the tab keeps for later requests.
* The site, `docs`, `shown`, `loaded`, `idle`, `inDom`: main documents respond, then commit
  and finish, or finish without ever being committed (`LoadEnds` is `loadingFinished` and
  `loadingFailed`); the network goes idle, selectors appear, at any moment.

Abstractions: a tick is ten seconds, and passes only when the thread has nothing left to
decide (its polling period, 500 ms or less, is far below a tick); a look at the skip selector
holds until the tick is over, the next one looks again; what a thread lost to
Chrome or an ended wait would still observe is left out, and locals are reset once they
are dead (`Forgotten`); a status fallback is asked only when the listener saw no document.

### PageEvidence

What one request remembers of its page. An action of `Events` is one Chrome event
together with everything the listeners do about it: `PageLoadTracker` (`TrackDocument`, `TrackLoad`,
`TrackFinished`, `TrackFailed`), `ProxyFailures` (`proxied`), `RequestLoads` (`Count`,
`CountEnd`), `PageActivity` (`Record`, `RecordEnd`). `ReadProxyFailures` and `Answer` are the
handler's two readings, with events between them. Ghosts of the page itself (`shown`, `fired`,
`loads[l].end`) let the properties compare what was recorded with what happened; `late`
marks an old document's `load` event that arrives after a newer one was requested.

Abstractions: error texts are told apart as the verdict does (`Ways`); a load that has ended
keeps its status only if the verdict could depend on it; STALLED_AFTER goes by for all
pending loads at once; main documents take up to `doc` places in the table of `RequestLoads`,
which they share.

### WorkerShutdown

SIGTERM to exit (`Signal`, `DrainTurn`, `SecondSignal`, `CancelToken`, `CloseServer`,
`Exit`), with what it races: requests at the worker's gate (`Arrive`, `Gate`, `Finish`) and at
the coordinator's (`CoArrive`, `CoGate`, `Select`, `Return`), the coordinator's stop, and its
health rounds (`StartRound`, `Ask`, `EndRound`). The worker is one of several; a request may be
routed to it or elsewhere whatever the coordinator has heard, since a continued session goes
to its worker without a look at `healthy_workers` and a scope with no healthy worker falls
back on all of them. Time goes in half seconds, the drain's polling interval; whatever is due
fires before the next step. A health round takes any time: it asks one worker after the
other, and nothing bounds `health_check`; the interval's ticks it misses are owed (`Behind`
bounds how many the model counts).

### Routing

The coordinator over one scope and its pods. A pod is `up`, `draining` (SIGTERM received,
its server still open) or `down` (dead, or booting); `load` and `alive` are the requests
and sessions that hold its slots. Three tasks share `cache` (`workers`), `known`
(`known_scopes`), `healthy`, `inflight` and `table`:

* discovery: `AskStats` (GetStats computes the free slots), `StoreStats` (the baseline is
  read when the answer arrives), pod after pod; then `SwapWorkers`, which waits while a
  request holds the read lock, and `SwapKnown`;
* the health monitor: `HealthRound`, which installs the set of pods that said they are
  healthy;
* the requests: `RouteSession`, `MissingScope`, `RouteNew` with `FreshSlots` and
  `NoFreshSlots` (one pod is asked again, under the read lock) are the first half of
  `scrape_page`; `Send` creates the `InFlightGuard`; `RefuseTerminating`, `RefuseFull`,
  `Admit`, `Continue`, `Finish` are the worker's side; `Break` the connection's. `Retry`
  and `Conclude` are the end of an iteration of the retry loop; `Abandon` drops the future
  wherever it is.

Per request: `at` is `last_worker_id`, `tried` is `excluded_workers`, `attempt` counts,
`want` is the session the client named, `used` the session whose id the answer carries.

Abstractions: routing uses `available_slots` and `in_flight_at_snapshot` only in their sum,
so `cache` keeps the sum; the rotation may pick any pod of a tie; too little time left for
a retry is a choice (`Conclude` instead of `Retry`); the list of pods is fixed and visited in
order; a health round is one step; answers no retry looks at are `error`.

### Proof and model-checking modules

`BrowserPoolProofs` and `SlotPoolProofs` (about `BrowserPool`; the second extends the first),
`WorkerRecoveryProofs`, `BoundedCallProofs`, `PageScrapeProofs` (which extends it), `RoutingProofs`,
`WorkerShutdownProofs` and `PageEvidenceProofs` hold the theorems; `MCBrowserPool`, `MCRouting`
and `MCEvidence` hold symmetry sets and the view (see below). Definitions commented
`Mutant:` are faulty variants of the definition next to them. No specification uses
them; they document which mistake each property would catch.

## 3. Runs

| run | instance | question and answer |
| --- | --- | --- |
| `pool_reuse` | `always_new` and `reusable`, 2 requests, 2 slots, 3 contexts, one origin, country codes, `max_requests` 2 | Do slots, ownership, quotas hold when candidates go stale, creations fail and futures are dropped? Is a context lost from sight only after an attempt to release it? Does the monitor, which rebuilds without the lock, find its slots as it left them, and is the whole pool a `SlotPool`? Yes; a context serves at most one extra request per other request. |
| `pool_sessions` | `dedicated`, 2 requests, 2 slots | Do continuation, the end of a used-up session and the sweep respect one another? Yes for capacity and for who uses a context; the sweep alone takes out a context in use, and only one it had seen idle and expired. |
| `pool_live` | all three modes, one slot, 2 contexts, one request that comes again and again, fair | Does every request end, do used-up contexts retire, slots come back, abandoned sessions lose theirs? Yes. |
| `recovery` | all three modes, 2 impatient requests, two deaths, fair | Pool and generation agree, only requests whose browser is gone are retried, and every request without a session ends. |
| `routing` | both kinds of scope, 2 clients, 2 pods with one slot, one session, one fault | Is the in-flight count exact, does a retry go elsewhere, is a session only served where its context is, and does the table say where that is? Yes. |
| `drain` | 2 requests, a pause of 3 s, a timeout of 4 s, health rounds of any length, fair | Are the counters the requests they stand for, is nobody cut off by an orderly stop, does the process end? Yes. |
| `page` | `always_new` and `dedicated`, one bounded call at a time, both strategies, every subset of the two selectors, with and without a challenge window, fair | Does the request end though Chrome may stop answering anywhere? Is a named context still there? Is a skip selector overlooked only if it came after its look, is a tab never lost? Yes. |
| `evidence` | 2 loads, 2 documents, new and reused tab | Is the final answer given only for a page that could have shown the element, has the other one a cause, do three tables agree? Yes, with the exceptions the properties name. |
| `session_echo` | `dedicated` | *violated*: an answer can name a session the sweep has just removed. |
| `recovery_session` | one dedicated request, fair | *violated*: a continued session that finds its browser dead waits for itself. |
| `living_browser` | 2 AlwaysNew requests | *violated*: a second recovery replaces the living browser of the first. |
| `estimate_dedicated` | `dedicated`, one client, no faults | *violated*: with nothing in flight, a full pod is estimated to have a free slot. |

### Bounds, and why they are enough

Two requests are enough for every pair of steps that race: claims, promises, guards and
the queue relate two requests, or a request and the monitor, which is there in full. Two
slots with three identifiers let the pool be full, hold one used and one idle context,
and have one context on its way out; the creation of one more has an identifier left.
The quota is reached by one request and overshot by the next (`max_requests` 2 where both
a context that is and one that is not used up must coexist); the counter's cap lies at
or above the overshoot bound, so that `QuotaOvershoot` could be violated. Two deaths let a retried request
meet another one. The fair pool run uses one slot, two contexts and one client: it
contends for the last slot with the monitor and the destroys it has left behind. In `dedicated`
the sweep there meets a session that is continued, ended or left alone; two clients of one
session race in `pool_sessions`. Permutations of contexts and requests are
symmetries of the safety runs (nothing orders either); runs with liveness properties use
no symmetry. `PoolView` leaves out only what nothing checked under it depends on: the attributes
of identifiers nothing refers to, which are reset when the identifier is used again, the wishes
of requests that have got past the point where they count, and in `dedicated` what does not
decide anything there. `pool_live` may use it too: states that look alike enable the same
steps and satisfy the same parts of its properties, and every step its fairness is about changes
what the view shows (without the view the same instance passes, with 185,000 states for 6,500).

In `routing`, two pods are what one retry needs and what tells one pod from another; a
scope of one slot per pod makes every request contend. `MaxFaults` bounds drains, kills,
lost calls and abandoned calls together; booting is free, and a call to a pod that is down
needs no fault. One fault is enough for a drained pod to refuse, cancel or break a call and
come back while the call goes on. A third attempt needs three pods: `RoutingProofs` covers it.
`Sessions` bounds the contexts a dedicated scope creates. Requests are interchangeable.

In `page`, the code's times (40 s of budget, 20 s for navigation and content, 10 s of
margin, 20 s of a new tab's patience) are scaled down to 3, 1, 1 and 2 ticks: the order of the
deadlines is what matters, and requested timeouts of 1 and 3 ticks put each budget
before and after the others. Two main documents are a challenge and the
page behind it, or a page and what replaces it. `patience` starts at a value an earlier request may have left.
In `evidence`, two loads are one that explains a missing element and one that does not, or two that
compete for a place; the limits of `PageLoadTracker` (2) and `PageActivity` (1 and 1) are at or below the
number of loads. `RequestLoads` drops a load only when its table is full, which the second
conjunct of `ObserversAgree` excludes; there the proof covers every limit.
In `drain` the pause and the timeout are those of the code (3 s) and one second more, so
that a drain can time out; a health round takes any time, and `Behind` counts one missed tick
of its interval, which is enough for the next round to start at once.

Deadlock is checked in every run but `recovery_session`, whose only request comes to stand
still: that is its subject.

### Fairness

Strong fairness for `Advance(r)`, the monitor, and a spawned destroy: they wait for
tokio's `RwLock`, which is first come, first served, so who is enabled again and again
proceeds. Weak fairness for `Release` (it waits for a tab lock at most five seconds; in the model, not at all) and
`GrowStale` (time passes). In `WorkerRecovery` the queue itself is modelled, and weak
fairness of each request's own steps suffices; every browser call in them is bounded
(`BoundedCall`, the hard timeout around the page work). In `PageScrape` the handler, the
threads, the waiters and the passing of time are one weakly fair action (`Progress`); Chrome and
the site owe nothing, not even an answer. In `WorkerShutdown` the shutdown, the handlers, the start and the end of the monitor and
time are weakly fair, a health round's answers are not, and so is the end of the work a request does, which its own time
limits (`PageEnds`) or the server's deadline bring. `PageEvidence` states no liveness. Never fair: a client
calling, giving up or coming back, a signal, a browser dying or answering, an origin
refusing, a page growing old.

### What the code does not promise

Four sentences of the comments are stronger than the code. The models do what the code does;
no property claims them:

* `browser_pool.rs` 1411: the sweep removes a context "only when it is idle at a tick". It reads
  `is_busy` (1221), awaits the judgement (1222) and removes (1228), while
  `ContextBusyGuard::new` claims without the pool lock (`SweepLook`, `SweepJudge`, `EndSweep`
  against `ClaimSession`). `OnlySweepTakesUsed` says that nothing else takes a context from
  its user; `session_echo` shows what the client gets.
* `browser_pool.rs` 1460: a request is refused "when every context is busy". The three looks at
  1515, 1547 and 1572 do not see the same flags: a context busy at the first and freed before
  the second is neither used up nor quarantined, and the request is refused with it idle
  (`NothingToReuse`, `NothingToReplace`, `LockedRefuse`).
* `challenge.rs` 118: a document that is loaded "has replaced the previous document in the
  frame". `loadingFailed` marks the latest document loaded also when it was never committed (a
  download, a 204, an aborted navigation), and the challenge phase passes with the challenge
  still shown (`LoadEnds`).
* `shutdown.rs` 7: the pause lasts until "the coordinator has seen the unhealthy answer". It
  lasts 3 s; a health round asks one pod after the other, each with 5 s to connect and no
  bound on `health_check` (`Ask`). A session, or a request of a scope with no healthy worker, is
  routed to the closed port in any case (`Select`).

### What the violated runs say

* `session_echo`: `end_session_if_used_up` (`browser_pool.rs` 1423) looks at the context
  outside the lock and answers "not ended" also when the sweep has removed it; the handler
  then claims and uses the removed context and echoes its id.
* `recovery_session`: the handler's first read guard (`service.rs` 2648) lives until
  the answer when a session is continued; recovery of that very request awaits the write
  lock. Later readers queue behind the writer.
* `living_browser`: `recreate_browser_pool` does not look again under the write lock whether
  the pool it replaces is still the dead one.
* `estimate_dedicated`: `effective_free_slots` (`in_flight.rs` 103) gives back the slot of every
  request that has ended since the snapshot; the first request of a dedicated session
  keeps it. Until the next round the pod looks free; it refuses, and the one capacity retry
  has to find another pod.

### What the passing runs say beyond their properties

Met while modelling; where a property makes room for one of these, it names the exception:

* With a drain timeout of 0 there is no pause at all (`shutdown.rs` 84), whatever the comment
  at 51 says.
* A pool full of idle contexts that are not used up refuses a request with a `country_code`
  every time: such a request reuses nothing and falls back on nothing.
* A release that fails, or that a dropped request was awaiting (`browser_pool.rs` 1558, 1714),
  leaves the context open in Chrome; `LostOnlyAfterRelease` says these are the ways, with a
  creation that fails or is dropped.
* The hard timeout of the wait can discard a context in which no call is stuck: the
  `timeout` strategy first waits for the navigation (`wait_strategy.rs` 843), bounded only by the tab's
  default timeout, 20 s on a new tab and an earlier request's budget on one that
  `network_idle` has used (402). `service.rs` 21-23 take such an overrun for a stalled call.
* `remaining < poll` (`wait_strategy.rs` 485, 735) sleeps for no time: the last poll spins. The idle
  thread's own timeout can end Phase 1 with an error where the final look at the selector
  would have been made.
* A dead tab is replaced only where `Fetch.enable` is called; a scope without proxy
  credentials and blocked types answers `NETWORK_ERROR` on it until the slot is recycled.
* `load_event` does not say of which document it is: the old document's, coming late, counts
  for the new one (`late`). A main-frame navigation that comes to nothing, a download or an
  answer without content, resets what was recorded of the page still in the frame (`shown < doc`).
  Loads the old document starts or has redirected after the new one's request are
  judged with it. On a reused tab, the last page's loads are never cleared before the
  first document (`doc = 1`).
* A stalled load that fails with a proxy error between the two readings (`service.rs` 2327 and 2435) is
  answered as an incomplete or final page, not as a proxy error.

## 4. What is proved

TLAPS checks the following for all values of the constants that satisfy the named
assumptions (`PoolAssumption`: finitely many requests, limits natural numbers,
`min_contexts <= max_contexts`, Dedicated rotates Hybrid; `RecoveryAssumption`;
`RoutingAssumption`: at least one pod, finitely many requests and sessions;
`ShutdownAssumption`; `Bounds`: finitely many loads, limits natural numbers; `Ticks`: times and
bounds positive, requested timeouts and windows at most the budget).

| module | theorem | property |
| --- | --- | --- |
| `BrowserPoolProofs` | `Typing`, `PromisesKept`, `NeverOverLimit` | `TypeOK`, `PendingCounts`, `Capacity` |
| | `OneOwner`, `RunsInPool` | `ExclusiveUse`, `UsedStaysInPool` |
| | `TakenBySweepOnly` | `OnlySweepTakesUsed` (a step property) |
| `SlotPoolProofs` | `ClaimsStayInPool` | `MonitorKeepsItsSlots` |
| | `QuotaBounded` | `QuotaOvershoot`, if `max_requests` is not 0 |
| | `PoolIsSlotAllocator` | `ImplementsSlotPool`, in AlwaysNew and Reusable scopes |
| | `LostOnlyWhenReleased` | `LostOnlyAfterRelease` (a step property) |
| `WorkerRecoveryProofs` | `Typing`, `GenerationExact`, `RestartNotAnswered` | `TypeOK`, `GenerationMatchesPool`, `RestartedIsRetried` |
| | `ReadersAndWriterApart` | `LockExclusion` |
| | `RetryPrecise` | `RetryOnlyAfterDeath` (a step property) |
| `BoundedCallProofs` | `NeverLost`, `KeptByCaller` | `NothingLost`, `ReceivedIsKept`, of the calls alone |
| `PageScrapeProofs` | `TabsNeverLost`, `ReceivedTabKept` | the same two, inside a page request |
| | `PageTyping`, `NamedIsThere` | `PageTypeOK`, `NamedContextExists` |
| | `NeverWaitsForItself`, `NoSelectOutlasts` | stated in the theorems |
| | `SkipIsSeen` | `SkipNotOverlooked` (a step property) |
| `RoutingProofs` | `Typing`, `CountExact`, `AlwaysElsewhere` | `TypeOK`, `InFlightCounts`, `OtherPodEachTime` |
| | `ServedAtHome`, `TableExact` | `SessionServedAtHome`, `TableNamesHome` |
| `WorkerShutdownProofs` | `Typing`, `CountsAreRequests`, `OrderlyShutdown` | `TypeOK`, `ActiveCounts`, `NoneCutOff` |
| `PageEvidenceProofs` | `Typing`, `Agreement` | `TypeOK`, `ObserversAgree` |
| | `FinalAnswer` | `NotFoundIsFinal` (a step property), with room for every load |
| | `IncompleteHasAReason` | `IncompleteIsExplained` (a step property) |

The type invariants are proved and not run: a theorem holds for every instance.

**The pool.** None of the properties is inductive. `Capacity` survives `Push` only because the
promise it redeems is still counted, so `PendingCounts` joins; that needs to know which requests
hold what at which program point (`Holding`). `ExclusiveUse` needs the busy flag: what a request
or the monitor uses has its flag set, and what one of them holds no other holds (`OwnInv`); and
that a context in use, or claimed by the monitor, is in the pool outside Dedicated (`StayInv`),
since otherwise its identifier could be built anew. `IInv == TypeOK /\ Holding /\ PendingCounts
/\ Capacity /\ OwnInv /\ StayInv`; one lemma shows that the initial states satisfy it, one per
conjunct that a step preserves it. `StayInv` says nothing of Dedicated, where it is false; that
there the sweep alone takes a context from its user (`TakenBySweepOnly`) is read off the steps:
whatever else removes a context has claimed it first, or is the clean-up of the request that
owns it.

**The monitor, the quota and the refinement.** `MonitorInv` says what the monitor's loop
variables hold in each phase: its claims are in the pool, the replacement is in nobody's hands.
`ClaimsStayInPool` follows. `QuotaOvershoot` is not inductive, because a request that has passed
its check counts only when it begins; `QuotaInv` counts beforehand: what a context has served,
plus the requests still coming to it, stays below `max_requests` plus the number of requests. A
quota of 0 is excluded: every context would be used up when it is built, and the first request
on a new one is not checked. For the refinement, one lemma per operation of `SlotPool` says
which change of slots, promises and leases it allows (`AsPromise`, `AsFill`, `AsReplace`, ...),
and `SlotStep` maps each action of `BrowserPool` to one of them or to a stutter. Dedicated is no
such allocator: a session is found, taken out and claimed at three moments, which `session_echo`
shows.

**Recovery.** The generation a request loaded identifies the browser it is compared for: with
nobody writing, `gen = pool`; under the writer it is one short and no context of the new pool
has been bound (`GenInv`). That needs the exclusion of guards and writer (`LockInv`), which
needs to know exactly which guards each program point holds (`GuardInv`, with the guard of a
continued session). `StartInv` says that while the pool of a first attempt's context is
installed, the generation is the one it loaded, and that an attempt that replaced the pool has
loaded an older one. `RetryPrecise` follows: if the generation moved, the context's pool is
gone. None of this depends on the order of the queue.

**Routing.** `InFlightGuard::drop` subtracts with saturation, so a wrong count would stay hidden;
that it never saturates follows from `InFlightCounts` itself, since the request that gives
a count back is one of those counted. This needs `Placed`: what a request carries at each
point (an `idle` or `asking` one names no session, has tried nothing and is on no pod's count). Lemmas
about a guard created, dropped and moved reduce each action to bookkeeping about one
request. `OtherPodEachTime` is inductive with `Placed`. The two session theorems share `Homes`: the
session an attempt uses lives on the attempt's pod; a context's home never changes once
it has one. `IInv == TypeOK /\ Placed /\ InFlightCounts /\ OtherPodEachTime /\ Homes`.

**Bounded calls.** The state of the channel determines that of its two ends, for each
call by itself.

**Page work.** `PageInv` has one part per question. `TaskInv` says what the blocking thread may
be doing while the handler is where it is, and that nothing is composed without an end of the
wait to report; `TimeInv` bounds every clock by the timeout of its select; `DomInv` says that a
look at the skip selector that found nothing is called clean only while the selector has not
come; `LockInv` says exactly where the tab lock is held, from which `NeverWaitsForItself`
follows (`destroy_context` takes the same lock); `NameInv` says that an answer names a context
only in a dedicated scope and only while it is in the pool, which survives `EarlyDestroy`, which
only takes out AlwaysNew contexts, and `TakeOut`, since a request that gives up names none. The
step property `SkipIsSeen` follows from `DomInv`: every strategy looks before it decides. That
the page a strategy is let go on is in the frame is not true (section 3), and no theorem.
For the calls, `CallSteps` shows that every step of the request is a step of `BoundedCall`,
leaves the calls alone, or forgets one that has ended; so the invariant of `BoundedCallProofs`
carries over, also to the second tab of a retried `Fetch.enable`.

**Shutdown.** `NoneCutOff` rests on the order of the gate: a request counts itself before
it reads the flags, so where the counter was read as zero nobody works, and with `ready`
down nobody starts to (`FlagInv`). That needs the counter to be exact (`ActiveCounts`), for
which lemmas about one request entering, leaving and moving among the counted places stand.
`IInv == TypeOK /\ ActiveCounts /\ FlagInv /\ NoneCutOff`.

**Page evidence.** `FinalAnswer` reads the verdict's own record backwards: no marker in it
means no broken load in Chrome. So the record has to be the image of what happened: the tracker's two
marks follow the main document (`DocumentInv`), a recorded `load` is the shown document's or
came late (`FireInv`), and every load of the latest document, once that is in the frame, is
recorded as it is (`LoadInv` with `Image`, under the theorem's hypothesis `Room`: at most
`MAX_TRACKED` loads). `Agreement` is the part of `LoadInv` that speaks of pending loads
(`AgreesOn`), where the hypotheses about room stand in the property itself.
`IncompleteHasAReason` goes the other way, so it needs no room: whatever the verdict may read in the
record happened (`Truthful`), to a load reported since the latest document was requested, and
the `load` event of a document that has fired is never missing (`FiredInv`).

Only model-checked: liveness (`RequestsEnd` of `BrowserPool` and of `WorkerRecovery`, `UsedUpRetires`,
`SlotsReturn`, `IdleSessionsEnd`, `ShutdownEnds`, `PageEnds`,
`AbandonedResultUndone`). It rests on fairness, that is on `ENABLED`, which is out of this prover's
reach. Every invariant and every step property of the passing runs is stated by a theorem.
`PageScrape!Tick` has an `ENABLED` of its own in its guard (`Undecided`); the proofs treat
it as an unknown, so they hold even if time passes while the thread could decide.

## 5. How the modules fit together

`BrowserPool` takes the installed pool for granted; `WorkerRecovery` takes one acquisition
for granted and looks at the lock around it. They share no variable: a replacement drops
the whole pool, with which every slot, flag and promise of `BrowserPool` goes. What they owe
each other is that a request holding an outer read guard cannot lose the pool
(`GuardInv`, `LockInv`), and that an acquisition ends (`RequestsEnd` of `BrowserPool`), which
the fairness of `WorkerRecovery` assumes. Both assume that a browser call ends, which is
`PageEnds` of `PageScrape`; a creation lost in its channel is `CancelWhileBuilt` of
`BrowserPool`.

`PageScrape` is what `BrowserPool` sees as the page work of one request (`claimed` to `Finish*` or
`Discard`), in full: its `pooled` and `locked` are the context's place in the pool and its tab
mutex. It composes `BoundedCall` (EXTENDS, one thread per call) and takes the verdict on a missing
selector as a choice of codes, which `PageEvidence` narrows. Its `Terminate` is `CancelToken` of
`WorkerShutdown`, whose `Finish` is fair because `PageEnds` holds. `RefuseTerminating` of `Routing`
is the gate of `WorkerShutdown`; `Routing` lets a pod drain at any time, `WorkerShutdown` says for how long.

## 6. Plan

Done of the plan: the pool and its refinement of `SlotPool`, the session path, recovery, bounded
calls, routing, shutdown, page work and page evidence, each with the theorems of section 4. Left,
in this order:

1. The abstract lock behind `WorkerRecovery` and an abstract view of a routed call, each with a
   refinement proved; that a request of `PageScrape` is one of `BrowserPool`'s page works.
2. `close_tab_after_request` and the keep-alive of a reused tab in `PageScrape`, which runs
   `always_new` and `dedicated` scopes.
3. Algorithms against a reference definition: eviction from `blocked_origins`, configuration
   checks, the diagnostics' rate limiter.
4. Routing over several scopes (a continued session whose client names another scope), and
   liveness of a routed call on a smaller instance.

The runs stay small enough to be repeated on every change: `pool_reuse`, `routing` and `page`
take two to three minutes, `evidence`, `drain` and `pool_sessions` one to two, every other one less.

## 7. Not modelled, and why

The CDP client, diagnostics and metrics record, format and send; no decision of another
component depends on them (of the diagnostics' buffers, `PageActivity` is modelled because
its records are compared with the verdict's). Launch arguments, middlewares, proxies and
configuration are computed once at startup from read-only data. Process reaping walks
`/proc`. The cancellation extension wraps a future and a token. Of a page request, tabs kept
or closed between requests of a reusable scope (`close_tab_after_request`), the iframe
sampler, third-party accounting beyond its table, and report formatting are left out. Of the
coordinator, several scopes, local discovery, changes of the pod list and
`get_cluster_stats` are.

Hazards the project names but no run covers: a page answered with a failure just before its
browser dies is loaded again, since the generation alone decides (`service.rs` 2743); an early
refusal and an early start in a challenge page (section 3). Not
expressible in one request's or one scope's module: `fetch_fresh_worker_stats` awaited under
the read lock of `workers` (one slow pod holds up discovery and every request behind it,
`coordinator/service.rs` 865); the scope name a continued session is stored with (1171); a stalled
creation's blocking thread, which nothing ever takes back (`cdp_call.rs` 10).

Memory ordering is sequential consistency: the code uses
`SeqCst` for every flag and counter that is modelled.
