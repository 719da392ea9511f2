------------------------------- MODULE PageScrape -------------------------------
(***************************************************************************)
(* One page request on its context, from the tab lock to the answer        *)
(* (`scrape_page_internal`), with the blocking thread that waits for the   *)
(* page: an anti-bot challenge, a JSON body, a wait strategy.  The handler *)
(* races that thread with a hard timeout and with the shutdown's token.    *)
(*                                                                         *)
(* The tab is created by a bounded CDP call; BoundedCall gives its thread, *)
(* its timeout and its channel, and this module when the handler makes the *)
(* call and what it does with each outcome.  The other CDP calls create    *)
(* nothing: they are one step that answers, fails or stalls.               *)
(*                                                                         *)
(* Time is counted in ticks of ten seconds.  The threads look at the page  *)
(* every 500 ms or less: a tick passes only when they have nothing left to *)
(* decide, and the page may change at any moment between two ticks.        *)
(***************************************************************************)
EXTENDS BoundedCall, Sequences, FiniteSetsExt

CONSTANTS
  Modes,       \* the session modes checked
  Timeouts,    \* the wait timeouts clients ask for; the default is Budget
  Windows,     \* the challenge windows, 0 for none
  Budget,      \* DEFAULT_WAIT_TIMEOUT_MS, also the largest timeout accepted
  Margin,      \* WAIT_STRATEGY_TIMEOUT_MARGIN_SECS
  Step,        \* NAVIGATION_TIMEOUT_SECS and GET_CONTENT_TIMEOUT_SECS
  ReadyMax,    \* the longest wait for the document's `load` event
  Patience,    \* a new tab's default timeout (headless_chrome)
  Kinds,       \* the kinds of main document: page, json, challenge, refused
  MaxDocs      \* bound: main documents one request sees

ASSUME Ticks ==
  /\ {Budget, Margin, Step, ReadyMax, Patience, MaxDocs} \subseteq Nat \ {0}
  /\ Timeouts \subseteq 1..Budget /\ Windows \subseteq 0..Budget

VARIABLES
  at,         \* where the handler stands
  mode,       \* the scope's session mode
  tab,        \* the context's tab: none, alive, dead (session), closed (socket)
  pooled,     \* whether the context is in the pool
  locked,     \* whether the handler holds the context's tab lock
  patience,   \* the tab's default timeout, as the last request left it
  terminating,\* the shutdown token is cancelled
  clock,      \* ticks since the handler's current select began
  want,       \* the resolved wait parameters
  task,       \* what the blocking thread is doing
  mark,       \* the tick its current phase began (or its clock, see Navigated)
  seen,       \* the timeout strategy has seen the wait selector
  look,       \* this iteration's look for the skip selector (see LooksForSkip)
  docs,       \* the main-document responses so far
  loaded,     \* the latest one's load is over
  shown,      \* number of the document in the frame
  first,      \* number of the document taken for a challenge, 0 for none
  idle,       \* networkAlmostIdle has fired for the document in the frame
  inDom,      \* the selectors that match in the document in the frame
  ending,     \* how the wait ended
  answer      \* the response: error code, and whether it names the context

slotVars == <<tab, pooled, locked, patience>>
waitVars == <<clock, want, task, mark, seen, look, first, ending>>
siteVars == <<docs, loaded, shown, idle, inDom>>
pageVars == <<at, mode, slotVars, terminating, waitVars, siteVars, answer>>
allVars == <<vars, pageVars>>

Selectors == {"wait", "skip"}
Wants == [strategy : {"network_idle", "timeout"}, timeout : Timeouts,
          window : Windows, asked : SUBSET Selectors]
NoWant == [strategy |-> "network_idle", timeout |-> Budget, window |-> 0, asked |-> {}]
NoAnswer == [code |-> "NONE", names |-> FALSE]

(* A request's parameters once resolved: the window never exceeds the timeout. *)
Resolved == [strategy : {"network_idle", "timeout"}, timeout : 1..Budget,
             window : 0..Budget, asked : SUBSET Selectors]
AnswerCodes ==
  {"NONE", "BROWSER_ERROR", "RESTARTED", "INVALID_ARGUMENT", "TIMEOUT_BROWSER", "TERMINATING",
   "NETWORK_ERROR", "PROXY_ERROR", "REDIRECT", "SKIP_SELECTOR_FOUND", "SELECTOR_NOT_FOUND",
   "PAGE_LOAD_INCOMPLETE"}

Selects == {"navigating", "waiting", "reading"}
Left == {"answered", "gone"}

PageTypeOK ==
  /\ at \in {"begin", "create", "recreate", "fetch", "retry", "observe", "navigated",
             "discard", "finish", "status", "report"} \cup Selects \cup Left
  /\ mode \in Modes
  /\ tab \in {"none", "alive", "dead", "closed"}
  /\ pooled \in BOOLEAN /\ locked \in BOOLEAN
  /\ patience \in 1..Budget \cup {Patience}
  /\ terminating \in BOOLEAN
  /\ clock \in 0..(Budget + Margin + Step)
  /\ want \in Resolved
  /\ task \in {"none", "call", "stuck", "challenge", "json", "phase1", "ready", "recheck",
               "phase2", "navigated", "polling"}
  /\ mark \in 0..(Budget + Margin + Step)
  /\ seen \in BOOLEAN /\ look \in {"none", "clean", "late"}
  /\ docs \in Seq(Kinds) /\ Len(docs) <= MaxDocs
  /\ loaded \in BOOLEAN
  /\ shown \in 0..Len(docs)
  /\ first \in 0..Len(docs)
  /\ idle \in BOOLEAN
  /\ inDom \subseteq want.asked
  /\ ending \in {"none", "success", "skip", "notFound", "error", "navError"}
  /\ answer \in [code : AnswerCodes, names : BOOLEAN]

-------------------------------------------------------------------------------
(* What the threads read.                                                    *)
Latest == docs[Len(docs)]
Flagged == Len(docs) > 0 /\ Latest = "challenge"
IsJson == Len(docs) > 0 /\ Latest = "json"

(* read_navigation_status and should_exit_early: the document in the frame   *)
(* was answered 403 or 429, as challenges are.                               *)
Blocked == shown > 0 /\ docs[shown] \in {"challenge", "refused"}

Asked(s) == s \in want.asked
There(s) == Asked(s) /\ s \in inDom

(* addressable_context_id: only a dedicated session can come back.           *)
Addressable == mode = "dedicated"

(* What the wait and the listener recorded goes with the handler's locals.   *)
Forgotten ==
  /\ clock' = 0 /\ want' = NoWant /\ task' = "none" /\ mark' = 0 /\ seen' = FALSE
  /\ look' = "none" /\ first' = 0 /\ ending' = "none"
  /\ docs' = <<>> /\ loaded' = FALSE /\ shown' = 0 /\ idle' = FALSE /\ inDom' = {}
  /\ UNCHANGED <<mode, terminating>>

(* A response that leaves the context where it is; the tab lock, the busy    *)
(* guard and the listener go with the handler's locals.                      *)
Reply(code) ==
  /\ at' = "answered"
  /\ answer' = [code |-> code, names |-> Addressable]
  /\ locked' = FALSE
  /\ UNCHANGED <<tab, pooled, patience>>

(* Mutant: the tab lock is still held when the context is discarded.         *)
GiveUp_UnderLock(code) ==
  /\ at' = "discard"
  /\ answer' = [code |-> code, names |-> FALSE]
  /\ UNCHANGED slotVars

(* A response without the context, which is taken out of the pool first.     *)
GiveUp(code) ==
  /\ at' = "discard"
  /\ answer' = [code |-> code, names |-> FALSE]
  /\ locked' = FALSE
  /\ UNCHANGED <<tab, pooled, patience>>

NothingWaited == UNCHANGED <<mode, terminating, waitVars, siteVars>>

-------------------------------------------------------------------------------
PageInit ==
  /\ Init
  /\ at = "begin"
  /\ mode \in Modes
  /\ tab \in {"none", "alive", "dead", "closed"}
  /\ pooled = TRUE /\ locked = FALSE
  /\ patience \in {Patience, Budget} \cup Timeouts
  /\ mode = "always_new" => tab # "none" /\ patience = Patience
  /\ tab = "none" => patience = Patience
  /\ terminating = FALSE
  /\ clock = 0 /\ want = NoWant /\ task = "none" /\ mark = 0 /\ seen = FALSE
  /\ look = "none" /\ first = 0 /\ ending = "none"
  /\ docs = <<>> /\ loaded = FALSE /\ shown = 0 /\ idle = FALSE /\ inDom = {}
  /\ answer = NoAnswer

(* A scope that routes per context finds no proxy assigned to this one.      *)
NoProxy ==
  /\ at = "begin"
  /\ Reply("BROWSER_ERROR")
  /\ NothingWaited /\ UNCHANGED vars

(* Fetch.enable is called in a scope with proxy credentials or blocked types. *)
WithTab == {"fetch", "observe"}

LockTab ==
  /\ at = "begin"
  /\ locked' = TRUE
  /\ at' \in IF tab = "none" THEN {"create"} ELSE WithTab
  /\ NothingWaited /\ UNCHANGED <<vars, tab, pooled, patience, answer>>

(* Recycling lost the slot's CDP context: no tab may be created in the       *)
(* browser's default one.                                                    *)
LostIsolation ==
  /\ at = "begin" /\ tab = "none"
  /\ GiveUp("BROWSER_ERROR")
  /\ NothingWaited /\ UNCHANGED vars

CreateTab(k) ==
  /\ at \in {"create", "recreate"}
  /\ Call(k)
  /\ UNCHANGED pageVars

(* The tab is the context's from here on, and the call is forgotten.         *)
TabCreated(k) ==
  /\ at \in {"create", "recreate"} /\ waiter[k] = "received" /\ result[k] = "ok"
  /\ tab' = "alive" /\ patience' = Patience
  /\ at' \in IF at = "create" THEN WithTab ELSE {"retry"}
  /\ waiter' = [waiter EXCEPT ![k] = "absent"] /\ thread' = [thread EXCEPT ![k] = "unborn"]
  /\ result' = [result EXCEPT ![k] = "none"] /\ made' = made \ {k}
  /\ NothingWaited /\ UNCHANGED <<sent, open, pooled, locked, answer>>

(* The browser's answer to create_tab is an error.  Unless the tab had only  *)
(* lost its session, that may mean the browser is dead: its pool is replaced *)
(* and the context with it, or the replacement fails too.                    *)
TabRefused(k) ==
  /\ at \in {"create", "recreate"} /\ waiter[k] = "received" /\ result[k] = "err"
  /\ \/ Reply("BROWSER_ERROR")
     \/ /\ tab # "dead"
        /\ at' = "answered" /\ answer' = [code |-> "RESTARTED", names |-> FALSE]
        /\ pooled' = FALSE /\ locked' = FALSE
        /\ UNCHANGED <<tab, patience>>
  /\ NothingWaited /\ UNCHANGED vars

TabStalled(k) ==
  /\ at \in {"create", "recreate"} /\ waiter[k] \in {"timedOut", "panicSeen"}
  /\ GiveUp("BROWSER_ERROR")
  /\ NothingWaited /\ UNCHANGED vars

(* Fetch.enable answers, and the proxy credentials are set; a tab whose      *)
(* session or socket is gone is replaced once; any other error is final.     *)
EnableFetch ==
  /\ at = "fetch"
  /\ \/ /\ at' = IF tab = "alive" THEN "observe" ELSE "recreate"
        /\ UNCHANGED <<slotVars, answer>>
     \/ Reply("BROWSER_ERROR")
     \/ GiveUp("BROWSER_ERROR")
  /\ NothingWaited /\ UNCHANGED vars

RetryFetch ==
  /\ at = "retry"
  /\ \/ at' = "observe" /\ UNCHANGED <<slotVars, answer>>
     \/ Reply("BROWSER_ERROR")
     \/ GiveUp("BROWSER_ERROR")
  /\ NothingWaited /\ UNCHANGED vars

(* Network.enable and the diagnostics' calls: an error only costs the        *)
(* observation, a stall the context.  Then the navigation begins.            *)
Observe ==
  /\ at = "observe"
  /\ \/ /\ at' = "navigating" /\ clock' = 0 /\ task' = "call"
        /\ UNCHANGED <<slotVars, answer>>
     \/ GiveUp("BROWSER_ERROR") /\ UNCHANGED <<clock, task>>
  /\ UNCHANGED <<vars, mode, terminating, want, mark, seen, look, first, ending,
                 siteVars>>

(* navigate_to returns.  A failed navigation skips the wait.                 *)
NavigationReturns ==
  /\ at = "navigating" /\ task = "call"
  /\ clock' = 0
  /\ \/ tab = "alive" /\ at' = "navigated" /\ task' = "none" /\ UNCHANGED ending
     \/ at' = "reading" /\ ending' = "navError" /\ UNCHANGED task
  /\ UNCHANGED <<vars, mode, slotVars, terminating, want, mark, seen, look, first,
                 siteVars, answer>>

(* A blocking task panicked (the three joins).                               *)
JoinError ==
  /\ at \in Selects /\ task # "stuck"
  /\ Reply("BROWSER_ERROR")
  /\ Forgotten /\ UNCHANGED vars

(* The resolved parameters are not valid: a timeout past the maximum, or a   *)
(* strategy nobody registered.                                               *)
InvalidWait ==
  /\ at = "navigated"
  /\ at' = "answered" /\ answer' = [code |-> "INVALID_ARGUMENT", names |-> FALSE]
  /\ locked' = FALSE
  /\ Forgotten /\ UNCHANGED <<vars, tab, pooled, patience>>

(* The wait parameters are resolved and the blocking task starts: with the   *)
(* challenge when the request asks for a window, never past the wait budget. *)
StartWait(w) ==
  /\ at = "navigated"
  /\ at' = "waiting"
  /\ want' = [w EXCEPT !.window = Min({w.window, w.timeout})]
  /\ task' = IF w.window > 0 THEN "challenge" ELSE "json"
  /\ UNCHANGED <<vars, mode, slotVars, terminating, clock, mark, seen, look, first,
                 ending, siteVars, answer>>

-------------------------------------------------------------------------------
(* The site and Chrome, as far as the threads and the listener see them: what *)
(* happens once the thread is lost, the wait over or the shutdown decides is *)
(* left out.                                                                 *)
SiteOnly ==
  /\ task # "stuck" /\ ~terminating /\ (at = "waiting" => ending = "none")
  /\ UNCHANGED <<vars, at, mode, slotVars, terminating, clock, want, task, mark, seen, first,
                 ending, answer>>

(* A main document's response: the listener keeps the latest one.            *)
Responds(kind) ==
  /\ at \in {"waiting", "reading"} /\ Len(docs) < MaxDocs
  /\ docs' = Append(docs, kind) /\ loaded' = FALSE
  /\ SiteOnly /\ UNCHANGED <<look, shown, idle, inDom>>

(* Chrome replaces the frame's document with it; the navigation starts over. *)
(* A download, an empty answer or an aborted navigation never gets there.     *)
Commits ==
  /\ at = "waiting" /\ shown < Len(docs)
  /\ shown' = Len(docs) /\ idle' = FALSE /\ inDom' = {}
  /\ SiteOnly /\ UNCHANGED <<look, docs, loaded>>

(* loadingFinished or loadingFailed of the latest document, whether it is in  *)
(* the frame or not; the strategies do not ask.                              *)
LoadEnds ==
  /\ at = "waiting" /\ docs # <<>> /\ ~loaded
  /\ task \in {"challenge", "json"}
  /\ loaded' = TRUE
  /\ SiteOnly /\ UNCHANGED <<look, docs, shown, idle, inDom>>

GoesIdle ==
  /\ at = "waiting" /\ shown > 0 /\ ~idle
  /\ idle' = TRUE
  /\ SiteOnly /\ UNCHANGED <<look, docs, loaded, shown, inDom>>

Appears(s) ==
  /\ at = "waiting" /\ shown > 0 /\ s \in want.asked \ inDom
  /\ docs[shown] \in {"page", "challenge"}
  /\ inDom' = inDom \cup {s}
  /\ look' = IF s = "skip" /\ look = "clean" THEN "late" ELSE look
  /\ SiteOnly /\ UNCHANGED <<docs, loaded, shown, idle>>

-------------------------------------------------------------------------------
(* The blocking thread.  Each action is one look at the page at which it      *)
(* decides something; a look that decides nothing leaves the state alone.    *)
(* An iteration asks Chrome twice: for the skip selector first, and then for  *)
(* what else it waits for.                                                   *)
Thinking == at = "waiting" /\ UNCHANGED <<vars, at, mode, slotVars, terminating, want, clock,
                                          siteVars, answer>>

Ends(how) ==
  /\ ending' = how /\ task' = "none"
  /\ mark' = 0 /\ seen' = FALSE /\ look' = "none" /\ first' = 0

GoesOn(phase, from) ==
  /\ task' = phase /\ mark' = from /\ look' = "none"
  /\ UNCHANGED <<seen, first, ending>>

(* The challenge phase is over; its window and its mark mean nothing more.   *)
PassesOn ==
  /\ task' = "json" /\ first' = 0
  /\ UNCHANGED <<mark, seen, look, ending>>

(* final_selector_verdict: the budget is spent, one last look at the page.   *)
Verdict == IF Asked("wait") /\ ~There("wait") THEN "notFound" ELSE "success"

(* wait_out_challenge: over at once unless the first document is flagged;    *)
(* then when a later one has arrived and is not, or at the window's end.     *)
WaitOutChallenge ==
  /\ task = "challenge" /\ Thinking
  /\ \/ terminating /\ Ends("error")
     \/ /\ ~terminating /\ first = 0 /\ Flagged /\ clock < want.window
        /\ first' = Len(docs) /\ UNCHANGED <<task, mark, seen, look, ending>>
     \/ /\ ~terminating
        /\ \/ first = 0 /\ docs # <<>> /\ ~Flagged
           \/ first > 0 /\ Len(docs) > first /\ loaded /\ ~Flagged
           \/ clock >= want.window
        /\ PassesOn

(* network_idle's budget: with a wait selector, the default one.             *)
Total == IF Asked("wait") THEN Budget ELSE want.timeout

(* wait_for_json_body, then the strategy.  Its clock starts where the        *)
(* request's wait did, so the challenge's time is part of its budget;        *)
(* network_idle makes that budget the tab's default timeout, and the tab     *)
(* keeps it for the requests to come.  Nobody looks at the window or at the   *)
(* end of the load from here on.                                             *)
AwaitJson ==
  /\ task = "json" /\ at = "waiting"
  /\ \/ terminating /\ Ends("error") /\ UNCHANGED patience
     \/ /\ ~terminating /\ IsJson /\ (loaded \/ clock >= want.timeout)
        /\ Ends("success") /\ UNCHANGED patience
     \/ /\ ~terminating /\ ~IsJson
        /\ IF want.strategy = "timeout"
           THEN GoesOn("navigated", clock) /\ UNCHANGED patience
           ELSE GoesOn("phase1", clock) /\ patience' = Total
  /\ loaded' = FALSE /\ want' = [want EXCEPT !.window = 0]
  /\ UNCHANGED <<vars, at, mode, tab, pooled, locked, terminating, clock, docs, shown, idle,
                 inDom, answer>>

(* The skip selector comes first in every iteration, and once after Phase     *)
(* 1.5: while it is not there, the iteration goes on.  It may come while the  *)
(* iteration asks for the rest ("late", which only SkipNotOverlooked reads).  *)
(* A look holds until the tick is over; the next iteration looks again.       *)
LooksForSkip ==
  /\ task \in {"phase1", "recheck", "phase2", "polling"} /\ Thinking
  /\ Asked("skip") /\ (task # "recheck" => ~terminating)
  /\ \/ There("skip") /\ Ends("skip")
     \/ /\ ~There("skip") /\ look = "none"
        /\ look' = "clean" /\ UNCHANGED <<task, mark, seen, first, ending>>

Looked == Asked("skip") => look # "none"

(* The check at the start of an iteration.                                   *)
IsCancelled ==
  /\ task \in {"phase1", "phase2", "polling"} /\ Thinking
  /\ terminating /\ Ends("error")

(* Phase 1, until the network is almost idle.  The idle thread, started at    *)
(* `mark`, fails after the same budget, and its answer may or may not be      *)
(* there when the budget ends.                                               *)
UntilIdle ==
  /\ task = "phase1" /\ Looked /\ Thinking
  /\ \/ idle /\ GoesOn("ready", clock)
     \/ ~idle /\ Blocked /\ Ends("success")
     \/ ~idle /\ ~Blocked /\ clock >= Total /\ Ends(IF Asked("wait") THEN Verdict ELSE "error")
     \/ ~idle /\ clock - mark >= patience /\ Ends("error")

(* Phase 1.5 waits for the document's `load`, the wait selector, or a bound.  *)
(* Its one script is not interrupted, whatever appears meanwhile.            *)
ReadyWaitOver ==
  /\ task = "ready" /\ Thinking
  /\ There("wait") \/ clock - mark >= Min({ReadyMax, Total - mark})
  /\ GoesOn("recheck", 0)

(* `load` fires, or the script fails: at any moment.                         *)
LoadFires ==
  /\ task = "ready" /\ Thinking
  /\ GoesOn("recheck", 0)

(* Mutant: no second look at the skip selector after the wait for `load`.    *)
AfterReady_NoRecheck ==
  /\ task = "recheck" /\ Thinking
  /\ \/ clock >= Total /\ Ends(Verdict)
     \/ clock < Total /\ (Blocked \/ ~Asked("wait")) /\ Ends("success")
     \/ clock < Total /\ ~Blocked /\ Asked("wait") /\ GoesOn("phase2", clock)

(* After Phase 1.5: the skip selector has been looked for once more.         *)
AfterReady ==
  /\ task = "recheck" /\ Looked /\ Thinking
  /\ \/ clock >= Total /\ Ends(Verdict)
     \/ clock < Total /\ (Blocked \/ ~Asked("wait")) /\ Ends("success")
     \/ clock < Total /\ ~Blocked /\ Asked("wait") /\ GoesOn("phase2", clock)

(* Phase 2, the search: at most the requested time, within the budget.       *)
SearchSelector ==
  /\ task = "phase2" /\ Looked /\ Thinking
  /\ \/ There("wait") /\ Ends("success")
     \/ /\ ~There("wait")
        /\ clock - mark >= Min({want.timeout, Total - mark}) \/ clock >= Total
        /\ Ends("notFound")

(* The timeout strategy first waits for the navigation, with whatever        *)
(* default timeout the tab has; then its own clock starts, set back by what  *)
(* the challenge took.                                                       *)
UntilNavigated ==
  /\ task = "navigated" /\ Thinking
  /\ \/ idle /\ GoesOn("polling", clock - mark)
     \/ ~idle /\ clock - mark >= patience /\ Ends("error")

Spent == clock - mark >= want.timeout

(* Mutant: the wait selector is looked for first, and found it is enough.    *)
PollForTimeout_FirstHit ==
  /\ task = "polling" /\ Thinking
  /\ \/ There("wait") /\ Ends("success")
     \/ ~There("wait") /\ Looked /\ Spent /\ Ends(Verdict)

(* The wait selector ends the wait only when no skip selector was asked for. *)
PollForTimeout ==
  /\ task = "polling" /\ Looked /\ Thinking
  /\ \/ There("wait") /\ ~Asked("skip") /\ Ends("success")
     \/ /\ There("wait") /\ Asked("skip") /\ ~seen
        /\ seen' = TRUE /\ UNCHANGED <<task, mark, look, first, ending>>
     \/ Spent /\ Ends(IF seen THEN "success" ELSE Verdict)

Decides ==
  \/ WaitOutChallenge \/ AwaitJson \/ LooksForSkip \/ IsCancelled \/ UntilIdle
  \/ ReadyWaitOver \/ AfterReady \/ SearchSelector \/ UntilNavigated \/ PollForTimeout

(* A look for a selector fails: every strategy ends.                         *)
EvaluateFails ==
  /\ task \in {"phase1", "recheck", "phase2", "polling"} /\ Thinking
  /\ Ends("error")

(* Chrome does not answer any more: the thread is lost.                      *)
Hangs ==
  /\ at \in Selects /\ task \in {"call", "phase1", "ready", "recheck", "phase2", "polling"}
  /\ task' = "stuck" /\ mark' = 0 /\ seen' = FALSE /\ look' = "none" /\ first' = 0
  /\ docs' = <<>> /\ shown' = 0 /\ loaded' = FALSE /\ idle' = FALSE /\ inDom' = {}
  /\ UNCHANGED <<vars, at, mode, slotVars, terminating, clock, want, ending, answer>>

-------------------------------------------------------------------------------
Limit == IF at = "waiting" THEN want.timeout + Margin ELSE Step

(* No look at the page would decide anything.                                *)
Undecided == ~ENABLED Decides

Tick ==
  /\ at \in Selects /\ clock < Limit /\ ~terminating /\ Undecided
  /\ at = "waiting" => ending = "none"
  /\ clock' = clock + 1 /\ look' = "none"
  /\ UNCHANGED <<vars, at, mode, slotVars, terminating, want, task, mark, seen, first,
                 ending, siteVars, answer>>

(* The wait is over, whatever its result: the content is read anyway.  Only  *)
(* the documents observed are still of interest.                             *)
WaitReturns ==
  /\ at = "waiting" /\ ending # "none"
  /\ at' = "reading" /\ clock' = 0 /\ task' = "call" /\ want' = NoWant
  /\ shown' = 0 /\ idle' = FALSE /\ inDom' = {} /\ loaded' = FALSE
  /\ UNCHANGED <<vars, mode, slotVars, terminating, mark, seen, look, first, ending, docs,
                 answer>>

(* The hard timeouts: the context is discarded, its call cannot be aborted.  *)
NavigationOverrun ==
  /\ at = "navigating" /\ clock >= Limit
  /\ GiveUp("TIMEOUT_BROWSER")
  /\ Forgotten /\ UNCHANGED vars

(* Mutant: the wait has no hard timeout of its own.                          *)
WaitOverrun_Never ==
  /\ at = "waiting" /\ clock >= Limit /\ task # "stuck"
  /\ GiveUp("TIMEOUT_BROWSER")
  /\ Forgotten /\ UNCHANGED vars

WaitOverrun ==
  /\ at = "waiting" /\ clock >= Limit
  /\ GiveUp("TIMEOUT_BROWSER")
  /\ Forgotten /\ UNCHANGED vars

ContentOverrun ==
  /\ at = "reading" /\ clock >= Limit
  /\ GiveUp("BROWSER_ERROR")
  /\ Forgotten /\ UNCHANGED vars

(* The shutdown's token is cancelled (WorkerShutdown says when).             *)
Terminate ==
  /\ ~terminating /\ at \in Selects
  /\ terminating' = TRUE
  /\ UNCHANGED <<vars, at, mode, slotVars, waitVars, siteVars, answer>>

(* A select sees it: the tab is closed behind the context's back.            *)
Cancelled ==
  /\ terminating /\ at \in Selects
  /\ at' = "answered" /\ locked' = FALSE /\ tab' = "dead"
  /\ answer' = [code |-> "TERMINATING", names |-> Addressable]
  /\ Forgotten /\ UNCHANGED <<vars, pooled, patience>>

(* The content is read; the tab lock goes before anything destroys the slot, *)
(* and an always-new context is destroyed before the answer is composed.     *)
ContentRead ==
  /\ at = "reading" /\ task = "call"
  /\ \/ /\ at' = "finish" /\ locked' = FALSE
        /\ NothingWaited /\ UNCHANGED <<tab, pooled, patience, answer>>
     \/ Reply("BROWSER_ERROR") /\ Forgotten
  /\ UNCHANGED vars

EarlyDestroy ==
  /\ at = "finish" /\ ~locked
  /\ pooled' = (pooled /\ mode # "always_new")
  /\ at' = "status"
  /\ NothingWaited /\ UNCHANGED <<vars, tab, locked, patience, answer>>

(* Mutant: a context discarded by the status fallback is still named.        *)
ReadStatus_KeepsName ==
  /\ at = "status"
  /\ at' = "report" /\ answer' = [answer EXCEPT !.names = Addressable]
  /\ pooled' \in {pooled, pooled /\ docs # <<>>}
  /\ NothingWaited /\ UNCHANGED <<vars, tab, locked, patience>>

(* The status comes from the listener; without it the page is asked, and a   *)
(* page that does not answer costs the context, not the response.            *)
ReadStatus ==
  /\ at = "status"
  /\ \/ at' = "report" /\ answer' = [answer EXCEPT !.names = Addressable] /\ UNCHANGED pooled
     \/ /\ docs = <<>>
        /\ at' = "report" /\ answer' = [answer EXCEPT !.names = FALSE]
        /\ pooled' = FALSE
  /\ NothingWaited /\ UNCHANGED <<vars, tab, locked, patience>>

(* What the client is told: a failed navigation before an off-domain         *)
(* redirect before the wait's result.  Lost sub-resources turn an unfinished *)
(* wait into a proxy error, or a missing selector into an incomplete load.   *)
Codes ==
  CASE ending = "navError" -> {"NETWORK_ERROR", "PROXY_ERROR"}
    [] ending = "success"  -> {"NONE", "REDIRECT"}
    [] ending = "skip"     -> {"SKIP_SELECTOR_FOUND", "REDIRECT"}
    [] ending = "notFound" -> {"SELECTOR_NOT_FOUND", "PAGE_LOAD_INCOMPLETE", "PROXY_ERROR",
                               "REDIRECT"}
    [] ending = "error"    -> {"TIMEOUT_BROWSER", "PROXY_ERROR", "REDIRECT"}

Refused == docs # <<>> => Latest \in {"challenge", "refused"}

(* destroy_session_on_block: a refused session ends with its answer.         *)
Report ==
  /\ at = "report"
  /\ at' = "answered"
  /\ \E code \in Codes :
       \/ answer' = [answer EXCEPT !.code = code] /\ UNCHANGED pooled
       \/ /\ Refused /\ mode = "dedicated"
          /\ answer' = [code |-> code, names |-> FALSE] /\ pooled' = FALSE
  /\ Forgotten /\ UNCHANGED <<vars, tab, locked, patience>>

(* destroy_context: release_context takes the tab's lock to close the tab.   *)
TakeOut ==
  /\ at = "discard" /\ ~locked
  /\ pooled' = FALSE /\ at' = "answered"
  /\ NothingWaited /\ UNCHANGED <<vars, tab, locked, patience, answer>>

(* The client is gone: the handler's future is dropped at an await, and a    *)
(* bounded call it is awaiting with it.                                      *)
Dropped ==
  /\ at \notin Left \cup {"report"}
  /\ at' = "gone" /\ locked' = FALSE
  /\ \/ \E k \in Calls : DropFuture(k)
     \/ (\A k \in Calls : waiter[k] \in {"absent"} \cup Ended) /\ UNCHANGED vars
  /\ Forgotten /\ UNCHANGED <<tab, pooled, patience, answer>>

CallStep(k) == (Answer(k) \/ Panic(k) \/ Thread(k) \/ Waiter(k)) /\ UNCHANGED pageVars

(* The request is over; a thread Chrome never answered may stay parked.      *)
PageOver == at \in Left /\ UNCHANGED allVars

Setup ==
  \/ NoProxy \/ LockTab \/ LostIsolation \/ EnableFetch \/ RetryFetch \/ Observe
  \/ \E k \in Calls : CreateTab(k) \/ TabCreated(k) \/ TabRefused(k) \/ TabStalled(k)

Handler ==
  \/ Setup \/ InvalidWait \/ (\E w \in Wants : StartWait(w)) \/ WaitReturns
  \/ NavigationOverrun \/ WaitOverrun \/ ContentOverrun \/ Cancelled
  \/ EarlyDestroy \/ ReadStatus \/ Report \/ TakeOut

Chrome ==
  \/ NavigationReturns \/ ContentRead \/ JoinError \/ EvaluateFails \/ Hangs \/ LoadFires
  \/ (\E kind \in Kinds : Responds(kind)) \/ Commits \/ LoadEnds \/ GoesIdle
  \/ \E s \in Selectors : Appears(s)

PageNext ==
  \/ Handler \/ Decides \/ Chrome \/ Tick \/ Terminate \/ Dropped
  \/ (\E k \in Calls : CallStep(k))
  \/ PageOver

PageSpec == PageInit /\ [][PageNext]_allVars

(* What the worker does of itself, as against Chrome, the site, the client   *)
(* and the shutdown.                                                         *)
Progress ==
  \/ Handler \/ Decides \/ Tick
  \/ \E k \in Calls : (Thread(k) \/ Waiter(k)) /\ UNCHANGED pageVars

(* The runtime polls the handler and its waiters, the blocking threads run,  *)
(* time passes.  Nothing is assumed of Chrome or of the site.                *)
PageFairSpec == PageSpec /\ WF_allVars(Progress)

-------------------------------------------------------------------------------
(* Every page request ends, though Chrome may never answer a call again and  *)
(* the thread that made it is lost (the bounded calls and the three hard     *)
(* timeouts of scrape_page_internal).                                        *)
PageEnds == at \in {"begin"} ~> at \in Left

(* An answer names its context only while a later request can find it: a     *)
(* client is never sent back to a slot this request threw away.              *)
NamedContextExists == at = "answered" /\ answer.names => pooled

(* Whichever phase it appeared in, a skip selector in the page when a wait    *)
(* succeeds or misses its own selector has come after the last iteration had *)
(* looked for it (the order of the looks, the re-check after Phase 1.5).  A   *)
(* JSON body ends the wait before any selector is looked for.                *)
SkipNotOverlooked ==
  [][at = "waiting" /\ ending = "none" /\ ending' \in {"success", "notFound"} /\ There("skip")
       => look = "late" \/ task = "json"]_allVars
===============================================================================
