------------------------------ MODULE PageEvidence ------------------------------
(***************************************************************************)
(* What one page request remembers of its page, and what it makes of it    *)
(* when the wait selector was not found: SELECTOR_NOT_FOUND is final for   *)
(* the client, PROXY_ERROR and PAGE_LOAD_INCOMPLETE are retried.           *)
(*                                                                         *)
(* Chrome's Network and Page events of the tab's session arrive one after  *)
(* the other; the request's listener hands each to PageLoadTracker         *)
(* (page_load.rs), ProxyFailures (service.rs) and RequestLoads             *)
(* (third_party.rs), that of the diagnostics to PageActivity               *)
(* (page_activity.rs).  An action of the page is the event with everything *)
(* the listeners do about it; the handler reads what they recorded while   *)
(* events still arrive.                                                    *)
(*                                                                         *)
(* The page: main documents, numbered in the order they are requested, and *)
(* the sub-resources they load.  Error texts are told apart as far as the  *)
(* verdict does.                                                           *)
(***************************************************************************)
EXTENDS Naturals, FiniteSets

CONSTANTS
  Loads,        \* request ids of sub-resources
  MaxDocs,      \* bound: main documents requested
  MaxTracked,   \* MAX_TRACKED of page_load.rs
  MaxCounted,   \* MAX_PENDING_LOADS of third_party.rs
  MaxRequests,  \* MAX_DATA_REQUESTS of page_activity.rs
  MaxPending    \* MAX_PENDING_LOADS of page_activity.rs

ASSUME Bounds ==
  /\ IsFiniteSet(Loads)
  /\ {MaxDocs, MaxTracked, MaxCounted, MaxRequests, MaxPending} \subseteq Nat

VARIABLES
  \* Chrome
  reused,    \* the tab shows the page of an earlier request
  doc,       \* the latest main document requested
  body,      \* what has become of it
  shown,     \* the document in the frame, 0 for what the tab showed before
  fired,     \* its `load` event has fired
  late,      \* an older document's `load` fired after `doc` was requested
  loads,     \* every sub-resource: its type, host, owner, status and end
  old,       \* those pending for STALLED_AFTER
  \* PageLoadTracker
  tracked,   \* each load's outcome and host, as recorded
  main,      \* main_document, 0 for none
  last,      \* last_document, 0 for none
  loadFired, \* load_fired
  \* ProxyFailures, RequestLoads, PageActivity
  proxied,   \* some load failed with a proxy error
  waiting,   \* the web host of each load whose outcome is not known
  requests,  \* XHR and fetch requests recorded
  pending,   \* other loads recorded, while they are pending
  \* the handler
  code,      \* "waiting", "judging", then the error code answered
  sawProxy   \* what it has read of ProxyFailures

pageVars == <<reused, doc, body, shown, fired, late>>
trackerVars == <<tracked, main, last, loadFired>>
activityVars == <<requests, pending>>
observers == <<trackerVars, proxied, waiting, activityVars>>
answerVars == <<code, sawProxy>>
vars == <<pageVars, loads, old, observers, answerVars>>

Types == {"asset", "data", "other"}          \* Script and Stylesheet; XHR and Fetch
Hosts == {"same", "cross", "none"}           \* the requested site, another, or no web host

(* How a load fails: its connection broke or a cross-origin rule struck, the *)
(* proxy failed, we blocked it ourselves, or nothing is to be made of it:    *)
(* the page cancelled it, the origin was not there.                          *)
Ways == {"lost", "proxy", "blocked", "canceled"}

Unborn == [type |-> "other", host |-> "same", owner |-> 0, since |-> 0,
           status |-> "none", end |-> "unborn"]
Untracked == [outcome |-> "no", type |-> "other", host |-> "same"]

LoadRecords ==
  [type : Types, host : Hosts, owner : 0..MaxDocs, since : 0..MaxDocs,
   status : {"none", "ok", "refused"},
   end : {"unborn", "pending", "finished", "lost", "over"}]

TrackRecords ==
  [outcome : {"no", "pending", "refused", "lost", "excused"}, type : Types, host : Hosts]

TypeOK ==
  /\ reused \in BOOLEAN /\ fired \in BOOLEAN /\ late \in BOOLEAN
  /\ doc \in 0..MaxDocs /\ shown \in 0..doc
  /\ body \in {"none", "requested", "arriving", "arrived", "failed"}
  /\ loads \in [Loads -> LoadRecords]
  /\ old \subseteq Loads
  /\ tracked \in [Loads -> TrackRecords]
  /\ {main, last} \subseteq 0..MaxDocs
  /\ loadFired \in BOOLEAN /\ proxied \in BOOLEAN
  /\ waiting \in [Loads -> Hosts]
  /\ requests \in [Loads -> {"no", "pending", "over"}]
  /\ pending \subseteq Loads
  /\ code \in {"waiting", "judging", "PROXY_ERROR", "PAGE_LOAD_INCOMPLETE",
               "SELECTOR_NOT_FOUND"}
  /\ sawProxy \in BOOLEAN

Pending == {l \in Loads : loads[l].end = "pending"}

(* Scripts and stylesheets count from any host, XHR and fetch from the site. *)
Counts(load) == load.type = "asset" \/ (load.type = "data" /\ load.host = "same")

(* A load that has ended; what became of it matters only when it was lost to *)
(* the page, or refused.                                                     *)
Over(load, how) ==
  IF Counts(load) /\ (how = "lost" \/ (how = "finished" /\ load.status = "refused"))
  THEN [load EXCEPT !.end = how] ELSE [Unborn EXCEPT !.end = "over"]

Init ==
  /\ reused \in BOOLEAN
  /\ doc = 0 /\ body = "none" /\ shown = 0 /\ fired \in {FALSE, reused} /\ late = FALSE
  /\ loads = [l \in Loads |-> Unborn] /\ old = {}
  /\ tracked = [l \in Loads |-> Untracked]
  /\ main = 0 /\ last = 0 /\ loadFired = FALSE
  /\ proxied = FALSE
  /\ waiting = [l \in Loads |-> "none"]
  /\ requests = [l \in Loads |-> "no"] /\ pending = {}
  /\ code = "waiting" /\ sawProxy = FALSE

-------------------------------------------------------------------------------
(* The observers.                                                            *)

(* Mutant: what was recorded of the replaced page is kept.                   *)
TrackDocument_KeepsLoads(d) ==
  /\ loadFired' = (loadFired /\ last = d)
  /\ last' = d /\ main' = d
  /\ UNCHANGED tracked

(* PageLoadTracker::will_be_sent of a main document: a new one clears what   *)
(* was recorded of the one it replaces, if there was one.                    *)
TrackDocument(d) ==
  /\ tracked' = IF last # 0 /\ last # d THEN [l \in Loads |-> Untracked] ELSE tracked
  /\ loadFired' = (loadFired /\ last = d)
  /\ last' = d /\ main' = d

Tracked == {l \in Loads : tracked[l].outcome # "no"}

(* PageLoadTracker::will_be_sent of anything else; a redirect only changes   *)
(* the URL, of a load it knows.                                              *)
TrackLoad(l, type, host) ==
  tracked' =
    IF type = "other" THEN tracked
    ELSE IF l \in Tracked THEN [tracked EXCEPT ![l].host = host]
    ELSE IF Cardinality(Tracked) >= MaxTracked THEN tracked
    ELSE [tracked EXCEPT ![l] = [outcome |-> "pending", type |-> type, host |-> host]]

Counted == {l \in Loads : waiting[l] # "none"}

(* RequestLoads::will_be_sent: a redirect replaces the host, or takes the    *)
(* load out when the new one is not on the web.  Main documents share the    *)
(* table: each may or may not take up a place.                               *)
Count(l, host) ==
  \/ /\ l \in Counted \/ host = "none" \/ Cardinality(Counted) < MaxCounted
     /\ waiting' = [waiting EXCEPT ![l] = host]
  \/ /\ l \notin Counted /\ Cardinality(Counted) + doc >= MaxCounted
     /\ UNCHANGED waiting

Recorded == {l \in Loads : requests[l] # "no"}

(* PageActivity::will_be_sent: XHR and fetch are recorded for good, other    *)
(* loads while they are pending, each up to its own limit.                   *)
Record(l, type) ==
  /\ requests' = IF type = "data" /\ l \notin Recorded /\ Cardinality(Recorded) < MaxRequests
                 THEN [requests EXCEPT ![l] = "pending"] ELSE requests
  /\ pending' = IF type # "data" /\ Cardinality(pending) < MaxPending
                THEN pending \cup {l} ELSE pending

(* Mutant: a load that finished is forgotten, whatever its status.           *)
TrackFinished_All(l) == tracked' = [tracked EXCEPT ![l] = Untracked]

(* PageLoadTracker::finished: a recorded 403 or 429 stays.                   *)
TrackFinished(l) ==
  tracked' = IF tracked[l].outcome = "pending" THEN [tracked EXCEPT ![l] = Untracked]
             ELSE tracked

(* PageLoadTracker::failed.                                                  *)
TrackFailed(S, how) ==
  LET outcome == IF how = "lost" THEN "lost" ELSE "excused"
  IN  tracked' = [l \in Loads |->
        IF l \in S \cap Tracked THEN [tracked[l] EXCEPT !.outcome = outcome] ELSE tracked[l]]

(* RequestLoads::finished and failed: counted now that the outcome is known. *)
CountEnd(S) == waiting' = [l \in Loads |-> IF l \in S THEN "none" ELSE waiting[l]]

(* Mutant: a load that failed stays among the pending ones.                  *)
RecordEnd_FinishedOnly(S, how) ==
  /\ requests' = [l \in Loads |->
       IF l \notin S \cap Recorded THEN requests[l] ELSE IF how = "blocked" THEN "no" ELSE "over"]
  /\ pending' = IF how = "finished" THEN pending \ S ELSE pending

(* PageActivity::finished and failed; what the scope blocked is dropped.     *)
RecordEnd(S, how) ==
  /\ requests' = [l \in Loads |->
       IF l \notin S \cap Recorded THEN requests[l] ELSE IF how = "blocked" THEN "no" ELSE "over"]
  /\ pending' = pending \ S

-------------------------------------------------------------------------------
(* Chrome: one event each, with what the listener does about it.             *)

Listening == UNCHANGED answerVars

(* Network.requestWillBeSent of the main frame's document.                   *)
DocumentRequested ==
  /\ doc < MaxDocs
  /\ doc' = doc + 1 /\ body' = "requested" /\ late' = FALSE
  /\ TrackDocument(doc + 1)
  /\ Listening /\ UNCHANGED <<reused, shown, fired, loads, old, proxied, waiting,
                              activityVars>>

(* The same for a redirect, under the same request id.                       *)
DocumentRedirected ==
  /\ body = "requested"
  /\ TrackDocument(doc)
  /\ Listening /\ UNCHANGED <<pageVars, loads, old, proxied, waiting, activityVars>>

(* Its response: the document replaces the one in the frame, whose pending   *)
(* loads are cancelled.                                                      *)
DocumentCommits ==
  /\ body = "requested"
  /\ body' = "arriving" /\ shown' = doc /\ fired' = FALSE
  /\ loads' = [l \in Loads |-> IF l \in Pending THEN Over(loads[l], "canceled") ELSE loads[l]]
  /\ old' = {}
  /\ TrackFailed(Pending, "canceled")
  /\ CountEnd(Pending) /\ RecordEnd(Pending, "canceled")
  /\ Listening /\ UNCHANGED <<reused, doc, late, main, last, loadFired, proxied>>

(* Its loadingFinished, or its loadingFailed: a body cut short, or a         *)
(* navigation that replaced nothing (a download, an answer without content). *)
DocumentEnds ==
  /\ \/ body = "arriving" /\ body' \in {"arrived", "failed"}
     \/ body = "requested" /\ shown > 0 /\ body' = "failed"
  /\ main' = 0
  /\ Listening /\ UNCHANGED <<reused, doc, shown, fired, late, loads, old, tracked, last,
                              loadFired, proxied, waiting, activityVars>>

Present == shown > 0 \/ reused

(* `load` of the main frame: its body has arrived and nothing holds it.      *)
LoadEvent ==
  /\ Present /\ ~fired /\ (shown = doc => body \in {"arrived", "failed"})
  /\ \A l \in Pending : loads[l].type = "data"
  /\ fired' = TRUE /\ late' = (late \/ shown < doc)
  /\ loadFired' = TRUE
  /\ Listening /\ UNCHANGED <<reused, doc, body, shown, loads, old, tracked, main, last,
                              proxied, waiting, activityVars>>

(* A load as Network.requestWillBeSent announces it, first or redirected.    *)
Sent(type, host, owner) ==
  [type |-> type, host |-> host, owner |-> owner, since |-> doc,
   status |-> "none", end |-> "pending"]

(* The page in the frame asks for a script, a fetch, an image.               *)
Starts(l, type, host) ==
  /\ Present /\ loads[l].end = "unborn"
  /\ loads' = [loads EXCEPT ![l] = Sent(type, host, shown)]
  /\ TrackLoad(l, type, host) /\ Count(l, host) /\ Record(l, type)
  /\ Listening /\ UNCHANGED <<pageVars, old, main, last, loadFired, proxied>>

Redirected(l, host) ==
  /\ l \in Pending /\ loads[l].status = "none"
  /\ loads' = [loads EXCEPT ![l] = Sent(loads[l].type, host, loads[l].owner)]
  /\ TrackLoad(l, loads[l].type, host) /\ Count(l, host) /\ Record(l, loads[l].type)
  /\ Listening /\ UNCHANGED <<pageVars, old, main, last, loadFired, proxied>>

(* Network.responseReceived: "refused" stands for 403 and 429.               *)
Responds(l, status) ==
  /\ l \in Pending /\ loads[l].status = "none"
  /\ loads' = [loads EXCEPT ![l].status = status]
  /\ tracked' = IF l \in Tracked /\ status = "refused"
                THEN [tracked EXCEPT ![l].outcome = "refused"] ELSE tracked
  /\ Listening /\ UNCHANGED <<pageVars, old, main, last, loadFired, proxied, waiting,
                              activityVars>>

Finishes(l) ==
  /\ l \in Pending /\ loads[l].status # "none"
  /\ loads' = [loads EXCEPT ![l] = Over(@, "finished")] /\ old' = old \ {l}
  /\ TrackFinished(l) /\ CountEnd({l}) /\ RecordEnd({l}, "finished")
  /\ Listening /\ UNCHANGED <<pageVars, main, last, loadFired, proxied>>

(* Network.loadingFailed.                                                    *)
Fails(l, how) ==
  /\ l \in Pending /\ (how = "blocked" => loads[l].status = "none")
  /\ loads' = [loads EXCEPT ![l] = Over(@, how)] /\ old' = old \ {l}
  /\ TrackFailed({l}, how) /\ CountEnd({l}) /\ RecordEnd({l}, how)
  /\ proxied' = (proxied \/ how = "proxy")
  /\ Listening /\ UNCHANGED <<pageVars, main, last, loadFired>>

(* STALLED_AFTER goes by.                                                    *)
Wait ==
  /\ Pending # old
  /\ old' = Pending
  /\ Listening /\ UNCHANGED <<pageVars, loads, observers>>

-------------------------------------------------------------------------------
(* The handler, once the wait selector was not found.                        *)

(* The proxy failures are read first.                                        *)
ReadProxyFailures ==
  /\ code = "waiting" /\ shown > 0
  /\ code' = "judging" /\ sawProxy' = proxied
  /\ UNCHANGED <<pageVars, loads, old, observers>>

(* PageLoadTracker::judge, by the tracker's own record.                      *)
Marker(l) ==
  /\ \/ tracked[l].outcome \in {"refused", "lost"}
     \/ tracked[l].outcome = "pending" /\ l \in old
  /\ Counts(tracked[l])

(* Mutant: the `load` event is not asked about.                              *)
Incomplete_NoLoadEvent == main # 0 \/ \E l \in Loads : Marker(l)

(* PageLoadTracker::verdict: C5, C6, then the loads.                         *)
Incomplete == main # 0 \/ (last # 0 /\ ~loadFired) \/ \E l \in Loads : Marker(l)

(* The verdict, and the answer.                                              *)
Answer ==
  /\ code = "judging"
  /\ code' = IF sawProxy THEN "PROXY_ERROR"
             ELSE IF Incomplete THEN "PAGE_LOAD_INCOMPLETE" ELSE "SELECTOR_NOT_FOUND"
  /\ UNCHANGED <<pageVars, loads, old, observers, sawProxy>>

Answered == code \notin {"waiting", "judging"} /\ UNCHANGED vars

Events ==
  \/ DocumentRequested \/ DocumentRedirected \/ DocumentCommits \/ DocumentEnds \/ LoadEvent
  \/ \E l \in Loads :
       \/ \E type \in Types, host \in Hosts : Starts(l, type, host)
       \/ \E host \in Hosts : Redirected(l, host)
       \/ \E status \in {"ok", "refused"} : Responds(l, status)
       \/ Finishes(l)
       \/ \E how \in Ways : Fails(l, how)
  \/ Wait

Next == (code \in {"waiting", "judging"} /\ Events) \/ ReadProxyFailures \/ Answer \/ Answered

Spec == Init /\ [][Next]_vars

-------------------------------------------------------------------------------
(* What happened in Chrome, as the comments of page_load.rs count it.        *)
Broken(l) ==
  /\ Counts(loads[l])
  /\ \/ loads[l].end = "lost"
     \/ loads[l].end \in {"pending", "finished"} /\ loads[l].status = "refused"
     \/ l \in old

Loading == body \in {"requested", "arriving"}

(* SELECTOR_NOT_FOUND, which the client takes as final, is answered only for *)
(* a page that has arrived, fired its `load` event, and lost no load that    *)
(* can explain the missing element.  Two cases are excused: an older page's  *)
(* `load` event that came after the document was requested, which load_event *)
(* takes for its own; and a frame that still shows an older page because the *)
(* latest main document was never committed (shown < doc): will_be_sent has  *)
(* reset the tracker for a page that is not there, and of the one that is    *)
(* there nothing but the navigation being over is known.                     *)
NotFoundIsFinal ==
  [][code' = "SELECTOR_NOT_FOUND" /\ code = "judging" =>
       /\ ~Loading
       /\ shown = doc => fired \/ late
       /\ \A l \in Loads : loads[l].owner = shown /\ shown = doc => ~Broken(l)]_vars

(* PAGE_LOAD_INCOMPLETE has a reason: the page in the frame has not fired    *)
(* `load`, a navigation is under way or has come to nothing, or a load Chrome *)
(* reported on since the latest main document was requested is broken.  What *)
(* an earlier document lost is none, and neither is what finished, what the  *)
(* page cancelled or what we blocked ourselves.                              *)
IncompleteIsExplained ==
  [][code' = "PAGE_LOAD_INCOMPLETE" /\ code = "judging" =>
       \/ Loading
       \/ ~fired
       \/ shown < doc
       \/ \E l \in Loads : Broken(l) /\ (loads[l].since = doc \/ doc = 1)]_vars

(* The three records of a load agree with Chrome, and so with one another,   *)
(* on whether it is pending: none keeps a load whose end was reported, the   *)
(* host to be counted is the last one it was redirected to, and while there  *)
(* is room for all no load is missed (page_load.rs, third_party.rs,          *)
(* page_activity.rs).                                                        *)
ObserversAgree ==
  /\ \A l \in Counted : l \in Pending /\ waiting[l] = loads[l].host
  /\ Cardinality(Loads) + MaxDocs <= MaxCounted =>
       \A l \in Pending : loads[l].host # "none" => l \in Counted
  /\ \A l \in Tracked : tracked[l].outcome = "pending" => l \in Pending
  /\ pending \cup {l \in Loads : requests[l] = "pending"} \subseteq Pending
  /\ Cardinality(Loads) <= MaxTracked =>
       \A l \in Pending : loads[l].type # "other" /\ loads[l].since = doc => l \in Tracked
================================================================================
