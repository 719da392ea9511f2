--------------------------- MODULE PageScrapeProofs ---------------------------
(***************************************************************************)
(* Proofs about PageScrape, for any timeouts, windows, bounds and kinds of *)
(* document: what an answer names, what the wait decides on, and that the  *)
(* bounded calls keep their promises inside the request that makes them.   *)
(***************************************************************************)
EXTENDS PageScrape, BoundedCallProofs

(* Before the navigation the handler has the context for itself.             *)
Alone == {"begin", "create", "recreate", "fetch", "retry", "observe"}

(* The phases of a strategy, each with a clock of its own.                   *)
Phases == {"phase1", "ready", "recheck", "phase2", "navigated", "polling"}

(* The content is read and the response is composed.                         *)
Composing == {"finish", "status", "report"}

(* The blocking thread does what the handler awaits, and nothing once the    *)
(* wait has ended; whatever is composed has an end of the wait to report.    *)
TaskInv ==
  /\ at \in Alone \cup {"navigated", "discard"} \cup Left => task = "none" /\ ending = "none"
  /\ at = "navigating" => task \in {"call", "stuck"} /\ ending = "none"
  /\ at = "waiting" => IF ending = "none" THEN task \in {"challenge", "json", "stuck"} \cup Phases
                                          ELSE task = "none"
  /\ at = "reading" => task \in {"call", "stuck"} /\ ending # "none"
  /\ at \in Composing => task = "call" /\ ending # "none"

(* No select outlasts its hard timeout, and no phase began before its wait.  *)
TimeInv ==
  /\ task \notin Phases => mark = 0
  /\ mark <= clock
  /\ at \in Selects => clock <= Limit
  /\ at \notin Selects \cup Composing => clock = 0

(* Selectors are looked for during the wait only, and a load that is over is *)
(* some document's; a look that found no skip selector has missed none.      *)
DomInv ==
  /\ at # "waiting" => inDom = {}
  /\ loaded => at = "waiting" /\ docs # <<>>
  /\ look = "clean" => "skip" \notin inDom

(* The context stays in the pool until the request ends or composes its      *)
(* answer, and is named only while it is there, to a dedicated session.      *)
NameInv ==
  /\ at \in Alone \cup Selects \cup {"navigated", "finish", "discard"} => pooled
  /\ at \in Alone \cup Selects \cup {"navigated", "finish", "status", "discard"} => ~answer.names
  /\ at = "status" => pooled \/ mode = "always_new"
  /\ at \in {"report", "answered"} /\ answer.names => pooled /\ mode = "dedicated"

(* The handler holds the context's tab lock from the tab to the content.     *)
LockInv == locked <=> at \in (Alone \ {"begin"}) \cup Selects \cup {"navigated"}

(* What the assumption says of each bound.                                   *)
LEMMA TickTypes ==
  /\ Budget \in Nat /\ Budget > 0 /\ Margin \in Nat /\ Step \in Nat /\ MaxDocs \in Nat
  /\ 0 \in 0..(Budget + Margin + Step) /\ 0 \in 0..Budget
  /\ \A t \in Timeouts : t \in 1..Budget
  /\ \A v \in Windows : v \in 0..Budget
BY Ticks

(* The smaller of two ticks.                                                 *)
LEMMA SmallerTick ==
  ASSUME NEW a \in Nat, NEW b \in Nat
  PROVE  Min({a, b}) \in Nat /\ Min({a, b}) <= a /\ Min({a, b}) <= b
<1>1. \E x \in {a, b} : \A y \in {a, b} : x =< y
  <2>1. CASE a <= b
    BY <2>1
  <2>2. CASE b <= a
    BY <2>2
  <2>3. QED
    BY <2>1, <2>2
<1>2. Min({a, b}) \in {a, b} /\ \A y \in {a, b} : Min({a, b}) =< y
  BY <1>1 DEF Min
<1>3. QED
  BY <1>2

-------------------------------------------------------------------------------
(* The types, in three parts: the context and the answer, the wait and its   *)
(* thread, the site.                                                         *)
SlotTyped ==
  /\ at \in {"begin", "create", "recreate", "fetch", "retry", "observe", "navigated",
             "discard", "finish", "status", "report"} \cup Selects \cup Left
  /\ mode \in Modes
  /\ tab \in {"none", "alive", "dead", "closed"}
  /\ pooled \in BOOLEAN /\ locked \in BOOLEAN /\ terminating \in BOOLEAN
  /\ patience \in 1..Budget \cup {Patience}
  /\ answer \in [code : AnswerCodes, names : BOOLEAN]

WaitTyped ==
  /\ clock \in 0..(Budget + Margin + Step) /\ mark \in 0..(Budget + Margin + Step)
  /\ want \in Resolved
  /\ task \in {"none", "call", "stuck", "challenge", "json"} \cup Phases
  /\ seen \in BOOLEAN /\ look \in {"none", "clean", "late"}
  /\ ending \in {"none", "success", "skip", "notFound", "error", "navError"}

SiteTyped ==
  /\ docs \in Seq(Kinds) /\ Len(docs) <= MaxDocs
  /\ loaded \in BOOLEAN /\ idle \in BOOLEAN
  /\ shown \in 0..Len(docs) /\ first \in 0..Len(docs)
  /\ inDom \subseteq want.asked

LEMMA Parts == PageTypeOK <=> SlotTyped /\ WaitTyped /\ SiteTyped
<1>1. PageTypeOK => SlotTyped
  BY DEF PageTypeOK, SlotTyped
<1>2. PageTypeOK => WaitTyped
  BY DEF PageTypeOK, WaitTyped, Phases
<1>3. PageTypeOK => SiteTyped
  BY DEF PageTypeOK, SiteTyped
<1>4. SlotTyped /\ WaitTyped /\ SiteTyped => PageTypeOK
  BY DEF PageTypeOK, SlotTyped, WaitTyped, SiteTyped, Phases
<1>5. QED
  BY <1>1, <1>2, <1>3, <1>4

(* What the handler's locals hold once they are forgotten.                   *)
LEMMA ForgottenTyped == Forgotten => WaitTyped' /\ SiteTyped'
<1> SUFFICES ASSUME Forgotten PROVE WaitTyped' /\ SiteTyped'
  OBVIOUS
<1>1. NoWant \in Resolved
  BY Ticks DEF NoWant, Resolved
<1>2. WaitTyped'
  BY TickTypes, <1>1 DEF Forgotten, WaitTyped
<1>3. SiteTyped'
  <2>1. <<>> \in Seq(Kinds) /\ Len(<<>>) = 0 /\ 0 <= MaxDocs /\ 0 \in 0..0
    BY TickTypes
  <2>2. docs' = <<>> /\ shown' = 0 /\ first' = 0 /\ loaded' = FALSE /\ idle' = FALSE /\ inDom' = {}
    BY DEF Forgotten
  <2>3. Len(docs') = 0
    BY <2>1, <2>2
  <2>4. QED
    BY <2>1, <2>2, <2>3 DEF SiteTyped
<1>4. QED
  BY <1>2, <1>3

LEMMA AddressableTyped == Addressable \in BOOLEAN
BY Zenon DEF Addressable

(* A response with a code of the protocol.                                   *)
LEMMA ReplyTyped ==
  ASSUME SlotTyped, NEW code \in AnswerCodes, Reply(code),
         UNCHANGED <<mode, terminating>>
  PROVE  SlotTyped'
<1>1. answer' \in [code : AnswerCodes, names : BOOLEAN]
  BY AddressableTyped DEF Reply
<1>2. QED
  BY <1>1 DEF SlotTyped, Reply, Left

LEMMA GiveUpTyped ==
  ASSUME SlotTyped, NEW code \in AnswerCodes, GiveUp(code),
         UNCHANGED <<mode, terminating>>
  PROVE  SlotTyped'
<1>1. answer' \in [code : AnswerCodes, names : BOOLEAN]
  BY DEF GiveUp
<1>2. QED
  BY <1>1 DEF SlotTyped, GiveUp

(* What the thread keeps of its own.                                         *)
ThreadTyped ==
  /\ task \in {"none", "call", "stuck", "challenge", "json"} \cup Phases
  /\ mark \in 0..(Budget + Margin + Step)
  /\ seen \in BOOLEAN /\ look \in {"none", "clean", "late"}
  /\ ending \in {"none", "success", "skip", "notFound", "error", "navError"}

LEMMA EndsTyped ==
  ASSUME NEW how \in {"success", "skip", "notFound", "error"}, Ends(how)
  PROVE  ThreadTyped'
BY TickTypes DEF Ends, ThreadTyped

LEMMA GoesOnTyped ==
  ASSUME WaitTyped, NEW phase \in Phases, NEW from \in 0..(Budget + Margin + Step),
         GoesOn(phase, from)
  PROVE  ThreadTyped'
BY DEF GoesOn, WaitTyped, ThreadTyped

LEMMA VerdictTyped == Verdict \in {"success", "notFound"}
BY Zenon DEF Verdict

(* A look at the page keeps the clock and the parameters.                    *)
LEMMA ThinkingTyped == WaitTyped /\ Thinking /\ ThreadTyped' => WaitTyped'
BY DEF WaitTyped, Thinking, ThreadTyped, siteVars

(* Every step leaves the context and the answer in their types.              *)
LEMMA SlotStep ==
  ASSUME SlotTyped, WaitTyped, TaskInv, PageNext \/ UNCHANGED allVars
  PROVE  SlotTyped'
<1> USE Ticks DEF SlotTyped, Selects, Left, WithTab, slotVars, pageVars
<1>1. CASE NoProxy
  <2>1. "BROWSER_ERROR" \in AnswerCodes
    BY DEF AnswerCodes
  <2>2. QED
    BY <1>1, <2>1, ReplyTyped DEF NoProxy, NothingWaited
<1>2. CASE LockTab
  BY <1>2 DEF LockTab, NothingWaited
<1>3. CASE LostIsolation
  <2>1. "BROWSER_ERROR" \in AnswerCodes
    BY DEF AnswerCodes
  <2>2. QED
    BY <1>3, <2>1, GiveUpTyped DEF LostIsolation, NothingWaited
<1>4. CASE EnableFetch
  <2>1. "BROWSER_ERROR" \in AnswerCodes
    BY DEF AnswerCodes
  <2>2. QED
    BY <1>4, <2>1, ReplyTyped, GiveUpTyped DEF EnableFetch, NothingWaited, SlotTyped, slotVars
<1>5. CASE RetryFetch
  <2>1. "BROWSER_ERROR" \in AnswerCodes
    BY DEF AnswerCodes
  <2>2. QED
    BY <1>5, <2>1, ReplyTyped, GiveUpTyped DEF RetryFetch, NothingWaited, SlotTyped, slotVars
<1>6. CASE Observe
  <2>1. "BROWSER_ERROR" \in AnswerCodes
    BY DEF AnswerCodes
  <2>2. QED
    BY <1>6, <2>1, GiveUpTyped DEF Observe, SlotTyped, Selects, slotVars
<1>7. ASSUME NEW k \in Calls, CreateTab(k) PROVE SlotTyped'
  BY <1>7 DEF CreateTab
<1>8. ASSUME NEW k \in Calls, TabCreated(k) PROVE SlotTyped'
  BY <1>8 DEF TabCreated, NothingWaited
<1>9. ASSUME NEW k \in Calls, TabRefused(k) PROVE SlotTyped'
  <2>1. {"BROWSER_ERROR", "RESTARTED"} \subseteq AnswerCodes
    BY DEF AnswerCodes
  <2>2. UNCHANGED <<mode, terminating>>
    BY <1>9 DEF TabRefused, NothingWaited
  <2>3. CASE Reply("BROWSER_ERROR")
    BY <2>1, <2>2, <2>3, ReplyTyped
  <2>4. CASE /\ at' = "answered" /\ answer' = [code |-> "RESTARTED", names |-> FALSE]
             /\ pooled' = FALSE /\ locked' = FALSE /\ UNCHANGED <<tab, patience>>
    BY <2>1, <2>2, <2>4
  <2>5. QED
    BY <1>9, <2>3, <2>4 DEF TabRefused
<1>10. ASSUME NEW k \in Calls, TabStalled(k) PROVE SlotTyped'
  <2>1. "BROWSER_ERROR" \in AnswerCodes
    BY DEF AnswerCodes
  <2>2. QED
    BY <1>10, <2>1, GiveUpTyped DEF TabStalled, NothingWaited
<1>11. CASE InvalidWait
  BY <1>11 DEF InvalidWait, Forgotten, AnswerCodes
<1>12. ASSUME NEW w \in Wants, StartWait(w) PROVE SlotTyped'
  BY <1>12 DEF StartWait
<1>13. CASE WaitReturns
  BY <1>13 DEF WaitReturns
<1>14. CASE NavigationOverrun
  <2>1. "TIMEOUT_BROWSER" \in AnswerCodes
    BY DEF AnswerCodes
  <2>2. QED
    BY <1>14, <2>1, GiveUpTyped DEF NavigationOverrun, Forgotten
<1>15. CASE WaitOverrun
  <2>1. "TIMEOUT_BROWSER" \in AnswerCodes
    BY DEF AnswerCodes
  <2>2. QED
    BY <1>15, <2>1, GiveUpTyped DEF WaitOverrun, Forgotten
<1>16. CASE ContentOverrun
  <2>1. "BROWSER_ERROR" \in AnswerCodes
    BY DEF AnswerCodes
  <2>2. QED
    BY <1>16, <2>1, GiveUpTyped DEF ContentOverrun, Forgotten
<1>17. CASE Cancelled
  <2>1. answer' \in [code : AnswerCodes, names : BOOLEAN]
    BY <1>17, AddressableTyped DEF Cancelled, AnswerCodes
  <2>2. QED
    BY <1>17, <2>1 DEF Cancelled, Forgotten
<1>18. CASE EarlyDestroy
  BY <1>18 DEF EarlyDestroy, NothingWaited
<1>19. CASE ReadStatus
  <2>1. answer' \in [code : AnswerCodes, names : BOOLEAN]
    BY <1>19, AddressableTyped DEF ReadStatus
  <2>2. pooled' \in BOOLEAN /\ at' = "report"
    BY <1>19 DEF ReadStatus
  <2>3. QED
    BY <1>19, <2>1, <2>2 DEF ReadStatus, NothingWaited
<1>20. CASE Report
  <2>1. Codes \subseteq AnswerCodes
    <3>1. ending \in {"success", "skip", "notFound", "error", "navError"}
      BY <1>20 DEF Report, TaskInv, Composing, WaitTyped
    <3>2. QED
      BY <3>1 DEF Codes, AnswerCodes
  <2>2. PICK code \in Codes :
          \/ answer' = [answer EXCEPT !.code = code] /\ UNCHANGED pooled
          \/ answer' = [code |-> code, names |-> FALSE] /\ pooled' = FALSE
    BY <1>20 DEF Report
  <2>3. answer' \in [code : AnswerCodes, names : BOOLEAN] /\ pooled' \in BOOLEAN
    <3>1. code \in AnswerCodes
      BY <2>1
    <3>2. CASE answer' = [answer EXCEPT !.code = code] /\ UNCHANGED pooled
      BY <3>1, <3>2
    <3>3. CASE answer' = [code |-> code, names |-> FALSE] /\ pooled' = FALSE
      BY <3>1, <3>3
    <3>4. QED
      BY <2>2, <3>2, <3>3
  <2>4. QED
    BY <1>20, <2>3 DEF Report, Forgotten
<1>21. CASE TakeOut
  BY <1>21 DEF TakeOut, NothingWaited
<1>22. CASE WaitOutChallenge
  BY <1>22 DEF WaitOutChallenge, Thinking, Ends, PassesOn
<1>23. CASE AwaitJson
  BY <1>23 DEF AwaitJson, Ends, GoesOn, Total, WaitTyped, Resolved
<1>24. CASE UntilIdle
  BY <1>24 DEF UntilIdle, Thinking, Ends, GoesOn
<1>25. CASE ReadyWaitOver
  BY <1>25 DEF ReadyWaitOver, Thinking, GoesOn
<1>26. CASE SearchSelector
  BY <1>26 DEF SearchSelector, Thinking, Ends
<1>27. CASE UntilNavigated
  BY <1>27 DEF UntilNavigated, Thinking, Ends, GoesOn
<1>28. CASE PollForTimeout
  BY <1>28 DEF PollForTimeout, Thinking, Ends
<1>29. CASE NavigationReturns
  BY <1>29 DEF NavigationReturns
<1>30. CASE ContentRead
  <2>1. "BROWSER_ERROR" \in AnswerCodes
    BY DEF AnswerCodes
  <2>2. UNCHANGED <<mode, terminating>>
    BY <1>30 DEF ContentRead, NothingWaited, Forgotten
  <2>3. CASE Reply("BROWSER_ERROR")
    BY <2>1, <2>2, <2>3, ReplyTyped
  <2>4. CASE at' = "finish" /\ locked' = FALSE /\ UNCHANGED <<tab, pooled, patience, answer>>
    BY <2>2, <2>4
  <2>5. QED
    BY <1>30, <2>3, <2>4 DEF ContentRead
<1>31. CASE JoinError
  <2>1. "BROWSER_ERROR" \in AnswerCodes
    BY DEF AnswerCodes
  <2>2. QED
    BY <1>31, <2>1, ReplyTyped DEF JoinError, Forgotten
<1>32. CASE EvaluateFails
  BY <1>32 DEF EvaluateFails, Thinking, Ends
<1>33. CASE Hangs
  BY <1>33 DEF Hangs
<1>34. CASE LoadFires
  BY <1>34 DEF LoadFires, Thinking, GoesOn
<1>35. ASSUME NEW kind \in Kinds, Responds(kind) PROVE SlotTyped'
  BY <1>35 DEF Responds, SiteOnly
<1>36. CASE Commits
  BY <1>36 DEF Commits, SiteOnly
<1>37. CASE LoadEnds
  BY <1>37 DEF LoadEnds, SiteOnly
<1>38. CASE GoesIdle
  BY <1>38 DEF GoesIdle, SiteOnly
<1>39. ASSUME NEW s \in Selectors, Appears(s) PROVE SlotTyped'
  BY <1>39 DEF Appears, SiteOnly
<1>40. CASE Tick
  BY <1>40 DEF Tick
<1>41. CASE Terminate
  BY <1>41 DEF Terminate
<1>42. CASE Dropped
  BY <1>42 DEF Dropped, Forgotten
<1>43. ASSUME NEW k \in Calls, CallStep(k) PROVE SlotTyped'
  BY <1>43 DEF CallStep
<1>44. CASE UNCHANGED allVars
  BY <1>44 DEF allVars
<1>45. CASE LooksForSkip
  BY <1>45 DEF LooksForSkip, Thinking, Ends
<1>46. CASE IsCancelled
  BY <1>46 DEF IsCancelled, Thinking, Ends
<1>47. CASE AfterReady
  BY <1>47 DEF AfterReady, Thinking, Ends, GoesOn
<1>48. QED
  BY <1>1, <1>2, <1>3, <1>4, <1>5, <1>6, <1>7, <1>8, <1>9, <1>10, <1>11, <1>12, <1>13,
     <1>14, <1>15, <1>16, <1>17, <1>18, <1>19, <1>20, <1>21, <1>22, <1>23, <1>24, <1>25,
     <1>26, <1>27, <1>28, <1>29, <1>30, <1>31, <1>32, <1>33, <1>34, <1>35, <1>36, <1>37,
     <1>38, <1>39, <1>40, <1>41, <1>42, <1>43, <1>44, <1>45, <1>46, <1>47
     DEF PageNext, Handler, Setup, Decides, Chrome, PageOver

(* Every step leaves the wait in its types.                                  *)
LEMMA WaitStep ==
  ASSUME SlotTyped, WaitTyped, TaskInv, TimeInv, PageNext \/ UNCHANGED allVars
  PROVE  WaitTyped'
<1> USE Ticks DEF WaitTyped, Phases, waitVars, pageVars
<1>1. CASE NoProxy
  BY <1>1 DEF NoProxy, Reply, NothingWaited
<1>2. CASE LockTab
  BY <1>2 DEF LockTab, NothingWaited
<1>3. CASE LostIsolation
  BY <1>3 DEF LostIsolation, GiveUp, NothingWaited
<1>4. CASE EnableFetch
  BY <1>4 DEF EnableFetch, Reply, GiveUp, NothingWaited
<1>5. CASE RetryFetch
  BY <1>5 DEF RetryFetch, Reply, GiveUp, NothingWaited
<1>6. CASE Observe
  BY <1>6 DEF Observe, GiveUp
<1>7. ASSUME NEW k \in Calls, CreateTab(k) PROVE WaitTyped'
  BY <1>7 DEF CreateTab
<1>8. ASSUME NEW k \in Calls, TabCreated(k) PROVE WaitTyped'
  BY <1>8 DEF TabCreated, NothingWaited
<1>9. ASSUME NEW k \in Calls, TabRefused(k) PROVE WaitTyped'
  BY <1>9 DEF TabRefused, Reply, NothingWaited
<1>10. ASSUME NEW k \in Calls, TabStalled(k) PROVE WaitTyped'
  BY <1>10 DEF TabStalled, GiveUp, NothingWaited
<1>11. CASE InvalidWait
  BY <1>11, ForgottenTyped DEF InvalidWait
<1>12. ASSUME NEW w \in Wants, StartWait(w) PROVE WaitTyped'
  <2>1. w.window \in Nat /\ w.timeout \in 1..Budget /\ w \in Resolved
    <3>1. /\ w.window \in Windows /\ w.timeout \in Timeouts /\ w.asked \in SUBSET Selectors
          /\ w.strategy \in {"network_idle", "timeout"}
          /\ w = [strategy |-> w.strategy, timeout |-> w.timeout,
                  window |-> w.window, asked |-> w.asked]
      BY DEF Wants
    <3>2. w.window \in 0..Budget /\ w.timeout \in 1..Budget
      BY <3>1, TickTypes
    <3>3. QED
      BY <3>1, <3>2 DEF Resolved
  <2>2. want' \in Resolved
    <3>1. Min({w.window, w.timeout}) \in 0..Budget
      <4>1. /\ Min({w.window, w.timeout}) \in Nat
            /\ Min({w.window, w.timeout}) <= w.timeout
        BY <2>1, SmallerTick
      <4>2. QED
        BY <2>1, <4>1
    <3>2. want' = [w EXCEPT !.window = Min({w.window, w.timeout})]
      BY <1>12 DEF StartWait
    <3>3. QED
      BY <2>1, <3>1, <3>2 DEF Resolved
  <2>3. task' \in {"challenge", "json"}
    BY <1>12 DEF StartWait
  <2>4. QED
    BY <1>12, <2>2, <2>3 DEF StartWait
<1>13. CASE WaitReturns
  <2>1. NoWant \in Resolved
    BY Ticks DEF NoWant, Resolved
  <2>2. QED
    BY <1>13, <2>1 DEF WaitReturns
<1>14. CASE NavigationOverrun
  BY <1>14, ForgottenTyped DEF NavigationOverrun
<1>15. CASE WaitOverrun
  BY <1>15, ForgottenTyped DEF WaitOverrun
<1>16. CASE ContentOverrun
  BY <1>16, ForgottenTyped DEF ContentOverrun
<1>17. CASE Cancelled
  BY <1>17, ForgottenTyped DEF Cancelled
<1>18. CASE EarlyDestroy
  BY <1>18 DEF EarlyDestroy, NothingWaited
<1>19. CASE ReadStatus
  BY <1>19 DEF ReadStatus, NothingWaited
<1>20. CASE Report
  BY <1>20, ForgottenTyped DEF Report
<1>21. CASE TakeOut
  BY <1>21 DEF TakeOut, NothingWaited
<1>22. CASE WaitOutChallenge
  <2>1. ThreadTyped'
    <3>1. CASE Ends("error")
      BY <3>1, EndsTyped
    <3>2. CASE PassesOn \/ UNCHANGED <<task, mark, seen, look, ending>>
      BY <3>2 DEF ThreadTyped, PassesOn
    <3>3. QED
      BY <1>22, <3>1, <3>2 DEF WaitOutChallenge
  <2>2. QED
    BY <1>22, <2>1, ThinkingTyped DEF WaitOutChallenge
<1>23. CASE AwaitJson
  <2>1. ThreadTyped'
    BY <1>23, EndsTyped, GoesOnTyped, Zenon DEF AwaitJson
  <2>2. want' \in Resolved /\ clock' = clock
    BY <1>23 DEF AwaitJson, Resolved
  <2>3. QED
    BY <2>1, <2>2 DEF ThreadTyped
<1>24. CASE UntilIdle
  <2>1. ThreadTyped'
    BY <1>24, EndsTyped, GoesOnTyped, VerdictTyped DEF UntilIdle, Phases
  <2>2. QED
    BY <1>24, <2>1, ThinkingTyped DEF UntilIdle
<1>25. CASE ReadyWaitOver
  <2>1. ThreadTyped'
    BY <1>25, TickTypes, GoesOnTyped DEF ReadyWaitOver, Phases
  <2>2. QED
    BY <1>25, <2>1, ThinkingTyped DEF ReadyWaitOver
<1>26. CASE SearchSelector
  <2>1. ThreadTyped'
    BY <1>26, EndsTyped DEF SearchSelector, Phases
  <2>2. QED
    BY <1>26, <2>1, ThinkingTyped DEF SearchSelector
<1>27. CASE UntilNavigated
  <2>1. clock - mark \in 0..(Budget + Margin + Step)
    BY Ticks DEF TimeInv
  <2>2. ThreadTyped'
    BY <1>27, <2>1, EndsTyped, GoesOnTyped DEF UntilNavigated, Phases
  <2>3. QED
    BY <1>27, <2>2, ThinkingTyped DEF UntilNavigated
<1>28. CASE PollForTimeout
  <2>1. ThreadTyped'
    <3>1. CASE seen' = TRUE /\ UNCHANGED <<task, mark, look, first, ending>>
      BY <3>1 DEF ThreadTyped
    <3>2. CASE \E how \in {"success", "skip", "notFound", "error"} : Ends(how)
      BY <3>2, EndsTyped
    <3>3. QED
      BY <1>28, <3>1, <3>2, VerdictTyped DEF PollForTimeout
  <2>2. QED
    BY <1>28, <2>1, ThinkingTyped DEF PollForTimeout
<1>29. CASE NavigationReturns
  BY <1>29 DEF NavigationReturns
<1>30. CASE ContentRead
  BY <1>30, ForgottenTyped DEF ContentRead, NothingWaited
<1>31. CASE JoinError
  BY <1>31, ForgottenTyped DEF JoinError
<1>32. CASE EvaluateFails
  <2>1. ThreadTyped'
    BY <1>32, EndsTyped DEF EvaluateFails, Phases
  <2>2. QED
    BY <1>32, <2>1, ThinkingTyped DEF EvaluateFails
<1>33. CASE Hangs
  BY <1>33, TickTypes DEF Hangs
<1>34. CASE LoadFires
  <2>1. ThreadTyped'
    BY <1>34, TickTypes, GoesOnTyped DEF LoadFires, Phases
  <2>2. QED
    BY <1>34, <2>1, ThinkingTyped DEF LoadFires
<1>35. ASSUME NEW kind \in Kinds, Responds(kind) PROVE WaitTyped'
  BY <1>35 DEF Responds, SiteOnly
<1>36. CASE Commits
  BY <1>36 DEF Commits, SiteOnly
<1>37. CASE LoadEnds
  BY <1>37 DEF LoadEnds, SiteOnly
<1>38. CASE GoesIdle
  BY <1>38 DEF GoesIdle, SiteOnly
<1>39. ASSUME NEW s \in Selectors, Appears(s) PROVE WaitTyped'
  BY <1>39 DEF Appears, SiteOnly
<1>40. CASE Tick
  <2>1. clock + 1 \in 0..(Budget + Margin + Step)
    BY <1>40 DEF Tick, Limit, Resolved
  <2>2. QED
    BY <1>40, <2>1 DEF Tick
<1>41. CASE Terminate
  BY <1>41 DEF Terminate
<1>42. CASE Dropped
  BY <1>42, ForgottenTyped DEF Dropped
<1>43. ASSUME NEW k \in Calls, CallStep(k) PROVE WaitTyped'
  BY <1>43 DEF CallStep
<1>44. CASE UNCHANGED allVars
  BY <1>44 DEF allVars
<1>45. CASE LooksForSkip
  <2>1. ThreadTyped'
    <3>1. CASE Ends("skip")
      BY <3>1, EndsTyped
    <3>2. CASE look' = "clean" /\ UNCHANGED <<task, mark, seen, first, ending>>
      BY <3>2 DEF ThreadTyped
    <3>3. QED
      BY <1>45, <3>1, <3>2 DEF LooksForSkip
  <2>2. QED
    BY <1>45, <2>1, ThinkingTyped DEF LooksForSkip
<1>46. CASE IsCancelled
  <2>1. ThreadTyped'
    BY <1>46, EndsTyped DEF IsCancelled
  <2>2. QED
    BY <1>46, <2>1, ThinkingTyped DEF IsCancelled
<1>47. CASE AfterReady
  <2>1. ThreadTyped'
    BY <1>47, EndsTyped, GoesOnTyped, VerdictTyped DEF AfterReady, Phases
  <2>2. QED
    BY <1>47, <2>1, ThinkingTyped DEF AfterReady
<1>48. QED
  BY <1>1, <1>2, <1>3, <1>4, <1>5, <1>6, <1>7, <1>8, <1>9, <1>10, <1>11, <1>12, <1>13,
     <1>14, <1>15, <1>16, <1>17, <1>18, <1>19, <1>20, <1>21, <1>22, <1>23, <1>24, <1>25,
     <1>26, <1>27, <1>28, <1>29, <1>30, <1>31, <1>32, <1>33, <1>34, <1>35, <1>36, <1>37,
     <1>38, <1>39, <1>40, <1>41, <1>42, <1>43, <1>44, <1>45, <1>46, <1>47
     DEF PageNext, Handler, Setup, Decides, Chrome, PageOver

(* Every step leaves the site in its types.                                  *)
LEMMA SiteStep ==
  ASSUME SlotTyped, WaitTyped, SiteTyped, DomInv, PageNext \/ UNCHANGED allVars
  PROVE  SiteTyped'
<1> USE Ticks DEF SiteTyped, siteVars, waitVars, pageVars
<1>1. CASE NoProxy
  BY <1>1 DEF NoProxy, Reply, NothingWaited
<1>2. CASE LockTab
  BY <1>2 DEF LockTab, NothingWaited
<1>3. CASE LostIsolation
  BY <1>3 DEF LostIsolation, GiveUp, NothingWaited
<1>4. CASE EnableFetch
  BY <1>4 DEF EnableFetch, Reply, GiveUp, NothingWaited
<1>5. CASE RetryFetch
  BY <1>5 DEF RetryFetch, Reply, GiveUp, NothingWaited
<1>6. CASE Observe
  BY <1>6 DEF Observe, GiveUp
<1>7. ASSUME NEW k \in Calls, CreateTab(k) PROVE SiteTyped'
  BY <1>7 DEF CreateTab
<1>8. ASSUME NEW k \in Calls, TabCreated(k) PROVE SiteTyped'
  BY <1>8 DEF TabCreated, NothingWaited
<1>9. ASSUME NEW k \in Calls, TabRefused(k) PROVE SiteTyped'
  BY <1>9 DEF TabRefused, Reply, NothingWaited
<1>10. ASSUME NEW k \in Calls, TabStalled(k) PROVE SiteTyped'
  BY <1>10 DEF TabStalled, GiveUp, NothingWaited
<1>11. CASE InvalidWait
  BY <1>11, ForgottenTyped DEF InvalidWait
<1>12. ASSUME NEW w \in Wants, StartWait(w) PROVE SiteTyped'
  <2>1. inDom' = {}
    BY <1>12 DEF StartWait, DomInv
  <2>2. QED
    BY <1>12, <2>1 DEF StartWait
<1>13. CASE WaitReturns
  <2>1. Len(docs) \in Nat
    OBVIOUS
  <2>2. 0 \in 0..Len(docs)
    BY <2>1
  <2>3. QED
    BY <1>13, <2>2 DEF WaitReturns
<1>14. CASE NavigationOverrun
  BY <1>14, ForgottenTyped DEF NavigationOverrun
<1>15. CASE WaitOverrun
  BY <1>15, ForgottenTyped DEF WaitOverrun
<1>16. CASE ContentOverrun
  BY <1>16, ForgottenTyped DEF ContentOverrun
<1>17. CASE Cancelled
  BY <1>17, ForgottenTyped DEF Cancelled
<1>18. CASE EarlyDestroy
  BY <1>18 DEF EarlyDestroy, NothingWaited
<1>19. CASE ReadStatus
  BY <1>19 DEF ReadStatus, NothingWaited
<1>20. CASE Report
  BY <1>20, ForgottenTyped DEF Report
<1>21. CASE TakeOut
  BY <1>21 DEF TakeOut, NothingWaited
<1>22. CASE WaitOutChallenge
  BY <1>22 DEF WaitOutChallenge, Thinking, Ends, PassesOn
<1>23. CASE AwaitJson
  <2>1. want'.asked = want.asked
    BY <1>23 DEF AwaitJson, WaitTyped, Resolved
  <2>2. first' \in {0, first}
    BY <1>23 DEF AwaitJson, Ends, GoesOn
  <2>3. Len(docs) \in Nat /\ first' \in 0..Len(docs)
    BY <2>2
  <2>4. QED
    BY <1>23, <2>1, <2>3 DEF AwaitJson
<1>24. CASE UntilIdle
  BY <1>24 DEF UntilIdle, Thinking, Ends, GoesOn
<1>25. CASE ReadyWaitOver
  BY <1>25 DEF ReadyWaitOver, Thinking, GoesOn
<1>26. CASE SearchSelector
  BY <1>26 DEF SearchSelector, Thinking, Ends
<1>27. CASE UntilNavigated
  BY <1>27 DEF UntilNavigated, Thinking, Ends, GoesOn
<1>28. CASE PollForTimeout
  BY <1>28 DEF PollForTimeout, Thinking, Ends
<1>29. CASE NavigationReturns
  BY <1>29 DEF NavigationReturns
<1>30. CASE ContentRead
  BY <1>30, ForgottenTyped DEF ContentRead, NothingWaited
<1>31. CASE JoinError
  BY <1>31, ForgottenTyped DEF JoinError
<1>32. CASE EvaluateFails
  BY <1>32 DEF EvaluateFails, Thinking, Ends
<1>33. CASE Hangs
  <2>1. <<>> \in Seq(Kinds) /\ Len(<<>>) = 0 /\ 0 <= MaxDocs /\ 0 \in 0..0
    BY TickTypes
  <2>2. docs' = <<>> /\ shown' = 0 /\ first' = 0 /\ loaded' = FALSE /\ idle' = FALSE /\ inDom' = {}
    BY <1>33 DEF Hangs
  <2>3. Len(docs') = 0
    BY <2>1, <2>2
  <2>4. QED
    BY <2>1, <2>2, <2>3
<1>34. CASE LoadFires
  BY <1>34 DEF LoadFires, Thinking, GoesOn
<1>35. ASSUME NEW kind \in Kinds, Responds(kind) PROVE SiteTyped'
  <2>1. /\ docs' \in Seq(Kinds) /\ Len(docs') = Len(docs) + 1 /\ Len(docs) + 1 <= MaxDocs
        /\ Len(docs) \in Nat
    BY <1>35 DEF Responds
  <2>2. UNCHANGED <<shown, first, idle, inDom, want>> /\ loaded' = FALSE
    BY <1>35 DEF Responds, SiteOnly
  <2>3. shown' \in 0..Len(docs') /\ first' \in 0..Len(docs')
    BY <2>1, <2>2
  <2>4. QED
    BY <2>1, <2>2, <2>3
<1>36. CASE Commits
  <2>1. UNCHANGED <<docs, first, loaded, want>>
        /\ shown' = Len(docs) /\ idle' = FALSE /\ inDom' = {}
    BY <1>36 DEF Commits, SiteOnly
  <2>2. Len(docs) \in Nat
    OBVIOUS
  <2>3. shown' \in 0..Len(docs') /\ first' \in 0..Len(docs')
    BY <2>1, <2>2
  <2>4. QED
    BY <2>1, <2>2, <2>3
<1>37. CASE LoadEnds
  BY <1>37 DEF LoadEnds, SiteOnly
<1>38. CASE GoesIdle
  BY <1>38 DEF GoesIdle, SiteOnly
<1>39. ASSUME NEW s \in Selectors, Appears(s) PROVE SiteTyped'
  BY <1>39 DEF Appears, SiteOnly
<1>40. CASE Tick
  BY <1>40 DEF Tick
<1>41. CASE Terminate
  BY <1>41 DEF Terminate
<1>42. CASE Dropped
  BY <1>42, ForgottenTyped DEF Dropped
<1>43. ASSUME NEW k \in Calls, CallStep(k) PROVE SiteTyped'
  BY <1>43 DEF CallStep
<1>44. CASE UNCHANGED allVars
  BY <1>44 DEF allVars
<1>45. CASE LooksForSkip
  BY <1>45 DEF LooksForSkip, Thinking, Ends
<1>46. CASE IsCancelled
  BY <1>46 DEF IsCancelled, Thinking, Ends
<1>47. CASE AfterReady
  BY <1>47 DEF AfterReady, Thinking, Ends, GoesOn
<1>48. QED
  BY <1>1, <1>2, <1>3, <1>4, <1>5, <1>6, <1>7, <1>8, <1>9, <1>10, <1>11, <1>12, <1>13,
     <1>14, <1>15, <1>16, <1>17, <1>18, <1>19, <1>20, <1>21, <1>22, <1>23, <1>24, <1>25,
     <1>26, <1>27, <1>28, <1>29, <1>30, <1>31, <1>32, <1>33, <1>34, <1>35, <1>36, <1>37,
     <1>38, <1>39, <1>40, <1>41, <1>42, <1>43, <1>44, <1>45, <1>46, <1>47
     DEF PageNext, Handler, Setup, Decides, Chrome, PageOver

-------------------------------------------------------------------------------
(* Every step keeps thread, handler and outcome in line.                     *)
LEMMA TaskStep ==
  ASSUME SlotTyped, TaskInv, PageNext \/ UNCHANGED allVars
  PROVE  TaskInv'
<1> USE DEF TaskInv, SlotTyped, Alone, Phases, Composing, Selects, Left, WithTab,
        slotVars, waitVars, pageVars
<1>1. CASE NoProxy
  BY <1>1 DEF NoProxy, Reply, NothingWaited
<1>2. CASE LockTab
  BY <1>2 DEF LockTab, NothingWaited
<1>3. CASE LostIsolation
  BY <1>3 DEF LostIsolation, GiveUp, NothingWaited
<1>4. CASE EnableFetch
  BY <1>4 DEF EnableFetch, Reply, GiveUp, NothingWaited
<1>5. CASE RetryFetch
  BY <1>5 DEF RetryFetch, Reply, GiveUp, NothingWaited
<1>6. CASE Observe
  BY <1>6 DEF Observe, GiveUp
<1>7. ASSUME NEW k \in Calls, CreateTab(k) PROVE TaskInv'
  BY <1>7 DEF CreateTab
<1>8. ASSUME NEW k \in Calls, TabCreated(k) PROVE TaskInv'
  BY <1>8 DEF TabCreated, NothingWaited
<1>9. ASSUME NEW k \in Calls, TabRefused(k) PROVE TaskInv'
  BY <1>9 DEF TabRefused, Reply, NothingWaited
<1>10. ASSUME NEW k \in Calls, TabStalled(k) PROVE TaskInv'
  BY <1>10 DEF TabStalled, GiveUp, NothingWaited
<1>11. CASE InvalidWait
  BY <1>11 DEF InvalidWait, Forgotten
<1>12. ASSUME NEW w \in Wants, StartWait(w) PROVE TaskInv'
  BY <1>12 DEF StartWait
<1>13. CASE WaitReturns
  BY <1>13 DEF WaitReturns
<1>14. CASE NavigationOverrun
  BY <1>14 DEF NavigationOverrun, GiveUp, Forgotten
<1>15. CASE WaitOverrun
  BY <1>15 DEF WaitOverrun, GiveUp, Forgotten
<1>16. CASE ContentOverrun
  BY <1>16 DEF ContentOverrun, GiveUp, Forgotten
<1>17. CASE Cancelled
  BY <1>17 DEF Cancelled, Forgotten
<1>18. CASE EarlyDestroy
  BY <1>18 DEF EarlyDestroy, NothingWaited
<1>19. CASE ReadStatus
  BY <1>19 DEF ReadStatus, NothingWaited
<1>20. CASE Report
  BY <1>20 DEF Report, Forgotten
<1>21. CASE TakeOut
  BY <1>21 DEF TakeOut, NothingWaited
<1>22. CASE WaitOutChallenge
  BY <1>22 DEF WaitOutChallenge, Thinking, Ends, PassesOn
<1>23. CASE AwaitJson
  BY <1>23 DEF AwaitJson, Ends, GoesOn
<1>24. CASE UntilIdle
  BY <1>24 DEF UntilIdle, Thinking, Ends, GoesOn, Verdict
<1>25. CASE ReadyWaitOver
  BY <1>25 DEF ReadyWaitOver, Thinking, GoesOn
<1>26. CASE SearchSelector
  BY <1>26 DEF SearchSelector, Thinking, Ends
<1>27. CASE UntilNavigated
  BY <1>27 DEF UntilNavigated, Thinking, Ends, GoesOn
<1>28. CASE PollForTimeout
  BY <1>28 DEF PollForTimeout, Thinking, Ends, Verdict
<1>29. CASE NavigationReturns
  BY <1>29 DEF NavigationReturns
<1>30. CASE ContentRead
  BY <1>30 DEF ContentRead, Reply, NothingWaited, Forgotten
<1>31. CASE JoinError
  BY <1>31 DEF JoinError, Reply, Forgotten
<1>32. CASE EvaluateFails
  BY <1>32 DEF EvaluateFails, Thinking, Ends
<1>33. CASE Hangs
  BY <1>33 DEF Hangs
<1>34. CASE LoadFires
  BY <1>34 DEF LoadFires, Thinking, GoesOn
<1>35. ASSUME NEW kind \in Kinds, Responds(kind) PROVE TaskInv'
  BY <1>35 DEF Responds, SiteOnly
<1>36. CASE Commits
  BY <1>36 DEF Commits, SiteOnly
<1>37. CASE LoadEnds
  BY <1>37 DEF LoadEnds, SiteOnly
<1>38. CASE GoesIdle
  BY <1>38 DEF GoesIdle, SiteOnly
<1>39. ASSUME NEW s \in Selectors, Appears(s) PROVE TaskInv'
  BY <1>39 DEF Appears, SiteOnly
<1>40. CASE Tick
  BY <1>40 DEF Tick
<1>41. CASE Terminate
  BY <1>41 DEF Terminate
<1>42. CASE Dropped
  BY <1>42 DEF Dropped, Forgotten
<1>43. ASSUME NEW k \in Calls, CallStep(k) PROVE TaskInv'
  BY <1>43 DEF CallStep
<1>44. CASE UNCHANGED allVars
  BY <1>44 DEF allVars
<1>45. CASE LooksForSkip
  BY <1>45 DEF LooksForSkip, Thinking, Ends
<1>46. CASE IsCancelled
  BY <1>46 DEF IsCancelled, Thinking, Ends
<1>47. CASE AfterReady
  BY <1>47 DEF AfterReady, Thinking, Ends, GoesOn, Verdict
<1>48. QED
  BY <1>1, <1>2, <1>3, <1>4, <1>5, <1>6, <1>7, <1>8, <1>9, <1>10, <1>11, <1>12, <1>13,
     <1>14, <1>15, <1>16, <1>17, <1>18, <1>19, <1>20, <1>21, <1>22, <1>23, <1>24, <1>25,
     <1>26, <1>27, <1>28, <1>29, <1>30, <1>31, <1>32, <1>33, <1>34, <1>35, <1>36, <1>37,
     <1>38, <1>39, <1>40, <1>41, <1>42, <1>43, <1>44, <1>45, <1>46, <1>47
     DEF PageNext, Handler, Setup, Decides, Chrome, PageOver

(* Every step keeps the clocks within their limits.                          *)
LEMMA TimeStep ==
  ASSUME SlotTyped, WaitTyped, TaskInv, TimeInv, PageNext \/ UNCHANGED allVars
  PROVE  TimeInv'
<1> USE TickTypes DEF TimeInv, TaskInv, SlotTyped, WaitTyped, Resolved, Alone, Phases,
        Composing, Selects, Left, WithTab, Limit, slotVars, waitVars, pageVars
<1>1. CASE NoProxy
  BY <1>1 DEF NoProxy, Reply, NothingWaited
<1>2. CASE LockTab
  BY <1>2 DEF LockTab, NothingWaited
<1>3. CASE LostIsolation
  BY <1>3 DEF LostIsolation, GiveUp, NothingWaited
<1>4. CASE EnableFetch
  BY <1>4 DEF EnableFetch, Reply, GiveUp, NothingWaited
<1>5. CASE RetryFetch
  BY <1>5 DEF RetryFetch, Reply, GiveUp, NothingWaited
<1>6. CASE Observe
  BY <1>6 DEF Observe, GiveUp
<1>7. ASSUME NEW k \in Calls, CreateTab(k) PROVE TimeInv'
  BY <1>7 DEF CreateTab
<1>8. ASSUME NEW k \in Calls, TabCreated(k) PROVE TimeInv'
  BY <1>8 DEF TabCreated, NothingWaited
<1>9. ASSUME NEW k \in Calls, TabRefused(k) PROVE TimeInv'
  BY <1>9 DEF TabRefused, Reply, NothingWaited
<1>10. ASSUME NEW k \in Calls, TabStalled(k) PROVE TimeInv'
  BY <1>10 DEF TabStalled, GiveUp, NothingWaited
<1>11. CASE InvalidWait
  BY <1>11 DEF InvalidWait, Forgotten
<1>12. ASSUME NEW w \in Wants, StartWait(w) PROVE TimeInv'
  <2>1. want'.timeout \in 1..Budget
    BY <1>12, TickTypes DEF StartWait, Wants
  <2>2. clock = 0 /\ clock' = 0 /\ mark = 0 /\ mark' = 0 /\ at' = "waiting"
    BY <1>12 DEF StartWait
  <2>3. 0 <= want'.timeout + Margin
    BY <2>1
  <2>4. QED
    BY <2>2, <2>3
<1>13. CASE WaitReturns
  BY <1>13 DEF WaitReturns
<1>14. CASE NavigationOverrun
  BY <1>14 DEF NavigationOverrun, GiveUp, Forgotten
<1>15. CASE WaitOverrun
  BY <1>15 DEF WaitOverrun, GiveUp, Forgotten
<1>16. CASE ContentOverrun
  BY <1>16 DEF ContentOverrun, GiveUp, Forgotten
<1>17. CASE Cancelled
  BY <1>17 DEF Cancelled, Forgotten
<1>18. CASE EarlyDestroy
  BY <1>18 DEF EarlyDestroy, NothingWaited
<1>19. CASE ReadStatus
  BY <1>19 DEF ReadStatus, NothingWaited
<1>20. CASE Report
  BY <1>20 DEF Report, Forgotten
<1>21. CASE TakeOut
  BY <1>21 DEF TakeOut, NothingWaited
<1>22. CASE WaitOutChallenge
  BY <1>22 DEF WaitOutChallenge, Thinking, Ends, PassesOn
<1>23. CASE AwaitJson
  BY <1>23 DEF AwaitJson, Ends, GoesOn
<1>24. CASE UntilIdle
  BY <1>24 DEF UntilIdle, Thinking, Ends, GoesOn
<1>25. CASE ReadyWaitOver
  BY <1>25 DEF ReadyWaitOver, Thinking, GoesOn
<1>26. CASE SearchSelector
  BY <1>26 DEF SearchSelector, Thinking, Ends
<1>27. CASE UntilNavigated
  BY <1>27 DEF UntilNavigated, Thinking, Ends, GoesOn
<1>28. CASE PollForTimeout
  BY <1>28 DEF PollForTimeout, Thinking, Ends
<1>29. CASE NavigationReturns
  BY <1>29 DEF NavigationReturns
<1>30. CASE ContentRead
  BY <1>30 DEF ContentRead, Reply, NothingWaited, Forgotten
<1>31. CASE JoinError
  BY <1>31 DEF JoinError, Reply, Forgotten
<1>32. CASE EvaluateFails
  BY <1>32 DEF EvaluateFails, Thinking, Ends
<1>33. CASE Hangs
  BY <1>33 DEF Hangs
<1>34. CASE LoadFires
  BY <1>34 DEF LoadFires, Thinking, GoesOn
<1>35. ASSUME NEW kind \in Kinds, Responds(kind) PROVE TimeInv'
  BY <1>35 DEF Responds, SiteOnly
<1>36. CASE Commits
  BY <1>36 DEF Commits, SiteOnly
<1>37. CASE LoadEnds
  BY <1>37 DEF LoadEnds, SiteOnly
<1>38. CASE GoesIdle
  BY <1>38 DEF GoesIdle, SiteOnly
<1>39. ASSUME NEW s \in Selectors, Appears(s) PROVE TimeInv'
  BY <1>39 DEF Appears, SiteOnly
<1>40. CASE Tick
  BY <1>40 DEF Tick
<1>41. CASE Terminate
  BY <1>41 DEF Terminate
<1>42. CASE Dropped
  BY <1>42 DEF Dropped, Forgotten
<1>43. ASSUME NEW k \in Calls, CallStep(k) PROVE TimeInv'
  BY <1>43 DEF CallStep
<1>44. CASE UNCHANGED allVars
  BY <1>44 DEF allVars
<1>45. CASE LooksForSkip
  BY <1>45 DEF LooksForSkip, Thinking, Ends
<1>46. CASE IsCancelled
  BY <1>46 DEF IsCancelled, Thinking, Ends
<1>47. CASE AfterReady
  BY <1>47 DEF AfterReady, Thinking, Ends, GoesOn
<1>48. QED
  BY <1>1, <1>2, <1>3, <1>4, <1>5, <1>6, <1>7, <1>8, <1>9, <1>10, <1>11, <1>12, <1>13,
     <1>14, <1>15, <1>16, <1>17, <1>18, <1>19, <1>20, <1>21, <1>22, <1>23, <1>24, <1>25,
     <1>26, <1>27, <1>28, <1>29, <1>30, <1>31, <1>32, <1>33, <1>34, <1>35, <1>36, <1>37,
     <1>38, <1>39, <1>40, <1>41, <1>42, <1>43, <1>44, <1>45, <1>46, <1>47
     DEF PageNext, Handler, Setup, Decides, Chrome, PageOver

(* Every step keeps what is known of the document in the frame.              *)
LEMMA DomStep ==
  ASSUME SlotTyped, SiteTyped, TaskInv, DomInv, PageNext \/ UNCHANGED allVars
  PROVE  DomInv'
<1> USE DEF DomInv, SlotTyped, SiteTyped, Alone, Phases, Composing, Selects, Left,
        WithTab, slotVars, waitVars, siteVars, pageVars
<1>1. CASE NoProxy
  BY <1>1 DEF NoProxy, Reply, NothingWaited
<1>2. CASE LockTab
  BY <1>2 DEF LockTab, NothingWaited
<1>3. CASE LostIsolation
  BY <1>3 DEF LostIsolation, GiveUp, NothingWaited
<1>4. CASE EnableFetch
  BY <1>4 DEF EnableFetch, Reply, GiveUp, NothingWaited
<1>5. CASE RetryFetch
  BY <1>5 DEF RetryFetch, Reply, GiveUp, NothingWaited
<1>6. CASE Observe
  BY <1>6 DEF Observe, GiveUp
<1>7. ASSUME NEW k \in Calls, CreateTab(k) PROVE DomInv'
  BY <1>7 DEF CreateTab
<1>8. ASSUME NEW k \in Calls, TabCreated(k) PROVE DomInv'
  BY <1>8 DEF TabCreated, NothingWaited
<1>9. ASSUME NEW k \in Calls, TabRefused(k) PROVE DomInv'
  BY <1>9 DEF TabRefused, Reply, NothingWaited
<1>10. ASSUME NEW k \in Calls, TabStalled(k) PROVE DomInv'
  BY <1>10 DEF TabStalled, GiveUp, NothingWaited
<1>11. CASE InvalidWait
  BY <1>11 DEF InvalidWait, Forgotten
<1>12. ASSUME NEW w \in Wants, StartWait(w) PROVE DomInv'
  BY <1>12 DEF StartWait
<1>13. CASE WaitReturns
  BY <1>13 DEF WaitReturns
<1>14. CASE NavigationOverrun
  BY <1>14 DEF NavigationOverrun, GiveUp, Forgotten
<1>15. CASE WaitOverrun
  BY <1>15 DEF WaitOverrun, GiveUp, Forgotten
<1>16. CASE ContentOverrun
  BY <1>16 DEF ContentOverrun, GiveUp, Forgotten
<1>17. CASE Cancelled
  BY <1>17 DEF Cancelled, Forgotten
<1>18. CASE EarlyDestroy
  BY <1>18 DEF EarlyDestroy, NothingWaited
<1>19. CASE ReadStatus
  BY <1>19 DEF ReadStatus, NothingWaited
<1>20. CASE Report
  BY <1>20 DEF Report, Forgotten
<1>21. CASE TakeOut
  BY <1>21 DEF TakeOut, NothingWaited
<1>22. CASE WaitOutChallenge
  BY <1>22 DEF WaitOutChallenge, Thinking, Ends, PassesOn
<1>23. CASE AwaitJson
  BY <1>23 DEF AwaitJson, Ends, GoesOn
<1>24. CASE UntilIdle
  BY <1>24 DEF UntilIdle, Thinking, Ends, GoesOn
<1>25. CASE ReadyWaitOver
  BY <1>25 DEF ReadyWaitOver, Thinking, GoesOn
<1>26. CASE SearchSelector
  BY <1>26 DEF SearchSelector, Thinking, Ends
<1>27. CASE UntilNavigated
  BY <1>27 DEF UntilNavigated, Thinking, Ends, GoesOn
<1>28. CASE PollForTimeout
  BY <1>28 DEF PollForTimeout, Thinking, Ends
<1>29. CASE NavigationReturns
  BY <1>29 DEF NavigationReturns
<1>30. CASE ContentRead
  BY <1>30 DEF ContentRead, Reply, NothingWaited, Forgotten
<1>31. CASE JoinError
  BY <1>31 DEF JoinError, Reply, Forgotten
<1>32. CASE EvaluateFails
  BY <1>32 DEF EvaluateFails, Thinking, Ends
<1>33. CASE Hangs
  BY <1>33 DEF Hangs
<1>34. CASE LoadFires
  BY <1>34 DEF LoadFires, Thinking, GoesOn
<1>35. ASSUME NEW kind \in Kinds, Responds(kind) PROVE DomInv'
  BY <1>35 DEF Responds, SiteOnly
<1>36. CASE Commits
  BY <1>36 DEF Commits, SiteOnly
<1>37. CASE LoadEnds
  BY <1>37 DEF LoadEnds, SiteOnly
<1>38. CASE GoesIdle
  BY <1>38 DEF GoesIdle, SiteOnly
<1>39. ASSUME NEW s \in Selectors, Appears(s) PROVE DomInv'
  BY <1>39 DEF Appears, SiteOnly
<1>40. CASE Tick
  BY <1>40 DEF Tick
<1>41. CASE Terminate
  BY <1>41 DEF Terminate
<1>42. CASE Dropped
  BY <1>42 DEF Dropped, Forgotten
<1>43. ASSUME NEW k \in Calls, CallStep(k) PROVE DomInv'
  BY <1>43 DEF CallStep
<1>44. CASE UNCHANGED allVars
  BY <1>44 DEF allVars
<1>45. CASE LooksForSkip
  BY <1>45 DEF LooksForSkip, Thinking, Ends, There, Asked
<1>46. CASE IsCancelled
  BY <1>46 DEF IsCancelled, Thinking, Ends
<1>47. CASE AfterReady
  BY <1>47 DEF AfterReady, Thinking, Ends, GoesOn
<1>48. QED
  BY <1>1, <1>2, <1>3, <1>4, <1>5, <1>6, <1>7, <1>8, <1>9, <1>10, <1>11, <1>12, <1>13,
     <1>14, <1>15, <1>16, <1>17, <1>18, <1>19, <1>20, <1>21, <1>22, <1>23, <1>24, <1>25,
     <1>26, <1>27, <1>28, <1>29, <1>30, <1>31, <1>32, <1>33, <1>34, <1>35, <1>36, <1>37,
     <1>38, <1>39, <1>40, <1>41, <1>42, <1>43, <1>44, <1>45, <1>46, <1>47
     DEF PageNext, Handler, Setup, Decides, Chrome, PageOver

(* Every step keeps the name of a context and the context together.          *)
LEMMA NameStep ==
  ASSUME SlotTyped, TaskInv, NameInv, PageNext \/ UNCHANGED allVars
  PROVE  NameInv'
<1> USE DEF NameInv, SlotTyped, Addressable, Alone, Composing, Selects, Left,
        WithTab, slotVars, pageVars
<1>1. CASE NoProxy
  BY <1>1 DEF NoProxy, Reply, NothingWaited
<1>2. CASE LockTab
  BY <1>2 DEF LockTab, NothingWaited
<1>3. CASE LostIsolation
  BY <1>3 DEF LostIsolation, GiveUp, NothingWaited
<1>4. CASE EnableFetch
  <2>1. CASE at' \in {"observe", "recreate"} /\ UNCHANGED <<slotVars, answer>>
    BY <1>4, <2>1 DEF EnableFetch, NothingWaited
  <2>2. CASE Reply("BROWSER_ERROR")
    BY <1>4, <2>2 DEF EnableFetch, Reply, NothingWaited
  <2>3. CASE GiveUp("BROWSER_ERROR")
    BY <1>4, <2>3 DEF EnableFetch, GiveUp, NothingWaited
  <2>4. QED
    BY <1>4, <2>1, <2>2, <2>3 DEF EnableFetch
<1>5. CASE RetryFetch
  <2>1. CASE at' = "observe" /\ UNCHANGED <<slotVars, answer>>
    BY <1>5, <2>1 DEF RetryFetch, NothingWaited
  <2>2. CASE Reply("BROWSER_ERROR")
    BY <1>5, <2>2 DEF RetryFetch, Reply, NothingWaited
  <2>3. CASE GiveUp("BROWSER_ERROR")
    BY <1>5, <2>3 DEF RetryFetch, GiveUp, NothingWaited
  <2>4. QED
    BY <1>5, <2>1, <2>2, <2>3 DEF RetryFetch
<1>6. CASE Observe
  <2>1. CASE at' = "navigating" /\ UNCHANGED <<slotVars, answer>>
    BY <1>6, <2>1 DEF Observe
  <2>2. CASE GiveUp("BROWSER_ERROR")
    BY <1>6, <2>2 DEF Observe, GiveUp
  <2>3. QED
    BY <1>6, <2>1, <2>2 DEF Observe
<1>7. ASSUME NEW k \in Calls, CreateTab(k) PROVE NameInv'
  BY <1>7 DEF CreateTab
<1>8. ASSUME NEW k \in Calls, TabCreated(k) PROVE NameInv'
  BY <1>8 DEF TabCreated, NothingWaited
<1>9. ASSUME NEW k \in Calls, TabRefused(k) PROVE NameInv'
  BY <1>9 DEF TabRefused, Reply, NothingWaited
<1>10. ASSUME NEW k \in Calls, TabStalled(k) PROVE NameInv'
  BY <1>10 DEF TabStalled, GiveUp, NothingWaited
<1>11. CASE InvalidWait
  BY <1>11 DEF InvalidWait, Forgotten
<1>12. ASSUME NEW w \in Wants, StartWait(w) PROVE NameInv'
  BY <1>12 DEF StartWait
<1>13. CASE WaitReturns
  BY <1>13 DEF WaitReturns
<1>14. CASE NavigationOverrun
  BY <1>14 DEF NavigationOverrun, GiveUp, Forgotten
<1>15. CASE WaitOverrun
  BY <1>15 DEF WaitOverrun, GiveUp, Forgotten
<1>16. CASE ContentOverrun
  BY <1>16 DEF ContentOverrun, GiveUp, Forgotten
<1>17. CASE Cancelled
  BY <1>17 DEF Cancelled, Forgotten
<1>18. CASE EarlyDestroy
  BY <1>18 DEF EarlyDestroy, NothingWaited
<1>19. CASE ReadStatus
  BY <1>19 DEF ReadStatus, NothingWaited
<1>20. CASE Report
  BY <1>20 DEF Report, Forgotten
<1>21. CASE TakeOut
  BY <1>21 DEF TakeOut, NothingWaited
<1>22. CASE WaitOutChallenge
  BY <1>22 DEF WaitOutChallenge, Thinking, Ends, PassesOn
<1>23. CASE AwaitJson
  BY <1>23 DEF AwaitJson, Ends, GoesOn
<1>24. CASE UntilIdle
  BY <1>24 DEF UntilIdle, Thinking, Ends, GoesOn
<1>25. CASE ReadyWaitOver
  BY <1>25 DEF ReadyWaitOver, Thinking, GoesOn
<1>26. CASE SearchSelector
  BY <1>26 DEF SearchSelector, Thinking, Ends
<1>27. CASE UntilNavigated
  BY <1>27 DEF UntilNavigated, Thinking, Ends, GoesOn
<1>28. CASE PollForTimeout
  BY <1>28 DEF PollForTimeout, Thinking, Ends
<1>29. CASE NavigationReturns
  BY <1>29 DEF NavigationReturns
<1>30. CASE ContentRead
  <2>1. CASE at' = "finish" /\ UNCHANGED <<mode, pooled, answer>>
    BY <1>30, <2>1 DEF ContentRead
  <2>2. CASE Reply("BROWSER_ERROR") /\ UNCHANGED mode
    BY <1>30, <2>2 DEF ContentRead, Reply
  <2>3. QED
    BY <1>30, <2>1, <2>2 DEF ContentRead, NothingWaited, Forgotten
<1>31. CASE JoinError
  BY <1>31 DEF JoinError, Reply, Forgotten
<1>32. CASE EvaluateFails
  BY <1>32 DEF EvaluateFails, Thinking, Ends
<1>33. CASE Hangs
  BY <1>33 DEF Hangs
<1>34. CASE LoadFires
  BY <1>34 DEF LoadFires, Thinking, GoesOn
<1>35. ASSUME NEW kind \in Kinds, Responds(kind) PROVE NameInv'
  BY <1>35 DEF Responds, SiteOnly
<1>36. CASE Commits
  BY <1>36 DEF Commits, SiteOnly
<1>37. CASE LoadEnds
  BY <1>37 DEF LoadEnds, SiteOnly
<1>38. CASE GoesIdle
  BY <1>38 DEF GoesIdle, SiteOnly
<1>39. ASSUME NEW s \in Selectors, Appears(s) PROVE NameInv'
  BY <1>39 DEF Appears, SiteOnly
<1>40. CASE Tick
  BY <1>40 DEF Tick
<1>41. CASE Terminate
  BY <1>41 DEF Terminate
<1>42. CASE Dropped
  BY <1>42 DEF Dropped, Forgotten
<1>43. ASSUME NEW k \in Calls, CallStep(k) PROVE NameInv'
  BY <1>43 DEF CallStep
<1>44. CASE UNCHANGED allVars
  BY <1>44 DEF allVars
<1>45. CASE LooksForSkip
  BY <1>45 DEF LooksForSkip, Thinking, Ends
<1>46. CASE IsCancelled
  BY <1>46 DEF IsCancelled, Thinking, Ends
<1>47. CASE AfterReady
  BY <1>47 DEF AfterReady, Thinking, Ends, GoesOn
<1>48. QED
  BY <1>1, <1>2, <1>3, <1>4, <1>5, <1>6, <1>7, <1>8, <1>9, <1>10, <1>11, <1>12, <1>13,
     <1>14, <1>15, <1>16, <1>17, <1>18, <1>19, <1>20, <1>21, <1>22, <1>23, <1>24, <1>25,
     <1>26, <1>27, <1>28, <1>29, <1>30, <1>31, <1>32, <1>33, <1>34, <1>35, <1>36, <1>37,
     <1>38, <1>39, <1>40, <1>41, <1>42, <1>43, <1>44, <1>45, <1>46, <1>47
     DEF PageNext, Handler, Setup, Decides, Chrome, PageOver

(* Every step takes the tab lock or drops it where the handler moves on.     *)
LEMMA LockStep ==
  ASSUME SlotTyped, LockInv, PageNext \/ UNCHANGED allVars
  PROVE  LockInv'
<1> USE DEF LockInv, SlotTyped, Alone, Composing, Selects, Left, WithTab, slotVars, pageVars
<1>1. CASE NoProxy
  BY <1>1 DEF NoProxy, Reply, NothingWaited
<1>2. CASE LockTab
  BY <1>2 DEF LockTab, NothingWaited
<1>3. CASE LostIsolation
  BY <1>3 DEF LostIsolation, GiveUp, NothingWaited
<1>4. CASE EnableFetch
  BY <1>4 DEF EnableFetch, Reply, GiveUp, NothingWaited
<1>5. CASE RetryFetch
  BY <1>5 DEF RetryFetch, Reply, GiveUp, NothingWaited
<1>6. CASE Observe
  BY <1>6 DEF Observe, GiveUp
<1>7. ASSUME NEW k \in Calls, CreateTab(k) PROVE LockInv'
  BY <1>7 DEF CreateTab
<1>8. ASSUME NEW k \in Calls, TabCreated(k) PROVE LockInv'
  BY <1>8 DEF TabCreated, NothingWaited
<1>9. ASSUME NEW k \in Calls, TabRefused(k) PROVE LockInv'
  BY <1>9 DEF TabRefused, Reply, NothingWaited
<1>10. ASSUME NEW k \in Calls, TabStalled(k) PROVE LockInv'
  BY <1>10 DEF TabStalled, GiveUp, NothingWaited
<1>11. CASE InvalidWait
  BY <1>11 DEF InvalidWait, Forgotten
<1>12. ASSUME NEW w \in Wants, StartWait(w) PROVE LockInv'
  BY <1>12 DEF StartWait
<1>13. CASE WaitReturns
  BY <1>13 DEF WaitReturns
<1>14. CASE NavigationOverrun
  BY <1>14 DEF NavigationOverrun, GiveUp, Forgotten
<1>15. CASE WaitOverrun
  BY <1>15 DEF WaitOverrun, GiveUp, Forgotten
<1>16. CASE ContentOverrun
  BY <1>16 DEF ContentOverrun, GiveUp, Forgotten
<1>17. CASE Cancelled
  BY <1>17 DEF Cancelled, Forgotten
<1>18. CASE EarlyDestroy
  BY <1>18 DEF EarlyDestroy, NothingWaited
<1>19. CASE ReadStatus
  BY <1>19 DEF ReadStatus, NothingWaited
<1>20. CASE Report
  BY <1>20 DEF Report, Forgotten
<1>21. CASE TakeOut
  BY <1>21 DEF TakeOut, NothingWaited
<1>22. CASE WaitOutChallenge
  BY <1>22 DEF WaitOutChallenge, Thinking, Ends, PassesOn
<1>23. CASE AwaitJson
  BY <1>23 DEF AwaitJson, Ends, GoesOn
<1>24. CASE UntilIdle
  BY <1>24 DEF UntilIdle, Thinking, Ends, GoesOn
<1>25. CASE ReadyWaitOver
  BY <1>25 DEF ReadyWaitOver, Thinking, GoesOn
<1>26. CASE SearchSelector
  BY <1>26 DEF SearchSelector, Thinking, Ends
<1>27. CASE UntilNavigated
  BY <1>27 DEF UntilNavigated, Thinking, Ends, GoesOn
<1>28. CASE PollForTimeout
  BY <1>28 DEF PollForTimeout, Thinking, Ends
<1>29. CASE NavigationReturns
  BY <1>29 DEF NavigationReturns
<1>30. CASE ContentRead
  BY <1>30 DEF ContentRead, Reply, NothingWaited, Forgotten
<1>31. CASE JoinError
  BY <1>31 DEF JoinError, Reply, Forgotten
<1>32. CASE EvaluateFails
  BY <1>32 DEF EvaluateFails, Thinking, Ends
<1>33. CASE Hangs
  BY <1>33 DEF Hangs
<1>34. CASE LoadFires
  BY <1>34 DEF LoadFires, Thinking, GoesOn
<1>35. ASSUME NEW kind \in Kinds, Responds(kind) PROVE LockInv'
  BY <1>35 DEF Responds, SiteOnly
<1>36. CASE Commits
  BY <1>36 DEF Commits, SiteOnly
<1>37. CASE LoadEnds
  BY <1>37 DEF LoadEnds, SiteOnly
<1>38. CASE GoesIdle
  BY <1>38 DEF GoesIdle, SiteOnly
<1>39. ASSUME NEW s \in Selectors, Appears(s) PROVE LockInv'
  BY <1>39 DEF Appears, SiteOnly
<1>40. CASE Tick
  BY <1>40 DEF Tick
<1>41. CASE Terminate
  BY <1>41 DEF Terminate
<1>42. CASE Dropped
  BY <1>42 DEF Dropped, Forgotten
<1>43. ASSUME NEW k \in Calls, CallStep(k) PROVE LockInv'
  BY <1>43 DEF CallStep
<1>44. CASE UNCHANGED allVars
  BY <1>44 DEF allVars
<1>45. CASE LooksForSkip
  BY <1>45 DEF LooksForSkip, Thinking, Ends
<1>46. CASE IsCancelled
  BY <1>46 DEF IsCancelled, Thinking, Ends
<1>47. CASE AfterReady
  BY <1>47 DEF AfterReady, Thinking, Ends, GoesOn
<1>48. QED
  BY <1>1, <1>2, <1>3, <1>4, <1>5, <1>6, <1>7, <1>8, <1>9, <1>10, <1>11, <1>12, <1>13,
     <1>14, <1>15, <1>16, <1>17, <1>18, <1>19, <1>20, <1>21, <1>22, <1>23, <1>24, <1>25,
     <1>26, <1>27, <1>28, <1>29, <1>30, <1>31, <1>32, <1>33, <1>34, <1>35, <1>36, <1>37,
     <1>38, <1>39, <1>40, <1>41, <1>42, <1>43, <1>44, <1>45, <1>46, <1>47
     DEF PageNext, Handler, Setup, Decides, Chrome, PageOver

-------------------------------------------------------------------------------
(* The inductive invariant of a page request.                                *)
PageInv == PageTypeOK /\ TaskInv /\ TimeInv /\ DomInv /\ NameInv /\ LockInv

LEMMA PageInitInv == PageInit => PageInv
<1> SUFFICES ASSUME PageInit PROVE PageInv
  OBVIOUS
<1> USE DEF PageInit
<1>1. SlotTyped
  <2>1. patience \in 1..Budget \cup {Patience}
    BY TickTypes
  <2>2. NoAnswer \in [code : AnswerCodes, names : BOOLEAN]
    BY DEF NoAnswer, AnswerCodes
  <2>3. QED
    BY <2>1, <2>2 DEF SlotTyped
<1>2. WaitTyped
  <2>1. NoWant \in Resolved
    BY TickTypes DEF NoWant, Resolved
  <2>2. QED
    BY <2>1, TickTypes DEF WaitTyped
<1>3. SiteTyped
  <2>1. <<>> \in Seq(Kinds) /\ Len(<<>>) = 0 /\ 0 <= MaxDocs /\ 0 \in 0..0
    BY TickTypes
  <2>2. QED
    BY <2>1 DEF SiteTyped
<1>4. TaskInv /\ TimeInv /\ DomInv /\ LockInv
  BY DEF TaskInv, TimeInv, DomInv, LockInv, Alone, Phases, Composing, Selects, Left
<1>5. NameInv
  BY DEF NameInv, NoAnswer
<1>6. QED
  BY <1>1, <1>2, <1>3, <1>4, <1>5, Parts DEF PageInv

LEMMA PageNextInv == PageInv /\ [PageNext]_allVars => PageInv'
<1> SUFFICES ASSUME PageInv, PageNext \/ UNCHANGED allVars PROVE PageInv'
  OBVIOUS
<1>1. SlotTyped /\ WaitTyped /\ SiteTyped /\ TaskInv /\ TimeInv /\ DomInv /\ NameInv /\ LockInv
  BY Parts DEF PageInv
<1>2. SlotTyped'
  BY <1>1, SlotStep
<1>3. WaitTyped'
  BY <1>1, WaitStep
<1>4. SiteTyped'
  BY <1>1, SiteStep
<1>5. PageTypeOK'
  <2>1. (SlotTyped /\ WaitTyped /\ SiteTyped => PageTypeOK)'
    BY Parts, PTL
  <2>2. QED
    BY <1>2, <1>3, <1>4, <2>1
<1>6. TaskInv' /\ TimeInv'
  BY <1>1, TaskStep, TimeStep
<1>7. DomInv' /\ NameInv' /\ LockInv'
  BY <1>1, DomStep, NameStep, LockStep
<1>8. QED
  BY <1>5, <1>6, <1>7 DEF PageInv

LEMMA PageInductive == PageSpec => []PageInv
BY PageInitInv, PageNextInv, PTL DEF PageSpec

(* Every variable keeps its type, and every answer has a code of the         *)
(* protocol: whatever ended the wait, there is one to report.                *)
THEOREM PageTyping == PageSpec => []PageTypeOK
<1>1. PageInv => PageTypeOK
  BY DEF PageInv
<1>2. QED
  BY <1>1, PageInductive, PTL

(* An answer names its context only if that is still in the pool, for every  *)
(* way the request can end (scrape_page_internal, addressable_context_id).   *)
THEOREM NamedIsThere == PageSpec => []NamedContextExists
<1>1. PageInv => NamedContextExists
  BY DEF PageInv, NameInv, NamedContextExists
<1>2. QED
  BY <1>1, PageInductive, PTL

(* destroy_context takes the context's tab lock: wherever a request destroys *)
(* its context it has dropped that lock, so it never waits for itself.       *)
THEOREM NeverWaitsForItself == PageSpec => [](at \in {"discard", "finish"} \cup Left => ~locked)
<1>1. PageInv => (at \in {"discard", "finish"} \cup Left => ~locked)
  BY DEF PageInv, LockInv, Alone, Selects, Left
<1>2. QED
  BY <1>1, PageInductive, PTL

(* No select outlasts its hard timeout: the wait takes what the client asked *)
(* for and the margin, the navigation and the content their own bound.       *)
THEOREM NoSelectOutlasts == PageSpec => [](at \in Selects => clock <= Limit)
<1>1. PageInv => (at \in Selects => clock <= Limit)
  BY DEF PageInv, TimeInv
<1>2. QED
  BY <1>1, PageInductive, PTL

(* Each step of the wait looks at the skip selector first.                   *)
LEMMA SkipStep ==
  ASSUME PageNext, at = "waiting", ending = "none", ending' \in {"success", "notFound"},
         There("skip"), WaitTyped, DomInv
  PROVE  look = "late" \/ task = "json"
<1> DEFINE Excused == look = "late" \/ task = "json"
<1> USE DEF Selects, WithTab, WaitTyped, DomInv, waitVars, pageVars
<1>1. CASE NoProxy
  BY <1>1 DEF NoProxy, Reply, NothingWaited
<1>2. CASE LockTab
  BY <1>2 DEF LockTab, NothingWaited
<1>3. CASE LostIsolation
  BY <1>3 DEF LostIsolation, GiveUp, NothingWaited
<1>4. CASE EnableFetch
  BY <1>4 DEF EnableFetch, Reply, GiveUp, NothingWaited
<1>5. CASE RetryFetch
  BY <1>5 DEF RetryFetch, Reply, GiveUp, NothingWaited
<1>6. CASE Observe
  BY <1>6 DEF Observe, GiveUp
<1>7. ASSUME NEW k \in Calls, CreateTab(k) PROVE Excused
  BY <1>7 DEF CreateTab
<1>8. ASSUME NEW k \in Calls, TabCreated(k) PROVE Excused
  BY <1>8 DEF TabCreated, NothingWaited
<1>9. ASSUME NEW k \in Calls, TabRefused(k) PROVE Excused
  BY <1>9 DEF TabRefused, Reply, NothingWaited
<1>10. ASSUME NEW k \in Calls, TabStalled(k) PROVE Excused
  BY <1>10 DEF TabStalled, GiveUp, NothingWaited
<1>11. CASE InvalidWait
  BY <1>11 DEF InvalidWait, Forgotten
<1>12. ASSUME NEW w \in Wants, StartWait(w) PROVE Excused
  BY <1>12 DEF StartWait
<1>13. CASE WaitReturns
  BY <1>13 DEF WaitReturns
<1>14. CASE NavigationOverrun
  BY <1>14 DEF NavigationOverrun, GiveUp, Forgotten
<1>15. CASE WaitOverrun
  BY <1>15 DEF WaitOverrun, GiveUp, Forgotten
<1>16. CASE ContentOverrun
  BY <1>16 DEF ContentOverrun, GiveUp, Forgotten
<1>17. CASE Cancelled
  BY <1>17 DEF Cancelled, Forgotten
<1>18. CASE EarlyDestroy
  BY <1>18 DEF EarlyDestroy, NothingWaited
<1>19. CASE ReadStatus
  BY <1>19 DEF ReadStatus, NothingWaited
<1>20. CASE Report
  BY <1>20 DEF Report, Forgotten
<1>21. CASE TakeOut
  BY <1>21 DEF TakeOut, NothingWaited
<1>22. CASE WaitOutChallenge
  BY <1>22 DEF WaitOutChallenge, Thinking, Ends, PassesOn
<1>23. CASE AwaitJson
  BY <1>23 DEF AwaitJson, Ends, GoesOn
<1>24. CASE UntilIdle
  BY <1>24 DEF UntilIdle, Thinking, Ends, GoesOn, Looked, There, Asked
<1>25. CASE ReadyWaitOver
  BY <1>25 DEF ReadyWaitOver, Thinking, GoesOn
<1>26. CASE SearchSelector
  BY <1>26 DEF SearchSelector, Thinking, Ends, Looked, There, Asked
<1>27. CASE UntilNavigated
  BY <1>27 DEF UntilNavigated, Thinking, Ends, GoesOn
<1>28. CASE PollForTimeout
  BY <1>28 DEF PollForTimeout, Thinking, Ends, Looked, There, Asked
<1>29. CASE NavigationReturns
  BY <1>29 DEF NavigationReturns
<1>30. CASE ContentRead
  BY <1>30 DEF ContentRead, Reply, NothingWaited, Forgotten
<1>31. CASE JoinError
  BY <1>31 DEF JoinError, Reply, Forgotten
<1>32. CASE EvaluateFails
  BY <1>32 DEF EvaluateFails, Thinking, Ends
<1>33. CASE Hangs
  BY <1>33 DEF Hangs
<1>34. CASE LoadFires
  BY <1>34 DEF LoadFires, Thinking, GoesOn
<1>35. ASSUME NEW kind \in Kinds, Responds(kind) PROVE Excused
  BY <1>35 DEF Responds, SiteOnly
<1>36. CASE Commits
  BY <1>36 DEF Commits, SiteOnly
<1>37. CASE LoadEnds
  BY <1>37 DEF LoadEnds, SiteOnly
<1>38. CASE GoesIdle
  BY <1>38 DEF GoesIdle, SiteOnly
<1>39. ASSUME NEW s \in Selectors, Appears(s) PROVE Excused
  BY <1>39 DEF Appears, SiteOnly
<1>40. CASE Tick
  BY <1>40 DEF Tick
<1>41. CASE Terminate
  BY <1>41 DEF Terminate
<1>42. CASE Dropped
  BY <1>42 DEF Dropped, Forgotten
<1>43. ASSUME NEW k \in Calls, CallStep(k) PROVE Excused
  BY <1>43 DEF CallStep
<1>44. CASE LooksForSkip
  BY <1>44 DEF LooksForSkip, Thinking, Ends, There, Asked
<1>45. CASE IsCancelled
  BY <1>45 DEF IsCancelled, Thinking, Ends
<1>46. CASE AfterReady
  BY <1>46 DEF AfterReady, Thinking, Ends, GoesOn, Looked, There, Asked
<1>47. QED
  BY <1>1, <1>2, <1>3, <1>4, <1>5, <1>6, <1>7, <1>8, <1>9, <1>10, <1>11, <1>12, <1>13,
     <1>14, <1>15, <1>16, <1>17, <1>18, <1>19, <1>20, <1>21, <1>22, <1>23, <1>24, <1>25,
     <1>26, <1>27, <1>28, <1>29, <1>30, <1>31, <1>32, <1>33, <1>34, <1>35, <1>36, <1>37,
     <1>38, <1>39, <1>40, <1>41, <1>42, <1>43, <1>44, <1>45, <1>46
     DEF PageNext, Handler, Setup, Decides, Chrome, PageOver, allVars

(* Whichever phase a skip selector appeared in, a wait that succeeds or      *)
(* misses its own selector with it in the page had looked before it came, in *)
(* that very iteration; a JSON body ends the wait before any look.           *)
THEOREM SkipIsSeen == PageSpec => SkipNotOverlooked
<1> DEFINE Seen == at = "waiting" /\ ending = "none" /\ ending' \in {"success", "notFound"}
                     /\ There("skip") => look = "late" \/ task = "json"
<1>1. PageInv => WaitTyped /\ DomInv
  BY Parts DEF PageInv
<1>2. PageInv /\ [PageNext]_allVars => [Seen]_allVars
  BY <1>1, SkipStep
<1> HIDE DEF Seen
<1>3. QED
  BY <1>2, PageInductive, PTL DEF PageSpec, SkipNotOverlooked, Seen

-------------------------------------------------------------------------------
(* The bounded calls of the request.                                         *)

(* A step of the request is one of BoundedCall's, or leaves the calls alone, *)
(* or forgets a call that has ended.                                         *)
LEMMA CallSteps ==
  PageNext \/ UNCHANGED allVars => [Next]_vars \/ \E k \in Calls : TabCreated(k)
<1> SUFFICES ASSUME PageNext \/ UNCHANGED allVars, \A k \in Calls : ~TabCreated(k)
             PROVE  [Next]_vars
  OBVIOUS
<1>1. ASSUME NEW k \in Calls, CreateTab(k) PROVE [Next]_vars
  BY <1>1 DEF CreateTab, Next
<1>2. ASSUME NEW k \in Calls, CallStep(k) PROVE [Next]_vars
  BY <1>2 DEF CallStep, Next
<1>3. CASE Dropped
  BY <1>3 DEF Dropped, Next
<1>4. QED
  BY <1>1, <1>2, <1>3 DEF PageNext, Handler, Setup, Decides, Chrome, PageOver, NoProxy,
     LockTab, LostIsolation, EnableFetch, RetryFetch, Observe, TabRefused,
     TabStalled, InvalidWait, StartWait, WaitReturns, NavigationOverrun, WaitOverrun,
     ContentOverrun, Cancelled, EarlyDestroy, ReadStatus, Report, TakeOut, WaitOutChallenge,
     AwaitJson, LooksForSkip, IsCancelled, UntilIdle, ReadyWaitOver, AfterReady, SearchSelector,
     UntilNavigated, PollForTimeout, NavigationReturns, ContentRead, JoinError,
     EvaluateFails, Hangs, LoadFires, Responds,
     Commits, LoadEnds, GoesIdle, Appears, SiteOnly, Thinking, Tick, Terminate, allVars

(* The protocol's invariant survives the caller forgetting a call: a second  *)
(* tab may be created with a thread and a channel of its own.                *)
LEMMA CallsInv == IInv /\ [PageNext]_allVars => IInv'
<1> SUFFICES ASSUME IInv, PageNext \/ UNCHANGED allVars PROVE IInv'
  OBVIOUS
<1>1. CASE [Next]_vars
  BY <1>1, StepHolds
<1>2. ASSUME NEW k \in Calls, TabCreated(k) PROVE IInv'
  BY <1>2 DEF TabCreated, IInv, TypeOK, ChannelInv, ThreadInv, OwnerInv, NothingLost,
              Ended, WithThread, InChannel, WithCaller
<1>3. QED
  BY <1>1, <1>2, CallSteps

LEMMA CallsInductive == PageSpec => []IInv
<1>1. PageInit => IInv
  BY InitHolds DEF PageInit
<1>2. QED
  BY <1>1, CallsInv, PTL DEF PageSpec

(* In the request as in the call alone: whichever way the tab's answer, the  *)
(* timeout and the client's departure interleave, no tab is lost between the *)
(* thread and the handler.                                                   *)
THEOREM TabsNeverLost == PageSpec => []NothingLost
<1>1. IInv => NothingLost
  BY DEF IInv
<1>2. QED
  BY <1>1, CallsInductive, PTL

(* A tab the handler received is never closed behind its back.               *)
THEOREM ReceivedTabKept == PageSpec => []ReceivedIsKept
<1>1. IInv => ReceivedIsKept
  BY DEF IInv, OwnerInv, ThreadInv, ReceivedIsKept, WithCaller
<1>2. QED
  BY <1>1, CallsInductive, PTL

================================================================================
