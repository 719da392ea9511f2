--------------------------- MODULE PageEvidenceProofs ---------------------------
(***************************************************************************)
(* Proofs about PageEvidence, for any number of loads and documents.  The  *)
(* invariant says how the tracker's incremental record mirrors what the    *)
(* latest document's loads have come to; the verdict reads that mirror, so *)
(* it misses nothing that counts and accuses a page of nothing else.       *)
(***************************************************************************)
EXTENDS PageEvidence, FiniteSetTheorems, TLAPS

(* The tracker has room for every load ("a real page stays far below it").   *)
Room == Cardinality(Loads) <= MaxTracked

(* So has the table of third_party.rs, with the documents that share it.     *)
Places == Cardinality(Loads) + MaxDocs <= MaxCounted

(* The tracker's two document marks follow the main document's life.         *)
DocumentInv ==
  /\ last = doc
  /\ main = IF Loading THEN doc ELSE 0
  /\ body = "none" <=> doc = 0
  /\ body = "requested" => shown < doc
  /\ body \in {"arriving", "arrived"} => shown = doc

(* A recorded `load` event is the shown document's, or came late.            *)
FireInv == loadFired => late \/ (fired /\ shown = doc)

JudgeInv == code = "judging" => shown > 0

(* A load belongs to a document that is or was in the frame, and was last    *)
(* reported no later than the latest document.                               *)
OwnerInv == \A l \in Loads : loads[l].owner <= shown /\ loads[l].since <= doc

(* What the tracker should have of a load: the outcome the verdict judges.   *)
Image(load) ==
  [outcome |-> IF load.end = "lost" THEN "lost"
               ELSE IF load.status = "refused" THEN "refused" ELSE "pending",
   type |-> load.type, host |-> load.host]

(* Of each load: the records agree with Chrome on whether it is pending;     *)
(* nothing is recorded of it before it starts; and one of the latest         *)
(* document, once that is in the frame, is recorded as it is.                *)
AgreesOn(l) ==
  /\ waiting[l] # "none" => loads[l].end = "pending" /\ waiting[l] = loads[l].host
  /\ Places /\ loads[l].end = "pending" /\ loads[l].host # "none" => waiting[l] # "none"
  /\ tracked[l].outcome = "pending" => loads[l].end = "pending"
  /\ l \in pending \/ requests[l] = "pending" => loads[l].end = "pending"
  /\ Room /\ loads[l].end = "pending" /\ loads[l].type # "other" /\ loads[l].since = doc
       => tracked[l].outcome # "no"

LoadInv(l) ==
  /\ AgreesOn(l)
  /\ l \in old => loads[l].end = "pending"
  /\ loads[l].end = "unborn" => tracked[l].outcome = "no"
  /\ Room /\ doc # 0 /\ loads[l].owner = doc /\ loads[l].type # "other"
       => tracked[l] = Image(loads[l])

IInv ==
  /\ TypeOK
  /\ DocumentInv /\ FireInv /\ JudgeInv /\ OwnerInv
  /\ \A l \in Loads : LoadInv(l)

Step ==
  \/ DocumentRequested \/ DocumentRedirected \/ DocumentCommits \/ DocumentEnds \/ LoadEvent
  \/ \E l \in Loads :
       \/ \E type \in Types, host \in Hosts : Starts(l, type, host)
       \/ \E host \in Hosts : Redirected(l, host)
       \/ \E status \in {"ok", "refused"} : Responds(l, status)
       \/ Finishes(l)
       \/ \E how \in Ways : Fails(l, how)
  \/ Wait \/ ReadProxyFailures \/ Answer \/ UNCHANGED vars

(* Every step is one of these; whether the request is already answered plays *)
(* no part in the invariant.                                                 *)
LEMMA Steps == [Next]_vars => Step
BY DEF Next, Events, Answered, Step

-------------------------------------------------------------------------------
(* Every event leaves the variables in their types.                          *)
LEMMA TypeStep == TypeOK /\ Step => TypeOK'
<1> SUFFICES ASSUME TypeOK, Step PROVE TypeOK'
  OBVIOUS
<1> USE Bounds DEF TypeOK, LoadRecords, TrackRecords, Types, Hosts, Ways
<1>1. CASE DocumentRequested
  <2>1. doc' \in 0..MaxDocs /\ shown' \in 0..doc' /\ {main', last'} \subseteq 0..MaxDocs
    BY <1>1 DEF DocumentRequested, TrackDocument
  <2>2. tracked' \in [Loads -> TrackRecords]
    BY <1>1 DEF DocumentRequested, TrackDocument, Untracked
  <2>3. loadFired' \in BOOLEAN
    BY <1>1 DEF DocumentRequested, TrackDocument
  <2>4. QED
    BY <1>1, <2>1, <2>2, <2>3 DEF DocumentRequested, Listening, answerVars, activityVars
<1>2. CASE DocumentRedirected
  BY <1>2 DEF DocumentRedirected, TrackDocument, Listening, answerVars, activityVars, pageVars,
              Untracked
<1>3. CASE DocumentCommits
  <2>1. loads' \in [Loads -> LoadRecords]
    BY <1>3 DEF DocumentCommits, Over, Counts, Unborn
  <2>2. tracked' \in [Loads -> TrackRecords]
    BY <1>3 DEF DocumentCommits, TrackFailed
  <2>3. waiting' \in [Loads -> Hosts]
    BY <1>3 DEF DocumentCommits, CountEnd
  <2>4. requests' \in [Loads -> {"no", "pending", "over"}] /\ pending' \subseteq Loads
    BY <1>3 DEF DocumentCommits, RecordEnd
  <2>5. doc' \in 0..MaxDocs /\ shown' \in 0..doc' /\ {main', last'} \subseteq 0..MaxDocs
    BY <1>3 DEF DocumentCommits
  <2>6. body' = "arriving" /\ fired' = FALSE /\ old' = {}
    BY <1>3 DEF DocumentCommits
  <2>7. UNCHANGED <<reused, late, loadFired, proxied, code, sawProxy>>
    BY <1>3 DEF DocumentCommits, Listening, answerVars
  <2>8. QED
    BY <2>1, <2>2, <2>3, <2>4, <2>5, <2>6, <2>7
<1>4. CASE DocumentEnds
  BY <1>4 DEF DocumentEnds, Listening, answerVars, activityVars
<1>5. CASE LoadEvent
  BY <1>5 DEF LoadEvent, Listening, answerVars, activityVars
<1>6. ASSUME NEW l \in Loads, NEW type \in Types, NEW host \in Hosts, Starts(l, type, host)
      PROVE  TypeOK'
  <2>1. loads' \in [Loads -> LoadRecords]
    BY <1>6 DEF Starts, Sent
  <2>2. tracked' \in [Loads -> TrackRecords]
    <3> DEFINE new == [outcome |-> "pending", type |-> type, host |-> host]
    <3>1. \/ tracked' = tracked
          \/ tracked' = [tracked EXCEPT ![l].host = host]
          \/ tracked' = [tracked EXCEPT ![l] = new]
      BY <1>6, Zenon DEF Starts, TrackLoad
    <3>2. new \in TrackRecords
      BY <1>6
    <3> HIDE DEF new
    <3>3. CASE tracked' = tracked
      BY <3>3
    <3>4. CASE tracked' = [tracked EXCEPT ![l].host = host]
      BY <1>6, <3>4
    <3>5. CASE tracked' = [tracked EXCEPT ![l] = new]
      BY <1>6, <3>2, <3>5
    <3>6. QED
      BY <3>1, <3>3, <3>4, <3>5
  <2>3. waiting' \in [Loads -> Hosts]
    BY <1>6 DEF Starts, Count
  <2>4. requests' \in [Loads -> {"no", "pending", "over"}] /\ pending' \subseteq Loads
    BY <1>6 DEF Starts, Record
  <2>5. UNCHANGED <<pageVars, old, main, last, loadFired, proxied, code, sawProxy>>
    BY <1>6 DEF Starts, Listening, answerVars
  <2>6. QED
    BY <2>1, <2>2, <2>3, <2>4, <2>5 DEF pageVars
<1>7. ASSUME NEW l \in Loads, NEW host \in Hosts, Redirected(l, host)
      PROVE  TypeOK'
  <2>1. loads' \in [Loads -> LoadRecords]
    BY <1>7 DEF Redirected, Sent
  <2>2. tracked' \in [Loads -> TrackRecords]
    <3> DEFINE new == [outcome |-> "pending", type |-> loads[l].type, host |-> host]
    <3>1. \/ tracked' = tracked
          \/ tracked' = [tracked EXCEPT ![l].host = host]
          \/ tracked' = [tracked EXCEPT ![l] = new]
      BY <1>7, Zenon DEF Redirected, TrackLoad
    <3>2. new \in TrackRecords
      BY <1>7 DEF LoadRecords
    <3> HIDE DEF new
    <3>3. QED
      BY <1>7, <3>1, <3>2, SMTT(30)
  <2>3. waiting' \in [Loads -> Hosts]
    BY <1>7 DEF Redirected, Count
  <2>4. requests' \in [Loads -> {"no", "pending", "over"}] /\ pending' \subseteq Loads
    BY <1>7 DEF Redirected, Record
  <2>5. UNCHANGED <<pageVars, old, main, last, loadFired, proxied, code, sawProxy>>
    BY <1>7 DEF Redirected, Listening, answerVars
  <2>6. QED
    BY <2>1, <2>2, <2>3, <2>4, <2>5 DEF pageVars
<1>8. ASSUME NEW l \in Loads, NEW status \in {"ok", "refused"}, Responds(l, status)
      PROVE  TypeOK'
  <2>1. loads' \in [Loads -> LoadRecords]
    <3>1. loads' = [loads EXCEPT ![l].status = status]
      BY <1>8, Zenon DEF Responds
    <3>2. QED
      BY <3>1
  <2>2. tracked' \in [Loads -> TrackRecords]
    <3>1. tracked' = tracked \/ tracked' = [tracked EXCEPT ![l].outcome = "refused"]
      BY <1>8, Zenon DEF Responds
    <3>2. QED
      BY <1>8, <3>1
  <2>3. QED
    BY <1>8, <2>1, <2>2 DEF Responds, Listening, answerVars, pageVars, activityVars
<1>9. ASSUME NEW l \in Loads, Finishes(l)
      PROVE  TypeOK'
  BY <1>9, SMTT(30) DEF Finishes, Over, Counts, Unborn, Untracked, TrackFinished, CountEnd, RecordEnd,
              Listening, answerVars, pageVars
<1>10. ASSUME NEW l \in Loads, NEW how \in Ways, Fails(l, how)
       PROVE  TypeOK'
  <2>1. loads' \in [Loads -> LoadRecords]
    BY <1>10 DEF Fails, Over, Counts, Unborn
  <2>2. tracked' \in [Loads -> TrackRecords]
    BY <1>10 DEF Fails, TrackFailed
  <2>3. QED
    BY <1>10, <2>1, <2>2 DEF Fails, CountEnd, RecordEnd, Listening, answerVars, pageVars
<1>11. CASE Wait
  BY <1>11 DEF Wait, Pending, Listening, answerVars, pageVars, observers, trackerVars,
               activityVars
<1>12. CASE ReadProxyFailures \/ Answer
  BY <1>12 DEF ReadProxyFailures, Answer, pageVars, observers, trackerVars, activityVars
<1>13. CASE UNCHANGED vars
  BY <1>13 DEF vars, pageVars, observers, trackerVars, activityVars, answerVars
<1>14. QED
  BY <1>1, <1>2, <1>3, <1>4, <1>5, <1>6, <1>7, <1>8, <1>9, <1>10, <1>11, <1>12, <1>13 DEF Step

-------------------------------------------------------------------------------
(* The marks of the main document, its `load` event and the load owners move *)
(* with the document.                                                        *)
LEMMA DocumentStep ==
  TypeOK /\ DocumentInv /\ FireInv /\ JudgeInv /\ OwnerInv /\ Step
    => DocumentInv' /\ FireInv' /\ JudgeInv' /\ OwnerInv'
<1> SUFFICES ASSUME TypeOK, DocumentInv, FireInv, JudgeInv, OwnerInv, Step
             PROVE  DocumentInv' /\ FireInv' /\ JudgeInv' /\ OwnerInv'
  OBVIOUS
<1> USE Bounds DEF TypeOK, DocumentInv, FireInv, JudgeInv, OwnerInv, Loading
<1>1. CASE DocumentRequested
  <2>1. DocumentInv'
    BY <1>1 DEF DocumentRequested, TrackDocument
  <2>2. ~loadFired'
    <3>1. last # doc + 1
      BY <1>1
    <3>2. QED
      BY <1>1, <3>1, Zenon DEF DocumentRequested, TrackDocument
  <2>3. shown' = shown /\ loads' = loads /\ doc' = doc + 1 /\ code' = code
    BY <1>1 DEF DocumentRequested, Listening, answerVars
  <2>4. OwnerInv'
    BY <2>3 DEF LoadRecords
  <2>5. QED
    BY <2>1, <2>2, <2>3, <2>4
<1>2. CASE DocumentRedirected
  BY <1>2 DEF DocumentRedirected, TrackDocument, Listening, answerVars, pageVars
<1>3. CASE DocumentCommits
  <2>1. /\ body' = "arriving" /\ shown' = doc /\ doc' = doc /\ main' = main /\ last' = last
        /\ loadFired' = loadFired /\ late' = late /\ code' = code
    BY <1>3 DEF DocumentCommits, Listening, answerVars
  <2>2. body = "requested" /\ doc # 0 /\ shown < doc /\ shown # doc
    BY <1>3 DEF DocumentCommits
  <2>3. OwnerInv'
    <3>1. \A l \in Loads : /\ loads'[l].owner \in {loads[l].owner, 0}
                          /\ loads'[l].since \in {loads[l].since, 0}
      BY <1>3 DEF DocumentCommits, Over, Unborn, LoadRecords
    <3>2. QED
      BY <2>1, <2>2, <3>1 DEF LoadRecords
  <2>4. FireInv'
    BY <2>1, <2>2, Zenon
  <2>5. DocumentInv' /\ JudgeInv'
    BY <2>1, <2>2
  <2>6. QED
    BY <2>3, <2>4, <2>5
<1>4. CASE DocumentEnds
  BY <1>4 DEF DocumentEnds, Listening, answerVars
<1>5. CASE LoadEvent
  <2>1. shown < doc \/ shown = doc
    BY <1>5
  <2>2. FireInv'
    BY <1>5, <2>1, Zenon DEF LoadEvent
  <2>3. QED
    BY <1>5, <2>2 DEF LoadEvent, Listening, answerVars
<1>6. ASSUME NEW l \in Loads, NEW type \in Types, NEW host \in Hosts, Starts(l, type, host)
      PROVE  DocumentInv' /\ FireInv' /\ JudgeInv' /\ OwnerInv'
  BY <1>6 DEF Starts, Sent, Listening, answerVars, pageVars
<1>7. ASSUME NEW l \in Loads, NEW host \in Hosts, Redirected(l, host)
      PROVE  DocumentInv' /\ FireInv' /\ JudgeInv' /\ OwnerInv'
  BY <1>7 DEF Redirected, Sent, Pending, LoadRecords, Listening, answerVars, pageVars
<1>8. ASSUME NEW l \in Loads, NEW status \in {"ok", "refused"}, Responds(l, status)
      PROVE  DocumentInv' /\ FireInv' /\ JudgeInv' /\ OwnerInv'
  BY <1>8 DEF Responds, Listening, answerVars, pageVars
<1>9. ASSUME NEW l \in Loads, Finishes(l)
      PROVE  DocumentInv' /\ FireInv' /\ JudgeInv' /\ OwnerInv'
  BY <1>9 DEF Finishes, Over, Unborn, Listening, answerVars, pageVars
<1>10. ASSUME NEW l \in Loads, NEW how \in Ways, Fails(l, how)
       PROVE  DocumentInv' /\ FireInv' /\ JudgeInv' /\ OwnerInv'
  BY <1>10 DEF Fails, Over, Unborn, Listening, answerVars, pageVars
<1>11. CASE Wait
  BY <1>11 DEF Wait, Listening, answerVars, pageVars, observers, trackerVars
<1>12. CASE ReadProxyFailures \/ Answer
  BY <1>12 DEF ReadProxyFailures, Answer, pageVars, observers, trackerVars
<1>13. CASE UNCHANGED vars
  BY <1>13 DEF vars, pageVars, observers, trackerVars, answerVars
<1>14. QED
  BY <1>1, <1>2, <1>3, <1>4, <1>5, <1>6, <1>7, <1>8, <1>9, <1>10, <1>11, <1>12, <1>13 DEF Step

-------------------------------------------------------------------------------
(* A tracker with room for every load has room for one it does not hold.     *)
LEMMA RoomLeft ==
  ASSUME Room, NEW l \in Loads, l \notin Tracked
  PROVE  ~(Cardinality(Tracked) >= MaxTracked)
<1>1. IsFiniteSet(Loads) /\ MaxTracked \in Nat
  BY Bounds
<1>2. /\ IsFiniteSet(Loads \ {l})
      /\ Cardinality(Loads \ {l}) = Cardinality(Loads) - 1
      /\ Cardinality(Loads) \in Nat
  BY <1>1, FS_RemoveElement, FS_CardinalityType
<1>3. Tracked \subseteq Loads \ {l}
  BY DEF Tracked
<1>4. /\ Cardinality(Tracked) \in Nat
      /\ Cardinality(Tracked) <= Cardinality(Loads \ {l})
  BY <1>2, <1>3, FS_Subset, FS_CardinalityType
<1>5. QED
  BY <1>1, <1>2, <1>4 DEF Room

LEMMA PlaceLeft ==
  ASSUME Places, TypeOK, NEW l \in Loads, l \notin Counted
  PROVE  ~(Cardinality(Counted) + doc >= MaxCounted)
<1>1. IsFiniteSet(Loads) /\ MaxCounted \in Nat /\ MaxDocs \in Nat /\ doc \in 0..MaxDocs
  BY Bounds DEF TypeOK
<1>2. /\ IsFiniteSet(Loads \ {l})
      /\ Cardinality(Loads \ {l}) = Cardinality(Loads) - 1
      /\ Cardinality(Loads) \in Nat
  BY <1>1, FS_RemoveElement, FS_CardinalityType
<1>3. Counted \subseteq Loads \ {l}
  BY DEF Counted
<1>4. /\ Cardinality(Counted) \in Nat
      /\ Cardinality(Counted) <= Cardinality(Loads \ {l})
  BY <1>2, <1>3, FS_Subset, FS_CardinalityType
<1>5. QED
  BY <1>1, <1>2, <1>4 DEF Places

(* An event about one load leaves the others as they are.                    *)
Same(l) ==
  /\ loads'[l] = loads[l] /\ tracked'[l] = tracked[l]
  /\ waiting'[l] = waiting[l] /\ requests'[l] = requests[l]
  /\ l \in pending' => l \in pending
  /\ l \in old' => l \in old

LEMMA Others ==
  ASSUME NEW l \in Loads, LoadInv(l), Same(l), doc' = doc
  PROVE  LoadInv(l)'
BY DEF LoadInv, AgreesOn, Same, Image, Room, Places

LEMMA LoadStep ==
  ASSUME TypeOK, DocumentInv, OwnerInv, Step, NEW m \in Loads, LoadInv(m)
  PROVE  LoadInv(m)'
<1> USE Bounds
<1>1. CASE DocumentRequested
  <2>1. /\ loads' = loads /\ doc' = doc + 1 /\ old' = old /\ waiting' = waiting
        /\ requests' = requests /\ pending' = pending
    BY <1>1 DEF DocumentRequested, activityVars
  <2>2. tracked'[m] \in {tracked[m], Untracked}
    BY <1>1 DEF DocumentRequested, TrackDocument
  <2>3. loads[m].owner < doc + 1 /\ loads[m].since < doc + 1
    BY DEF TypeOK, LoadRecords, OwnerInv
  <2>4. loads[m].owner # doc + 1 /\ loads[m].since # doc + 1
    BY <2>3 DEF TypeOK, LoadRecords
  <2>5. QED
    BY <2>1, <2>2, <2>4 DEF LoadInv, AgreesOn, Untracked, Room, Places
<1>2. CASE DocumentRedirected
  <2>1. Same(m) /\ doc' = doc
    BY <1>2 DEF DocumentRedirected, TrackDocument, DocumentInv, Same, pageVars, activityVars
  <2>2. QED
    BY <2>1, Others
<1>3. CASE DocumentCommits
  <2>1. doc' = doc /\ old' = {} /\ doc # 0 /\ loads[m].owner < doc /\ 0 # doc
    BY <1>3 DEF DocumentCommits, DocumentInv, OwnerInv, TypeOK, LoadRecords
  <2>2. loads[m].owner # doc
    BY <2>1 DEF TypeOK, LoadRecords
  <2>3. CASE m \in Pending
    <3>1. loads'[m].end = "over" /\ loads'[m].owner = 0
      BY <1>3, <2>3 DEF DocumentCommits, Over, Unborn
    <3>2. /\ waiting'[m] = "none" /\ m \notin pending' /\ requests'[m] # "pending"
          /\ tracked'[m].outcome # "pending"
      BY <1>3, <2>3 DEF DocumentCommits, CountEnd, RecordEnd, TrackFailed, Tracked, Recorded,
                        TypeOK, TrackRecords
    <3>3. QED
      BY <2>1, <3>1, <3>2 DEF LoadInv, AgreesOn
  <2>4. CASE m \notin Pending
    <3>1. Same(m)
      BY <1>3, <2>4 DEF DocumentCommits, CountEnd, RecordEnd, TrackFailed, Same
    <3>2. QED
      BY <2>1, <3>1, Others
  <2>5. QED
    BY <2>3, <2>4
<1>4. CASE DocumentEnds \/ LoadEvent
  <2>1. Same(m) /\ doc' = doc
    BY <1>4 DEF DocumentEnds, LoadEvent, Same, activityVars
  <2>2. QED
    BY <2>1, Others
<1>5. ASSUME NEW l \in Loads, NEW type \in Types, NEW host \in Hosts, Starts(l, type, host)
      PROVE  LoadInv(m)'
  <2>1. doc' = doc /\ old' = old
    BY <1>5 DEF Starts, pageVars
  <2>2. CASE m # l
    <3>1. Same(m)
      BY <1>5, <2>2 DEF Starts, TrackLoad, Count, Record, Same, pageVars, TypeOK
    <3>2. QED
      BY <2>1, <3>1, Others
  <2>3. CASE m = l
    <3>1. loads'[m] = Sent(type, host, shown) /\ loads[m].end = "unborn"
      BY <1>5, <2>3 DEF Starts, TypeOK
    <3>5. /\ waiting'[m] \in {host, "none"}
          /\ Places /\ host # "none" => waiting'[m] = host
      <4>1. waiting[m] = "none" /\ m \notin Counted
        BY <3>1 DEF LoadInv, AgreesOn, Counted
      <4>2. \/ waiting'[m] = host
            \/ waiting' = waiting /\ Cardinality(Counted) + doc >= MaxCounted
        BY <1>5, <2>3 DEF Starts, Count, TypeOK
      <4>3. QED
        BY <4>1, <4>2, PlaceLeft
    <3>2. tracked[m].outcome = "no" /\ m \notin Tracked
      BY <3>1 DEF LoadInv, Tracked
    <3>3. Room /\ type # "other" =>
            tracked'[m] = [outcome |-> "pending", type |-> type, host |-> host]
      BY <1>5, <2>3, <3>2, RoomLeft DEF Starts, TrackLoad, TypeOK
    <3>4. QED
      BY <2>1, <3>1, <3>2, <3>3, <3>5, <2>3 DEF LoadInv, AgreesOn, Sent, Image, Hosts, Room, Places
  <2>4. QED
    BY <2>2, <2>3
<1>6. ASSUME NEW l \in Loads, NEW host \in Hosts, Redirected(l, host)
      PROVE  LoadInv(m)'
  <2>1. doc' = doc /\ old' = old
    BY <1>6 DEF Redirected, pageVars
  <2>2. CASE m # l
    <3>1. Same(m)
      BY <1>6, <2>2 DEF Redirected, TrackLoad, Count, Record, Same, pageVars, TypeOK
    <3>2. QED
      BY <2>1, <3>1, Others
  <2>3. CASE m = l
    <3>1. /\ loads'[m] = Sent(loads[m].type, host, loads[m].owner)
          /\ loads[m].end = "pending" /\ loads[m].status = "none"
      BY <1>6, <2>3 DEF Redirected, Pending, TypeOK
    <3>5. /\ waiting'[m] \in {host, "none"}
          /\ Places /\ host # "none" => waiting'[m] = host
      <4>1. \/ waiting'[m] = host
            \/ /\ waiting' = waiting /\ m \notin Counted
               /\ Cardinality(Counted) + doc >= MaxCounted
        BY <1>6, <2>3 DEF Redirected, Count, TypeOK
      <4>2. m \notin Counted => waiting[m] = "none"
        BY DEF Counted
      <4>3. QED
        BY <4>1, <4>2, PlaceLeft
    <3>2. Room /\ loads[m].type # "other" => tracked'[m].outcome # "no"
      BY <1>6, <2>3, RoomLeft DEF Redirected, TrackLoad, Tracked, TypeOK, TrackRecords
    <3>3. ASSUME Room, doc # 0, loads[m].owner = doc, loads[m].type # "other"
          PROVE  tracked'[m] = Image(loads'[m])
      <4>1. tracked[m] = [outcome |-> "pending", type |-> loads[m].type, host |-> loads[m].host]
        BY <3>1, <3>3 DEF LoadInv, Image
      <4>2. m \in Tracked
        BY <4>1 DEF Tracked
      <4>3. tracked'[m] = [tracked[m] EXCEPT !.host = host]
        BY <1>6, <2>3, <3>3, <4>2 DEF Redirected, TrackLoad, TypeOK
      <4>4. QED
        BY <3>1, <4>1, <4>3 DEF Image, Sent
    <3>4. QED
      BY <2>1, <3>1, <3>2, <3>3, <3>5 DEF LoadInv, AgreesOn, Sent, Hosts, Room, Places
  <2>4. QED
    BY <2>2, <2>3
<1>7. ASSUME NEW l \in Loads, NEW status \in {"ok", "refused"}, Responds(l, status)
      PROVE  LoadInv(m)'
  <2>1. doc' = doc /\ old' = old /\ waiting' = waiting /\ requests' = requests
        /\ pending' = pending
    BY <1>7 DEF Responds, pageVars, activityVars
  <2>2. CASE m # l
    <3>1. Same(m)
      BY <1>7, <2>1, <2>2 DEF Responds, Same, TypeOK
    <3>2. QED
      BY <2>1, <3>1, Others
  <2>3. CASE m = l
    <3>1. /\ loads'[m] = [loads[m] EXCEPT !.status = status]
          /\ loads[m].end = "pending" /\ loads[m].status = "none"
      BY <1>7, <2>3 DEF Responds, Pending, TypeOK
    <3>2. tracked'[m] = IF m \in Tracked /\ status = "refused"
                        THEN [tracked[m] EXCEPT !.outcome = "refused"] ELSE tracked[m]
      BY <1>7, <2>3 DEF Responds, TypeOK
    <3>3. loads'[m] = [type |-> loads[m].type, host |-> loads[m].host,
                       owner |-> loads[m].owner, since |-> loads[m].since,
                       status |-> status, end |-> "pending"]
      BY <3>1 DEF TypeOK, LoadRecords
    <3>4. ASSUME Room, doc # 0, loads[m].owner = doc, loads[m].type # "other"
          PROVE  tracked'[m] = Image(loads'[m])
      <4>1. tracked[m] = [outcome |-> "pending", type |-> loads[m].type, host |-> loads[m].host]
        BY <3>1, <3>4 DEF LoadInv, Image
      <4>2. m \in Tracked
        BY <4>1 DEF Tracked
      <4>3. QED
        BY <3>2, <3>3, <4>1, <4>2 DEF Image
    <3>5. /\ tracked'[m].outcome \in {tracked[m].outcome, "refused"}
          /\ tracked[m].outcome # "no" => tracked'[m].outcome # "no"
      BY <3>2 DEF TypeOK, TrackRecords
    <3>6. QED
      BY <2>1, <3>1, <3>3, <3>4, <3>5 DEF LoadInv, AgreesOn, Room
  <2>4. QED
    BY <2>2, <2>3
<1>8. ASSUME NEW l \in Loads, Finishes(l)
      PROVE  LoadInv(m)'
  <2>1. doc' = doc /\ old' = old \ {l}
    BY <1>8 DEF Finishes, pageVars
  <2>2. CASE m # l
    <3>1. Same(m)
      BY <1>8, <2>2 DEF Finishes, TrackFinished, CountEnd, RecordEnd, Same, TypeOK
    <3>2. QED
      BY <2>1, <3>1, Others
  <2>3. CASE m = l
    <3>1. /\ loads'[m] = Over(loads[m], "finished")
          /\ loads[m].end = "pending"
          /\ tracked'[m] = IF tracked[m].outcome = "pending" THEN Untracked ELSE tracked[m]
      BY <1>8, <2>3 DEF Finishes, TrackFinished, Pending, TypeOK
    <3>2. /\ waiting'[m] = "none" /\ m \notin pending' /\ requests'[m] # "pending"
          /\ m \notin old'
      BY <1>8, <2>1, <2>3 DEF Finishes, CountEnd, RecordEnd, Recorded, TypeOK
    <3>3. tracked'[m].outcome # "pending" /\ loads'[m].end \notin {"pending", "unborn"}
      BY <3>1 DEF Over, Unborn, Untracked, TypeOK, LoadRecords, TrackRecords
    <3>4. ASSUME Room, doc # 0, loads'[m].owner = doc, loads'[m].type # "other"
          PROVE  tracked'[m] = Image(loads'[m])
      <4>1. /\ loads'[m] = [loads[m] EXCEPT !.end = "finished"]
            /\ loads[m].status = "refused"
        BY <3>1, <3>4 DEF Over, Unborn
      <4>2. tracked[m] = [outcome |-> "refused", type |-> loads[m].type, host |-> loads[m].host]
        BY <3>1, <3>4, <4>1 DEF LoadInv, Image, TypeOK, LoadRecords
      <4>3. QED
        BY <3>1, <4>1, <4>2 DEF Image, TypeOK, LoadRecords
    <3>5. QED
      BY <2>1, <3>2, <3>3, <3>4 DEF LoadInv, AgreesOn
  <2>4. QED
    BY <2>2, <2>3
<1>9. ASSUME NEW l \in Loads, NEW how \in Ways, Fails(l, how)
      PROVE  LoadInv(m)'
  <2>1. doc' = doc /\ old' = old \ {l}
    BY <1>9 DEF Fails, pageVars
  <2>2. CASE m # l
    <3>1. Same(m)
      BY <1>9, <2>2 DEF Fails, TrackFailed, CountEnd, RecordEnd, Same, TypeOK
    <3>2. QED
      BY <2>1, <3>1, Others
  <2>3. CASE m = l
    <3>1. /\ loads'[m] = Over(loads[m], how)
          /\ loads[m].end = "pending" /\ how # "finished"
          /\ m \in Tracked => tracked'[m] =
               [tracked[m] EXCEPT !.outcome = IF how = "lost" THEN "lost" ELSE "excused"]
          /\ m \notin Tracked => tracked'[m] = tracked[m]
      BY <1>9, <2>3 DEF Fails, TrackFailed, Pending, TypeOK, Ways
    <3>2. /\ waiting'[m] = "none" /\ m \notin pending' /\ requests'[m] # "pending"
          /\ m \notin old'
      BY <1>9, <2>1, <2>3 DEF Fails, CountEnd, RecordEnd, Recorded, TypeOK
    <3>3. tracked'[m].outcome # "pending" /\ loads'[m].end \notin {"pending", "unborn"}
      BY <3>1 DEF Over, Unborn, Tracked, TypeOK, LoadRecords, TrackRecords
    <3>4. ASSUME Room, doc # 0, loads'[m].owner = doc, loads'[m].type # "other"
          PROVE  tracked'[m] = Image(loads'[m])
      <4>1. how = "lost" /\ loads'[m] = [loads[m] EXCEPT !.end = "lost"]
        BY <3>1, <3>4 DEF Over, Unborn
      <4>2. tracked[m] = Image(loads[m])
        BY <3>1, <3>4, <4>1 DEF LoadInv, TypeOK, LoadRecords
      <4>3. m \in Tracked
        BY <3>1, <4>2 DEF Tracked, Image
      <4>4. QED
        BY <3>1, <4>1, <4>2, <4>3 DEF Image, TypeOK, LoadRecords
    <3>5. QED
      BY <2>1, <3>2, <3>3, <3>4 DEF LoadInv, AgreesOn
  <2>4. QED
    BY <2>2, <2>3
<1>10. CASE Wait
  <2>1. /\ UNCHANGED <<doc, loads, tracked, waiting, requests, pending>>
        /\ old' = Pending
    BY <1>10 DEF Wait, pageVars, observers, trackerVars, activityVars
  <2>2. QED
    BY <2>1 DEF LoadInv, AgreesOn, Pending, Image
<1>11. CASE ReadProxyFailures \/ Answer \/ UNCHANGED vars
  <2>1. Same(m) /\ doc' = doc
    BY <1>11 DEF ReadProxyFailures, Answer, vars, Same, pageVars, observers, trackerVars,
                 activityVars
  <2>2. QED
    BY <2>1, Others
<1>12. QED
  BY <1>1, <1>2, <1>3, <1>4, <1>5, <1>6, <1>7, <1>8, <1>9, <1>10, <1>11 DEF Step

-------------------------------------------------------------------------------
LEMMA InitInv == Init => IInv
<1> SUFFICES ASSUME Init PROVE IInv
  OBVIOUS
<1> USE Bounds DEF Init
<1>1. TypeOK
  <2>1. reused \in BOOLEAN /\ fired \in BOOLEAN
    OBVIOUS
  <2>2. 0 \in 0..MaxDocs /\ 0 \in 0..doc /\ doc \in 0..MaxDocs
    OBVIOUS
  <2>3. Unborn \in LoadRecords /\ Untracked \in TrackRecords
    BY <2>2 DEF LoadRecords, TrackRecords, Types, Hosts, Unborn, Untracked
  <2>4. QED
    BY <2>1, <2>2, <2>3 DEF TypeOK, Hosts
<1>2. DocumentInv /\ FireInv /\ JudgeInv
  BY DEF DocumentInv, FireInv, JudgeInv, Loading
<1>3. OwnerInv
  BY DEF OwnerInv, Unborn
<1>4. \A l \in Loads : LoadInv(l)
  BY DEF LoadInv, AgreesOn, Unborn, Untracked
<1>5. QED
  BY <1>1, <1>2, <1>3, <1>4 DEF IInv

LEMMA NextInv == IInv /\ [Next]_vars => IInv'
<1> SUFFICES ASSUME IInv, Step PROVE IInv'
  BY Steps
<1>1. TypeOK'
  BY TypeStep DEF IInv
<1>2. DocumentInv' /\ FireInv' /\ JudgeInv' /\ OwnerInv'
  BY DocumentStep DEF IInv
<1>3. \A l \in Loads : LoadInv(l)'
  BY LoadStep DEF IInv
<1>4. QED
  BY <1>1, <1>2, <1>3 DEF IInv

(* Every variable keeps its type, whatever Chrome reports and whenever the   *)
(* handler reads.                                                            *)
THEOREM Typing == Spec => []TypeOK
<1>1. IInv => TypeOK
  BY DEF IInv
<1>2. QED
  BY InitInv, NextInv, <1>1, PTL DEF Spec

(* The three observers agree with Chrome on which loads are pending, for any *)
(* set of loads and any limits; the tracker misses none when it has room.    *)
THEOREM Agreement == Spec => []ObserversAgree
<1>1. IInv => ObserversAgree
  <2> SUFFICES ASSUME IInv PROVE ObserversAgree
    OBVIOUS
  <2>1. TypeOK /\ \A l \in Loads : AgreesOn(l)
    BY DEF IInv, LoadInv
  <2>2. /\ \A l \in Counted : l \in Pending /\ waiting[l] = loads[l].host
        /\ Places => \A l \in Pending : loads[l].host # "none" => l \in Counted
    BY <2>1 DEF AgreesOn, Pending, Counted
  <2>3. \A l \in Tracked : tracked[l].outcome = "pending" => l \in Pending
    BY <2>1 DEF AgreesOn, Pending, Tracked
  <2>4. pending \cup {l \in Loads : requests[l] = "pending"} \subseteq Pending
    BY <2>1 DEF AgreesOn, Pending, TypeOK
  <2>5. Room => \A l \in Pending :
          loads[l].type # "other" /\ loads[l].since = doc => l \in Tracked
    BY <2>1 DEF AgreesOn, Pending, Tracked
  <2>6. QED
    BY <2>2, <2>3, <2>4, <2>5 DEF ObserversAgree, Room, Places
<1>2. QED
  BY InitInv, NextInv, <1>1, PTL DEF Spec

(* Where the tracker has room for every load, SELECTOR_NOT_FOUND is answered *)
(* only for a page that arrived, fired its `load` event (or took a late one  *)
(* for its own) and lost no load that can explain the missing element, unless *)
(* the frame still shows an older page than the one the tracker was reset for. *)
THEOREM FinalAnswer == Room => (Spec => NotFoundIsFinal)
<1> DEFINE Final ==
      code' = "SELECTOR_NOT_FOUND" /\ code = "judging" =>
        /\ ~Loading
        /\ shown = doc => fired \/ late
        /\ \A l \in Loads : loads[l].owner = shown /\ shown = doc => ~Broken(l)
<1> SUFFICES ASSUME Room PROVE Spec => NotFoundIsFinal
  OBVIOUS
<1>1. ASSUME IInv, Step, code' = "SELECTOR_NOT_FOUND", code = "judging"
      PROVE  Final
  <2>1. ~Incomplete
    BY <1>1 DEF Step, DocumentRequested, DocumentRedirected, DocumentCommits, DocumentEnds,
                LoadEvent, Starts, Redirected, Responds, Finishes, Fails, Wait,
                ReadProxyFailures, Answer, vars, Listening, answerVars
  <2>2. /\ main = 0 /\ last = doc /\ shown > 0 /\ shown <= doc /\ doc > 0
        /\ loadFired
    BY <1>1, <2>1 DEF IInv, TypeOK, Incomplete, DocumentInv, JudgeInv
  <2>3. ~Loading /\ (shown = doc => fired \/ late)
    BY <1>1, <2>2 DEF IInv, DocumentInv, FireInv
  <2>4. ASSUME NEW l \in Loads, loads[l].owner = doc, Broken(l)
        PROVE  FALSE
    <3>1. loads[l].type # "other" /\ LoadInv(l) /\ doc # 0
      BY <1>1, <2>2, <2>4 DEF Broken, Counts, IInv
    <3>2. tracked[l] = Image(loads[l])
      BY <1>1, <2>4, <3>1 DEF LoadInv
    <3>3. Counts(tracked[l])
      BY <2>4, <3>2 DEF Broken, Counts, Image
    <3>4. \/ tracked[l].outcome \in {"refused", "lost"}
          \/ tracked[l].outcome = "pending" /\ l \in old
      BY <2>4, <3>1, <3>2 DEF Broken, Image, LoadInv
    <3>5. QED
      BY <2>1, <3>3, <3>4 DEF Incomplete, Marker
  <2>5. QED
    BY <2>3, <2>4
<1>2. IInv /\ [Next]_vars => [Final]_vars
  BY <1>1, Steps
<1> HIDE DEF Final
<1>3. QED
  BY InitInv, NextInv, <1>2, PTL DEF Spec, NotFoundIsFinal, Final

-------------------------------------------------------------------------------
(* The other direction: what the tracker accuses a page of has happened.     *)

(* A shown document's `load` event is recorded.                              *)
FiredInv == fired /\ shown = doc /\ doc # 0 => loadFired

(* A mark that the verdict could read - of a load that is pending, or of one *)
(* that counts - says what Chrome said of the load, and that was while the   *)
(* latest document was requested, or the first.  Nothing else is marked than *)
(* scripts, stylesheets, XHR and fetch.                                      *)
Read(l) ==
  /\ tracked[l].outcome \in {"pending", "refused", "lost"}
  /\ loads[l].end = "pending" \/ Counts(tracked[l])

Truthful(l) ==
  /\ tracked[l].outcome # "no" => tracked[l].type # "other"
  /\ loads[l].end = "pending" => tracked[l].outcome # "excused"
  /\ Read(l) => /\ tracked[l] = Image(loads[l])
                /\ loads[l].end \in {"pending", "finished", "lost"}
                /\ loads[l].since = doc \/ doc <= 1

ReasonInv == IInv /\ FiredInv /\ \A l \in Loads : Truthful(l)

(* Every event leaves the shown document's `load` event recorded.            *)
LEMMA FiredStep == TypeOK /\ DocumentInv /\ FiredInv /\ Step => FiredInv'
<1> SUFFICES ASSUME TypeOK, DocumentInv, FiredInv, Step PROVE FiredInv'
  OBVIOUS
<1> USE Bounds DEF TypeOK, DocumentInv, FiredInv
<1>1. CASE DocumentRequested
  <2>1. shown' = shown /\ doc' = doc + 1 /\ shown <= doc
    BY <1>1 DEF DocumentRequested
  <2>2. QED
    BY <2>1
<1>2. CASE DocumentRedirected
  <2>1. loadFired' = (loadFired /\ last = doc) /\ UNCHANGED <<fired, shown, doc>>
    BY <1>2, Zenon DEF DocumentRedirected, TrackDocument, pageVars
  <2>2. QED
    BY <2>1
<1>3. CASE DocumentCommits
  BY <1>3 DEF DocumentCommits
<1>4. CASE DocumentEnds
  BY <1>4 DEF DocumentEnds
<1>5. CASE LoadEvent
  BY <1>5 DEF LoadEvent
<1>6. ASSUME NEW l \in Loads, NEW type \in Types, NEW host \in Hosts, Starts(l, type, host)
      PROVE  FiredInv'
  BY <1>6 DEF Starts, pageVars
<1>7. ASSUME NEW l \in Loads, NEW host \in Hosts, Redirected(l, host)
      PROVE  FiredInv'
  BY <1>7 DEF Redirected, pageVars
<1>8. ASSUME NEW l \in Loads, NEW status \in {"ok", "refused"}, Responds(l, status)
      PROVE  FiredInv'
  BY <1>8 DEF Responds, pageVars
<1>9. ASSUME NEW l \in Loads, Finishes(l)
      PROVE  FiredInv'
  BY <1>9 DEF Finishes, pageVars
<1>10. ASSUME NEW l \in Loads, NEW how \in Ways, Fails(l, how)
       PROVE  FiredInv'
  BY <1>10 DEF Fails, pageVars
<1>11. CASE Wait \/ ReadProxyFailures \/ Answer \/ UNCHANGED vars
  BY <1>11 DEF Wait, ReadProxyFailures, Answer, vars, pageVars, observers, trackerVars
<1>12. QED
  BY <1>1, <1>2, <1>3, <1>4, <1>5, <1>6, <1>7, <1>8, <1>9, <1>10, <1>11 DEF Step

(* An event about one load leaves the marks of the others true.              *)
LEMMA OtherMarks ==
  ASSUME NEW l \in Loads, Truthful(l), doc' = doc,
         loads'[l] = loads[l], tracked'[l] = tracked[l]
  PROVE  Truthful(l)'
BY DEF Truthful, Read, Image, Counts

(* Every event leaves every mark true: a new document clears the marks of    *)
(* the one it replaces, and a load that ends takes its mark along.           *)
LEMMA MarkStep ==
  ASSUME TypeOK, DocumentInv, Step, NEW m \in Loads, LoadInv(m), Truthful(m)
  PROVE  Truthful(m)'
<1> USE Bounds
<1>1. CASE DocumentRequested
  <2>1. loads' = loads /\ doc' = doc + 1
    BY <1>1 DEF DocumentRequested
  <2>2. CASE doc = 0
    <3>1. tracked' = tracked
      BY <1>1, <2>2, Zenon DEF DocumentRequested, TrackDocument, DocumentInv
    <3>2. doc' <= 1
      BY <2>1, <2>2
    <3>3. QED
      BY <2>1, <3>1, <3>2 DEF Truthful, Read, Image, Counts
  <2>3. CASE doc # 0
    <3>1. last # 0 /\ last # doc + 1
      BY <2>3 DEF DocumentInv, TypeOK
    <3>2. tracked' = [l \in Loads |-> Untracked]
      BY <1>1, <3>1, Zenon DEF DocumentRequested, TrackDocument
    <3>3. tracked'[m].outcome = "no"
      BY <3>2 DEF Untracked
    <3>4. QED
      BY <3>3 DEF Truthful, Read
  <2>4. QED
    BY <2>2, <2>3
<1>2. CASE DocumentRedirected
  <2>1. loads' = loads /\ doc' = doc /\ tracked' = tracked
    BY <1>2 DEF DocumentRedirected, TrackDocument, DocumentInv, pageVars
  <2>2. QED
    BY <2>1, OtherMarks
<1>3. CASE DocumentCommits
  <2>1. doc' = doc
    BY <1>3 DEF DocumentCommits
  <2>2. CASE m \in Pending
    <3>1. loads'[m].end = "over"
      BY <1>3, <2>2 DEF DocumentCommits, Over, Unborn
    <3>2. /\ tracked'[m].outcome \in {"no", "excused"}
          /\ tracked'[m].outcome = "excused" => m \in Tracked /\ tracked'[m].type = tracked[m].type
      BY <1>3, <2>2 DEF DocumentCommits, TrackFailed, Tracked, TypeOK, TrackRecords
    <3>3. QED
      BY <3>1, <3>2 DEF Truthful, Read, Tracked
  <2>3. CASE m \notin Pending
    <3>1. loads'[m] = loads[m] /\ tracked'[m] = tracked[m]
      BY <1>3, <2>3 DEF DocumentCommits, TrackFailed
    <3>2. QED
      BY <2>1, <3>1, OtherMarks
  <2>4. QED
    BY <2>2, <2>3
<1>4. CASE DocumentEnds \/ LoadEvent
  BY <1>4, OtherMarks DEF DocumentEnds, LoadEvent
<1>5. ASSUME NEW l \in Loads, NEW type \in Types, NEW host \in Hosts, Starts(l, type, host)
      PROVE  Truthful(m)'
  <2>1. doc' = doc
    BY <1>5 DEF Starts, pageVars
  <2>2. CASE m # l
    <3>1. loads'[m] = loads[m] /\ tracked'[m] = tracked[m]
      BY <1>5, <2>2 DEF Starts, TrackLoad, TypeOK
    <3>2. QED
      BY <2>1, <3>1, OtherMarks
  <2>3. CASE m = l
    <3>1. loads'[m] = Sent(type, host, shown) /\ loads[m].end = "unborn"
      BY <1>5, <2>3 DEF Starts, TypeOK
    <3>2. m \notin Tracked /\ tracked[m].outcome = "no"
      BY <3>1 DEF LoadInv, Tracked
    <3>3. \/ tracked'[m].outcome = "no"
          \/ type # "other" /\ tracked'[m] = [outcome |-> "pending", type |-> type, host |-> host]
      BY <1>5, <2>3, <3>2 DEF Starts, TrackLoad, TypeOK
    <3>4. QED
      BY <2>1, <3>1, <3>3 DEF Truthful, Read, Sent, Image
  <2>4. QED
    BY <2>2, <2>3
<1>6. ASSUME NEW l \in Loads, NEW host \in Hosts, Redirected(l, host)
      PROVE  Truthful(m)'
  <2>1. doc' = doc
    BY <1>6 DEF Redirected, pageVars
  <2>2. CASE m # l
    <3>1. loads'[m] = loads[m] /\ tracked'[m] = tracked[m]
      BY <1>6, <2>2 DEF Redirected, TrackLoad, TypeOK
    <3>2. QED
      BY <2>1, <3>1, OtherMarks
  <2>3. CASE m = l
    <3>1. /\ loads'[m] = Sent(loads[m].type, host, loads[m].owner)
          /\ loads[m].end = "pending" /\ loads[m].status = "none"
      BY <1>6, <2>3 DEF Redirected, Pending, TypeOK
    <3>2. m \in Tracked => tracked[m] = Image(loads[m])
      BY <3>1 DEF Truthful, Read, Tracked, TypeOK, TrackRecords
    <3>3. m \in Tracked =>
            tracked[m] = [outcome |-> "pending", type |-> loads[m].type, host |-> loads[m].host]
      BY <3>1, <3>2 DEF Image
    <3>4. \/ tracked'[m].outcome = "no"
          \/ /\ loads[m].type # "other"
             /\ tracked'[m] = [outcome |-> "pending", type |-> loads[m].type, host |-> host]
      <4>1. CASE m \in Tracked
        <5>1. tracked[m].type # "other"
          BY <4>1 DEF Truthful, Tracked
        <5>2. loads[m].type # "other"
          BY <3>3, <4>1, <5>1
        <5>3. tracked' = [tracked EXCEPT ![m].host = host]
          BY <1>6, <2>3, <4>1, <5>2, Zenon DEF Redirected, TrackLoad
        <5>4. QED
          BY <3>3, <4>1, <5>2, <5>3 DEF TypeOK
      <4>2. CASE m \notin Tracked
        BY <1>6, <2>3, <4>2 DEF Redirected, TrackLoad, Tracked, TypeOK
      <4>3. QED
        BY <4>1, <4>2
    <3>5. QED
      BY <2>1, <3>1, <3>4 DEF Truthful, Read, Sent, Image
  <2>4. QED
    BY <2>2, <2>3
<1>7. ASSUME NEW l \in Loads, NEW status \in {"ok", "refused"}, Responds(l, status)
      PROVE  Truthful(m)'
  <2>1. doc' = doc
    BY <1>7 DEF Responds, pageVars
  <2>2. CASE m # l
    <3>1. loads'[m] = loads[m] /\ tracked'[m] = tracked[m]
      BY <1>7, <2>2 DEF Responds, TypeOK
    <3>2. QED
      BY <2>1, <3>1, OtherMarks
  <2>3. CASE m = l
    <3>1. /\ loads'[m] = [loads[m] EXCEPT !.status = status]
          /\ loads[m].end = "pending" /\ loads[m].status = "none"
      BY <1>7, <2>3 DEF Responds, Pending, TypeOK
    <3>2. tracked'[m] = IF m \in Tracked /\ status = "refused"
                        THEN [tracked[m] EXCEPT !.outcome = "refused"] ELSE tracked[m]
      BY <1>7, <2>3 DEF Responds, TypeOK
    <3>3. loads'[m] = [type |-> loads[m].type, host |-> loads[m].host,
                       owner |-> loads[m].owner, since |-> loads[m].since,
                       status |-> status, end |-> "pending"]
      BY <3>1 DEF TypeOK, LoadRecords
    <3>4. CASE m \in Tracked
      <4>1. tracked[m].outcome \in {"pending", "refused", "lost"}
        BY <3>1, <3>4 DEF Truthful, Tracked, TypeOK, TrackRecords
      <4>2. /\ tracked[m] = [outcome |-> "pending", type |-> loads[m].type, host |-> loads[m].host]
            /\ loads[m].since = doc \/ doc <= 1
            /\ loads[m].type # "other"
        BY <3>1, <4>1 DEF Truthful, Read, Image
      <4>3. tracked'[m] = Image(loads'[m])
        BY <3>2, <3>3, <3>4, <4>2 DEF Image
      <4>4. tracked'[m].outcome # "excused" /\ tracked'[m].type # "other"
        BY <3>2, <3>4, <4>2
      <4>5. QED
        BY <2>1, <3>3, <4>2, <4>3, <4>4 DEF Truthful
    <3>5. CASE m \notin Tracked
      <4>1. tracked'[m].outcome = "no"
        BY <3>2, <3>5 DEF Tracked
      <4>2. QED
        BY <4>1 DEF Truthful, Read
    <3>6. QED
      BY <3>4, <3>5
  <2>4. QED
    BY <2>2, <2>3
<1>8. ASSUME NEW l \in Loads, Finishes(l)
      PROVE  Truthful(m)'
  <2>1. doc' = doc
    BY <1>8 DEF Finishes, pageVars
  <2>2. CASE m # l
    <3>1. loads'[m] = loads[m] /\ tracked'[m] = tracked[m]
      BY <1>8, <2>2 DEF Finishes, TrackFinished, TypeOK
    <3>2. QED
      BY <2>1, <3>1, OtherMarks
  <2>3. CASE m = l
    <3>1. /\ loads'[m] = Over(loads[m], "finished")
          /\ loads[m].end = "pending"
          /\ tracked'[m] = IF tracked[m].outcome = "pending" THEN Untracked ELSE tracked[m]
      BY <1>8, <2>3 DEF Finishes, TrackFinished, Pending, TypeOK
    <3>2. loads'[m].end # "pending"
      BY <3>1 DEF Over, Unborn, TypeOK, LoadRecords
    <3>3. ASSUME Read(m)'
          PROVE  /\ tracked'[m] = Image(loads'[m])
                 /\ loads'[m].end \in {"pending", "finished", "lost"}
                 /\ loads'[m].since = doc \/ doc <= 1
      <4>1. /\ tracked'[m] = tracked[m] /\ Counts(tracked[m])
            /\ tracked[m].outcome \in {"refused", "lost"}
        BY <3>1, <3>2, <3>3 DEF Read, Untracked, Counts
      <4>2. tracked[m] = Image(loads[m]) /\ (loads[m].since = doc \/ doc <= 1)
        BY <3>1, <4>1 DEF Truthful, Read
      <4>3. Counts(loads[m]) /\ loads[m].status = "refused"
        BY <3>1, <4>1, <4>2 DEF Image, Counts
      <4>4. loads'[m] = [loads[m] EXCEPT !.end = "finished"]
        BY <3>1, <4>3 DEF Over
      <4>5. QED
        BY <3>1, <4>1, <4>2, <4>4 DEF Image, TypeOK, LoadRecords
    <3>4. tracked'[m].outcome # "no" => tracked'[m].type # "other"
      BY <3>1 DEF Truthful, Untracked, Tracked, TypeOK, TrackRecords
    <3>5. QED
      BY <2>1, <3>2, <3>3, <3>4 DEF Truthful
  <2>4. QED
    BY <2>2, <2>3
<1>9. ASSUME NEW l \in Loads, NEW how \in Ways, Fails(l, how)
      PROVE  Truthful(m)'
  <2>1. doc' = doc
    BY <1>9 DEF Fails, pageVars
  <2>2. CASE m # l
    <3>1. loads'[m] = loads[m] /\ tracked'[m] = tracked[m]
      BY <1>9, <2>2 DEF Fails, TrackFailed, TypeOK
    <3>2. QED
      BY <2>1, <3>1, OtherMarks
  <2>3. CASE m = l
    <3>1. /\ loads'[m] = Over(loads[m], how)
          /\ loads[m].end = "pending" /\ how # "finished"
          /\ m \in Tracked => tracked'[m] =
               [tracked[m] EXCEPT !.outcome = IF how = "lost" THEN "lost" ELSE "excused"]
          /\ m \notin Tracked => tracked'[m] = tracked[m]
      BY <1>9, <2>3 DEF Fails, TrackFailed, Pending, TypeOK, Ways
    <3>2. loads'[m].end # "pending"
      BY <3>1 DEF Over, Unborn, TypeOK, LoadRecords
    <3>3. ASSUME Read(m)'
          PROVE  /\ tracked'[m] = Image(loads'[m])
                 /\ loads'[m].end \in {"pending", "finished", "lost"}
                 /\ loads'[m].since = doc \/ doc <= 1
      <4>1. m \in Tracked
        BY <3>1, <3>3 DEF Read, Tracked
      <4>2. /\ how = "lost" /\ tracked'[m] = [tracked[m] EXCEPT !.outcome = "lost"]
            /\ Counts(tracked'[m])
        BY <3>1, <3>2, <3>3, <4>1 DEF Read, TypeOK, TrackRecords, Counts
      <4>3. tracked[m] = Image(loads[m]) /\ (loads[m].since = doc \/ doc <= 1)
        BY <3>1, <4>1 DEF Truthful, Read, Tracked, TypeOK, TrackRecords
      <4>4. Counts(loads[m])
        BY <4>2, <4>3 DEF Image, Counts
      <4>5. loads'[m] = [loads[m] EXCEPT !.end = "lost"]
        BY <3>1, <4>2, <4>4 DEF Over
      <4>6. QED
        BY <4>2, <4>3, <4>5 DEF Image, TypeOK, LoadRecords
    <3>4. tracked'[m].outcome # "no" => tracked'[m].type # "other"
      BY <3>1 DEF Truthful, Untracked, Tracked, TypeOK, TrackRecords
    <3>5. QED
      BY <2>1, <3>2, <3>3, <3>4 DEF Truthful
  <2>4. QED
    BY <2>2, <2>3
<1>10. CASE Wait \/ ReadProxyFailures \/ Answer \/ UNCHANGED vars
  <2>1. UNCHANGED <<doc, loads, tracked>>
    BY <1>10 DEF Wait, ReadProxyFailures, Answer, vars, pageVars, observers, trackerVars
  <2>2. QED
    BY <2>1, OtherMarks
<1>11. QED
  BY <1>1, <1>2, <1>3, <1>4, <1>5, <1>6, <1>7, <1>8, <1>9, <1>10 DEF Step

LEMMA InitReason == Init => ReasonInv
<1> SUFFICES ASSUME Init PROVE ReasonInv
  OBVIOUS
<1>1. FiredInv
  BY DEF Init, FiredInv
<1>2. \A l \in Loads : Truthful(l)
  BY DEF Init, Truthful, Read, Untracked
<1>3. QED
  BY <1>1, <1>2, InitInv DEF ReasonInv

LEMMA NextReason == ReasonInv /\ [Next]_vars => ReasonInv'
<1> SUFFICES ASSUME ReasonInv, [Next]_vars PROVE ReasonInv'
  OBVIOUS
<1>1. Step /\ IInv'
  BY Steps, NextInv DEF ReasonInv
<1>2. FiredInv'
  BY <1>1, FiredStep DEF ReasonInv, IInv
<1>3. \A l \in Loads : Truthful(l)'
  BY <1>1, MarkStep DEF ReasonInv, IInv
<1>4. QED
  BY <1>1, <1>2, <1>3 DEF ReasonInv

(* PAGE_LOAD_INCOMPLETE always has its reason in what Chrome reported, with  *)
(* any number of loads and whatever the tracker had no room for: it never    *)
(* accuses a page that is complete, nor one of what its predecessor lost.    *)
THEOREM IncompleteHasAReason == Spec => IncompleteIsExplained
<1> DEFINE Explained ==
      code' = "PAGE_LOAD_INCOMPLETE" /\ code = "judging" =>
        \/ Loading
        \/ ~fired
        \/ shown < doc
        \/ \E l \in Loads : Broken(l) /\ (loads[l].since = doc \/ doc = 1)
<1>1. ASSUME ReasonInv, Step, code' = "PAGE_LOAD_INCOMPLETE", code = "judging"
      PROVE  Explained
  <2>1. Incomplete
    BY <1>1 DEF Step, DocumentRequested, DocumentRedirected, DocumentCommits, DocumentEnds,
                LoadEvent, Starts, Redirected, Responds, Finishes, Fails, Wait,
                ReadProxyFailures, Answer, vars, Listening, answerVars
  <2>2. shown > 0 /\ shown <= doc /\ doc > 0 /\ shown \in Nat /\ doc \in Nat /\ last = doc
    BY <1>1, Bounds DEF ReasonInv, IInv, TypeOK, JudgeInv, DocumentInv
  <2>3. CASE main # 0
    BY <1>1, <2>3 DEF ReasonInv, IInv, DocumentInv
  <2>4. CASE ~loadFired
    <3>1. ~fired \/ shown # doc
      BY <1>1, <2>2, <2>4 DEF ReasonInv, FiredInv
    <3>2. shown = doc \/ shown < doc
      BY <2>2
    <3>3. QED
      BY <3>1, <3>2
  <2>5. ASSUME NEW l \in Loads, Marker(l) PROVE Explained
    <3>1. Read(l) /\ Truthful(l) /\ LoadInv(l)
      BY <1>1, <2>5 DEF Marker, Read, ReasonInv, IInv
    <3>2. /\ tracked[l] = Image(loads[l])
          /\ loads[l].end \in {"pending", "finished", "lost"}
          /\ loads[l].since = doc \/ doc <= 1
      BY <3>1 DEF Truthful
    <3>3. Counts(loads[l])
      BY <2>5, <3>2 DEF Marker, Counts, Image
    <3>4. \/ loads[l].end = "lost"
          \/ loads[l].end \in {"pending", "finished"} /\ loads[l].status = "refused"
          \/ l \in old
      BY <2>5, <3>2 DEF Marker, Image
    <3>5. Broken(l) /\ (loads[l].since = doc \/ doc = 1)
      BY <2>2, <3>2, <3>3, <3>4 DEF Broken
    <3>6. QED
      BY <3>5
  <2>6. QED
    BY <2>1, <2>3, <2>4, <2>5 DEF Incomplete
<1>2. ReasonInv /\ [Next]_vars => [Explained]_vars
  BY <1>1, Steps
<1> HIDE DEF Explained
<1>3. QED
  BY InitReason, NextReason, <1>2, PTL DEF Spec, IncompleteIsExplained, Explained
================================================================================
