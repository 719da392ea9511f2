------------------------- MODULE WorkerRecoveryProofs -------------------------
(***************************************************************************)
(* Proofs about WorkerRecovery, for any number of requests and browsers:   *)
(* the generation a request compares tells exactly whether the browser of  *)
(* its own context was replaced, and no request reads a pool that is being *)
(* installed.                                                              *)
(***************************************************************************)
EXTENDS WorkerRecovery, FiniteSetTheorems, TLAPS

(* The guards a request holds: one for the whole call if it continues a      *)
(* session, one more while it acquires a context or fetches its tab.         *)
SessionGuard(r) ==
  IF session[r] # NoSession /\ pc[r] \notin {"idle", "lookup"} THEN 1 ELSE 0

GuardInv ==
  \A r \in Requests :
    readers[r] = SessionGuard(r) + (IF pc[r] \in {"create", "tab"} THEN 1 ELSE 0)

(* The lock: a writer is installing a pool, and no guard is out meanwhile.   *)
LockInv ==
  /\ \A r \in Requests : pc[r] = "swapped" <=> writer = r
  /\ writer # Nobody => \A r \in Requests : readers[r] = 0

(* The generation counts the replacements; under the writer it is one short, *)
(* and no context of the new pool has been bound yet.                        *)
GenInv ==
  /\ writer = Nobody => gen = pool
  /\ writer # Nobody => gen + 1 = pool
  /\ \A r \in Requests : ctx[r] <= pool
  /\ writer # Nobody => \A r \in Requests : ctx[r] < pool

(* The first attempt of a request, from the load of generation_at_start on.  *)
FirstAttempt(r) ==
  /\ attempt[r] = 1
  /\ \/ pc[r] \in {"tabwait", "tab", "page", "discard", "closing"} \cup Failed
     \/ pc[r] \in {"launch", "writing", "swapped"} /\ site[r] = "page"

(* While the pool its context came from is installed, the generation is the  *)
(* one it loaded.                                                            *)
StartInv ==
  \A r \in Requests :
    FirstAttempt(r) =>
      /\ start[r] <= gen
      /\ ctx[r] = pool => start[r] = gen
      /\ pc[r] = "restarted" => start[r] < gen

IInv == TypeOK /\ GuardInv /\ LockInv /\ GenInv /\ StartInv

(* The initial states satisfy the inductive invariant.                       *)
LEMMA InitHolds == Init => IInv
<1> SUFFICES ASSUME Init PROVE IInv
  OBVIOUS
<1>1. TypeOK
  <2>1. pc \in [Requests -> {"idle"}] /\ session \in [Requests -> {NoSession}]
    BY DEF Init
  <2>2. mode \in Modes /\ pool \in Nat /\ gen \in Nat /\ down \in BOOLEAN /\ writer = Nobody
    BY DEF Init
  <2>3. /\ readers \in [Requests -> 0..2]
        /\ ctx \in [Requests -> Nat] /\ start \in [Requests -> Nat]
    BY DEF Init
  <2>4. attempt \in [Requests -> 1..2] /\ site \in [Requests -> {"none", "acquire", "page"}]
    BY DEF Init
  <2>5. QED
    BY <2>1, <2>2, <2>3, <2>4 DEF TypeOK
<1>2. GuardInv
  BY DEF Init, GuardInv, SessionGuard
<1>3. LockInv
  BY RecoveryAssumption DEF Init, LockInv
<1>4. GenInv
  BY DEF Init, GenInv
<1>5. StartInv
  BY DEF Init, StartInv, FirstAttempt, Failed
<1>6. QED
  BY <1>1, <1>2, <1>3, <1>4, <1>5 DEF IInv

(* A request that acquires a context or fetches its tab holds the guard of    *)
(* that step; any other can take one more.                                   *)
LEMMA GuardBounds ==
  TypeOK /\ GuardInv =>
    \A r \in Requests :
      IF pc[r] \in {"create", "tab"} THEN readers[r] \in 1..2 ELSE readers[r] \in 0..1
BY DEF TypeOK, GuardInv, SessionGuard

(* Every step keeps the types; a guard is dropped only by who holds it.       *)
LEMMA TypeStep == TypeOK /\ GuardInv /\ [Next]_vars => TypeOK'
<1> SUFFICES ASSUME TypeOK, GuardInv, [Next]_vars PROVE TypeOK'
  OBVIOUS
<1> USE RecoveryAssumption DEF TypeOK, poolVars, lockVars, Goto, AwaitRead, GrantRead,
        Answer, Waiting, WaitsToRead, WaitsToWrite, Failed
<1>1. ASSUME NEW r \in Requests, Arrive(r) PROVE TypeOK'
  BY <1>1 DEF Arrive
<1>2. ASSUME NEW r \in Requests, SessionFound(r) PROVE TypeOK'
  <2>1. readers[r] \in 0..1
    BY <1>2, GuardBounds DEF SessionFound
  <2>2. QED
    BY <1>2, <2>1 DEF SessionFound
<1>3. ASSUME NEW r \in Requests, SessionNotFound(r) PROVE TypeOK'
  BY <1>3 DEF SessionNotFound
<1>4. ASSUME NEW r \in Requests, NoSessionGiven(r) PROVE TypeOK'
  BY <1>4 DEF NoSessionGiven
<1>5. ASSUME NEW r \in Requests, AcquireLocked(r) PROVE TypeOK'
  <2>1. readers[r] \in 0..1
    BY <1>5, GuardBounds DEF AcquireLocked
  <2>2. QED
    BY <1>5, <2>1 DEF AcquireLocked
<1>6. ASSUME NEW r \in Requests, Acquired(r) PROVE TypeOK'
  <2>1. readers[r] \in 1..2
    BY <1>6, GuardBounds DEF Acquired
  <2>2. QED
    BY <1>6, <2>1 DEF Acquired
<1>7. ASSUME NEW r \in Requests, NotAcquired(r) PROVE TypeOK'
  BY <1>7 DEF NotAcquired
<1>8. ASSUME NEW r \in Requests, CreateDead(r) PROVE TypeOK'
  <2>1. readers[r] \in 1..2
    BY <1>8, GuardBounds DEF CreateDead
  <2>2. QED
    BY <1>8, <2>1 DEF CreateDead
<1>9. ASSUME NEW r \in Requests, Launched(r) PROVE TypeOK'
  BY <1>9 DEF Launched
<1>10. ASSUME NEW r \in Requests, LaunchFails(r) PROVE TypeOK'
  BY <1>10 DEF LaunchFails
<1>11. ASSUME NEW r \in Requests, Install(r) PROVE TypeOK'
  <2>1. gen' \in Nat /\ pool' \in Nat /\ mode' \in Modes
    BY <1>11 DEF Install
  <2>2. down' \in BOOLEAN
    BY <1>11, Zenon DEF Install
  <2>3. writer' \in Requests \cup {Nobody}
        /\ UNCHANGED <<readers, ctx, start, attempt, session>>
    BY <1>11 DEF Install
  <2>4. site' \in [Requests -> {"none", "acquire", "page"}]
    BY <1>11 DEF Install
  <2>5. \E l \in {"swapped", "acquire", "restarted"} : pc' = [pc EXCEPT ![r] = l]
    BY <1>11 DEF Install
  <2>6. QED
    BY <2>1, <2>2, <2>3, <2>4, <2>5
<1>12. ASSUME NEW r \in Requests, Bump(r) PROVE TypeOK'
  <2>1. gen' \in Nat /\ pool' \in Nat /\ mode' \in Modes
    BY <1>12 DEF Bump
  <2>2. down' \in BOOLEAN
    BY <1>12, Zenon DEF Bump
  <2>3. writer' \in Requests \cup {Nobody}
        /\ UNCHANGED <<readers, ctx, start, attempt, session>>
    BY <1>12 DEF Bump
  <2>4. site' \in [Requests -> {"none", "acquire", "page"}]
    BY <1>12, ZenonT(40) DEF Bump
  <2>5. \E l \in {"swapped", "acquire", "restarted"} : pc' = [pc EXCEPT ![r] = l]
    BY <1>12 DEF Bump
  <2>6. QED
    BY <2>1, <2>2, <2>3, <2>4, <2>5
<1>13. ASSUME NEW r \in Requests, LoadGeneration(r) PROVE TypeOK'
  BY <1>13 DEF LoadGeneration
<1>14. ASSUME NEW r \in Requests, TabLocked(r) PROVE TypeOK'
  <2>1. readers[r] \in 0..1
    BY <1>14, GuardBounds DEF TabLocked
  <2>2. QED
    BY <1>14, <2>1 DEF TabLocked
<1>15. ASSUME NEW r \in Requests, TabReady(r) PROVE TypeOK'
  <2>1. readers[r] \in 1..2
    BY <1>15, GuardBounds DEF TabReady
  <2>2. QED
    BY <1>15, <2>1 DEF TabReady
<1>16. ASSUME NEW r \in Requests, TabFails(r) PROVE TypeOK'
  <2>1. readers[r] \in 1..2
    BY <1>16, GuardBounds DEF TabFails
  <2>2. QED
    BY <1>16, <2>1 DEF TabFails
<1>17. ASSUME NEW r \in Requests, TabDead(r) PROVE TypeOK'
  <2>1. readers[r] \in 1..2
    BY <1>17, GuardBounds DEF TabDead
  <2>2. QED
    BY <1>17, <2>1 DEF TabDead
<1>18. ASSUME NEW r \in Requests, Stalls(r) PROVE TypeOK'
  <2>1. pc[r] = "tab" => readers[r] \in 1..2
    BY <1>18, GuardBounds DEF Stalls
  <2>2. QED
    BY <1>18, <2>1 DEF Stalls
<1>19. ASSUME NEW r \in Requests, Discarded(r) PROVE TypeOK'
  BY <1>19 DEF Discarded
<1>20. ASSUME NEW r \in Requests, PageLoads(r) PROVE TypeOK'
  BY <1>20 DEF PageLoads
<1>21. ASSUME NEW r \in Requests, PageLoadsLast(r) PROVE TypeOK'
  BY <1>21 DEF PageLoadsLast
<1>22. ASSUME NEW r \in Requests, Closed(r) PROVE TypeOK'
  <2>1. UNCHANGED <<mode, pool, down, gen, writer, ctx, start>> /\ pc[r] = "closing"
    BY <1>22 DEF Closed
  <2>2. CASE Answer(r, NoSession)
    BY <2>1, <2>2
  <2>3. CASE Goto(r, "discarded") /\ UNCHANGED <<readers, session, site, attempt>>
    BY <2>1, <2>3
  <2>4. QED
    BY <1>22, <2>2, <2>3 DEF Closed
<1>23. ASSUME NEW r \in Requests, PageFails(r) PROVE TypeOK'
  BY <1>23 DEF PageFails
<1>24. ASSUME NEW r \in Requests, Retry(r) PROVE TypeOK'
  BY <1>24 DEF Retry
<1>25. ASSUME NEW r \in Requests, GiveUp(r) PROVE TypeOK'
  BY <1>25 DEF GiveUp
<1>26. ASSUME NEW r \in Requests, Drop(r) PROVE TypeOK'
  BY <1>26 DEF Drop
<1>27. CASE BrowserDies
  BY <1>27 DEF BrowserDies
<1>28. CASE UNCHANGED vars
  BY <1>28 DEF vars
<1>29. QED
  BY <1>1, <1>2, <1>3, <1>4, <1>5, <1>6, <1>7, <1>8, <1>9, <1>10, <1>11, <1>12, <1>13, <1>14,
     <1>15, <1>16, <1>17, <1>18, <1>19, <1>20, <1>21, <1>22, <1>23, <1>24, <1>25, <1>26,
     <1>27, <1>28
     DEF Next, Handle, Recreate, Scrape

(* Every step keeps the count of the guards each request holds.              *)
LEMMA GuardStep == TypeOK /\ GuardInv /\ [Next]_vars => GuardInv'
<1> SUFFICES ASSUME TypeOK, GuardInv, [Next]_vars PROVE GuardInv'
  OBVIOUS
<1> USE RecoveryAssumption DEF TypeOK, GuardInv, SessionGuard, NoSession, Failed, poolVars,
        lockVars, Goto, AwaitRead, GrantRead, Answer
<1>1. ASSUME NEW r \in Requests, Arrive(r) PROVE GuardInv'
  BY <1>1 DEF Arrive
<1>2. ASSUME NEW r \in Requests, SessionFound(r) PROVE GuardInv'
  BY <1>2 DEF SessionFound
<1>3. ASSUME NEW r \in Requests, SessionNotFound(r) PROVE GuardInv'
  BY <1>3 DEF SessionNotFound
<1>4. ASSUME NEW r \in Requests, NoSessionGiven(r) PROVE GuardInv'
  BY <1>4 DEF NoSessionGiven
<1>5. ASSUME NEW r \in Requests, AcquireLocked(r) PROVE GuardInv'
  BY <1>5 DEF AcquireLocked
<1>6. ASSUME NEW r \in Requests, Acquired(r) PROVE GuardInv'
  BY <1>6 DEF Acquired
<1>7. ASSUME NEW r \in Requests, NotAcquired(r) PROVE GuardInv'
  BY <1>7 DEF NotAcquired
<1>8. ASSUME NEW r \in Requests, CreateDead(r) PROVE GuardInv'
  BY <1>8 DEF CreateDead
<1>9. ASSUME NEW r \in Requests, Launched(r) PROVE GuardInv'
  BY <1>9 DEF Launched
<1>10. ASSUME NEW r \in Requests, LaunchFails(r) PROVE GuardInv'
  BY <1>10 DEF LaunchFails
<1>11. ASSUME NEW r \in Requests, Install(r) PROVE GuardInv'
  BY <1>11 DEF Install
<1>12. ASSUME NEW r \in Requests, Bump(r) PROVE GuardInv'
  BY <1>12 DEF Bump
<1>13. ASSUME NEW r \in Requests, LoadGeneration(r) PROVE GuardInv'
  BY <1>13 DEF LoadGeneration
<1>14. ASSUME NEW r \in Requests, TabLocked(r) PROVE GuardInv'
  BY <1>14 DEF TabLocked
<1>15. ASSUME NEW r \in Requests, TabReady(r) PROVE GuardInv'
  BY <1>15 DEF TabReady
<1>16. ASSUME NEW r \in Requests, TabFails(r) PROVE GuardInv'
  BY <1>16 DEF TabFails
<1>17. ASSUME NEW r \in Requests, TabDead(r) PROVE GuardInv'
  BY <1>17 DEF TabDead
<1>18. ASSUME NEW r \in Requests, Stalls(r) PROVE GuardInv'
  <2>1. CASE pc[r] = "tab"
    BY <1>18, <2>1, SMTT(30) DEF Stalls
  <2>2. CASE pc[r] = "page"
    BY <1>18, <2>2 DEF Stalls
  <2>3. QED
    BY <1>18, <2>1, <2>2 DEF Stalls
<1>19. ASSUME NEW r \in Requests, Discarded(r) PROVE GuardInv'
  BY <1>19 DEF Discarded
<1>20. ASSUME NEW r \in Requests, PageLoads(r) PROVE GuardInv'
  BY <1>20 DEF PageLoads
<1>21. ASSUME NEW r \in Requests, PageLoadsLast(r) PROVE GuardInv'
  BY <1>21 DEF PageLoadsLast
<1>22. ASSUME NEW r \in Requests, Closed(r) PROVE GuardInv'
  <2>1. UNCHANGED <<mode>> /\ pc[r] = "closing"
    BY <1>22 DEF Closed
  <2>2. CASE Answer(r, NoSession)
    BY <2>1, <2>2
  <2>3. CASE Goto(r, "discarded") /\ UNCHANGED <<readers, session, site, attempt>>
    BY <2>1, <2>3
  <2>4. QED
    BY <1>22, <2>2, <2>3 DEF Closed
<1>23. ASSUME NEW r \in Requests, PageFails(r) PROVE GuardInv'
  BY <1>23 DEF PageFails
<1>24. ASSUME NEW r \in Requests, Retry(r) PROVE GuardInv'
  BY <1>24 DEF Retry
<1>25. ASSUME NEW r \in Requests, GiveUp(r) PROVE GuardInv'
  BY <1>25 DEF GiveUp
<1>26. ASSUME NEW r \in Requests, Drop(r) PROVE GuardInv'
  BY <1>26 DEF Drop
<1>27. CASE BrowserDies
  BY <1>27 DEF BrowserDies
<1>28. CASE UNCHANGED vars
  BY <1>28 DEF vars
<1>29. QED
  BY <1>1, <1>2, <1>3, <1>4, <1>5, <1>6, <1>7, <1>8, <1>9, <1>10, <1>11, <1>12, <1>13, <1>14,
     <1>15, <1>16, <1>17, <1>18, <1>19, <1>20, <1>21, <1>22, <1>23, <1>24, <1>25, <1>26,
     <1>27, <1>28
     DEF Next, Handle, Recreate, Scrape

(* Every step keeps readers and the writer apart.                            *)
LEMMA LockStep == TypeOK /\ GuardInv /\ LockInv /\ [Next]_vars => LockInv'
<1> SUFFICES ASSUME TypeOK, GuardInv, LockInv, [Next]_vars PROVE LockInv'
  OBVIOUS
<1> USE RecoveryAssumption DEF TypeOK, GuardInv, SessionGuard, LockInv, Failed, poolVars,
        lockVars, Goto, AwaitRead, GrantRead, Answer
<1>1. ASSUME NEW r \in Requests, Arrive(r) PROVE LockInv'
  BY <1>1 DEF Arrive
<1>2. ASSUME NEW r \in Requests, SessionFound(r) PROVE LockInv'
  BY <1>2 DEF SessionFound
<1>3. ASSUME NEW r \in Requests, SessionNotFound(r) PROVE LockInv'
  BY <1>3 DEF SessionNotFound
<1>4. ASSUME NEW r \in Requests, NoSessionGiven(r) PROVE LockInv'
  BY <1>4 DEF NoSessionGiven
<1>5. ASSUME NEW r \in Requests, AcquireLocked(r) PROVE LockInv'
  BY <1>5 DEF AcquireLocked
<1>6. ASSUME NEW r \in Requests, Acquired(r) PROVE LockInv'
  BY <1>6 DEF Acquired
<1>7. ASSUME NEW r \in Requests, NotAcquired(r) PROVE LockInv'
  BY <1>7 DEF NotAcquired
<1>8. ASSUME NEW r \in Requests, CreateDead(r) PROVE LockInv'
  BY <1>8 DEF CreateDead
<1>9. ASSUME NEW r \in Requests, Launched(r) PROVE LockInv'
  BY <1>9 DEF Launched
<1>10. ASSUME NEW r \in Requests, LaunchFails(r) PROVE LockInv'
  BY <1>10 DEF LaunchFails
<1>11. ASSUME NEW r \in Requests, Install(r) PROVE LockInv'
  BY <1>11 DEF Install
<1>12. ASSUME NEW r \in Requests, Bump(r) PROVE LockInv'
  <2>1. writer = r /\ writer' = Nobody /\ UNCHANGED readers
    BY <1>12 DEF Bump
  <2>2. \E l \in {"acquire", "restarted"} : pc' = [pc EXCEPT ![r] = l]
    BY <1>12 DEF Bump
  <2>3. QED
    BY <2>1, <2>2
<1>13. ASSUME NEW r \in Requests, LoadGeneration(r) PROVE LockInv'
  BY <1>13 DEF LoadGeneration
<1>14. ASSUME NEW r \in Requests, TabLocked(r) PROVE LockInv'
  BY <1>14 DEF TabLocked
<1>15. ASSUME NEW r \in Requests, TabReady(r) PROVE LockInv'
  BY <1>15 DEF TabReady
<1>16. ASSUME NEW r \in Requests, TabFails(r) PROVE LockInv'
  BY <1>16 DEF TabFails
<1>17. ASSUME NEW r \in Requests, TabDead(r) PROVE LockInv'
  BY <1>17 DEF TabDead
<1>18. ASSUME NEW r \in Requests, Stalls(r) PROVE LockInv'
  BY <1>18 DEF Stalls
<1>19. ASSUME NEW r \in Requests, Discarded(r) PROVE LockInv'
  BY <1>19 DEF Discarded
<1>20. ASSUME NEW r \in Requests, PageLoads(r) PROVE LockInv'
  BY <1>20 DEF PageLoads
<1>21. ASSUME NEW r \in Requests, PageLoadsLast(r) PROVE LockInv'
  BY <1>21 DEF PageLoadsLast
<1>22. ASSUME NEW r \in Requests, Closed(r) PROVE LockInv'
  BY <1>22 DEF Closed
<1>23. ASSUME NEW r \in Requests, PageFails(r) PROVE LockInv'
  BY <1>23 DEF PageFails
<1>24. ASSUME NEW r \in Requests, Retry(r) PROVE LockInv'
  BY <1>24 DEF Retry
<1>25. ASSUME NEW r \in Requests, GiveUp(r) PROVE LockInv'
  BY <1>25 DEF GiveUp
<1>26. ASSUME NEW r \in Requests, Drop(r) PROVE LockInv'
  BY <1>26 DEF Drop
<1>27. CASE BrowserDies
  BY <1>27 DEF BrowserDies
<1>28. CASE UNCHANGED vars
  BY <1>28 DEF vars
<1>29. QED
  BY <1>1, <1>2, <1>3, <1>4, <1>5, <1>6, <1>7, <1>8, <1>9, <1>10, <1>11, <1>12, <1>13, <1>14,
     <1>15, <1>16, <1>17, <1>18, <1>19, <1>20, <1>21, <1>22, <1>23, <1>24, <1>25, <1>26,
     <1>27, <1>28
     DEF Next, Handle, Recreate, Scrape

(* Every step keeps the generation in line with the installed pool: contexts  *)
(* are bound under a read guard, never while a pool is being installed.      *)
LEMMA GenStep == TypeOK /\ GuardInv /\ LockInv /\ GenInv /\ [Next]_vars => GenInv'
<1> SUFFICES ASSUME TypeOK, GuardInv, LockInv, GenInv, [Next]_vars PROVE GenInv'
  OBVIOUS
<1> USE RecoveryAssumption DEF TypeOK, GuardInv, SessionGuard, LockInv, GenInv, poolVars,
        lockVars, Goto, AwaitRead, GrantRead, Answer
<1>1. ASSUME NEW r \in Requests, Arrive(r) PROVE GenInv'
  BY <1>1 DEF Arrive
<1>2. ASSUME NEW r \in Requests, SessionFound(r) PROVE GenInv'
  BY <1>2 DEF SessionFound
<1>3. ASSUME NEW r \in Requests, SessionNotFound(r) PROVE GenInv'
  BY <1>3 DEF SessionNotFound
<1>4. ASSUME NEW r \in Requests, NoSessionGiven(r) PROVE GenInv'
  BY <1>4 DEF NoSessionGiven
<1>5. ASSUME NEW r \in Requests, AcquireLocked(r) PROVE GenInv'
  BY <1>5 DEF AcquireLocked
<1>6. ASSUME NEW r \in Requests, Acquired(r) PROVE GenInv'
  BY <1>6 DEF Acquired
<1>7. ASSUME NEW r \in Requests, NotAcquired(r) PROVE GenInv'
  BY <1>7 DEF NotAcquired
<1>8. ASSUME NEW r \in Requests, CreateDead(r) PROVE GenInv'
  BY <1>8 DEF CreateDead
<1>9. ASSUME NEW r \in Requests, Launched(r) PROVE GenInv'
  BY <1>9 DEF Launched
<1>10. ASSUME NEW r \in Requests, LaunchFails(r) PROVE GenInv'
  BY <1>10 DEF LaunchFails
<1>11. ASSUME NEW r \in Requests, Install(r) PROVE GenInv'
  BY <1>11 DEF Install
<1>12. ASSUME NEW r \in Requests, Bump(r) PROVE GenInv'
  BY <1>12 DEF Bump
<1>13. ASSUME NEW r \in Requests, LoadGeneration(r) PROVE GenInv'
  BY <1>13 DEF LoadGeneration
<1>14. ASSUME NEW r \in Requests, TabLocked(r) PROVE GenInv'
  BY <1>14 DEF TabLocked
<1>15. ASSUME NEW r \in Requests, TabReady(r) PROVE GenInv'
  BY <1>15 DEF TabReady
<1>16. ASSUME NEW r \in Requests, TabFails(r) PROVE GenInv'
  BY <1>16 DEF TabFails
<1>17. ASSUME NEW r \in Requests, TabDead(r) PROVE GenInv'
  BY <1>17 DEF TabDead
<1>18. ASSUME NEW r \in Requests, Stalls(r) PROVE GenInv'
  BY <1>18 DEF Stalls
<1>19. ASSUME NEW r \in Requests, Discarded(r) PROVE GenInv'
  BY <1>19 DEF Discarded
<1>20. ASSUME NEW r \in Requests, PageLoads(r) PROVE GenInv'
  BY <1>20 DEF PageLoads
<1>21. ASSUME NEW r \in Requests, PageLoadsLast(r) PROVE GenInv'
  BY <1>21 DEF PageLoadsLast
<1>22. ASSUME NEW r \in Requests, Closed(r) PROVE GenInv'
  BY <1>22 DEF Closed
<1>23. ASSUME NEW r \in Requests, PageFails(r) PROVE GenInv'
  BY <1>23 DEF PageFails
<1>24. ASSUME NEW r \in Requests, Retry(r) PROVE GenInv'
  BY <1>24 DEF Retry
<1>25. ASSUME NEW r \in Requests, GiveUp(r) PROVE GenInv'
  BY <1>25 DEF GiveUp
<1>26. ASSUME NEW r \in Requests, Drop(r) PROVE GenInv'
  BY <1>26 DEF Drop
<1>27. CASE BrowserDies
  BY <1>27 DEF BrowserDies
<1>28. CASE UNCHANGED vars
  BY <1>28 DEF vars
<1>29. QED
  BY <1>1, <1>2, <1>3, <1>4, <1>5, <1>6, <1>7, <1>8, <1>9, <1>10, <1>11, <1>12, <1>13, <1>14,
     <1>15, <1>16, <1>17, <1>18, <1>19, <1>20, <1>21, <1>22, <1>23, <1>24, <1>25, <1>26,
     <1>27, <1>28
     DEF Next, Handle, Recreate, Scrape

(* Every step keeps what a request loaded in line with its context.          *)
LEMMA StartStep == TypeOK /\ LockInv /\ GenInv /\ StartInv /\ [Next]_vars => StartInv'
<1> SUFFICES ASSUME TypeOK, LockInv, GenInv, StartInv, [Next]_vars PROVE StartInv'
  OBVIOUS
<1> USE RecoveryAssumption DEF TypeOK, LockInv, GenInv, StartInv, FirstAttempt, Failed,
        poolVars, lockVars, Goto, AwaitRead, GrantRead, Answer
<1>1. ASSUME NEW r \in Requests, Arrive(r) PROVE StartInv'
  BY <1>1 DEF Arrive
<1>2. ASSUME NEW r \in Requests, SessionFound(r) PROVE StartInv'
  BY <1>2 DEF SessionFound
<1>3. ASSUME NEW r \in Requests, SessionNotFound(r) PROVE StartInv'
  BY <1>3 DEF SessionNotFound
<1>4. ASSUME NEW r \in Requests, NoSessionGiven(r) PROVE StartInv'
  BY <1>4 DEF NoSessionGiven
<1>5. ASSUME NEW r \in Requests, AcquireLocked(r) PROVE StartInv'
  BY <1>5 DEF AcquireLocked
<1>6. ASSUME NEW r \in Requests, Acquired(r) PROVE StartInv'
  BY <1>6 DEF Acquired
<1>7. ASSUME NEW r \in Requests, NotAcquired(r) PROVE StartInv'
  BY <1>7 DEF NotAcquired
<1>8. ASSUME NEW r \in Requests, CreateDead(r) PROVE StartInv'
  BY <1>8 DEF CreateDead
<1>9. ASSUME NEW r \in Requests, Launched(r) PROVE StartInv'
  BY <1>9 DEF Launched
<1>10. ASSUME NEW r \in Requests, LaunchFails(r) PROVE StartInv'
  BY <1>10 DEF LaunchFails
<1>11. ASSUME NEW r \in Requests, Install(r) PROVE StartInv'
  BY <1>11 DEF Install
<1>12. ASSUME NEW r \in Requests, Bump(r) PROVE StartInv'
  <2>1. writer = r /\ writer # Nobody /\ gen' = gen + 1
        /\ UNCHANGED <<pool, ctx, start, attempt>>
    BY <1>12 DEF Bump
  <2>2. CASE site[r] = "acquire" /\ pc' = [pc EXCEPT ![r] = "acquire"] /\ UNCHANGED site
    BY <2>1, <2>2
  <2>3. CASE /\ site[r] = "page" /\ pc' = [pc EXCEPT ![r] = "restarted"]
             /\ site' = [site EXCEPT ![r] = "none"]
    <3>1. pc[r] = "swapped"
      BY <1>12 DEF Bump
    <3>2. QED
      BY <2>1, <2>3, <3>1
  <2>4. QED
    BY <1>12, <2>2, <2>3 DEF Bump
<1>13. ASSUME NEW r \in Requests, LoadGeneration(r) PROVE StartInv'
  BY <1>13 DEF LoadGeneration
<1>14. ASSUME NEW r \in Requests, TabLocked(r) PROVE StartInv'
  BY <1>14 DEF TabLocked
<1>15. ASSUME NEW r \in Requests, TabReady(r) PROVE StartInv'
  BY <1>15 DEF TabReady
<1>16. ASSUME NEW r \in Requests, TabFails(r) PROVE StartInv'
  BY <1>16 DEF TabFails
<1>17. ASSUME NEW r \in Requests, TabDead(r) PROVE StartInv'
  BY <1>17 DEF TabDead
<1>18. ASSUME NEW r \in Requests, Stalls(r) PROVE StartInv'
  BY <1>18 DEF Stalls
<1>19. ASSUME NEW r \in Requests, Discarded(r) PROVE StartInv'
  BY <1>19 DEF Discarded
<1>20. ASSUME NEW r \in Requests, PageLoads(r) PROVE StartInv'
  BY <1>20 DEF PageLoads
<1>21. ASSUME NEW r \in Requests, PageLoadsLast(r) PROVE StartInv'
  BY <1>21 DEF PageLoadsLast
<1>22. ASSUME NEW r \in Requests, Closed(r) PROVE StartInv'
  <2>1. UNCHANGED <<pool, gen, ctx, start>> /\ pc[r] = "closing"
    BY <1>22 DEF Closed
  <2>2. CASE Answer(r, NoSession)
    BY <2>1, <2>2
  <2>3. CASE Goto(r, "discarded") /\ UNCHANGED <<readers, session, site, attempt>>
    BY <2>1, <2>3
  <2>4. QED
    BY <1>22, <2>2, <2>3 DEF Closed
<1>23. ASSUME NEW r \in Requests, PageFails(r) PROVE StartInv'
  BY <1>23 DEF PageFails
<1>24. ASSUME NEW r \in Requests, Retry(r) PROVE StartInv'
  BY <1>24 DEF Retry
<1>25. ASSUME NEW r \in Requests, GiveUp(r) PROVE StartInv'
  BY <1>25 DEF GiveUp
<1>26. ASSUME NEW r \in Requests, Drop(r) PROVE StartInv'
  BY <1>26 DEF Drop
<1>27. CASE BrowserDies
  BY <1>27 DEF BrowserDies
<1>28. CASE UNCHANGED vars
  BY <1>28 DEF vars
<1>29. QED
  BY <1>1, <1>2, <1>3, <1>4, <1>5, <1>6, <1>7, <1>8, <1>9, <1>10, <1>11, <1>12, <1>13, <1>14,
     <1>15, <1>16, <1>17, <1>18, <1>19, <1>20, <1>21, <1>22, <1>23, <1>24, <1>25, <1>26,
     <1>27, <1>28
     DEF Next, Handle, Recreate, Scrape

(* Every step of the next-state relation keeps the inductive invariant.      *)
LEMMA StepHolds == IInv /\ [Next]_vars => IInv'
BY TypeStep, GuardStep, LockStep, GenStep, StartStep DEF IInv

(* The inductive invariant holds in every reachable state.                   *)
LEMMA Inductive == Spec => []IInv
BY InitHolds, StepHolds, PTL DEF Spec

(* Every variable keeps its type: no guard is dropped twice, and no request  *)
(* is run more than twice (service.rs, scrape_page: "Exactly once").         *)
THEOREM Typing == Spec => []TypeOK
<1>1. IInv => TypeOK
  BY DEF IInv
<1>2. QED
  BY <1>1, Inductive, PTL

(* No request sees the new pool with the old generation, as                  *)
(* recreate_browser_pool promises by bumping under the write guard.          *)
THEOREM GenerationExact == Spec => []GenerationMatchesPool
<1>1. IInv => GenerationMatchesPool
  BY DEF IInv, TypeOK, LockInv, GenInv, GenerationMatchesPool
<1>2. QED
  BY <1>1, Inductive, PTL

(* A request that replaced the pool during its first attempt always gets its *)
(* second: its handler finds the generation moved.                           *)
THEOREM RestartNotAnswered == Spec => []RestartedIsRetried
<1>1. IInv => RestartedIsRetried
  BY DEF IInv, TypeOK, StartInv, FirstAttempt, Failed, RestartedIsRetried
<1>2. QED
  BY <1>1, Inductive, PTL

(* A request is run again only when the browser its context lived in is      *)
(* dead, so no page the site answered is loaded twice because of others.     *)
THEOREM RetryPrecise == Spec => RetryOnlyAfterDeath
<1> DEFINE DeadRetry == \A r \in Requests : attempt[r] = 1 /\ attempt'[r] = 2 => Dead(ctx[r])
<1>1. IInv /\ [Next]_vars => [DeadRetry]_vars
  <2> SUFFICES ASSUME IInv, [Next]_vars, NEW r \in Requests, attempt[r] = 1, attempt'[r] = 2
               PROVE Dead(ctx[r])
    OBVIOUS
  <2> USE DEF IInv, TypeOK
  <2>1. ASSUME NEW q \in Requests, Retry(q) PROVE Dead(ctx[r])
    <3>1. q = r
      BY <2>1 DEF Retry
    <3>2. ctx[r] # pool /\ ctx[r] <= pool
      BY <2>1, <3>1 DEF Retry, StartInv, FirstAttempt, Failed, GenInv
    <3>3. QED
      BY <3>2 DEF Dead
  <2>2. ASSUME NEW q \in Requests, attempt' = attempt \/ attempt' = [attempt EXCEPT ![q] = 1]
        PROVE FALSE
    BY <2>2
  <2>3. QED
    BY <2>1, <2>2 DEF Next, vars, Handle, Recreate, Scrape, Answer, Arrive, SessionFound,
       SessionNotFound, NoSessionGiven, AcquireLocked, Acquired, NotAcquired, CreateDead,
       Launched, LaunchFails, Install, Bump, LoadGeneration, TabLocked, TabReady, TabFails,
       TabDead, Stalls, Discarded, PageLoads, PageLoadsLast, Closed, PageFails, GiveUp, Drop,
       BrowserDies
<1>2. QED
  BY <1>1, Inductive, PTL DEF Spec, RetryOnlyAfterDeath

(* While a pool is being installed no request reads the pool.                *)
THEOREM ReadersAndWriterApart == Spec => []LockExclusion
<1>1. IInv => LockExclusion
  BY DEF IInv, LockInv, LockExclusion
<1>2. QED
  BY <1>1, Inductive, PTL
================================================================================
