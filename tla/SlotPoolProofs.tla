----------------------------- MODULE SlotPoolProofs -----------------------------
(***************************************************************************)
(* BrowserPool, continued: what the lifecycle monitor keeps while it works *)
(* without the lock, how far a context's quota can be overshot, how a      *)
(* context can be lost in Chrome, and that an AlwaysNew or Reusable pool   *)
(* is the slot allocator of SlotPool.                                      *)
(*                                                                         *)
(* Two more parts join the inductive invariant of BrowserPoolProofs:       *)
(* 4. The monitor: MonitorInv.  What it has claimed stays in the pool      *)
(*    because nobody else takes a busy context out; the context it has     *)
(*    built in exchange is known to nobody until it is swapped in.         *)
(* 5. The quota: QuotaInv.  Whoever may still start a request on a context *)
(*    without checking its count again is counted beforehand.              *)
(***************************************************************************)
EXTENDS BrowserPoolProofs

(* Phase 1 looks at contexts of the pool under its lock; from then on the    *)
(* claimed contexts stay in it.  The replacement the monitor has built, like  *)
(* a context a request has built and not pushed, is in nobody else's hands    *)
(* and not in the pool.                                                      *)
MonitorInv ==
  /\ mpc \in {"scan", "recycle", "swap"} => mode = "reusable"
  /\ mode = "always_new" => mpc = "sleep"
  /\ mpc \in {"sleep", "due"} => claimed = {} /\ cur = NoContext
  /\ mpc = "scan" => todo \subseteq pool /\ cur \in pool \cup {NoContext}
  /\ mpc = "swap" => cur # NoContext /\ fresh \in Contexts \ (pool \cup MonitorOwns)
  /\ mpc # "swap" => fresh = NoContext
  /\ mpc \in {"recycle", "swap"} => cur \notin claimed
  /\ MonitorOwns \subseteq pool
  /\ \A r \in Requests :
       /\ pc[r] \in {"limit", "full", "last"} => mpc # "scan"
       /\ pc[r] = "built" => held[r] \notin pool
       /\ Owns(r) => held[r] # fresh

(* Every step keeps it: the monitor's own, because nobody else touches what   *)
(* it owns; everyone else's, because what they take is idle or their own.     *)
LEMMA MonitorStep ==
  ASSUME IInv, MonitorInv, [Next]_vars
  PROVE  MonitorInv'
<1> USE PoolAssumption DEF PoolAssumption, IInv, TypeOK, Holding, OwnInv, StayInv,
       MonitorInv, MonitorOwns, Owns, Guarding, Using, CanWrite, WriteHeld, Goto, ctxVars, chromeVars, reqVars, monVars
<1>1. ASSUME NEW r \in Requests, NEW o \in Origins \cup {NoOrigin},
             NEW country \in CountryCodes, Arrive(r, o, country)
      PROVE  MonitorInv'
  <2>1. CASE country
    BY <1>1, <2>1 DEF Arrive, Candidates
  <2>2. CASE ~(country)
    BY <1>1, <2>2 DEF Arrive, Candidates
  <2> QED BY <2>1, <2>2
<1>2. ASSUME NEW r \in Requests, NEW c \in Contexts, TryCandidate(r, c) PROVE MonitorInv'
  <2>1. CASE c \in busy
    BY <1>2, <2>1 DEF TryCandidate, Hold
  <2>2. CASE ~(c \in busy)
    BY <1>2, <2>2 DEF TryCandidate, Hold
  <2> QED BY <2>1, <2>2
<1>3. ASSUME NEW r \in Requests, NEW c \in Contexts, LockedReuse(r, c) PROVE MonitorInv'
  BY <1>3 DEF LockedReuse, Hold, Candidates
<1>4. ASSUME NEW r \in Requests, NEW c \in Contexts, LockedReplace(r, c) PROVE MonitorInv'
  BY <1>4 DEF LockedReplace, Remove, Reserve, UsedUpIdle
<1>5. ASSUME NEW r \in Requests, NEW c \in Contexts, LockedFallback(r, c) PROVE MonitorInv'
  BY <1>5 DEF LockedFallback, Hold, Quarantined
<1>6. ASSUME NEW r \in Requests, NoCandidateLeft(r) PROVE MonitorInv'
  BY <1>6 DEF NoCandidateLeft
<1>7. ASSUME NEW r \in Requests, LockedReserve(r) PROVE MonitorInv'
  BY <1>7 DEF LockedReserve, Reserve
<1>8. ASSUME NEW r \in Requests, LockedRefuse(r) PROVE MonitorInv'
  BY <1>8 DEF LockedRefuse
<1>9. ASSUME NEW r \in Requests, AcquireAlwaysNew(r) PROVE MonitorInv'
  <2>1. CASE Cardinality(pool \cap busy) + pending < MaxContexts
    BY <1>9, <2>1 DEF AcquireAlwaysNew, Remove, Reserve
  <2>2. CASE ~(Cardinality(pool \cap busy) + pending < MaxContexts)
    BY <1>9, <2>2 DEF AcquireAlwaysNew, Remove, Reserve
  <2> QED BY <2>1, <2>2
<1>10. ASSUME NEW r \in Requests, AcquireDedicated(r) PROVE MonitorInv'
  BY <1>10 DEF AcquireDedicated, Reserve
<1>11. ASSUME NEW r \in Requests, NEW c \in Contexts, BuildSucceeds(r, c) PROVE MonitorInv'
  BY <1>11 DEF BuildSucceeds, Hold, Reset, Unused
<1>12. ASSUME NEW r \in Requests, BuildFails(r) PROVE MonitorInv'
  BY <1>12 DEF BuildFails
<1>13. ASSUME NEW r \in Requests, Push(r) PROVE MonitorInv'
  BY <1>13 DEF Push
<1>14. ASSUME NEW r \in Requests, NEW c \in Contexts, FindSession(r, c) PROVE MonitorInv'
  BY <1>14 DEF FindSession, Hold
<1>15. ASSUME NEW r \in Requests, CheckUsedUp(r) PROVE MonitorInv'
  BY <1>15 DEF CheckUsedUp
<1>16. ASSUME NEW r \in Requests, EndSession(r) PROVE MonitorInv'
  <2>1. CASE held[r] \in pool \ busy
    BY <1>16, <2>1 DEF EndSession, Hold, Remove
  <2>2. CASE ~(held[r] \in pool \ busy)
    BY <1>16, <2>2 DEF EndSession, Hold, Remove
  <2> QED BY <2>1, <2>2
<1>17. ASSUME NEW r \in Requests, ClaimSession(r) PROVE MonitorInv'
  <2>1. CASE held[r] \in busy
    BY <1>17, <2>1 DEF ClaimSession, Hold
  <2>2. CASE ~(held[r] \in busy)
    BY <1>17, <2>2 DEF ClaimSession, Hold
  <2> QED BY <2>1, <2>2
<1>18. ASSUME NEW r \in Requests, Answered(r) PROVE MonitorInv'
  BY <1>18 DEF Answered
<1>19. ASSUME NEW r \in Requests, Begin(r) PROVE MonitorInv'
  BY <1>19 DEF Begin
<1>20. ASSUME NEW r \in Requests, Discard(r) PROVE MonitorInv'
  BY <1>20 DEF Discard
<1>21. ASSUME NEW r \in Requests, FinishAlwaysNew(r) PROVE MonitorInv'
  BY <1>21 DEF FinishAlwaysNew, DropGuards, Hold
<1>22. ASSUME NEW r \in Requests, FinishReusable(r) PROVE MonitorInv'
  BY <1>22 DEF FinishReusable, DropGuards, Hold
<1>23. ASSUME NEW r \in Requests, FinishDedicated(r) PROVE MonitorInv'
  BY <1>23 DEF FinishDedicated, DropGuards, Hold
<1>24. ASSUME NEW r \in Requests, CancelWhileUsing(r) PROVE MonitorInv'
  BY <1>24 DEF CancelWhileUsing, DropGuards, Hold
<1>25. ASSUME NEW r \in Requests, CancelWhileWaiting(r) PROVE MonitorInv'
  BY <1>25 DEF CancelWhileWaiting, Hold
<1>26. ASSUME NEW r \in Requests, CancelWhileBuilt(r) PROVE MonitorInv'
  BY <1>26 DEF CancelWhileBuilt, Hold
<1>27. ASSUME NEW c \in Contexts, DestroyDoomed(c) PROVE MonitorInv'
  <2>1. CASE c \in pool
    BY <1>27, <2>1 DEF DestroyDoomed, Remove
  <2>2. CASE ~(c \in pool)
    BY <1>27, <2>2 DEF DestroyDoomed, Remove
  <2> QED BY <2>1, <2>2
<1>28. ASSUME NEW c \in Contexts, Release(c) PROVE MonitorInv'
  BY <1>28 DEF Release
<1>29. ASSUME SweepAlwaysNew PROVE MonitorInv'
  BY <1>29 DEF SweepAlwaysNew, Remove
<1>30. ASSUME StartSweep PROVE MonitorInv'
  BY <1>30 DEF StartSweep
<1>31. ASSUME Tick PROVE MonitorInv'
  BY <1>31 DEF Tick
<1>32. ASSUME StartScan PROVE MonitorInv'
  BY <1>32 DEF StartScan
<1>33. ASSUME ClaimExpired PROVE MonitorInv'
  <2>1. CASE cur \in busy
    BY <1>33, <2>1 DEF ClaimExpired
  <2>2. CASE ~(cur \in busy)
    BY <1>33, <2>2 DEF ClaimExpired
  <2> QED BY <2>1, <2>2
<1>34. ASSUME EndScan PROVE MonitorInv'
  BY <1>34 DEF EndScan
<1>35. ASSUME Swap PROVE MonitorInv'
  <2>1. CASE cur \in pool
    BY <1>35, <2>1 DEF Swap
  <2>2. CASE ~(cur \in pool)
    BY <1>35, <2>2 DEF Swap
  <2> QED BY <2>1, <2>2
<1>36. ASSUME NEW c \in Contexts, LookAt(c) PROVE MonitorInv'
  BY <1>36 DEF LookAt
<1>37. ASSUME NEW c \in Contexts, ReleaseClaimed(c) PROVE MonitorInv'
  BY <1>37 DEF ReleaseClaimed
<1>38. ASSUME NEW c \in Contexts, BuildReplacement(c) PROVE MonitorInv'
  BY <1>38 DEF Unused, BuildReplacement, Reset
<1>39. ASSUME NEW c \in Contexts, Age(c) PROVE MonitorInv'
  BY <1>39 DEF Age
<1>40. ASSUME NEW c \in Contexts, GrowStale(c) PROVE MonitorInv'
  BY <1>40 DEF GrowStale
<1>41. ASSUME NEW c \in Contexts, NEW o \in Origins, QuarantineEnds(c, o) PROVE MonitorInv'
  BY <1>41 DEF QuarantineEnds
<1>42. ASSUME NEW r \in Requests, NothingToReuse(r) PROVE MonitorInv'
  BY <1>42 DEF NothingToReuse
<1>43. ASSUME NEW r \in Requests, NothingToReplace(r) PROVE MonitorInv'
  BY <1>43 DEF NothingToReplace
<1>44. ASSUME NEW r \in Requests, DestroyHeld(r) PROVE MonitorInv'
  <2>1. CASE held[r] \in pool
    BY <1>44, <2>1 DEF DestroyHeld, Remove, CanWrite
  <2>2. CASE ~(held[r] \in pool)
    BY <1>44, <2>2 DEF DestroyHeld, Remove, CanWrite
  <2> QED BY <2>1, <2>2
<1>45. ASSUME NEW r \in Requests, FinishDestroyed(r) PROVE MonitorInv'
  BY <1>45 DEF FinishDestroyed, DropGuards, Hold
<1>46. ASSUME NEW c \in Contexts, SweepLook(c) PROVE MonitorInv'
  BY <1>46 DEF SweepLook
<1>47. ASSUME SweepJudge PROVE MonitorInv'
  BY <1>47 DEF SweepJudge
<1>48. ASSUME EndSweep PROVE MonitorInv'
  BY <1>48 DEF EndSweep, Remove
<1>49. ASSUME UNCHANGED vars PROVE MonitorInv'
  BY <1>49, SMTT(30) DEF vars
<1> QED
  BY <1>1, <1>2, <1>3, <1>4, <1>5, <1>6, <1>7, <1>8, <1>9, <1>10, <1>11, <1>12, <1>13, <1>14,
     <1>15, <1>16, <1>17, <1>18, <1>19, <1>20, <1>21, <1>22, <1>23, <1>24, <1>25, <1>26,
     <1>27, <1>28, <1>29, <1>30, <1>31, <1>32, <1>33, <1>34, <1>35, <1>36, <1>37, <1>38,
     <1>39, <1>40, <1>41, <1>42, <1>43, <1>44, <1>45, <1>46, <1>47, <1>48, <1>49 DEF Next,
     Acquire, Continue, Scrape, Cancel, Cleanup, Monitor, Environment

--------------------------------------------------------------------------------
(* The quota.  A request is coming to a context when it may start on it      *)
(* without looking at its count again: it has it among the candidates it     *)
(* collected, or has built or claimed it.                                    *)
Coming(c) ==
  {s \in Requests : \/ pc[s] = "look" /\ c \in cand[s]
                    \/ pc[s] \in {"built", "claimed"} /\ held[s] = c}

QuotaInv ==
  mode = "reusable" /\ Strategy # "TimeBasedOnly" =>
    \A c \in Contexts :
      served[c] + Cardinality(Coming(c)) <= MaxRequests - 1 + Cardinality(Requests)

(* What a step does to a context: nobody new is coming; or its count is below *)
(* the quota; or one that was coming has started.                            *)
QuotaMove(c) ==
  \/ served'[c] = served[c] /\ Coming(c)' \subseteq Coming(c)
  \/ served'[c] < MaxRequests
  \/ /\ served'[c] \in {served[c], served[c] + 1}
     /\ Coming(c)' \subseteq Coming(c)
     /\ \E r \in Coming(c) : r \notin Coming(c)'

LEMMA QuotaMoves ==
  ASSUME IInv, MaxRequests > 0, [Next]_vars,
         mode = "reusable", Strategy # "TimeBasedOnly", NEW x \in Contexts
  PROVE  QuotaMove(x)
<1> USE PoolAssumption DEF PoolAssumption, IInv, TypeOK, Holding, StayInv, QuotaMove, Coming,
       Goto, ctxVars, chromeVars, reqVars, monVars
<1>1. ASSUME NEW r \in Requests, NEW o \in Origins \cup {NoOrigin},
             NEW country \in CountryCodes, Arrive(r, o, country)
      PROVE  QuotaMove(x)
  <2>1. CASE country
    BY <1>1, <2>1 DEF UsedUp, Arrive, Candidates
  <2>2. CASE ~(country)
    BY <1>1, <2>2 DEF UsedUp, Arrive, Candidates
  <2> QED BY <2>1, <2>2
<1>2. ASSUME NEW r \in Requests, NEW c \in Contexts, TryCandidate(r, c) PROVE QuotaMove(x)
  <2>1. CASE c \in busy
    BY <1>2, <2>1 DEF TryCandidate, Hold
  <2>2. CASE ~(c \in busy)
    BY <1>2, <2>2 DEF TryCandidate, Hold
  <2> QED BY <2>1, <2>2
<1>3. ASSUME NEW r \in Requests, NEW c \in Contexts, LockedReuse(r, c) PROVE QuotaMove(x)
  BY <1>3 DEF UsedUp, LockedReuse, Hold, Candidates
<1>4. ASSUME NEW r \in Requests, NEW c \in Contexts, LockedReplace(r, c) PROVE QuotaMove(x)
  BY <1>4 DEF LockedReplace, Remove, Reserve, UsedUpIdle
<1>5. ASSUME NEW r \in Requests, NEW c \in Contexts, LockedFallback(r, c) PROVE QuotaMove(x)
  BY <1>5 DEF UsedUp, LockedFallback, Hold, Quarantined
<1>6. ASSUME NEW r \in Requests, NoCandidateLeft(r) PROVE QuotaMove(x)
  BY <1>6 DEF NoCandidateLeft
<1>7. ASSUME NEW r \in Requests, LockedReserve(r) PROVE QuotaMove(x)
  BY <1>7 DEF LockedReserve, Reserve
<1>8. ASSUME NEW r \in Requests, LockedRefuse(r) PROVE QuotaMove(x)
  BY <1>8 DEF LockedRefuse
<1>9. ASSUME NEW r \in Requests, AcquireAlwaysNew(r) PROVE QuotaMove(x)
  BY <1>9 DEF AcquireAlwaysNew, Remove, Reserve
<1>10. ASSUME NEW r \in Requests, AcquireDedicated(r) PROVE QuotaMove(x)
  BY <1>10 DEF AcquireDedicated, Reserve
<1>11. ASSUME NEW r \in Requests, NEW c \in Contexts, BuildSucceeds(r, c) PROVE QuotaMove(x)
  BY <1>11 DEF BuildSucceeds, Hold, Reset, Unused
<1>12. ASSUME NEW r \in Requests, BuildFails(r) PROVE QuotaMove(x)
  BY <1>12 DEF BuildFails
<1>13. ASSUME NEW r \in Requests, Push(r) PROVE QuotaMove(x)
  BY <1>13 DEF Push
<1>14. ASSUME NEW r \in Requests, NEW c \in Contexts, FindSession(r, c) PROVE QuotaMove(x)
  BY <1>14 DEF FindSession, Hold
<1>15. ASSUME NEW r \in Requests, CheckUsedUp(r) PROVE QuotaMove(x)
  BY <1>15 DEF CheckUsedUp
<1>16. ASSUME NEW r \in Requests, EndSession(r) PROVE QuotaMove(x)
  <2>1. CASE held[r] \in pool \ busy
    BY <1>16, <2>1 DEF EndSession, Hold, Remove
  <2>2. CASE ~(held[r] \in pool \ busy)
    BY <1>16, <2>2 DEF EndSession, Hold, Remove
  <2> QED BY <2>1, <2>2
<1>17. ASSUME NEW r \in Requests, ClaimSession(r) PROVE QuotaMove(x)
  <2>1. CASE held[r] \in busy
    BY <1>17, <2>1 DEF ClaimSession, Hold
  <2>2. CASE ~(held[r] \in busy)
    BY <1>17, <2>2 DEF ClaimSession, Hold
  <2> QED BY <2>1, <2>2
<1>18. ASSUME NEW r \in Requests, Answered(r) PROVE QuotaMove(x)
  BY <1>18 DEF Answered
<1>19. ASSUME NEW r \in Requests, Begin(r) PROVE QuotaMove(x)
  BY <1>19 DEF Begin
<1>20. ASSUME NEW r \in Requests, Discard(r) PROVE QuotaMove(x)
  BY <1>20 DEF Discard
<1>21. ASSUME NEW r \in Requests, FinishAlwaysNew(r) PROVE QuotaMove(x)
  BY <1>21 DEF FinishAlwaysNew, DropGuards, Hold
<1>22. ASSUME NEW r \in Requests, FinishReusable(r) PROVE QuotaMove(x)
  BY <1>22 DEF FinishReusable, DropGuards, Hold
<1>23. ASSUME NEW r \in Requests, FinishDedicated(r) PROVE QuotaMove(x)
  BY <1>23 DEF FinishDedicated, DropGuards, Hold
<1>24. ASSUME NEW r \in Requests, CancelWhileUsing(r) PROVE QuotaMove(x)
  BY <1>24 DEF CancelWhileUsing, DropGuards, Hold
<1>25. ASSUME NEW r \in Requests, CancelWhileWaiting(r) PROVE QuotaMove(x)
  BY <1>25 DEF CancelWhileWaiting, Hold
<1>26. ASSUME NEW r \in Requests, CancelWhileBuilt(r) PROVE QuotaMove(x)
  BY <1>26 DEF CancelWhileBuilt, Hold
<1>27. ASSUME NEW c \in Contexts, DestroyDoomed(c) PROVE QuotaMove(x)
  <2>1. CASE c \in pool
    BY <1>27, <2>1 DEF DestroyDoomed, Remove
  <2>2. CASE ~(c \in pool)
    BY <1>27, <2>2 DEF DestroyDoomed, Remove
  <2> QED BY <2>1, <2>2
<1>28. ASSUME NEW c \in Contexts, Release(c) PROVE QuotaMove(x)
  BY <1>28 DEF Release
<1>29. ASSUME SweepAlwaysNew PROVE QuotaMove(x)
  BY <1>29 DEF SweepAlwaysNew, Remove
<1>30. ASSUME StartSweep PROVE QuotaMove(x)
  BY <1>30 DEF StartSweep
<1>31. ASSUME Tick PROVE QuotaMove(x)
  BY <1>31 DEF Tick
<1>32. ASSUME StartScan PROVE QuotaMove(x)
  BY <1>32 DEF StartScan
<1>33. ASSUME ClaimExpired PROVE QuotaMove(x)
  <2>1. CASE cur \in busy
    BY <1>33, <2>1 DEF ClaimExpired
  <2>2. CASE ~(cur \in busy)
    BY <1>33, <2>2 DEF ClaimExpired
  <2> QED BY <2>1, <2>2
<1>34. ASSUME EndScan PROVE QuotaMove(x)
  BY <1>34 DEF EndScan
<1>35. ASSUME Swap PROVE QuotaMove(x)
  <2>1. CASE cur \in pool
    BY <1>35, <2>1 DEF Swap
  <2>2. CASE ~(cur \in pool)
    BY <1>35, <2>2 DEF Swap
  <2> QED BY <2>1, <2>2
<1>36. ASSUME NEW c \in Contexts, LookAt(c) PROVE QuotaMove(x)
  BY <1>36 DEF LookAt
<1>37. ASSUME NEW c \in Contexts, ReleaseClaimed(c) PROVE QuotaMove(x)
  BY <1>37 DEF ReleaseClaimed
<1>38. ASSUME NEW c \in Contexts, BuildReplacement(c) PROVE QuotaMove(x)
  BY <1>38 DEF BuildReplacement, Reset
<1>39. ASSUME NEW c \in Contexts, Age(c) PROVE QuotaMove(x)
  BY <1>39 DEF Age
<1>40. ASSUME NEW c \in Contexts, GrowStale(c) PROVE QuotaMove(x)
  BY <1>40 DEF GrowStale
<1>41. ASSUME NEW c \in Contexts, NEW o \in Origins, QuarantineEnds(c, o) PROVE QuotaMove(x)
  BY <1>41 DEF QuarantineEnds
<1>42. ASSUME NEW r \in Requests, NothingToReuse(r) PROVE QuotaMove(x)
  BY <1>42 DEF NothingToReuse
<1>43. ASSUME NEW r \in Requests, NothingToReplace(r) PROVE QuotaMove(x)
  BY <1>43 DEF NothingToReplace
<1>44. ASSUME NEW r \in Requests, DestroyHeld(r) PROVE QuotaMove(x)
  <2>1. CASE held[r] \in pool
    BY <1>44, <2>1 DEF DestroyHeld, Remove
  <2>2. CASE ~(held[r] \in pool)
    BY <1>44, <2>2 DEF DestroyHeld, Remove
  <2> QED BY <2>1, <2>2
<1>45. ASSUME NEW r \in Requests, FinishDestroyed(r) PROVE QuotaMove(x)
  BY <1>45 DEF FinishDestroyed, DropGuards, Hold
<1>46. ASSUME NEW c \in Contexts, SweepLook(c) PROVE QuotaMove(x)
  BY <1>46 DEF SweepLook
<1>47. ASSUME SweepJudge PROVE QuotaMove(x)
  BY <1>47 DEF SweepJudge
<1>48. ASSUME EndSweep PROVE QuotaMove(x)
  BY <1>48 DEF EndSweep, Remove
<1>49. ASSUME UNCHANGED vars PROVE QuotaMove(x)
  BY <1>49 DEF vars
<1> QED
  BY <1>1, <1>2, <1>3, <1>4, <1>5, <1>6, <1>7, <1>8, <1>9, <1>10, <1>11, <1>12, <1>13, <1>14,
     <1>15, <1>16, <1>17, <1>18, <1>19, <1>20, <1>21, <1>22, <1>23, <1>24, <1>25, <1>26,
     <1>27, <1>28, <1>29, <1>30, <1>31, <1>32, <1>33, <1>34, <1>35, <1>36, <1>37, <1>38,
     <1>39, <1>40, <1>41, <1>42, <1>43, <1>44, <1>45, <1>46, <1>47, <1>48, <1>49 DEF Next,
     Acquire, Continue, Scrape, Cancel, Cleanup, Monitor, Environment

(* None of these takes count and comers over the bound together.             *)
LEMMA QuotaKept ==
  ASSUME TypeOK, TypeOK', QuotaInv, MaxRequests > 0,
         mode = "reusable", Strategy # "TimeBasedOnly",
         NEW c \in Contexts, QuotaMove(c)
  PROVE  served'[c] + Cardinality(Coming(c)') <= MaxRequests - 1 + Cardinality(Requests)
<1> USE PoolAssumption DEF PoolAssumption
<1>1. Coming(c) \subseteq Requests /\ Coming(c)' \subseteq Requests
  BY DEF Coming
<1>2. IsFiniteSet(Coming(c)) /\ IsFiniteSet(Coming(c)')
  BY <1>1, FS_Subset
<1>3. /\ Cardinality(Coming(c)) \in Nat /\ Cardinality(Coming(c)') \in Nat
      /\ Cardinality(Requests) \in Nat
      /\ Cardinality(Coming(c)') <= Cardinality(Requests)
  BY <1>1, <1>2, FS_CardinalityType, FS_Subset
<1>4. served[c] \in Nat /\ served'[c] \in Nat
  BY DEF TypeOK
<1>5. served[c] + Cardinality(Coming(c)) <= MaxRequests - 1 + Cardinality(Requests)
  BY DEF QuotaInv
<1>6. CASE served'[c] = served[c] /\ Coming(c)' \subseteq Coming(c)
  <2>1. Cardinality(Coming(c)') <= Cardinality(Coming(c))
    BY <1>2, <1>6, FS_Subset
  <2> QED BY <1>3, <1>4, <1>5, <1>6, <2>1
<1>7. CASE served'[c] < MaxRequests
  BY <1>3, <1>4, <1>7
<1>8. ASSUME NEW r \in Coming(c), r \notin Coming(c)', Coming(c)' \subseteq Coming(c),
             served'[c] \in {served[c], served[c] + 1}
      PROVE  served'[c] + Cardinality(Coming(c)') <= MaxRequests - 1 + Cardinality(Requests)
  <2>1. Coming(c)' \subseteq Coming(c) \ {r}
    BY <1>8
  <2>2. /\ IsFiniteSet(Coming(c) \ {r})
        /\ Cardinality(Coming(c) \ {r}) = Cardinality(Coming(c)) - 1
    BY <1>2, <1>8, FS_RemoveElement
  <2>3. Cardinality(Coming(c)') <= Cardinality(Coming(c)) - 1
    BY <2>1, <2>2, FS_Subset
  <2> QED BY <1>3, <1>4, <1>5, <1>8, <2>3
<1> QED BY <1>6, <1>7, <1>8 DEF QuotaMove

(* The session mode is fixed at startup.                                      *)
LEMMA ModeKept == [Next]_vars => mode' = mode
<1> SUFFICES ASSUME [Next]_vars PROVE mode' = mode
  OBVIOUS
<1>1. ASSUME NEW r \in Requests, Acquire(r) PROVE mode' = mode
  BY <1>1 DEF Acquire, Arrive, TryCandidate, LockedReuse, LockedReplace, LockedFallback,
     NoCandidateLeft, NothingToReuse, LockedReserve, NothingToReplace, LockedRefuse,
     AcquireAlwaysNew, AcquireDedicated, BuildSucceeds, BuildFails, Push
<1>2. ASSUME NEW r \in Requests, Continue(r) PROVE mode' = mode
  BY <1>2 DEF Continue, FindSession, CheckUsedUp, EndSession, ClaimSession
<1>3. ASSUME NEW r \in Requests, Scrape(r) \/ Cancel(r) PROVE mode' = mode
  BY <1>3 DEF Scrape, Cancel, Answered, Begin, Discard, DestroyHeld, FinishDestroyed,
     FinishAlwaysNew, FinishReusable, FinishDedicated, CancelWhileUsing, CancelWhileWaiting,
     CancelWhileBuilt, DropGuards
<1>4. ASSUME Cleanup \/ Monitor \/ Environment PROVE mode' = mode
  BY <1>4 DEF Cleanup, Monitor, Environment, DestroyDoomed, Release, Tick, SweepAlwaysNew,
     StartSweep, SweepLook, SweepJudge, EndSweep, StartScan, ClaimExpired, EndScan, Swap, LookAt,
     ReleaseClaimed, BuildReplacement, Age, GrowStale, QuarantineEnds
<1> QED BY <1>1, <1>2, <1>3, <1>4 DEF Next, vars

LEMMA QuotaStep ==
  ASSUME IInv, QuotaInv, MaxRequests > 0, [Next]_vars
  PROVE  QuotaInv'
<1>1. TypeOK /\ TypeOK'
  BY NextInv DEF IInv
<1>2. mode' = mode
  BY ModeKept
<1> QED BY <1>1, <1>2, QuotaMoves, QuotaKept DEF QuotaInv

--------------------------------------------------------------------------------
(* The invariants as theorems. *)

LEMMA InitMonitor == Init => MonitorInv
BY PoolAssumption DEF PoolAssumption, Init, MonitorInv, MonitorOwns, Owns, Guarding, Using

LEMMA MonitorInvariance == Spec => [](IInv /\ MonitorInv)
<1>1. Init => IInv /\ MonitorInv
  BY InitInv, InitMonitor
<1>2. IInv /\ MonitorInv /\ [Next]_vars => (IInv /\ MonitorInv)'
  BY NextInv, MonitorStep
<1> QED BY <1>1, <1>2, PTL DEF Spec

(* Between claiming an expired context and swapping in its replacement the    *)
(* monitor holds no lock; the context stays in the pool all the same, and     *)
(* nobody has its tab.                                                       *)
THEOREM ClaimsStayInPool == Spec => []MonitorKeepsItsSlots
<1>1. IInv /\ MonitorInv => MonitorKeepsItsSlots
  BY DEF IInv, OwnInv, MonitorInv, MonitorKeepsItsSlots, TabLocked, Owns, Guarding, Using
<1> QED BY <1>1, MonitorInvariance, PTL

LEMMA InitQuota == MaxRequests > 0 /\ Init => QuotaInv
<1> SUFFICES ASSUME MaxRequests > 0, Init, NEW c \in Contexts
             PROVE  served[c] + Cardinality(Coming(c)) <= MaxRequests - 1 + Cardinality(Requests)
  BY DEF QuotaInv
<1> USE PoolAssumption DEF PoolAssumption
<1>1. Coming(c) = {} /\ served[c] = 0
  BY DEF Init, Coming
<1>2. Cardinality(Coming(c)) = 0 /\ Cardinality(Requests) \in Nat
  BY <1>1, FS_EmptySet, FS_CardinalityType
<1> QED BY <1>1, <1>2

(* However the candidate lists of the requests age before they are tried, a   *)
(* Reusable context serves fewer than max_requests plus one request for each  *)
(* request there is.  A quota of nothing would make every context used up    *)
(* when it is built; the theorem is about quotas of at least one.             *)
THEOREM QuotaBounded ==
  ASSUME MaxRequests > 0
  PROVE  Spec => []QuotaOvershoot
<1>1. Init => IInv /\ QuotaInv
  BY InitInv, InitQuota
<1>2. IInv /\ QuotaInv /\ [Next]_vars => (IInv /\ QuotaInv)'
  BY NextInv, QuotaStep
<1>3. IInv /\ QuotaInv => QuotaOvershoot
  <2> SUFFICES ASSUME IInv, QuotaInv, mode = "reusable", Strategy # "TimeBasedOnly", NEW c \in pool
               PROVE  served[c] < MaxRequests + Cardinality(Requests)
    BY DEF QuotaOvershoot
  <2>1. c \in Contexts /\ served[c] \in Nat
    BY DEF IInv, TypeOK
  <2>2. IsFiniteSet(Coming(c))
    BY PoolAssumption, FS_Subset DEF PoolAssumption, Coming
  <2>3. Cardinality(Coming(c)) \in Nat /\ Cardinality(Requests) \in Nat
    BY <2>2, PoolAssumption, FS_CardinalityType DEF PoolAssumption
  <2> QED BY <2>1, <2>3, PoolAssumption DEF QuotaInv, PoolAssumption
<1> QED BY <1>1, <1>2, <1>3, PTL DEF Spec

--------------------------------------------------------------------------------
(* The pool as an allocator of slots.                                        *)

LeaseOf == [r \in Requests |-> IF Using(r) THEN held[r] ELSE NoContext]

FreeSlots == pool \ (({LeaseOf[r] : r \in Requests} \ {NoContext}) \cup MonitorOwns)

(* Idle contexts are nobody's, and neither are those about to be destroyed.   *)
LEMMA IdleIsFree ==
  ASSUME IInv
  PROVE  pool \ busy \subseteq FreeSlots
BY DEF IInv, TypeOK, OwnInv, Owns, Using, Guarding, FreeSlots, LeaseOf

LEMMA DoomedIsFree ==
  ASSUME IInv, MonitorInv, NEW c \in doomed, c \in pool
  PROVE  c \in FreeSlots
<1>1. mode = "always_new"
  BY DEF IInv, StayInv
<1>2. mpc = "sleep" /\ claimed = {}
  BY <1>1 DEF MonitorInv
<1>3. MonitorOwns = {}
  BY <1>2 DEF MonitorOwns
<1> QED BY <1>3 DEF IInv, TypeOK, StayInv, Owns, Using, Guarding, FreeSlots, LeaseOf

LEMMA FreeSlotsAre == Slots!Free = FreeSlots
BY DEF Slots!Free, Slots!Leased, FreeSlots, LeaseOf

(* SlotPool counts as this module does. *)
LEMMA SameCount ==
  ASSUME NEW S
  PROVE  Slots!Cardinality(S) = Cardinality(S) /\ Slots!IsFiniteSet(S) = IsFiniteSet(S)
BY DEF Slots!Cardinality, Cardinality, Slots!IsFiniteSet, IsFiniteSet

(* The steps of SlotPool, in the pool's own words.                           *)
LEMMA AsPromise ==
  ASSUME NEW C \in SUBSET pool, C \subseteq FreeSlots,
         Cardinality(pool \ C) + pending < MaxContexts,
         pool' = pool \ C, pending' = pending + 1,
         LeaseOf' = LeaseOf, MonitorOwns' = MonitorOwns
  PROVE  Slots!Next
<1>1. Slots!Promise(C)
  BY FreeSlotsAre, SameCount DEF Slots!Promise, LeaseOf
<1> QED BY <1>1 DEF Slots!Next

LEMMA AsRetire ==
  ASSUME NEW C \in SUBSET pool, C \subseteq FreeSlots,
         pool' = pool \ C, pending' = pending,
         LeaseOf' = LeaseOf, MonitorOwns' = MonitorOwns
  PROVE  Slots!Next
<1>1. Slots!Retire(C)
  BY FreeSlotsAre DEF Slots!Retire, LeaseOf
<1> QED BY <1>1 DEF Slots!Next

LEMMA AsRenege ==
  ASSUME pending > 0, pending' = pending - 1, pool' = pool,
         LeaseOf' = LeaseOf, MonitorOwns' = MonitorOwns
  PROVE  Slots!Next
BY DEF Slots!Next, Slots!Renege, LeaseOf

LEMMA AsFill ==
  ASSUME NEW r \in Requests, NEW c \in Contexts, pending > 0, LeaseOf[r] = NoContext,
         c \notin pool, \A s \in Requests : LeaseOf[s] # c,
         pool' = pool \cup {c}, pending' = pending - 1,
         LeaseOf' = [LeaseOf EXCEPT ![r] = c], MonitorOwns' = MonitorOwns
  PROVE  Slots!Next
<1>1. Slots!Fill(r, c)
  BY DEF Slots!Fill, Slots!Leased, LeaseOf
<1> QED BY <1>1 DEF Slots!Next

LEMMA AsLease ==
  ASSUME NEW r \in Requests, NEW c \in Contexts, LeaseOf[r] = NoContext, c \in FreeSlots,
         LeaseOf' = [LeaseOf EXCEPT ![r] = c],
         pool' = pool, pending' = pending, MonitorOwns' = MonitorOwns
  PROVE  Slots!Next
<1>1. Slots!Lease(r, c)
  BY FreeSlotsAre DEF Slots!Lease, LeaseOf
<1> QED BY <1>1 DEF Slots!Next

LEMMA AsReturn ==
  ASSUME NEW r \in Requests, LeaseOf[r] # NoContext,
         pool' \in {pool, pool \ {LeaseOf[r]}},
         LeaseOf' = [LeaseOf EXCEPT ![r] = NoContext],
         pending' = pending, MonitorOwns' = MonitorOwns
  PROVE  Slots!Next
<1>1. Slots!Return(r)
  BY DEF Slots!Return, LeaseOf
<1> QED BY <1>1 DEF Slots!Next

LEMMA AsKeep ==
  ASSUME NEW c \in Contexts, c \in FreeSlots, MonitorOwns' = MonitorOwns \cup {c},
         pool' = pool, pending' = pending, LeaseOf' = LeaseOf
  PROVE  Slots!Next
<1>1. Slots!Keep(c)
  BY FreeSlotsAre DEF Slots!Keep, LeaseOf
<1> QED BY <1>1 DEF Slots!Next

LEMMA AsReplace ==
  ASSUME NEW c \in Contexts, NEW d \in Contexts, c \in MonitorOwns \cap pool,
         d \notin pool, \A s \in Requests : LeaseOf[s] # d,
         pool' = (pool \ {c}) \cup {d}, MonitorOwns' = MonitorOwns \ {c},
         pending' = pending, LeaseOf' = LeaseOf
  PROVE  Slots!Next
<1>1. Slots!Replace(c, d)
  BY DEF Slots!Replace, Slots!Leased, LeaseOf
<1> QED BY <1>1 DEF Slots!Next

LEMMA AsStutter ==
  ASSUME pool' = pool, pending' = pending, LeaseOf' = LeaseOf, MonitorOwns' = MonitorOwns
  PROVE  UNCHANGED Slots!vars
BY DEF Slots!vars, LeaseOf

(* Every step of a pool without sessions is one of these, or changes nothing  *)
(* an owner of slots can see.                                                *)
LEMMA SlotStep ==
  ASSUME IInv, MonitorInv, mode # "dedicated", [Next]_vars
  PROVE  Slots!Next \/ UNCHANGED Slots!vars
<1> USE PoolAssumption DEF PoolAssumption, IInv, TypeOK, Holding, OwnInv, StayInv, Owns,
       LeaseOf, Using, Guarding, Goto, ctxVars, chromeVars, reqVars, monVars, MonitorInv, MonitorOwns
<1>1. ASSUME NEW r \in Requests, NEW o \in Origins \cup {NoOrigin},
             NEW country \in CountryCodes, Arrive(r, o, country)
      PROVE  Slots!Next \/ UNCHANGED Slots!vars
  <2>1. LeaseOf' = LeaseOf
    BY <1>1 DEF Arrive, Candidates
  <2>2. MonitorOwns' = MonitorOwns /\ pool' = pool /\ pending' = pending
    BY <1>1 DEF Arrive, Candidates
  <2> QED BY <2>1, <2>2, AsStutter
<1>2. ASSUME NEW r \in Requests, NEW c \in Contexts, TryCandidate(r, c)
      PROVE  Slots!Next \/ UNCHANGED Slots!vars
  <2>1. CASE c \in busy
    <3>1. LeaseOf' = LeaseOf
      BY <1>2, <2>1 DEF TryCandidate, Hold
    <3>2. MonitorOwns' = MonitorOwns /\ pool' = pool /\ pending' = pending
      BY <1>2, <2>1 DEF TryCandidate, Hold
    <3> QED BY <3>1, <3>2, AsStutter
  <2>2. CASE c \notin busy
    <3>1. LeaseOf' = [LeaseOf EXCEPT ![r] = c]
      BY <1>2, <2>2, ZenonT(40) DEF TryCandidate, Hold
    <3>2. MonitorOwns' = MonitorOwns /\ pool' = pool /\ pending' = pending
      BY <1>2, <2>2 DEF TryCandidate, Hold
    <3>3. LeaseOf[r] = NoContext /\ c \in FreeSlots
      BY <1>2, <2>2, IdleIsFree DEF TryCandidate, Hold
    <3> QED BY <3>1, <3>2, <3>3, AsLease
  <2> QED BY <2>1, <2>2
<1>3. ASSUME NEW r \in Requests, NEW c \in Contexts, LockedReuse(r, c)
      PROVE  Slots!Next \/ UNCHANGED Slots!vars
  <2>1. LeaseOf' = [LeaseOf EXCEPT ![r] = c]
    BY <1>3 DEF LockedReuse, Hold, Candidates
  <2>2. MonitorOwns' = MonitorOwns /\ pool' = pool /\ pending' = pending
    BY <1>3 DEF LockedReuse, Hold, Candidates
  <2>3. LeaseOf[r] = NoContext /\ c \in FreeSlots
    BY <1>3, IdleIsFree DEF LockedReuse, Hold, Candidates
  <2> QED BY <2>1, <2>2, <2>3, AsLease
<1>4. ASSUME NEW r \in Requests, NEW c \in Contexts, LockedReplace(r, c)
      PROVE  Slots!Next \/ UNCHANGED Slots!vars
  <2>1. LeaseOf' = LeaseOf
    BY <1>4 DEF LockedReplace, Remove, Reserve, UsedUpIdle
  <2>2. MonitorOwns' = MonitorOwns /\ pool' = pool \ {c} /\ pending' = pending + 1
    BY <1>4 DEF LockedReplace, Remove, Reserve, UsedUpIdle
  <2>3. {c} \subseteq FreeSlots /\ {c} \in SUBSET pool
        /\ Cardinality(pool \ {c}) + pending < MaxContexts
    <3>1. c \in pool /\ c \in FreeSlots
      BY <1>4, IdleIsFree DEF LockedReplace, UsedUpIdle
    <3>2. Cardinality(pool \ {c}) = Cardinality(pool) - 1 /\ Cardinality(pool) \in Nat
      BY <3>1, FS_RemoveElement, FS_CardinalityType
    <3> QED BY <3>1, <3>2 DEF Capacity, Occupied
  <2> QED BY <2>1, <2>2, <2>3, AsPromise
<1>5. ASSUME NEW r \in Requests, NEW c \in Contexts, LockedFallback(r, c)
      PROVE  Slots!Next \/ UNCHANGED Slots!vars
  <2>1. LeaseOf' = [LeaseOf EXCEPT ![r] = c]
    BY <1>5 DEF LockedFallback, Hold, Quarantined
  <2>2. MonitorOwns' = MonitorOwns /\ pool' = pool /\ pending' = pending
    BY <1>5 DEF LockedFallback, Hold, Quarantined
  <2>3. LeaseOf[r] = NoContext /\ c \in FreeSlots
    BY <1>5, IdleIsFree DEF LockedFallback, Hold, Quarantined
  <2> QED BY <2>1, <2>2, <2>3, AsLease
<1>6. ASSUME NEW r \in Requests, NoCandidateLeft(r) PROVE Slots!Next \/ UNCHANGED Slots!vars
  <2>1. LeaseOf' = LeaseOf
    BY <1>6 DEF NoCandidateLeft
  <2>2. MonitorOwns' = MonitorOwns /\ pool' = pool /\ pending' = pending
    BY <1>6 DEF NoCandidateLeft
  <2> QED BY <2>1, <2>2, AsStutter
<1>7. ASSUME NEW r \in Requests, LockedReserve(r) PROVE Slots!Next \/ UNCHANGED Slots!vars
  <2>1. LeaseOf' = LeaseOf
    BY <1>7 DEF LockedReserve, Reserve
  <2>2. CASE Occupied < MaxContexts
    <3>1. MonitorOwns' = MonitorOwns /\ pool' = pool \ {} /\ pending' = pending + 1
      BY <1>7, <2>2 DEF LockedReserve, Reserve
    <3>2. {} \subseteq FreeSlots /\ {} \in SUBSET pool
          /\ Cardinality(pool \ {}) + pending < MaxContexts
      BY <2>2 DEF Occupied
    <3> QED BY <2>1, <3>1, <3>2, AsPromise
  <2>3. CASE ~(Occupied < MaxContexts)
    <3>1. MonitorOwns' = MonitorOwns /\ pool' = pool /\ pending' = pending
      BY <1>7, <2>3 DEF LockedReserve
    <3> QED BY <2>1, <3>1, AsStutter
  <2> QED BY <2>2, <2>3
<1>8. ASSUME NEW r \in Requests, LockedRefuse(r) PROVE Slots!Next \/ UNCHANGED Slots!vars
  <2>1. LeaseOf' = LeaseOf
    BY <1>8 DEF LockedRefuse
  <2>2. MonitorOwns' = MonitorOwns /\ pool' = pool /\ pending' = pending
    BY <1>8 DEF LockedRefuse
  <2> QED BY <2>1, <2>2, AsStutter
<1>9. ASSUME NEW r \in Requests, AcquireAlwaysNew(r) PROVE Slots!Next \/ UNCHANGED Slots!vars
  <2>0. pool \ (pool \ busy) = pool \cap busy /\ pool \ busy \in SUBSET pool
    OBVIOUS
  <2>1. CASE Cardinality(pool \cap busy) + pending < MaxContexts
    <3>1. LeaseOf' = LeaseOf
      BY <1>9, <2>1 DEF AcquireAlwaysNew, Remove, Reserve
    <3>2. MonitorOwns' = MonitorOwns /\ pool' = pool \ (pool \ busy) /\ pending' = pending + 1
      BY <1>9, <2>1 DEF AcquireAlwaysNew, Remove, Reserve
    <3>3. pool \ busy \subseteq FreeSlots
          /\ Cardinality(pool \ (pool \ busy)) + pending < MaxContexts
      BY <1>9, <2>1, <2>0, IdleIsFree DEF AcquireAlwaysNew, Remove, Reserve
    <3> QED BY <2>0, <3>1, <3>2, <3>3, AsPromise
  <2>2. CASE ~(Cardinality(pool \cap busy) + pending < MaxContexts)
    <3>1. LeaseOf' = LeaseOf
      BY <1>9, <2>2 DEF AcquireAlwaysNew, Remove, Reserve
    <3>2. MonitorOwns' = MonitorOwns /\ pool' = pool \ (pool \ busy) /\ pending' = pending
      BY <1>9, <2>2 DEF AcquireAlwaysNew, Remove, Reserve
    <3>3. pool \ busy \subseteq FreeSlots
      BY <1>9, <2>2, IdleIsFree DEF AcquireAlwaysNew, Remove, Reserve
    <3> QED BY <2>0, <3>1, <3>2, <3>3, AsRetire
  <2> QED BY <2>1, <2>2
<1>10. ASSUME NEW r \in Requests, AcquireDedicated(r) PROVE Slots!Next \/ UNCHANGED Slots!vars
  BY <1>10 DEF AcquireDedicated
<1>11. ASSUME NEW r \in Requests, NEW c \in Contexts, BuildSucceeds(r, c)
       PROVE  Slots!Next \/ UNCHANGED Slots!vars
  <2>1. LeaseOf' = LeaseOf
    BY <1>11 DEF BuildSucceeds, Hold, Reset, Unused
  <2>2. MonitorOwns' = MonitorOwns /\ pool' = pool /\ pending' = pending
    BY <1>11 DEF BuildSucceeds, Hold, Reset, Unused
  <2> QED BY <2>1, <2>2, AsStutter
<1>12. ASSUME NEW r \in Requests, BuildFails(r) PROVE Slots!Next \/ UNCHANGED Slots!vars
  <2>1. LeaseOf' = LeaseOf
    BY <1>12 DEF BuildFails
  <2>2. MonitorOwns' = MonitorOwns /\ pool' = pool /\ pending' = pending - 1
    BY <1>12 DEF BuildFails
  <2>3. pending > 0
    BY <1>12, BuilderPromised DEF Building, BuildFails
  <2> QED BY <2>1, <2>2, <2>3, AsRenege
<1>13. ASSUME NEW r \in Requests, Push(r) PROVE Slots!Next \/ UNCHANGED Slots!vars
  <2>1. LeaseOf' = [LeaseOf EXCEPT ![r] = held[r]]
    BY <1>13 DEF Push
  <2>2. MonitorOwns' = MonitorOwns /\ pool' = pool \cup {held[r]} /\ pending' = pending - 1
    BY <1>13 DEF Push
  <2>3. pending > 0 /\ held[r] \in Contexts /\ held[r] \notin pool
    BY <1>13, BuilderPromised DEF Building, Push
  <2>4. LeaseOf[r] = NoContext /\ \A s \in Requests : LeaseOf[s] # held[r]
    BY <1>13, <2>3 DEF Push
  <2> QED BY <2>4, <2>1, <2>2, <2>3, AsFill
<1>14. ASSUME NEW r \in Requests, NEW c \in Contexts, FindSession(r, c)
       PROVE  Slots!Next \/ UNCHANGED Slots!vars
  <2>1. LeaseOf' = LeaseOf
    BY <1>14 DEF FindSession, Hold
  <2>2. MonitorOwns' = MonitorOwns /\ pool' = pool /\ pending' = pending
    BY <1>14 DEF FindSession, Hold
  <2> QED BY <2>1, <2>2, AsStutter
<1>15. ASSUME NEW r \in Requests, CheckUsedUp(r) PROVE Slots!Next \/ UNCHANGED Slots!vars
  <2>1. LeaseOf' = LeaseOf
    BY <1>15 DEF CheckUsedUp
  <2>2. MonitorOwns' = MonitorOwns /\ pool' = pool /\ pending' = pending
    BY <1>15 DEF CheckUsedUp
  <2> QED BY <2>1, <2>2, AsStutter
<1>16. ASSUME NEW r \in Requests, EndSession(r) PROVE Slots!Next \/ UNCHANGED Slots!vars
  BY <1>16 DEF EndSession
<1>17. ASSUME NEW r \in Requests, ClaimSession(r) PROVE Slots!Next \/ UNCHANGED Slots!vars
  BY <1>17 DEF ClaimSession
<1>18. ASSUME NEW r \in Requests, Answered(r) PROVE Slots!Next \/ UNCHANGED Slots!vars
  <2>1. LeaseOf' = LeaseOf
    BY <1>18 DEF Answered
  <2>2. MonitorOwns' = MonitorOwns /\ pool' = pool /\ pending' = pending
    BY <1>18 DEF Answered
  <2> QED BY <2>1, <2>2, AsStutter
<1>19. ASSUME NEW r \in Requests, Begin(r) PROVE Slots!Next \/ UNCHANGED Slots!vars
  <2>1. LeaseOf' = LeaseOf
    BY <1>19 DEF Begin
  <2>2. MonitorOwns' = MonitorOwns /\ pool' = pool /\ pending' = pending
    BY <1>19 DEF Begin
  <2> QED BY <2>1, <2>2, AsStutter
<1>20. ASSUME NEW r \in Requests, Discard(r)
      PROVE  Slots!Next \/ UNCHANGED Slots!vars
  <2>1. LeaseOf' = LeaseOf
    BY <1>20 DEF Discard
  <2>2. MonitorOwns' = MonitorOwns /\ pool' = pool /\ pending' = pending
    BY <1>20 DEF Discard
  <2> QED BY <2>1, <2>2, AsStutter
<1>21. ASSUME NEW r \in Requests, FinishAlwaysNew(r) PROVE Slots!Next \/ UNCHANGED Slots!vars
  <2>1. LeaseOf' = [LeaseOf EXCEPT ![r] = NoContext]
    BY <1>21 DEF FinishAlwaysNew, DropGuards, Hold
  <2>2. MonitorOwns' = MonitorOwns /\ pool' \in {pool, pool \ {held[r]}} /\ pending' = pending
    BY <1>21 DEF FinishAlwaysNew, DropGuards, Hold
  <2>3. LeaseOf[r] = held[r] /\ LeaseOf[r] # NoContext
    BY <1>21 DEF FinishAlwaysNew, DropGuards, Hold
  <2> QED BY <2>1, <2>2, <2>3, AsReturn
<1>22. ASSUME NEW r \in Requests, FinishReusable(r) PROVE Slots!Next \/ UNCHANGED Slots!vars
  <2>1. LeaseOf' = [LeaseOf EXCEPT ![r] = NoContext]
    BY <1>22 DEF FinishReusable, DropGuards, Hold
  <2>2. MonitorOwns' = MonitorOwns /\ pool' = pool /\ pending' = pending
    BY <1>22 DEF FinishReusable, DropGuards, Hold
  <2>3. LeaseOf[r] = held[r] /\ LeaseOf[r] # NoContext
    BY <1>22 DEF FinishReusable, DropGuards, Hold
  <2> QED BY <2>1, <2>2, <2>3, AsReturn
<1>23. ASSUME NEW r \in Requests, FinishDedicated(r) PROVE Slots!Next \/ UNCHANGED Slots!vars
  BY <1>23 DEF FinishDedicated
<1>24. ASSUME NEW r \in Requests, CancelWhileUsing(r) PROVE Slots!Next \/ UNCHANGED Slots!vars
  <2>0. MonitorOwns' = MonitorOwns /\ pool' = pool /\ pending' = pending
    BY <1>24 DEF CancelWhileUsing, DropGuards
  <2>1. CASE Using(r)
    <3>1. LeaseOf' = [LeaseOf EXCEPT ![r] = NoContext]
      BY <1>24, <2>1 DEF CancelWhileUsing, DropGuards, Hold
    <3>2. LeaseOf[r] = held[r] /\ LeaseOf[r] # NoContext
      BY <2>1
    <3> QED BY <2>0, <3>1, <3>2, AsReturn
  <2>2. CASE ~Using(r)
    <3>1. LeaseOf' = LeaseOf
      BY <1>24, <2>2 DEF CancelWhileUsing, DropGuards, Hold
    <3> QED BY <2>0, <3>1, AsStutter
  <2> QED BY <2>1, <2>2
<1>25. ASSUME NEW r \in Requests, CancelWhileWaiting(r)
       PROVE  Slots!Next \/ UNCHANGED Slots!vars
  <2>1. LeaseOf' = LeaseOf
    BY <1>25 DEF CancelWhileWaiting, Hold
  <2>2. MonitorOwns' = MonitorOwns /\ pool' = pool /\ pending' = pending
    BY <1>25 DEF CancelWhileWaiting, Hold
  <2> QED BY <2>1, <2>2, AsStutter
<1>26. ASSUME NEW r \in Requests, CancelWhileBuilt(r) PROVE Slots!Next \/ UNCHANGED Slots!vars
  <2>1. LeaseOf' = LeaseOf
    BY <1>26 DEF CancelWhileBuilt, Hold
  <2>2. MonitorOwns' = MonitorOwns /\ pool' = pool /\ pending' = pending - 1
    BY <1>26 DEF CancelWhileBuilt, Hold
  <2>3. pending > 0
    BY <1>26, BuilderPromised DEF Building, CancelWhileBuilt, Hold
  <2> QED BY <2>1, <2>2, <2>3, AsRenege
<1>27. ASSUME NEW c \in Contexts, DestroyDoomed(c) PROVE Slots!Next \/ UNCHANGED Slots!vars
  <2>1. CASE c \in pool
    <3>1. LeaseOf' = LeaseOf
      BY <1>27, <2>1 DEF DestroyDoomed, Remove
    <3>2. MonitorOwns' = MonitorOwns /\ pool' = pool \ {c} /\ pending' = pending
      BY <1>27, <2>1 DEF DestroyDoomed, Remove
    <3>3. {c} \subseteq FreeSlots /\ {c} \in SUBSET pool
      BY <1>27, <2>1, DoomedIsFree DEF DestroyDoomed, Remove
    <3> QED BY <3>1, <3>2, <3>3, AsRetire, ZenonT(40)
  <2>2. CASE c \notin pool
    <3>1. LeaseOf' = LeaseOf
      BY <1>27, <2>2 DEF DestroyDoomed, Remove
    <3>2. MonitorOwns' = MonitorOwns /\ pool' = pool /\ pending' = pending
      BY <1>27, <2>2 DEF DestroyDoomed, Remove
    <3> QED BY <3>1, <3>2, AsStutter
  <2> QED BY <2>1, <2>2
<1>28. ASSUME NEW c \in Contexts, Release(c) PROVE Slots!Next \/ UNCHANGED Slots!vars
  <2>1. LeaseOf' = LeaseOf
    BY <1>28 DEF Release
  <2>2. MonitorOwns' = MonitorOwns /\ pool' = pool /\ pending' = pending
    BY <1>28 DEF Release
  <2> QED BY <2>1, <2>2, AsStutter
<1>29. ASSUME SweepAlwaysNew PROVE Slots!Next \/ UNCHANGED Slots!vars
  <2>1. LeaseOf' = LeaseOf
    BY <1>29 DEF SweepAlwaysNew, Remove
  <2>2. MonitorOwns' = MonitorOwns /\ pool' = pool \ (pool \ busy) /\ pending' = pending
    BY <1>29 DEF SweepAlwaysNew, Remove
  <2>3. pool \ busy \subseteq FreeSlots /\ pool \ busy \in SUBSET pool
    BY <1>29, IdleIsFree DEF SweepAlwaysNew, Remove
  <2> QED BY <2>1, <2>2, <2>3, AsRetire
<1>30. ASSUME StartSweep
      PROVE  Slots!Next \/ UNCHANGED Slots!vars
  <2>1. LeaseOf' = LeaseOf
    BY <1>30 DEF StartSweep
  <2>2. MonitorOwns' = MonitorOwns /\ pool' = pool /\ pending' = pending
    BY <1>30 DEF StartSweep
  <2> QED BY <2>1, <2>2, AsStutter
<1>31. ASSUME Tick PROVE Slots!Next \/ UNCHANGED Slots!vars
  <2>1. LeaseOf' = LeaseOf
    BY <1>31 DEF Tick
  <2>2. MonitorOwns' = MonitorOwns /\ pool' = pool /\ pending' = pending
    BY <1>31 DEF Tick
  <2> QED BY <2>1, <2>2, AsStutter
<1>32. ASSUME StartScan PROVE Slots!Next \/ UNCHANGED Slots!vars
  <2>1. LeaseOf' = LeaseOf
    BY <1>32 DEF StartScan
  <2>2. MonitorOwns' = MonitorOwns /\ pool' = pool /\ pending' = pending
    BY <1>32 DEF StartScan
  <2> QED BY <2>1, <2>2, AsStutter
<1>33. ASSUME ClaimExpired PROVE Slots!Next \/ UNCHANGED Slots!vars
  <2>1. CASE cur \in busy
    <3>1. LeaseOf' = LeaseOf
      BY <1>33, <2>1 DEF ClaimExpired
    <3>2. MonitorOwns' = MonitorOwns /\ pool' = pool /\ pending' = pending
      BY <1>33, <2>1 DEF ClaimExpired
    <3> QED BY <3>1, <3>2, AsStutter
  <2>2. CASE cur \notin busy
    <3>1. LeaseOf' = LeaseOf
      BY <1>33, <2>2 DEF ClaimExpired
    <3>2. MonitorOwns' = MonitorOwns \cup {cur} /\ pool' = pool /\ pending' = pending
      BY <1>33, <2>2 DEF ClaimExpired
    <3>3. cur \in Contexts /\ cur \in FreeSlots
      BY <1>33, <2>2, IdleIsFree DEF ClaimExpired
    <3> QED BY <3>1, <3>2, <3>3, AsKeep
  <2> QED BY <2>1, <2>2
<1>34. ASSUME EndScan PROVE Slots!Next \/ UNCHANGED Slots!vars
  <2>1. LeaseOf' = LeaseOf
    BY <1>34 DEF EndScan
  <2>2. MonitorOwns' = MonitorOwns /\ pool' = pool /\ pending' = pending
    BY <1>34 DEF EndScan
  <2> QED BY <2>1, <2>2, AsStutter
<1>35. ASSUME Swap PROVE Slots!Next \/ UNCHANGED Slots!vars
  <2>1. LeaseOf' = LeaseOf
    BY <1>35 DEF Swap
  <2>2. MonitorOwns' = MonitorOwns \ {cur} /\ pool' = (pool \ {cur}) \cup {fresh}
        /\ pending' = pending
    BY <1>35 DEF Swap
  <2>3. cur \in Contexts /\ fresh \in Contexts /\ cur \in MonitorOwns \cap pool
        /\ fresh \notin pool
    BY <1>35 DEF Swap
  <2>4. \A s \in Requests : LeaseOf[s] # fresh
    BY <2>3
  <2> QED BY <2>4, <2>1, <2>2, <2>3, AsReplace
<1>36. ASSUME NEW c \in Contexts, LookAt(c) PROVE Slots!Next \/ UNCHANGED Slots!vars
  <2>1. LeaseOf' = LeaseOf
    BY <1>36 DEF LookAt
  <2>2. MonitorOwns' = MonitorOwns /\ pool' = pool /\ pending' = pending
    BY <1>36 DEF LookAt
  <2> QED BY <2>1, <2>2, AsStutter
<1>37. ASSUME NEW c \in Contexts, ReleaseClaimed(c) PROVE Slots!Next \/ UNCHANGED Slots!vars
  <2>1. LeaseOf' = LeaseOf
    BY <1>37 DEF ReleaseClaimed
  <2>2. MonitorOwns' = MonitorOwns /\ pool' = pool /\ pending' = pending
    BY <1>37 DEF ReleaseClaimed
  <2> QED BY <2>1, <2>2, AsStutter
<1>38. ASSUME NEW c \in Contexts, BuildReplacement(c) PROVE Slots!Next \/ UNCHANGED Slots!vars
  <2>1. LeaseOf' = LeaseOf
    BY <1>38 DEF BuildReplacement, Reset
  <2>2. MonitorOwns' = MonitorOwns /\ pool' = pool /\ pending' = pending
    BY <1>38 DEF BuildReplacement, Reset
  <2> QED BY <2>1, <2>2, AsStutter
<1>39. ASSUME NEW c \in Contexts, Age(c) PROVE Slots!Next \/ UNCHANGED Slots!vars
  <2>1. LeaseOf' = LeaseOf
    BY <1>39 DEF Age
  <2>2. MonitorOwns' = MonitorOwns /\ pool' = pool /\ pending' = pending
    BY <1>39 DEF Age
  <2> QED BY <2>1, <2>2, AsStutter
<1>40. ASSUME NEW c \in Contexts, GrowStale(c) PROVE Slots!Next \/ UNCHANGED Slots!vars
  <2>1. LeaseOf' = LeaseOf
    BY <1>40 DEF GrowStale
  <2>2. MonitorOwns' = MonitorOwns /\ pool' = pool /\ pending' = pending
    BY <1>40 DEF GrowStale
  <2> QED BY <2>1, <2>2, AsStutter
<1>41. ASSUME NEW c \in Contexts, NEW o \in Origins, QuarantineEnds(c, o)
       PROVE  Slots!Next \/ UNCHANGED Slots!vars
  <2>1. LeaseOf' = LeaseOf
    BY <1>41 DEF QuarantineEnds
  <2>2. MonitorOwns' = MonitorOwns /\ pool' = pool /\ pending' = pending
    BY <1>41 DEF QuarantineEnds
  <2> QED BY <2>1, <2>2, AsStutter
<1>42. ASSUME NEW r \in Requests, NothingToReuse(r)
      PROVE  Slots!Next \/ UNCHANGED Slots!vars
  <2>1. LeaseOf' = LeaseOf
    BY <1>42 DEF NothingToReuse
  <2>2. MonitorOwns' = MonitorOwns /\ pool' = pool /\ pending' = pending
    BY <1>42 DEF NothingToReuse
  <2> QED BY <2>1, <2>2, AsStutter
<1>43. ASSUME NEW r \in Requests, NothingToReplace(r)
      PROVE  Slots!Next \/ UNCHANGED Slots!vars
  <2>1. LeaseOf' = LeaseOf
    BY <1>43 DEF NothingToReplace
  <2>2. MonitorOwns' = MonitorOwns /\ pool' = pool /\ pending' = pending
    BY <1>43 DEF NothingToReplace
  <2> QED BY <2>1, <2>2, AsStutter
<1>44. ASSUME NEW r \in Requests, DestroyHeld(r) PROVE Slots!Next \/ UNCHANGED Slots!vars
  <2>1. LeaseOf' = [LeaseOf EXCEPT ![r] = NoContext]
    BY <1>44 DEF DestroyHeld, Remove
  <2>2. MonitorOwns' = MonitorOwns /\ pool' \in {pool, pool \ {held[r]}} /\ pending' = pending
    BY <1>44 DEF DestroyHeld, Remove
  <2>3. LeaseOf[r] = held[r] /\ LeaseOf[r] # NoContext
    BY <1>44 DEF DestroyHeld
  <2> QED BY <2>1, <2>2, <2>3, AsReturn
<1>45. ASSUME NEW r \in Requests, FinishDestroyed(r)
      PROVE  Slots!Next \/ UNCHANGED Slots!vars
  <2>1. LeaseOf' = LeaseOf
    BY <1>45 DEF FinishDestroyed, DropGuards, Hold
  <2>2. MonitorOwns' = MonitorOwns /\ pool' = pool /\ pending' = pending
    BY <1>45 DEF FinishDestroyed, DropGuards, Hold
  <2> QED BY <2>1, <2>2, AsStutter
<1>46. ASSUME NEW c \in Contexts, SweepLook(c)
      PROVE  Slots!Next \/ UNCHANGED Slots!vars
  <2>1. LeaseOf' = LeaseOf
    BY <1>46 DEF SweepLook
  <2>2. MonitorOwns' = MonitorOwns /\ pool' = pool /\ pending' = pending
    BY <1>46 DEF SweepLook
  <2> QED BY <2>1, <2>2, AsStutter
<1>47. ASSUME SweepJudge
      PROVE  Slots!Next \/ UNCHANGED Slots!vars
  <2>1. LeaseOf' = LeaseOf
    BY <1>47 DEF SweepJudge
  <2>2. MonitorOwns' = MonitorOwns /\ pool' = pool /\ pending' = pending
    BY <1>47 DEF SweepJudge
  <2> QED BY <2>1, <2>2, AsStutter
<1>48. ASSUME EndSweep PROVE Slots!Next \/ UNCHANGED Slots!vars
  BY <1>48 DEF EndSweep, Remove
<1>49. ASSUME UNCHANGED vars PROVE Slots!Next \/ UNCHANGED Slots!vars
  <2>1. LeaseOf' = LeaseOf
    BY <1>49 DEF vars
  <2>2. MonitorOwns' = MonitorOwns /\ pool' = pool /\ pending' = pending
    BY <1>49 DEF vars
  <2> QED BY <2>1, <2>2, AsStutter
<1> QED
  BY <1>1, <1>2, <1>3, <1>4, <1>5, <1>6, <1>7, <1>8, <1>9, <1>10, <1>11, <1>12, <1>13, <1>14,
     <1>15, <1>16, <1>17, <1>18, <1>19, <1>20, <1>21, <1>22, <1>23, <1>24, <1>25, <1>26,
     <1>27, <1>28, <1>29, <1>30, <1>31, <1>32, <1>33, <1>34, <1>35, <1>36, <1>37, <1>38,
     <1>39, <1>40, <1>41, <1>42, <1>43, <1>44, <1>45, <1>46, <1>47, <1>48, <1>49 DEF Next,
     Acquire, Continue, Scrape, Cancel, Cleanup, Monitor, Environment

LEMMA SlotInit == Init => Slots!Init
<1> SUFFICES ASSUME Init PROVE Slots!Init
  OBVIOUS
<1> USE PoolAssumption DEF PoolAssumption
<1>1. pool \in SUBSET Contexts /\ IsFiniteSet(pool) /\ Cardinality(pool) <= MaxContexts
  BY DEF Init
<1>2. [r \in Requests |-> IF Using(r) THEN held[r] ELSE NoContext] = [r \in Requests |-> NoContext]
  BY DEF Init, Using
<1>3. MonitorOwns = {} /\ pending = 0
  BY DEF Init, MonitorOwns
<1> QED BY <1>1, <1>2, <1>3, SameCount DEF Slots!Init

(* An AlwaysNew or Reusable pool implements the slot allocator: no step, of   *)
(* whichever task, does to slots, promises and leases what SlotPool does not *)
(* allow.  A Dedicated pool does not: a session is found under one lock,     *)
(* taken out under another and claimed under none.                           *)
THEOREM PoolIsSlotAllocator == mode # "dedicated" /\ Spec => ImplementsSlotPool
<1>1. mode # "dedicated" /\ Init =>
        Slots!Init /\ (IInv /\ MonitorInv /\ mode # "dedicated")
  BY InitInv, InitMonitor, SlotInit
<1>2. (IInv /\ MonitorInv /\ mode # "dedicated") /\ [Next]_vars =>
        (IInv /\ MonitorInv /\ mode # "dedicated")'
  BY NextInv, MonitorStep, ModeKept
<1>3. (IInv /\ MonitorInv /\ mode # "dedicated") /\ [Next]_vars => [Slots!Next]_(Slots!vars)
  BY SlotStep
<1> QED BY <1>1, <1>2, <1>3, PTL DEF Spec, ImplementsSlotPool, Slots!Spec

--------------------------------------------------------------------------------
(* Nothing in Chrome is lost from sight.                                     *)

Excused(c) ==
  \/ c \in removed
  \/ mpc = "swap" /\ c = cur
  \/ \E r \in Requests : pc[r] = "build" /\ pc'[r] = "idle"
  \/ \E r \in Requests : pc[r] = "built" /\ pc'[r] = "idle" /\ held[r] = c

LEMMA TrackedStep ==
  ASSUME IInv, MonitorInv, mode # "dedicated", [Next]_vars,
         NEW x \in Contexts, x \notin live \ Tracked, x \in (live \ Tracked)'
  PROVE  Excused(x)
<1> USE PoolAssumption DEF PoolAssumption, IInv, TypeOK, Holding, StayInv, MonitorInv, Owns,
       Tracked, MonitorOwns, Using, Guarding, Goto, ctxVars, chromeVars, reqVars, monVars, Excused
<1>1. ASSUME NEW r \in Requests, NEW o \in Origins \cup {NoOrigin},
             NEW country \in CountryCodes, Arrive(r, o, country)
      PROVE  Excused(x)
  <2>1. CASE country
    BY <1>1, <2>1 DEF Arrive, Candidates
  <2>2. CASE ~(country)
    BY <1>1, <2>2 DEF Arrive, Candidates
  <2> QED BY <2>1, <2>2
<1>2. ASSUME NEW r \in Requests, NEW c \in Contexts, TryCandidate(r, c) PROVE Excused(x)
  <2>1. CASE c \in busy
    BY <1>2, <2>1 DEF TryCandidate, Hold
  <2>2. CASE ~(c \in busy)
    BY <1>2, <2>2 DEF TryCandidate, Hold
  <2> QED BY <2>1, <2>2
<1>3. ASSUME NEW r \in Requests, NEW c \in Contexts, LockedReuse(r, c) PROVE Excused(x)
  BY <1>3 DEF LockedReuse, Hold, Candidates
<1>4. ASSUME NEW r \in Requests, NEW c \in Contexts, LockedReplace(r, c) PROVE Excused(x)
  BY <1>4 DEF LockedReplace, Remove, Reserve, UsedUpIdle
<1>5. ASSUME NEW r \in Requests, NEW c \in Contexts, LockedFallback(r, c) PROVE Excused(x)
  BY <1>5 DEF LockedFallback, Hold, Quarantined
<1>6. ASSUME NEW r \in Requests, NoCandidateLeft(r) PROVE Excused(x)
  BY <1>6 DEF NoCandidateLeft
<1>7. ASSUME NEW r \in Requests, LockedReserve(r) PROVE Excused(x)
  BY <1>7 DEF LockedReserve, Reserve
<1>8. ASSUME NEW r \in Requests, LockedRefuse(r) PROVE Excused(x)
  BY <1>8 DEF LockedRefuse
<1>9. ASSUME NEW r \in Requests, AcquireAlwaysNew(r) PROVE Excused(x)
  <2>1. CASE Cardinality(pool \cap busy) + pending < MaxContexts
    BY <1>9, <2>1 DEF AcquireAlwaysNew, Remove, Reserve
  <2>2. CASE ~(Cardinality(pool \cap busy) + pending < MaxContexts)
    BY <1>9, <2>2 DEF AcquireAlwaysNew, Remove, Reserve
  <2> QED BY <2>1, <2>2
<1>10. ASSUME NEW r \in Requests, AcquireDedicated(r) PROVE Excused(x)
  BY <1>10 DEF AcquireDedicated, Reserve
<1>11. ASSUME NEW r \in Requests, NEW c \in Contexts, BuildSucceeds(r, c) PROVE Excused(x)
  BY <1>11 DEF BuildSucceeds, Hold, Reset, Unused
<1>12. ASSUME NEW r \in Requests, BuildFails(r) PROVE Excused(x)
  BY <1>12 DEF BuildFails
<1>13. ASSUME NEW r \in Requests, Push(r) PROVE Excused(x)
  BY <1>13 DEF Push
<1>14. ASSUME NEW r \in Requests, NEW c \in Contexts, FindSession(r, c) PROVE Excused(x)
  BY <1>14 DEF FindSession, Hold
<1>15. ASSUME NEW r \in Requests, CheckUsedUp(r) PROVE Excused(x)
  BY <1>15 DEF CheckUsedUp
<1>16. ASSUME NEW r \in Requests, EndSession(r) PROVE Excused(x)
  BY <1>16 DEF EndSession, Hold, Remove
<1>17. ASSUME NEW r \in Requests, ClaimSession(r) PROVE Excused(x)
  BY <1>17 DEF ClaimSession, Hold
<1>18. ASSUME NEW r \in Requests, Answered(r) PROVE Excused(x)
  BY <1>18 DEF Answered
<1>19. ASSUME NEW r \in Requests, Begin(r) PROVE Excused(x)
  BY <1>19 DEF Begin
<1>20. ASSUME NEW r \in Requests, Discard(r) PROVE Excused(x)
  BY <1>20 DEF Discard
<1>21. ASSUME NEW r \in Requests, FinishAlwaysNew(r) PROVE Excused(x)
  BY <1>21 DEF UsedStaysInPool, FinishAlwaysNew, DropGuards, Hold
<1>22. ASSUME NEW r \in Requests, FinishReusable(r) PROVE Excused(x)
  BY <1>22 DEF UsedStaysInPool, FinishReusable, DropGuards, Hold
<1>23. ASSUME NEW r \in Requests, FinishDedicated(r) PROVE Excused(x)
  BY <1>23 DEF UsedStaysInPool, FinishDedicated, DropGuards, Hold
<1>24. ASSUME NEW r \in Requests, CancelWhileUsing(r) PROVE Excused(x)
  BY <1>24 DEF UsedStaysInPool, CancelWhileUsing, DropGuards, Hold
<1>25. ASSUME NEW r \in Requests, CancelWhileWaiting(r) PROVE Excused(x)
  BY <1>25 DEF CancelWhileWaiting, Hold
<1>26. ASSUME NEW r \in Requests, CancelWhileBuilt(r) PROVE Excused(x)
  BY <1>26 DEF CancelWhileBuilt, Hold
<1>27. ASSUME NEW c \in Contexts, DestroyDoomed(c) PROVE Excused(x)
  <2>1. CASE c \in pool
    BY <1>27, <2>1 DEF DestroyDoomed, Remove
  <2>2. CASE ~(c \in pool)
    BY <1>27, <2>2 DEF DestroyDoomed, Remove
  <2> QED BY <2>1, <2>2
<1>28. ASSUME NEW c \in Contexts, Release(c) PROVE Excused(x)
  BY <1>28 DEF TabLocked, Release
<1>29. ASSUME SweepAlwaysNew PROVE Excused(x)
  BY <1>29 DEF SweepAlwaysNew, Remove
<1>30. ASSUME StartSweep PROVE Excused(x)
  BY <1>30 DEF StartSweep
<1>31. ASSUME Tick PROVE Excused(x)
  BY <1>31 DEF Tick
<1>32. ASSUME StartScan PROVE Excused(x)
  BY <1>32 DEF StartScan
<1>33. ASSUME ClaimExpired PROVE Excused(x)
  <2>1. CASE cur \in busy
    BY <1>33, <2>1 DEF ClaimExpired
  <2>2. CASE ~(cur \in busy)
    BY <1>33, <2>2 DEF ClaimExpired
  <2> QED BY <2>1, <2>2
<1>34. ASSUME EndScan PROVE Excused(x)
  BY <1>34 DEF EndScan
<1>35. ASSUME Swap PROVE Excused(x)
  <2>1. CASE cur \in pool
    BY <1>35, <2>1 DEF Swap
  <2>2. CASE ~(cur \in pool)
    BY <1>35, <2>2 DEF Swap
  <2> QED BY <2>1, <2>2
<1>36. ASSUME NEW c \in Contexts, LookAt(c) PROVE Excused(x)
  BY <1>36 DEF LookAt
<1>37. ASSUME NEW c \in Contexts, ReleaseClaimed(c) PROVE Excused(x)
  BY <1>37 DEF ReleaseClaimed
<1>38. ASSUME NEW c \in Contexts, BuildReplacement(c) PROVE Excused(x)
  BY <1>38 DEF BuildReplacement, Reset
<1>39. ASSUME NEW c \in Contexts, Age(c) PROVE Excused(x)
  BY <1>39 DEF Age
<1>40. ASSUME NEW c \in Contexts, GrowStale(c) PROVE Excused(x)
  BY <1>40 DEF GrowStale
<1>41. ASSUME NEW c \in Contexts, NEW o \in Origins, QuarantineEnds(c, o) PROVE Excused(x)
  BY <1>41 DEF QuarantineEnds
<1>42. ASSUME NEW r \in Requests, NothingToReuse(r) PROVE Excused(x)
  BY <1>42 DEF NothingToReuse
<1>43. ASSUME NEW r \in Requests, NothingToReplace(r) PROVE Excused(x)
  BY <1>43 DEF NothingToReplace
<1>44. ASSUME NEW r \in Requests, DestroyHeld(r) PROVE Excused(x)
  <2>1. CASE held[r] \in pool
    BY <1>44, <2>1 DEF UsedStaysInPool, DestroyHeld, Remove
  <2>2. CASE ~(held[r] \in pool)
    BY <1>44, <2>2 DEF UsedStaysInPool, DestroyHeld, Remove
  <2> QED BY <2>1, <2>2
<1>45. ASSUME NEW r \in Requests, FinishDestroyed(r) PROVE Excused(x)
  BY <1>45 DEF UsedStaysInPool, FinishDestroyed, DropGuards, Hold
<1>46. ASSUME NEW c \in Contexts, SweepLook(c) PROVE Excused(x)
  BY <1>46 DEF SweepLook
<1>47. ASSUME SweepJudge PROVE Excused(x)
  BY <1>47 DEF SweepJudge
<1>48. ASSUME EndSweep PROVE Excused(x)
  BY <1>48 DEF EndSweep, Remove
<1>49. ASSUME UNCHANGED vars PROVE Excused(x)
  BY <1>49 DEF vars
<1> QED
  BY <1>1, <1>2, <1>3, <1>4, <1>5, <1>6, <1>7, <1>8, <1>9, <1>10, <1>11, <1>12, <1>13, <1>14,
     <1>15, <1>16, <1>17, <1>18, <1>19, <1>20, <1>21, <1>22, <1>23, <1>24, <1>25, <1>26,
     <1>27, <1>28, <1>29, <1>30, <1>31, <1>32, <1>33, <1>34, <1>35, <1>36, <1>37, <1>38,
     <1>39, <1>40, <1>41, <1>42, <1>43, <1>44, <1>45, <1>46, <1>47, <1>48, <1>49 DEF Next,
     Acquire, Continue, Scrape, Cancel, Cleanup, Monitor, Environment

(* A context that exists in Chrome is in the pool, being replaced, in a       *)
(* request's hands or on its way through release_context.  It is forgotten    *)
(* only once its release has been tried, when its creation has failed, or by  *)
(* a request dropped between building it and pushing it.                     *)
THEOREM LostOnlyWhenReleased == Spec => LostOnlyAfterRelease
<1>1. (IInv /\ MonitorInv) /\ [Next]_vars =>
        [mode # "dedicated" =>
           \A c \in Contexts : c \notin live \ Tracked /\ c \in (live \ Tracked)'
             => \/ c \in removed
                \/ mpc = "swap" /\ c = cur
                \/ \E r \in Requests : pc[r] = "build" /\ pc'[r] = "idle"
                \/ \E r \in Requests : pc[r] = "built" /\ pc'[r] = "idle" /\ held[r] = c]_vars
  BY TrackedStep DEF Excused
<1> QED BY <1>1, MonitorInvariance, PTL DEF Spec, LostOnlyAfterRelease
================================================================================
