--------------------------- MODULE BrowserPoolProofs ---------------------------
(***************************************************************************)
(* Theorems about BrowserPool for every number of contexts and requests,   *)
(* every limit, strategy and session mode.                                 *)
(*                                                                         *)
(* The inductive invariant IInv is a conjunction proved part by part:       *)
(* 1. The slot count: PendingCounts and Capacity.  `pending` stays a        *)
(*    natural number because it counts the requests that are building, so   *)
(*    each of them finds its own promise still there when it gives it back. *)
(* 2. Exclusive use: OwnInv.  Every owner of a context (a request that      *)
(*    built or claimed it, the monitor) has its busy flag set, and no two   *)
(*    owners share one.                                                     *)
(* 3. Staying in the pool: StayInv.  Whoever takes contexts out takes idle  *)
(*    ones, its own, or one whose destroy was spawned by its last user; the  *)
(*    Dedicated sweep alone takes what it has seen idle earlier.            *)
(***************************************************************************)
EXTENDS BrowserPool, FiniteSetTheorems, TLAPS

(* Who has got past finding a context holds one; what is swapped in exists. *)
Holding ==
  /\ \A r \in Requests :
       pc[r] \in {"found", "ending", "checked", "built", "claimed", "run", "destroy", "closing"}
         => held[r] \in Contexts
  /\ mpc = "swap" => fresh \in Contexts

Builders == {r \in Requests : Building(r)}

(* A request that is building finds its promise still counted.              *)
LEMMA BuilderPromised ==
  ASSUME TypeOK, PendingCounts, NEW r \in Requests, Building(r)
  PROVE  pending - 1 \in Nat
<1>1. IsFiniteSet(Builders) /\ Builders # {}
  BY FS_Subset, PoolAssumption DEF Builders, PoolAssumption
<1>2. Cardinality(Builders) # 0 /\ Cardinality(Builders) \in Nat
  BY <1>1, FS_EmptySet, FS_CardinalityType
<1> QED BY <1>2 DEF PendingCounts, Builders, TypeOK

(* Every step keeps every variable's type: one case per action.             *)
LEMMA TypeStep ==
  ASSUME TypeOK, Holding, PendingCounts, [Next]_vars
  PROVE  TypeOK'
<1> USE PoolAssumption DEF TypeOK, Goto, Hold, ctxVars, chromeVars, reqVars, monVars
<1>1. ASSUME NEW r \in Requests, NEW o \in Origins \cup {NoOrigin},
             NEW country \in CountryCodes, Arrive(r, o, country)
      PROVE  TypeOK'
  BY <1>1, SMTT(30) DEF Arrive, Candidates
<1>2. ASSUME NEW r \in Requests, NEW c \in Contexts, TryCandidate(r, c) PROVE TypeOK'
  <2>1. CASE c \in busy
    BY <1>2, <2>1 DEF TryCandidate
  <2>2. CASE c \notin busy
    BY <1>2, <2>2 DEF TryCandidate
  <2> QED BY <2>1, <2>2
<1>3. ASSUME NEW r \in Requests, NEW c \in Contexts, LockedReuse(r, c) PROVE TypeOK'
  BY <1>3 DEF LockedReuse, Candidates, Holding
<1>4. ASSUME NEW r \in Requests, NEW c \in Contexts, LockedReplace(r, c) PROVE TypeOK'
  BY <1>4, FS_EmptySet, FS_AddElement, FS_RemoveElement, FS_Difference DEF LockedReplace,
     Remove, Reserve, UsedUpIdle
<1>5. ASSUME NEW r \in Requests, NEW c \in Contexts, LockedFallback(r, c) PROVE TypeOK'
  BY <1>5 DEF LockedFallback, Quarantined, Holding
<1>6. ASSUME NEW r \in Requests, NoCandidateLeft(r) PROVE TypeOK'
  BY <1>6 DEF NoCandidateLeft
<1>7. ASSUME NEW r \in Requests, LockedReserve(r) PROVE TypeOK'
  BY <1>7 DEF LockedReserve, Reserve
<1>8. ASSUME NEW r \in Requests, LockedRefuse(r) PROVE TypeOK'
  BY <1>8 DEF LockedRefuse
<1>9. ASSUME NEW r \in Requests, AcquireAlwaysNew(r) PROVE TypeOK'
  <2>1. IsFiniteSet(pool') /\ pool' \in SUBSET Contexts
    BY <1>9, FS_Difference DEF AcquireAlwaysNew, Remove
  <2>2. pending' \in Nat
        /\ pc' = [pc EXCEPT ![r] = IF pending' = pending THEN "refused" ELSE "build"]
    BY <1>9 DEF AcquireAlwaysNew, Reserve
  <2> QED BY <1>9, <2>1, <2>2 DEF AcquireAlwaysNew, Remove
<1>10. ASSUME NEW r \in Requests, AcquireDedicated(r) PROVE TypeOK'
  BY <1>10 DEF AcquireDedicated, Reserve
<1>11. ASSUME NEW r \in Requests, NEW c \in Contexts, BuildSucceeds(r, c) PROVE TypeOK'
  BY <1>11 DEF BuildSucceeds, Reset, Holding
<1>12. ASSUME NEW r \in Requests, BuildFails(r) PROVE TypeOK'
  <2>1. live' \in SUBSET Contexts
    BY <1>12 DEF BuildFails, Unused
  <2>2. pending' \in Nat
    BY <1>12, BuilderPromised DEF BuildFails, Building
  <2>3. wants' \in [Requests -> [origin : Origins \cup {NoOrigin}, country : BOOLEAN]]
    BY <1>12 DEF BuildFails, NoWish
  <2> QED BY <1>12, <2>1, <2>2, <2>3 DEF BuildFails
<1>13. ASSUME NEW r \in Requests, Push(r) PROVE TypeOK'
  <2>1. pool' = pool \cup {held[r]} /\ held[r] \in Contexts
    BY <1>13 DEF Push, Holding
  <2>2. IsFiniteSet(pool') /\ pool' \in SUBSET Contexts
    BY <2>1, FS_AddElement, ZenonT(40)
  <2>3. pending' \in Nat
    BY <1>13, BuilderPromised DEF Push, Building
  <2> QED BY <1>13, <2>2, <2>3 DEF Push
<1>14. ASSUME NEW r \in Requests, NEW c \in Contexts, FindSession(r, c) PROVE TypeOK'
  BY <1>14 DEF FindSession, Holding
<1>15. ASSUME NEW r \in Requests, CheckUsedUp(r) PROVE TypeOK'
  BY <1>15 DEF CheckUsedUp
<1>16. ASSUME NEW r \in Requests, EndSession(r) PROVE TypeOK'
  <2>1. CASE held[r] \in pool \ busy
    <3>1. IsFiniteSet(pool') /\ pool' \in SUBSET Contexts
      BY <1>16, <2>1, FS_RemoveElement DEF EndSession, Remove
    <3>2. busy' \in SUBSET Contexts /\ removed' \in SUBSET Contexts /\ told' \in SUBSET Contexts
      BY <1>16, <2>1 DEF EndSession, Remove
    <3>3. pc' = [pc EXCEPT ![r] = "idle"] /\ held' = [held EXCEPT ![r] = NoContext]
      BY <1>16, <2>1 DEF EndSession
    <3> QED BY <1>16, <3>1, <3>2, <3>3 DEF EndSession
  <2>2. CASE held[r] \notin pool \ busy
    BY <1>16, <2>2 DEF EndSession
  <2> QED BY <2>1, <2>2
<1>17. ASSUME NEW r \in Requests, ClaimSession(r) PROVE TypeOK'
  <2>1. CASE held[r] \in busy
    BY <1>17, <2>1 DEF ClaimSession
  <2>2. CASE held[r] \notin busy
    BY <1>17, <2>2 DEF ClaimSession, Holding
  <2> QED BY <2>1, <2>2
<1>18. ASSUME NEW r \in Requests, Answered(r) PROVE TypeOK'
  BY <1>18 DEF Answered, NoWish
<1>19. ASSUME NEW r \in Requests, Begin(r) PROVE TypeOK'
  BY <1>19 DEF Begin, Holding
<1>20. ASSUME NEW r \in Requests, Discard(r) PROVE TypeOK'
  BY <1>20 DEF Discard, Holding
<1>21. ASSUME NEW r \in Requests, FinishAlwaysNew(r) PROVE TypeOK'
  BY <1>21 DEF FinishAlwaysNew, DropGuards, NoWish, Holding
<1>22. ASSUME NEW r \in Requests, FinishReusable(r) PROVE TypeOK'
  BY <1>22 DEF FinishReusable, DropGuards, NoWish, Holding
<1>23. ASSUME NEW r \in Requests, FinishDedicated(r) PROVE TypeOK'
  BY <1>23 DEF FinishDedicated, DropGuards, NoWish, Holding
<1>24. ASSUME NEW r \in Requests, CancelWhileUsing(r) PROVE TypeOK'
  BY <1>24 DEF CancelWhileUsing, DropGuards, NoWish, Using, Holding, Guarding
<1>25. ASSUME NEW r \in Requests, CancelWhileWaiting(r) PROVE TypeOK'
  BY <1>25 DEF CancelWhileWaiting, NoWish, Holding
<1>26. ASSUME NEW r \in Requests, CancelWhileBuilt(r) PROVE TypeOK'
  BY <1>26, BuilderPromised DEF CancelWhileBuilt, NoWish, Building, Holding
<1>27. ASSUME NEW c \in Contexts, DestroyDoomed(c) PROVE TypeOK'
  BY <1>27, FS_EmptySet, FS_AddElement, FS_RemoveElement, FS_Difference DEF DestroyDoomed,
     Remove
<1>28. ASSUME NEW c \in Contexts, Release(c) PROVE TypeOK'
  BY <1>28 DEF Release
<1>29. ASSUME SweepAlwaysNew PROVE TypeOK'
  BY <1>29, FS_EmptySet, FS_AddElement, FS_RemoveElement, FS_Difference DEF SweepAlwaysNew,
     Remove
<1>30. ASSUME StartSweep PROVE TypeOK'
  BY <1>30 DEF StartSweep, Holding
<1>31. ASSUME Tick PROVE TypeOK'
  BY <1>31 DEF Tick
<1>32. ASSUME StartScan PROVE TypeOK'
  BY <1>32 DEF StartScan
<1>33. ASSUME ClaimExpired PROVE TypeOK'
  BY <1>33 DEF ClaimExpired
<1>34. ASSUME EndScan PROVE TypeOK'
  BY <1>34 DEF EndScan
<1>35. ASSUME Swap PROVE TypeOK'
  <2>0. IsFiniteSet(pool \ {cur}) /\ IsFiniteSet((pool \ {cur}) \cup {fresh})
    BY FS_AddElement, FS_RemoveElement
  <2>1. IsFiniteSet(pool')
    BY <1>35, <2>0 DEF Swap
  <2>2. pool' \in SUBSET Contexts /\ removed' \in SUBSET Contexts
    BY <1>35 DEF Swap, Holding
  <2> QED BY <1>35, <2>1, <2>2 DEF Swap
<1>36. ASSUME NEW c \in Contexts, LookAt(c) PROVE TypeOK'
  BY <1>36 DEF LookAt
<1>37. ASSUME NEW c \in Contexts, ReleaseClaimed(c) PROVE TypeOK'
  BY <1>37 DEF ReleaseClaimed
<1>38. ASSUME NEW c \in Contexts, BuildReplacement(c) PROVE TypeOK'
  BY <1>38 DEF BuildReplacement, Reset
<1>39. ASSUME NEW c \in Contexts, Age(c) PROVE TypeOK'
  BY <1>39 DEF Age
<1>40. ASSUME NEW c \in Contexts, GrowStale(c) PROVE TypeOK'
  BY <1>40 DEF GrowStale
<1>41. ASSUME NEW c \in Contexts, NEW o \in Origins, QuarantineEnds(c, o) PROVE TypeOK'
  BY <1>41 DEF QuarantineEnds
<1>42. ASSUME NEW r \in Requests, NothingToReuse(r) PROVE TypeOK'
  BY <1>42 DEF NothingToReuse, Holding
<1>43. ASSUME NEW r \in Requests, NothingToReplace(r) PROVE TypeOK'
  BY <1>43 DEF NothingToReplace, Holding
<1>44. ASSUME NEW r \in Requests, DestroyHeld(r) PROVE TypeOK'
  BY <1>44, FS_EmptySet, FS_AddElement, FS_RemoveElement, FS_Difference DEF DestroyHeld,
     Remove, Holding
<1>45. ASSUME NEW r \in Requests, FinishDestroyed(r) PROVE TypeOK'
  BY <1>45 DEF FinishDestroyed, DropGuards, NoWish, Holding
<1>46. ASSUME NEW c \in Contexts, SweepLook(c) PROVE TypeOK'
  BY <1>46 DEF SweepLook, Holding
<1>47. ASSUME SweepJudge PROVE TypeOK'
  BY <1>47 DEF SweepJudge, Holding
<1>48. ASSUME EndSweep PROVE TypeOK'
  BY <1>48, FS_Difference DEF EndSweep, Remove, Holding
<1>49. ASSUME UNCHANGED vars PROVE TypeOK'
  BY <1>49 DEF vars
<1> QED
  BY <1>1, <1>2, <1>3, <1>4, <1>5, <1>6, <1>7, <1>8, <1>9, <1>10, <1>11, <1>12, <1>13, <1>14,
     <1>15, <1>16, <1>17, <1>18, <1>19, <1>20, <1>21, <1>22, <1>23, <1>24, <1>25, <1>26,
     <1>27, <1>28, <1>29, <1>30, <1>31, <1>32, <1>33, <1>34, <1>35, <1>36, <1>37, <1>38,
     <1>39, <1>40, <1>41, <1>42, <1>43, <1>44, <1>45, <1>46, <1>47, <1>48, <1>49 DEF Next,
     Acquire, Continue, Scrape, Cancel, Cleanup, Monitor, Environment

(* ... and keeps hold of a context where the next step needs one.           *)
LEMMA HoldingStep ==
  ASSUME TypeOK, Holding, [Next]_vars
  PROVE  Holding'
<1> USE PoolAssumption
<1>1. ASSUME NEW r \in Requests, NEW o \in Origins \cup {NoOrigin},
             NEW country \in CountryCodes, Arrive(r, o, country)
      PROVE  Holding'
  BY <1>1 DEF TypeOK, Holding, Arrive, Goto, Candidates, reqVars, monVars
<1>2. ASSUME NEW r \in Requests, NEW c \in Contexts, TryCandidate(r, c) PROVE Holding'
  BY <1>2 DEF TypeOK, Holding, TryCandidate, Goto, Hold, reqVars, monVars
<1>3. ASSUME NEW r \in Requests, NEW c \in Contexts, LockedReuse(r, c) PROVE Holding'
  BY <1>3 DEF TypeOK, Holding, LockedReuse, Goto, Hold, Candidates, reqVars,
     monVars
<1>4. ASSUME NEW r \in Requests, NEW c \in Contexts, LockedReplace(r, c) PROVE Holding'
  BY <1>4 DEF TypeOK, Holding, LockedReplace, Goto, Remove, Reserve, UsedUpIdle,
     reqVars, monVars
<1>5. ASSUME NEW r \in Requests, NEW c \in Contexts, LockedFallback(r, c) PROVE Holding'
  BY <1>5 DEF TypeOK, Holding, LockedFallback, Goto, Hold, Quarantined, reqVars,
     monVars
<1>6. ASSUME NEW r \in Requests, NoCandidateLeft(r) PROVE Holding'
  BY <1>6 DEF TypeOK, Holding, NoCandidateLeft, Goto, reqVars, monVars
<1>7. ASSUME NEW r \in Requests, LockedReserve(r) PROVE Holding'
  BY <1>7 DEF TypeOK, Holding, LockedReserve, Goto, Reserve, reqVars, monVars
<1>8. ASSUME NEW r \in Requests, LockedRefuse(r) PROVE Holding'
  BY <1>8 DEF TypeOK, Holding, LockedRefuse, Goto, reqVars, monVars
<1>9. ASSUME NEW r \in Requests, AcquireAlwaysNew(r) PROVE Holding'
  BY <1>9 DEF TypeOK, Holding, AcquireAlwaysNew, Goto, Remove, Reserve, reqVars, monVars
<1>10. ASSUME NEW r \in Requests, AcquireDedicated(r) PROVE Holding'
  BY <1>10 DEF TypeOK, Holding, AcquireDedicated, Goto, Reserve, reqVars, monVars
<1>11. ASSUME NEW r \in Requests, NEW c \in Contexts, BuildSucceeds(r, c) PROVE Holding'
  BY <1>11 DEF TypeOK, Holding, BuildSucceeds, Goto, Hold, Reset, reqVars, monVars
<1>12. ASSUME NEW r \in Requests, BuildFails(r) PROVE Holding'
  BY <1>12 DEF TypeOK, Holding, BuildFails, Goto, NoWish, reqVars, monVars
<1>13. ASSUME NEW r \in Requests, Push(r) PROVE Holding'
  BY <1>13 DEF TypeOK, Holding, Push, Goto, reqVars, monVars
<1>14. ASSUME NEW r \in Requests, NEW c \in Contexts, FindSession(r, c) PROVE Holding'
  BY <1>14 DEF TypeOK, Holding, FindSession, Goto, Hold, reqVars, monVars
<1>15. ASSUME NEW r \in Requests, CheckUsedUp(r) PROVE Holding'
  BY <1>15 DEF TypeOK, Holding, CheckUsedUp, Goto, reqVars, monVars
<1>16. ASSUME NEW r \in Requests, EndSession(r) PROVE Holding'
  BY <1>16 DEF TypeOK, Holding, EndSession, Goto, Hold, Remove, reqVars, monVars
<1>17. ASSUME NEW r \in Requests, ClaimSession(r) PROVE Holding'
  BY <1>17 DEF TypeOK, Holding, ClaimSession, Goto, Hold, reqVars, monVars
<1>18. ASSUME NEW r \in Requests, Answered(r) PROVE Holding'
  BY <1>18 DEF TypeOK, Holding, Answered, Goto, NoWish, reqVars, monVars
<1>19. ASSUME NEW r \in Requests, Begin(r) PROVE Holding'
  BY <1>19 DEF TypeOK, Holding, Begin, Goto, reqVars, monVars
<1>20. ASSUME NEW r \in Requests, Discard(r) PROVE Holding'
  BY <1>20 DEF Discard, TypeOK, Holding, Goto, reqVars, monVars
<1>21. ASSUME NEW r \in Requests, FinishAlwaysNew(r) PROVE Holding'
  BY <1>21 DEF FinishAlwaysNew, DropGuards, NoWish, TypeOK, Holding, Goto, Hold, reqVars,
     monVars
<1>22. ASSUME NEW r \in Requests, FinishReusable(r) PROVE Holding'
  BY <1>22 DEF TypeOK, Holding, FinishReusable, DropGuards, Goto, Hold, NoWish, reqVars,
     monVars
<1>23. ASSUME NEW r \in Requests, FinishDedicated(r) PROVE Holding'
  BY <1>23 DEF TypeOK, Holding, FinishDedicated, DropGuards, Goto, Hold, NoWish, reqVars,
     monVars
<1>24. ASSUME NEW r \in Requests, CancelWhileUsing(r) PROVE Holding'
  BY <1>24 DEF TypeOK, Holding, CancelWhileUsing, DropGuards, Goto, Hold, NoWish, Using,
     reqVars, monVars, Guarding
<1>25. ASSUME NEW r \in Requests, CancelWhileWaiting(r) PROVE Holding'
  BY <1>25 DEF TypeOK, Holding, CancelWhileWaiting, Goto, Hold, NoWish, reqVars, monVars
<1>26. ASSUME NEW r \in Requests, CancelWhileBuilt(r) PROVE Holding'
  BY <1>26 DEF TypeOK, Holding, CancelWhileBuilt, Goto, Hold, NoWish, reqVars, monVars
<1>27. ASSUME NEW c \in Contexts, DestroyDoomed(c) PROVE Holding'
  BY <1>27 DEF TypeOK, Holding, DestroyDoomed, Remove, reqVars, monVars
<1>28. ASSUME NEW c \in Contexts, Release(c) PROVE Holding'
  BY <1>28 DEF TypeOK, Holding, Release, reqVars, monVars
<1>29. ASSUME SweepAlwaysNew PROVE Holding'
  BY <1>29 DEF TypeOK, Holding, SweepAlwaysNew, Remove, reqVars, monVars
<1>30. ASSUME StartSweep PROVE Holding'
  BY <1>30 DEF StartSweep, TypeOK, Holding, reqVars, monVars
<1>31. ASSUME Tick PROVE Holding'
  BY <1>31 DEF TypeOK, Holding, Tick, reqVars, monVars
<1>32. ASSUME StartScan PROVE Holding'
  BY <1>32 DEF TypeOK, Holding, StartScan, reqVars, monVars
<1>33. ASSUME ClaimExpired PROVE Holding'
  BY <1>33 DEF TypeOK, Holding, ClaimExpired, reqVars, monVars
<1>34. ASSUME EndScan PROVE Holding'
  BY <1>34 DEF TypeOK, Holding, EndScan, reqVars, monVars
<1>35. ASSUME Swap PROVE Holding'
  BY <1>35 DEF TypeOK, Holding, Swap, reqVars, monVars
<1>36. ASSUME NEW c \in Contexts, LookAt(c) PROVE Holding'
  BY <1>36 DEF TypeOK, Holding, LookAt, reqVars, monVars
<1>37. ASSUME NEW c \in Contexts, ReleaseClaimed(c) PROVE Holding'
  BY <1>37 DEF TypeOK, Holding, ReleaseClaimed, reqVars, monVars
<1>38. ASSUME NEW c \in Contexts, BuildReplacement(c) PROVE Holding'
  BY <1>38 DEF TypeOK, Holding, BuildReplacement, Reset, reqVars, monVars
<1>39. ASSUME NEW c \in Contexts, Age(c) PROVE Holding'
  BY <1>39 DEF TypeOK, Holding, Age, reqVars, monVars
<1>40. ASSUME NEW c \in Contexts, GrowStale(c) PROVE Holding'
  BY <1>40 DEF TypeOK, Holding, GrowStale, reqVars, monVars
<1>41. ASSUME NEW c \in Contexts, NEW o \in Origins, QuarantineEnds(c, o) PROVE Holding'
  BY <1>41 DEF TypeOK, Holding, QuarantineEnds, reqVars, monVars
<1>42. ASSUME NEW r \in Requests, NothingToReuse(r) PROVE Holding'
  BY <1>42 DEF NothingToReuse, TypeOK, Holding, Goto, Hold, reqVars, monVars
<1>43. ASSUME NEW r \in Requests, NothingToReplace(r) PROVE Holding'
  BY <1>43 DEF NothingToReplace, TypeOK, Holding, Goto, Hold, reqVars, monVars
<1>44. ASSUME NEW r \in Requests, DestroyHeld(r) PROVE Holding'
  BY <1>44 DEF DestroyHeld, Remove, TypeOK, Holding, Goto, Hold, reqVars, monVars
<1>45. ASSUME NEW r \in Requests, FinishDestroyed(r) PROVE Holding'
  BY <1>45 DEF FinishDestroyed, DropGuards, NoWish, TypeOK, Holding, Goto, Hold, reqVars,
     monVars
<1>46. ASSUME NEW c \in Contexts, SweepLook(c) PROVE Holding'
  BY <1>46 DEF SweepLook, TypeOK, Holding, reqVars, monVars
<1>47. ASSUME SweepJudge PROVE Holding'
  BY <1>47 DEF SweepJudge, TypeOK, Holding, reqVars, monVars
<1>48. ASSUME EndSweep PROVE Holding'
  BY <1>48 DEF EndSweep, Remove, TypeOK, Holding, reqVars, monVars
<1>49. ASSUME UNCHANGED vars PROVE Holding'
  BY <1>49 DEF Holding, vars, reqVars, monVars
<1> QED
  BY <1>1, <1>2, <1>3, <1>4, <1>5, <1>6, <1>7, <1>8, <1>9, <1>10, <1>11, <1>12, <1>13, <1>14,
     <1>15, <1>16, <1>17, <1>18, <1>19, <1>20, <1>21, <1>22, <1>23, <1>24, <1>25, <1>26,
     <1>27, <1>28, <1>29, <1>30, <1>31, <1>32, <1>33, <1>34, <1>35, <1>36, <1>37, <1>38,
     <1>39, <1>40, <1>41, <1>42, <1>43, <1>44, <1>45, <1>46, <1>47, <1>48, <1>49 DEF Next,
     Acquire, Continue, Scrape, Cancel, Cleanup, Monitor, Environment

(* The three ways a step can treat the slot count. *)
LEMMA CountSame ==
  ASSUME PendingCounts, pending' = pending,
         \A r \in Requests : Building(r)' <=> Building(r)
  PROVE  PendingCounts'
<1>1. Builders' = Builders
  BY DEF Builders
<1> QED BY <1>1 DEF PendingCounts, Builders

(* A promise more, a builder more. *)
LEMMA CountMore ==
  ASSUME TypeOK, PendingCounts, NEW r \in Requests, ~Building(r), Reserve(r)
  PROVE  PendingCounts'
<1>1. Builders' = Builders \cup {r} /\ r \notin Builders
  BY DEF Builders, Building, Reserve, Goto, TypeOK
<1>2. IsFiniteSet(Builders)
  BY FS_Subset, PoolAssumption DEF Builders, PoolAssumption
<1> QED BY <1>1, <1>2, FS_AddElement DEF PendingCounts, Builders, Reserve

(* A promise less, a builder less. *)
LEMMA CountLess ==
  ASSUME TypeOK, PendingCounts, NEW r \in Requests, Building(r),
         pending' = pending - 1, Goto(r, "idle") \/ Goto(r, "claimed")
  PROVE  PendingCounts'
<1>1. Builders' = Builders \ {r} /\ r \in Builders
  BY DEF Builders, Building, Goto, TypeOK
<1>2. IsFiniteSet(Builders)
  BY FS_Subset, PoolAssumption DEF Builders, PoolAssumption
<1> QED BY <1>1, <1>2, FS_RemoveElement DEF PendingCounts, Builders

(* So every step keeps promises and builders in balance.                    *)
LEMMA CountStep ==
  ASSUME TypeOK, PendingCounts, [Next]_vars
  PROVE  PendingCounts'
<1>1. ASSUME NEW r \in Requests, NEW o \in Origins \cup {NoOrigin},
             NEW country \in CountryCodes, Arrive(r, o, country)
      PROVE  PendingCounts'
  BY <1>1, CountSame DEF TypeOK, Building, Arrive, Goto, Candidates, reqVars
<1>2. ASSUME NEW r \in Requests, NEW c \in Contexts, TryCandidate(r, c) PROVE PendingCounts'
  BY <1>2, CountSame DEF TypeOK, Building, TryCandidate, Goto, Hold, reqVars
<1>3. ASSUME NEW r \in Requests, NEW c \in Contexts, LockedReuse(r, c) PROVE PendingCounts'
  BY <1>3, CountSame DEF TypeOK, Building, LockedReuse, Goto, Hold, Candidates,
     reqVars
<1>4. ASSUME NEW r \in Requests, NEW c \in Contexts, LockedReplace(r, c) PROVE PendingCounts'
  BY <1>4, CountMore DEF LockedReplace, Building
<1>5. ASSUME NEW r \in Requests, NEW c \in Contexts, LockedFallback(r, c) PROVE PendingCounts'
  BY <1>5, CountSame DEF TypeOK, Building, LockedFallback, Goto, Hold,
     Quarantined, reqVars
<1>6. ASSUME NEW r \in Requests, NoCandidateLeft(r) PROVE PendingCounts'
  BY <1>6, CountSame DEF TypeOK, Building, NoCandidateLeft, Goto, reqVars
<1>7. ASSUME NEW r \in Requests, LockedReserve(r) PROVE PendingCounts'
  <2>1. CASE Reserve(r)
    BY <1>7, <2>1, CountMore DEF LockedReserve, Building
  <2>2. CASE pending' = pending /\ Goto(r, "full")
    BY <1>7, <2>2, CountSame DEF LockedReserve, Building, Goto, TypeOK
  <2> QED BY <1>7, <2>1, <2>2 DEF LockedReserve
<1>8. ASSUME NEW r \in Requests, LockedRefuse(r) PROVE PendingCounts'
  BY <1>8, CountSame DEF TypeOK, Building, LockedRefuse, Goto, reqVars
<1>9. ASSUME NEW r \in Requests, AcquireAlwaysNew(r) PROVE PendingCounts'
  <2>1. CASE Reserve(r)
    BY <1>9, <2>1, CountMore DEF AcquireAlwaysNew, Building
  <2>2. CASE pending' = pending /\ Goto(r, "refused")
    BY <1>9, <2>2, CountSame DEF AcquireAlwaysNew, Building, Goto, TypeOK
  <2> QED BY <1>9, <2>1, <2>2 DEF AcquireAlwaysNew
<1>10. ASSUME NEW r \in Requests, AcquireDedicated(r) PROVE PendingCounts'
  <2>1. CASE Reserve(r)
    BY <1>10, <2>1, CountMore DEF AcquireDedicated, Building
  <2>2. CASE pending' = pending /\ Goto(r, "refused")
    BY <1>10, <2>2, CountSame DEF AcquireDedicated, Building, Goto, TypeOK
  <2> QED BY <1>10, <2>1, <2>2 DEF AcquireDedicated
<1>11. ASSUME NEW r \in Requests, NEW c \in Contexts, BuildSucceeds(r, c) PROVE PendingCounts'
  BY <1>11, CountSame DEF TypeOK, Building, BuildSucceeds, Goto, Hold, Reset, reqVars
<1>12. ASSUME NEW r \in Requests, BuildFails(r) PROVE PendingCounts'
  BY <1>12, CountLess DEF BuildFails, Building
<1>13. ASSUME NEW r \in Requests, Push(r) PROVE PendingCounts'
  BY <1>13, CountLess DEF Push, Building
<1>14. ASSUME NEW r \in Requests, NEW c \in Contexts, FindSession(r, c) PROVE PendingCounts'
  BY <1>14, CountSame DEF TypeOK, Building, FindSession, Goto, Hold, reqVars
<1>15. ASSUME NEW r \in Requests, CheckUsedUp(r) PROVE PendingCounts'
  BY <1>15, CountSame DEF TypeOK, Building, CheckUsedUp, Goto, reqVars
<1>16. ASSUME NEW r \in Requests, EndSession(r) PROVE PendingCounts'
  BY <1>16, CountSame DEF TypeOK, Building, EndSession, Goto, Hold, Remove, reqVars
<1>17. ASSUME NEW r \in Requests, ClaimSession(r) PROVE PendingCounts'
  BY <1>17, CountSame DEF TypeOK, Building, ClaimSession, Goto, Hold, reqVars
<1>18. ASSUME NEW r \in Requests, Answered(r) PROVE PendingCounts'
  BY <1>18, CountSame DEF TypeOK, Building, Answered, Goto, NoWish, reqVars
<1>19. ASSUME NEW r \in Requests, Begin(r) PROVE PendingCounts'
  BY <1>19, CountSame DEF TypeOK, Building, Begin, Goto, reqVars
<1>20. ASSUME NEW r \in Requests, Discard(r) PROVE PendingCounts'
  BY <1>20, CountSame DEF Discard, TypeOK, Building, Goto, reqVars
<1>21. ASSUME NEW r \in Requests, FinishAlwaysNew(r) PROVE PendingCounts'
  BY <1>21, CountSame DEF FinishAlwaysNew, DropGuards, NoWish, TypeOK, Building, Goto, Hold,
     reqVars
<1>22. ASSUME NEW r \in Requests, FinishReusable(r) PROVE PendingCounts'
  BY <1>22, CountSame DEF TypeOK, Building, FinishReusable, DropGuards, Goto, Hold, NoWish,
     reqVars
<1>23. ASSUME NEW r \in Requests, FinishDedicated(r) PROVE PendingCounts'
  BY <1>23, CountSame DEF TypeOK, Building, FinishDedicated, DropGuards, Goto, Hold, NoWish,
     reqVars
<1>24. ASSUME NEW r \in Requests, CancelWhileUsing(r) PROVE PendingCounts'
  BY <1>24, CountSame DEF TypeOK, Building, CancelWhileUsing, DropGuards, Goto, Hold, NoWish,
     Using, reqVars, Guarding
<1>25. ASSUME NEW r \in Requests, CancelWhileWaiting(r) PROVE PendingCounts'
  BY <1>25, CountSame DEF TypeOK, Building, CancelWhileWaiting, Goto, Hold, NoWish, reqVars
<1>26. ASSUME NEW r \in Requests, CancelWhileBuilt(r) PROVE PendingCounts'
  BY <1>26, CountLess DEF CancelWhileBuilt, Building
<1>27. ASSUME NEW c \in Contexts, DestroyDoomed(c) PROVE PendingCounts'
  BY <1>27, CountSame DEF TypeOK, Building, DestroyDoomed, Remove, reqVars
<1>28. ASSUME NEW c \in Contexts, Release(c) PROVE PendingCounts'
  BY <1>28, CountSame DEF TypeOK, Building, Release, reqVars
<1>29. ASSUME SweepAlwaysNew PROVE PendingCounts'
  BY <1>29, CountSame DEF TypeOK, Building, SweepAlwaysNew, Remove, reqVars
<1>30. ASSUME StartSweep PROVE PendingCounts'
  BY <1>30, CountSame DEF StartSweep, TypeOK, Building, reqVars
<1>31. ASSUME Tick PROVE PendingCounts'
  BY <1>31, CountSame DEF TypeOK, Building, Tick, reqVars
<1>32. ASSUME StartScan PROVE PendingCounts'
  BY <1>32, CountSame DEF TypeOK, Building, StartScan, reqVars
<1>33. ASSUME ClaimExpired PROVE PendingCounts'
  BY <1>33, CountSame DEF TypeOK, Building, ClaimExpired, reqVars
<1>34. ASSUME EndScan PROVE PendingCounts'
  BY <1>34, CountSame DEF TypeOK, Building, EndScan, reqVars
<1>35. ASSUME Swap PROVE PendingCounts'
  BY <1>35, CountSame DEF TypeOK, Building, Swap, reqVars
<1>36. ASSUME NEW c \in Contexts, LookAt(c) PROVE PendingCounts'
  BY <1>36, CountSame DEF TypeOK, Building, LookAt, reqVars
<1>37. ASSUME NEW c \in Contexts, ReleaseClaimed(c) PROVE PendingCounts'
  BY <1>37, CountSame DEF TypeOK, Building, ReleaseClaimed, reqVars
<1>38. ASSUME NEW c \in Contexts, BuildReplacement(c) PROVE PendingCounts'
  BY <1>38, CountSame DEF TypeOK, Building, BuildReplacement, Reset, reqVars
<1>39. ASSUME NEW c \in Contexts, Age(c) PROVE PendingCounts'
  BY <1>39, CountSame DEF TypeOK, Building, Age, reqVars
<1>40. ASSUME NEW c \in Contexts, GrowStale(c) PROVE PendingCounts'
  BY <1>40, CountSame DEF TypeOK, Building, GrowStale, reqVars
<1>41. ASSUME NEW c \in Contexts, NEW o \in Origins, QuarantineEnds(c, o) PROVE PendingCounts'
  BY <1>41, CountSame DEF TypeOK, Building, QuarantineEnds, reqVars
<1>42. ASSUME NEW r \in Requests, NothingToReuse(r) PROVE PendingCounts'
  BY <1>42, CountSame DEF NothingToReuse, TypeOK, Building, Goto, Hold, reqVars
<1>43. ASSUME NEW r \in Requests, NothingToReplace(r) PROVE PendingCounts'
  BY <1>43, CountSame DEF NothingToReplace, TypeOK, Building, Goto, Hold, reqVars
<1>44. ASSUME NEW r \in Requests, DestroyHeld(r) PROVE PendingCounts'
  BY <1>44, CountSame DEF DestroyHeld, Remove, TypeOK, Building, Goto, Hold, reqVars
<1>45. ASSUME NEW r \in Requests, FinishDestroyed(r) PROVE PendingCounts'
  BY <1>45, CountSame DEF FinishDestroyed, DropGuards, NoWish, TypeOK, Building, Goto, Hold,
     reqVars
<1>46. ASSUME NEW c \in Contexts, SweepLook(c) PROVE PendingCounts'
  BY <1>46, CountSame DEF SweepLook, TypeOK, Building, reqVars
<1>47. ASSUME SweepJudge PROVE PendingCounts'
  BY <1>47, CountSame DEF SweepJudge, TypeOK, Building, reqVars
<1>48. ASSUME EndSweep PROVE PendingCounts'
  BY <1>48, CountSame DEF EndSweep, Remove, TypeOK, Building, reqVars
<1>49. ASSUME UNCHANGED vars PROVE PendingCounts'
  BY <1>49, CountSame DEF Building, vars, reqVars
<1> QED
  BY <1>1, <1>2, <1>3, <1>4, <1>5, <1>6, <1>7, <1>8, <1>9, <1>10, <1>11, <1>12, <1>13, <1>14,
     <1>15, <1>16, <1>17, <1>18, <1>19, <1>20, <1>21, <1>22, <1>23, <1>24, <1>25, <1>26,
     <1>27, <1>28, <1>29, <1>30, <1>31, <1>32, <1>33, <1>34, <1>35, <1>36, <1>37, <1>38,
     <1>39, <1>40, <1>41, <1>42, <1>43, <1>44, <1>45, <1>46, <1>47, <1>48, <1>49 DEF Next,
     Acquire, Continue, Scrape, Cancel, Cleanup, Monitor, Environment

(* Adding an element adds at most one. *)
LEMMA AddOne ==
  ASSUME NEW S, IsFiniteSet(S), NEW x
  PROVE  Cardinality(S \cup {x}) \in Nat /\ Cardinality(S \cup {x}) <= Cardinality(S) + 1
<1>1. Cardinality(S) \in Nat
  BY FS_CardinalityType
<1>2. Cardinality(S \cup {x}) = IF x \in S THEN Cardinality(S) ELSE Cardinality(S) + 1
  BY FS_AddElement
<1> QED BY <1>1, <1>2

(* Two ways a step can treat the pool itself. *)
LEMMA PoolSame ==
  ASSUME Capacity, pool' = pool, pending' = pending
  PROVE  Capacity'
BY DEF Capacity, Occupied

(* A step that only takes contexts out stays below the limit. *)
LEMMA PoolShrinks ==
  ASSUME TypeOK, Capacity, pool' \in SUBSET pool,
         pending' \in Nat, pending' <= pending
  PROVE  Capacity'
<1>1. IsFiniteSet(pool') /\ Cardinality(pool') <= Cardinality(pool)
  BY FS_Subset DEF TypeOK
<1>2. Cardinality(pool') \in Nat /\ Cardinality(pool) \in Nat
  BY <1>1, FS_CardinalityType DEF TypeOK
<1> QED BY <1>1, <1>2, PoolAssumption DEF Capacity, Occupied, TypeOK, PoolAssumption

(* Every step stays below the limit: what the write lock saw is still true   *)
(* when the promise is taken, and a promise is exchanged for a context.      *)
LEMMA CapacityStep ==
  ASSUME TypeOK, Holding, PendingCounts, Capacity, [Next]_vars
  PROVE  Capacity'
<1> USE PoolAssumption DEF PoolAssumption
<1> Cardinality(pool) \in Nat
  BY FS_CardinalityType DEF TypeOK
<1>1. ASSUME NEW r \in Requests, NEW o \in Origins \cup {NoOrigin},
             NEW country \in CountryCodes, Arrive(r, o, country)
      PROVE  Capacity'
  BY <1>1, PoolSame DEF Arrive
<1>2. ASSUME NEW r \in Requests, NEW c \in Contexts, TryCandidate(r, c) PROVE Capacity'
  BY <1>2, PoolSame DEF TryCandidate
<1>3. ASSUME NEW r \in Requests, NEW c \in Contexts, LockedReuse(r, c) PROVE Capacity'
  BY <1>3, PoolSame DEF LockedReuse
<1>4. ASSUME NEW r \in Requests, NEW c \in Contexts, LockedReplace(r, c) PROVE Capacity'
  <2>1. Cardinality(pool') = Cardinality(pool) - 1
    BY <1>4, FS_RemoveElement DEF LockedReplace, UsedUpIdle, Remove, TypeOK
  <2> QED BY <1>4, <2>1 DEF LockedReplace, Reserve, Capacity, Occupied, TypeOK
<1>5. ASSUME NEW r \in Requests, NEW c \in Contexts, LockedFallback(r, c) PROVE Capacity'
  BY <1>5, PoolSame DEF LockedFallback
<1>6. ASSUME NEW r \in Requests, NoCandidateLeft(r) PROVE Capacity'
  BY <1>6, PoolSame DEF NoCandidateLeft
<1>7. ASSUME NEW r \in Requests, LockedReserve(r) PROVE Capacity'
  BY <1>7 DEF LockedReserve, Reserve, Capacity, Occupied, TypeOK
<1>8. ASSUME NEW r \in Requests, LockedRefuse(r) PROVE Capacity'
  BY <1>8, PoolSame DEF LockedRefuse
<1>9. ASSUME NEW r \in Requests, AcquireAlwaysNew(r) PROVE Capacity'
  <2>1. pool' = pool \cap busy
    BY <1>9 DEF AcquireAlwaysNew, Remove
  <2>2. CASE Cardinality(pool \cap busy) + pending < MaxContexts
    <3>1. Cardinality(pool \cap busy) \in Nat
      BY FS_Intersection, FS_CardinalityType DEF TypeOK
    <3> QED BY <1>9, <2>1, <2>2, <3>1 DEF AcquireAlwaysNew, Reserve, Capacity, Occupied,
               TypeOK
  <2>3. CASE ~(Cardinality(pool \cap busy) + pending < MaxContexts)
    BY <1>9, <2>1, <2>3, PoolShrinks DEF AcquireAlwaysNew, TypeOK
  <2> QED BY <2>2, <2>3
<1>10. ASSUME NEW r \in Requests, AcquireDedicated(r) PROVE Capacity'
  BY <1>10 DEF AcquireDedicated, Reserve, Capacity, Occupied, TypeOK
<1>11. ASSUME NEW r \in Requests, NEW c \in Contexts, BuildSucceeds(r, c) PROVE Capacity'
  BY <1>11, PoolSame DEF BuildSucceeds
<1>12. ASSUME NEW r \in Requests, BuildFails(r) PROVE Capacity'
  BY <1>12, BuilderPromised, PoolShrinks DEF BuildFails, Building, TypeOK
<1>13. ASSUME NEW r \in Requests, Push(r) PROVE Capacity'
  <2>1. LET more == pool \cup {held[r]}
        IN  Cardinality(more) \in Nat /\ Cardinality(more) <= Cardinality(pool) + 1
    <3>1. IsFiniteSet(pool) BY DEF TypeOK
    <3> QED BY <3>1, AddOne
  <2> QED BY <1>13, <2>1 DEF Push, Capacity, Occupied, TypeOK
<1>14. ASSUME NEW r \in Requests, NEW c \in Contexts, FindSession(r, c) PROVE Capacity'
  BY <1>14, PoolSame DEF FindSession
<1>15. ASSUME NEW r \in Requests, CheckUsedUp(r) PROVE Capacity'
  BY <1>15, PoolSame DEF CheckUsedUp
<1>16. ASSUME NEW r \in Requests, EndSession(r) PROVE Capacity'
  BY <1>16, PoolShrinks DEF EndSession, TypeOK, Remove
<1>17. ASSUME NEW r \in Requests, ClaimSession(r) PROVE Capacity'
  BY <1>17, PoolSame DEF ClaimSession
<1>18. ASSUME NEW r \in Requests, Answered(r) PROVE Capacity'
  BY <1>18, PoolSame DEF Answered
<1>19. ASSUME NEW r \in Requests, Begin(r) PROVE Capacity'
  BY <1>19, PoolSame DEF Begin
<1>20. ASSUME NEW r \in Requests, Discard(r) PROVE Capacity'
  BY <1>20, PoolSame DEF Discard
<1>21. ASSUME NEW r \in Requests, FinishAlwaysNew(r) PROVE Capacity'
  BY <1>21, PoolSame DEF FinishAlwaysNew, DropGuards
<1>22. ASSUME NEW r \in Requests, FinishReusable(r) PROVE Capacity'
  BY <1>22, PoolSame DEF FinishReusable, DropGuards
<1>23. ASSUME NEW r \in Requests, FinishDedicated(r) PROVE Capacity'
  BY <1>23, PoolSame DEF FinishDedicated, DropGuards
<1>24. ASSUME NEW r \in Requests, CancelWhileUsing(r) PROVE Capacity'
  BY <1>24, PoolSame DEF CancelWhileUsing, DropGuards, Guarding
<1>25. ASSUME NEW r \in Requests, CancelWhileWaiting(r) PROVE Capacity'
  BY <1>25, PoolSame DEF CancelWhileWaiting
<1>26. ASSUME NEW r \in Requests, CancelWhileBuilt(r) PROVE Capacity'
  BY <1>26, BuilderPromised, PoolShrinks DEF CancelWhileBuilt, Building, TypeOK
<1>27. ASSUME NEW c \in Contexts, DestroyDoomed(c) PROVE Capacity'
  BY <1>27, PoolShrinks DEF DestroyDoomed, TypeOK, Remove
<1>28. ASSUME NEW c \in Contexts, Release(c) PROVE Capacity'
  BY <1>28, PoolSame DEF Release
<1>29. ASSUME SweepAlwaysNew PROVE Capacity'
  BY <1>29, PoolShrinks DEF SweepAlwaysNew, TypeOK, Remove
<1>30. ASSUME StartSweep PROVE Capacity'
  BY <1>30, PoolSame DEF StartSweep
<1>31. ASSUME Tick PROVE Capacity'
  BY <1>31, PoolSame DEF Tick
<1>32. ASSUME StartScan PROVE Capacity'
  BY <1>32, PoolSame DEF StartScan
<1>33. ASSUME ClaimExpired PROVE Capacity'
  BY <1>33, PoolSame DEF ClaimExpired
<1>34. ASSUME EndScan PROVE Capacity'
  BY <1>34, PoolSame DEF EndScan
<1>35. ASSUME Swap PROVE Capacity'
  <2>1. CASE cur \in pool
    <3> DEFINE rest == pool \ {cur}
    <3>1. IsFiniteSet(rest) /\ Cardinality(rest) = Cardinality(pool) - 1
      BY <2>1, FS_RemoveElement DEF TypeOK
    <3>2. Cardinality(rest \cup {fresh}) \in Nat
          /\ Cardinality(rest \cup {fresh}) <= Cardinality(rest) + 1
      BY <3>1, AddOne
    <3>3. Cardinality(rest) \in Nat
      BY <3>1, FS_CardinalityType
    <3>4. pool' = rest \cup {fresh} /\ pending' = pending
      BY <1>35, <2>1 DEF Swap
    <3> HIDE DEF rest
    <3> QED BY <3>1, <3>2, <3>3, <3>4 DEF Capacity, Occupied, TypeOK
  <2>2. CASE cur \notin pool
    BY <1>35, <2>2, PoolSame DEF Swap
  <2> QED BY <2>1, <2>2
<1>36. ASSUME NEW c \in Contexts, LookAt(c) PROVE Capacity'
  BY <1>36, PoolSame DEF LookAt
<1>37. ASSUME NEW c \in Contexts, ReleaseClaimed(c) PROVE Capacity'
  BY <1>37, PoolSame DEF ReleaseClaimed
<1>38. ASSUME NEW c \in Contexts, BuildReplacement(c) PROVE Capacity'
  BY <1>38, PoolSame DEF BuildReplacement
<1>39. ASSUME NEW c \in Contexts, Age(c) PROVE Capacity'
  BY <1>39, PoolSame DEF Age
<1>40. ASSUME NEW c \in Contexts, GrowStale(c) PROVE Capacity'
  BY <1>40, PoolSame DEF GrowStale
<1>41. ASSUME NEW c \in Contexts, NEW o \in Origins, QuarantineEnds(c, o) PROVE Capacity'
  BY <1>41, PoolSame DEF QuarantineEnds
<1>42. ASSUME NEW r \in Requests, NothingToReuse(r) PROVE Capacity'
  BY <1>42, PoolSame DEF NothingToReuse
<1>43. ASSUME NEW r \in Requests, NothingToReplace(r) PROVE Capacity'
  BY <1>43, PoolSame DEF NothingToReplace
<1>44. ASSUME NEW r \in Requests, DestroyHeld(r) PROVE Capacity'
  BY <1>44, PoolShrinks DEF DestroyHeld, Remove, TypeOK
<1>45. ASSUME NEW r \in Requests, FinishDestroyed(r) PROVE Capacity'
  BY <1>45, PoolSame DEF FinishDestroyed, DropGuards
<1>46. ASSUME NEW c \in Contexts, SweepLook(c) PROVE Capacity'
  BY <1>46, PoolSame DEF SweepLook
<1>47. ASSUME SweepJudge PROVE Capacity'
  BY <1>47, PoolSame DEF SweepJudge
<1>48. ASSUME EndSweep PROVE Capacity'
  BY <1>48, PoolShrinks DEF EndSweep, Remove, TypeOK
<1>49. ASSUME UNCHANGED vars PROVE Capacity'
  BY <1>49, PoolSame DEF vars
<1> QED
  BY <1>1, <1>2, <1>3, <1>4, <1>5, <1>6, <1>7, <1>8, <1>9, <1>10, <1>11, <1>12, <1>13, <1>14,
     <1>15, <1>16, <1>17, <1>18, <1>19, <1>20, <1>21, <1>22, <1>23, <1>24, <1>25, <1>26,
     <1>27, <1>28, <1>29, <1>30, <1>31, <1>32, <1>33, <1>34, <1>35, <1>36, <1>37, <1>38,
     <1>39, <1>40, <1>41, <1>42, <1>43, <1>44, <1>45, <1>46, <1>47, <1>48, <1>49 DEF Next,
     Acquire, Continue, Scrape, Cancel, Cleanup, Monitor, Environment

--------------------------------------------------------------------------------
(* Ownership. *)

Owns(r) == pc[r] = "built" \/ Guarding(r)

OwnInv ==
  /\ \A r \in Requests : Owns(r) => held[r] \in busy /\ held[r] \notin MonitorOwns
  /\ \A r, s \in Requests : Owns(r) /\ Owns(s) /\ held[r] = held[s] => r = s
  /\ MonitorOwns \subseteq busy

(* Every step keeps owners apart: a flag that is set is never taken again.   *)
LEMMA OwnStep ==
  ASSUME TypeOK, Holding, OwnInv, [Next]_vars
  PROVE  OwnInv'
<1> USE PoolAssumption DEF PoolAssumption, TypeOK, OwnInv, Owns, Guarding, Using,
       MonitorOwns, Goto,
       ctxVars, chromeVars, reqVars, monVars, Hold
<1>1. ASSUME NEW r \in Requests, NEW o \in Origins \cup {NoOrigin},
             NEW country \in CountryCodes, Arrive(r, o, country)
      PROVE  OwnInv'
  <2>1. CASE country
    BY <1>1, <2>1 DEF Arrive, Candidates
  <2>2. CASE ~(country)
    BY <1>1, <2>2 DEF Arrive, Candidates
  <2> QED BY <2>1, <2>2
<1>2. ASSUME NEW r \in Requests, NEW c \in Contexts, TryCandidate(r, c) PROVE OwnInv'
  BY <1>2 DEF TryCandidate
<1>3. ASSUME NEW r \in Requests, NEW c \in Contexts, LockedReuse(r, c) PROVE OwnInv'
  BY <1>3 DEF LockedReuse, Candidates
<1>4. ASSUME NEW r \in Requests, NEW c \in Contexts, LockedReplace(r, c) PROVE OwnInv'
  BY <1>4 DEF LockedReplace, Remove, Reserve, UsedUpIdle
<1>5. ASSUME NEW r \in Requests, NEW c \in Contexts, LockedFallback(r, c) PROVE OwnInv'
  BY <1>5 DEF LockedFallback, Quarantined
<1>6. ASSUME NEW r \in Requests, NoCandidateLeft(r) PROVE OwnInv'
  BY <1>6 DEF NoCandidateLeft
<1>7. ASSUME NEW r \in Requests, LockedReserve(r) PROVE OwnInv'
  BY <1>7 DEF LockedReserve, Reserve
<1>8. ASSUME NEW r \in Requests, LockedRefuse(r) PROVE OwnInv'
  BY <1>8 DEF LockedRefuse
<1>9. ASSUME NEW r \in Requests, AcquireAlwaysNew(r) PROVE OwnInv'
  BY <1>9, SMTT(30) DEF AcquireAlwaysNew, Remove, Reserve
<1>10. ASSUME NEW r \in Requests, AcquireDedicated(r) PROVE OwnInv'
  BY <1>10 DEF AcquireDedicated, Reserve
<1>11. ASSUME NEW r \in Requests, NEW c \in Contexts, BuildSucceeds(r, c) PROVE OwnInv'
  BY <1>11 DEF BuildSucceeds, Reset, Unused
<1>12. ASSUME NEW r \in Requests, BuildFails(r) PROVE OwnInv'
  BY <1>12 DEF BuildFails, NoWish
<1>13. ASSUME NEW r \in Requests, Push(r) PROVE OwnInv'
  BY <1>13 DEF Push
<1>14. ASSUME NEW r \in Requests, NEW c \in Contexts, FindSession(r, c) PROVE OwnInv'
  BY <1>14 DEF FindSession
<1>15. ASSUME NEW r \in Requests, CheckUsedUp(r) PROVE OwnInv'
  BY <1>15 DEF CheckUsedUp
<1>16. ASSUME NEW r \in Requests, EndSession(r) PROVE OwnInv'
  <2>1. CASE held[r] \in pool \ busy
    <3>1. /\ busy' = busy \cup {held[r]} /\ UNCHANGED <<mpc, cur, claimed>>
          /\ pc' = [pc EXCEPT ![r] = "idle"] /\ held' = [held EXCEPT ![r] = NoContext]
      BY <1>16, <2>1 DEF EndSession
    <3> QED BY <3>1
  <2>2. CASE held[r] \notin pool \ busy
    BY <1>16, <2>2 DEF EndSession
  <2> QED BY <2>1, <2>2
<1>17. ASSUME NEW r \in Requests, ClaimSession(r) PROVE OwnInv'
  <2>1. CASE held[r] \in busy
    BY <1>17, <2>1 DEF ClaimSession
  <2>2. CASE ~(held[r] \in busy)
    BY <1>17, <2>2 DEF ClaimSession
  <2> QED BY <2>1, <2>2
<1>18. ASSUME NEW r \in Requests, Answered(r) PROVE OwnInv'
  BY <1>18 DEF Answered, NoWish
<1>19. ASSUME NEW r \in Requests, Begin(r) PROVE OwnInv'
  BY <1>19 DEF Begin
<1>20. ASSUME NEW r \in Requests, Discard(r) PROVE OwnInv'
  BY <1>20 DEF Discard
<1>21. ASSUME NEW r \in Requests, FinishAlwaysNew(r) PROVE OwnInv'
  BY <1>21 DEF FinishAlwaysNew, DropGuards, NoWish
<1>22. ASSUME NEW r \in Requests, FinishReusable(r) PROVE OwnInv'
  BY <1>22 DEF FinishReusable, DropGuards, NoWish
<1>23. ASSUME NEW r \in Requests, FinishDedicated(r) PROVE OwnInv'
  BY <1>23 DEF FinishDedicated, DropGuards, NoWish
<1>24. ASSUME NEW r \in Requests, CancelWhileUsing(r) PROVE OwnInv'
  BY <1>24 DEF CancelWhileUsing, DropGuards, NoWish, Using, Guarding
<1>25. ASSUME NEW r \in Requests, CancelWhileWaiting(r) PROVE OwnInv'
  BY <1>25 DEF CancelWhileWaiting, NoWish
<1>26. ASSUME NEW r \in Requests, CancelWhileBuilt(r) PROVE OwnInv'
  BY <1>26 DEF CancelWhileBuilt, NoWish
<1>27. ASSUME NEW c \in Contexts, DestroyDoomed(c) PROVE OwnInv'
  BY <1>27 DEF DestroyDoomed, Remove
<1>28. ASSUME NEW c \in Contexts, Release(c) PROVE OwnInv'
  BY <1>28 DEF Release
<1>29. ASSUME SweepAlwaysNew PROVE OwnInv'
  BY <1>29 DEF SweepAlwaysNew, Remove
<1>30. ASSUME StartSweep PROVE OwnInv'
  BY <1>30 DEF StartSweep
<1>31. ASSUME Tick PROVE OwnInv'
  BY <1>31 DEF Tick
<1>32. ASSUME StartScan PROVE OwnInv'
  BY <1>32 DEF StartScan
<1>33. ASSUME ClaimExpired PROVE OwnInv'
  BY <1>33 DEF ClaimExpired
<1>34. ASSUME EndScan PROVE OwnInv'
  BY <1>34 DEF EndScan
<1>35. ASSUME Swap PROVE OwnInv'
  BY <1>35 DEF Swap
<1>36. ASSUME NEW c \in Contexts, LookAt(c) PROVE OwnInv'
  BY <1>36 DEF LookAt
<1>37. ASSUME NEW c \in Contexts, ReleaseClaimed(c) PROVE OwnInv'
  BY <1>37 DEF ReleaseClaimed
<1>38. ASSUME NEW c \in Contexts, BuildReplacement(c) PROVE OwnInv'
  BY <1>38 DEF BuildReplacement, Reset, Unused
<1>39. ASSUME NEW c \in Contexts, Age(c) PROVE OwnInv'
  BY <1>39 DEF Age
<1>40. ASSUME NEW c \in Contexts, GrowStale(c) PROVE OwnInv'
  BY <1>40 DEF GrowStale
<1>41. ASSUME NEW c \in Contexts, NEW o \in Origins, QuarantineEnds(c, o) PROVE OwnInv'
  BY <1>41 DEF QuarantineEnds
<1>42. ASSUME NEW r \in Requests, NothingToReuse(r) PROVE OwnInv'
  BY <1>42 DEF NothingToReuse
<1>43. ASSUME NEW r \in Requests, NothingToReplace(r) PROVE OwnInv'
  BY <1>43 DEF NothingToReplace
<1>44. ASSUME NEW r \in Requests, DestroyHeld(r) PROVE OwnInv'
  BY <1>44 DEF DestroyHeld, Remove
<1>45. ASSUME NEW r \in Requests, FinishDestroyed(r) PROVE OwnInv'
  BY <1>45 DEF FinishDestroyed, DropGuards, NoWish
<1>46. ASSUME NEW c \in Contexts, SweepLook(c) PROVE OwnInv'
  BY <1>46 DEF SweepLook
<1>47. ASSUME SweepJudge PROVE OwnInv'
  BY <1>47 DEF SweepJudge
<1>48. ASSUME EndSweep PROVE OwnInv'
  BY <1>48 DEF EndSweep, Remove
<1>49. ASSUME UNCHANGED vars PROVE OwnInv'
  BY <1>49 DEF vars
<1> QED
  BY <1>1, <1>2, <1>3, <1>4, <1>5, <1>6, <1>7, <1>8, <1>9, <1>10, <1>11, <1>12, <1>13, <1>14,
     <1>15, <1>16, <1>17, <1>18, <1>19, <1>20, <1>21, <1>22, <1>23, <1>24, <1>25, <1>26,
     <1>27, <1>28, <1>29, <1>30, <1>31, <1>32, <1>33, <1>34, <1>35, <1>36, <1>37, <1>38,
     <1>39, <1>40, <1>41, <1>42, <1>43, <1>44, <1>45, <1>46, <1>47, <1>48, <1>49 DEF Next,
     Acquire, Continue, Scrape, Cancel, Cleanup, Monitor, Environment

--------------------------------------------------------------------------------
(* What stays in the pool. *)

(* Which steps belong to which mode, what AlwaysNew cleanup may still touch,  *)
(* and what a request sees under the read lock, which keeps writers out.      *)
StayInv ==
  /\ \A r \in Requests :
       /\ pc[r] \in {"look", "lock", "limit", "full", "last"} => mode = "reusable"
       /\ pc[r] \in {"found", "ending", "checked"} => mode = "dedicated"
       /\ Owns(r) => held[r] \notin doomed
       /\ pc[r] = "look" => cand[r] \subseteq pool
  /\ \A r, s \in Requests : pc[r] \in {"limit", "full", "last"} => pc[s] # "look"
  /\ mpc = "sweep" => mode = "dedicated"
  /\ mode # "always_new" => doomed = {}
  /\ UsedStaysInPool

(* Every step keeps used contexts in the pool, whoever takes others out.     *)
LEMMA StayStep ==
  ASSUME TypeOK, Holding, OwnInv, StayInv, [Next]_vars
  PROVE  StayInv'
<1> USE PoolAssumption DEF PoolAssumption, TypeOK, StayInv, UsedStaysInPool, Using, Guarding,
       Owns,
       Goto, ctxVars, chromeVars, reqVars, monVars
<1>1. ASSUME NEW r \in Requests, NEW o \in Origins \cup {NoOrigin},
             NEW country \in CountryCodes, Arrive(r, o, country)
      PROVE  StayInv'
  <2>1. CASE country
    BY <1>1, <2>1 DEF Arrive, Candidates
  <2>2. CASE ~(country)
    BY <1>1, <2>2 DEF Arrive, Candidates, CanRead, WriteHeld
  <2> QED BY <2>1, <2>2
<1>2. ASSUME NEW r \in Requests, NEW c \in Contexts, TryCandidate(r, c) PROVE StayInv'
  <2>1. CASE c \in busy
    BY <1>2, <2>1 DEF TryCandidate, Hold
  <2>2. CASE ~(c \in busy)
    BY <1>2, <2>2 DEF TryCandidate, Hold
  <2> QED BY <2>1, <2>2
<1>3. ASSUME NEW r \in Requests, NEW c \in Contexts, LockedReuse(r, c) PROVE StayInv'
  BY <1>3 DEF LockedReuse, Hold, Candidates
<1>4. ASSUME NEW r \in Requests, NEW c \in Contexts, LockedReplace(r, c) PROVE StayInv'
  BY <1>4 DEF OwnInv, LockedReplace, Remove, Reserve, UsedUpIdle
<1>5. ASSUME NEW r \in Requests, NEW c \in Contexts, LockedFallback(r, c) PROVE StayInv'
  BY <1>5 DEF LockedFallback, Hold, Quarantined
<1>6. ASSUME NEW r \in Requests, NoCandidateLeft(r) PROVE StayInv'
  BY <1>6 DEF NoCandidateLeft
<1>7. ASSUME NEW r \in Requests, LockedReserve(r) PROVE StayInv'
  BY <1>7 DEF LockedReserve, Reserve
<1>8. ASSUME NEW r \in Requests, LockedRefuse(r) PROVE StayInv'
  BY <1>8 DEF LockedRefuse
<1>9. ASSUME NEW r \in Requests, AcquireAlwaysNew(r) PROVE StayInv'
  BY <1>9 DEF OwnInv, CanWrite, AcquireAlwaysNew, Remove, Reserve
<1>10. ASSUME NEW r \in Requests, AcquireDedicated(r) PROVE StayInv'
  BY <1>10 DEF AcquireDedicated, Reserve
<1>11. ASSUME NEW r \in Requests, NEW c \in Contexts, BuildSucceeds(r, c) PROVE StayInv'
  BY <1>11 DEF BuildSucceeds, Hold, Reset, Unused
<1>12. ASSUME NEW r \in Requests, BuildFails(r) PROVE StayInv'
  BY <1>12 DEF BuildFails, NoWish
<1>13. ASSUME NEW r \in Requests, Push(r) PROVE StayInv'
  BY <1>13 DEF CanWrite, Push
<1>14. ASSUME NEW r \in Requests, NEW c \in Contexts, FindSession(r, c) PROVE StayInv'
  BY <1>14 DEF FindSession, Hold
<1>15. ASSUME NEW r \in Requests, CheckUsedUp(r) PROVE StayInv'
  BY <1>15 DEF CheckUsedUp
<1>16. ASSUME NEW r \in Requests, EndSession(r) PROVE StayInv'
  <2>1. CASE held[r] \in pool \ busy
    BY <1>16, <2>1 DEF OwnInv, CanWrite, EndSession, Hold, Remove
  <2>2. CASE ~(held[r] \in pool \ busy)
    BY <1>16, <2>2 DEF OwnInv, CanWrite, EndSession, Hold, Remove
  <2> QED BY <2>1, <2>2
<1>17. ASSUME NEW r \in Requests, ClaimSession(r) PROVE StayInv'
  <2>1. CASE held[r] \in busy
    BY <1>17, <2>1 DEF ClaimSession, Hold
  <2>2. CASE ~(held[r] \in busy)
    BY <1>17, <2>2 DEF ClaimSession, Hold
  <2> QED BY <2>1, <2>2
<1>18. ASSUME NEW r \in Requests, Answered(r) PROVE StayInv'
  BY <1>18 DEF Answered, NoWish
<1>19. ASSUME NEW r \in Requests, Begin(r) PROVE StayInv'
  BY <1>19 DEF Begin
<1>20. ASSUME NEW r \in Requests, Discard(r) PROVE StayInv'
  BY <1>20 DEF Discard
<1>21. ASSUME NEW r \in Requests, FinishAlwaysNew(r) PROVE StayInv'
  BY <1>21 DEF FinishAlwaysNew, DropGuards, NoWish, Hold, OwnInv
<1>22. ASSUME NEW r \in Requests, FinishReusable(r) PROVE StayInv'
  BY <1>22 DEF OwnInv, FinishReusable, DropGuards, Hold, NoWish
<1>23. ASSUME NEW r \in Requests, FinishDedicated(r) PROVE StayInv'
  BY <1>23 DEF OwnInv, FinishDedicated, DropGuards, Hold, NoWish
<1>24. ASSUME NEW r \in Requests, CancelWhileUsing(r) PROVE StayInv'
  BY <1>24 DEF OwnInv, CancelWhileUsing, DropGuards, Hold, NoWish, Guarding
<1>25. ASSUME NEW r \in Requests, CancelWhileWaiting(r) PROVE StayInv'
  BY <1>25 DEF CancelWhileWaiting, Hold, NoWish
<1>26. ASSUME NEW r \in Requests, CancelWhileBuilt(r) PROVE StayInv'
  BY <1>26 DEF CancelWhileBuilt, Hold, NoWish
<1>27. ASSUME NEW c \in Contexts, DestroyDoomed(c) PROVE StayInv'
  BY <1>27 DEF OwnInv, CanWrite, DestroyDoomed, Remove
<1>28. ASSUME NEW c \in Contexts, Release(c) PROVE StayInv'
  BY <1>28 DEF Release
<1>29. ASSUME SweepAlwaysNew PROVE StayInv'
  BY <1>29 DEF OwnInv, CanWrite, SweepAlwaysNew, Remove
<1>30. ASSUME StartSweep PROVE StayInv'
  BY <1>30 DEF StartSweep
<1>31. ASSUME Tick PROVE StayInv'
  BY <1>31 DEF Tick
<1>32. ASSUME StartScan PROVE StayInv'
  BY <1>32 DEF StartScan
<1>33. ASSUME ClaimExpired PROVE StayInv'
  BY <1>33 DEF ClaimExpired
<1>34. ASSUME EndScan PROVE StayInv'
  BY <1>34 DEF EndScan
<1>35. ASSUME Swap PROVE StayInv'
  BY <1>35 DEF OwnInv, MonitorOwns, CanWrite, Swap
<1>36. ASSUME NEW c \in Contexts, LookAt(c) PROVE StayInv'
  BY <1>36 DEF LookAt
<1>37. ASSUME NEW c \in Contexts, ReleaseClaimed(c) PROVE StayInv'
  BY <1>37 DEF ReleaseClaimed
<1>38. ASSUME NEW c \in Contexts, BuildReplacement(c) PROVE StayInv'
  BY <1>38 DEF BuildReplacement, Reset
<1>39. ASSUME NEW c \in Contexts, Age(c) PROVE StayInv'
  BY <1>39 DEF Age
<1>40. ASSUME NEW c \in Contexts, GrowStale(c) PROVE StayInv'
  BY <1>40 DEF GrowStale
<1>41. ASSUME NEW c \in Contexts, NEW o \in Origins, QuarantineEnds(c, o) PROVE StayInv'
  BY <1>41 DEF QuarantineEnds
<1>42. ASSUME NEW r \in Requests, NothingToReuse(r) PROVE StayInv'
  BY <1>42 DEF NothingToReuse, Hold, CanWrite
<1>43. ASSUME NEW r \in Requests, NothingToReplace(r) PROVE StayInv'
  BY <1>43 DEF NothingToReplace, Hold
<1>44. ASSUME NEW r \in Requests, DestroyHeld(r) PROVE StayInv'
  BY <1>44 DEF DestroyHeld, Remove, Hold, OwnInv, CanWrite
<1>45. ASSUME NEW r \in Requests, FinishDestroyed(r) PROVE StayInv'
  BY <1>45 DEF FinishDestroyed, DropGuards, NoWish, Hold, OwnInv
<1>46. ASSUME NEW c \in Contexts, SweepLook(c) PROVE StayInv'
  BY <1>46 DEF SweepLook
<1>47. ASSUME SweepJudge PROVE StayInv'
  BY <1>47 DEF SweepJudge
<1>48. ASSUME EndSweep PROVE StayInv'
  BY <1>48 DEF EndSweep, Remove, OwnInv
<1>49. ASSUME UNCHANGED vars PROVE StayInv'
  BY <1>49 DEF vars
<1> QED
  BY <1>1, <1>2, <1>3, <1>4, <1>5, <1>6, <1>7, <1>8, <1>9, <1>10, <1>11, <1>12, <1>13, <1>14,
     <1>15, <1>16, <1>17, <1>18, <1>19, <1>20, <1>21, <1>22, <1>23, <1>24, <1>25, <1>26,
     <1>27, <1>28, <1>29, <1>30, <1>31, <1>32, <1>33, <1>34, <1>35, <1>36, <1>37, <1>38,
     <1>39, <1>40, <1>41, <1>42, <1>43, <1>44, <1>45, <1>46, <1>47, <1>48, <1>49 DEF Next,
     Acquire, Continue, Scrape, Cancel, Cleanup, Monitor, Environment

(* Only these steps take anything out of the pool. *)
LEMMA Takers ==
  ASSUME [Next]_vars, NEW x \in pool, x \notin pool'
  PROVE  \/ \E r \in Requests :
              \/ (\E c \in Contexts : LockedReplace(r, c)) \/ AcquireAlwaysNew(r)
              \/ EndSession(r) \/ DestroyHeld(r)
         \/ \E c \in Contexts : DestroyDoomed(c)
         \/ SweepAlwaysNew \/ EndSweep \/ Swap
BY DEF Next, Acquire, Continue, Scrape, Cancel, Cleanup, Monitor, Environment, DropGuards,
   vars, Arrive, TryCandidate, LockedReuse, LockedFallback, NoCandidateLeft, NothingToReuse,
   LockedReserve, NothingToReplace, LockedRefuse, AcquireDedicated, BuildSucceeds, BuildFails,
   Push, FindSession, CheckUsedUp, ClaimSession, Answered, Begin, Discard, FinishDestroyed,
   FinishAlwaysNew, FinishReusable, FinishDedicated, CancelWhileUsing, CancelWhileWaiting,
   CancelWhileBuilt, Release, Tick, StartSweep, SweepLook, SweepJudge, StartScan,
   ClaimExpired, EndScan, LookAt, ReleaseClaimed, BuildReplacement, Age, GrowStale,
   QuarantineEnds

(* Of these only the end of a sweep takes out what another request is using.  *)
LEMMA TakenStep ==
  ASSUME TypeOK, OwnInv, StayInv, [Next]_vars,
         NEW r \in Requests, Using(r), Using(r)', held[r] \in pool, held[r] \notin pool'
  PROVE  mpc = "sweep" /\ held[r] \in claimed
<1> USE PoolAssumption DEF PoolAssumption, TypeOK, OwnInv, Owns, Guarding, Using
<1>1. ASSUME NEW s \in Requests, NEW c \in Contexts, LockedReplace(s, c) PROVE FALSE
  BY <1>1 DEF LockedReplace, Remove, UsedUpIdle
<1>2. ASSUME NEW s \in Requests, AcquireAlwaysNew(s) PROVE FALSE
  BY <1>2 DEF AcquireAlwaysNew, Remove
<1>3. ASSUME NEW s \in Requests, EndSession(s) PROVE FALSE
  <2>1. held[s] \in pool \ busy /\ pool' = pool \ {held[s]}
    BY <1>3 DEF EndSession, Remove
  <2> QED BY <2>1
<1>4. ASSUME NEW s \in Requests, DestroyHeld(s) PROVE FALSE
  BY <1>4 DEF DestroyHeld, Remove, Goto
<1>5. ASSUME NEW c \in Contexts, DestroyDoomed(c) PROVE FALSE
  BY <1>5 DEF StayInv, DestroyDoomed, Remove
<1>6. ASSUME SweepAlwaysNew PROVE FALSE
  BY <1>6 DEF SweepAlwaysNew, Remove
<1>7. ASSUME EndSweep PROVE mpc = "sweep" /\ held[r] \in claimed
  BY <1>7 DEF EndSweep, Remove
<1>8. ASSUME Swap PROVE FALSE
  BY <1>8 DEF MonitorOwns, Swap
<1> QED BY Takers, <1>1, <1>2, <1>3, <1>4, <1>5, <1>6, <1>7, <1>8

--------------------------------------------------------------------------------
(* The theorems. *)

IInv == TypeOK /\ Holding /\ PendingCounts /\ Capacity /\ OwnInv /\ StayInv

(* The inductive invariant holds at startup ... *)
LEMMA InitInv == Init => IInv
<1> SUFFICES ASSUME Init PROVE IInv
  OBVIOUS
<1> USE PoolAssumption DEF PoolAssumption
<1>1. TypeOK
  BY DEF Init, TypeOK, NoWish
<1>2. Holding
  BY DEF Init, Holding
<1>3. PendingCounts
  <2>1. {r \in Requests : Building(r)} = {}
    BY DEF Init, Building
  <2> QED BY <2>1, FS_EmptySet DEF Init, PendingCounts
<1>4. Capacity
  BY DEF Init, Capacity, Occupied
<1>5. OwnInv
  BY DEF Init, OwnInv, Owns, Guarding, Using, MonitorOwns
<1>6. StayInv
  BY DEF Init, StayInv, UsedStaysInPool, Using, Guarding, Owns
<1> QED BY <1>1, <1>2, <1>3, <1>4, <1>5, <1>6 DEF IInv

(* ... is kept by every step ... *)
LEMMA NextInv == IInv /\ [Next]_vars => IInv'
BY TypeStep, HoldingStep, CountStep, CapacityStep, OwnStep, StayStep DEF IInv

(* ... and so holds always. *)
LEMMA Invariance == Spec => []IInv
BY InitInv, NextInv, PTL DEF Spec

(* Every variable keeps its type; in particular `pending_creations`, an      *)
(* unsigned counter, never goes below zero.                                  *)
THEOREM Typing == Spec => []TypeOK
<1>1. IInv => TypeOK
  BY DEF IInv
<1> QED BY <1>1, Invariance, PTL

(* Every promised slot belongs to exactly one request still building: a      *)
(* SlotReservation is given back exactly once, on every path.                *)
THEOREM PromisesKept == Spec => []PendingCounts
<1>1. IInv => PendingCounts
  BY DEF IInv
<1> QED BY <1>1, Invariance, PTL

(* The pool and the slots promised never exceed max_contexts.                *)
THEOREM NeverOverLimit == Spec => []Capacity
<1>1. IInv => Capacity
  BY DEF IInv
<1> QED BY <1>1, Invariance, PTL

(* No two requests, and no request and the monitor, have the same context.   *)
THEOREM OneOwner == Spec => []ExclusiveUse
<1>1. IInv => ExclusiveUse
  BY DEF IInv, OwnInv, Owns, ExclusiveUse
<1> QED BY <1>1, Invariance, PTL

(* Outside Dedicated, the context of a request stays in the pool until that   *)
(* request destroys it itself.                                               *)
THEOREM RunsInPool == Spec => []UsedStaysInPool
<1>1. IInv => UsedStaysInPool
  BY DEF IInv, StayInv
<1> QED BY <1>1, Invariance, PTL

(* While a request uses a context, only a sweep of a Dedicated pool takes it  *)
(* out, with a context it had listed as idle and expired before.             *)
THEOREM TakenBySweepOnly == Spec => OnlySweepTakesUsed
<1>1. IInv /\ [Next]_vars =>
        [\A r \in Requests :
           Using(r) /\ Using(r)' /\ held[r] \in pool /\ held[r] \notin pool'
             => mpc = "sweep" /\ held[r] \in claimed]_vars
  BY TakenStep DEF IInv
<1> QED BY <1>1, Invariance, PTL DEF Spec, OnlySweepTakesUsed
================================================================================
