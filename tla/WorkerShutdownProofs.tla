------------------------- MODULE WorkerShutdownProofs -------------------------
(***************************************************************************)
(* Proofs about WorkerShutdown, for any number of requests, any pause and  *)
(* any drain timeout: the counters are the requests they stand for, and    *)
(* neither program finishes an orderly shutdown with a request at work.    *)
(***************************************************************************)
EXTENDS WorkerShutdown, FiniteSetTheorems, TLAPS

(* The flags and the stage of the worker: it is ready until the signal, and  *)
(* a request is in the process only while the process runs.                  *)
FlagInv ==
  /\ ready => stage \in {"serving", "exited"} /\ outcome = "none" /\ ~cancelled
  /\ stage = "exited" => \A r \in Requests : at[r] \notin AtWorker
  /\ stage \in {"serving", "draining"} => outcome = "none"
  /\ stage = "draining" /\ asleep => clock < DrainTimeout

(* What makes NoneCutOff inductive: nobody works where the counter was zero, *)
(* and nobody starts to work once the flag is down.                          *)
IInv == TypeOK /\ ActiveCounts /\ FlagInv /\ NoneCutOff

At(S) == {r \in Requests : at[r] \in S}

(* The requests at given places are finitely many.                           *)
LEMMA AtFinite == ASSUME NEW S PROVE IsFiniteSet(At(S)) /\ Cardinality(At(S)) \in Nat
BY ShutdownAssumption, FS_Subset, FS_CardinalityType DEF At

(* A request that comes to the counted places raises the count by one.       *)
LEMMA Enters ==
  ASSUME TypeOK, NEW S, NEW r \in Requests, NEW to, at' = [at EXCEPT ![r] = to],
         at[r] \notin S, to \in S
  PROVE  Cardinality(At(S)') = Cardinality(At(S)) + 1
<1>1. At(S)' = At(S) \cup {r} /\ r \notin At(S)
  BY DEF At, TypeOK
<1>2. QED
  BY <1>1, AtFinite, FS_AddElement

(* A request that leaves the counted places lowers the count by one.         *)
LEMMA Leaves ==
  ASSUME TypeOK, NEW S, NEW r \in Requests, NEW to, at' = [at EXCEPT ![r] = to],
         at[r] \in S, to \notin S
  PROVE  /\ Cardinality(At(S)') = Cardinality(At(S)) - 1
         /\ Cardinality(At(S)) > 0
<1>1. At(S)' = At(S) \ {r} /\ r \in At(S)
  BY DEF At, TypeOK
<1>2. Cardinality(At(S)') = Cardinality(At(S)) - 1
  BY <1>1, AtFinite, FS_RemoveElement
<1>3. Cardinality(At(S)) # 0
  BY <1>1, AtFinite, FS_EmptySet
<1>4. QED
  BY <1>2, <1>3, AtFinite

(* A request that moves among the counted places, or outside of them, leaves *)
(* the count as it is.                                                       *)
LEMMA Stays ==
  ASSUME TypeOK, NEW S, NEW r \in Requests, NEW to, at' = [at EXCEPT ![r] = to],
         at[r] \in S <=> to \in S
  PROVE  At(S)' = At(S)
BY DEF At, TypeOK

(* A counter of zero means nobody is there.                                  *)
LEMMA NobodyThere ==
  ASSUME NEW S, Cardinality(At(S)) = 0
  PROVE  \A r \in Requests : at[r] \notin S
<1>1. At(S) = {}
  BY AtFinite, FS_EmptySet
<1>2. QED
  BY <1>1 DEF At

(* The initial states satisfy the inductive invariant.                       *)
LEMMA InitHolds == Init => IInv
<1> SUFFICES ASSUME Init PROVE IInv
  OBVIOUS
<1>1. TypeOK
  <2>1. clock \in 0..DrainTimeout /\ active \in Nat /\ coActive \in Nat /\ owed \in 0..Behind
    BY ShutdownAssumption DEF Init
  <2>2. at \in [Requests -> AtCoordinator \cup {"idle", "over"}]
    BY DEF Init
  <2>3. QED
    BY <2>1, <2>2, Zenon DEF Init, TypeOK, Open
<1>2. At(AtWorker) = {} /\ At(AtCoordinator) = {}
  BY DEF Init, At, AtWorker, AtCoordinator
<1>3. ActiveCounts
  BY <1>2, FS_EmptySet DEF Init, ActiveCounts, At
<1>4. FlagInv /\ NoneCutOff
  BY DEF Init, FlagInv, NoneCutOff
<1>5. QED
  BY <1>1, <1>3, <1>4 DEF IInv

(* The handlers of the two services: each moves one request and the counts   *)
(* with it.                                                                  *)
LEMMA HandlersKeep ==
  ASSUME IInv, NEW r \in Requests, CoArrive(r) \/ Handler(r) \/ Finish(r)
  PROVE  IInv'
<1> DEFINE W == Cardinality(At(AtWorker))
           C == Cardinality(At(AtCoordinator))
<1>0. W = active /\ C = coActive /\ W \in Nat /\ C \in Nat
  BY AtFinite DEF IInv, ActiveCounts, At
<1>1. CASE CoArrive(r)
  <2>1. at[r] = "idle" /\ at' = [at EXCEPT ![r] = "arrived"]
    BY <1>1 DEF CoArrive, Goes
  <2>2. W' = W
    BY <2>1, Stays DEF IInv, AtWorker, AtCoordinator
  <2>3. C' = C + 1
    BY <2>1, Enters DEF IInv, AtWorker, AtCoordinator
  <2>4. QED
    BY <1>0, <1>1, <2>1, <2>2, <2>3
         DEF CoArrive, IInv, TypeOK, ActiveCounts, At, FlagInv, NoneCutOff, AtWorker, AtCoordinator,
             Goes, drainVars, coVars, monVars
<1>2. CASE CoGate(r)
  <2>1. CASE at' = [at EXCEPT ![r] = "selecting"]
    <3>1. at[r] = "arrived" /\ at' = [at EXCEPT ![r] = "selecting"]
      BY <1>2, <2>1 DEF CoGate, Goes
    <3>2. W' = W
      BY <3>1, Stays DEF IInv, AtWorker, AtCoordinator
    <3>3. C' = C
      BY <3>1, Stays DEF IInv, AtWorker, AtCoordinator
    <3>4. QED
      BY <1>0, <1>2, <2>1, <3>1, <3>2, <3>3
           DEF CoGate, IInv, TypeOK, ActiveCounts, At, FlagInv, NoneCutOff, AtWorker, AtCoordinator,
               Goes, drainVars, coVars, monVars
  <2>2. CASE at' = [at EXCEPT ![r] = "over"]
    <3>1. at[r] = "arrived" /\ at' = [at EXCEPT ![r] = "over"]
      BY <1>2, <2>2 DEF CoGate, Goes
    <3>2. W' = W
      BY <3>1, Stays DEF IInv, AtWorker, AtCoordinator
    <3>3. C' = C - 1 /\ C > 0
      BY <3>1, Leaves DEF IInv, AtWorker, AtCoordinator
    <3>4. QED
      BY <1>0, <1>2, <2>2, <3>1, <3>2, <3>3
           DEF CoGate, IInv, TypeOK, ActiveCounts, At, FlagInv, NoneCutOff, AtWorker, AtCoordinator,
               Goes, drainVars, coVars, monVars
  <2>3. QED
    BY <1>2, <2>1, <2>2 DEF CoGate, Goes
<1>3. CASE Select(r)
  <2>1. CASE at' = [at EXCEPT ![r] = "routed"]
    <3>1. at[r] = "selecting" /\ at' = [at EXCEPT ![r] = "routed"]
      BY <1>3, <2>1 DEF Select, Goes
    <3>2. W' = W
      BY <3>1, Stays DEF IInv, AtWorker, AtCoordinator
    <3>3. C' = C
      BY <3>1, Stays DEF IInv, AtWorker, AtCoordinator
    <3>4. QED
      BY <1>0, <1>3, <2>1, <3>1, <3>2, <3>3
           DEF Select, IInv, TypeOK, ActiveCounts, At, FlagInv, NoneCutOff, AtWorker, AtCoordinator,
               Goes, drainVars, coVars, monVars
  <2>2. CASE at' = [at EXCEPT ![r] = "replied"]
    <3>1. at[r] = "selecting" /\ at' = [at EXCEPT ![r] = "replied"]
      BY <1>3, <2>2 DEF Select, Goes
    <3>2. W' = W
      BY <3>1, Stays DEF IInv, AtWorker, AtCoordinator
    <3>3. C' = C
      BY <3>1, Stays DEF IInv, AtWorker, AtCoordinator
    <3>4. QED
      BY <1>0, <1>3, <2>2, <3>1, <3>2, <3>3
           DEF Select, IInv, TypeOK, ActiveCounts, At, FlagInv, NoneCutOff, AtWorker, AtCoordinator,
               Goes, drainVars, coVars, monVars
  <2>3. QED
    BY <1>3, <2>1, <2>2 DEF Select, Goes
<1>4. CASE Unreachable(r)
  <2>1. at[r] = "routed" /\ at' = [at EXCEPT ![r] = "replied"]
    BY <1>4 DEF Unreachable, Goes
  <2>2. W' = W
    BY <2>1, Stays DEF IInv, AtWorker, AtCoordinator
  <2>3. C' = C
    BY <2>1, Stays DEF IInv, AtWorker, AtCoordinator
  <2>4. QED
    BY <1>0, <1>4, <2>1, <2>2, <2>3
         DEF Unreachable, IInv, TypeOK, ActiveCounts, At, FlagInv, NoneCutOff, AtWorker, AtCoordinator,
             Goes, drainVars, coVars, monVars
<1>5. CASE Return(r)
  <2>1. at[r] = "replied" /\ at' = [at EXCEPT ![r] = "over"]
    BY <1>5 DEF Return, Goes
  <2>2. W' = W
    BY <2>1, Stays DEF IInv, AtWorker, AtCoordinator
  <2>3. C' = C - 1 /\ C > 0
    BY <2>1, Leaves DEF IInv, AtWorker, AtCoordinator
  <2>4. QED
    BY <1>0, <1>5, <2>1, <2>2, <2>3
         DEF Return, IInv, TypeOK, ActiveCounts, At, FlagInv, NoneCutOff, AtWorker, AtCoordinator,
             Goes, drainVars, coVars, monVars
<1>6. CASE Arrive(r)
  <2>1. at[r] = "routed" /\ at' = [at EXCEPT ![r] = "counted"]
    BY <1>6 DEF Arrive, Goes
  <2>2. W' = W + 1
    BY <2>1, Enters DEF IInv, AtWorker, AtCoordinator
  <2>3. C' = C
    BY <2>1, Stays DEF IInv, AtWorker, AtCoordinator
  <2>4. QED
    BY <1>0, <1>6, <2>1, <2>2, <2>3
         DEF Arrive, IInv, TypeOK, ActiveCounts, At, FlagInv, NoneCutOff, AtWorker, AtCoordinator,
             Goes, drainVars, coVars, monVars
<1>7. CASE Gate(r)
  <2>1. CASE at' = [at EXCEPT ![r] = "working"]
    <3>1. at[r] = "counted" /\ at' = [at EXCEPT ![r] = "working"]
      BY <1>7, <2>1 DEF Gate, Goes
    <3>2. W' = W
      BY <3>1, Stays DEF IInv, AtWorker, AtCoordinator
    <3>3. C' = C
      BY <3>1, Stays DEF IInv, AtWorker, AtCoordinator
    <3>4. QED
      BY <1>0, <1>7, <2>1, <3>1, <3>2, <3>3
           DEF Gate, IInv, TypeOK, ActiveCounts, At, FlagInv, NoneCutOff, AtWorker, AtCoordinator,
               Goes, drainVars, coVars, monVars
  <2>2. CASE at' = [at EXCEPT ![r] = "replied"]
    <3>1. at[r] = "counted" /\ at' = [at EXCEPT ![r] = "replied"]
      BY <1>7, <2>2 DEF Gate, Goes
    <3>2. W' = W - 1 /\ W > 0
      BY <3>1, Leaves DEF IInv, AtWorker, AtCoordinator
    <3>3. C' = C
      BY <3>1, Stays DEF IInv, AtWorker, AtCoordinator
    <3>4. QED
      BY <1>0, <1>7, <2>2, <3>1, <3>2, <3>3
           DEF Gate, IInv, TypeOK, ActiveCounts, At, FlagInv, NoneCutOff, AtWorker, AtCoordinator,
               Goes, drainVars, coVars, monVars
  <2>3. QED
    BY <1>7, <2>1, <2>2 DEF Gate, Goes
<1>8. CASE Finish(r)
  <2>1. at[r] = "working" /\ at' = [at EXCEPT ![r] = "replied"]
    BY <1>8 DEF Finish, Goes
  <2>2. W' = W - 1 /\ W > 0
    BY <2>1, Leaves DEF IInv, AtWorker, AtCoordinator
  <2>3. C' = C
    BY <2>1, Stays DEF IInv, AtWorker, AtCoordinator
  <2>4. QED
    BY <1>0, <1>8, <2>1, <2>2, <2>3
         DEF Finish, IInv, TypeOK, ActiveCounts, At, FlagInv, NoneCutOff, AtWorker, AtCoordinator,
             Goes, drainVars, coVars, monVars
<1>9. QED
  BY <1>1, <1>2, <1>3, <1>4, <1>5, <1>6, <1>7, <1>8 DEF Handler

(* The drain ends only with its reason: "drained" means the counter was zero *)
(* when it was read, so nobody was at work.                                  *)
LEMMA DrainKeeps == IInv /\ DrainTurn => IInv'
<1> SUFFICES ASSUME IInv, DrainTurn PROVE IInv'
  OBVIOUS
<1>1. active = 0 => \A r \in Requests : at[r] # "working"
  BY NobodyThere DEF IInv, ActiveCounts, At, AtWorker
<1>2. PauseEnd \in Nat /\ DrainTimeout \in Nat
  BY ShutdownAssumption DEF PauseEnd
<1>3. TypeOK'
  BY <1>2, ZenonT(40) DEF DrainTurn, DrainEnds, IInv, TypeOK, Open, coVars, monVars
<1>4. ActiveCounts'
  BY DEF DrainTurn, IInv, ActiveCounts, coVars
<1>5. FlagInv'
  BY <1>2 DEF DrainTurn, DrainEnds, IInv, TypeOK, FlagInv
<1>6. NoneCutOff'
  BY <1>1 DEF DrainTurn, DrainEnds, IInv, NoneCutOff, coVars
<1>7. QED
  BY <1>3, <1>4, <1>5, <1>6 DEF IInv

(* The server closes on a counter of zero, and so does the coordinator's.    *)
LEMMA ClosingKeeps == IInv /\ (CloseServer \/ CoStop) => IInv'
<1> SUFFICES ASSUME IInv, CloseServer \/ CoStop PROVE IInv'
  OBVIOUS
<1>1. CASE CloseServer
  <2>1. \A r \in Requests : at[r] \notin AtWorker
    BY <1>1, NobodyThere DEF CloseServer, IInv, ActiveCounts, At
  <2>2. QED
    BY <1>1, <2>1
       DEF CloseServer, IInv, TypeOK, Open, ActiveCounts, FlagInv, NoneCutOff, AtWorker, coVars,
           monVars
<1>2. CASE CoStop
  <2>1. \A r \in Requests : at[r] \notin AtCoordinator
    BY <1>2, NobodyThere DEF CoStop, IInv, ActiveCounts, At
  <2>2. QED
    BY <1>2, <2>1
       DEF CoStop, IInv, TypeOK, ActiveCounts, FlagInv, NoneCutOff, drainVars, monVars
<1>3. QED
  BY <1>1, <1>2

(* When the process goes, the requests in it become broken calls of the      *)
(* coordinator: still counted there, no longer here.                         *)
LEMMA ExitKeeps == IInv /\ Exit => IInv'
<1> SUFFICES ASSUME IInv, Exit PROVE IInv'
  OBVIOUS
<1>1. At(AtWorker)' = {} /\ At(AtCoordinator)' = At(AtCoordinator)
  BY DEF Exit, IInv, TypeOK, At, AtWorker, AtCoordinator
<1>2. ActiveCounts'
  BY <1>1, FS_EmptySet DEF Exit, IInv, ActiveCounts, At, coVars
<1>3. TypeOK'
  BY DEF Exit, IInv, TypeOK, AtWorker, AtCoordinator, coVars, monVars
<1>4. FlagInv'
  BY DEF Exit, IInv, TypeOK, FlagInv, AtWorker
<1>5. NoneCutOff'
  BY DEF Exit, IInv, TypeOK, Open, NoneCutOff, AtWorker, AtCoordinator, coVars
<1>6. QED
  BY <1>2, <1>3, <1>4, <1>5 DEF IInv

(* The signals raise and lower flags; requests stay where they are.          *)
LEMMA SignalsKeep == IInv /\ (Signal \/ SecondSignal \/ CancelToken \/ CoSignal) => IInv'
<1> SUFFICES ASSUME IInv, Signal \/ SecondSignal \/ CancelToken \/ CoSignal PROVE IInv'
  OBVIOUS
<1>1. CASE Signal
  <2>1. clock' \in 0..DrainTimeout
    BY <1>1, ShutdownAssumption DEF Signal
  <2>2. TypeOK'
    BY <1>1, <2>1, Zenon DEF Signal, IInv, TypeOK, Open, coVars, monVars
  <2>3. ActiveCounts'
    BY <1>1 DEF Signal, IInv, ActiveCounts, coVars
  <2>4. FlagInv'
    BY <1>1, Zenon DEF Signal, IInv, FlagInv
  <2>5. NoneCutOff'
    BY <1>1 DEF Signal, IInv, FlagInv, NoneCutOff, coVars
  <2>6. QED
    BY <2>2, <2>3, <2>4, <2>5 DEF IInv
<1>2. CASE SecondSignal
  BY <1>2
     DEF SecondSignal, DrainEnds, IInv, TypeOK, Open, ActiveCounts, FlagInv, NoneCutOff, coVars,
         monVars
<1>3. CASE CancelToken
  BY <1>3
     DEF CancelToken, IInv, TypeOK, Open, ActiveCounts, FlagInv, NoneCutOff, coVars, monVars
<1>4. CASE CoSignal
  BY <1>4
     DEF CoSignal, IInv, TypeOK, ActiveCounts, FlagInv, NoneCutOff, drainVars, monVars
<1>5. QED
  BY <1>1, <1>2, <1>3, <1>4

(* The health monitor and the clock touch neither flags nor requests.        *)
LEMMA MonitorKeeps == IInv /\ (Monitor \/ Round \/ Tick) => IInv'
<1> SUFFICES ASSUME IInv, Monitor \/ Round \/ Tick PROVE IInv'
  OBVIOUS
<1> USE DEF IInv, TypeOK, Open, ActiveCounts, FlagInv, NoneCutOff, drainVars, coVars
<1>1. CASE StartRound
  <2>1. owed' \in 0..Behind
    BY <1>1, ShutdownAssumption DEF StartRound
  <2>2. QED
    BY <1>1, <2>1 DEF StartRound
<1>2. CASE Ask
  BY <1>2 DEF Ask
<1>3. CASE EndRound
  BY <1>3 DEF EndRound
<1>4. CASE MonitorStops
  BY <1>4 DEF MonitorStops
<1>5. CASE Tick
  <2>1. clock' \in 0..DrainTimeout /\ owed' \in 0..Behind
    BY <1>5, ShutdownAssumption DEF Tick, NothingDue
  <2>2. TypeOK'
    BY <1>5, <2>1, ZenonT(40) DEF Tick
  <2>3. ActiveCounts' /\ FlagInv' /\ NoneCutOff'
    BY <1>5, ZenonT(40) DEF Tick
  <2>4. QED
    BY <2>2, <2>3
<1>6. QED
  BY <1>1, <1>2, <1>3, <1>4, <1>5 DEF Monitor, Round

(* Every step keeps the inductive invariant.                                 *)
LEMMA StepHolds == IInv /\ [Next]_vars => IInv'
<1> SUFFICES ASSUME IInv, [Next]_vars PROVE IInv'
  OBVIOUS
<1>1. CASE UNCHANGED vars
  BY <1>1
     DEF vars, drainVars, coVars, monVars, IInv, TypeOK, ActiveCounts, FlagInv, NoneCutOff
<1>2. CASE Next
  BY <1>2, HandlersKeep, DrainKeeps, ClosingKeeps, ExitKeeps, SignalsKeep, MonitorKeeps
     DEF Next, Shutdown
<1>3. QED
  BY <1>1, <1>2

(* The inductive invariant holds in every reachable state.                   *)
LEMMA Inductive == Spec => []IInv
BY InitHolds, StepHolds, PTL DEF Spec

(* The drain's clock never passes its timeout, and every variable stays in   *)
(* its range (drain's sleep_until is capped by the deadline).                *)
THEOREM Typing == Spec => []TypeOK
BY Inductive, PTL DEF IInv

(* In both services `active_requests` is the number of requests between      *)
(* ActiveRequestGuard::new and its drop.                                     *)
THEOREM CountsAreRequests == Spec => []ActiveCounts
BY Inductive, PTL DEF IInv

(* However requests arrive while a shutdown reads its counter: a drain that  *)
(* reports success and a server that closes leave nobody at work             *)
(* (shutdown.rs drain and shutdown_signal; scrape_page counts, then reads).  *)
THEOREM OrderlyShutdown == Spec => []NoneCutOff
BY Inductive, PTL DEF IInv

=============================================================================
