--------------------------- MODULE BoundedCallProofs ---------------------------
(***************************************************************************)
(* Proofs about BoundedCall, for any number of calls: what a bounded call  *)
(* creates in Chrome always has exactly one owner, and what a caller       *)
(* received is never undone.                                               *)
(***************************************************************************)
EXTENDS BoundedCall, TLAPS

(* The protocol as the receiver sees it: open exactly while the caller may   *)
(* still close it; a value in the channel means the thread is done, and only *)
(* a caller that can still look for it leaves it there.                      *)
ChannelInv ==
  \A k \in Calls :
    /\ k \in open <=> waiter[k] \in {"awaiting", "expired"}
    /\ k \in sent => /\ thread[k] = "over" /\ result[k] # "none"
                     /\ waiter[k] \in {"awaiting", "expired", "closing"}

(* The protocol as the thread sees it: it has a result once it has answered, *)
(* and it cleans up only what no caller can receive any more.                *)
ThreadInv ==
  \A k \in Calls :
    /\ thread[k] \in {"unborn", "parked"} => result[k] = "none"
    /\ thread[k] = "unborn" <=> waiter[k] = "absent"
    /\ thread[k] = "answered" => result[k] # "none" /\ (result[k] = "ok" => k \in made)
    /\ thread[k] = "cleaning" => waiter[k] \notin {"awaiting", "expired", "received"}
    /\ k \in made => result[k] = "ok"

(* What lies in the channel exists in Chrome; received means the thread is   *)
(* over.                                                                     *)
OwnerInv ==
  \A k \in Calls :
    /\ k \in sent /\ result[k] = "ok" => k \in made
    /\ waiter[k] = "received" => thread[k] = "over" /\ result[k] # "none"
    /\ waiter[k] = "received" /\ result[k] = "ok" => k \in made

IInv == TypeOK /\ ChannelInv /\ ThreadInv /\ OwnerInv /\ NothingLost

(* The initial states satisfy the inductive invariant.                       *)
LEMMA InitHolds == Init => IInv
BY DEF Init, IInv, TypeOK, ChannelInv, ThreadInv, OwnerInv, NothingLost,
       Ended, WithThread, InChannel, WithCaller

(* Every step of the thread, the waiter, the timer or a dropped future keeps *)
(* the inductive invariant.                                                  *)
LEMMA StepHolds == IInv /\ [Next]_vars => IInv'
<1> SUFFICES ASSUME IInv, [Next]_vars PROVE IInv'
  OBVIOUS
<1> USE DEF IInv, TypeOK, ChannelInv, ThreadInv, OwnerInv, NothingLost,
            Ended, WithThread, InChannel, WithCaller
<1>0. ASSUME NEW k \in Calls, Call(k) PROVE IInv'
  BY <1>0 DEF Call
<1>1. ASSUME NEW k \in Calls, Answer(k) PROVE IInv'
  BY <1>1 DEF Answer
<1>2. ASSUME NEW k \in Calls, Panic(k) PROVE IInv'
  BY <1>2 DEF Panic
<1>3. ASSUME NEW k \in Calls, Send(k) PROVE IInv'
  BY <1>3 DEF Send
<1>4. ASSUME NEW k \in Calls, CleanUp(k) PROVE IInv'
  BY <1>4 DEF CleanUp
<1>5. ASSUME NEW k \in Calls, Receive(k) PROVE IInv'
  BY <1>5 DEF Receive
<1>6. ASSUME NEW k \in Calls, Expire(k) PROVE IInv'
  BY <1>6 DEF Expire
<1>7. ASSUME NEW k \in Calls, CloseReceiver(k) PROVE IInv'
  BY <1>7 DEF CloseReceiver
<1>8. ASSUME NEW k \in Calls, FinalLook(k) PROVE IInv'
  BY <1>8 DEF FinalLook
<1>9. ASSUME NEW k \in Calls, DropFuture(k) PROVE IInv'
  BY <1>9 DEF DropFuture
<1>10. CASE UNCHANGED vars
  BY <1>10 DEF vars
<1>11. QED
  BY <1>0, <1>1, <1>2, <1>3, <1>4, <1>5, <1>6, <1>7, <1>8, <1>9, <1>10
     DEF Next, Thread, Waiter, Finished

(* The inductive invariant holds in every reachable state.                   *)
LEMMA Inductive == Spec => []IInv
BY InitHolds, StepHolds, PTL DEF Spec

(* Whichever way the answer, the timeout and the final look interleave,      *)
(* nothing a call created in Chrome is lost between the thread and the       *)
(* caller (cdp_call.rs, bounded_within).                                     *)
THEOREM NeverLost == Spec => []NothingLost
<1>1. IInv => NothingLost
  BY DEF IInv
<1>2. QED
  BY <1>1, Inductive, PTL

(* A context or tab handed to the caller is never disposed of by the         *)
(* thread's cleanup (cdp_call.rs, the failed send).                          *)
THEOREM KeptByCaller == Spec => []ReceivedIsKept
<1>1. IInv => ReceivedIsKept
  BY DEF IInv, OwnerInv, ThreadInv, ReceivedIsKept, WithCaller
<1>2. QED
  BY <1>1, Inductive, PTL
================================================================================
