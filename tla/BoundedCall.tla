------------------------------ MODULE BoundedCall ------------------------------
(***************************************************************************)
(* Bounded CDP calls: `bounded_within` moves a blocking call that creates  *)
(* something in Chrome to a thread of the blocking pool and waits for its  *)
(* result on a oneshot channel, at most CALL_TIMEOUT.  Three parties race: *)
(* the thread with its answer, the waiter with its timeout, and whoever    *)
(* drops the waiter's future.  What the call created must end in exactly   *)
(* one hand: the waiter's, or the cleanup's.                               *)
(*                                                                         *)
(* The channel is tokio's: a send fails once the receiver is closed or     *)
(* dropped and hands the value back; a value sent before the receiver is   *)
(* closed can still be taken; dropping the receiver drops that value.      *)
(***************************************************************************)
EXTENDS Naturals, FiniteSets

CONSTANT Calls  \* the calls a handler may make; each has its own thread and channel

VARIABLES
  waiter,  \* the caller: not there yet, awaiting, expired, closing, how it ended
  thread,  \* the blocking thread: unborn, parked in the call, answered, ...
  result,  \* what the call returned: "none" until then, "ok" or "err"
  sent,    \* calls whose result lies in the channel
  open,    \* calls whose receiver is neither closed nor dropped
  made     \* calls whose context or tab exists in Chrome

vars == <<waiter, thread, result, sent, open, made>>

Ended == {"received", "panicSeen", "timedOut", "dropped"}

TypeOK ==
  /\ waiter \in [Calls -> {"absent", "awaiting", "expired", "closing"} \cup Ended]
  /\ thread \in [Calls -> {"unborn", "parked", "answered", "cleaning", "over"}]
  /\ result \in [Calls -> {"none", "ok", "err"}]
  /\ sent \subseteq Calls
  /\ open \subseteq Calls
  /\ made \subseteq Calls

Init ==
  /\ waiter = [k \in Calls |-> "absent"]
  /\ thread = [k \in Calls |-> "unborn"]
  /\ result = [k \in Calls |-> "none"]
  /\ sent = {}
  /\ open = {}
  /\ made = {}

(* bounded_within is awaited: the channel is created and `f` goes to a thread *)
(* of the blocking pool.                                                     *)
Call(k) ==
  /\ waiter[k] = "absent"
  /\ waiter' = [waiter EXCEPT ![k] = "awaiting"]
  /\ thread' = [thread EXCEPT ![k] = "parked"]
  /\ open' = open \cup {k}
  /\ UNCHANGED <<result, sent, made>>

(* `f()` returns: the browser created what it was asked for, or refused, or  *)
(* headless_chrome gave up after its own, much longer, timeout.              *)
Answer(k) ==
  /\ thread[k] = "parked"
  /\ thread' = [thread EXCEPT ![k] = "answered"]
  /\ \/ result' = [result EXCEPT ![k] = "ok"] /\ made' = made \cup {k}
     \/ result' = [result EXCEPT ![k] = "err"] /\ UNCHANGED made
  /\ UNCHANGED <<waiter, sent, open>>

(* The closure panics: the sender is dropped without having sent.            *)
Panic(k) ==
  /\ thread[k] = "parked"
  /\ thread' = [thread EXCEPT ![k] = "over"]
  /\ UNCHANGED <<waiter, result, sent, open, made>>

(* Mutant: the result of a failed send is thrown away.                       *)
Send_IgnoreError(k) ==
  /\ thread[k] = "answered"
  /\ sent' = IF k \in open THEN sent \cup {k} ELSE sent
  /\ thread' = [thread EXCEPT ![k] = "over"]
  /\ UNCHANGED <<waiter, result, open, made>>

(* Mutant: the cleanup runs whenever the call succeeded.                     *)
Send_CleanAnyway(k) ==
  /\ thread[k] = "answered"
  /\ sent' = IF k \in open THEN sent \cup {k} ELSE sent
  /\ thread' = [thread EXCEPT ![k] = IF result[k] = "ok" THEN "cleaning" ELSE "over"]
  /\ UNCHANGED <<waiter, result, open, made>>

(* tx.send(result): with the receiver gone a created thing is nobody's.      *)
Send(k) ==
  /\ thread[k] = "answered"
  /\ sent' = IF k \in open THEN sent \cup {k} ELSE sent
  /\ thread' = [thread EXCEPT ![k] =
                  IF k \notin open /\ result[k] = "ok" THEN "cleaning" ELSE "over"]
  /\ UNCHANGED <<waiter, result, open, made>>

CleanUp(k) ==
  /\ thread[k] = "cleaning"
  /\ thread' = [thread EXCEPT ![k] = "over"]
  /\ made' = made \ {k}
  /\ UNCHANGED <<waiter, result, sent, open>>

(* The awaited receiver is ready: a value, or a sender dropped unsent.       *)
Receive(k) ==
  /\ waiter[k] = "awaiting"
  /\ k \in sent \/ thread[k] = "over"
  /\ waiter' = [waiter EXCEPT ![k] = IF k \in sent THEN "received" ELSE "panicSeen"]
  /\ sent' = sent \ {k}
  /\ open' = open \ {k}
  /\ UNCHANGED <<thread, result, made>>

(* CALL_TIMEOUT elapses.  The timeout polls the receiver first, so it fires  *)
(* only while the channel is silent.                                         *)
Expire(k) ==
  /\ waiter[k] = "awaiting" /\ k \notin sent /\ thread[k] # "over"
  /\ waiter' = [waiter EXCEPT ![k] = "expired"]
  /\ UNCHANGED <<thread, result, sent, open, made>>

(* Mutant: the receiver stays open while the waiter takes its final look.    *)
CloseReceiver_Skipped(k) ==
  /\ waiter[k] = "expired"
  /\ waiter' = [waiter EXCEPT ![k] = "closing"]
  /\ UNCHANGED <<thread, result, sent, open, made>>

(* rx.close(): no send succeeds from here on.                                *)
CloseReceiver(k) ==
  /\ waiter[k] = "expired"
  /\ waiter' = [waiter EXCEPT ![k] = "closing"]
  /\ open' = open \ {k}
  /\ UNCHANGED <<thread, result, sent, made>>

(* rx.try_recv(), and the end of the call: a result sent since is taken.  A  *)
(* waiter that finds nothing answers StalledCall, also after a panic.        *)
FinalLook(k) ==
  /\ waiter[k] = "closing"
  /\ waiter' = [waiter EXCEPT ![k] = IF k \in sent THEN "received" ELSE "timedOut"]
  /\ sent' = sent \ {k}
  /\ UNCHANGED <<thread, result, open, made>>

(* The caller's future is dropped at its only await; the receiver goes with  *)
(* it, and so does a value nobody has taken yet.                             *)
DropFuture(k) ==
  /\ waiter[k] = "awaiting"
  /\ waiter' = [waiter EXCEPT ![k] = "dropped"]
  /\ sent' = sent \ {k}
  /\ open' = open \ {k}
  /\ UNCHANGED <<thread, result, made>>

Thread(k) == Send(k) \/ CleanUp(k)
Waiter(k) == Receive(k) \/ Expire(k) \/ CloseReceiver(k) \/ FinalLook(k)

AllOver == \A k \in Calls : waiter[k] \in Ended /\ thread[k] = "over"

(* Every call has ended: nothing is left to do.                              *)
Finished == AllOver /\ UNCHANGED vars

Next ==
  \/ \E k \in Calls : Call(k) \/ Answer(k) \/ Panic(k) \/ Thread(k) \/ Waiter(k) \/ DropFuture(k)
  \/ Finished

Spec == Init /\ [][Next]_vars

-------------------------------------------------------------------------------
(* Who answers for what a call has created: its thread, until the result is  *)
(* sent or cleaned; a waiter that can still take it from the channel; the    *)
(* caller that received it.                                                  *)
WithThread(k) == thread[k] \in {"answered", "cleaning"}
InChannel(k) == k \in sent /\ waiter[k] \in {"awaiting", "expired", "closing"}
WithCaller(k) == waiter[k] = "received"

(* Nothing created in Chrome is lost, whichever way the answer and the       *)
(* timeout interleave (cdp_call.rs: "either taken here or cleaned up by the  *)
(* closure - never dropped in the channel between the two").  The one way to *)
(* lose it is a future dropped while the value lies in the channel.          *)
NothingLost ==
  \A k \in made : waiter[k] # "dropped" => WithThread(k) \/ InChannel(k) \/ WithCaller(k)

(* What a caller received is never cleaned up behind its back.               *)
ReceivedIsKept ==
  \A k \in Calls :
    WithCaller(k) /\ result[k] = "ok" => k \in made /\ thread[k] # "cleaning"

(* A call that succeeds after its caller stopped waiting - it timed out, or  *)
(* its future was dropped - is undone in Chrome.                             *)
AbandonedResultUndone ==
  \A k \in Calls :
    waiter[k] \in {"timedOut", "dropped"} /\ thread[k] = "answered" ~> k \notin made
================================================================================
