------------------------------- MODULE SlotPool -------------------------------
(***************************************************************************)
(* What the browser pool promises, with the locks, the flags and Chrome     *)
(* left out: an allocator of at most `Limit` slots.  A slot is promised     *)
(* before it is filled; a filled slot is leased to at most one owner, or    *)
(* kept by the pool itself while it puts a fresh context in its place; only *)
(* its own holder takes a leased context out.                               *)
(***************************************************************************)
EXTENDS Naturals, FiniteSets

CONSTANTS Contexts, Owners, NoContext, Limit

VARIABLES
  slots,     \* the contexts in the pool
  promised,  \* slots reserved for contexts not built yet
  lease,     \* the context each owner may use, or NoContext
  kept       \* the contexts the pool is replacing

vars == <<slots, promised, lease, kept>>

Leased == {lease[o] : o \in Owners} \ {NoContext}

Free == slots \ (Leased \cup kept)

Init ==
  /\ slots \in SUBSET Contexts /\ IsFiniteSet(slots) /\ Cardinality(slots) <= Limit
  /\ promised = 0
  /\ lease = [o \in Owners |-> NoContext]
  /\ kept = {}

(* Take free contexts out; promise a slot the pool then has room for.       *)
Promise(C) ==
  /\ C \subseteq Free
  /\ Cardinality(slots \ C) + promised < Limit
  /\ slots' = slots \ C
  /\ promised' = promised + 1
  /\ UNCHANGED <<lease, kept>>

Renege ==
  /\ promised > 0
  /\ promised' = promised - 1
  /\ UNCHANGED <<slots, lease, kept>>

Fill(o, c) ==
  /\ promised > 0
  /\ lease[o] = NoContext
  /\ c \notin slots \cup Leased
  /\ promised' = promised - 1
  /\ slots' = slots \cup {c}
  /\ lease' = [lease EXCEPT ![o] = c]
  /\ UNCHANGED kept

Lease(o, c) ==
  /\ lease[o] = NoContext
  /\ c \in Free
  /\ lease' = [lease EXCEPT ![o] = c]
  /\ UNCHANGED <<slots, promised, kept>>

(* The owner gives the context back, or destroys it.                        *)
Return(o) ==
  /\ lease[o] # NoContext
  /\ slots' \in {slots, slots \ {lease[o]}}
  /\ lease' = [lease EXCEPT ![o] = NoContext]
  /\ UNCHANGED <<promised, kept>>

Retire(C) ==
  /\ C \subseteq Free
  /\ slots' = slots \ C
  /\ UNCHANGED <<promised, lease, kept>>

Keep(c) ==
  /\ c \in Free
  /\ kept' = kept \cup {c}
  /\ UNCHANGED <<slots, promised, lease>>

Replace(c, d) ==
  /\ c \in kept \cap slots
  /\ d \notin slots \cup Leased
  /\ slots' = (slots \ {c}) \cup {d}
  /\ kept' = kept \ {c}
  /\ UNCHANGED <<promised, lease>>

Next ==
  \/ \E C \in SUBSET slots : Promise(C) \/ Retire(C)
  \/ Renege
  \/ \E o \in Owners : Return(o) \/ \E c \in Contexts : Fill(o, c) \/ Lease(o, c)
  \/ \E c \in Contexts : Keep(c) \/ \E d \in Contexts : Replace(c, d)

Spec == Init /\ [][Next]_vars
===============================================================================
