---------------------------- MODULE MCBrowserPool ----------------------------
(* BrowserPool for TLC: contexts and requests are interchangeable.  Some of  *)
(* what is recorded does not distinguish states, since no step and no property *)
(* checked under the view depends on it: what is known of an identifier       *)
(* nothing refers to (it is reset before it is used again); in Dedicated,     *)
(* what used a context up, by how much, and whether its tab exists; a wish of *)
(* a request that has got past the point where it counts.                     *)
EXTENDS BrowserPool, TLC

PoolSymmetry == Permutations(Contexts) \cup Permutations(Requests)

InPlay == pool \cup {held[r] : r \in Requests}

Served(c) ==
  IF c \notin InPlay THEN 0
  ELSE IF mode = "dedicated" /\ UsedUp(c) THEN CountLimit ELSE served[c]

Wish(r) ==
  IF pc[r] \in {"look", "lock", "limit", "full", "last"} THEN wants[r]
  ELSE IF pc[r] \in {"build", "built", "claimed", "run"}
         THEN [wants[r] EXCEPT !.country = FALSE]
         ELSE NoWish

PoolView ==
  <<mode, pool, pending, busy \cap InPlay, stale \cap InPlay, [c \in Contexts |-> Served(c)],
    IF mode = "dedicated" THEN {} ELSE aged \cap InPlay,
    [c \in Contexts |-> IF c \in InPlay THEN refused[c] ELSE {}],
    IF mode = "dedicated" THEN {} ELSE live \ Unused,
    removed, doomed, told, pc, held, cand, [r \in Requests |-> Wish(r)], monVars>>
=============================================================================
