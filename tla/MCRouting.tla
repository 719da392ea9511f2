------------------------------ MODULE MCRouting ------------------------------
(* Routing on an instance: the requests are interchangeable. *)
EXTENDS Routing, TLC

RequestSymmetry == Permutations(Requests)

================================================================================
