------------------------------ MODULE MCEvidence ------------------------------
(* PageEvidence for TLC: the loads are interchangeable.                      *)
EXTENDS PageEvidence, TLC

LoadSymmetry == Permutations(Loads)
===============================================================================
