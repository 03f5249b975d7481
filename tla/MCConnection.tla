------------------------------ MODULE MCConnection ------------------------------
(* Symmetry for the safety runs of Connection. *)
EXTENDS Connection, TLC

Symmetry == Permutations(Tasks) \cup Permutations(DgramStates)
================================================================================
