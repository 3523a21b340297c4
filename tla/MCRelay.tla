------------------------------ MODULE MCRelay ------------------------------
(* Small instances of Relay for TLC. *)
EXTENDS Relay, TLC

(* No action orders the nodes or the stacks of strays. *)
Symmetry == Permutations(Nodes) \cup Permutations(Strays)
=============================================================================
