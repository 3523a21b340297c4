----------------------------- MODULE MCTransfer -----------------------------
(* Small instances of Transfer for TLC. *)
EXTENDS Transfer, TLC

(* Ids of one kind are interchangeable: no action or invariant orders them. *)
Symmetry == Permutations(Singles) \cup Permutations(Recipients) \cup Permutations(Streams) \cup Permutations(Calls)

=============================================================================
