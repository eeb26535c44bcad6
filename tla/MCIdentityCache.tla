--------------------------- MODULE MCIdentityCache ---------------------------
(* Small instances of IdentityCache for TLC. *)
EXTENDS IdentityCache, TLC

Symmetry == Permutations(Name) \cup Permutations(Id) \cup Permutations(Proc)
=============================================================================
