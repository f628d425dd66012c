--------------------------- MODULE MCSideEffects ---------------------------
(* Values for SideEffects: one guarded key and one replay-safe key. *)
EXTENDS SideEffects, TLC

Symmetry == Permutations(Owner)
=============================================================================
