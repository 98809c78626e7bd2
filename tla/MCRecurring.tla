---------------------------- MODULE MCRecurring ----------------------------
(* Small instances of Recurring for TLC. *)
EXTENDS Recurring, TLC

CONSTANTS r1, r2, s1, m1

Symmetry == Permutations(Rules) \cup Permutations(Runners)
=============================================================================
