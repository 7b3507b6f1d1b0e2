----------------------------- MODULE MCSessions -----------------------------
(* An instance of Sessions for TLC. *)
EXTENDS Sessions, TLC

Symmetry == Permutations(Tab) \cup Permutations(Call) \cup Permutations(Worker)
=============================================================================
