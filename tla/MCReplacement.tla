--------------------------- MODULE MCReplacement ---------------------------
(* Instances of Replacement for TLC. *)
EXTENDS Replacement, TLC

(* Requests and users are interchangeable *)
Symmetry == Permutations(Request) \cup Permutations(User)
=============================================================================
