------------------------------- MODULE MCDesk -------------------------------
(* An instance of Desk for TLC. *)
EXTENDS Desk, TLC

CONSTANTS b1, b2, c1, c2

(* The cheaper booking is not worth a settlement of its own. *)
MCPrice == [b \in Booking |-> IF b = b1 THEN 4 ELSE 14]

Symmetry == Permutations(Card)
=============================================================================
