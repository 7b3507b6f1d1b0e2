----------------------------- MODULE MCCheckout -----------------------------
(* Instances of Checkout for TLC. *)
EXTENDS Checkout, TLC

(* Requests and users are interchangeable *)
Symmetry == Permutations(Request) \cup Permutations(User)
=============================================================================
