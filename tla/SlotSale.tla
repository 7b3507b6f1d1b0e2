------------------------------ MODULE SlotSale ------------------------------
(***************************************************************************)
(* What the booking service promises about slots, whatever happens inside: *)
(* a slot is offered, held for one user while he pays, sold to that same   *)
(* user, and offered again.  A hold never passes from one user to another  *)
(* and a slot is never sold to somebody who did not hold it.  The manager  *)
(* may withdraw a slot that a booking occupied.                            *)
(*                                                                         *)
(* One step may move several slots: the sweeper releases many holds in one *)
(* transaction, and a new booking may end the user's previous hold.        *)
(***************************************************************************)
CONSTANTS User, Slot, None

VARIABLE sale     \* sale[s]: the phase of slot s and the user it is bound to

Offered   == [phase |-> "offered", holder |-> None]
Withdrawn == [phase |-> "withdrawn", holder |-> None]
HeldBy(u) == [phase |-> "held", holder |-> u]
SoldTo(u) == [phase |-> "sold", holder |-> u]

Init == sale = [s \in Slot |-> Offered]

Hold(s) == sale[s] = Offered /\ \E u \in User : sale'[s] = HeldBy(u)
Sell(s) == \E u \in User : sale[s] = HeldBy(u) /\ sale'[s] = SoldTo(u)
Free(s) == sale[s].phase \in {"held", "sold"} /\ sale'[s] \in {Offered, Withdrawn}

SlotStep(s) == Hold(s) \/ Sell(s) \/ Free(s)

Next == \A s \in Slot : sale'[s] = sale[s] \/ SlotStep(s)

Spec == Init /\ [][Next]_sale

(* No hold lasts for ever: the slot is sold or given up. *)
HoldsEnd == \A s \in Slot : sale[s].phase = "held" ~> sale[s].phase # "held"
=============================================================================
