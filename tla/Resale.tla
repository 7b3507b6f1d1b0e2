------------------------------- MODULE Resale -------------------------------
(***************************************************************************)
(* What the service promises about the place in a slot that its owner      *)
(* wants to give back late: he keeps it while it is offered, until exactly *)
(* one other user takes it over, in one step and never twice; otherwise it *)
(* stays his.  Only the manager may end a sale without a successor.        *)
(***************************************************************************)
CONSTANTS User, Booking, None

VARIABLE sale     \* sale[b]: the phase of booking b and its owner

Absent == [phase |-> "none", owner |-> None]
SoldTo(u) == [phase |-> "sold", owner |-> u]

(* The bookings that entitle their owner to the slot *)
Valid == {b \in Booking : sale[b].phase \in {"sold", "offered"}}

Init == \E b \in Booking, u \in User :
            sale = [c \in Booking |-> IF c = b THEN SoldTo(u) ELSE Absent]

Turn(b, phase) == sale' = [sale EXCEPT ![b].phase = phase]

Offer(b) == sale[b].phase = "sold" /\ Turn(b, "offered")
Keep(b)  == sale[b].phase = "offered" /\ Turn(b, "sold")
End(b)   == b \in Valid /\ Turn(b, "ended")

Move(b, c, u) ==
    /\ sale[b].phase = "offered"
    /\ sale[b].owner # u
    /\ sale[c] = Absent
    /\ sale' = [sale EXCEPT ![b].phase = "moved", ![c] = SoldTo(u)]

Sell(b, u) ==
    /\ Valid = {}
    /\ sale[b] = Absent
    /\ sale' = [sale EXCEPT ![b] = SoldTo(u)]

Next ==
    \/ \E b \in Booking : Offer(b) \/ Keep(b) \/ End(b)
    \/ \E b, c \in Booking, u \in User : Move(b, c, u)
    \/ \E b \in Booking, u \in User : Sell(b, u)

Spec == Init /\ [][Next]_sale

(* One place, one owner. *)
OneOwner == \A b, c \in Valid : b = c
=============================================================================
