---------------------------- MODULE Replacement ----------------------------
(***************************************************************************)
(* The resale of one slot after a late cancellation                        *)
(* (backend/app/services/booking_service.py, replacement_service.py).      *)
(* Less than 48 hours before the slot a cancelled booking stays its        *)
(* owner's, the slot is offered, a buyer holds the offer while he pays at  *)
(* the gateway, and the money that arrives moves the slot to him.          *)
(*                                                                         *)
(* Row locks.  Handlers that start from the booking or from the request    *)
(* are one action.  Handlers that start from a hold are two: the first     *)
(* locks the hold and loads its request and slot with it, the second locks *)
(* the request, whose loaded status the ORM session does not refresh       *)
(* (get_request has no populate_existing, sessions use                     *)
(* expire_on_commit=False).  Jobs that meet the locked hold skip it.  An   *)
(* attribute is written back only where it differs from what was loaded.   *)
(*                                                                         *)
(* Time is two bits: the slot has started (the deadline of every request), *)
(* and a hold has passed its ten minutes.                                  *)
(***************************************************************************)
EXTENDS Naturals, FiniteSets

CONSTANTS
    User,           \* customers
    Request,        \* HTTP requests in flight at the same time
    Reconciler,     \* the reconciliation job of main.py
    None,           \* SQL NULL
    MaxBooking,     \* bound: bookings of the slot
    MaxOffer,       \* bound: rows of replacement_requests
    MaxHold,        \* bound: rows of booking_holds
    MaxFault,       \* bound: crashes, deadlock victims, lost answers
    WrongAmounts    \* may the gateway report another amount than asked?

ASSUME ReplacementAssumption ==
    /\ None \notin User
    /\ Reconciler \notin Request
    /\ MaxBooking \in Nat \ {0}
    /\ MaxOffer \in Nat
    /\ MaxHold \in Nat
    /\ MaxFault \in Nat
    /\ WrongAmounts \in BOOLEAN

VARIABLES
    started,    \* slot.start_time, the deadline of every request, has come
    slot,       \* the row of time_slots
    booking,    \* rows of bookings, for this slot
    offer,      \* rows of replacement_requests
    hold,       \* rows of booking_holds
    gate,       \* what the gateway knows of the checkout of each hold
    refund,     \* refunds(booking_id, type)
    penalty,    \* penalties(booking_id)
    job,        \* requests that are between two transactions or two locks
    faults      \* faults so far

vars == <<started, slot, booking, offer, hold, gate, refund, penalty, job, faults>>
saleVars == <<booking, refund, penalty>>     \* what a transfer changes

Booking == 1..MaxBooking
Offer   == 1..MaxOffer
Hold    == 1..MaxHold
Worker  == Request \cup {Reconciler}

SlotStatus    == {"open", "blocked", "reserved", "reserving", "pending_cancellation"}
BookingStatus == {"none", "confirmed", "pending_cancellation", "transferred", "cancelled"}
OfferStatus   == {"none", "open", "held", "completed", "expired", "revoked"}
HoldStatus    == {"none", "active", "processing", "paid", "expired", "failed", "cancelled"}
GateStatus    == {"none", "open", "paid", "captured", "closed"}
RefundType    == {"manager_cancellation", "replaced_after_pending_cancellation"}

(* failure_code of a hold, as far as support looks for it *)
Flag == {"none", "amount_mismatch", "paid_but_transfer_conflicted"}

(* In the second group the transaction of the request holds the row lock   *)
(* of its hold.                                                            *)
LockedPc == {"pays", "cancels", "transfers", "records", "closes", "fails"}
Pc == {"idle", "request", "verify", "settle", "refused", "classify"} \cup LockedPc

TypeOK ==
    /\ started \in BOOLEAN
    /\ slot \in [st : SlotStatus, reserved : BOOLEAN]
    /\ booking \in [Booking -> [st : BookingStatus, user : User \cup {None},
                                replaces : Booking \cup {0}]]
    /\ offer \in [Offer -> [st : OfferStatus, booking : Booking \cup {0}]]
    /\ hold \in [Hold -> [st : HoldStatus, offer : Offer \cup {0},
                          user : User \cup {None}, token : BOOLEAN,
                          track : BOOLEAN, lapsed : BOOLEAN, flag : Flag]]
    /\ gate \in [Hold -> [st : GateStatus, exact : BOOLEAN]]
    /\ refund \in [Booking -> SUBSET RefundType]
    /\ penalty \in SUBSET Booking
    /\ job \in [Worker -> [pc : Pc, h : Hold \cup {0}, seenOffer : OfferStatus,
                           seenSlot : SlotStatus]]
    /\ faults \in 0..MaxFault

Idle == [pc |-> "idle", h |-> 0, seenOffer |-> "none", seenSlot |-> "open"]

(* The slot was sold at the checkout, and less than 48 hours are left *)
Init ==
    /\ started = FALSE
    /\ slot = [st |-> "reserved", reserved |-> TRUE]
    /\ \E u \in User : booking = [b \in Booking |->
            IF b = 1 THEN [st |-> "confirmed", user |-> u, replaces |-> 0]
            ELSE [st |-> "none", user |-> None, replaces |-> 0]]
    /\ offer = [r \in Offer |-> [st |-> "none", booking |-> 0]]
    /\ hold = [h \in Hold |->
            [st |-> "none", offer |-> 0, user |-> None, token |-> FALSE,
             track |-> FALSE, lapsed |-> FALSE, flag |-> "none"]]
    /\ gate = [h \in Hold |-> [st |-> "none", exact |-> TRUE]]
    /\ refund = [b \in Booking |-> {}]
    /\ penalty = {}
    /\ job = [w \in Worker |-> Idle]
    /\ faults = 0

-----------------------------------------------------------------------------
(* Queries *)

NextRow(row, i) == row[i].st = "none" /\ \A j \in 1..(i - 1) : row[j].st # "none"

(* booking_repo.get_active_by_slot *)
Active == {b \in Booking : booking[b].st \in {"confirmed", "pending_cancellation"}}

(* replacement_repo.get_request_by_original *)
LiveOffers(b) == {r \in Offer : offer[r].st \in {"open", "held"} /\ offer[r].booking = b}

(* uq_replacement_requests_one_live_per_original accepts r as a live row *)
MayLive(r) == LiveOffers(offer[r].booking) \subseteq {r}

Live(h) == hold[h].st \in {"active", "processing"}
LiveHolds(r) == {h \in Hold : Live(h) /\ hold[h].offer = r}
HoldsOf(u)   == {h \in Hold : Live(h) /\ hold[h].user = u}

(* expires_at = min(ten minutes, deadline) has passed *)
Lapsed(h) == hold[h].lapsed \/ started

OriginalOf(h) == offer[hold[h].offer].booking

Locked(h) == \E w \in Worker : job[w].h = h /\ job[w].pc \in LockedPc

-----------------------------------------------------------------------------
(* Updates shared by several transactions *)

WithHold(h, st) == [hold EXCEPT ![h] = [@ EXCEPT !.st = st, !.token = FALSE]]

WithHolds(H, st) == [h \in Hold |->
    IF h \in H THEN [hold[h] EXCEPT !.st = st, !.token = FALSE] ELSE hold[h]]

WithOffer(r, st) == [offer EXCEPT ![r].st = st]

Reserved == [st |-> "reserved", reserved |-> TRUE]
Offered  == [st |-> "pending_cancellation", reserved |-> TRUE]

\* Mutant: the slot is set free, as it is when an ordinary checkout ends
Released_Open ==
    IF slot.st = "reserving" THEN [st |-> "open", reserved |-> FALSE] ELSE slot

(* The slot goes back to the offer, if it is held *)
Released == IF slot.st = "reserving" THEN Offered ELSE slot

\* Mutant: the original is confirmed again whatever became of it
Confirmed_AnyStatus(b) == [booking EXCEPT ![b].st = "confirmed"]

Confirmed(b) ==
    [booking EXCEPT ![b].st = IF @ = "pending_cancellation" THEN "confirmed" ELSE @]

\* Mutant: the original is forgotten
Restored_SlotOnly(r) ==
    /\ slot' = IF slot.st \in {"pending_cancellation", "reserving"} THEN Reserved ELSE slot
    /\ UNCHANGED booking

(* the offer lapses with the slot: the original is confirmed again *)
Restored(r) ==
    /\ booking' = Confirmed(offer[r].booking)
    /\ slot' = IF slot.st \in {"pending_cancellation", "reserving"} THEN Reserved ELSE slot

(* Between two transactions a request keeps the number of its hold only *)
Goto(w, pc) == job' = [job EXCEPT ![w] = [Idle EXCEPT !.pc = pc, !.h = job[w].h]]
Return(w) == job' = [job EXCEPT ![w] = Idle]
Begin(w, h, pc) ==
    /\ job[w].pc = "idle"
    /\ job' = [job EXCEPT ![w] = [Idle EXCEPT !.pc = pc, !.h = h]]

(* get_hold(for_update=True): lock the hold, load its request and its slot *)
Lock(w, h, pc) ==
    /\ ~Locked(h)
    /\ job' = [job EXCEPT ![w] = [pc |-> pc, h |-> h,
                                  seenOffer |-> offer[hold[h].offer].st,
                                  seenSlot |-> slot.st]]

(* The row that a hold-first handler writes: only what differs from the    *)
(* loaded status is sent to the database.                                  *)
SetOffer(w, st) ==
    LET r == hold[job[w].h].offer IN
    offer' = IF job[w].seenOffer = st THEN offer ELSE WithOffer(r, st)

SetReleased(w) ==
    slot' = IF job[w].seenSlot = "reserving"
            THEN [slot EXCEPT !.st = "pending_cancellation"] ELSE slot

(* A hold-first handler gives the offer back, whatever became of it *)
GiveBack(w) ==
    /\ \/ job[w].seenOffer = "open"
       \/ MayLive(hold[job[w].h].offer)
    /\ SetOffer(w, "open")
    /\ SetReleased(w)
    /\ UNCHANGED booking

(* ... or, once the slot has started, ends it *)
GiveUp(w) ==
    /\ SetOffer(w, "expired")
    /\ Restored(hold[job[w].h].offer)

GiveBackOrUp(w) == IF started THEN GiveUp(w) ELSE GiveBack(w)

(* ... or gives it back only if it was loaded as held *)
GiveBackHeld(w) ==
    IF job[w].seenOffer = "held" THEN GiveBack(w) ELSE UNCHANGED <<offer, slot, booking>>

-----------------------------------------------------------------------------
(* The owner and the manager *)

(* cancel_booking, 48 hours or less before the slot *)
CancelLate(b) ==
    /\ booking[b].st = "confirmed"
    /\ ~started
    /\ LiveOffers(b) = {}
    /\ booking' = [booking EXCEPT ![b].st = "pending_cancellation"]
    /\ slot' = Offered
    /\ \E r \in Offer :
          /\ NextRow(offer, r)
          /\ offer' = [offer EXCEPT ![r] = [st |-> "open", booking |-> b]]
    /\ UNCHANGED <<started, hold, gate, refund, penalty, job, faults>>

(* withdraw_cancellation *)
Withdraw(b) ==
    /\ booking[b].st = "pending_cancellation"
    /\ ~started
    /\ \E r \in LiveOffers(b) :
          /\ offer[r].st = "open"
          /\ offer' = WithOffer(r, "revoked")
    /\ booking' = [booking EXCEPT ![b].st = "confirmed"]
    /\ slot' = Reserved
    /\ UNCHANGED <<started, hold, gate, refund, penalty, job, faults>>

(* cancel_booking_by_manager with revoke_replacement_request, which skips  *)
(* holds that are locked                                                   *)
ManagerCancel(b, release_slot) ==
    /\ b \in Active
    /\ ~started
    /\ refund' = [refund EXCEPT ![b] = @ \cup {"manager_cancellation"}]
    /\ IF booking[b].st = "pending_cancellation"
       THEN /\ offer' = [r \in Offer |-> IF r \in LiveOffers(b)
                  THEN [offer[r] EXCEPT !.st = "revoked"] ELSE offer[r]]
            /\ hold' = WithHolds({h \in UNION {LiveHolds(r) : r \in LiveOffers(b)} :
                                      ~Locked(h)}, "cancelled")
       ELSE UNCHANGED <<offer, hold>>
    /\ booking' = [booking EXCEPT ![b].st = "cancelled"]
    /\ slot' = [st |-> IF release_slot THEN "open" ELSE "blocked", reserved |-> FALSE]
    /\ UNCHANGED <<started, gate, penalty, job, faults>>

-----------------------------------------------------------------------------
(* create_booking *)

(* The slot is neither closed, nor started, nor taken *)
Takeable == slot.st # "blocked" /\ ~started /\ (slot.reserved => slot = Offered)

(* A hold on the offer of somebody else's booking.  A live hold of the     *)
(* same offer that ran out of time is expired, even in mid-payment.        *)
CreateHold(u) ==
    \E b \in Active : \E r \in LiveOffers(b) :
        /\ Takeable
        /\ booking[b].st = "pending_cancellation"
        /\ booking[b].user # u
        /\ HoldsOf(u) = {}
        /\ \A h \in LiveHolds(r) : Lapsed(h) /\ ~Locked(h)
        /\ offer[r].st = "open" \/ LiveHolds(r) # {}
        /\ \A h \in Hold : Live(h) => h \in LiveHolds(r)
        /\ \E n \in Hold :
              /\ NextRow(hold, n)
              /\ hold' = [WithHolds(LiveHolds(r), "expired") EXCEPT ![n] =
                    [st |-> "active", offer |-> r, user |-> u, token |-> FALSE,
                     track |-> FALSE, lapsed |-> FALSE, flag |-> "none"]]
        /\ offer' = WithOffer(r, "held")
        /\ slot' = [st |-> "reserving", reserved |-> TRUE]
        /\ UNCHANGED <<started, booking, gate, refund, penalty, job, faults>>

(* The deadline comes between the check of the slot and the check of the   *)
(* request: the offer ends, a live hold does not.                          *)
CreateTooLate(u) ==
    \E b \in Active : \E r \in LiveOffers(b) :
        /\ started
        /\ slot = Offered
        /\ booking[b].st = "pending_cancellation"
        /\ booking[b].user # u
        /\ offer' = WithOffer(r, "expired")
        /\ booking' = Confirmed(b)
        /\ slot' = Reserved
        /\ UNCHANGED <<started, hold, gate, refund, penalty, job, faults>>

(* _ensure_single_live_checkout, when the holder books another slot *)
HolderMovesOn(h) ==
    LET r == hold[h].offer IN
    /\ hold[h].st = "active"
    /\ Lapsed(h)
    /\ ~Locked(h)
    /\ hold' = WithHold(h, "expired")
    /\ IF started THEN UNCHANGED <<offer, slot>>
       ELSE MayLive(r) /\ offer' = WithOffer(r, "open") /\ slot' = Released
    /\ UNCHANGED <<started, booking, gate, refund, penalty, job, faults>>

(* The slot was released by the manager and is sold at the checkout, which *)
(* is Checkout's business and one step here.                               *)
Resell(u) ==
    /\ Takeable
    /\ Active = {}
    /\ HoldsOf(u) = {}
    /\ \E n \in Booking :
          /\ NextRow(booking, n)
          /\ booking' = [booking EXCEPT ![n] =
                [st |-> "confirmed", user |-> u, replaces |-> 0]]
    /\ slot' = Reserved
    /\ UNCHANGED <<started, offer, hold, gate, refund, penalty, job, faults>>

-----------------------------------------------------------------------------
(* pay_replacement_hold and cancel_replacement_hold *)

PayLocks(w, h) ==
    /\ job[w].pc = "idle"
    /\ hold[h].st = "active"
    /\ Lock(w, h, "pays")
    /\ UNCHANGED <<started, slot, offer, hold, gate, saleVars, faults>>

Payable(w) == job[w].seenOffer = "held" /\ ~Lapsed(job[w].h)

PayBegins(w) ==
    /\ job[w].pc = "pays"
    /\ Payable(w)
    /\ hold' = [hold EXCEPT ![job[w].h] = [@ EXCEPT !.st = "processing", !.token = TRUE]]
    /\ Goto(w, "request")
    /\ UNCHANGED <<started, slot, offer, gate, saleVars, faults>>

PayTooLate(w) ==
    /\ job[w].pc = "pays"
    /\ ~Payable(w)
    /\ hold' = WithHold(job[w].h, "expired")
    /\ GiveBackOrUp(w)
    /\ Return(w)
    /\ UNCHANGED <<started, gate, refund, penalty, faults>>

(* The gateway opens a checkout, and its track is recorded if the payment  *)
(* is still ours.                                                          *)
RecordTrack(w) ==
    LET h == job[w].h IN
    /\ job[w].pc = "request"
    /\ ~Locked(h)
    /\ gate' = [gate EXCEPT ![h].st = "open"]
    /\ hold' = [hold EXCEPT ![h].track = hold[h].token]
    /\ Return(w)
    /\ UNCHANGED <<started, slot, offer, saleVars, faults>>

(* _fail_replacement_payment takes its locks if the payment is still ours *)
FailLocks(w) ==
    LET h == job[w].h IN IF hold[h].token THEN Lock(w, h, "fails") ELSE Return(w)

(* ZibalGatewayError *)
GatewayRefuses(w) ==
    /\ job[w].pc = "request"
    /\ FailLocks(w)
    /\ UNCHANGED <<started, slot, offer, hold, gate, saleVars, faults>>

FailPayment(w) ==
    /\ job[w].pc = "fails"
    /\ hold' = WithHold(job[w].h, "failed")
    /\ GiveBackOrUp(w)
    /\ Return(w)
    /\ UNCHANGED <<started, gate, refund, penalty, faults>>

CancelLocks(w, h) ==
    /\ job[w].pc = "idle"
    /\ hold[h].st = "active"
    /\ Lock(w, h, "cancels")
    /\ UNCHANGED <<started, slot, offer, hold, gate, saleVars, faults>>

CancelHold(w) ==
    /\ job[w].pc = "cancels"
    /\ hold' = WithHold(job[w].h, "cancelled")
    /\ GiveBackHeld(w)
    /\ Return(w)
    /\ UNCHANGED <<started, gate, refund, penalty, faults>>

-----------------------------------------------------------------------------
(* resolve_zibal_payment, _verify_zibal_replacement_hold *)

(* A callback or the result page, for a hold whose payment is under way *)
StartResolve(w, h) ==
    /\ hold[h].st = "processing"
    /\ hold[h].track
    /\ ~Locked(h)
    /\ Begin(w, h, "verify")
    /\ UNCHANGED <<started, slot, offer, hold, gate, saleVars, faults>>

(* reconcile_stale_zibal_payments, for one hold of its list *)
Reconcile(h) == StartResolve(Reconciler, h)

Verify(w) ==
    LET h == job[w].h IN
    /\ job[w].pc = "verify"
    /\ IF gate[h].st \in {"paid", "captured"}
       THEN gate' = [gate EXCEPT ![h].st = "captured"] /\ Goto(w, "settle")
       ELSE Goto(w, "refused") /\ UNCHANGED gate
    /\ UNCHANGED <<started, slot, offer, hold, saleVars, faults>>

\* Mutant: the amount is not compared
Settle_AnyAmount(w) ==
    LET h == job[w].h IN
    /\ job[w].pc = "settle"
    /\ ~Locked(h)
    /\ \/ ~hold[h].token /\ Return(w)
       \/ hold[h].token /\ Lock(w, h, "transfers")
    /\ UNCHANGED <<started, slot, offer, hold, gate, saleVars, faults>>

(* The hold is locked again: it was paid meanwhile or lost its token, the  *)
(* amount is wrong, or the transfer may begin.                             *)
Settle(w) ==
    LET h == job[w].h IN
    /\ job[w].pc = "settle"
    /\ ~Locked(h)
    /\ \/ ~hold[h].token /\ Return(w) /\ UNCHANGED hold
       \/ /\ hold[h].token /\ ~gate[h].exact
          /\ hold' = [hold EXCEPT ![h].flag = "amount_mismatch"]
          /\ Return(w)
       \/ hold[h].token /\ gate[h].exact /\ Lock(w, h, "transfers") /\ UNCHANGED hold
    /\ UNCHANGED <<started, slot, offer, gate, saleVars, faults>>

\* Mutant: the original booking is not looked at under its lock
Transferable_SeenOnly(w) == job[w].seenOffer = "held" /\ ~started

\* Mutant: the deadline is not looked at once the money has come
Transferable_AnyTime(w) ==
    /\ job[w].seenOffer = "held"
    /\ booking[OriginalOf(job[w].h)].st = "pending_cancellation"

(* _finalize_replacement_payment *)
Transferable(w) ==
    /\ job[w].seenOffer = "held"
    /\ booking[OriginalOf(job[w].h)].st = "pending_cancellation"
    /\ ~started

Transfer(w) ==
    LET h == job[w].h
        b == OriginalOf(h)
    IN  /\ job[w].pc = "transfers"
        /\ Transferable(w)
        /\ \E n \in Booking :
              /\ NextRow(booking, n)
              /\ booking' = [booking EXCEPT ![b].st = "transferred", ![n] =
                    [st |-> "confirmed", user |-> hold[h].user, replaces |-> b]]
        /\ refund' = [refund EXCEPT ![b] = @ \cup {"replaced_after_pending_cancellation"}]
        /\ penalty' = penalty \cup {b}
        /\ offer' = WithOffer(hold[h].offer, "completed")
        /\ hold' = WithHold(h, "paid")
        /\ slot' = Reserved
        /\ Return(w)
        /\ UNCHANGED <<started, gate, faults>>

(* Paid, but nothing to transfer: the money is flagged for support *)
Conflict(w) ==
    LET h == job[w].h
        b == OriginalOf(h)
    IN  /\ job[w].pc = "transfers"
        /\ ~Transferable(w)
        /\ hold' = [hold EXCEPT ![h] = [@ EXCEPT !.st = "failed", !.token = FALSE,
                                         !.flag = "paid_but_transfer_conflicted"]]
        /\ IF started /\ booking[b].st = "pending_cancellation"
           THEN /\ SetOffer(w, "expired")
                /\ booking' = Confirmed(b)
                /\ slot' = Reserved
           ELSE UNCHANGED <<offer, booking, slot>>
        /\ Return(w)
        /\ UNCHANGED <<started, gate, refund, penalty, faults>>

(* _record_failed_zibal_attempt: verification was refused, and the inquiry *)
(* says whether the checkout is closed                                     *)
InquireRefusal(w) ==
    /\ job[w].pc = "refused"
    /\ IF gate[job[w].h].st = "closed"
       THEN Lock(w, job[w].h, "records") ELSE Goto(w, "classify")
    /\ UNCHANGED <<started, slot, offer, hold, gate, saleVars, faults>>

\* Mutant: a checkout that nobody paid stays pending after its deadline
Classify_NeverFails(w) ==
    LET h == job[w].h IN
    /\ job[w].pc = "classify"
    /\ \/ gate[h].st = "closed" /\ Lock(w, h, "closes")
       \/ gate[h].st # "closed" /\ Return(w)
    /\ UNCHANGED <<started, slot, offer, hold, gate, saleVars, faults>>

(* The inquiry of resolve_zibal_payment *)
Classify(w) ==
    LET h == job[w].h IN
    /\ job[w].pc = "classify"
    /\ \/ gate[h].st = "closed" /\ Lock(w, h, "closes")
       \/ gate[h].st = "open" /\ Lapsed(h) /\ FailLocks(w)
       \/ gate[h].st = "open" /\ ~Lapsed(h) /\ Return(w)
       \/ gate[h].st \in {"paid", "captured"} /\ Return(w)
    /\ UNCHANGED <<started, slot, offer, hold, gate, saleVars, faults>>

\* Mutant: the hold fails whatever became of it
RecordFailure_AnyStatus(w) ==
    /\ job[w].pc \in {"records", "closes"}
    /\ hold' = WithHold(job[w].h, "failed")
    /\ GiveBackHeld(w)
    /\ IF job[w].pc = "records" THEN Goto(w, "classify") ELSE Return(w)
    /\ UNCHANGED <<started, gate, refund, penalty, faults>>

(* The transaction of _record_failed_zibal_attempt, called by the          *)
(* verification ("records") and once more by its caller ("closes")         *)
RecordFailure(w) ==
    LET h == job[w].h IN
    /\ job[w].pc \in {"records", "closes"}
    /\ hold' = IF hold[h].st = "processing" THEN WithHold(h, "failed") ELSE hold
    /\ GiveBackHeld(w)
    /\ IF job[w].pc = "records" THEN Goto(w, "classify") ELSE Return(w)
    /\ UNCHANGED <<started, gate, refund, penalty, faults>>

(* uq_replacement_requests_one_live_per_original refuses the row that a    *)
(* hold-first handler gives back, and its transaction is rolled back.      *)
IndexRefuses(w) ==
    /\ ~started
    /\ \/ job[w].pc = "pays" /\ ~Payable(w) /\ job[w].seenOffer # "open"
       \/ job[w].pc = "fails" /\ job[w].seenOffer # "open"
       \/ job[w].pc \in {"cancels", "records", "closes"} /\ job[w].seenOffer = "held"
    /\ ~MayLive(hold[job[w].h].offer)
    /\ Return(w)
    /\ UNCHANGED <<started, slot, offer, hold, gate, saleVars, faults>>

-----------------------------------------------------------------------------
(* expire_replacement_work.  A pass of the job may take several rows; they *)
(* are independent of each other.                                          *)

\* Mutant: a held request is left to its hold
ExpireOffer_OpenOnly(r) ==
    /\ offer[r].st = "open"
    /\ started
    /\ hold' = WithHolds({h \in LiveHolds(r) : ~Locked(h)}, "expired")
    /\ offer' = WithOffer(r, "expired")
    /\ Restored(r)
    /\ UNCHANGED <<started, gate, refund, penalty, job, faults>>

ExpireOffer(r) ==
    /\ offer[r].st \in {"open", "held"}
    /\ started
    /\ \A h \in LiveHolds(r) : ~(hold[h].st = "processing" /\ hold[h].track)
    /\ hold' = WithHolds({h \in LiveHolds(r) : ~Locked(h)}, "expired")
    /\ offer' = WithOffer(r, "expired")
    /\ Restored(r)
    /\ UNCHANGED <<started, gate, refund, penalty, job, faults>>

ExpireHold(h) ==
    LET r == hold[h].offer IN
    /\ hold[h].st = "active" \/ (hold[h].st = "processing" /\ ~hold[h].track)
    /\ Lapsed(h)
    /\ ~Locked(h)
    /\ hold' = WithHold(h, "expired")
    /\ IF offer[r].st = "held"
       THEN offer' = WithOffer(r, "open") /\ slot' = Released
       ELSE UNCHANGED <<offer, slot>>
    /\ UNCHANGED <<started, gate, saleVars, job, faults>>

-----------------------------------------------------------------------------
(* The environment: time, the gateway and the payer *)

Tick ==
    /\ ~started
    /\ started' = TRUE
    /\ UNCHANGED <<slot, offer, hold, gate, saleVars, job, faults>>

Lapse(h) ==
    /\ Live(h)
    /\ ~hold[h].lapsed
    /\ hold' = [hold EXCEPT ![h].lapsed = TRUE]
    /\ UNCHANGED <<started, slot, offer, gate, saleVars, job, faults>>

PayerPays(h) ==
    /\ gate[h].st = "open"
    /\ \E exact \in (IF WrongAmounts THEN BOOLEAN ELSE {TRUE}) :
          gate' = [gate EXCEPT ![h] = [st |-> "paid", exact |-> exact]]
    /\ UNCHANGED <<started, slot, offer, hold, saleVars, job, faults>>

(* The payer cancels, or the gateway reverses a payment nobody verified *)
GatewayCloses(h) ==
    /\ gate[h].st \in {"open", "paid"}
    /\ gate' = [gate EXCEPT ![h].st = "closed"]
    /\ UNCHANGED <<started, slot, offer, hold, saleVars, job, faults>>

Fault == faults < MaxFault /\ faults' = faults + 1

(* The process dies, or PostgreSQL chooses the request as the victim of a  *)
(* deadlock between its hold and the offer: the transaction is rolled back *)
Abort(w) ==
    /\ Fault
    /\ job[w].pc # "idle"
    /\ Return(w)
    /\ UNCHANGED <<started, slot, offer, hold, gate, saleVars>>

(* The money is captured and the answer is lost *)
LoseVerifyReply(w) ==
    /\ Fault
    /\ job[w].pc = "verify"
    /\ gate[job[w].h].st = "paid"
    /\ gate' = [gate EXCEPT ![job[w].h].st = "captured"]
    /\ Return(w)
    /\ UNCHANGED <<started, slot, offer, hold, saleVars>>

LoseInquiry(w) ==
    /\ Fault
    /\ job[w].pc = "refused"
    /\ Goto(w, "classify")
    /\ UNCHANGED <<started, slot, offer, hold, gate, saleVars>>

-----------------------------------------------------------------------------
JobStep(w) ==
    \/ PayBegins(w) \/ PayTooLate(w) \/ RecordTrack(w) \/ GatewayRefuses(w)
    \/ FailPayment(w) \/ CancelHold(w) \/ Verify(w) \/ Settle(w) \/ Transfer(w)
    \/ Conflict(w) \/ InquireRefusal(w) \/ Classify(w) \/ RecordFailure(w)
    \/ IndexRefuses(w)

Next ==
    \/ \E b \in Booking : CancelLate(b) \/ Withdraw(b)
    \/ \E b \in Booking, release_slot \in BOOLEAN : ManagerCancel(b, release_slot)
    \/ \E u \in User : CreateHold(u) \/ CreateTooLate(u) \/ Resell(u)
    \/ \E w \in Request, h \in Hold : PayLocks(w, h) \/ CancelLocks(w, h) \/ StartResolve(w, h)
    \/ \E h \in Hold : HolderMovesOn(h) \/ Reconcile(h) \/ ExpireHold(h)
    \/ \E r \in Offer : ExpireOffer(r)
    \/ \E w \in Worker : JobStep(w)
    \/ \E h \in Hold : Lapse(h) \/ PayerPays(h) \/ GatewayCloses(h)
    \/ Tick
    \/ \E w \in Worker : Abort(w) \/ LoseVerifyReply(w) \/ LoseInquiry(w)

Spec == Init /\ [][Next]_vars

(* Time passes, gateway and database answer, and the jobs of main.py run   *)
(* every minute; a row they skip or miss now and then is met again.        *)
Fairness ==
    /\ WF_vars(Tick)
    /\ \A w \in Worker : WF_vars(JobStep(w))
    /\ \A r \in Offer : SF_vars(ExpireOffer(r))
    /\ \A h \in Hold : SF_vars(ExpireHold(h)) /\ SF_vars(Reconcile(h))

FairSpec == Spec /\ Fairness

-----------------------------------------------------------------------------
(* The inductive invariant behind Resale: rows refer to rows that exist,   *)
(* a job holds the row of its hold, nobody holds his own slot, and one     *)
(* booking at most entitles to the slot.                                   *)
RowsAreLinked ==
    /\ \A b \in Booking :
          IF booking[b].st = "none" THEN booking[b].user = None ELSE booking[b].user \in User
    /\ \A r \in Offer : offer[r].st # "none" =>
          offer[r].booking \in Booking /\ booking[offer[r].booking].st # "none"
    /\ \A h \in Hold : hold[h].st # "none" =>
          /\ hold[h].offer \in Offer
          /\ offer[hold[h].offer].st # "none"
          /\ hold[h].user \in User \ {booking[OriginalOf(h)].user}

JobsHoldHolds ==
    \A w \in Worker : job[w].pc # "idle" =>
        job[w].h \in Hold /\ hold[job[w].h].st # "none"

OneActive == \A b, c \in Active : b = c

ResaleInv == TypeOK /\ RowsAreLinked /\ JobsHoldHolds /\ OneActive

(* Safety *)

(* A transfer is whole or did not happen: a transferred booking has one    *)
(* successor, owned by the user whose hold was paid in the right amount,   *)
(* and its former owner is charged the penalty and refunded the rest.      *)
(* _finalize_replacement_payment writes seven tables in one transaction.   *)
TransferIsWhole ==
    \A b \in Booking :
        /\ booking[b].st = "transferred" =>
              \E n \in Booking, h \in Hold :
                  /\ {m \in Booking : booking[m].replaces = b} = {n}
                  /\ {g \in Hold : hold[g].st = "paid" /\ OriginalOf(g) = b} = {h}
                  /\ booking[n].user = hold[h].user
                  /\ gate[h] = [st |-> "captured", exact |-> TRUE]
                  /\ b \in penalty
                  /\ refund[b] = {"replaced_after_pending_cancellation"}
        /\ booking[b].st = "cancelled" => refund[b] = {"manager_cancellation"}
        /\ booking[b].st \in {"none", "confirmed", "pending_cancellation"} =>
              /\ b \notin penalty
              /\ refund[b] = {}
              /\ \A n \in Booking : booking[n].replaces # b

(* An offer that refuses other buyers and the owner's withdrawal as held   *)
(* really is held: some live hold can still end it before the deadline.    *)
HeldHasHold ==
    ~started => \A r \in Offer : offer[r].st = "held" => LiveHolds(r) # {}

(* A booking that waits for its successor has a live offer: create_booking *)
(* finds it, and neither withdrawal nor expiry can miss it.                *)
PendingHasOffer ==
    \A b \in Booking : booking[b].st = "pending_cancellation" => LiveOffers(b) # {}

(* A slot with an owner is never shown as free, even by the handlers that  *)
(* write it back from a stale row.                                         *)
OwnedIsNotFree == Active # {} => slot.reserved /\ slot.st \notin {"open", "blocked"}

(* What is offered can be bought and ended, and nothing else: a booking    *)
(* that waits for its successor has a live offer, an offer that is held a   *)
(* live hold, and a slot with an owner is not for sale otherwise.          *)
OffersAreBacked == PendingHasOffer /\ HeldHasHold /\ OwnedIsNotFree

(* Action properties *)

(* A booking or hold that ended stays ended, whichever late answer, retry  *)
(* or job comes.                                                           *)
RowsStayEnded ==
    [][/\ \A b \in Booking :
            booking[b].st \in {"transferred", "cancelled"} => booking'[b] = booking[b]
       /\ \A h \in Hold :
            hold[h].st \in {"paid", "expired", "failed", "cancelled"} => hold'[h].st = hold[h].st]_vars

(* Nobody loses his slot once it has started, however late the money of a  *)
(* buyer is found.                                                         *)
NoTransferAfterStart ==
    [][started => \A b \in Booking : booking'[b].st = "transferred" => booking[b].st = "transferred"]_vars

(* Liveness *)

(* A booking does not wait for a successor for ever: it is taken over, or  *)
(* its owner has it back once the slot starts.                             *)
PendingIsDecided ==
    \A b \in Booking :
        booking[b].st = "pending_cancellation" ~> booking[b].st # "pending_cancellation"

(* No hold stays live for ever and blocks the slot. *)
HoldsEnd == \A h \in Hold : Live(h) ~> ~Live(h)

-----------------------------------------------------------------------------
(* The place in the slot (Resale), read off the bookings *)
Phase(st) ==
    CASE st = "none" -> "none"
      [] st = "confirmed" -> "sold"
      [] st = "pending_cancellation" -> "offered"
      [] st = "transferred" -> "moved"
      [] st = "cancelled" -> "ended"

SaleOf(b) == [phase |-> Phase(booking[b].st), owner |-> booking[b].user]

Place == INSTANCE Resale WITH sale <- [b \in Booking |-> SaleOf(b)]

(* The slot always has one owner, and only a paid hold moves it to another. *)
ImplementsResale == Place!Spec
=============================================================================
