------------------------------ MODULE Checkout ------------------------------
(***************************************************************************)
(* The online checkout of backend/app/services/booking_service.py: a user  *)
(* reserves a slot, pays for it at the Zibal gateway, and the slot is sold *)
(* or released.  Five kinds of actors touch the same rows:                 *)
(*                                                                         *)
(*   - the requests of users (create, pay, cancel, payment callback),      *)
(*   - the manager who cancels a booking,                                  *)
(*   - the sweeper of main.py that expires unpaid bookings,                *)
(*   - the reconciliation job of main.py that chases lost callbacks,       *)
(*   - the gateway and the payer, who moves money whenever he likes.       *)
(*                                                                         *)
(* A database transaction is one action: every handler takes the row lock  *)
(* of the booking (or slot) before it decides.  A call to the gateway is   *)
(* made between two transactions, so a request that talks to the gateway   *)
(* is a job with a program counter and everybody else runs in between.     *)
(*                                                                         *)
(* Time is one bit per booking: lapsed says that expires_at has passed.    *)
(***************************************************************************)
EXTENDS Naturals, FiniteSets

CONSTANTS
    User,           \* customers
    Slot,           \* time slots of a vendor
    Request,        \* HTTP requests in flight at the same time
    Reconciler,     \* the reconciliation job of main.py
    None,           \* SQL NULL
    MaxBooking,     \* bound: rows of the bookings table
    MaxPayment,     \* bound: rows of the payments table
    MaxFault,       \* bound: crashes, lost replies and failed inquiries
    Crashes,        \* may the server die between two transactions?
    WrongAmounts    \* may the gateway report another amount than asked?

ASSUME CheckoutAssumption ==
    /\ None \notin User \cup Slot
    /\ Reconciler \notin Request
    /\ MaxBooking \in Nat
    /\ MaxPayment \in Nat
    /\ MaxFault \in Nat
    /\ Crashes \in BOOLEAN
    /\ WrongAmounts \in BOOLEAN

VARIABLES
    slot,       \* time_slots.status (is_reserved always moves with it here)
    booking,    \* rows of bookings
    payment,    \* rows of payments
    gate,       \* what the gateway knows of the checkout of each payment
    refund,     \* refunds(booking_id, type)
    job,        \* requests that are between two transactions
    faults      \* faults so far

vars == <<slot, booking, payment, gate, refund, job, faults>>

Booking == 1..MaxBooking
Payment == 1..MaxPayment
Worker  == Request \cup {Reconciler}

SlotStatus    == {"open", "reserving", "reserved", "blocked"}
BookingStatus == {"none", "pending_payment", "confirmed", "cancelled", "expired"}
PaymentStatus == {"none", "pending", "success", "failed", "expired"}
RefundType    == {"user_cancellation", "manager_cancellation"}

(* failure_code of a payment, as far as support looks for it *)
Flag == {"none", "amount_mismatch", "paid_but_booking_not_payable"}

(* open: the payer may still pay (-1); paid: paid, not verified (2);       *)
(* captured: verified (1); closed: cancelled, failed or reversed           *)
GateStatus == {"none", "open", "paid", "captured", "closed"}

(* Operations that talk to the gateway, and where they are in it *)
Op == {"none", "pay", "resolve", "cancel", "create"}
Pc == {"idle", "request", "verify", "settle", "refused", "classify",
       "expire", "ensure", "cancel", "create"}

TypeOK ==
    /\ slot \in [Slot -> SlotStatus]
    /\ booking \in [Booking -> [st : BookingStatus, user : User \cup {None},
                                slot : Slot \cup {None}, lapsed : BOOLEAN]]
    /\ payment \in [Payment -> [st : PaymentStatus, booking : Booking \cup {0},
                                track : BOOLEAN, token : BOOLEAN, flag : Flag]]
    /\ gate \in [Payment -> [st : GateStatus, exact : BOOLEAN]]
    /\ refund \in [Booking -> SUBSET RefundType]
    /\ job \in [Worker -> [op : Op, pc : Pc, p : Payment \cup {0}]]
    /\ faults \in 0..MaxFault

Idle == [op |-> "none", pc |-> "idle", p |-> 0]

Init ==
    /\ slot = [s \in Slot |-> "open"]
    /\ booking = [b \in Booking |->
                    [st |-> "none", user |-> None, slot |-> None, lapsed |-> FALSE]]
    /\ payment = [p \in Payment |->
                    [st |-> "none", booking |-> 0, track |-> FALSE,
                     token |-> FALSE, flag |-> "none"]]
    /\ gate = [p \in Payment |-> [st |-> "none", exact |-> TRUE]]
    /\ refund = [b \in Booking |-> {}]
    /\ job = [w \in Worker |-> Idle]
    /\ faults = 0

-----------------------------------------------------------------------------
(* Queries *)

(* booking_repo.get_active_by_slot: the statuses of the partial index *)
ActiveStatus == {"pending_payment", "confirmed"}
ActiveOn(s) == {b \in Booking : booking[b].st \in ActiveStatus /\ booking[b].slot = s}

(* booking_repo.get_pending_payment_by_user *)
CheckoutOf(u) == {b \in Booking : booking[b].st = "pending_payment" /\ booking[b].user = u}

PaymentsOf(b) == {p \in Payment : payment[p].booking = b}

(* payment_repo.get_by_booking: the newest payment, the empty set if none *)
Latest(b) == {p \in PaymentsOf(b) : \A q \in PaymentsOf(b) : q <= p}

LatestPending(b) == \E p \in Latest(b) : payment[p].st = "pending"

(* the newest payment of b is pending at a gateway checkout we know of *)
LiveTrack(b) == {p \in Latest(b) : payment[p].st = "pending" /\ payment[p].track}

(* finance_service._get_success_payment *)
SuccessPayments(b) == {p \in PaymentsOf(b) : payment[p].st = "success"}

NextRow(row, i) == row[i].st = "none" /\ \A j \in 1..(i - 1) : row[j].st # "none"

-----------------------------------------------------------------------------
(* Row updates shared by several transactions *)

(* the slots after booking b gives its slot up, if it still holds it *)
Released(b) ==
    [slot EXCEPT ![booking[b].slot] = IF @ = "reserving" THEN "open" ELSE @]

WithStatus(b, st) == [booking EXCEPT ![b].st = st]

(* an update of payments that ends the attempt p *)
Ended(p, st) == [payment EXCEPT ![p] = [@ EXCEPT !.st = st, !.token = FALSE]]

Goto(w, pc) == job' = [job EXCEPT ![w].pc = pc]
Begin(w, op, pc, p) ==
    /\ job[w].pc = "idle"
    /\ job' = [job EXCEPT ![w] = [op |-> op, pc |-> pc, p |-> p]]
Return(w) == job' = [job EXCEPT ![w] = Idle]

(* What the caller of resolve_zibal_payment does with its outcome *)
Resolved(w, outcome) ==
    IF job[w].op = "cancel" /\ outcome = "undecided" THEN Goto(w, "ensure")
    ELSE IF job[w].op = "create" /\ outcome # "undecided" THEN Goto(w, "create")
    ELSE Return(w)


-----------------------------------------------------------------------------
(* create_booking and _ensure_single_live_checkout *)

\* Mutant: the slots of the user's previous checkout are not released
InsertBooking_KeepsOldSlot(u, s, old) ==
    /\ slot[s] = "open"
    /\ ActiveOn(s) = {}
    /\ \A b \in old : booking[b].lapsed /\ booking[b].slot # s
    /\ \E n \in Booking :
          /\ NextRow(booking, n)
          /\ booking' = [b \in Booking |->
                IF b = n THEN [st |-> "pending_payment", user |-> u,
                               slot |-> s, lapsed |-> FALSE]
                ELSE IF b \in old THEN [booking[b] EXCEPT !.st = "expired"]
                ELSE booking[b]]
    /\ slot' = [slot EXCEPT ![s] = "reserving"]

(* The transaction that inserts the booking.  old is the user's checkout   *)
(* that ran out of time: it is expired in the same transaction.  Its slot  *)
(* gets a new version by that, so it is not the slot the client asks for.  *)
InsertBooking(u, s, old) ==
    /\ slot[s] = "open"
    /\ ActiveOn(s) = {}
    /\ \A b \in old : booking[b].lapsed /\ booking[b].slot # s
    /\ \E n \in Booking :
          /\ NextRow(booking, n)
          /\ booking' = [b \in Booking |->
                IF b = n THEN [st |-> "pending_payment", user |-> u,
                               slot |-> s, lapsed |-> FALSE]
                ELSE IF b \in old THEN [booking[b] EXCEPT !.st = "expired"]
                ELSE booking[b]]
    /\ slot' = [t \in Slot |->
                  IF t = s THEN "reserving"
                  ELSE IF slot[t] = "reserving" /\ \E b \in old : booking[b].slot = t
                  THEN "open" ELSE slot[t]]

CreateBooking(u, s) ==
    /\ \A b \in CheckoutOf(u) : LiveTrack(b) = {}
    /\ InsertBooking(u, s, CheckoutOf(u))
    /\ UNCHANGED <<payment, gate, refund, job, faults>>

(* The user's old checkout is past its deadline but at the gateway: commit *)
(* and find out at the gateway first.                                      *)
CreateResolvesOld(w, u) ==
    \E b \in CheckoutOf(u) : \E p \in LiveTrack(b) :
        /\ booking[b].lapsed
        /\ Begin(w, "create", "verify", p)
        /\ UNCHANGED <<slot, booking, payment, gate, refund, faults>>

\* Mutant: the user's checkouts are not read again after the gateway answered
CreateAfterResolve_NoRelock(w, s) ==
    LET old == payment[job[w].p].booking
    IN  /\ job[w].pc = "create"
        /\ s # booking[old].slot
        /\ InsertBooking(booking[old].user, s, {})
        /\ Return(w)
        /\ UNCHANGED <<payment, gate, refund, faults>>

(* The new transaction after the resolution, with the user's row relocked *)
CreateAfterResolve(w, s) ==
    LET old == payment[job[w].p].booking
        u   == booking[old].user
    IN  /\ job[w].pc = "create"
        /\ s # booking[old].slot
        /\ InsertBooking(u, s, CheckoutOf(u))
        /\ Return(w)
        /\ UNCHANGED <<payment, gate, refund, faults>>

(* ... or the slot is refused (409), for the reasons above or one the      *)
(* model leaves out: another version, an inactive vendor, a started slot.  *)
CreateRefused(w) ==
    /\ job[w].pc = "create"
    /\ Return(w)
    /\ UNCHANGED <<slot, booking, payment, gate, refund, faults>>

(* Environment: expires_at passes *)
Lapse(b) ==
    /\ booking[b].st = "pending_payment"
    /\ ~booking[b].lapsed
    /\ booking' = [booking EXCEPT ![b].lapsed = TRUE]
    /\ UNCHANGED <<slot, payment, gate, refund, job, faults>>

-----------------------------------------------------------------------------
(* _start_zibal_payment *)

(* The payment row is committed, with a fresh token, before the call *)
StartPayment(w, b) ==
    LET s == booking[b].slot IN
    /\ booking[b].st = "pending_payment"
    /\ ~booking[b].lapsed
    /\ slot[s] # "blocked"
    /\ slot[s] # "open" => slot[s] = "reserving" /\ b \in ActiveOn(s)
    /\ ~LatestPending(b)
    /\ \E p \in Payment :
          /\ NextRow(payment, p)
          /\ payment' = [payment EXCEPT ![p] =
                [st |-> "pending", booking |-> b, track |-> FALSE,
                 token |-> TRUE, flag |-> "none"]]
          /\ Begin(w, "pay", "request", p)
    /\ UNCHANGED <<slot, booking, gate, refund, faults>>

(* The gateway opens a checkout; its track is recorded if the attempt is   *)
(* still ours, and the payer is sent to it in any case.                    *)
RecordTrack(w) ==
    LET p == job[w].p IN
    /\ job[w].pc = "request"
    /\ gate' = [gate EXCEPT ![p].st = "open"]
    /\ payment' = IF payment[p].token
                  THEN [payment EXCEPT ![p] = [@ EXCEPT !.track = TRUE, !.token = FALSE]]
                  ELSE payment
    /\ Return(w)
    /\ UNCHANGED <<slot, booking, refund, faults>>

(* ZibalGatewayError *)
RecordRefusal(w) ==
    LET p == job[w].p IN
    /\ job[w].pc = "request"
    /\ payment' = IF payment[p].token THEN Ended(p, "failed") ELSE payment
    /\ Return(w)
    /\ UNCHANGED <<slot, booking, gate, refund, faults>>

(* Paying after the deadline with no gateway checkout expires the booking; *)
(* a payment that waits for its track stays pending.                       *)
PayTooLate(b) ==
    /\ booking[b].st = "pending_payment"
    /\ booking[b].lapsed
    /\ LiveTrack(b) = {}
    /\ booking' = WithStatus(b, "expired")
    /\ slot' = Released(b)
    /\ UNCHANGED <<payment, gate, refund, job, faults>>

-----------------------------------------------------------------------------
(* resolve_zibal_payment and verify_zibal_payment *)

(* A callback, the result page, or paying after the deadline.  Closed      *)
(* payments are answered from the row; only a pending one is verified.     *)
StartResolve(w, p) ==
    /\ payment[p].track
    /\ payment[p].st = "pending"
    /\ Begin(w, "resolve", "verify", p)
    /\ UNCHANGED <<slot, booking, payment, gate, refund, faults>>

(* reconcile_stale_zibal_payments, for one payment of its list *)
Reconcile(p) ==
    /\ StartResolve(Reconciler, p)
    /\ booking[payment[p].booking].st = "pending_payment"

(* gateway.verify_payment captures paid money and confirms captured money *)
Verify(w) ==
    LET p == job[w].p IN
    /\ job[w].pc = "verify"
    /\ IF gate[p].st \in {"paid", "captured"}
       THEN /\ gate' = [gate EXCEPT ![p].st = "captured"]
            /\ Goto(w, "settle")
       ELSE /\ Goto(w, "refused")
            /\ UNCHANGED gate
    /\ UNCHANGED <<slot, booking, payment, refund, faults>>

(* Steps 5 to 9 of verify_zibal_payment *)
Succeeded(p, flag) ==
    [payment EXCEPT ![p] =
        [@ EXCEPT !.st = "success", !.token = FALSE, !.flag = flag]]

AlreadyPaid(p) ==
    payment[p].st = "success" /\ booking[payment[p].booking].st = "confirmed"

\* Mutant: the unique index is missing
UniqueSuccess_NoIndex(p) == TRUE

(* uq_payments_one_success_per_booking refuses a second success *)
UniqueSuccess(p) == SuccessPayments(payment[p].booking) \subseteq {p}

\* Mutant: the booking status is not looked at once the money is captured
SettlePaid_AnyBooking(w) ==
    LET p == job[w].p
        b == payment[p].booking
    IN  /\ job[w].pc = "settle"
        /\ ~AlreadyPaid(p)
        /\ UniqueSuccess(p)
        /\ gate[p].exact
        /\ payment' = Succeeded(p, "none")
        /\ booking' = WithStatus(b, "confirmed")
        /\ slot' = [slot EXCEPT ![booking[b].slot] = "reserved"]
        /\ Resolved(w, "paid")
        /\ UNCHANGED <<gate, refund, faults>>

SettlePaid(w) ==
    LET p == job[w].p
        b == payment[p].booking
    IN  /\ job[w].pc = "settle"
        /\ ~AlreadyPaid(p)
        /\ UniqueSuccess(p)
        /\ gate[p].exact
        /\ booking[b].st = "pending_payment"
        /\ payment' = Succeeded(p, "none")
        /\ booking' = WithStatus(b, "confirmed")
        /\ slot' = [slot EXCEPT ![booking[b].slot] = "reserved"]
        /\ Resolved(w, "paid")
        /\ UNCHANGED <<gate, refund, faults>>

\* Mutant: late money is recorded without a failure code
SettleFlagged_NoFlag(w) ==
    LET p == job[w].p
        b == payment[p].booking
    IN  /\ job[w].pc = "settle"
        /\ ~AlreadyPaid(p)
        /\ UniqueSuccess(p)
        /\ ~gate[p].exact \/ booking[b].st # "pending_payment"
        /\ payment' = Succeeded(p, "none")
        /\ Return(w)
        /\ UNCHANGED <<slot, booking, gate, refund, faults>>

(* The money is recorded, the booking is not touched: support takes over *)
SettleFlagged(w) ==
    LET p == job[w].p
        b == payment[p].booking
    IN  /\ job[w].pc = "settle"
        /\ ~AlreadyPaid(p)
        /\ UniqueSuccess(p)
        /\ \/ /\ ~gate[p].exact
              /\ payment' = Succeeded(p, "amount_mismatch")
           \/ /\ gate[p].exact
              /\ booking[b].st # "pending_payment"
              /\ payment' = Succeeded(p, "paid_but_booking_not_payable")
        /\ Return(w)
        /\ UNCHANGED <<slot, booking, gate, refund, faults>>

\* Mutant: a booking that is no longer payable rolls the success back
SettleNothing_DropsLateMoney(w) ==
    LET p == job[w].p IN
    /\ job[w].pc = "settle"
    /\ \/ AlreadyPaid(p) /\ Resolved(w, "paid")
       \/ ~AlreadyPaid(p) /\ ~UniqueSuccess(p) /\ Return(w)
       \/ booking[payment[p].booking].st # "pending_payment" /\ Return(w)
    /\ UNCHANGED <<slot, booking, payment, gate, refund, faults>>

(* Another request settled it first, or the unique index refuses the row   *)
(* and the transaction is rolled back.                                     *)
SettleNothing(w) ==
    LET p == job[w].p IN
    /\ job[w].pc = "settle"
    /\ \/ AlreadyPaid(p) /\ Resolved(w, "paid")
       \/ ~AlreadyPaid(p) /\ ~UniqueSuccess(p) /\ Return(w)
    /\ UNCHANGED <<slot, booking, payment, gate, refund, faults>>

\* Mutant: the attempt fails and the booking is left payable
FailAttempt_KeepsBooking(p) ==
    /\ payment' = IF payment[p].st = "pending" THEN Ended(p, "failed") ELSE payment
    /\ UNCHANGED <<booking, slot>>

\* Mutant: the booking is cancelled whatever became of it
FailAttempt_AnyBooking(p) ==
    LET b == payment[p].booking IN
    /\ payment' = IF payment[p].st = "pending" THEN Ended(p, "failed") ELSE payment
    /\ booking' = WithStatus(b, "cancelled")
    /\ slot' = Released(b)

(* The transaction of _record_failed_zibal_attempt *)
FailAttempt(p) ==
    LET b == payment[p].booking IN
    /\ payment' = IF payment[p].st = "pending" THEN Ended(p, "failed") ELSE payment
    /\ IF booking[b].st = "pending_payment"
       THEN booking' = WithStatus(b, "cancelled") /\ slot' = Released(b)
       ELSE UNCHANGED <<booking, slot>>

(* Verification refused: the attempt fails only if the inquiry says that   *)
(* the checkout is closed.  Closed is final, so inquiry and transaction    *)
(* are one step.                                                           *)
RecordFailedAttempt(w) ==
    LET p == job[w].p IN
    /\ job[w].pc = "refused"
    /\ IF gate[p].st = "closed"
       THEN FailAttempt(p)
       ELSE UNCHANGED <<payment, booking, slot>>
    /\ Goto(w, "classify")
    /\ UNCHANGED <<gate, refund, faults>>

(* The inquiry by which resolve_zibal_payment classifies the refusal *)
Classify(w) ==
    LET p == job[w].p IN
    /\ job[w].pc = "classify"
    /\ \/ /\ gate[p].st = "closed"
          /\ FailAttempt(p)
          /\ Resolved(w, "failed")
       \/ /\ gate[p].st = "open"
          /\ Goto(w, "expire")
          /\ UNCHANGED <<payment, booking, slot>>
       \/ /\ gate[p].st \in {"paid", "captured"}
          /\ Resolved(w, "undecided")
          /\ UNCHANGED <<payment, booking, slot>>
    /\ UNCHANGED <<gate, refund, faults>>

\* Mutant: only checkouts that may still be paid are expired
Expirable_BeforeDeadline(p) ==
    /\ payment[p].st = "pending"
    /\ booking[payment[p].booking].st = "pending_payment"
    /\ ~booking[payment[p].booking].lapsed

(* _expire_zibal_booking_checkout, decided on the inquiry of Classify *)
Expirable(p) ==
    /\ payment[p].st = "pending"
    /\ booking[payment[p].booking].st = "pending_payment"
    /\ booking[payment[p].booking].lapsed

ExpireCheckout(w) ==
    LET p == job[w].p
        b == payment[p].booking
    IN  /\ job[w].pc = "expire"
        /\ IF Expirable(p)
           THEN /\ payment' = Ended(p, "expired")
                /\ booking' = WithStatus(b, "expired")
                /\ slot' = Released(b)
                /\ Resolved(w, "failed")
           ELSE /\ Resolved(w, "undecided")
                /\ UNCHANGED <<payment, booking, slot>>
        /\ UNCHANGED <<gate, refund, faults>>

-----------------------------------------------------------------------------
(* cancel_booking *)

(* The transaction that gives up an unpaid booking *)
GiveUp(b) ==
    /\ payment' = [p \in Payment |->
                     IF p \in Latest(b) /\ payment[p].st = "pending"
                     THEN [payment[p] EXCEPT !.st = "failed", !.token = FALSE]
                     ELSE payment[p]]
    /\ booking' = WithStatus(b, "cancelled")
    /\ slot' = Released(b)

(* No payment is under way *)
CancelUnpaid(b) ==
    /\ booking[b].st = "pending_payment"
    /\ ~LatestPending(b)
    /\ GiveUp(b)
    /\ UNCHANGED <<gate, refund, job, faults>>

(* A checkout is at the gateway: resolve it first *)
CancelStarts(w, b) ==
    /\ booking[b].st = "pending_payment"
    /\ \E p \in LiveTrack(b) : Begin(w, "cancel", "verify", p)
    /\ UNCHANGED <<slot, booking, payment, gate, refund, faults>>

(* _ensure_zibal_checkout_unpaid: 409 unless no money has moved *)
EnsureUnpaid(w) ==
    /\ job[w].pc = "ensure"
    /\ IF gate[job[w].p].st \in {"open", "closed"}
       THEN Goto(w, "cancel")
       ELSE Return(w)
    /\ UNCHANGED <<slot, booking, payment, gate, refund, faults>>

(* The booking is locked again; it may have been settled meanwhile *)
CancelRelocked(w) ==
    LET b == payment[job[w].p].booking IN
    /\ job[w].pc = "cancel"
    /\ IF booking[b].st = "pending_payment"
       THEN GiveUp(b)
       ELSE UNCHANGED <<payment, booking, slot>>
    /\ Return(w)
    /\ UNCHANGED <<gate, refund, faults>>

\* Mutant: the refund of the user is forgotten
CancelConfirmed_NoRefund(b) ==
    /\ booking[b].st = "confirmed"
    /\ booking' = WithStatus(b, "cancelled")
    /\ slot' = [slot EXCEPT ![booking[b].slot] = "open"]
    /\ UNCHANGED <<refund, payment, gate, job, faults>>

(* A paid booking, more than 48 hours before the slot *)
CancelConfirmed(b) ==
    /\ booking[b].st = "confirmed"
    /\ booking' = WithStatus(b, "cancelled")
    /\ slot' = [slot EXCEPT ![booking[b].slot] = "open"]
    /\ refund' = [refund EXCEPT ![b] = @ \cup {"user_cancellation"}]
    /\ UNCHANGED <<payment, gate, job, faults>>

(* finance_service.cancel_booking_by_manager *)
ManagerCancel(b, release_slot) ==
    /\ booking[b].st \in ActiveStatus
    /\ refund' = IF SuccessPayments(b) # {} /\ booking[b].st = "confirmed"
                 THEN [refund EXCEPT ![b] = @ \cup {"manager_cancellation"}]
                 ELSE refund
    /\ booking' = WithStatus(b, "cancelled")
    /\ slot' = [slot EXCEPT ![booking[b].slot] =
                    IF release_slot THEN "open" ELSE "blocked"]
    /\ UNCHANGED <<payment, gate, job, faults>>

-----------------------------------------------------------------------------
(* Background jobs of main.py *)

\* Mutant: the sweeper takes every lapsed booking
Sweepable_AnyStatus(b) ==
    /\ booking[b].st \in ActiveStatus
    /\ booking[b].lapsed
    /\ \A p \in PaymentsOf(b) : payment[p].st # "pending"

Sweepable(b) ==
    /\ booking[b].st = "pending_payment"
    /\ booking[b].lapsed
    /\ \A p \in PaymentsOf(b) : payment[p].st # "pending"

(* _cancel_expired_pending: one transaction over the rows it could lock *)
Sweep ==
    \E B \in SUBSET {b \in Booking : Sweepable(b)} :
        /\ B # {}
        /\ booking' = [b \in Booking |->
                IF b \in B THEN [booking[b] EXCEPT !.st = "expired"] ELSE booking[b]]
        /\ slot' = [s \in Slot |->
                IF \E b \in B : booking[b].slot = s THEN "open" ELSE slot[s]]
        /\ UNCHANGED <<payment, gate, refund, job, faults>>

Cleanable(p) ==
    /\ payment[p].st = "pending"
    /\ booking[payment[p].booking].st # "pending_payment"

(* payment_repo.expire_pending_for_nonpayable_bookings, which starts every *)
(* pass of the reconciliation job                                          *)
CleanNonPayable ==
    /\ job[Reconciler].pc = "idle"
    /\ \E p \in Payment : Cleanable(p)
    /\ payment' = [p \in Payment |->
            IF Cleanable(p)
            THEN [payment[p] EXCEPT !.st = "expired", !.token = FALSE]
            ELSE payment[p]]
    /\ UNCHANGED <<slot, booking, gate, refund, job, faults>>

-----------------------------------------------------------------------------
(* The gateway and the payer *)

PayerPays(p) ==
    /\ gate[p].st = "open"
    /\ \E exact \in (IF WrongAmounts THEN BOOLEAN ELSE {TRUE}) :
          gate' = [gate EXCEPT ![p] = [st |-> "paid", exact |-> exact]]
    /\ UNCHANGED <<slot, booking, payment, refund, job, faults>>

(* The payer cancels, or the gateway reverses a payment nobody verified *)
GatewayCloses(p) ==
    /\ gate[p].st \in {"open", "paid"}
    /\ gate' = [gate EXCEPT ![p].st = "closed"]
    /\ UNCHANGED <<slot, booking, payment, refund, job, faults>>

(* Faults *)

Fault == faults < MaxFault /\ faults' = faults + 1

(* The process dies: the open transaction is rolled back, the job is gone *)
Crash(w) ==
    /\ Crashes
    /\ Fault
    /\ job[w].pc # "idle"
    /\ Return(w)
    /\ UNCHANGED <<slot, booking, payment, gate, refund>>

(* The gateway captures the money and the answer is lost: the error is not *)
(* a ZibalVerificationError, so it ends the request                        *)
LoseVerifyReply(w) ==
    LET p == job[w].p IN
    /\ Fault
    /\ job[w].pc = "verify"
    /\ gate' = IF gate[p].st = "paid"
               THEN [gate EXCEPT ![p].st = "captured"] ELSE gate
    /\ Return(w)
    /\ UNCHANGED <<slot, booking, payment, refund>>

LoseInquiry(w) ==
    /\ Fault
    /\ \/ job[w].pc = "refused" /\ Goto(w, "classify")
       \/ job[w].pc = "classify" /\ Resolved(w, "undecided")
       \/ job[w].pc = "ensure" /\ Return(w)
    /\ UNCHANGED <<slot, booking, payment, gate, refund>>

-----------------------------------------------------------------------------
(* What a request or the reconciler does once its gateway answers *)
JobStep(w) ==
    \/ RecordTrack(w) \/ RecordRefusal(w)
    \/ Verify(w) \/ SettlePaid(w) \/ SettleFlagged(w) \/ SettleNothing(w)
    \/ RecordFailedAttempt(w) \/ Classify(w) \/ ExpireCheckout(w)
    \/ EnsureUnpaid(w) \/ CancelRelocked(w)
    \/ CreateRefused(w) \/ \E s \in Slot : CreateAfterResolve(w, s)

BookingRequest(b) ==
    \/ PayTooLate(b) \/ CancelUnpaid(b) \/ CancelConfirmed(b)
    \/ \E release_slot \in BOOLEAN : ManagerCancel(b, release_slot)

Next ==
    \/ \E u \in User, s \in Slot : CreateBooking(u, s)
    \/ \E w \in Request, u \in User : CreateResolvesOld(w, u)
    \/ \E b \in Booking : BookingRequest(b) \/ Lapse(b)
    \/ \E w \in Request, b \in Booking : StartPayment(w, b) \/ CancelStarts(w, b)
    \/ \E w \in Request, p \in Payment : StartResolve(w, p)
    \/ \E w \in Worker : JobStep(w)
    \/ \E p \in Payment : Reconcile(p) \/ PayerPays(p) \/ GatewayCloses(p)
    \/ Sweep \/ CleanNonPayable
    \/ \E w \in Worker : Crash(w) \/ LoseVerifyReply(w) \/ LoseInquiry(w)

Spec == Init /\ [][Next]_vars

(* Time passes, the gateway answers or times out, and the two jobs of      *)
(* main.py run every minute; the reconciler visits every stale payment.    *)
Fairness ==
    /\ \A b \in Booking : WF_vars(Lapse(b))
    /\ \A w \in Worker : WF_vars(JobStep(w))
    /\ \A p \in Payment : SF_vars(Reconcile(p))
    /\ WF_vars(Sweep)

FairSpec == Spec /\ Fairness

-----------------------------------------------------------------------------
(* Safety *)

(* A slot and the bookings on it always agree: a reserving slot has exactly *)
(* one active booking and it waits for its payment, a reserved slot has     *)
(* exactly one and it is confirmed, any other slot has none.  Every path    *)
(* that ends a booking (six of them) writes both rows, most without a lock  *)
(* on the slot.                                                             *)
SlotMatchesBookings ==
    \A s \in Slot :
        /\ slot[s] = "reserving" =>
              \E b \in Booking : ActiveOn(s) = {b} /\ booking[b].st = "pending_payment"
        /\ slot[s] = "reserved" =>
              \E b \in Booking : ActiveOn(s) = {b} /\ booking[b].st = "confirmed"
        /\ slot[s] \in {"open", "blocked"} => ActiveOn(s) = {}

(* _ensure_single_live_checkout leaves a user at most one unpaid booking,  *)
(* also when it resolved an older one at the gateway in between: the index *)
(* uq_bookings_one_pending_payment_per_user never has to refuse a row.     *)
OneCheckoutPerUser ==
    \A u \in User : \A b, c \in CheckoutOf(u) : b = c

(* The inductive invariant behind SlotMatchesBookings and                  *)
(* OneCheckoutPerUser: rows refer to rows that exist, a job holds the row  *)
(* of its payment, no two active bookings share a slot, and the slot       *)
(* repeats the status of its active booking.                               *)
RowsAreLinked ==
    /\ \A b \in Booking : booking[b].st # "none" =>
          booking[b].user \in User /\ booking[b].slot \in Slot
    /\ \A p \in Payment : payment[p].st # "none" =>
          /\ payment[p].booking \in Booking
          /\ booking[payment[p].booking].st # "none"

JobsHoldPayments ==
    \A w \in Worker : job[w].pc # "idle" =>
        job[w].p \in Payment /\ payment[job[w].p].st # "none"

ActiveBookingsDiffer ==
    \A b, c \in Booking :
        /\ booking[b].st \in ActiveStatus
        /\ booking[c].st \in ActiveStatus
        /\ booking[b].slot = booking[c].slot
        => b = c

SlotRepeatsBooking ==
    /\ \A b \in Booking :
          /\ booking[b].st = "pending_payment" => slot[booking[b].slot] = "reserving"
          /\ booking[b].st = "confirmed" => slot[booking[b].slot] = "reserved"
    /\ \A s \in Slot : slot[s] \in {"reserving", "reserved"} => ActiveOn(s) # {}

IndInv ==
    /\ TypeOK
    /\ RowsAreLinked
    /\ JobsHoldPayments
    /\ ActiveBookingsDiffer
    /\ SlotRepeatsBooking
    /\ OneCheckoutPerUser

(* A confirmed booking is backed by exactly one successful payment, whose  *)
(* money the gateway captured in the right amount.                         *)
ConfirmedIsPaid ==
    \A b \in Booking : booking[b].st = "confirmed" =>
        \E p \in Payment :
            /\ SuccessPayments(b) = {p}
            /\ payment[p].flag = "none"
            /\ gate[p] = [st |-> "captured", exact |-> TRUE]

(* A payment that was closed as failed or expired never belongs to a       *)
(* booking that can still be paid: step 9 of verify_zibal_payment does not *)
(* look at the status of the payment it turns into a success.              *)
ClosedIsUnpayable ==
    \A p \in Payment :
        payment[p].track /\ payment[p].st \in {"failed", "expired"}
            => booking[payment[p].booking].st # "pending_payment"

(* Money on record is never unexplained: a successful payment has its      *)
(* booking, a refund, or a failure code that support looks for.            *)
MoneyIsExplained ==
    \A p \in Payment : payment[p].st = "success" =>
        \/ payment[p].flag # "none"
        \/ booking[payment[p].booking].st = "confirmed"
        \/ refund[payment[p].booking] # {}

(* A refund is owed once and for money received: the user's cancellation   *)
(* and the manager's never both refund a booking.                          *)
RefundIsOwed ==
    \A b \in Booking : refund[b] # {} =>
        /\ booking[b].st = "cancelled"
        /\ Cardinality(refund[b]) = 1
        /\ \E p \in SuccessPayments(b) : gate[p] = [st |-> "captured", exact |-> TRUE]

(* Captured money is recorded, about to be recorded by a request that      *)
(* holds the answer, or on the list of the reconciliation job.             *)
CapturedIsWatched ==
    \A p \in Payment : gate[p].st = "captured" =>
        \/ payment[p].st = "success"
        \/ \E w \in Worker : job[w].p = p /\ job[w].pc = "settle"
        \/ /\ payment[p].st = "pending"
           /\ payment[p].track
           /\ booking[payment[p].booking].st = "pending_payment"

(* Money and refunds account for each other: captured money is recorded or *)
(* watched, money that is recorded late cannot sell the slot again, none is *)
(* left unexplained, and none is paid back twice or without having come in. *)
(* The first part, captured money that is recorded or watched, is said of  *)
(* runs in which no answer is lost, nobody crashes and amounts are exact.  *)
MoneyIsAccounted ==
    CapturedIsWatched /\ ClosedIsUnpayable /\ MoneyIsExplained /\ RefundIsOwed

(* Action properties *)

(* A booking that ended stays ended, and a payment on record is never      *)
(* taken back, whichever late answer arrives.                              *)
EndedStaysEnded ==
    [][/\ \A b \in Booking :
            booking[b].st \in {"cancelled", "expired"} => booking'[b].st = booking[b].st
       /\ \A p \in Payment :
            payment[p].st = "success" => payment'[p].st = "success"]_vars

(* A payment that was closed can only become a success as a case for       *)
(* support, never as one that confirms a booking.                          *)
LateSuccessIsFlagged ==
    [][\A p \in Payment :
        payment[p].st \in {"failed", "expired"} /\ payment'[p].st = "success"
            => payment'[p].flag # "none"]_vars

(* A sold slot is given up only together with a refund of its payment. *)
SoldSlotIsRefunded ==
    [][\A s \in Slot : slot[s] = "reserved" /\ slot'[s] # "reserved" =>
        \E b \in Booking : booking[b].slot = s /\ refund'[b] # refund[b]]_vars

(* Liveness *)

(* An unpaid booking does not keep its slot for ever: the sweeper or the   *)
(* reconciliation job ends it, or it is paid.                              *)
UnpaidIsReleased ==
    \A b \in Booking :
        booking[b].st = "pending_payment" ~> booking[b].st # "pending_payment"

(* Captured money is eventually on record. *)
CapturedIsRecorded ==
    \A p \in Payment : gate[p].st = "captured" ~> payment[p].st = "success"

-----------------------------------------------------------------------------
(* What is promised about slots (SlotSale), read off the rows *)
SaleOf(s) ==
    [phase |-> CASE slot[s] = "open"      -> "offered"
                 [] slot[s] = "blocked"   -> "withdrawn"
                 [] slot[s] = "reserving" -> "held"
                 [] slot[s] = "reserved"  -> "sold",
     holder |-> IF ActiveOn(s) = {} THEN None
                ELSE booking[CHOOSE b \in ActiveOn(s) : TRUE].user]

Sale == INSTANCE SlotSale WITH sale <- [s \in Slot |-> SaleOf(s)]

(* The checkout implements SlotSale: whichever requests, jobs and gateway  *)
(* answers interleave, a hold is never handed to another user and a slot   *)
(* is sold only to its holder.                                             *)
ImplementsSlotSale == Sale!Spec

=============================================================================
