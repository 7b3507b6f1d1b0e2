--------------------------- MODULE Checkout_money ----------------------------
(***************************************************************************)
(* Money in Checkout.  First, what a step of Next may do to a job, to the  *)
(* gateway's side of a payment, to a payment and to a booking; then the    *)
(* invariants that follow: ConfirmedIsPaid, what recorded money and closed *)
(* payments are, and the steps that end a booking or give a slot back.     *)
(***************************************************************************)
EXTENDS Checkout_proofs, FiniteSetTheorems

-----------------------------------------------------------------------------
(* Money: what a step may do to a row, as far as money is concerned *)

(* A job stays, returns, goes on (to settle only with captured money), or  *)
(* begins: with a checkout whose track is known, or with a fresh payment.  *)
JobGoes(w) ==
    /\ job[w].pc \notin {"idle", "request"}
    /\ job'[w].pc \notin {"idle", "request"}
    /\ job'[w].p = job[w].p
    /\ job'[w].pc = "settle" => gate'[job[w].p].st = "captured"

JobTakes(w) ==
    /\ job'[w].pc = "verify"
    /\ job'[w].p \in Payment
    /\ payment[job'[w].p].track

JobAsks(w) ==
    /\ job'[w].pc = "request"
    /\ job'[w].p \in Payment
    /\ payment[job'[w].p].st = "none"
    /\ \A v \in Worker \ {w} : job'[v] = job[v]

JobMove(w) ==
    \/ job'[w] = job[w]
    \/ job'[w].pc = "idle"
    \/ JobGoes(w)
    \/ JobTakes(w)
    \/ JobAsks(w)

(* The gateway answers a request, the payer and the gateway act, or a      *)
(* verification captures what was paid.                                    *)
RequestEnds(p) ==
    \E w \in Worker : job[w].pc = "request" /\ job[w].p = p /\ job'[w].pc = "idle"

GateOpens(p) ==
    RequestEnds(p) /\ gate'[p].st = "open" /\ gate'[p].exact = gate[p].exact

GatePaid(p) ==
    gate[p].st = "open" /\ gate'[p].st = "paid" /\ (gate'[p].exact \/ WrongAmounts)

GateCloses(p) ==
    gate[p].st \in {"open", "paid"} /\ gate'[p].st = "closed" /\ gate'[p].exact = gate[p].exact

GateCaptures(p) ==
    \E w \in Worker :
        /\ job[w].pc = "verify"
        /\ job[w].p = p
        /\ gate'[p].st = "captured"
        /\ gate'[p].exact = gate[p].exact
        /\ (job'[w].pc = "settle" /\ job'[w].p = p) \/ faults' = faults + 1

GateMove(p) ==
    \/ gate'[p] = gate[p]
    \/ GateOpens(p)
    \/ GatePaid(p)
    \/ GateCloses(p)
    \/ gate[p].st = "paid" /\ GateCaptures(p)

(* A payment is the only one that starts or succeeds in a step. *)
Alone(p) == \A q \in Payment \ {p} : payment'[q] = payment[q]

KeepsRow(p) ==
    payment'[p].booking = payment[p].booking /\ payment'[p].flag = payment[p].flag

RowStarts(p) ==
    /\ Alone(p)
    /\ NextRow(payment, p)
    /\ payment'[p].st = "pending"
    /\ payment'[p].token = TRUE
    /\ payment'[p].track = FALSE
    /\ payment'[p].booking \in Booking
    /\ booking[payment'[p].booking].st = "pending_payment"
    /\ ~LatestPending(payment'[p].booking)
    /\ booking' = booking

RowTracked(p) ==
    /\ payment[p].token
    /\ RequestEnds(p)
    /\ KeepsRow(p)
    /\ payment'[p].st = payment[p].st
    /\ payment'[p].track = TRUE
    /\ payment'[p].token = FALSE

RowCloses(p) ==
    /\ payment[p].st = "pending" \/ payment[p].token
    /\ payment'[p].st \in {"failed", "expired"}
    /\ KeepsRow(p)
    /\ payment'[p].track = payment[p].track
    /\ payment'[p].token = FALSE
    /\ payment[p].token \/ booking'[payment[p].booking].st # "pending_payment"

SellsFor(p) ==
    /\ payment'[p].flag = "none"
    /\ gate[p].exact
    /\ booking[payment[p].booking].st = "pending_payment"
    /\ booking'[payment[p].booking].st = "confirmed"

FlagsLate(p) ==
    /\ payment'[p].flag # "none"
    /\ gate[p].exact => booking[payment[p].booking].st # "pending_payment"
    /\ booking' = booking

RowSucceeds(p) ==
    /\ Alone(p)
    /\ \E w \in Worker : job[w].pc = "settle" /\ job[w].p = p
    /\ UniqueSuccess(p)
    /\ ~AlreadyPaid(p)
    /\ payment'[p].st = "success"
    /\ payment'[p].booking = payment[p].booking
    /\ payment'[p].track = payment[p].track
    /\ payment'[p].token = FALSE
    /\ SellsFor(p) \/ FlagsLate(p)

RowMove(p) ==
    \/ payment'[p] = payment[p]
    \/ RowStarts(p)
    \/ RowTracked(p)
    \/ RowCloses(p)
    \/ RowSucceeds(p)

(* A booking keeps its status, is inserted, sold to a payment, ends        *)
(* unpaid, or is given back for a refund.                                  *)
Opened(b) == booking[b].st = "none" /\ booking'[b].st = "pending_payment"

SoldTo(b) ==
    /\ booking[b].st = "pending_payment"
    /\ booking'[b].st = "confirmed"
    /\ \E p \in Payment : /\ payment[p].booking = b
                          /\ RowSucceeds(p)
                          /\ SellsFor(p)

EndsUnpaid(b) ==
    booking[b].st = "pending_payment" /\ booking'[b].st \in {"cancelled", "expired"}

GivenBack(b) ==
    /\ booking[b].st = "confirmed"
    /\ booking'[b].st = "cancelled"
    /\ UNCHANGED <<payment, gate>>
    /\ SuccessPayments(b) # {} => \E x \in RefundType : refund'[b] = refund[b] \cup {x}

BookingMove(b) ==
    \/ /\ refund'[b] = refund[b]
       /\ booking'[b].st = booking[b].st \/ Opened(b) \/ SoldTo(b) \/ EndsUnpaid(b)
    \/ GivenBack(b)

JobMoves     == \A w \in Worker : JobMove(w)
GateMoves    == \A p \in Payment : GateMove(p)
RowMoves     == \A p \in Payment : RowMove(p)
BookingMoves == \A b \in Booking : BookingMove(b)

Moves == JobMoves /\ GateMoves /\ RowMoves /\ BookingMoves

-----------------------------------------------------------------------------
(* What the parts of the transactions do *)

LEMMA NoJobMoves == ASSUME UNCHANGED job PROVE JobMoves
BY DEF JobMoves, JobMove

LEMMA NoGateMoves == ASSUME UNCHANGED gate PROVE GateMoves
BY DEF GateMoves, GateMove

LEMMA NoRowMoves == ASSUME UNCHANGED payment PROVE RowMoves
BY DEF RowMoves, RowMove

LEMMA NoBookingMoves == ASSUME UNCHANGED <<booking, refund>> PROVE BookingMoves
BY DEF BookingMoves, BookingMove

LEMMA Returns == ASSUME IndInv, NEW w \in Worker, Return(w) PROVE JobMoves /\ job'[w].pc = "idle"
<1>1. job \in [Worker -> JobType]
  BY DEF IndInv, TypeOK, JobType
<1>2. job'[w].pc = "idle" /\ \A v \in Worker \ {w} : job'[v] = job[v]
  BY <1>1 DEF Return, Idle
<1> QED BY <1>2 DEF JobMoves, JobMove

LEMMA GoesOn ==
    ASSUME IndInv, NEW w \in Worker, job[w].pc \notin {"idle", "request"},
           NEW pc \in Pc \ {"idle", "request", "settle"}, Goto(w, pc)
    PROVE  JobMoves
<1>1. job \in [Worker -> JobType]
  BY DEF IndInv, TypeOK, JobType
<1>2. /\ job'[w].pc = pc /\ job'[w].p = job[w].p
      /\ \A v \in Worker \ {w} : job'[v] = job[v]
  BY <1>1 DEF Goto, JobType
<1>3. JobGoes(w)
  BY <1>2 DEF JobGoes
<1> QED BY <1>2, <1>3 DEF JobMoves, JobMove

LEMMA Resolves ==
    ASSUME IndInv, NEW w \in Worker, job[w].pc \notin {"idle", "request"},
           NEW outcome, Resolved(w, outcome)
    PROVE  JobMoves
<1>1. Goto(w, "ensure") \/ Goto(w, "create") \/ Return(w)
  BY DEF Resolved
<1>2. {"ensure", "create"} \subseteq Pc \ {"idle", "request", "settle"}
  BY DEF Pc
<1> QED BY <1>1, <1>2, GoesOn, Returns

LEMMA Takes ==
    ASSUME IndInv, NEW w \in Worker, NEW op, NEW p \in Payment, payment[p].track,
           Begin(w, op, "verify", p)
    PROVE  JobMoves
<1>1. job \in [Worker -> JobType]
  BY DEF IndInv, TypeOK, JobType
<1>2. /\ job'[w].pc = "verify" /\ job'[w].p = p
      /\ \A v \in Worker \ {w} : job'[v] = job[v]
  BY <1>1 DEF Begin
<1>3. JobTakes(w)
  BY <1>2 DEF JobTakes
<1> QED BY <1>2, <1>3 DEF JobMoves, JobMove

LEMMA EndsMoves ==
    ASSUME IndInv, NEW b \in Booking, booking[b].st = "pending_payment",
           NEW st \in {"cancelled", "expired"}, booking' = WithStatus(b, st),
           UNCHANGED refund
    PROVE  BookingMoves /\ booking'[b].st = st
<1>1. booking \in [Booking -> BookingType]
  BY DEF IndInv, TypeOK, BookingType
<1>2. booking'[b].st = st /\ \A c \in Booking \ {b} : booking'[c] = booking[c]
  BY <1>1 DEF WithStatus, BookingType
<1>3. EndsUnpaid(b)
  BY <1>2 DEF EndsUnpaid
<1> QED BY <1>2, <1>3 DEF BookingMoves, BookingMove

LEMMA EndedRow ==
    ASSUME IndInv, NEW p \in Payment, NEW st \in {"failed", "expired"}, payment' = Ended(p, st),
           payment[p].st = "pending" \/ payment[p].token,
           payment[p].token \/ booking'[payment[p].booking].st # "pending_payment"
    PROVE  RowMoves
<1>1. payment \in [Payment -> PaymentType]
  BY RestTyped
<1>2. /\ payment'[p].st = st /\ payment'[p].token = FALSE /\ payment'[p].track = payment[p].track
      /\ payment'[p].booking = payment[p].booking /\ payment'[p].flag = payment[p].flag
      /\ \A q \in Payment \ {p} : payment'[q] = payment[q]
  BY <1>1 DEF Ended, PaymentType
<1>3. RowCloses(p)
  BY <1>2 DEF RowCloses, KeepsRow
<1> QED BY <1>2, <1>3 DEF RowMoves, RowMove

LEMMA FailAttemptMoney ==
    ASSUME IndInv, NEW p \in Payment, payment[p].booking \in Booking, FailAttempt(p),
           UNCHANGED refund
    PROVE  RowMoves /\ BookingMoves
<1> DEFINE b == payment[p].booking
<1>1. BookingMoves /\ booking'[b].st # "pending_payment"
  <2>1. CASE booking[b].st = "pending_payment"
    <3>1. booking' = WithStatus(b, "cancelled") /\ "cancelled" \in {"cancelled", "expired"}
      BY <2>1 DEF FailAttempt
    <3> QED BY <2>1, <3>1, EndsMoves
  <2>2. CASE booking[b].st # "pending_payment"
    BY <2>2, NoBookingMoves DEF FailAttempt
  <2> QED BY <2>1, <2>2
<1>2. RowMoves
  BY <1>1, EndedRow, NoRowMoves DEF FailAttempt
<1> QED BY <1>1, <1>2

LEMMA GiveUpMoney ==
    ASSUME IndInv, NEW b \in Booking, booking[b].st = "pending_payment", GiveUp(b),
           UNCHANGED refund
    PROVE  RowMoves /\ BookingMoves
<1>1. BookingMoves /\ booking'[b].st # "pending_payment"
  BY EndsMoves DEF GiveUp
<1>2. payment \in [Payment -> PaymentType]
  BY RestTyped
<1>3. ASSUME NEW p \in Payment PROVE RowMove(p)
  <2>1. CASE p \in Latest(b) /\ payment[p].st = "pending"
    <3>1. /\ payment'[p].st = "failed" /\ payment'[p].token = FALSE
          /\ payment'[p].track = payment[p].track
          /\ payment'[p].booking = payment[p].booking /\ payment'[p].flag = payment[p].flag
      BY <1>2, <2>1 DEF GiveUp, PaymentType
    <3>2. payment[p].booking = b
      BY <2>1 DEF Latest, PaymentsOf
    <3>3. RowCloses(p)
      BY <1>1, <2>1, <3>1, <3>2 DEF RowCloses, KeepsRow
    <3> QED BY <3>3 DEF RowMove
  <2>2. CASE ~(p \in Latest(b) /\ payment[p].st = "pending")
    BY <2>2 DEF GiveUp, RowMove
  <2> QED BY <2>1, <2>2
<1> QED BY <1>1, <1>3 DEF RowMoves

-----------------------------------------------------------------------------
(* What the actions do *)

LEMMA RecordTrackMoney == ASSUME IndInv, NEW w \in Worker, RecordTrack(w) PROVE Moves
<1>1. PICK p \in Payment : p = job[w].p /\ payment[p].st # "none"
  BY JobPayment DEF RecordTrack
<1>2. JobMoves /\ job'[w].pc = "idle"
  BY Returns DEF RecordTrack
<1>3. RequestEnds(p)
  BY <1>1, <1>2 DEF RecordTrack, RequestEnds
<1>4. BookingMoves
  BY NoBookingMoves DEF RecordTrack
<1>5. GateMoves
  <2>1. gate \in [Payment -> GateType] /\ gate' = [gate EXCEPT ![p].st = "open"]
    BY <1>1 DEF IndInv, TypeOK, GateType, RecordTrack
  <2>2. /\ gate'[p].st = "open" /\ gate'[p].exact = gate[p].exact
        /\ \A q \in Payment \ {p} : gate'[q] = gate[q]
    BY <2>1 DEF GateType
  <2>3. GateOpens(p)
    BY <1>3, <2>2 DEF GateOpens
  <2> QED BY <2>2, <2>3 DEF GateMoves, GateMove
<1>6. RowMoves
  <2>1. CASE payment[p].token
    <3>1. /\ payment' = [payment EXCEPT ![p] = [@ EXCEPT !.track = TRUE, !.token = FALSE]]
          /\ payment \in [Payment -> PaymentType]
      BY <1>1, <2>1, RestTyped DEF RecordTrack
    <3>2. /\ payment'[p].st = payment[p].st /\ payment'[p].track = TRUE
          /\ payment'[p].token = FALSE
          /\ payment'[p].booking = payment[p].booking /\ payment'[p].flag = payment[p].flag
          /\ \A q \in Payment \ {p} : payment'[q] = payment[q]
      BY <3>1 DEF PaymentType
    <3>3. RowTracked(p)
      BY <1>3, <2>1, <3>2 DEF RowTracked, KeepsRow
    <3> QED BY <3>2, <3>3 DEF RowMoves, RowMove
  <2>2. CASE ~payment[p].token
    BY <1>1, <2>2, NoRowMoves DEF RecordTrack
  <2> QED BY <2>1, <2>2
<1> QED BY <1>2, <1>4, <1>5, <1>6 DEF Moves

LEMMA RecordRefusalMoney == ASSUME IndInv, NEW w \in Worker, RecordRefusal(w) PROVE Moves
<1>1. PICK p \in Payment : p = job[w].p
  BY JobPayment DEF RecordRefusal
<1>2. JobMoves
  BY Returns DEF RecordRefusal
<1>3. GateMoves /\ BookingMoves
  BY NoGateMoves, NoBookingMoves DEF RecordRefusal
<1>4. RowMoves
  BY <1>1, EndedRow, NoRowMoves DEF RecordRefusal
<1> QED BY <1>2, <1>3, <1>4 DEF Moves

LEMMA VerifyMoney == ASSUME IndInv, NEW w \in Worker, Verify(w) PROVE Moves
<1>1. PICK p \in Payment : p = job[w].p
  BY JobPayment DEF Verify
<1>2. RowMoves /\ BookingMoves
  BY NoRowMoves, NoBookingMoves DEF Verify
<1>3. CASE gate[p].st \in {"paid", "captured"}
  <2>1. /\ job \in [Worker -> JobType] /\ job' = [job EXCEPT ![w].pc = "settle"]
        /\ gate \in [Payment -> GateType] /\ gate' = [gate EXCEPT ![p].st = "captured"]
    BY <1>1, <1>3 DEF IndInv, TypeOK, GateType, JobType, Verify, Goto
  <2>2. /\ job'[w].pc = "settle" /\ job'[w].p = p
        /\ \A v \in Worker \ {w} : job'[v] = job[v]
    BY <1>1, <2>1 DEF JobType
  <2>3. /\ gate'[p].st = "captured" /\ gate'[p].exact = gate[p].exact
        /\ \A q \in Payment \ {p} : gate'[q] = gate[q]
    BY <2>1 DEF GateType
  <2>4. JobGoes(w)
    BY <1>1, <2>2, <2>3 DEF JobGoes, Verify
  <2>5. JobMoves
    BY <2>2, <2>4 DEF JobMoves, JobMove
  <2>6. GateCaptures(p)
    BY <1>1, <2>2, <2>3 DEF GateCaptures, Verify
  <2>7. gate[p].st = "captured" => gate' = gate
    <3> SUFFICES ASSUME gate[p].st = "captured" PROVE gate' = gate
      OBVIOUS
    <3>1. gate[p] = [gate[p] EXCEPT !.st = "captured"]
      BY <2>1 DEF GateType
    <3> QED BY <2>1, <3>1
  <2>8. GateMoves
    BY <1>3, <2>3, <2>6, <2>7 DEF GateMoves, GateMove
  <2> QED BY <1>2, <2>5, <2>8 DEF Moves
<1>4. CASE gate[p].st \notin {"paid", "captured"}
  <2>1. Goto(w, "refused") /\ "refused" \in Pc \ {"idle", "request", "settle"}
    BY <1>1, <1>4 DEF Verify, Pc
  <2>2. JobMoves
    BY <2>1, GoesOn DEF Verify
  <2>3. GateMoves
    BY <1>1, <1>4, NoGateMoves DEF Verify
  <2> QED BY <1>2, <2>2, <2>3 DEF Moves
<1> QED BY <1>3, <1>4

LEMMA SucceededRow ==
    ASSUME IndInv, NEW p \in Payment, NEW flag, payment' = Succeeded(p, flag)
    PROVE  /\ payment'[p].st = "success" /\ payment'[p].token = FALSE
           /\ payment'[p].track = payment[p].track /\ payment'[p].booking = payment[p].booking
           /\ payment'[p].flag = flag
           /\ Alone(p)
<1>1. payment \in [Payment -> PaymentType]
  BY RestTyped
<1> QED BY <1>1 DEF Succeeded, PaymentType, Alone

LEMMA SettlePaidMoney == ASSUME IndInv, NEW w \in Worker, SettlePaid(w) PROVE Moves
<1>1. PICK p \in Payment : p = job[w].p /\ payment[p].booking \in Booking
  BY JobPayment DEF SettlePaid
<1>2. PICK b \in Booking : b = payment[p].booking
  BY <1>1
<1>3. JobMoves
  BY Resolves DEF SettlePaid
<1>4. GateMoves
  BY NoGateMoves DEF SettlePaid
<1>5. /\ payment'[p].st = "success" /\ payment'[p].token = FALSE
      /\ payment'[p].track = payment[p].track /\ payment'[p].booking = payment[p].booking
      /\ payment'[p].flag = "none"
      /\ Alone(p)
  <2>1. payment' = Succeeded(p, "none")
    BY <1>1 DEF SettlePaid
  <2> QED BY <2>1, SucceededRow
<1>6. /\ booking \in [Booking -> BookingType]
      /\ booking[b].st = "pending_payment"
      /\ booking' = WithStatus(b, "confirmed")
      /\ refund' = refund
  BY <1>1, <1>2 DEF IndInv, TypeOK, BookingType, SettlePaid
<1>7. booking'[b].st = "confirmed" /\ \A c \in Booking \ {b} : booking'[c] = booking[c]
  BY <1>6 DEF WithStatus, BookingType
<1>8. SellsFor(p)
  BY <1>1, <1>2, <1>5, <1>6, <1>7 DEF SellsFor, SettlePaid
<1>9. RowSucceeds(p)
  BY <1>1, <1>5, <1>8 DEF RowSucceeds, SettlePaid
<1>10. RowMoves
  BY <1>5, <1>9 DEF RowMoves, RowMove, Alone
<1>11. SoldTo(b)
  BY <1>2, <1>6, <1>7, <1>8, <1>9 DEF SoldTo
<1>12. BookingMoves
  BY <1>6, <1>7, <1>11 DEF BookingMoves, BookingMove
<1> QED BY <1>3, <1>4, <1>10, <1>12 DEF Moves

LEMMA SettleFlaggedMoney == ASSUME IndInv, NEW w \in Worker, SettleFlagged(w) PROVE Moves
<1>1. PICK p \in Payment : p = job[w].p
  BY JobPayment DEF SettleFlagged
<1>2. JobMoves
  BY Returns DEF SettleFlagged
<1>3. GateMoves /\ BookingMoves
  BY NoGateMoves, NoBookingMoves DEF SettleFlagged
<1>4. PICK flag \in Flag \ {"none"} :
        /\ payment' = Succeeded(p, flag)
        /\ gate[p].exact => booking[payment[p].booking].st # "pending_payment"
  BY <1>1 DEF SettleFlagged, Flag
<1>5. /\ payment'[p].st = "success" /\ payment'[p].token = FALSE
      /\ payment'[p].track = payment[p].track /\ payment'[p].booking = payment[p].booking
      /\ payment'[p].flag = flag
      /\ Alone(p)
  BY <1>4, SucceededRow
<1>6. FlagsLate(p)
  BY <1>4, <1>5 DEF FlagsLate, SettleFlagged
<1>7. RowSucceeds(p)
  BY <1>1, <1>5, <1>6 DEF RowSucceeds, SettleFlagged
<1>8. RowMoves
  BY <1>5, <1>7 DEF RowMoves, RowMove, Alone
<1> QED BY <1>2, <1>3, <1>8 DEF Moves

LEMMA AskingMoney ==
    ASSUME IndInv, NEW w \in Worker,
           SettleNothing(w) \/ EnsureUnpaid(w) \/ CreateRefused(w)
    PROVE  Moves
<1>1. job[w].pc \notin {"idle", "request"}
  BY DEF SettleNothing, EnsureUnpaid, CreateRefused
<1>2. (\E outcome : Resolved(w, outcome)) \/ Return(w) \/ Goto(w, "cancel")
  BY DEF SettleNothing, EnsureUnpaid, CreateRefused
<1>3. "cancel" \in Pc \ {"idle", "request", "settle"}
  BY DEF Pc
<1>4. JobMoves
  BY <1>1, <1>2, <1>3, GoesOn, Returns, Resolves
<1>5. UNCHANGED <<payment, gate, booking, refund>>
  BY DEF SettleNothing, EnsureUnpaid, CreateRefused
<1> QED BY <1>4, <1>5, NoRowMoves, NoGateMoves, NoBookingMoves DEF Moves

LEMMA RefusedMoney ==
    ASSUME IndInv, NEW w \in Worker, RecordFailedAttempt(w) \/ Classify(w) PROVE Moves
<1>1. job[w].pc \notin {"idle", "request"} /\ UNCHANGED <<gate, refund>>
  BY DEF RecordFailedAttempt, Classify
<1>2. job[w].p \in Payment /\ payment[job[w].p].booking \in Booking
  BY <1>1, JobPayment
<1>3. (\E outcome : Resolved(w, outcome)) \/ Goto(w, "classify") \/ Goto(w, "expire")
  BY DEF RecordFailedAttempt, Classify
<1>4. {"classify", "expire"} \subseteq Pc \ {"idle", "request", "settle"}
  BY DEF Pc
<1>5. JobMoves
  BY <1>1, <1>3, <1>4, GoesOn, Resolves
<1>6. FailAttempt(job[w].p) \/ UNCHANGED <<payment, booking>>
  BY DEF RecordFailedAttempt, Classify
<1>7. RowMoves /\ BookingMoves
  BY <1>1, <1>2, <1>6, FailAttemptMoney, NoRowMoves, NoBookingMoves
<1> QED BY <1>1, <1>5, <1>7, NoGateMoves DEF Moves

LEMMA ExpireCheckoutMoney == ASSUME IndInv, NEW w \in Worker, ExpireCheckout(w) PROVE Moves
<1>1. PICK p \in Payment : p = job[w].p /\ payment[p].booking \in Booking
  BY JobPayment DEF ExpireCheckout
<1>2. JobMoves
  BY Resolves DEF ExpireCheckout
<1>3. UNCHANGED <<gate, refund>>
  BY DEF ExpireCheckout
<1>4. CASE Expirable(p)
  <2>1. /\ payment[p].st = "pending"
        /\ booking[payment[p].booking].st = "pending_payment"
        /\ payment' = Ended(p, "expired")
        /\ booking' = WithStatus(payment[p].booking, "expired")
    BY <1>1, <1>4 DEF ExpireCheckout, Expirable
  <2>2. BookingMoves /\ booking'[payment[p].booking].st # "pending_payment"
    BY <1>1, <1>3, <2>1, EndsMoves
  <2>3. RowMoves
    BY <2>1, <2>2, EndedRow
  <2> QED BY <1>2, <1>3, <2>2, <2>3, NoGateMoves DEF Moves
<1>5. CASE ~Expirable(p)
  BY <1>1, <1>2, <1>3, <1>5, NoRowMoves, NoBookingMoves, NoGateMoves DEF ExpireCheckout, Moves
<1> QED BY <1>4, <1>5

LEMMA CancelRelockedMoney == ASSUME IndInv, NEW w \in Worker, CancelRelocked(w) PROVE Moves
<1>1. PICK b \in Booking : b = payment[job[w].p].booking
  BY JobPayment DEF CancelRelocked
<1>2. JobMoves /\ UNCHANGED <<gate, refund>>
  BY Returns DEF CancelRelocked
<1>3. (booking[b].st = "pending_payment" /\ GiveUp(b)) \/ UNCHANGED <<payment, booking>>
  BY <1>1 DEF CancelRelocked
<1>4. RowMoves /\ BookingMoves
  BY <1>2, <1>3, GiveUpMoney, NoRowMoves, NoBookingMoves
<1> QED BY <1>2, <1>4, NoGateMoves DEF Moves

LEMMA InsertsMoney ==
    ASSUME IndInv, NEW u, NEW s, InsertBooking(u, s, CheckoutOf(u)), UNCHANGED refund
    PROVE  BookingMoves
<1> DEFINE old == CheckoutOf(u)
<1>1. PICK n \in Booking :
        /\ booking[n].st = "none"
        /\ booking' = [b \in Booking |->
                IF b = n THEN [st |-> "pending_payment", user |-> u,
                               slot |-> s, lapsed |-> FALSE]
                ELSE IF b \in old THEN [booking[b] EXCEPT !.st = "expired"]
                ELSE booking[b]]
  BY DEF InsertBooking, NextRow
<1>2. booking \in [Booking -> BookingType]
  BY DEF IndInv, TypeOK, BookingType
<1>3. Opened(n)
  BY <1>1 DEF Opened
<1>4. ASSUME NEW b \in Booking \ {n}, b \in old PROVE EndsUnpaid(b)
  BY <1>1, <1>2, <1>4 DEF EndsUnpaid, CheckoutOf, BookingType
<1>5. \A b \in Booking \ {n} : b \notin old => booking'[b] = booking[b]
  BY <1>1
<1> QED BY <1>3, <1>4, <1>5 DEF BookingMoves, BookingMove

LEMMA JobStepMoney == ASSUME IndInv, NEW w \in Worker, JobStep(w) PROVE Moves
<1>1. ASSUME NEW s \in Slot, CreateAfterResolve(w, s) PROVE Moves
  <2>1. BookingMoves
    BY <1>1, InsertsMoney DEF CreateAfterResolve
  <2> QED BY <1>1, <2>1, Returns, NoRowMoves, NoGateMoves DEF CreateAfterResolve, Moves
<1> QED BY <1>1, RecordTrackMoney, RecordRefusalMoney, VerifyMoney, SettlePaidMoney,
           SettleFlaggedMoney, AskingMoney, RefusedMoney, ExpireCheckoutMoney,
           CancelRelockedMoney DEF JobStep

LEMMA StartPaymentMoney ==
    ASSUME IndInv, NEW w \in Request, NEW b \in Booking, StartPayment(w, b)
    PROVE  Moves
<1>1. PICK p \in Payment :
        /\ NextRow(payment, p)
        /\ payment' = [payment EXCEPT ![p] =
              [st |-> "pending", booking |-> b, track |-> FALSE,
               token |-> TRUE, flag |-> "none"]]
        /\ Begin(w, "pay", "request", p)
  BY DEF StartPayment
<1>2. payment \in [Payment -> PaymentType] /\ job \in [Worker -> JobType] /\ w \in Worker
  BY RestTyped DEF IndInv, TypeOK, JobType, Worker
<1>3. /\ payment'[p].st = "pending" /\ payment'[p].booking = b
      /\ payment'[p].track = FALSE /\ payment'[p].token = TRUE
      /\ Alone(p)
  BY <1>1, <1>2 DEF Alone
<1>4. /\ job'[w].pc = "request" /\ job'[w].p = p
      /\ \A v \in Worker \ {w} : job'[v] = job[v]
  BY <1>1, <1>2 DEF Begin
<1>5. RowStarts(p)
  BY <1>1, <1>3 DEF RowStarts, StartPayment
<1>6. RowMoves
  BY <1>3, <1>5 DEF RowMoves, RowMove, Alone
<1>7. JobAsks(w)
  BY <1>1, <1>4 DEF JobAsks, NextRow
<1>8. JobMoves
  BY <1>4, <1>7 DEF JobMoves, JobMove
<1>9. GateMoves /\ BookingMoves
  BY NoGateMoves, NoBookingMoves DEF StartPayment
<1> QED BY <1>6, <1>8, <1>9 DEF Moves

LEMMA BeginningMoney ==
    ASSUME IndInv, NEW w \in Worker, NEW p \in Payment, payment[p].track,
           NEW op, Begin(w, op, "verify", p), UNCHANGED <<booking, payment, gate, refund>>
    PROVE  Moves
BY Takes, NoRowMoves, NoGateMoves, NoBookingMoves DEF Moves

LEMMA BookingRequestMoney ==
    ASSUME IndInv, NEW b \in Booking, BookingRequest(b) PROVE Moves
<1>1. UNCHANGED <<gate, job>>
  BY DEF BookingRequest, PayTooLate, CancelUnpaid, CancelConfirmed, ManagerCancel
<1>2. JobMoves /\ GateMoves
  BY <1>1, NoJobMoves, NoGateMoves
<1>3. CASE PayTooLate(b)
  <2>1. BookingMoves
    BY <1>3, EndsMoves DEF PayTooLate
  <2> QED BY <1>2, <1>3, <2>1, NoRowMoves DEF PayTooLate, Moves
<1>4. CASE CancelUnpaid(b)
  BY <1>2, <1>4, GiveUpMoney DEF CancelUnpaid, Moves
<1>5. CASE CancelConfirmed(b) \/ \E release_slot \in BOOLEAN : ManagerCancel(b, release_slot)
  <2>1. UNCHANGED payment /\ booking' = WithStatus(b, "cancelled") /\ booking[b].st \in ActiveStatus
    BY <1>5 DEF CancelConfirmed, ManagerCancel, ActiveStatus
  <2>2. CASE booking[b].st = "pending_payment"
    <3>1. UNCHANGED refund
      BY <1>5, <2>2 DEF CancelConfirmed, ManagerCancel
    <3>2. BookingMoves
      BY <2>1, <2>2, <3>1, EndsMoves
    <3> QED BY <1>2, <2>1, <3>2, NoRowMoves DEF Moves
  <2>3. CASE booking[b].st # "pending_payment"
    <3>1. booking[b].st = "confirmed"
      BY <2>1, <2>3 DEF ActiveStatus
    <3>2. /\ booking \in [Booking -> BookingType]
          /\ refund \in [Booking -> SUBSET RefundType]
      BY RestTyped DEF IndInv, TypeOK, BookingType
    <3>3. /\ booking'[b].st = "cancelled"
          /\ \A c \in Booking \ {b} : booking'[c] = booking[c]
      BY <2>1, <3>2 DEF WithStatus, BookingType
    <3>4. \/ \E x \in RefundType : refund' = [refund EXCEPT ![b] = @ \cup {x}]
          \/ SuccessPayments(b) = {} /\ refund' = refund
      BY <1>5, <3>1 DEF CancelConfirmed, ManagerCancel, RefundType
    <3>5. /\ SuccessPayments(b) # {} => \E x \in RefundType : refund'[b] = refund[b] \cup {x}
          /\ \A c \in Booking \ {b} : refund'[c] = refund[c]
      BY <3>2, <3>4
    <3>6. GivenBack(b)
      BY <1>1, <2>1, <3>1, <3>3, <3>5 DEF GivenBack
    <3>7. BookingMoves
      BY <3>3, <3>5, <3>6 DEF BookingMoves, BookingMove
    <3> QED BY <1>2, <2>1, <3>7, NoRowMoves DEF Moves
  <2> QED BY <2>2, <2>3
<1> QED BY <1>3, <1>4, <1>5 DEF BookingRequest

LEMMA BackgroundMoney == ASSUME IndInv, Sweep \/ CleanNonPayable PROVE Moves
<1>1. CASE Sweep
  <2>1. PICK B \in SUBSET {b \in Booking : Sweepable(b)} :
          booking' = [b \in Booking |->
            IF b \in B THEN [booking[b] EXCEPT !.st = "expired"] ELSE booking[b]]
    BY <1>1 DEF Sweep
  <2>2. booking \in [Booking -> BookingType] /\ UNCHANGED <<payment, gate, refund, job>>
    BY <1>1 DEF IndInv, TypeOK, BookingType, Sweep
  <2>3. ASSUME NEW b \in B PROVE EndsUnpaid(b)
    BY <2>1, <2>2, <2>3 DEF EndsUnpaid, Sweepable, BookingType
  <2>4. BookingMoves
    BY <2>1, <2>2, <2>3 DEF BookingMoves, BookingMove
  <2> QED BY <2>2, <2>4, NoJobMoves, NoGateMoves, NoRowMoves DEF Moves
<1>2. CASE CleanNonPayable
  <2>1. payment \in [Payment -> PaymentType]
    BY RestTyped
  <2>2. UNCHANGED <<booking, gate, refund, job>>
    BY <1>2 DEF CleanNonPayable
  <2>3. ASSUME NEW p \in Payment PROVE RowMove(p)
    <3>1. CASE Cleanable(p)
      <4>1. /\ payment'[p].st = "expired" /\ payment'[p].token = FALSE
            /\ payment'[p].track = payment[p].track
            /\ payment'[p].booking = payment[p].booking /\ payment'[p].flag = payment[p].flag
        BY <1>2, <2>1, <3>1 DEF CleanNonPayable, PaymentType
      <4>2. RowCloses(p)
        BY <2>2, <3>1, <4>1 DEF RowCloses, KeepsRow, Cleanable
      <4> QED BY <4>2 DEF RowMove
    <3>2. CASE ~Cleanable(p)
      BY <1>2, <3>2 DEF CleanNonPayable, RowMove
    <3> QED BY <3>1, <3>2
  <2> QED BY <2>2, <2>3, NoJobMoves, NoGateMoves, NoBookingMoves DEF Moves, RowMoves
<1> QED BY <1>1, <1>2

LEMMA PayerMoney ==
    ASSUME IndInv, NEW p \in Payment, PayerPays(p) \/ GatewayCloses(p) PROVE Moves
<1>1. gate \in [Payment -> GateType] /\ UNCHANGED <<booking, payment, refund, job>>
  BY DEF IndInv, TypeOK, GateType, PayerPays, GatewayCloses
<1>2. \A q \in Payment \ {p} : gate'[q] = gate[q]
  BY <1>1 DEF PayerPays, GatewayCloses
<1>3. CASE PayerPays(p)
  <2>1. GatePaid(p)
    <3>1. PICK exact \in (IF WrongAmounts THEN BOOLEAN ELSE {TRUE}) :
            gate' = [gate EXCEPT ![p] = [st |-> "paid", exact |-> exact]]
      BY <1>3 DEF PayerPays
    <3>2. gate'[p].st = "paid" /\ gate'[p].exact = exact
      BY <1>1, <3>1
    <3>3. exact \/ WrongAmounts
      OBVIOUS
    <3> QED BY <1>3, <3>2, <3>3 DEF PayerPays, GatePaid
  <2> QED BY <1>1, <1>2, <2>1, NoJobMoves, NoRowMoves, NoBookingMoves
          DEF Moves, GateMoves, GateMove
<1>4. CASE GatewayCloses(p)
  <2>1. GateCloses(p)
    BY <1>1, <1>4 DEF GatewayCloses, GateCloses, GateType
  <2> QED BY <1>1, <1>2, <2>1, NoJobMoves, NoRowMoves, NoBookingMoves
          DEF Moves, GateMoves, GateMove
<1> QED BY <1>3, <1>4

LEMMA FaultMoney ==
    ASSUME IndInv, NEW w \in Worker, Crash(w) \/ LoseVerifyReply(w) \/ LoseInquiry(w)
    PROVE  Moves
<1>1. UNCHANGED <<booking, payment, refund>>
  BY DEF Crash, LoseVerifyReply, LoseInquiry
<1>2. RowMoves /\ BookingMoves
  BY <1>1, NoRowMoves, NoBookingMoves
<1>3. CASE Crash(w)
  BY <1>2, <1>3, Returns, NoGateMoves DEF Crash, Moves
<1>4. CASE LoseVerifyReply(w)
  <2>1. PICK p \in Payment : p = job[w].p
    BY <1>4, JobPayment DEF LoseVerifyReply
  <2>2. JobMoves
    BY <1>4, Returns DEF LoseVerifyReply
  <2>3. CASE gate[p].st = "paid"
    <3>1. /\ gate \in [Payment -> GateType] /\ gate' = [gate EXCEPT ![p].st = "captured"]
          /\ faults' = faults + 1
      BY <1>4, <2>1, <2>3 DEF IndInv, TypeOK, GateType, LoseVerifyReply, Fault
    <3>2. /\ gate'[p].st = "captured" /\ gate'[p].exact = gate[p].exact
          /\ \A q \in Payment \ {p} : gate'[q] = gate[q]
      BY <3>1 DEF GateType
    <3>3. GateCaptures(p)
      BY <1>4, <2>1, <3>1, <3>2 DEF GateCaptures, LoseVerifyReply
    <3>4. GateMoves
      BY <2>3, <3>2, <3>3 DEF GateMoves, GateMove
    <3> QED BY <1>2, <2>2, <3>4 DEF Moves
  <2>4. CASE gate[p].st # "paid"
    BY <1>2, <1>4, <2>1, <2>2, <2>4, NoGateMoves DEF LoseVerifyReply, Moves
  <2> QED BY <2>3, <2>4
<1>5. CASE LoseInquiry(w)
  <2>1. job[w].pc \notin {"idle", "request"} /\ UNCHANGED gate
    BY <1>5 DEF LoseInquiry
  <2>2. Return(w) \/ Goto(w, "classify") \/ Resolved(w, "undecided")
    BY <1>5 DEF LoseInquiry
  <2>3. "classify" \in Pc \ {"idle", "request", "settle"}
    BY DEF Pc
  <2>4. JobMoves
    BY <2>1, <2>2, <2>3, Returns, GoesOn, Resolves
  <2> QED BY <1>2, <2>1, <2>4, NoGateMoves DEF Moves
<1> QED BY <1>3, <1>4, <1>5

(* Every step moves money as said above. *)
LEMMA StepMoney == ASSUME IndInv, [Next]_vars PROVE Moves
<1>1. ASSUME NEW u \in User, NEW s \in Slot, CreateBooking(u, s) PROVE Moves
  <2>1. BookingMoves
    BY <1>1, InsertsMoney DEF CreateBooking
  <2> QED BY <1>1, <2>1, NoJobMoves, NoRowMoves, NoGateMoves DEF CreateBooking, Moves
<1>2. ASSUME NEW w \in Request, NEW u \in User, CreateResolvesOld(w, u) PROVE Moves
  <2>1. PICK b \in CheckoutOf(u) : \E p \in LiveTrack(b) : Begin(w, "create", "verify", p)
    BY <1>2 DEF CreateResolvesOld
  <2>2. PICK p \in LiveTrack(b) : Begin(w, "create", "verify", p)
    BY <2>1
  <2>3. w \in Worker /\ p \in Payment /\ payment[p].track
    BY DEF LiveTrack, Latest, PaymentsOf, Worker
  <2> QED BY <1>2, <2>2, <2>3, BeginningMoney DEF CreateResolvesOld
<1>3. ASSUME NEW b \in Booking, Lapse(b) PROVE Moves
  <2>1. booking \in [Booking -> BookingType] /\ UNCHANGED <<payment, gate, refund, job>>
    BY <1>3 DEF IndInv, TypeOK, BookingType, Lapse
  <2>2. \A c \in Booking : booking'[c].st = booking[c].st
    BY <1>3, <2>1 DEF Lapse, BookingType
  <2>3. BookingMoves
    BY <2>1, <2>2 DEF BookingMoves, BookingMove
  <2> QED BY <2>1, <2>3, NoJobMoves, NoRowMoves, NoGateMoves DEF Moves
<1>4. ASSUME NEW w \in Request, NEW b \in Booking, CancelStarts(w, b) PROVE Moves
  <2>1. PICK p \in LiveTrack(b) : Begin(w, "cancel", "verify", p)
    BY <1>4 DEF CancelStarts
  <2>2. w \in Worker /\ p \in Payment /\ payment[p].track
    BY DEF LiveTrack, Latest, PaymentsOf, Worker
  <2> QED BY <1>4, <2>1, <2>2, BeginningMoney DEF CancelStarts
<1>5. ASSUME NEW w \in Worker, NEW p \in Payment, StartResolve(w, p) PROVE Moves
  BY <1>5, BeginningMoney DEF StartResolve
<1>6. ASSUME NEW p \in Payment, Reconcile(p) PROVE Moves
  BY <1>6, <1>5 DEF Reconcile, Worker
<1>7. CASE UNCHANGED vars
  BY <1>7, NoJobMoves, NoRowMoves, NoGateMoves, NoBookingMoves DEF vars, Moves
<1>8. Request \subseteq Worker
  BY DEF Worker
<1> QED BY <1>1, <1>2, <1>3, <1>4, <1>5, <1>6, <1>7, <1>8, BookingRequestMoney, StartPaymentMoney,
           JobStepMoney, PayerMoney, BackgroundMoney, FaultMoney DEF Next

-----------------------------------------------------------------------------
(* The inductive invariant behind ConfirmedIsPaid and the parts of         *)
(* MoneyIsAccounted that hold whatever fails                               *)

(* A row that was never used says nothing; a processing token waits for    *)
(* the gateway's first answer.                                             *)
RowsAreFresh ==
    \A p \in Payment :
        /\ payment[p].st = "none" =>
              payment[p].booking = 0 /\ ~payment[p].track /\ gate[p].st = "none"
        /\ payment[p].token => payment[p].st = "pending" /\ ~payment[p].track

(* A job asks for a checkout the gateway does not know, or works on one    *)
(* whose track is recorded, and settles only money that was captured.      *)
JobsKnowGate ==
    \A w \in Worker : \A p \in Payment : job[w].p = p =>
        /\ job[w].pc = "request" => gate[p].st = "none" /\ ~payment[p].track
        /\ job[w].pc \notin {"idle", "request"} => payment[p].track
        /\ job[w].pc = "settle" => gate[p].st = "captured"

OneRequest ==
    \A v, w \in Worker :
        /\ job[v].pc = "request"
        /\ job[w].pc = "request"
        /\ job[v].p = job[w].p
        => v = w

RecordedIsCaptured ==
    \A p \in Payment :
        /\ gate[p].st = "captured" => payment[p].track
        /\ payment[p].st = "success" =>
              gate[p].st = "captured" /\ (payment[p].flag = "none" => gate[p].exact)

OneSuccess ==
    \A p, q \in Payment :
        /\ payment[p].st = "success"
        /\ payment[q].st = "success"
        /\ payment[p].booking = payment[q].booking
        => p = q

ConfirmedHasSuccess ==
    \A b \in Booking : booking[b].st = "confirmed" =>
        \E p \in SuccessPayments(b) : payment[p].flag = "none"

MoneyInv ==
    /\ RowsAreFresh
    /\ JobsKnowGate
    /\ OneRequest
    /\ RecordedIsCaptured
    /\ OneSuccess
    /\ ConfirmedHasSuccess
    /\ ClosedIsUnpayable
    /\ MoneyIsExplained
    /\ RefundIsOwed

LEMMA MoneyInit == Init => MoneyInv
<1> SUFFICES ASSUME Init PROVE MoneyInv
  OBVIOUS
<1>1. /\ \A p \in Payment : /\ payment[p].st = "none" /\ payment[p].booking = 0
                            /\ ~payment[p].track /\ ~payment[p].token
                            /\ gate[p].st = "none"
      /\ \A b \in Booking : booking[b].st = "none" /\ refund[b] = {}
      /\ \A w \in Worker : job[w].pc = "idle"
  BY DEF Init, Idle
<1> QED BY <1>1 DEF MoneyInv, RowsAreFresh, JobsKnowGate, OneRequest, RecordedIsCaptured,
           OneSuccess, ConfirmedHasSuccess, ClosedIsUnpayable, MoneyIsExplained, RefundIsOwed

(* What is kept: references, tracks, successes and captures *)
LEMMA MoneyKeeps ==
    ASSUME IndInv, MoneyInv, Moves, NEW p \in Payment
    PROVE  /\ payment[p].st # "none" => payment'[p].booking = payment[p].booking
           /\ payment[p].track => payment'[p].track
           /\ payment'[p].st = "none" => payment[p].st = "none" /\ payment'[p] = payment[p]
           /\ payment'[p].token => payment'[p] = payment[p] \/ RowStarts(p)
           /\ payment[p].st = "success" => payment'[p].st = "success"
           /\ payment'[p].st = "success" =>
                 (payment[p].st = "success" /\ payment'[p] = payment[p]) \/ RowSucceeds(p)
           /\ RowStarts(p) => payment[p].st = "none"
<1>1. RowMove(p)
  BY DEF Moves, RowMoves
<1>2. payment[p].token => payment[p].st = "pending" /\ ~payment[p].track
  BY DEF MoneyInv, RowsAreFresh
<1>3. payment[p].st = "none" => ~payment[p].track
  BY DEF MoneyInv, RowsAreFresh
<1>4. RowStarts(p) => payment[p].st = "none"
  BY DEF RowStarts, NextRow
<1>5. CASE payment'[p] = payment[p]
  BY <1>4, <1>5
<1>6. CASE RowStarts(p)
  BY <1>3, <1>4, <1>6 DEF RowStarts
<1>7. CASE RowTracked(p)
  BY <1>2, <1>4, <1>7 DEF RowTracked, KeepsRow
<1>8. CASE RowCloses(p)
  BY <1>2, <1>4, <1>8 DEF RowCloses, KeepsRow
<1>9. CASE RowSucceeds(p)
  BY <1>4, <1>9 DEF RowSucceeds
<1> QED BY <1>1, <1>5, <1>6, <1>7, <1>8, <1>9 DEF RowMove

LEMMA GateKeeps ==
    ASSUME IndInv, MoneyInv, Moves, NEW p \in Payment
    PROVE  /\ gate[p].st = "captured" => gate'[p] = gate[p]
           /\ RequestEnds(p) => gate[p].st = "none" /\ payment[p].st # "none"
           /\ payment[p].st = "none" => gate'[p] = gate[p]
<1>1. GateMove(p)
  BY DEF Moves, GateMoves
<1>2. RequestEnds(p) => gate[p].st = "none" /\ payment[p].st # "none"
  BY JobPayment DEF RequestEnds, MoneyInv, JobsKnowGate
<1>3. payment[p].st = "none" => gate[p].st = "none"
  BY DEF MoneyInv, RowsAreFresh
<1> QED BY <1>1, <1>2, <1>3 DEF GateMove, GateOpens, GatePaid, GateCloses

LEMMA FreshNext == ASSUME IndInv, MoneyInv, Moves PROVE RowsAreFresh'
<1> SUFFICES ASSUME NEW p \in Payment
             PROVE  /\ payment'[p].st = "none" =>
                          payment'[p].booking = 0 /\ ~payment'[p].track /\ gate'[p].st = "none"
                    /\ payment'[p].token => payment'[p].st = "pending" /\ ~payment'[p].track
  BY DEF RowsAreFresh
<1>1. payment'[p].st = "none" =>
          payment'[p].booking = 0 /\ ~payment'[p].track /\ gate'[p].st = "none"
  BY MoneyKeeps, GateKeeps DEF MoneyInv, RowsAreFresh
<1>2. payment'[p].token => payment'[p].st = "pending" /\ ~payment'[p].track
  BY MoneyKeeps DEF MoneyInv, RowsAreFresh, RowStarts
<1> QED BY <1>1, <1>2

(* A job that stays at its request is not answered. *)
LEMMA RequestStays ==
    ASSUME IndInv, MoneyInv, Moves, NEW w \in Worker, job[w].pc = "request", job'[w] = job[w]
    PROVE  /\ job[w].p \in Payment
           /\ gate'[job[w].p].st = "none"
           /\ ~payment'[job[w].p].track
<1>1. PICK p \in Payment : p = job[w].p /\ payment[p].st # "none"
  BY JobPayment
<1>2. gate[p].st = "none" /\ ~payment[p].track
  BY <1>1 DEF MoneyInv, JobsKnowGate
<1>3. ~RequestEnds(p)
  BY <1>1 DEF RequestEnds, MoneyInv, OneRequest
<1>4. GateMove(p) /\ RowMove(p)
  BY DEF Moves, GateMoves, RowMoves
<1>5. gate'[p] = gate[p]
  BY <1>2, <1>3, <1>4 DEF GateMove, GateOpens, GatePaid, GateCloses
<1>6. payment'[p].track = payment[p].track
  BY <1>1, <1>3, <1>4, MoneyKeeps DEF RowMove, RowTracked, RowCloses, RowSucceeds
<1> QED BY <1>1, <1>2, <1>5, <1>6

LEMMA JobsKnowNext == ASSUME IndInv, MoneyInv, Moves PROVE JobsKnowGate'
<1> SUFFICES ASSUME NEW w \in Worker, NEW p \in Payment, job'[w].p = p
             PROVE  /\ job'[w].pc = "request" => gate'[p].st = "none" /\ ~payment'[p].track
                    /\ job'[w].pc \notin {"idle", "request"} => payment'[p].track
                    /\ job'[w].pc = "settle" => gate'[p].st = "captured"
  BY DEF JobsKnowGate
<1>1. JobMove(w)
  BY DEF Moves, JobMoves
<1>2. CASE job'[w] = job[w]
  <2>1. job'[w].pc = "request" => gate'[p].st = "none" /\ ~payment'[p].track
    BY <1>2, RequestStays
  <2>2. /\ job[w].pc \notin {"idle", "request"} => payment[p].track
        /\ job[w].pc = "settle" => gate[p].st = "captured"
    BY <1>2 DEF MoneyInv, JobsKnowGate
  <2> QED BY <1>2, <2>1, <2>2, MoneyKeeps, GateKeeps
<1>3. CASE job'[w].pc = "idle"
  BY <1>3
<1>4. CASE JobGoes(w)
  <2>1. payment[p].track
    BY <1>4 DEF JobGoes, MoneyInv, JobsKnowGate
  <2> QED BY <1>4, <2>1, MoneyKeeps DEF JobGoes
<1>5. CASE JobTakes(w)
  BY <1>5, MoneyKeeps DEF JobTakes
<1>6. CASE JobAsks(w)
  <2>1. payment[p].st = "none" /\ job'[w].pc = "request"
    BY <1>6 DEF JobAsks
  <2>2. gate[p].st = "none" /\ ~payment[p].track /\ ~payment[p].token
    BY <2>1 DEF MoneyInv, RowsAreFresh
  <2>3. gate'[p].st = "none"
    BY <2>1, <2>2, GateKeeps
  <2>4. RowMove(p)
    BY DEF Moves, RowMoves
  <2>5. ~payment'[p].track
    BY <2>1, <2>2, <2>4 DEF RowMove, RowStarts, RowTracked, RowCloses, RowSucceeds
  <2> QED BY <2>1, <2>3, <2>5
<1> QED BY <1>1, <1>2, <1>3, <1>4, <1>5, <1>6 DEF JobMove

LEMMA OneRequestNext == ASSUME IndInv, MoneyInv, Moves PROVE OneRequest'
<1> SUFFICES ASSUME NEW v \in Worker, NEW w \in Worker, job'[v].pc = "request",
                    job'[w].pc = "request", job'[v].p = job'[w].p
             PROVE  v = w
  BY DEF OneRequest
<1>1. \A x \in {v, w} : job'[x] = job[x] \/ JobAsks(x)
  BY DEF Moves, JobMoves, JobMove, JobGoes, JobTakes
<1>2. \A x \in {v, w} : job'[x] = job[x] => payment[job'[x].p].st # "none"
  BY JobPayment
<1>3. \A x \in {v, w} : JobAsks(x) => payment[job'[x].p].st = "none"
  BY DEF JobAsks
<1>4. CASE JobAsks(v)
  BY <1>1, <1>2, <1>3, <1>4 DEF JobAsks
<1>5. CASE JobAsks(w)
  BY <1>1, <1>2, <1>3, <1>5 DEF JobAsks
<1>6. CASE job'[v] = job[v] /\ job'[w] = job[w]
  BY <1>6 DEF MoneyInv, OneRequest
<1> QED BY <1>1, <1>4, <1>5, <1>6

LEMMA RecordedNext == ASSUME IndInv, MoneyInv, Moves PROVE RecordedIsCaptured'
<1> SUFFICES ASSUME NEW p \in Payment
             PROVE  /\ gate'[p].st = "captured" => payment'[p].track
                    /\ payment'[p].st = "success" =>
                          gate'[p].st = "captured" /\ (payment'[p].flag = "none" => gate'[p].exact)
  BY DEF RecordedIsCaptured
<1>1. GateMove(p)
  BY DEF Moves, GateMoves
<1>2. /\ gate[p].st = "captured" => payment[p].track
      /\ payment[p].st = "success" =>
            gate[p].st = "captured" /\ (payment[p].flag = "none" => gate[p].exact)
  BY DEF MoneyInv, RecordedIsCaptured
<1>3. GateCaptures(p) => payment[p].track
  BY DEF GateCaptures, MoneyInv, JobsKnowGate
<1>4. gate'[p].st = "captured" => payment'[p].track
  BY <1>1, <1>2, <1>3, MoneyKeeps DEF GateMove, GateOpens, GatePaid, GateCloses
<1>5. RowSucceeds(p) => gate[p].st = "captured"
  BY DEF RowSucceeds, MoneyInv, JobsKnowGate
<1>6. RowSucceeds(p) => (payment'[p].flag = "none" => gate[p].exact)
  BY DEF RowSucceeds, SellsFor, FlagsLate
<1> QED BY <1>2, <1>4, <1>5, <1>6, MoneyKeeps, GateKeeps

LEMMA OneSuccessNext == ASSUME IndInv, MoneyInv, Moves PROVE OneSuccess'
<1>1. ASSUME NEW p \in Payment, NEW q \in Payment \ {p}, RowSucceeds(p),
             payment'[q].st = "success", payment'[q].booking = payment'[p].booking
      PROVE  FALSE
  <2>1. payment[q].st = "success" /\ payment[q].booking = payment[p].booking
    BY <1>1 DEF RowSucceeds, Alone
  <2> QED BY <1>1, <2>1 DEF RowSucceeds, UniqueSuccess, SuccessPayments, PaymentsOf
<1> SUFFICES ASSUME NEW p \in Payment, NEW q \in Payment, p # q,
                    payment'[p].st = "success", payment'[q].st = "success",
                    payment'[p].booking = payment'[q].booking
             PROVE  FALSE
  BY DEF OneSuccess
<1>2. CASE RowSucceeds(p) \/ RowSucceeds(q)
  BY <1>1, <1>2
<1>3. CASE ~(RowSucceeds(p) \/ RowSucceeds(q))
  <2>1. /\ payment[p].st = "success" /\ payment'[p] = payment[p]
        /\ payment[q].st = "success" /\ payment'[q] = payment[q]
    BY <1>3, MoneyKeeps
  <2> QED BY <2>1 DEF MoneyInv, OneSuccess
<1> QED BY <1>2, <1>3

LEMMA ConfirmedNext == ASSUME IndInv, MoneyInv, Moves PROVE ConfirmedHasSuccess'
<1> SUFFICES ASSUME NEW b \in Booking, booking'[b].st = "confirmed"
             PROVE  \E p \in Payment : /\ payment'[p].booking = b
                                       /\ payment'[p].st = "success"
                                       /\ payment'[p].flag = "none"
  BY DEF ConfirmedHasSuccess, SuccessPayments, PaymentsOf
<1>1. booking[b].st = "confirmed" \/ SoldTo(b)
  BY DEF Moves, BookingMoves, BookingMove, Opened, EndsUnpaid, GivenBack
<1>2. CASE booking[b].st = "confirmed"
  <2>1. PICK p \in Payment : /\ payment[p].booking = b
                             /\ payment[p].st = "success"
                             /\ payment[p].flag = "none"
    BY <1>2 DEF MoneyInv, ConfirmedHasSuccess, SuccessPayments, PaymentsOf
  <2>2. ~RowSucceeds(p)
    BY <1>2, <2>1 DEF RowSucceeds, AlreadyPaid
  <2>3. payment'[p] = payment[p]
    BY <2>1, <2>2, MoneyKeeps
  <2> QED BY <2>1, <2>3
<1>3. CASE SoldTo(b)
  BY <1>3 DEF SoldTo, RowSucceeds, SellsFor
<1> QED BY <1>1, <1>2, <1>3

LEMMA UnpayableNext == ASSUME IndInv, MoneyInv, Moves PROVE ClosedIsUnpayable'
<1> SUFFICES ASSUME NEW p \in Payment, payment'[p].track, payment'[p].st \in {"failed", "expired"},
                    booking'[payment'[p].booking].st = "pending_payment"
             PROVE  FALSE
  BY DEF ClosedIsUnpayable
<1>1. payment[p].st # "none" /\ ~RowStarts(p)
  <2>1. RowMove(p) /\ (payment[p].token => payment[p].st = "pending")
    BY DEF Moves, RowMoves, MoneyInv, RowsAreFresh
  <2> QED BY <2>1 DEF RowMove, RowStarts, RowTracked, RowCloses, RowSucceeds
<1>2. PICK b \in Booking : b = payment[p].booking /\ booking[b].st # "none"
  BY <1>1 DEF IndInv, RowsAreLinked
<1>3. booking'[b].st = "pending_payment"
  BY <1>1, <1>2, MoneyKeeps
<1>4. booking[b].st = "pending_payment"
  BY <1>2, <1>3 DEF Moves, BookingMoves, BookingMove, Opened, SoldTo, EndsUnpaid, GivenBack
<1>5. RowMove(p)
  BY DEF Moves, RowMoves
<1>6. payment[p].token => payment[p].st = "pending" /\ ~payment[p].track
  BY DEF MoneyInv, RowsAreFresh
<1>7. CASE payment'[p] = payment[p]
  BY <1>2, <1>4, <1>7 DEF MoneyInv, ClosedIsUnpayable
<1>8. CASE RowTracked(p)
  BY <1>6, <1>8 DEF RowTracked
<1>9. CASE RowCloses(p)
  BY <1>2, <1>3, <1>6, <1>9 DEF RowCloses
<1>10. CASE RowSucceeds(p)
  BY <1>10 DEF RowSucceeds
<1> QED BY <1>1, <1>5, <1>7, <1>8, <1>9, <1>10 DEF RowMove

LEMMA ExplainedNext == ASSUME IndInv, MoneyInv, Moves PROVE MoneyIsExplained'
<1> SUFFICES ASSUME NEW p \in Payment, payment'[p].st = "success", payment'[p].flag = "none"
             PROVE  \/ booking'[payment'[p].booking].st = "confirmed"
                    \/ refund'[payment'[p].booking] # {}
  BY DEF MoneyIsExplained
<1>1. CASE RowSucceeds(p)
  BY <1>1 DEF RowSucceeds, SellsFor, FlagsLate
<1>2. CASE payment[p].st = "success" /\ payment'[p] = payment[p]
  <2>1. PICK b \in Booking : b = payment[p].booking
    BY <1>2 DEF IndInv, RowsAreLinked
  <2>2. booking[b].st = "confirmed" \/ refund[b] # {}
    BY <1>2, <2>1 DEF MoneyInv, MoneyIsExplained
  <2>3. BookingMove(b)
    BY DEF Moves, BookingMoves
  <2>4. SuccessPayments(b) # {}
    BY <1>2, <2>1 DEF SuccessPayments, PaymentsOf
  <2>5. booking'[b].st = "confirmed" \/ refund'[b] # {}
    BY <2>2, <2>3, <2>4 DEF BookingMove, Opened, SoldTo, EndsUnpaid, GivenBack
  <2> QED BY <1>2, <2>1, <2>5
<1> QED BY <1>1, <1>2, MoneyKeeps

LEMMA RefundNext == ASSUME IndInv, MoneyInv, Moves PROVE RefundIsOwed'
<1> SUFFICES ASSUME NEW b \in Booking, refund'[b] # {}
             PROVE  /\ booking'[b].st = "cancelled"
                    /\ Cardinality(refund'[b]) = 1
                    /\ \E p \in Payment :
                          /\ payment'[p].booking = b
                          /\ payment'[p].st = "success"
                          /\ gate'[p] = [st |-> "captured", exact |-> TRUE]
  BY DEF RefundIsOwed, SuccessPayments, PaymentsOf
<1>1. BookingMove(b)
  BY DEF Moves, BookingMoves
<1>2. refund[b] # {} =>
        /\ booking[b].st = "cancelled"
        /\ Cardinality(refund[b]) = 1
        /\ \E p \in SuccessPayments(b) : gate[p] = [st |-> "captured", exact |-> TRUE]
  BY DEF MoneyInv, RefundIsOwed
<1>3. CASE refund'[b] = refund[b]
  <2>1. PICK p \in SuccessPayments(b) : gate[p] = [st |-> "captured", exact |-> TRUE]
    BY <1>2, <1>3
  <2>2. p \in Payment /\ payment[p].st = "success" /\ payment[p].booking = b
    BY DEF SuccessPayments, PaymentsOf
  <2>3. payment'[p].st = "success" /\ payment'[p].booking = b /\ gate'[p] = gate[p]
    BY <2>1, <2>2, MoneyKeeps, GateKeeps
  <2>4. booking'[b].st = "cancelled"
    BY <1>1, <1>2, <1>3 DEF BookingMove, Opened, SoldTo, EndsUnpaid, GivenBack
  <2> QED BY <1>2, <1>3, <2>1, <2>2, <2>3, <2>4
<1>4. CASE GivenBack(b)
  <2>1. refund[b] = {}
    BY <1>2, <1>4 DEF GivenBack
  <2>2. PICK p \in Payment : /\ payment[p].booking = b
                             /\ payment[p].st = "success"
                             /\ payment[p].flag = "none"
    BY <1>4 DEF GivenBack, MoneyInv, ConfirmedHasSuccess, SuccessPayments, PaymentsOf
  <2>3. SuccessPayments(b) # {}
    BY <2>2 DEF SuccessPayments, PaymentsOf
  <2>4. PICK x : refund'[b] = {x}
    BY <1>4, <2>1, <2>3 DEF GivenBack
  <2>5. Cardinality({x}) = 1
    BY FS_Singleton
  <2>6. gate[p] \in GateType /\ gate[p].st = "captured" /\ gate[p].exact = TRUE
    BY <2>2 DEF MoneyInv, RecordedIsCaptured, IndInv, TypeOK, GateType
  <2>7. gate[p] = [st |-> "captured", exact |-> TRUE]
    BY <2>6 DEF GateType
  <2> QED BY <1>4, <2>2, <2>4, <2>5, <2>7 DEF GivenBack
<1> QED BY <1>1, <1>3, <1>4 DEF BookingMove

LEMMA MoneyNext == ASSUME IndInv, MoneyInv, [Next]_vars PROVE MoneyInv'
<1>1. Moves
  BY StepMoney
<1> QED BY <1>1, FreshNext, JobsKnowNext, OneRequestNext, RecordedNext, OneSuccessNext,
           ConfirmedNext, UnpayableNext, ExplainedNext, RefundNext DEF MoneyInv

LEMMA MoneyInvariance == Spec => []MoneyInv
<1>1. IndInv /\ MoneyInv /\ [Next]_vars => MoneyInv'
  BY MoneyNext
<1> QED BY <1>1, MoneyInit, Invariance, PTL DEF Spec

(* A confirmed booking is backed by exactly one successful payment, whose  *)
(* money the gateway captured in the right amount: whatever crashes, is    *)
(* lost or is paid in a wrong amount.                                      *)
THEOREM ConfirmedPaid == Spec => []ConfirmedIsPaid
<1>1. IndInv /\ MoneyInv => ConfirmedIsPaid
  <2> SUFFICES ASSUME IndInv, MoneyInv, NEW b \in Booking, booking[b].st = "confirmed"
               PROVE  \E p \in Payment : /\ SuccessPayments(b) = {p}
                                         /\ payment[p].flag = "none"
                                         /\ gate[p] = [st |-> "captured", exact |-> TRUE]
    BY DEF ConfirmedIsPaid
  <2>1. PICK p \in SuccessPayments(b) : payment[p].flag = "none"
    BY DEF MoneyInv, ConfirmedHasSuccess
  <2>2. p \in Payment /\ payment[p].st = "success" /\ payment[p].booking = b
    BY DEF SuccessPayments, PaymentsOf
  <2>3. \A q \in SuccessPayments(b) : q = p
    BY <2>2 DEF MoneyInv, OneSuccess, SuccessPayments, PaymentsOf
  <2>4. gate[p] \in GateType /\ gate[p].st = "captured" /\ gate[p].exact = TRUE
    BY <2>1, <2>2 DEF MoneyInv, RecordedIsCaptured, IndInv, TypeOK, GateType
  <2>5. gate[p] = [st |-> "captured", exact |-> TRUE]
    BY <2>4 DEF GateType
  <2> QED BY <2>1, <2>2, <2>3, <2>5
<1> QED BY <1>1, Invariance, MoneyInvariance, PTL

(* A booking that ended stays ended, and a payment on record is never      *)
(* taken back, whichever late answer arrives.                              *)
THEOREM EndIsFinal == Spec => EndedStaysEnded
<1> DEFINE Stays ==
      /\ \A b \in Booking :
            booking[b].st \in {"cancelled", "expired"} => booking'[b].st = booking[b].st
      /\ \A p \in Payment :
            payment[p].st = "success" => payment'[p].st = "success"
<1>1. ASSUME IndInv, MoneyInv, [Next]_vars PROVE [Stays]_vars
  <2>1. Moves
    BY <1>1, StepMoney
  <2>2. ASSUME NEW b \in Booking, booking[b].st \in {"cancelled", "expired"}
        PROVE  booking'[b].st = booking[b].st
    BY <2>1, <2>2 DEF Moves, BookingMoves, BookingMove, Opened, SoldTo, EndsUnpaid, GivenBack
  <2>3. ASSUME NEW p \in Payment, payment[p].st = "success"
        PROVE  payment'[p].st = "success"
    BY <1>1, <2>1, <2>3, MoneyKeeps
  <2> QED BY <2>2, <2>3
<1>2. [][Stays]_vars <=> EndedStaysEnded
  BY DEF EndedStaysEnded
<1> HIDE DEF Stays
<1> QED BY <1>1, <1>2, Invariance, MoneyInvariance, PTL DEF Spec

(* Whatever crashes, is lost or is paid in a wrong amount: a payment that  *)
(* was closed never belongs to a booking that can still be paid, a         *)
(* successful payment has its booking, a refund or a failure code, and a   *)
(* refund is owed once and for money received.                             *)
THEOREM MoneyExplained == Spec => [](ClosedIsUnpayable /\ MoneyIsExplained /\ RefundIsOwed)
<1>1. MoneyInv => ClosedIsUnpayable /\ MoneyIsExplained /\ RefundIsOwed
  BY DEF MoneyInv
<1> QED BY <1>1, MoneyInvariance, PTL

(* A payment that was closed can only become a success as a case for       *)
(* support, never as one that confirms a booking.                          *)
THEOREM LateSuccess == Spec => LateSuccessIsFlagged
<1> DEFINE Flagged ==
      \A p \in Payment :
        payment[p].st \in {"failed", "expired"} /\ payment'[p].st = "success"
            => payment'[p].flag # "none"
<1>1. ASSUME IndInv, MoneyInv, [Next]_vars PROVE [Flagged]_vars
  <2> SUFFICES ASSUME NEW p \in Payment, payment[p].st \in {"failed", "expired"},
                      payment'[p].st = "success", payment'[p].flag = "none"
               PROVE  FALSE
    OBVIOUS
  <2>1. RowSucceeds(p)
    BY <1>1, StepMoney, MoneyKeeps
  <2>2. payment[p].track
    BY <1>1, <2>1 DEF RowSucceeds, MoneyInv, JobsKnowGate
  <2>3. booking[payment[p].booking].st = "pending_payment"
    BY <2>1 DEF RowSucceeds, SellsFor, FlagsLate
  <2> QED BY <1>1, <2>2, <2>3 DEF MoneyInv, ClosedIsUnpayable
<1>2. [][Flagged]_vars <=> LateSuccessIsFlagged
  BY DEF LateSuccessIsFlagged
<1> HIDE DEF Flagged
<1> QED BY <1>1, <1>2, Invariance, MoneyInvariance, PTL DEF Spec

(* A sold slot is given up only together with a refund of its payment. *)
THEOREM SoldRefunded == Spec => SoldSlotIsRefunded
<1> DEFINE Refunded ==
      \A s \in Slot : slot[s] = "reserved" /\ slot'[s] # "reserved" =>
          \E b \in Booking : booking[b].slot = s /\ refund'[b] # refund[b]
<1>1. ASSUME IndInv, MoneyInv, [Next]_vars PROVE [Refunded]_vars
  <2> SUFFICES ASSUME NEW s \in Slot, slot[s] = "reserved", slot'[s] # "reserved"
               PROVE  \E b \in Booking : booking[b].slot = s /\ refund'[b] # refund[b]
    OBVIOUS
  <2>1. Effect /\ Moves
    BY <1>1, StepEffect, StepMoney
  <2>2. CASE Quiet
    BY <2>2 DEF Quiet
  <2>3. ASSUME NEW b \in Booking, Sells(b) PROVE FALSE
    BY <1>1, <2>3 DEF Sells, IndInv, TypeOK
  <2>4. ASSUME NEW u \in User, NEW t \in Slot, Inserts(u, t) PROVE FALSE
    BY <2>4 DEF Inserts, InsertBooking
  <2>5. ASSUME NEW B \in SUBSET Booking, Ends(B)
        PROVE  \E b \in Booking : booking[b].slot = s /\ refund'[b] # refund[b]
    <3>1. PICK b \in B : booking[b].slot = s
      BY <2>5 DEF Ends
    <3>2. /\ b \in Booking
          /\ booking[b].st = "confirmed"
          /\ booking'[b].st \in {"cancelled", "expired"}
      BY <1>1, <2>5, <3>1 DEF Ends, ActiveStatus, IndInv, SlotRepeatsBooking
    <3>3. GivenBack(b)
      BY <2>1, <3>2 DEF Moves, BookingMoves, BookingMove, Opened, SoldTo, EndsUnpaid
    <3>4. refund[b] = {}
      BY <1>1, <3>2 DEF MoneyInv, RefundIsOwed
    <3>5. SuccessPayments(b) # {}
      BY <1>1, <3>2 DEF MoneyInv, ConfirmedHasSuccess
    <3>6. refund'[b] # refund[b]
      BY <3>3, <3>4, <3>5 DEF GivenBack
    <3> QED BY <3>1, <3>2, <3>6
  <2> QED BY <2>1, <2>2, <2>3, <2>4, <2>5 DEF Effect
<1>2. [][Refunded]_vars <=> SoldSlotIsRefunded
  BY DEF SoldSlotIsRefunded
<1> HIDE DEF Refunded
<1> QED BY <1>1, <1>2, Invariance, MoneyInvariance, PTL DEF Spec
=============================================================================
