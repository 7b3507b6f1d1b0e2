--------------------------- MODULE Checkout_proofs ---------------------------
(***************************************************************************)
(* Slots and bookings in Checkout: every action keeps IndInv, which gives  *)
(* SlotMatchesBookings and OneCheckoutPerUser, and every step is a step of *)
(* SlotSale.                                                               *)
(***************************************************************************)
EXTENDS Checkout, TLAPS

(* The three parts of IndInv that speak of slots and bookings only *)
SlotInv == ActiveBookingsDiffer /\ SlotRepeatsBooking /\ OneCheckoutPerUser

(* The bookings of B give up their slots: they end, and each of their      *)
(* slots becomes free or blocked; nothing else changes.                    *)
LEMMA EndingBookings ==
    ASSUME TypeOK, RowsAreLinked, SlotInv,
           NEW B \in SUBSET Booking,
           \A b \in B : booking[b].st \in ActiveStatus,
           \A b \in B : booking'[b].st \in {"cancelled", "expired"},
           \A b \in Booking \ B : booking'[b] = booking[b],
           \A s \in Slot : IF \E b \in B : booking[b].slot = s
                           THEN slot'[s] \in {"open", "blocked"}
                           ELSE slot'[s] = slot[s]
    PROVE  SlotInv'
<1>1. ActiveBookingsDiffer'
  BY DEF SlotInv, ActiveBookingsDiffer, ActiveStatus
<1>2. SlotRepeatsBooking'
  <2>1. ASSUME NEW b \in Booking, booking'[b].st \in ActiveStatus
        PROVE  /\ b \notin B
               /\ booking'[b] = booking[b]
               /\ slot'[booking[b].slot] = slot[booking[b].slot]
    <3>1. b \notin B
      BY <2>1 DEF ActiveStatus
    <3>2. \A c \in B : booking[c].slot # booking[b].slot
      BY <2>1, <3>1 DEF SlotInv, ActiveBookingsDiffer
    <3>3. booking[b].slot \in Slot
      BY <2>1, <3>1 DEF RowsAreLinked, ActiveStatus
    <3> QED BY <3>1, <3>2, <3>3
  <2>2. ASSUME NEW s \in Slot, slot'[s] \in {"reserving", "reserved"}
        PROVE  ActiveOn(s)' # {}
    <3>1. slot'[s] = slot[s] /\ \A b \in B : booking[b].slot # s
      BY <2>2
    <3>2. PICK b \in Booking : booking[b].st \in ActiveStatus /\ booking[b].slot = s
      BY <2>2, <3>1 DEF SlotInv, SlotRepeatsBooking, ActiveOn
    <3>3. b \notin B
      BY <3>1, <3>2
    <3> QED BY <3>2, <3>3 DEF ActiveOn
  <2> QED BY <2>1, <2>2 DEF SlotRepeatsBooking, SlotInv, ActiveStatus
<1>3. OneCheckoutPerUser'
  BY DEF SlotInv, OneCheckoutPerUser, CheckoutOf
<1> QED BY <1>1, <1>2, <1>3 DEF SlotInv

(* A payment confirms the pending booking b. *)
LEMMA Selling ==
    ASSUME TypeOK, RowsAreLinked, SlotInv,
           NEW b \in Booking, booking[b].st = "pending_payment",
           booking' = WithStatus(b, "confirmed"),
           slot' = [slot EXCEPT ![booking[b].slot] = "reserved"]
    PROVE  SlotInv'
<1>1. booking[b].slot \in Slot
  BY DEF RowsAreLinked
<1>2. \A c \in Booking : /\ booking'[c].slot = booking[c].slot
                         /\ booking'[c].user = booking[c].user
                         /\ booking'[c].st = IF c = b THEN "confirmed" ELSE booking[c].st
  BY DEF WithStatus, TypeOK
<1>3. ActiveBookingsDiffer'
  BY <1>2 DEF SlotInv, ActiveBookingsDiffer, ActiveStatus
<1>4. \A s \in Slot : slot'[s] = IF s = booking[b].slot THEN "reserved" ELSE slot[s]
  BY <1>1 DEF TypeOK
<1>5. SlotRepeatsBooking'
  <2>1. ASSUME NEW c \in Booking, c # b, booking[c].st \in ActiveStatus
        PROVE  slot'[booking[c].slot] = slot[booking[c].slot]
    <3>1. booking[c].slot # booking[b].slot
      BY <2>1 DEF SlotInv, ActiveBookingsDiffer, ActiveStatus
    <3>2. booking[c].slot \in Slot
      BY <2>1 DEF RowsAreLinked, ActiveStatus
    <3> QED BY <3>1, <3>2, <1>4
  <2>2. ASSUME NEW s \in Slot, slot'[s] \in {"reserving", "reserved"}
        PROVE  ActiveOn(s)' # {}
    <3>1. CASE s = booking[b].slot
      BY <3>1, <1>2 DEF ActiveOn, ActiveStatus
    <3>2. CASE s # booking[b].slot
      <4>1. PICK c \in Booking : booking[c].st \in ActiveStatus /\ booking[c].slot = s
        BY <2>2, <3>2, <1>4 DEF SlotInv, SlotRepeatsBooking, ActiveOn
      <4> QED BY <4>1, <3>2, <1>2 DEF ActiveOn, ActiveStatus
    <3> QED BY <3>1, <3>2
  <2>3. slot'[booking[b].slot] = "reserved"
    BY <1>1, <1>4
  <2> QED BY <1>2, <2>1, <2>2, <2>3 DEF SlotRepeatsBooking, SlotInv, ActiveStatus
<1>6. OneCheckoutPerUser'
  BY <1>2 DEF SlotInv, OneCheckoutPerUser, CheckoutOf
<1> QED BY <1>3, <1>5, <1>6 DEF SlotInv

(* A new checkout, after the user's old ones ended. *)
LEMMA Inserting ==
    ASSUME TypeOK, RowsAreLinked, SlotInv,
           NEW u \in User, NEW s \in Slot, InsertBooking(u, s, CheckoutOf(u))
    PROVE  SlotInv'
<1> DEFINE old == CheckoutOf(u)
<1>1. PICK n \in Booking :
        /\ booking[n].st = "none"
        /\ booking' = [b \in Booking |->
                IF b = n THEN [st |-> "pending_payment", user |-> u,
                               slot |-> s, lapsed |-> FALSE]
                ELSE IF b \in old THEN [booking[b] EXCEPT !.st = "expired"]
                ELSE booking[b]]
  BY DEF InsertBooking, NextRow
<1>2. /\ booking'[n].st = "pending_payment"
      /\ booking'[n].user = u
      /\ booking'[n].slot = s
  BY <1>1
<1>3. \A b \in Booking \ {n} :
        /\ booking'[b].user = booking[b].user
        /\ booking'[b].slot = booking[b].slot
        /\ booking'[b].st = IF b \in old THEN "expired" ELSE booking[b].st
  BY <1>1 DEF TypeOK
<1>4. \A t \in Slot : slot'[t] =
         IF t = s THEN "reserving"
         ELSE IF slot[t] = "reserving" /\ \E b \in old : booking[b].slot = t
         THEN "open" ELSE slot[t]
  BY DEF InsertBooking
<1>5. \A b \in Booking : booking[b].st \in ActiveStatus => booking[b].slot # s
  BY DEF InsertBooking, ActiveOn
<1>6. ActiveBookingsDiffer'
  BY <1>2, <1>3, <1>5 DEF SlotInv, ActiveBookingsDiffer, ActiveStatus
<1>7. SlotRepeatsBooking'
  <2>1. ASSUME NEW b \in Booking, b # n, booking'[b].st \in ActiveStatus
        PROVE  /\ booking'[b].st = booking[b].st
               /\ slot'[booking[b].slot] = slot[booking[b].slot]
    <3>1. b \notin old /\ booking[b].st \in ActiveStatus /\ booking'[b].st = booking[b].st
      BY <2>1, <1>3 DEF ActiveStatus
    <3>2. \A c \in old : booking[c].slot # booking[b].slot
      BY <3>1 DEF SlotInv, ActiveBookingsDiffer, CheckoutOf, ActiveStatus
    <3>3. booking[b].slot \in Slot /\ booking[b].slot # s
      BY <3>1, <1>5 DEF RowsAreLinked, ActiveStatus
    <3> QED BY <3>1, <3>2, <3>3, <1>4
  <2>2. ASSUME NEW t \in Slot, slot'[t] \in {"reserving", "reserved"}
        PROVE  ActiveOn(t)' # {}
    <3>1. CASE t = s
      BY <3>1, <1>2 DEF ActiveOn, ActiveStatus
    <3>2. CASE t # s
      <4>1. slot'[t] = slot[t] /\ ~(slot[t] = "reserving" /\ \E b \in old : booking[b].slot = t)
        BY <2>2, <3>2, <1>4
      <4>2. PICK b \in Booking : booking[b].st \in ActiveStatus /\ booking[b].slot = t
        BY <2>2, <4>1 DEF SlotInv, SlotRepeatsBooking, ActiveOn
      <4>3. b \notin old
        BY <4>1, <4>2 DEF SlotInv, SlotRepeatsBooking, CheckoutOf
      <4>4. b # n
        BY <4>2, <1>1 DEF ActiveStatus
      <4> QED BY <4>2, <4>3, <4>4, <1>3 DEF ActiveOn
    <3> QED BY <3>1, <3>2
  <2>3. slot'[s] = "reserving"
    BY <1>4
  <2> QED BY <2>1, <2>2, <2>3, <1>2, <1>3 DEF SlotRepeatsBooking, SlotInv, ActiveStatus
<1>8. OneCheckoutPerUser'
  BY <1>2, <1>3 DEF SlotInv, OneCheckoutPerUser, CheckoutOf
<1> QED BY <1>6, <1>7, <1>8 DEF SlotInv

-----------------------------------------------------------------------------
(* How a job goes on *)

JobType == [op : Op, pc : Pc, p : Payment \cup {0}]

PaymentsStay == \A p \in Payment : payment[p].st # "none" => payment'[p].st # "none"

(* A job that goes on or returns keeps the row of its payment. *)
LEMMA JobGoesOn ==
    ASSUME TypeOK, JobsHoldPayments, PaymentsStay,
           NEW w \in Worker, job[w].pc # "idle",
           \/ Return(w)
           \/ \E pc \in Pc : Goto(w, pc)
           \/ \E outcome : Resolved(w, outcome)
    PROVE  job' \in [Worker -> JobType] /\ JobsHoldPayments'
<1>1. Idle \in JobType
  BY DEF Idle, JobType, Op, Pc
<1>2. \/ job' = [job EXCEPT ![w] = Idle]
      \/ \E pc \in Pc : job' = [job EXCEPT ![w].pc = pc]
  BY DEF Return, Goto, Resolved, Pc
<1>3. job \in [Worker -> JobType]
  BY DEF TypeOK, JobType
<1>4. CASE job' = [job EXCEPT ![w] = Idle]
  BY <1>1, <1>3, <1>4 DEF JobsHoldPayments, PaymentsStay, Idle
<1>5. ASSUME NEW pc \in Pc, job' = [job EXCEPT ![w].pc = pc]
      PROVE  job' \in [Worker -> JobType] /\ JobsHoldPayments'
  <2>1. job' \in [Worker -> JobType]
    BY <1>3, <1>5 DEF JobType
  <2>2. \A v \in Worker : /\ job'[v].p = job[v].p
                          /\ job'[v].pc # "idle" => job[v].pc # "idle"
    BY <1>3, <1>5 DEF JobType
  <2> QED BY <2>1, <2>2 DEF JobsHoldPayments, PaymentsStay
<1> QED BY <1>2, <1>4, <1>5

(* A job begins with a payment that exists. *)
LEMMA JobBegins ==
    ASSUME TypeOK, JobsHoldPayments, PaymentsStay,
           NEW w \in Worker, NEW op \in Op, NEW pc \in Pc,
           NEW p \in Payment, payment'[p].st # "none",
           Begin(w, op, pc, p)
    PROVE  job' \in [Worker -> JobType] /\ JobsHoldPayments'
<1>1. job \in [Worker -> JobType]
  BY DEF TypeOK, JobType
<1>2. job' = [job EXCEPT ![w] = [op |-> op, pc |-> pc, p |-> p]]
  BY DEF Begin
<1>3. [op |-> op, pc |-> pc, p |-> p] \in JobType
  BY DEF JobType
<1> QED BY <1>1, <1>2, <1>3 DEF JobsHoldPayments, PaymentsStay

(* Jobs that stay where they are *)
LEMMA JobsStay ==
    ASSUME TypeOK, JobsHoldPayments, PaymentsStay, UNCHANGED job
    PROVE  job' \in [Worker -> JobType] /\ JobsHoldPayments'
BY DEF TypeOK, JobType, JobsHoldPayments, PaymentsStay

-----------------------------------------------------------------------------
(* The parts of a step of the invariant *)

BookingType == [st : BookingStatus, user : User \cup {None},
                slot : Slot \cup {None}, lapsed : BOOLEAN]
PaymentType == [st : PaymentStatus, booking : Booking \cup {0},
                track : BOOLEAN, token : BOOLEAN, flag : Flag]
GateType    == [st : GateStatus, exact : BOOLEAN]

(* Bookings and payments that exist keep their references; a payment that  *)
(* is new refers to a booking that exists.                                 *)
BookingsKept ==
    \A b \in Booking :
        /\ booking[b].st # "none" => /\ booking'[b].st # "none"
                                    /\ booking'[b].user = booking[b].user
                                    /\ booking'[b].slot = booking[b].slot
        /\ booking[b].st = "none" /\ booking'[b].st # "none" =>
              booking'[b].user \in User /\ booking'[b].slot \in Slot

PaymentsKept ==
    \A p \in Payment :
        /\ payment[p].st # "none" => /\ payment'[p].st # "none"
                                    /\ payment'[p].booking = payment[p].booking
        /\ payment[p].st = "none" /\ payment'[p].st # "none" =>
              /\ payment'[p].booking \in Booking
              /\ booking[payment'[p].booking].st # "none"

LEMMA LinksKept ==
    ASSUME RowsAreLinked, BookingsKept, PaymentsKept
    PROVE  RowsAreLinked' /\ PaymentsStay
<1>1. \A b \in Booking : booking'[b].st # "none" =>
          booking'[b].user \in User /\ booking'[b].slot \in Slot
  BY DEF RowsAreLinked, BookingsKept
<1>2. ASSUME NEW p \in Payment, payment'[p].st # "none"
      PROVE  payment'[p].booking \in Booking /\ booking'[payment'[p].booking].st # "none"
  <2>1. payment'[p].booking \in Booking /\ booking[payment'[p].booking].st # "none"
    BY <1>2 DEF RowsAreLinked, PaymentsKept
  <2> QED BY <2>1 DEF BookingsKept
<1> QED BY <1>1, <1>2 DEF RowsAreLinked, PaymentsStay, PaymentsKept

(* A step that leaves slots and bookings alone *)
LEMMA QuietStep ==
    ASSUME IndInv, UNCHANGED <<slot, booking>>, PaymentsKept,
           payment' \in [Payment -> PaymentType],
           gate' \in [Payment -> GateType],
           refund' = refund,
           faults' \in 0..MaxFault,
           job' \in [Worker -> JobType],
           JobsHoldPayments'
    PROVE  IndInv'
<1>1. BookingsKept
  BY DEF BookingsKept
<1>2. RowsAreLinked'
  BY <1>1, LinksKept DEF IndInv
<1>3. ActiveBookingsDiffer' /\ SlotRepeatsBooking' /\ OneCheckoutPerUser'
  BY DEF IndInv, ActiveBookingsDiffer, SlotRepeatsBooking, OneCheckoutPerUser,
         ActiveOn, CheckoutOf
<1>4. TypeOK'
  BY DEF IndInv, TypeOK, PaymentType, GateType, JobType
<1> QED BY <1>2, <1>3, <1>4 DEF IndInv

(* A step that ends the bookings of B *)
LEMMA EndingStep ==
    ASSUME IndInv,
           NEW B \in SUBSET Booking,
           \A b \in B : booking[b].st \in ActiveStatus,
           \A b \in B : /\ booking'[b].st \in {"cancelled", "expired"}
                        /\ booking'[b].user = booking[b].user
                        /\ booking'[b].slot = booking[b].slot,
           \A b \in Booking \ B : booking'[b] = booking[b],
           \A s \in Slot : IF \E b \in B : booking[b].slot = s
                           THEN slot'[s] \in {"open", "blocked"}
                           ELSE slot'[s] = slot[s],
           PaymentsKept,
           slot' \in [Slot -> SlotStatus],
           booking' \in [Booking -> BookingType],
           payment' \in [Payment -> PaymentType],
           gate' = gate,
           refund' \in [Booking -> SUBSET RefundType],
           faults' = faults,
           job' \in [Worker -> JobType],
           JobsHoldPayments'
    PROVE  IndInv'
<1>1. BookingsKept
  BY DEF BookingsKept, ActiveStatus
<1>2. RowsAreLinked'
  BY <1>1, LinksKept DEF IndInv
<1>3. SlotInv'
  BY EndingBookings DEF IndInv, SlotInv
<1>4. TypeOK'
  BY DEF IndInv, TypeOK, BookingType, PaymentType, JobType
<1> QED BY <1>2, <1>3, <1>4 DEF IndInv, SlotInv

-----------------------------------------------------------------------------
(* Every action keeps the invariant.  First those that leave slots and     *)
(* bookings alone.                                                         *)

(* A job that only asks the gateway or gives up *)
LEMMA JobOnlyStep ==
    ASSUME IndInv, NEW w \in Worker, job[w].pc # "idle",
           \/ Return(w)
           \/ \E pc \in Pc : Goto(w, pc)
           \/ \E outcome : Resolved(w, outcome),
           UNCHANGED <<slot, booking, payment, refund>>,
           gate' \in [Payment -> GateType],
           faults' \in 0..MaxFault
    PROVE  IndInv'
<1>1. PaymentsKept /\ PaymentsStay
  BY DEF PaymentsKept, PaymentsStay
<1>2. job' \in [Worker -> JobType] /\ JobsHoldPayments'
  BY <1>1, JobGoesOn DEF IndInv
<1>3. payment' \in [Payment -> PaymentType]
  BY DEF IndInv, TypeOK, PaymentType
<1> QED BY <1>1, <1>2, <1>3, QuietStep

LEMMA CreateRefusedKeeps ==
    ASSUME IndInv, NEW w \in Worker, CreateRefused(w) PROVE IndInv'
<1>1. gate' \in [Payment -> GateType] /\ faults' \in 0..MaxFault
  BY DEF IndInv, TypeOK, GateType, CreateRefused
<1> QED BY <1>1, JobOnlyStep DEF CreateRefused

LEMMA VerifyKeeps ==
    ASSUME IndInv, NEW w \in Worker, Verify(w) PROVE IndInv'
<1>1. gate' \in [Payment -> GateType] /\ faults' \in 0..MaxFault
  BY DEF IndInv, TypeOK, GateType, GateStatus, Verify
<1>2. \E pc \in Pc : Goto(w, pc)
  BY DEF Verify, Pc
<1>3. job[w].pc # "idle" /\ UNCHANGED <<slot, booking, payment, refund>>
  BY DEF Verify
<1> QED BY <1>1, <1>2, <1>3, JobOnlyStep

LEMMA SettleNothingKeeps ==
    ASSUME IndInv, NEW w \in Worker, SettleNothing(w) PROVE IndInv'
<1>1. gate' \in [Payment -> GateType] /\ faults' \in 0..MaxFault
  BY DEF IndInv, TypeOK, GateType, SettleNothing
<1>2. job[w].pc # "idle" /\ UNCHANGED <<slot, booking, payment, refund>>
  BY DEF SettleNothing
<1>3. Resolved(w, "paid") \/ Return(w)
  BY DEF SettleNothing
<1> QED BY <1>1, <1>2, <1>3, JobOnlyStep

LEMMA EnsureUnpaidKeeps ==
    ASSUME IndInv, NEW w \in Worker, EnsureUnpaid(w) PROVE IndInv'
<1>1. gate' \in [Payment -> GateType] /\ faults' \in 0..MaxFault
  BY DEF IndInv, TypeOK, GateType, EnsureUnpaid
<1>2. Return(w) \/ \E pc \in Pc : Goto(w, pc)
  BY DEF EnsureUnpaid, Pc
<1>3. job[w].pc # "idle" /\ UNCHANGED <<slot, booking, payment, refund>>
  BY DEF EnsureUnpaid
<1> QED BY <1>1, <1>2, <1>3, JobOnlyStep

LEMMA FaultTyped == ASSUME IndInv, Fault PROVE faults' \in 0..MaxFault
BY CheckoutAssumption DEF IndInv, TypeOK, Fault

LEMMA CrashKeeps ==
    ASSUME IndInv, NEW w \in Worker, Crash(w) PROVE IndInv'
<1>1. gate' \in [Payment -> GateType]
  BY DEF IndInv, TypeOK, GateType, Crash
<1>2. /\ job[w].pc # "idle" /\ Fault /\ Return(w)
      /\ UNCHANGED <<slot, booking, payment, refund>>
  BY DEF Crash
<1> QED BY <1>1, <1>2, FaultTyped, JobOnlyStep

LEMMA LoseVerifyReplyKeeps ==
    ASSUME IndInv, NEW w \in Worker, LoseVerifyReply(w) PROVE IndInv'
<1>1. gate' \in [Payment -> GateType]
  BY DEF IndInv, TypeOK, GateType, GateStatus, LoseVerifyReply
<1>2. /\ job[w].pc # "idle" /\ Fault /\ Return(w)
      /\ UNCHANGED <<slot, booking, payment, refund>>
  BY DEF LoseVerifyReply
<1> QED BY <1>1, <1>2, FaultTyped, JobOnlyStep

LEMMA LoseInquiryKeeps ==
    ASSUME IndInv, NEW w \in Worker, LoseInquiry(w) PROVE IndInv'
<1>1. gate' \in [Payment -> GateType]
  BY DEF IndInv, TypeOK, GateType, LoseInquiry
<1>2. Return(w) \/ (\E pc \in Pc : Goto(w, pc)) \/ Resolved(w, "undecided")
  BY DEF LoseInquiry, Pc
<1>3. /\ job[w].pc # "idle" /\ Fault
      /\ UNCHANGED <<slot, booking, payment, refund>>
  BY DEF LoseInquiry
<1> QED BY <1>1, <1>2, <1>3, FaultTyped, JobOnlyStep

(* A job begins and writes nothing *)
LEMMA BeginStep ==
    ASSUME IndInv, NEW w \in Worker, NEW op \in Op, NEW pc \in Pc,
           NEW p \in Payment, payment[p].st # "none", Begin(w, op, pc, p),
           UNCHANGED <<slot, booking, payment, gate, refund, faults>>
    PROVE  IndInv'
<1>1. PaymentsKept /\ PaymentsStay
  BY DEF PaymentsKept, PaymentsStay
<1>2. job' \in [Worker -> JobType] /\ JobsHoldPayments'
  BY <1>1, JobBegins DEF IndInv
<1>3. /\ payment' \in [Payment -> PaymentType]
      /\ gate' \in [Payment -> GateType]
      /\ faults' \in 0..MaxFault
  BY DEF IndInv, TypeOK, PaymentType, GateType
<1> QED BY <1>1, <1>2, <1>3, QuietStep

LEMMA LiveTrackIsPending ==
    ASSUME NEW b \in Booking, NEW p \in LiveTrack(b)
    PROVE  p \in Payment /\ payment[p].st = "pending" /\ payment[p].booking = b
BY DEF LiveTrack, Latest, PaymentsOf

LEMMA CreateResolvesOldKeeps ==
    ASSUME IndInv, NEW w \in Request, NEW u \in User, CreateResolvesOld(w, u)
    PROVE  IndInv'
<1>1. PICK b \in CheckoutOf(u) : \E p \in LiveTrack(b) : Begin(w, "create", "verify", p)
  BY DEF CreateResolvesOld
<1>2. PICK p \in LiveTrack(b) : Begin(w, "create", "verify", p)
  BY <1>1
<1>5. p \in Payment /\ payment[p].st # "none"
  BY LiveTrackIsPending DEF CheckoutOf
<1>3. w \in Worker /\ "create" \in Op /\ "verify" \in Pc
  BY DEF Worker, Op, Pc
<1>4. UNCHANGED <<slot, booking, payment, gate, refund, faults>>
  BY DEF CreateResolvesOld
<1> QED BY <1>2, <1>3, <1>4, <1>5, BeginStep

LEMMA CancelStartsKeeps ==
    ASSUME IndInv, NEW w \in Request, NEW b \in Booking, CancelStarts(w, b)
    PROVE  IndInv'
<1>1. PICK p \in LiveTrack(b) : Begin(w, "cancel", "verify", p)
  BY DEF CancelStarts
<1>2. p \in Payment /\ payment[p].st # "none"
  BY <1>1, LiveTrackIsPending
<1>3. w \in Worker /\ "cancel" \in Op /\ "verify" \in Pc
  BY DEF Worker, Op, Pc
<1>4. UNCHANGED <<slot, booking, payment, gate, refund, faults>>
  BY DEF CancelStarts
<1> QED BY <1>1, <1>2, <1>3, <1>4, BeginStep

LEMMA StartResolveKeeps ==
    ASSUME IndInv, NEW w \in Worker, NEW p \in Payment, StartResolve(w, p)
    PROVE  IndInv'
<1>1. "resolve" \in Op /\ "verify" \in Pc
  BY DEF Op, Pc
<1>2. /\ payment[p].st # "none" /\ Begin(w, "resolve", "verify", p)
      /\ UNCHANGED <<slot, booking, payment, gate, refund, faults>>
  BY DEF StartResolve
<1> QED BY <1>1, <1>2, BeginStep

(* Actions that write payments *)

LEMMA StartPaymentKeeps ==
    ASSUME IndInv, NEW w \in Request, NEW b \in Booking, StartPayment(w, b)
    PROVE  IndInv'
<1>1. PICK p \in Payment :
        /\ payment[p].st = "none"
        /\ payment' = [payment EXCEPT ![p] =
              [st |-> "pending", booking |-> b, track |-> FALSE,
               token |-> TRUE, flag |-> "none"]]
        /\ Begin(w, "pay", "request", p)
  BY DEF StartPayment, NextRow
<1>2. UNCHANGED <<slot, booking, gate, refund, faults>> /\ booking[b].st # "none"
  BY DEF StartPayment
<1>3. payment \in [Payment -> PaymentType]
  BY DEF IndInv, TypeOK, PaymentType
<1>4. [st |-> "pending", booking |-> b, track |-> FALSE,
       token |-> TRUE, flag |-> "none"] \in PaymentType
  BY DEF PaymentType, PaymentStatus, Flag
<1>5. payment' \in [Payment -> PaymentType]
  BY <1>1, <1>3, <1>4
<1>6. /\ payment'[p].st = "pending" /\ payment'[p].booking = b
      /\ \A q \in Payment \ {p} : payment'[q] = payment[q]
  BY <1>1, <1>3
<1>7. PaymentsKept /\ PaymentsStay
  BY <1>1, <1>2, <1>6 DEF PaymentsKept, PaymentsStay
<1>8. w \in Worker /\ "pay" \in Op /\ "request" \in Pc
  BY DEF Worker, Op, Pc
<1>9. job' \in [Worker -> JobType] /\ JobsHoldPayments'
  BY <1>1, <1>6, <1>7, <1>8, JobBegins DEF IndInv
<1>10. gate' \in [Payment -> GateType] /\ faults' \in 0..MaxFault
  BY <1>2 DEF IndInv, TypeOK, GateType
<1> QED BY <1>2, <1>5, <1>7, <1>9, <1>10, QuietStep

(* A payment row that exists is updated and refers to its booking still *)
LEMMA EndedUpdates ==
    ASSUME IndInv, NEW p \in Payment, payment[p].st # "none",
           NEW st \in PaymentStatus \ {"none"},
           \/ payment' = Ended(p, st)
           \/ UNCHANGED payment
    PROVE  payment' \in [Payment -> PaymentType] /\ PaymentsKept /\ PaymentsStay
<1>1. payment \in [Payment -> PaymentType]
  BY DEF IndInv, TypeOK, PaymentType
<1>2. payment' \in [Payment -> PaymentType]
  BY <1>1 DEF Ended, PaymentType
<1>3. /\ payment'[p].st # "none" /\ payment'[p].booking = payment[p].booking
      /\ \A q \in Payment \ {p} : payment'[q] = payment[q]
  BY <1>1 DEF Ended, PaymentType
<1> QED BY <1>2, <1>3 DEF PaymentsKept, PaymentsStay

LEMMA SucceededUpdates ==
    ASSUME IndInv, NEW p \in Payment, payment[p].st # "none",
           NEW flag \in Flag, payment' = Succeeded(p, flag)
    PROVE  payment' \in [Payment -> PaymentType] /\ PaymentsKept /\ PaymentsStay
<1> DEFINE row == [payment[p] EXCEPT !.st = "success", !.token = FALSE, !.flag = flag]
<1>1. payment \in [Payment -> PaymentType]
  BY DEF IndInv, TypeOK, PaymentType
<1>2. /\ row \in PaymentType
      /\ row.st = "success"
      /\ row.booking = payment[p].booking
  <2>1. payment[p] \in PaymentType
    BY <1>1
  <2>2. ASSUME NEW r \in PaymentType
        PROVE  LET r2 == [r EXCEPT !.st = "success", !.token = FALSE, !.flag = flag]
               IN  r2 \in PaymentType /\ r2.st = "success" /\ r2.booking = r.booking
    BY DEF PaymentType, PaymentStatus
  <2> QED BY <2>1, <2>2
<1>3. payment' = [payment EXCEPT ![p] = row]
  BY DEF Succeeded
<1> HIDE DEF row
<1>4. payment' \in [Payment -> PaymentType]
  BY <1>1, <1>2, <1>3
<1>5. /\ payment'[p].st = "success" /\ payment'[p].booking = payment[p].booking
      /\ \A q \in Payment \ {p} : payment'[q] = payment[q]
  BY <1>1, <1>2, <1>3
<1> QED BY <1>4, <1>5 DEF PaymentsKept, PaymentsStay

(* The payment of a job exists *)
LEMMA JobPayment ==
    ASSUME IndInv, NEW w \in Worker, job[w].pc # "idle"
    PROVE  /\ job[w].p \in Payment
           /\ payment[job[w].p].st # "none"
           /\ payment[job[w].p].booking \in Booking
           /\ booking[payment[job[w].p].booking].st # "none"
BY DEF IndInv, JobsHoldPayments, RowsAreLinked

LEMMA RecordTrackKeeps ==
    ASSUME IndInv, NEW w \in Worker, RecordTrack(w) PROVE IndInv'
<1> DEFINE p == job[w].p
<1>1. p \in Payment /\ payment[p].st # "none"
  BY JobPayment DEF RecordTrack
<1>2. payment \in [Payment -> PaymentType]
  BY DEF IndInv, TypeOK, PaymentType
<1> DEFINE row == [payment[p] EXCEPT !.track = TRUE, !.token = FALSE]
<1>a. row \in PaymentType /\ row.st = payment[p].st /\ row.booking = payment[p].booking
  <2>1. payment[p] \in PaymentType
    BY <1>1, <1>2
  <2>2. ASSUME NEW r \in PaymentType
        PROVE  LET r2 == [r EXCEPT !.track = TRUE, !.token = FALSE]
               IN  r2 \in PaymentType /\ r2.st = r.st /\ r2.booking = r.booking
    BY DEF PaymentType
  <2> QED BY <2>1, <2>2
<1>b. payment' = [payment EXCEPT ![p] = row] \/ payment' = payment
  BY DEF RecordTrack
<1> HIDE DEF row
<1>3. payment' \in [Payment -> PaymentType]
  BY <1>1, <1>2, <1>a, <1>b
<1>4. /\ payment'[p].st = payment[p].st /\ payment'[p].booking = payment[p].booking
      /\ \A q \in Payment \ {p} : payment'[q] = payment[q]
  BY <1>1, <1>2, <1>a, <1>b
<1>5. PaymentsKept /\ PaymentsStay
  BY <1>1, <1>4 DEF PaymentsKept, PaymentsStay
<1>6. job' \in [Worker -> JobType] /\ JobsHoldPayments'
  BY <1>5, JobGoesOn DEF RecordTrack, IndInv
<1>7. gate' \in [Payment -> GateType] /\ faults' \in 0..MaxFault
  BY DEF IndInv, TypeOK, GateType, GateStatus, RecordTrack
<1>8. UNCHANGED <<slot, booking>> /\ refund' = refund
  BY DEF RecordTrack
<1> QED BY <1>3, <1>5, <1>6, <1>7, <1>8, QuietStep

LEMMA RecordRefusalKeeps ==
    ASSUME IndInv, NEW w \in Worker, RecordRefusal(w) PROVE IndInv'
<1> DEFINE p == job[w].p
<1>1. p \in Payment /\ payment[p].st # "none" /\ "failed" \in PaymentStatus \ {"none"}
  BY JobPayment DEF RecordRefusal, PaymentStatus
<1>2. payment' = Ended(p, "failed") \/ UNCHANGED payment
  BY DEF RecordRefusal
<1>3. payment' \in [Payment -> PaymentType] /\ PaymentsKept /\ PaymentsStay
  BY <1>1, <1>2, EndedUpdates
<1>4. job' \in [Worker -> JobType] /\ JobsHoldPayments'
  BY <1>3, JobGoesOn DEF RecordRefusal, IndInv
<1>5. gate' \in [Payment -> GateType] /\ faults' \in 0..MaxFault
  BY DEF IndInv, TypeOK, GateType, RecordRefusal
<1>6. UNCHANGED <<slot, booking>> /\ refund' = refund
  BY DEF RecordRefusal
<1> QED BY <1>3, <1>4, <1>5, <1>6, QuietStep

LEMMA SettleFlaggedKeeps ==
    ASSUME IndInv, NEW w \in Worker, SettleFlagged(w) PROVE IndInv'
<1> DEFINE p == job[w].p
<1>1. p \in Payment /\ payment[p].st # "none"
  BY JobPayment DEF SettleFlagged
<1>2. PICK flag \in Flag : payment' = Succeeded(p, flag)
  BY DEF SettleFlagged, Flag
<1>3. payment' \in [Payment -> PaymentType] /\ PaymentsKept /\ PaymentsStay
  BY <1>1, <1>2, SucceededUpdates
<1>4. job' \in [Worker -> JobType] /\ JobsHoldPayments'
  BY <1>3, JobGoesOn DEF SettleFlagged, IndInv
<1>5. gate' \in [Payment -> GateType] /\ faults' \in 0..MaxFault
  BY DEF IndInv, TypeOK, GateType, SettleFlagged
<1>6. UNCHANGED <<slot, booking>> /\ refund' = refund
  BY DEF SettleFlagged
<1> QED BY <1>3, <1>4, <1>5, <1>6, QuietStep

LEMMA CleanNonPayableKeeps == ASSUME IndInv, CleanNonPayable PROVE IndInv'
<1>1. payment \in [Payment -> PaymentType]
  BY DEF IndInv, TypeOK, PaymentType
<1>2. \A p \in Payment : payment'[p] =
         IF Cleanable(p) THEN [payment[p] EXCEPT !.st = "expired", !.token = FALSE]
         ELSE payment[p]
  BY DEF CleanNonPayable
<1>3. payment' \in [Payment -> PaymentType]
  BY <1>1 DEF CleanNonPayable, PaymentType, PaymentStatus
<1>4. ASSUME NEW p \in Payment
      PROVE  /\ payment[p].st # "none" => /\ payment'[p].st # "none"
                                         /\ payment'[p].booking = payment[p].booking
             /\ payment[p].st = "none" => payment'[p].st = "none"
  <2>1. CASE Cleanable(p)
    <3>1. payment[p].st = "pending"
      BY <2>1 DEF Cleanable
    <3>2. payment'[p].st = "expired" /\ payment'[p].booking = payment[p].booking
      BY <2>1, <1>1, <1>2 DEF PaymentType
    <3> QED BY <3>1, <3>2
  <2>2. CASE ~Cleanable(p)
    BY <2>2, <1>2
  <2> QED BY <2>1, <2>2
<1>5. PaymentsKept /\ PaymentsStay
  BY <1>4 DEF PaymentsKept, PaymentsStay
<1>6. job' \in [Worker -> JobType] /\ JobsHoldPayments'
  BY <1>5, JobsStay DEF CleanNonPayable, IndInv
<1>7. gate' \in [Payment -> GateType] /\ faults' \in 0..MaxFault
  BY DEF IndInv, TypeOK, GateType, CleanNonPayable
<1>8. UNCHANGED <<slot, booking>> /\ refund' = refund
  BY DEF CleanNonPayable
<1> QED BY <1>3, <1>5, <1>6, <1>7, <1>8, QuietStep

(* The gateway on its own *)
LEMMA GatewayKeeps ==
    ASSUME IndInv, NEW p \in Payment, PayerPays(p) \/ GatewayCloses(p)
    PROVE  IndInv'
<1>1. UNCHANGED <<slot, booking, payment, refund, job, faults>>
  BY DEF PayerPays, GatewayCloses
<1>2. gate' \in [Payment -> GateType]
  <2>1. CASE PayerPays(p)
    <3>1. PICK exact \in BOOLEAN : gate' = [gate EXCEPT ![p] = [st |-> "paid", exact |-> exact]]
      BY <2>1 DEF PayerPays
    <3> QED BY <3>1 DEF IndInv, TypeOK, GateType, GateStatus
  <2>2. CASE GatewayCloses(p)
    BY <2>2 DEF GatewayCloses, IndInv, TypeOK, GateType, GateStatus
  <2> QED BY <2>1, <2>2
<1>3. PaymentsKept /\ PaymentsStay
  BY <1>1 DEF PaymentsKept, PaymentsStay
<1>4. job' \in [Worker -> JobType] /\ JobsHoldPayments'
  BY <1>1, <1>3, JobsStay DEF IndInv
<1>5. payment' \in [Payment -> PaymentType] /\ faults' \in 0..MaxFault
  BY <1>1 DEF IndInv, TypeOK, PaymentType
<1> QED BY <1>1, <1>2, <1>3, <1>4, <1>5, QuietStep

-----------------------------------------------------------------------------
(* Actions that end bookings *)

(* The booking b ends and its slot becomes free or blocked. *)
LEMMA EndOne ==
    ASSUME IndInv, NEW b \in Booking, booking[b].st \in ActiveStatus,
           NEW st \in {"cancelled", "expired"}, booking' = WithStatus(b, st),
           NEW x \in {"open", "blocked"}, slot' = [slot EXCEPT ![booking[b].slot] = x],
           PaymentsKept,
           payment' \in [Payment -> PaymentType],
           gate' = gate,
           refund' \in [Booking -> SUBSET RefundType],
           faults' = faults,
           job' \in [Worker -> JobType],
           JobsHoldPayments'
    PROVE  IndInv'
<1>1. booking \in [Booking -> BookingType] /\ slot \in [Slot -> SlotStatus]
  BY DEF IndInv, TypeOK, BookingType
<1>2. booking' \in [Booking -> BookingType]
  BY <1>1 DEF WithStatus, BookingType, BookingStatus
<1>3. slot' \in [Slot -> SlotStatus]
  BY <1>1 DEF SlotStatus
<1>4. booking[b].slot \in Slot
  BY DEF IndInv, RowsAreLinked, ActiveStatus
<1>5. {b} \in SUBSET Booking /\ \A c \in {b} : booking[c].st \in ActiveStatus
  OBVIOUS
<1>6. \A c \in {b} : /\ booking'[c].st \in {"cancelled", "expired"}
                     /\ booking'[c].user = booking[c].user
                     /\ booking'[c].slot = booking[c].slot
  BY <1>1 DEF WithStatus, BookingType
<1>7. \A c \in Booking \ {b} : booking'[c] = booking[c]
  BY <1>1 DEF WithStatus
<1>8. \A s \in Slot : IF \E c \in {b} : booking[c].slot = s
                      THEN slot'[s] \in {"open", "blocked"}
                      ELSE slot'[s] = slot[s]
  BY <1>1, <1>4
<1> QED BY <1>2, <1>3, <1>5, <1>6, <1>7, <1>8, EndingStep

(* A pending booking holds its slot as reserving, so Released frees it. *)
LEMMA ReleasedIsOpen ==
    ASSUME IndInv, NEW b \in Booking, booking[b].st = "pending_payment"
    PROVE  Released(b) = [slot EXCEPT ![booking[b].slot] = "open"]
BY DEF IndInv, SlotRepeatsBooking, Released

(* What EndOne asks of the parts that do not change *)
LEMMA RestTyped ==
    ASSUME IndInv
    PROVE  /\ payment \in [Payment -> PaymentType]
           /\ refund \in [Booking -> SUBSET RefundType]
BY DEF IndInv, TypeOK, PaymentType

LEMMA PayTooLateKeeps ==
    ASSUME IndInv, NEW b \in Booking, PayTooLate(b) PROVE IndInv'
<1>1. /\ booking[b].st = "pending_payment"
      /\ booking' = WithStatus(b, "expired")
      /\ slot' = [slot EXCEPT ![booking[b].slot] = "open"]
  BY ReleasedIsOpen DEF PayTooLate
<1>2. UNCHANGED <<payment, gate, refund, job, faults>>
  BY DEF PayTooLate
<1>3. PaymentsKept /\ PaymentsStay
  BY <1>2 DEF PaymentsKept, PaymentsStay
<1>4. job' \in [Worker -> JobType] /\ JobsHoldPayments'
  BY <1>2, <1>3, JobsStay DEF IndInv
<1> QED BY <1>1, <1>2, <1>3, <1>4, RestTyped, EndOne DEF ActiveStatus

LEMMA FailAttemptKeeps ==
    ASSUME IndInv, NEW w \in Worker, job[w].pc # "idle", FailAttempt(job[w].p),
           \/ Return(w)
           \/ \E pc \in Pc : Goto(w, pc)
           \/ \E outcome : Resolved(w, outcome),
           UNCHANGED <<gate, refund, faults>>
    PROVE  IndInv'
<1> DEFINE p == job[w].p
           b == payment[p].booking
<1>1. p \in Payment /\ payment[p].st # "none" /\ b \in Booking
  BY JobPayment
<1>2. payment' = Ended(p, "failed") \/ UNCHANGED payment
  BY DEF FailAttempt
<1>3. "failed" \in PaymentStatus \ {"none"}
  BY DEF PaymentStatus
<1>4. payment' \in [Payment -> PaymentType] /\ PaymentsKept /\ PaymentsStay
  BY <1>1, <1>2, <1>3, EndedUpdates
<1>5. job' \in [Worker -> JobType] /\ JobsHoldPayments'
  BY <1>4, JobGoesOn DEF IndInv
<1>6. CASE booking[b].st = "pending_payment"
  <2>1. booking' = WithStatus(b, "cancelled") /\ slot' = [slot EXCEPT ![booking[b].slot] = "open"]
    BY <1>1, <1>6, ReleasedIsOpen DEF FailAttempt
  <2> QED BY <1>1, <1>4, <1>5, <1>6, <2>1, RestTyped, EndOne DEF ActiveStatus
<1>7. CASE booking[b].st # "pending_payment"
  <2>1. UNCHANGED <<slot, booking>>
    BY <1>7 DEF FailAttempt
  <2>2. gate' \in [Payment -> GateType] /\ faults' \in 0..MaxFault
    BY DEF IndInv, TypeOK, GateType
  <2> QED BY <1>4, <1>5, <2>1, <2>2, QuietStep
<1> QED BY <1>6, <1>7

LEMMA RecordFailedAttemptKeeps ==
    ASSUME IndInv, NEW w \in Worker, RecordFailedAttempt(w) PROVE IndInv'
<1>1. /\ job[w].pc # "idle"
      /\ \E pc \in Pc : Goto(w, pc)
      /\ UNCHANGED <<gate, refund, faults>>
  BY DEF RecordFailedAttempt, Pc
<1>2. CASE gate[job[w].p].st = "closed"
  BY <1>1, <1>2, FailAttemptKeeps DEF RecordFailedAttempt
<1>3. CASE gate[job[w].p].st # "closed"
  <2>1. UNCHANGED <<slot, booking, payment, refund>>
    BY <1>1, <1>3 DEF RecordFailedAttempt
  <2>2. gate' \in [Payment -> GateType] /\ faults' \in 0..MaxFault
    BY <1>1 DEF IndInv, TypeOK, GateType
  <2> QED BY <1>1, <2>1, <2>2, JobOnlyStep
<1> QED BY <1>2, <1>3

LEMMA ClassifyKeeps ==
    ASSUME IndInv, NEW w \in Worker, Classify(w) PROVE IndInv'
<1>1. job[w].pc # "idle" /\ UNCHANGED <<gate, refund, faults>>
  BY DEF Classify
<1>2. CASE FailAttempt(job[w].p) /\ Resolved(w, "failed")
  BY <1>1, <1>2, FailAttemptKeeps
<1>3. CASE /\ Goto(w, "expire") \/ Resolved(w, "undecided")
           /\ UNCHANGED <<payment, booking, slot>>
  <2>1. gate' \in [Payment -> GateType] /\ faults' \in 0..MaxFault
    BY <1>1 DEF IndInv, TypeOK, GateType
  <2>2. "expire" \in Pc
    BY DEF Pc
  <2> QED BY <1>1, <1>3, <2>1, <2>2, JobOnlyStep
<1> QED BY <1>2, <1>3 DEF Classify

LEMMA ExpireCheckoutKeeps ==
    ASSUME IndInv, NEW w \in Worker, ExpireCheckout(w) PROVE IndInv'
<1> DEFINE p == job[w].p
           b == payment[p].booking
<1>1. job[w].pc # "idle" /\ UNCHANGED <<gate, refund, faults>>
  BY DEF ExpireCheckout
<1>2. p \in Payment /\ payment[p].st # "none" /\ b \in Booking
  BY <1>1, JobPayment
<1>3. CASE Expirable(p)
  <2>1. booking[b].st = "pending_payment"
    BY <1>3 DEF Expirable
  <2>2. /\ payment' = Ended(p, "expired") /\ booking' = WithStatus(b, "expired")
        /\ slot' = [slot EXCEPT ![booking[b].slot] = "open"]
        /\ Resolved(w, "failed")
    BY <1>2, <1>3, <2>1, ReleasedIsOpen DEF ExpireCheckout
  <2>3. "expired" \in PaymentStatus \ {"none"}
    BY DEF PaymentStatus
  <2>4. payment' \in [Payment -> PaymentType] /\ PaymentsKept /\ PaymentsStay
    BY <1>2, <2>2, <2>3, EndedUpdates
  <2>5. job' \in [Worker -> JobType] /\ JobsHoldPayments'
    BY <1>1, <2>2, <2>4, JobGoesOn DEF IndInv
  <2> QED BY <1>1, <1>2, <2>1, <2>2, <2>4, <2>5, RestTyped, EndOne DEF ActiveStatus
<1>4. CASE ~Expirable(p)
  <2>1. UNCHANGED <<slot, booking, payment, refund>> /\ Resolved(w, "undecided")
    BY <1>1, <1>4 DEF ExpireCheckout
  <2>2. gate' \in [Payment -> GateType] /\ faults' \in 0..MaxFault
    BY <1>1 DEF IndInv, TypeOK, GateType
  <2> QED BY <1>1, <2>1, <2>2, JobOnlyStep
<1> QED BY <1>3, <1>4

LEMMA GiveUpWrites ==
    ASSUME IndInv, NEW b \in Booking, booking[b].st = "pending_payment", GiveUp(b)
    PROVE  /\ booking' = WithStatus(b, "cancelled")
           /\ slot' = [slot EXCEPT ![booking[b].slot] = "open"]
           /\ payment' \in [Payment -> PaymentType]
           /\ PaymentsKept
           /\ PaymentsStay
<1>1. payment \in [Payment -> PaymentType]
  BY RestTyped
<1>2. \A p \in Payment : payment'[p] =
         IF p \in Latest(b) /\ payment[p].st = "pending"
         THEN [payment[p] EXCEPT !.st = "failed", !.token = FALSE]
         ELSE payment[p]
  BY DEF GiveUp
<1>3. payment' \in [Payment -> PaymentType]
  BY <1>1 DEF GiveUp, PaymentType, PaymentStatus
<1>4. ASSUME NEW p \in Payment
      PROVE  /\ payment[p].st # "none" => /\ payment'[p].st # "none"
                                         /\ payment'[p].booking = payment[p].booking
             /\ payment[p].st = "none" => payment'[p].st = "none"
  <2>1. CASE p \in Latest(b) /\ payment[p].st = "pending"
    <3>1. payment'[p].st = "failed" /\ payment'[p].booking = payment[p].booking
      BY <2>1, <1>1, <1>2 DEF PaymentType
    <3> QED BY <2>1, <3>1
  <2>2. CASE ~(p \in Latest(b) /\ payment[p].st = "pending")
    BY <2>2, <1>2
  <2> QED BY <2>1, <2>2
<1>5. PaymentsKept /\ PaymentsStay
  BY <1>4 DEF PaymentsKept, PaymentsStay
<1>6. /\ booking' = WithStatus(b, "cancelled")
      /\ slot' = [slot EXCEPT ![booking[b].slot] = "open"]
  BY ReleasedIsOpen DEF GiveUp
<1> QED BY <1>3, <1>5, <1>6

LEMMA CancelUnpaidKeeps ==
    ASSUME IndInv, NEW b \in Booking, CancelUnpaid(b) PROVE IndInv'
<1>1. booking[b].st = "pending_payment" /\ GiveUp(b) /\ UNCHANGED <<gate, refund, job, faults>>
  BY DEF CancelUnpaid
<1>2. /\ booking' = WithStatus(b, "cancelled")
      /\ slot' = [slot EXCEPT ![booking[b].slot] = "open"]
      /\ payment' \in [Payment -> PaymentType] /\ PaymentsKept /\ PaymentsStay
  BY <1>1, GiveUpWrites
<1>3. job' \in [Worker -> JobType] /\ JobsHoldPayments'
  BY <1>1, <1>2, JobsStay DEF IndInv
<1> QED BY <1>1, <1>2, <1>3, RestTyped, EndOne DEF ActiveStatus

LEMMA CancelRelockedKeeps ==
    ASSUME IndInv, NEW w \in Worker, CancelRelocked(w) PROVE IndInv'
<1> DEFINE b == payment[job[w].p].booking
<1>1. job[w].pc # "idle" /\ Return(w) /\ UNCHANGED <<gate, refund, faults>>
  BY DEF CancelRelocked
<1>2. b \in Booking
  BY <1>1, JobPayment
<1>3. CASE booking[b].st = "pending_payment"
  <2>1. GiveUp(b)
    BY <1>3 DEF CancelRelocked
  <2>2. /\ booking' = WithStatus(b, "cancelled")
        /\ slot' = [slot EXCEPT ![booking[b].slot] = "open"]
        /\ payment' \in [Payment -> PaymentType] /\ PaymentsKept /\ PaymentsStay
    BY <1>2, <1>3, <2>1, GiveUpWrites
  <2>3. job' \in [Worker -> JobType] /\ JobsHoldPayments'
    BY <1>1, <2>2, JobGoesOn DEF IndInv
  <2> QED BY <1>1, <1>2, <1>3, <2>2, <2>3, RestTyped, EndOne DEF ActiveStatus
<1>4. CASE booking[b].st # "pending_payment"
  <2>1. UNCHANGED <<slot, booking, payment, refund>>
    BY <1>1, <1>4 DEF CancelRelocked
  <2>2. gate' \in [Payment -> GateType] /\ faults' \in 0..MaxFault
    BY <1>1 DEF IndInv, TypeOK, GateType
  <2> QED BY <1>1, <2>1, <2>2, JobOnlyStep
<1> QED BY <1>3, <1>4

LEMMA CancelConfirmedKeeps ==
    ASSUME IndInv, NEW b \in Booking, CancelConfirmed(b) PROVE IndInv'
<1>1. /\ booking[b].st = "confirmed"
      /\ booking' = WithStatus(b, "cancelled")
      /\ slot' = [slot EXCEPT ![booking[b].slot] = "open"]
      /\ UNCHANGED <<payment, gate, job, faults>>
  BY DEF CancelConfirmed
<1>2. refund' \in [Booking -> SUBSET RefundType]
  BY RestTyped DEF CancelConfirmed, RefundType
<1>3. PaymentsKept /\ PaymentsStay
  BY <1>1 DEF PaymentsKept, PaymentsStay
<1>4. job' \in [Worker -> JobType] /\ JobsHoldPayments'
  BY <1>1, <1>3, JobsStay DEF IndInv
<1> QED BY <1>1, <1>2, <1>3, <1>4, RestTyped, EndOne DEF ActiveStatus

LEMMA ManagerCancelKeeps ==
    ASSUME IndInv, NEW b \in Booking, NEW release_slot \in BOOLEAN,
           ManagerCancel(b, release_slot)
    PROVE  IndInv'
<1>1. /\ booking[b].st \in ActiveStatus
      /\ booking' = WithStatus(b, "cancelled")
      /\ \E x \in {"open", "blocked"} : slot' = [slot EXCEPT ![booking[b].slot] = x]
      /\ UNCHANGED <<payment, gate, job, faults>>
  BY DEF ManagerCancel
<1>2. refund' \in [Booking -> SUBSET RefundType]
  BY RestTyped DEF ManagerCancel, RefundType
<1>3. PaymentsKept /\ PaymentsStay
  BY <1>1 DEF PaymentsKept, PaymentsStay
<1>4. job' \in [Worker -> JobType] /\ JobsHoldPayments'
  BY <1>1, <1>3, JobsStay DEF IndInv
<1> QED BY <1>1, <1>2, <1>3, <1>4, RestTyped, EndOne

LEMMA SweepKeeps == ASSUME IndInv, Sweep PROVE IndInv'
<1>1. PICK B \in SUBSET {b \in Booking : Sweepable(b)} :
        /\ booking' = [b \in Booking |->
              IF b \in B THEN [booking[b] EXCEPT !.st = "expired"] ELSE booking[b]]
        /\ slot' = [s \in Slot |->
              IF \E b \in B : booking[b].slot = s THEN "open" ELSE slot[s]]
        /\ UNCHANGED <<payment, gate, refund, job, faults>>
  BY DEF Sweep
<1>2. booking \in [Booking -> BookingType] /\ slot \in [Slot -> SlotStatus]
  BY DEF IndInv, TypeOK, BookingType
<1>3. B \in SUBSET Booking /\ \A b \in B : booking[b].st \in ActiveStatus
  BY DEF Sweepable, ActiveStatus
<1>4. \A b \in B : /\ booking'[b].st \in {"cancelled", "expired"}
                   /\ booking'[b].user = booking[b].user
                   /\ booking'[b].slot = booking[b].slot
  BY <1>1, <1>2, <1>3 DEF BookingType
<1>5. \A b \in Booking \ B : booking'[b] = booking[b]
  BY <1>1
<1>6. \A s \in Slot : IF \E b \in B : booking[b].slot = s
                      THEN slot'[s] \in {"open", "blocked"}
                      ELSE slot'[s] = slot[s]
  BY <1>1
<1>7. booking' \in [Booking -> BookingType]
  BY <1>1, <1>2 DEF BookingType, BookingStatus
<1>8. slot' \in [Slot -> SlotStatus]
  BY <1>1, <1>2 DEF SlotStatus
<1>9. PaymentsKept /\ PaymentsStay
  BY <1>1 DEF PaymentsKept, PaymentsStay
<1>10. job' \in [Worker -> JobType] /\ JobsHoldPayments'
  BY <1>1, <1>9, JobsStay DEF IndInv
<1> QED BY <1>1, <1>3, <1>4, <1>5, <1>6, <1>7, <1>8, <1>9, <1>10, RestTyped, EndingStep

-----------------------------------------------------------------------------
(* Actions that sell, create or age bookings *)

LEMMA SettlePaidKeeps ==
    ASSUME IndInv, NEW w \in Worker, SettlePaid(w) PROVE IndInv'
<1> DEFINE p == job[w].p
           b == payment[p].booking
<1>1. /\ job[w].pc # "idle" /\ booking[b].st = "pending_payment"
      /\ payment' = Succeeded(p, "none")
      /\ booking' = WithStatus(b, "confirmed")
      /\ slot' = [slot EXCEPT ![booking[b].slot] = "reserved"]
      /\ Resolved(w, "paid")
      /\ UNCHANGED <<gate, refund, faults>>
  BY DEF SettlePaid
<1>2. p \in Payment /\ payment[p].st # "none" /\ b \in Booking
  BY <1>1, JobPayment
<1>3. "none" \in Flag
  BY DEF Flag
<1>4. payment' \in [Payment -> PaymentType] /\ PaymentsKept /\ PaymentsStay
  BY <1>1, <1>2, <1>3, SucceededUpdates
<1>5. job' \in [Worker -> JobType] /\ JobsHoldPayments'
  BY <1>1, <1>4, JobGoesOn DEF IndInv
<1>6. booking \in [Booking -> BookingType] /\ slot \in [Slot -> SlotStatus]
  BY DEF IndInv, TypeOK, BookingType
<1>7. booking' \in [Booking -> BookingType] /\ slot' \in [Slot -> SlotStatus]
  BY <1>1, <1>6 DEF WithStatus, BookingType, BookingStatus, SlotStatus
<1>8. BookingsKept
  BY <1>1, <1>2, <1>6 DEF BookingsKept, WithStatus, BookingType
<1>9. RowsAreLinked'
  BY <1>4, <1>8, LinksKept DEF IndInv
<1>10. SlotInv'
  BY <1>1, <1>2, Selling DEF IndInv, SlotInv
<1>11. TypeOK'
  BY <1>1, <1>4, <1>5, <1>7 DEF IndInv, TypeOK, BookingType, PaymentType, JobType
<1> QED BY <1>5, <1>9, <1>10, <1>11 DEF IndInv, SlotInv

LEMMA InsertBookingKeeps ==
    ASSUME IndInv, NEW u \in User, NEW s \in Slot, InsertBooking(u, s, CheckoutOf(u)),
           UNCHANGED <<payment, gate, refund, faults>>,
           job' \in [Worker -> JobType], JobsHoldPayments'
    PROVE  IndInv'
<1> DEFINE old == CheckoutOf(u)
<1>1. booking \in [Booking -> BookingType] /\ slot \in [Slot -> SlotStatus]
  BY DEF IndInv, TypeOK, BookingType
<1>2. PICK n \in Booking :
        /\ booking[n].st = "none"
        /\ booking' = [b \in Booking |->
                IF b = n THEN [st |-> "pending_payment", user |-> u,
                               slot |-> s, lapsed |-> FALSE]
                ELSE IF b \in old THEN [booking[b] EXCEPT !.st = "expired"]
                ELSE booking[b]]
  BY DEF InsertBooking, NextRow
<1>3. [st |-> "pending_payment", user |-> u, slot |-> s, lapsed |-> FALSE] \in BookingType
  BY DEF BookingType, BookingStatus
<1>4. \A b \in Booking : [booking[b] EXCEPT !.st = "expired"] \in BookingType
  BY <1>1 DEF BookingType, BookingStatus
<1>5. booking' \in [Booking -> BookingType]
  BY <1>1, <1>2, <1>3, <1>4
<1>6. slot' \in [Slot -> SlotStatus]
  BY <1>1 DEF InsertBooking, SlotStatus
<1>7. BookingsKept
  <2>1. ASSUME NEW b \in Booking, b # n
        PROVE  /\ booking[b].st # "none" => booking'[b].st # "none"
               /\ booking[b].st = "none" => booking'[b].st = "none"
               /\ booking'[b].user = booking[b].user
               /\ booking'[b].slot = booking[b].slot
    <3>1. CASE b \in old
      <4>1. booking'[b] = [booking[b] EXCEPT !.st = "expired"]
        BY <1>2, <2>1, <3>1
      <4>2. booking[b].st = "pending_payment"
        BY <3>1 DEF CheckoutOf
      <4> QED BY <1>1, <4>1, <4>2 DEF BookingType
    <3>2. CASE b \notin old
      BY <1>2, <2>1, <3>2
    <3> QED BY <3>1, <3>2
  <2>2. booking'[n].user = u /\ booking'[n].slot = s
    BY <1>2
  <2> QED BY <1>2, <2>1, <2>2 DEF BookingsKept
<1>8. PaymentsKept
  BY DEF PaymentsKept
<1>9. RowsAreLinked'
  BY <1>7, <1>8, LinksKept DEF IndInv
<1>10. SlotInv'
  BY Inserting DEF IndInv, SlotInv
<1>11. TypeOK'
  BY <1>5, <1>6 DEF IndInv, TypeOK, BookingType, JobType
<1> QED BY <1>9, <1>10, <1>11 DEF IndInv, SlotInv

LEMMA CreateBookingKeeps ==
    ASSUME IndInv, NEW u \in User, NEW s \in Slot, CreateBooking(u, s)
    PROVE  IndInv'
<1>1. UNCHANGED <<payment, gate, refund, job, faults>> /\ InsertBooking(u, s, CheckoutOf(u))
  BY DEF CreateBooking
<1>2. PaymentsStay
  BY <1>1 DEF PaymentsStay
<1>3. job' \in [Worker -> JobType] /\ JobsHoldPayments'
  BY <1>1, <1>2, JobsStay DEF IndInv
<1> QED BY <1>1, <1>3, InsertBookingKeeps

LEMMA CreateAfterResolveKeeps ==
    ASSUME IndInv, NEW w \in Worker, NEW s \in Slot, CreateAfterResolve(w, s)
    PROVE  IndInv'
<1> DEFINE u == booking[payment[job[w].p].booking].user
<1>1. /\ job[w].pc # "idle" /\ Return(w)
      /\ InsertBooking(u, s, CheckoutOf(u))
      /\ UNCHANGED <<payment, gate, refund, faults>>
  BY DEF CreateAfterResolve
<1>2. u \in User
  BY <1>1, JobPayment DEF IndInv, RowsAreLinked
<1>3. PaymentsStay
  BY <1>1 DEF PaymentsStay
<1>4. job' \in [Worker -> JobType] /\ JobsHoldPayments'
  BY <1>1, <1>3, JobGoesOn DEF IndInv
<1> QED BY <1>1, <1>2, <1>4, InsertBookingKeeps

LEMMA LapseKeeps ==
    ASSUME IndInv, NEW b \in Booking, Lapse(b) PROVE IndInv'
<1>1. booking \in [Booking -> BookingType]
  BY DEF IndInv, TypeOK, BookingType
<1>2. /\ booking' = [booking EXCEPT ![b].lapsed = TRUE]
      /\ UNCHANGED <<slot, payment, gate, refund, job, faults>>
  BY DEF Lapse
<1>3. booking' \in [Booking -> BookingType]
  BY <1>1, <1>2 DEF BookingType
<1>4. \A c \in Booking : /\ booking'[c].st = booking[c].st
                         /\ booking'[c].user = booking[c].user
                         /\ booking'[c].slot = booking[c].slot
  BY <1>1, <1>2 DEF BookingType
<1>5. BookingsKept /\ PaymentsKept /\ PaymentsStay
  BY <1>2, <1>4 DEF BookingsKept, PaymentsKept, PaymentsStay
<1>6. RowsAreLinked'
  BY <1>5, LinksKept DEF IndInv
<1>7. job' \in [Worker -> JobType] /\ JobsHoldPayments'
  BY <1>2, <1>5, JobsStay DEF IndInv
<1>8. ActiveBookingsDiffer' /\ OneCheckoutPerUser'
  BY <1>4 DEF IndInv, ActiveBookingsDiffer, OneCheckoutPerUser, CheckoutOf
<1>9. SlotRepeatsBooking'
  BY <1>2, <1>4 DEF IndInv, SlotRepeatsBooking, ActiveOn
<1>10. TypeOK'
  BY <1>2, <1>3 DEF IndInv, TypeOK, BookingType
<1> QED BY <1>6, <1>7, <1>8, <1>9, <1>10 DEF IndInv

-----------------------------------------------------------------------------
(* The invariant is inductive *)

LEMMA InitEstablishes == Init => IndInv
<1> SUFFICES ASSUME Init PROVE IndInv
  OBVIOUS
<1>1. /\ slot \in [Slot -> SlotStatus]
      /\ refund \in [Booking -> SUBSET RefundType]
  BY DEF Init, SlotStatus
<1>2. booking \in [Booking -> BookingType]
  BY DEF Init, BookingType, BookingStatus
<1>3. payment \in [Payment -> PaymentType]
  BY DEF Init, PaymentType, PaymentStatus, Flag
<1>4. gate \in [Payment -> GateType]
  BY DEF Init, GateType, GateStatus
<1>5. job \in [Worker -> JobType]
  BY DEF Init, Idle, JobType, Op, Pc
<1>6. faults \in 0..MaxFault
  BY CheckoutAssumption DEF Init
<1>7. TypeOK
  BY <1>1, <1>2, <1>3, <1>4, <1>5, <1>6
     DEF TypeOK, BookingType, PaymentType, GateType, JobType
<1>8. /\ \A b \in Booking : booking[b].st = "none"
      /\ \A p \in Payment : payment[p].st = "none"
      /\ \A w \in Worker : job[w].pc = "idle"
      /\ \A s \in Slot : slot[s] = "open"
  BY DEF Init, Idle
<1>9. RowsAreLinked /\ JobsHoldPayments /\ ActiveBookingsDiffer
  BY <1>8 DEF RowsAreLinked, JobsHoldPayments, ActiveBookingsDiffer, ActiveStatus
<1>10. SlotRepeatsBooking /\ OneCheckoutPerUser
  BY <1>8 DEF SlotRepeatsBooking, OneCheckoutPerUser, CheckoutOf
<1> QED BY <1>7, <1>9, <1>10 DEF IndInv

LEMMA StutterKeeps == ASSUME IndInv, UNCHANGED vars PROVE IndInv'
<1>1. PaymentsKept /\ PaymentsStay
  BY DEF vars, PaymentsKept, PaymentsStay
<1>2. job' \in [Worker -> JobType] /\ JobsHoldPayments'
  BY <1>1, JobsStay DEF vars, IndInv
<1>3. /\ payment' \in [Payment -> PaymentType]
      /\ gate' \in [Payment -> GateType]
      /\ faults' \in 0..MaxFault
  BY DEF vars, IndInv, TypeOK, PaymentType, GateType
<1>4. UNCHANGED <<slot, booking>> /\ refund' = refund
  BY DEF vars
<1> QED BY <1>1, <1>2, <1>3, <1>4, QuietStep

LEMMA JobStepKeeps ==
    ASSUME IndInv, NEW w \in Worker, JobStep(w) PROVE IndInv'
<1>1. CASE RecordTrack(w)
  BY <1>1, RecordTrackKeeps
<1>2. CASE RecordRefusal(w)
  BY <1>2, RecordRefusalKeeps
<1>3. CASE Verify(w)
  BY <1>3, VerifyKeeps
<1>4. CASE SettlePaid(w)
  BY <1>4, SettlePaidKeeps
<1>5. CASE SettleFlagged(w)
  BY <1>5, SettleFlaggedKeeps
<1>6. CASE SettleNothing(w)
  BY <1>6, SettleNothingKeeps
<1>7. CASE RecordFailedAttempt(w)
  BY <1>7, RecordFailedAttemptKeeps
<1>8. CASE Classify(w)
  BY <1>8, ClassifyKeeps
<1>9. CASE ExpireCheckout(w)
  BY <1>9, ExpireCheckoutKeeps
<1>10. CASE EnsureUnpaid(w)
  BY <1>10, EnsureUnpaidKeeps
<1>11. CASE CancelRelocked(w)
  BY <1>11, CancelRelockedKeeps
<1>12. CASE CreateRefused(w)
  BY <1>12, CreateRefusedKeeps
<1>13. ASSUME NEW s \in Slot, CreateAfterResolve(w, s)
       PROVE  IndInv'
  BY <1>13, CreateAfterResolveKeeps
<1> QED BY <1>1, <1>2, <1>3, <1>4, <1>5, <1>6, <1>7, <1>8, <1>9, <1>10,
           <1>11, <1>12, <1>13 DEF JobStep

LEMMA NextKeeps == IndInv /\ [Next]_vars => IndInv'
<1> SUFFICES ASSUME IndInv, [Next]_vars PROVE IndInv'
  OBVIOUS
<1>1. ASSUME NEW u \in User, NEW s \in Slot, CreateBooking(u, s)
      PROVE  IndInv'
  BY <1>1, CreateBookingKeeps
<1>2. ASSUME NEW w \in Request, NEW u \in User, CreateResolvesOld(w, u)
      PROVE  IndInv'
  BY <1>2, CreateResolvesOldKeeps
<1>3. ASSUME NEW b \in Booking, BookingRequest(b)
      PROVE  IndInv'
  BY <1>3, PayTooLateKeeps, CancelUnpaidKeeps, CancelConfirmedKeeps, ManagerCancelKeeps
     DEF BookingRequest
<1>4. ASSUME NEW b \in Booking, Lapse(b)
      PROVE  IndInv'
  BY <1>4, LapseKeeps
<1>5. ASSUME NEW w \in Request, NEW b \in Booking, StartPayment(w, b) \/ CancelStarts(w, b)
      PROVE  IndInv'
  BY <1>5, StartPaymentKeeps, CancelStartsKeeps
<1>6. ASSUME NEW w \in Request, NEW p \in Payment, StartResolve(w, p)
      PROVE  IndInv'
  BY <1>6, StartResolveKeeps DEF Worker
<1>7. ASSUME NEW w \in Worker, JobStep(w)
      PROVE  IndInv'
  BY <1>7, JobStepKeeps
<1>8. ASSUME NEW p \in Payment, Reconcile(p) \/ PayerPays(p) \/ GatewayCloses(p)
      PROVE  IndInv'
  BY <1>8, StartResolveKeeps, GatewayKeeps DEF Reconcile, Worker
<1>9. CASE Sweep \/ CleanNonPayable
  BY <1>9, SweepKeeps, CleanNonPayableKeeps
<1>10. ASSUME NEW w \in Worker, Crash(w) \/ LoseVerifyReply(w) \/ LoseInquiry(w)
       PROVE  IndInv'
  BY <1>10, CrashKeeps, LoseVerifyReplyKeeps, LoseInquiryKeeps
<1>11. CASE UNCHANGED vars
  BY <1>11, StutterKeeps
<1> QED BY <1>1, <1>2, <1>3, <1>4, <1>5, <1>6, <1>7, <1>8, <1>9, <1>10, <1>11 DEF Next

(* The invariant holds in every reachable state, for any number of users,  *)
(* slots, requests, rows and faults.                                       *)
THEOREM Invariance == Spec => []IndInv
BY InitEstablishes, NextKeeps, PTL DEF Spec

(* Every row, job and gateway entry keeps its type. *)
THEOREM TypeCorrect == Spec => []TypeOK
<1>1. IndInv => TypeOK
  BY DEF IndInv
<1> QED BY <1>1, Invariance, PTL

(* A slot and the bookings on it agree, through every path that ends or    *)
(* sells a booking.                                                        *)
LEMMA IndInvMatches == IndInv => SlotMatchesBookings
<1> SUFFICES ASSUME IndInv, NEW s \in Slot
             PROVE  /\ slot[s] = "reserving" =>
                          \E b \in Booking : /\ ActiveOn(s) = {b}
                                             /\ booking[b].st = "pending_payment"
                    /\ slot[s] = "reserved" =>
                          \E b \in Booking : /\ ActiveOn(s) = {b}
                                             /\ booking[b].st = "confirmed"
                    /\ slot[s] \in {"open", "blocked"} => ActiveOn(s) = {}
  BY DEF SlotMatchesBookings
<1>1. ASSUME NEW b \in ActiveOn(s)
      PROVE  /\ b \in Booking /\ booking[b].slot = s
             /\ \/ booking[b].st = "pending_payment" /\ slot[s] = "reserving"
                \/ booking[b].st = "confirmed" /\ slot[s] = "reserved"
  <2>1. b \in Booking /\ booking[b].slot = s /\ booking[b].st \in ActiveStatus
    BY DEF ActiveOn
  <2> QED BY <2>1 DEF IndInv, SlotRepeatsBooking, ActiveStatus
<1>2. \A b, c \in ActiveOn(s) : b = c
  BY DEF IndInv, ActiveBookingsDiffer, ActiveOn
<1>3. CASE slot[s] \in {"reserving", "reserved"}
  <2>1. PICK b : b \in ActiveOn(s)
    BY <1>3 DEF IndInv, SlotRepeatsBooking
  <2>2. ActiveOn(s) = {b}
    BY <2>1, <1>2
  <2> QED BY <1>1, <1>3, <2>1, <2>2
<1>4. CASE slot[s] \notin {"reserving", "reserved"}
  BY <1>1, <1>4
<1> QED BY <1>3, <1>4

THEOREM SlotsMatch == Spec => []SlotMatchesBookings
BY IndInvMatches, Invariance, PTL

(* No user ever has two unpaid bookings, also not through a create request *)
(* that waited for the gateway.                                            *)
THEOREM OneCheckout == Spec => []OneCheckoutPerUser
<1>1. IndInv => OneCheckoutPerUser
  BY DEF IndInv
<1> QED BY <1>1, Invariance, PTL

-----------------------------------------------------------------------------
(* What a step may do to slots and bookings.  The transactions of Next are *)
(* many, their effects few: that the checkout implements SlotSale follows  *)
(* from the effects and the invariant.                                     *)

Same(b) == /\ booking'[b].st = booking[b].st
           /\ booking'[b].user = booking[b].user
           /\ booking'[b].slot = booking[b].slot

Quiet == slot' = slot /\ \A b \in Booking : Same(b)

Ends(B) ==
    /\ \A b \in B : /\ booking[b].st \in ActiveStatus
                    /\ booking'[b].st \in {"cancelled", "expired"}
    /\ \A b \in Booking \ B : Same(b)
    /\ \A s \in Slot : IF \E b \in B : booking[b].slot = s
                       THEN slot'[s] \in {"open", "blocked"}
                       ELSE slot'[s] = slot[s]

Sells(b) ==
    /\ booking[b].st = "pending_payment"
    /\ booking' = WithStatus(b, "confirmed")
    /\ slot' = [slot EXCEPT ![booking[b].slot] = "reserved"]

Inserts(u, s) == InsertBooking(u, s, CheckoutOf(u))

Effect ==
    \/ Quiet
    \/ \E B \in SUBSET Booking : Ends(B)
    \/ \E b \in Booking : Sells(b)
    \/ \E u \in User, s \in Slot : Inserts(u, s)

LEMMA UnchangedIsQuiet == ASSUME UNCHANGED <<slot, booking>> PROVE Effect
BY DEF Effect, Quiet, Same

LEMMA EndsOne ==
    ASSUME IndInv, NEW b \in Booking, booking[b].st \in ActiveStatus,
           NEW st \in {"cancelled", "expired"}, booking' = WithStatus(b, st),
           NEW x \in {"open", "blocked"}, slot' = [slot EXCEPT ![booking[b].slot] = x]
    PROVE  Effect
<1>1. booking \in [Booking -> BookingType] /\ slot \in [Slot -> SlotStatus]
  BY DEF IndInv, TypeOK, BookingType
<1>2. booking[b].slot \in Slot
  BY DEF IndInv, RowsAreLinked, ActiveStatus
<1>3. \A c \in {b} : /\ booking[c].st \in ActiveStatus
                     /\ booking'[c].st \in {"cancelled", "expired"}
  BY <1>1 DEF WithStatus, BookingType
<1>4. \A c \in Booking \ {b} : Same(c)
  BY <1>1 DEF WithStatus, Same
<1>5. \A s \in Slot : IF \E c \in {b} : booking[c].slot = s
                      THEN slot'[s] \in {"open", "blocked"}
                      ELSE slot'[s] = slot[s]
  BY <1>1, <1>2
<1>6. Ends({b})
  BY <1>3, <1>4, <1>5 DEF Ends
<1> QED BY <1>6 DEF Effect

LEMMA GiveUpEffect ==
    ASSUME IndInv, NEW b \in Booking, booking[b].st = "pending_payment", GiveUp(b)
    PROVE  Effect
BY GiveUpWrites, EndsOne DEF ActiveStatus

LEMMA FailAttemptEffect ==
    ASSUME IndInv, NEW w \in Worker, job[w].pc # "idle", FailAttempt(job[w].p)
    PROVE  Effect
<1> DEFINE b == payment[job[w].p].booking
<1>1. b \in Booking
  BY JobPayment
<1>2. CASE booking[b].st = "pending_payment"
  <2>1. booking' = WithStatus(b, "cancelled") /\ slot' = [slot EXCEPT ![booking[b].slot] = "open"]
    BY <1>1, <1>2, ReleasedIsOpen DEF FailAttempt
  <2> QED BY <1>1, <1>2, <2>1, EndsOne DEF ActiveStatus
<1>3. CASE booking[b].st # "pending_payment"
  BY <1>3, UnchangedIsQuiet DEF FailAttempt
<1> QED BY <1>2, <1>3

LEMMA JobStepEffect ==
    ASSUME IndInv, NEW w \in Worker, JobStep(w) PROVE Effect
<1> DEFINE b == payment[job[w].p].booking
<1>1. CASE \/ RecordTrack(w) \/ RecordRefusal(w) \/ Verify(w) \/ SettleFlagged(w)
           \/ SettleNothing(w) \/ EnsureUnpaid(w) \/ CreateRefused(w)
  BY <1>1, UnchangedIsQuiet DEF RecordTrack, RecordRefusal, Verify, SettleFlagged,
     SettleNothing, EnsureUnpaid, CreateRefused
<1>2. CASE SettlePaid(w)
  <2>1. b \in Booking
    BY <1>2, JobPayment DEF SettlePaid
  <2>2. Sells(b)
    BY <1>2 DEF SettlePaid, Sells
  <2> QED BY <2>1, <2>2 DEF Effect
<1>3. CASE RecordFailedAttempt(w)
  BY <1>3, FailAttemptEffect, UnchangedIsQuiet DEF RecordFailedAttempt
<1>4. CASE Classify(w)
  BY <1>4, FailAttemptEffect, UnchangedIsQuiet DEF Classify
<1>5. CASE ExpireCheckout(w)
  <2>1. CASE Expirable(job[w].p)
    <3>1. b \in Booking /\ booking[b].st = "pending_payment"
      BY <1>5, <2>1, JobPayment DEF ExpireCheckout, Expirable
    <3>2. /\ booking' = WithStatus(b, "expired")
          /\ slot' = [slot EXCEPT ![booking[b].slot] = "open"]
      BY <1>5, <2>1, <3>1, ReleasedIsOpen DEF ExpireCheckout
    <3> QED BY <3>1, <3>2, EndsOne DEF ActiveStatus
  <2>2. CASE ~Expirable(job[w].p)
    BY <1>5, <2>2, UnchangedIsQuiet DEF ExpireCheckout
  <2> QED BY <2>1, <2>2
<1>6. CASE CancelRelocked(w)
  <2>1. b \in Booking
    BY <1>6, JobPayment DEF CancelRelocked
  <2> QED BY <1>6, <2>1, GiveUpEffect, UnchangedIsQuiet DEF CancelRelocked
<1>7. ASSUME NEW s \in Slot, CreateAfterResolve(w, s)
      PROVE  Effect
  <2>1. booking[b].user \in User
    BY <1>7, JobPayment DEF CreateAfterResolve, IndInv, RowsAreLinked
  <2>2. Inserts(booking[b].user, s)
    BY <1>7 DEF CreateAfterResolve, Inserts
  <2> QED BY <2>1, <2>2 DEF Effect
<1> QED BY <1>1, <1>2, <1>3, <1>4, <1>5, <1>6, <1>7 DEF JobStep

LEMMA SweepEffect == ASSUME IndInv, Sweep PROVE Effect
<1>1. PICK B \in SUBSET {b \in Booking : Sweepable(b)} :
        /\ booking' = [b \in Booking |->
              IF b \in B THEN [booking[b] EXCEPT !.st = "expired"] ELSE booking[b]]
        /\ slot' = [s \in Slot |->
              IF \E b \in B : booking[b].slot = s THEN "open" ELSE slot[s]]
  BY DEF Sweep
<1>2. booking \in [Booking -> BookingType]
  BY DEF IndInv, TypeOK, BookingType
<1>3. \A b \in B : booking[b].st \in ActiveStatus /\ booking'[b].st \in {"cancelled", "expired"}
  BY <1>1, <1>2 DEF Sweepable, ActiveStatus, BookingType
<1>4. \A b \in Booking \ B : Same(b)
  BY <1>1 DEF Same
<1>5. Ends(B)
  BY <1>1, <1>3, <1>4 DEF Ends
<1>6. B \in SUBSET Booking
  OBVIOUS
<1> QED BY <1>5, <1>6 DEF Effect

(* Every step has one of the four effects. *)
LEMMA StepEffect == ASSUME IndInv, [Next]_vars PROVE Effect
<1>1. ASSUME NEW u \in User, NEW s \in Slot, CreateBooking(u, s)
      PROVE  Effect
  BY <1>1 DEF CreateBooking, Effect, Inserts
<1>2. ASSUME NEW w \in Request, NEW u \in User, CreateResolvesOld(w, u)
      PROVE  Effect
  BY <1>2, UnchangedIsQuiet DEF CreateResolvesOld
<1>3. ASSUME NEW b \in Booking, BookingRequest(b)
      PROVE  Effect
  <2>1. CASE PayTooLate(b)
    <3>1. /\ booking' = WithStatus(b, "expired") /\ booking[b].st = "pending_payment"
          /\ slot' = [slot EXCEPT ![booking[b].slot] = "open"]
      BY <2>1, ReleasedIsOpen DEF PayTooLate
    <3> QED BY <3>1, EndsOne DEF ActiveStatus
  <2>2. CASE CancelUnpaid(b)
    BY <2>2, GiveUpEffect DEF CancelUnpaid
  <2>3. CASE CancelConfirmed(b)
    BY <2>3, EndsOne DEF CancelConfirmed, ActiveStatus
  <2>4. ASSUME NEW release_slot \in BOOLEAN, ManagerCancel(b, release_slot)
        PROVE  Effect
    <3>1. \E x \in {"open", "blocked"} : slot' = [slot EXCEPT ![booking[b].slot] = x]
      BY <2>4 DEF ManagerCancel
    <3> QED BY <2>4, <3>1, EndsOne DEF ManagerCancel
  <2> QED BY <1>3, <2>1, <2>2, <2>3, <2>4 DEF BookingRequest
<1>4. ASSUME NEW b \in Booking, Lapse(b)
      PROVE  Effect
  BY <1>4 DEF Lapse, Effect, Quiet, Same, IndInv, TypeOK
<1>5. ASSUME NEW w \in Request, NEW b \in Booking, StartPayment(w, b) \/ CancelStarts(w, b)
      PROVE  Effect
  BY <1>5, UnchangedIsQuiet DEF StartPayment, CancelStarts
<1>6. ASSUME NEW w \in Request, NEW p \in Payment, StartResolve(w, p)
      PROVE  Effect
  BY <1>6, UnchangedIsQuiet DEF StartResolve
<1>7. ASSUME NEW w \in Worker, JobStep(w)
      PROVE  Effect
  BY <1>7, JobStepEffect
<1>8. ASSUME NEW p \in Payment, Reconcile(p) \/ PayerPays(p) \/ GatewayCloses(p)
      PROVE  Effect
  BY <1>8, UnchangedIsQuiet DEF Reconcile, StartResolve, PayerPays, GatewayCloses
<1>9. CASE Sweep \/ CleanNonPayable
  BY <1>9, SweepEffect, UnchangedIsQuiet DEF CleanNonPayable
<1>10. ASSUME NEW w \in Worker, Crash(w) \/ LoseVerifyReply(w) \/ LoseInquiry(w)
       PROVE  Effect
  BY <1>10, UnchangedIsQuiet DEF Crash, LoseVerifyReply, LoseInquiry
<1>11. CASE UNCHANGED vars
  BY <1>11, UnchangedIsQuiet DEF vars
<1> QED BY <1>1, <1>2, <1>3, <1>4, <1>5, <1>6, <1>7, <1>8, <1>9, <1>10, <1>11 DEF Next

-----------------------------------------------------------------------------
(* The checkout implements SlotSale *)

(* What the sale of a slot is: decided by the slot if it is free, else by  *)
(* the one active booking on it.                                           *)
FreeSales ==
    \A s \in Slot :
        /\ slot[s] = "open" => SaleOf(s) = Sale!Offered
        /\ slot[s] = "blocked" => SaleOf(s) = Sale!Withdrawn
        /\ slot[s] \in {"open", "blocked"} \/ ActiveOn(s) # {}

BoundSales ==
    \A s \in Slot : \A b \in Booking :
        booking[b].slot = s =>
        /\ booking[b].st = "pending_payment" =>
              slot[s] = "reserving" /\ SaleOf(s) = Sale!HeldBy(booking[b].user)
        /\ booking[b].st = "confirmed" =>
              slot[s] = "reserved" /\ SaleOf(s) = Sale!SoldTo(booking[b].user)

LEMMA SalesAreFree == IndInv => FreeSales
<1> SUFFICES ASSUME IndInv, NEW s \in Slot
             PROVE  /\ slot[s] = "open" => SaleOf(s) = Sale!Offered
                    /\ slot[s] = "blocked" => SaleOf(s) = Sale!Withdrawn
                    /\ slot[s] \in {"open", "blocked"} \/ ActiveOn(s) # {}
  BY DEF FreeSales
<1>1. slot[s] \in {"open", "blocked"} => ActiveOn(s) = {}
  BY IndInvMatches DEF SlotMatchesBookings
<1>2. slot[s] \in {"open", "blocked"} \/ ActiveOn(s) # {}
  BY DEF IndInv, TypeOK, SlotStatus, SlotRepeatsBooking
<1> QED BY <1>1, <1>2 DEF SaleOf, Sale!Offered, Sale!Withdrawn

LEMMA SalesAreBound == IndInv => BoundSales
<1> SUFFICES ASSUME IndInv, NEW s \in Slot, NEW b \in Booking, booking[b].slot = s,
                    booking[b].st \in ActiveStatus
             PROVE  /\ booking[b].st = "pending_payment" =>
                          slot[s] = "reserving" /\ SaleOf(s) = Sale!HeldBy(booking[b].user)
                    /\ booking[b].st = "confirmed" =>
                          slot[s] = "reserved" /\ SaleOf(s) = Sale!SoldTo(booking[b].user)
  BY DEF BoundSales, ActiveStatus
<1>1. ActiveOn(s) = {b}
  BY DEF IndInv, ActiveBookingsDiffer, ActiveOn
<1>2. (CHOOSE c \in ActiveOn(s) : TRUE) = b
  BY <1>1
<1>3. CASE booking[b].st = "pending_payment"
  <2>1. slot[s] = "reserving"
    BY <1>3 DEF IndInv, SlotRepeatsBooking
  <2>2. SaleOf(s) = [phase |-> "held", holder |-> booking[b].user]
    BY <1>1, <1>2, <2>1 DEF SaleOf
  <2> QED BY <1>3, <2>1, <2>2 DEF Sale!HeldBy
<1>4. CASE booking[b].st = "confirmed"
  <2>1. slot[s] = "reserved"
    BY <1>4 DEF IndInv, SlotRepeatsBooking
  <2>2. SaleOf(s) = [phase |-> "sold", holder |-> booking[b].user]
    BY <1>1, <1>2, <2>1 DEF SaleOf
  <2> QED BY <1>4, <2>1, <2>2 DEF Sale!SoldTo
<1> QED BY <1>3, <1>4 DEF ActiveStatus

LEMMA SalesNext == IndInv' => FreeSales' /\ BoundSales'
BY SalesAreFree, SalesAreBound, PTL

(* If neither the slot nor the active bookings on it change, the sale does not. *)
LEMMA SameSale ==
    ASSUME IndInv, IndInv', NEW s \in Slot, slot'[s] = slot[s],
           \A b \in ActiveOn(s) : Same(b)
    PROVE  SaleOf(s)' = SaleOf(s)
<1>1. FreeSales /\ FreeSales' /\ BoundSales /\ BoundSales'
  BY SalesAreFree, SalesAreBound, SalesNext
<1>2. CASE slot[s] \in {"open", "blocked"}
  BY <1>1, <1>2 DEF FreeSales
<1>3. CASE ActiveOn(s) # {}
  <2>1. PICK b : b \in ActiveOn(s)
    BY <1>3
  <2>2. b \in Booking /\ booking[b].slot = s /\ booking[b].st \in ActiveStatus
    BY <2>1 DEF ActiveOn
  <2>3. booking'[b].st = booking[b].st /\ booking'[b].user = booking[b].user
        /\ booking'[b].slot = s
    BY <2>1, <2>2 DEF Same
  <2>4. CASE booking[b].st = "pending_payment"
    <3>1. SaleOf(s) = Sale!HeldBy(booking[b].user)
      BY <1>1, <2>2, <2>4 DEF BoundSales
    <3>2. SaleOf(s)' = Sale!HeldBy(booking'[b].user)
      BY <1>1, <2>2, <2>3, <2>4 DEF BoundSales, Sale!HeldBy
    <3> QED BY <2>3, <3>1, <3>2
  <2>5. CASE booking[b].st = "confirmed"
    <3>1. SaleOf(s) = Sale!SoldTo(booking[b].user)
      BY <1>1, <2>2, <2>5 DEF BoundSales
    <3>2. SaleOf(s)' = Sale!SoldTo(booking'[b].user)
      BY <1>1, <2>2, <2>3, <2>5 DEF BoundSales, Sale!SoldTo
    <3> QED BY <2>3, <3>1, <3>2
  <2> QED BY <2>2, <2>4, <2>5 DEF ActiveStatus
<1> QED BY <1>1, <1>2, <1>3 DEF FreeSales

(* The step of one slot, read off the effect *)
SaleStep(s) ==
    \/ SaleOf(s)' = SaleOf(s)
    \/ SaleOf(s) = Sale!Offered /\ \E u \in User : SaleOf(s)' = Sale!HeldBy(u)
    \/ \E u \in User : SaleOf(s) = Sale!HeldBy(u) /\ SaleOf(s)' = Sale!SoldTo(u)
    \/ SaleOf(s).phase \in {"held", "sold"} /\ SaleOf(s)' \in {Sale!Offered, Sale!Withdrawn}

LEMMA EndsSale ==
    ASSUME IndInv, IndInv', NEW s \in Slot, NEW B \in SUBSET Booking, Ends(B)
    PROVE  SaleStep(s)
<1>1. FreeSales' /\ BoundSales
  BY SalesAreBound, SalesNext
<1>2. CASE \E b \in B : booking[b].slot = s
  <2>1. PICK b \in B : booking[b].slot = s
    BY <1>2
  <2>2. SaleOf(s).phase \in {"held", "sold"}
    BY <1>1, <2>1 DEF Ends, BoundSales, ActiveStatus, Sale!HeldBy, Sale!SoldTo
  <2>3. slot'[s] \in {"open", "blocked"}
    BY <1>2 DEF Ends
  <2>4. SaleOf(s)' \in {Sale!Offered, Sale!Withdrawn}
    BY <1>1, <2>3 DEF FreeSales, Sale!Offered, Sale!Withdrawn
  <2> QED BY <2>2, <2>4 DEF SaleStep
<1>3. CASE ~\E b \in B : booking[b].slot = s
  <2>1. slot'[s] = slot[s]
    BY <1>3 DEF Ends
  <2>2. \A b \in ActiveOn(s) : Same(b)
    BY <1>3 DEF Ends, ActiveOn
  <2> QED BY <2>1, <2>2, SameSale DEF SaleStep
<1> QED BY <1>2, <1>3

LEMMA SellsSale ==
    ASSUME IndInv, IndInv', NEW s \in Slot, NEW b \in Booking, Sells(b)
    PROVE  SaleStep(s)
<1>1. BoundSales /\ BoundSales'
  BY SalesAreBound, SalesNext
<1>2. /\ booking \in [Booking -> BookingType] /\ slot \in [Slot -> SlotStatus]
      /\ booking[b].slot \in Slot /\ booking[b].user \in User
  BY DEF IndInv, TypeOK, BookingType, RowsAreLinked, Sells
<1>3. /\ booking'[b].st = "confirmed" /\ booking'[b].user = booking[b].user
      /\ booking'[b].slot = booking[b].slot
      /\ \A c \in Booking \ {b} : Same(c)
  BY <1>2 DEF Sells, WithStatus, BookingType, Same
<1>4. CASE s = booking[b].slot
  <2>1. SaleOf(s) = Sale!HeldBy(booking[b].user)
    BY <1>1, <1>4 DEF BoundSales, Sells
  <2>2. SaleOf(s)' = Sale!SoldTo(booking[b].user)
    BY <1>1, <1>3, <1>4 DEF BoundSales, Sale!SoldTo
  <2> QED BY <1>2, <2>1, <2>2 DEF SaleStep
<1>5. CASE s # booking[b].slot
  <2>1. slot'[s] = slot[s]
    BY <1>2, <1>5 DEF Sells
  <2>2. \A c \in ActiveOn(s) : Same(c)
    BY <1>3, <1>5 DEF ActiveOn
  <2> QED BY <2>1, <2>2, SameSale DEF SaleStep
<1> QED BY <1>4, <1>5

LEMMA InsertsSale ==
    ASSUME IndInv, IndInv', NEW s \in Slot, NEW u \in User, NEW t \in Slot, Inserts(u, t)
    PROVE  SaleStep(s)
<1> DEFINE old == CheckoutOf(u)
<1>1. FreeSales /\ FreeSales' /\ BoundSales /\ BoundSales'
  BY SalesAreFree, SalesAreBound, SalesNext
<1>2. PICK n \in Booking :
        /\ booking[n].st = "none"
        /\ booking' = [b \in Booking |->
                IF b = n THEN [st |-> "pending_payment", user |-> u,
                               slot |-> t, lapsed |-> FALSE]
                ELSE IF b \in old THEN [booking[b] EXCEPT !.st = "expired"]
                ELSE booking[b]]
  BY DEF Inserts, InsertBooking, NextRow
<1>3. slot[t] = "open" /\ \A r \in Slot : slot'[r] =
         IF r = t THEN "reserving"
         ELSE IF slot[r] = "reserving" /\ \E b \in old : booking[b].slot = r
         THEN "open" ELSE slot[r]
  BY DEF Inserts, InsertBooking
<1>4. CASE s = t
  <2>1. SaleOf(s) = Sale!Offered
    BY <1>1, <1>3, <1>4 DEF FreeSales
  <2>2. booking'[n].st = "pending_payment" /\ booking'[n].user = u /\ booking'[n].slot = s
    BY <1>2, <1>4
  <2>3. SaleOf(s)' = Sale!HeldBy(u)
    BY <1>1, <2>2 DEF BoundSales, Sale!HeldBy
  <2> QED BY <2>1, <2>3 DEF SaleStep
<1>5. CASE s # t /\ \E b \in old : booking[b].slot = s
  <2>1. PICK b \in old : booking[b].slot = s
    BY <1>5
  <2>2. b \in Booking /\ booking[b].st = "pending_payment"
    BY DEF CheckoutOf
  <2>3. slot[s] = "reserving" /\ SaleOf(s) = Sale!HeldBy(booking[b].user)
    BY <1>1, <2>1, <2>2 DEF BoundSales
  <2>4. slot'[s] = "open"
    BY <1>3, <1>5, <2>3
  <2>5. SaleOf(s)' = Sale!Offered
    BY <1>1, <2>4 DEF FreeSales, Sale!Offered
  <2>6. SaleOf(s).phase = "held"
    BY <2>3 DEF Sale!HeldBy
  <2> QED BY <2>5, <2>6 DEF SaleStep
<1>6. CASE s # t /\ ~\E b \in old : booking[b].slot = s
  <2>1. slot'[s] = slot[s]
    BY <1>3, <1>6
  <2>2. ASSUME NEW b \in ActiveOn(s) PROVE Same(b)
    <3>1. b \in Booking /\ b # n /\ b \notin old
      BY <1>2, <1>6 DEF ActiveOn, ActiveStatus
    <3> QED BY <1>2, <3>1 DEF Same
  <2> QED BY <2>1, <2>2, SameSale DEF SaleStep
<1> QED BY <1>4, <1>5, <1>6

LEMMA StepSale ==
    ASSUME IndInv, IndInv', [Next]_vars, NEW s \in Slot
    PROVE  SaleStep(s)
<1>1. CASE Quiet
  <2>1. slot'[s] = slot[s] /\ \A b \in ActiveOn(s) : Same(b)
    BY <1>1 DEF Quiet, ActiveOn
  <2> QED BY <2>1, SameSale DEF SaleStep
<1> QED BY <1>1, StepEffect, EndsSale, SellsSale, InsertsSale DEF Effect

(* A hold is never handed to another user and a slot is sold only to its   *)
(* holder, whichever requests, jobs and gateway answers interleave: every  *)
(* behaviour of the checkout is one of SlotSale.                           *)
THEOREM SaleRefinement == Spec => ImplementsSlotSale
<1>1. Init => Sale!Init
  <2> SUFFICES ASSUME Init PROVE [s \in Slot |-> SaleOf(s)] = [s \in Slot |-> Sale!Offered]
    BY DEF Sale!Init
  <2>1. \A s \in Slot : slot[s] = "open"
    BY DEF Init
  <2> QED BY <2>1, InitEstablishes, SalesAreFree DEF FreeSales
<1>2. IndInv /\ IndInv' /\ [Next]_vars => [Sale!Next]_([s \in Slot |-> SaleOf(s)])
  <2> SUFFICES ASSUME IndInv, IndInv', [Next]_vars PROVE Sale!Next
    OBVIOUS
  <2> SUFFICES ASSUME NEW s \in Slot
               PROVE  SaleOf(s)' = SaleOf(s) \/ Sale!SlotStep(s)
    BY DEF Sale!Next
  <2>1. SaleStep(s)
    BY StepSale
  <2> QED BY <2>1 DEF SaleStep, Sale!SlotStep, Sale!Hold, Sale!Sell, Sale!Free
<1> QED BY <1>1, <1>2, Invariance, PTL DEF Spec, ImplementsSlotSale, Sale!Spec
=============================================================================
