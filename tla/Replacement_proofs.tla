------------------------- MODULE Replacement_proofs -------------------------
EXTENDS Replacement, TLAPS

(* The rows, as TypeOK has them *)
BookingRow == [st : BookingStatus, user : User \cup {None}, replaces : Booking \cup {0}]
OfferRow   == [st : OfferStatus, booking : Booking \cup {0}]
HoldRow    == [st : HoldStatus, offer : Offer \cup {0}, user : User \cup {None},
               token : BOOLEAN, track : BOOLEAN, lapsed : BOOLEAN, flag : Flag]
JobRow     == [pc : Pc, h : Hold \cup {0}, seenOffer : OfferStatus, seenSlot : SlotStatus]

(* What is typed besides them *)
RestTyped ==
    /\ started \in BOOLEAN
    /\ slot \in [st : SlotStatus, reserved : BOOLEAN]
    /\ gate \in [Hold -> [st : GateStatus, exact : BOOLEAN]]
    /\ refund \in [Booking -> SUBSET RefundType]
    /\ penalty \in SUBSET Booking
    /\ faults \in 0..MaxFault

LEMMA TypeSplits ==
    TypeOK <=> /\ booking \in [Booking -> BookingRow]
               /\ offer \in [Offer -> OfferRow]
               /\ hold \in [Hold -> HoldRow]
               /\ job \in [Worker -> JobRow]
               /\ RestTyped
BY DEF TypeOK, BookingRow, OfferRow, HoldRow, JobRow, RestTyped

(* The state between two steps, as a proof of a step needs it *)
Linked == TypeOK /\ RowsAreLinked /\ JobsHoldHolds

(***************************************************************************)
(* The effect of a step on the bookings: none, the status of one booking   *)
(* turns, it is handed over to the owner of a hold before the slot starts, *)
(* or a new one is sold.                                                   *)
(***************************************************************************)
Turns(b, from, to) ==
    /\ booking[b].st = from
    /\ booking' = [booking EXCEPT ![b].st = to]

HandsOver(b, n, u) ==
    /\ ~started
    /\ b # n
    /\ booking[b].st = "pending_cancellation"
    /\ u # booking[b].user
    /\ booking[n].st = "none"
    /\ booking' = [booking EXCEPT ![b].st = "transferred", ![n] =
                      [st |-> "confirmed", user |-> u, replaces |-> b]]

Sells(n, u) ==
    /\ Active = {}
    /\ booking[n].st = "none"
    /\ booking' = [booking EXCEPT ![n] = [st |-> "confirmed", user |-> u, replaces |-> 0]]

BookingEffect ==
    \/ booking' = booking
    \/ \E b \in Booking :
          \/ Turns(b, "confirmed", "pending_cancellation")
          \/ Turns(b, "pending_cancellation", "confirmed")
          \/ Turns(b, "confirmed", "cancelled")
          \/ Turns(b, "pending_cancellation", "cancelled")
    \/ \E b, n \in Booking, u \in User : HandsOver(b, n, u)
    \/ \E n \in Booking, u \in User : Sells(n, u)

(* Offers and holds keep what they refer to, and are inserted with         *)
(* references to rows that exist; a job works on the row of a hold.        *)
OfferEffect ==
    /\ offer' \in [Offer -> OfferRow]
    /\ \A r \in Offer :
          \/ offer'[r] = offer[r]
          \/ /\ offer[r].st # "none" /\ offer'[r].st # "none"
             /\ offer'[r].booking = offer[r].booking
          \/ /\ offer[r].st = "none" /\ offer'[r].st # "none"
             /\ offer'[r].booking \in Booking
             /\ booking[offer'[r].booking].st # "none"

HoldEffect ==
    /\ hold' \in [Hold -> HoldRow]
    /\ \A h \in Hold :
          \/ hold'[h] = hold[h]
          \/ /\ hold[h].st # "none" /\ hold'[h].st # "none"
             /\ hold'[h].offer = hold[h].offer
             /\ hold'[h].user = hold[h].user
          \/ /\ hold[h].st = "none" /\ hold'[h].st # "none"
             /\ hold'[h].offer \in Offer
             /\ offer[hold'[h].offer].st # "none"
             /\ hold'[h].user \in User \ {booking[offer[hold'[h].offer].booking].user}

JobEffect ==
    /\ job' \in [Worker -> JobRow]
    /\ \A w \in Worker : job'[w].pc # "idle" =>
          job'[w].h \in Hold /\ hold[job'[w].h].st # "none"

Effect == BookingEffect /\ OfferEffect /\ HoldEffect /\ JobEffect /\ RestTyped'

-----------------------------------------------------------------------------
(* The tables as they are *)

LEMMA SameOffers == ASSUME Linked, UNCHANGED offer PROVE OfferEffect
BY TypeSplits DEF Linked, OfferEffect

LEMMA SameHolds == ASSUME Linked, UNCHANGED hold PROVE HoldEffect
BY TypeSplits DEF Linked, HoldEffect

LEMMA SameJobs == ASSUME Linked, UNCHANGED job PROVE JobEffect
BY TypeSplits DEF Linked, JobEffect, JobsHoldHolds

LEMMA SameBookings == ASSUME UNCHANGED booking PROVE BookingEffect
BY DEF BookingEffect

(* A hold has an offer, and the offer a booking of another user. *)
LEMMA HoldRefers ==
    ASSUME Linked, NEW h \in Hold, hold[h].st # "none"
    PROVE  /\ hold[h].offer \in Offer
           /\ offer[hold[h].offer].st \in OfferStatus \ {"none"}
           /\ OriginalOf(h) \in Booking
           /\ booking[OriginalOf(h)].st # "none"
           /\ hold[h].user \in User \ {booking[OriginalOf(h)].user}
<1>1. /\ hold[h].offer \in Offer
      /\ offer[hold[h].offer].st # "none"
      /\ hold[h].user \in User \ {booking[OriginalOf(h)].user}
  BY DEF Linked, RowsAreLinked
<1>2. offer[hold[h].offer] \in OfferRow
  BY <1>1, TypeSplits DEF Linked
<1>3. OriginalOf(h) \in Booking /\ booking[OriginalOf(h)].st # "none"
  BY <1>1 DEF Linked, RowsAreLinked, OriginalOf
<1> QED BY <1>1, <1>2, <1>3 DEF OfferRow

LEMMA JobRefers ==
    ASSUME Linked, NEW w \in Worker, job[w].pc # "idle"
    PROVE  /\ job[w].h \in Hold
           /\ hold[job[w].h].st # "none"
           /\ hold[job[w].h].offer \in Offer
           /\ offer[hold[job[w].h].offer].st \in OfferStatus \ {"none"}
           /\ OriginalOf(job[w].h) \in Booking
           /\ booking[OriginalOf(job[w].h)].st # "none"
           /\ hold[job[w].h].user \in User \ {booking[OriginalOf(job[w].h)].user}
<1>1. job[w].h \in Hold /\ hold[job[w].h].st # "none"
  BY DEF Linked, JobsHoldHolds
<1> QED BY <1>1, HoldRefers

-----------------------------------------------------------------------------
(* The updates of Replacement *)

LEMMA OfferTurns ==
    ASSUME Linked, NEW r \in Offer, offer[r].st # "none",
           NEW st \in OfferStatus \ {"none"}, offer' = WithOffer(r, st)
    PROVE  OfferEffect
<1>1. offer \in [Offer -> OfferRow]
  BY TypeSplits DEF Linked
<1>2. \A q \in Offer : offer'[q] = IF q = r THEN [offer[r] EXCEPT !.st = st] ELSE offer[q]
  BY <1>1 DEF WithOffer
<1>3. offer' \in [Offer -> OfferRow]
  BY <1>1 DEF WithOffer, OfferRow
<1>4. offer[r] \in OfferRow
  BY <1>1
<1> QED BY <1>2, <1>3, <1>4 DEF OfferEffect, OfferRow

LEMMA HoldTurns ==
    ASSUME Linked, NEW h \in Hold, hold[h].st # "none",
           hold' \in [Hold -> HoldRow],
           hold'[h].st # "none",
           hold'[h].offer = hold[h].offer, hold'[h].user = hold[h].user,
           \A g \in Hold \ {h} : hold'[g] = hold[g]
    PROVE  HoldEffect
BY DEF HoldEffect

LEMMA HoldEnds ==
    ASSUME Linked, NEW h \in Hold, hold[h].st # "none",
           NEW st \in HoldStatus \ {"none"}, hold' = WithHold(h, st)
    PROVE  HoldEffect
<1>1. hold \in [Hold -> HoldRow] /\ hold[h] \in HoldRow
  BY TypeSplits DEF Linked
<1>2. hold' \in [Hold -> HoldRow]
  BY <1>1 DEF WithHold, HoldRow
<1>3. /\ hold'[h] = [hold[h] EXCEPT !.st = st, !.token = FALSE]
      /\ \A g \in Hold \ {h} : hold'[g] = hold[g]
  BY <1>1 DEF WithHold
<1> QED BY <1>1, <1>2, <1>3, HoldTurns DEF HoldRow

LEMMA ManyHoldsEnd ==
    ASSUME Linked, NEW H \in SUBSET Hold, \A h \in H : hold[h].st # "none",
           NEW st \in HoldStatus \ {"none"}, hold' = WithHolds(H, st)
    PROVE  HoldEffect
<1>1. hold \in [Hold -> HoldRow]
  BY TypeSplits DEF Linked
<1>2. hold' \in [Hold -> HoldRow]
  BY <1>1 DEF WithHolds, HoldRow
<1>3. \A h \in Hold : hold'[h] = IF h \in H THEN [hold[h] EXCEPT !.st = st, !.token = FALSE]
                                 ELSE hold[h]
  BY DEF WithHolds
<1>4. \A h \in Hold : hold[h] \in HoldRow
  BY <1>1
<1> QED BY <1>2, <1>3, <1>4 DEF HoldEffect, HoldRow

LEMMA GotoEffect ==
    ASSUME Linked, NEW w \in Worker, job[w].pc # "idle", NEW pc \in Pc, Goto(w, pc)
    PROVE  JobEffect
<1>1. job \in [Worker -> JobRow]
  BY TypeSplits DEF Linked
<1>2. job[w].h \in Hold /\ hold[job[w].h].st # "none"
  BY JobRefers
<1> DEFINE row == [Idle EXCEPT !.pc = pc, !.h = job[w].h]
<1>3. row \in JobRow /\ row.h = job[w].h
  BY <1>2 DEF Idle, JobRow, Pc, OfferStatus, SlotStatus
<1>4. job' = [job EXCEPT ![w] = row]
  BY DEF Goto
<1> HIDE DEF row
<1>5. job' \in [Worker -> JobRow]
  BY <1>1, <1>3, <1>4
<1>6. \A v \in Worker : job'[v] = IF v = w THEN row ELSE job[v]
  BY <1>1, <1>4
<1> QED BY <1>2, <1>3, <1>5, <1>6 DEF JobEffect, Linked, JobsHoldHolds, JobRow

LEMMA ReturnEffect ==
    ASSUME Linked, NEW w \in Worker, Return(w)
    PROVE  JobEffect
<1>1. job \in [Worker -> JobRow]
  BY TypeSplits DEF Linked
<1>2. Idle \in JobRow /\ Idle.pc = "idle"
  BY DEF Idle, JobRow, Pc, OfferStatus, SlotStatus
<1>3. job' \in [Worker -> JobRow]
  BY <1>1, <1>2 DEF Return
<1> QED BY <1>1, <1>2, <1>3 DEF Return, JobEffect, Linked, JobsHoldHolds

LEMMA BeginEffect ==
    ASSUME Linked, NEW w \in Worker, NEW h \in Hold, hold[h].st # "none",
           NEW pc \in Pc, Begin(w, h, pc)
    PROVE  JobEffect
<1>1. job \in [Worker -> JobRow]
  BY TypeSplits DEF Linked
<1>2. [Idle EXCEPT !.pc = pc, !.h = h] \in JobRow /\ [Idle EXCEPT !.pc = pc, !.h = h].h = h
  BY DEF Idle, JobRow, Pc, OfferStatus, SlotStatus
<1>3. job' = [job EXCEPT ![w] = [Idle EXCEPT !.pc = pc, !.h = h]]
  BY DEF Begin
<1>4. job' \in [Worker -> JobRow]
  BY <1>1, <1>2, <1>3
<1> QED BY <1>1, <1>2, <1>3, <1>4 DEF JobEffect, Linked, JobsHoldHolds

LEMMA LockEffect ==
    ASSUME Linked, NEW w \in Worker, NEW h \in Hold, hold[h].st # "none",
           NEW pc \in Pc, Lock(w, h, pc)
    PROVE  JobEffect
<1> DEFINE row == [pc |-> pc, h |-> h, seenOffer |-> offer[hold[h].offer].st,
                   seenSlot |-> slot.st]
<1>1. job \in [Worker -> JobRow] /\ slot.st \in SlotStatus
  BY TypeSplits DEF Linked, RestTyped
<1>2. row \in JobRow /\ row.h = h
  BY <1>1, HoldRefers DEF JobRow
<1>3. job' = [job EXCEPT ![w] = row]
  BY DEF Lock
<1> HIDE DEF row
<1>4. job' \in [Worker -> JobRow]
  BY <1>1, <1>2, <1>3
<1> QED BY <1>1, <1>2, <1>3, <1>4 DEF JobEffect, Linked, JobsHoldHolds

-----------------------------------------------------------------------------
SlotRow == [st : SlotStatus, reserved : BOOLEAN]

LEMMA ConfirmedEffect ==
    ASSUME Linked, NEW b \in Booking, booking' = Confirmed(b)
    PROVE  BookingEffect
<1>1. booking \in [Booking -> BookingRow]
  BY TypeSplits DEF Linked
<1>2. CASE booking[b].st = "pending_cancellation"
  <2>1. booking' = [booking EXCEPT ![b].st = "confirmed"]
    BY <1>1, <1>2 DEF Confirmed
  <2> QED BY <1>2, <2>1 DEF BookingEffect, Turns
<1>3. CASE booking[b].st # "pending_cancellation"
  <2>1. booking[b] \in BookingRow
    BY <1>1
  <2>2. booking' = [booking EXCEPT ![b] = [@ EXCEPT !.st = booking[b].st]]
    BY <1>1, <1>3 DEF Confirmed
  <2>3. [booking[b] EXCEPT !.st = booking[b].st] = booking[b]
    BY <2>1 DEF BookingRow
  <2>4. booking' = booking
    BY <1>1, <2>2, <2>3
  <2> QED BY <2>4 DEF BookingEffect
<1> QED BY <1>2, <1>3

LEMMA RestoredEffect ==
    ASSUME Linked, NEW r \in Offer, offer[r].booking \in Booking, Restored(r)
    PROVE  BookingEffect /\ slot' \in SlotRow
<1>1. BookingEffect
  BY ConfirmedEffect DEF Restored
<1>2. slot \in SlotRow
  BY TypeSplits DEF Linked, RestTyped, SlotRow
<1> QED BY <1>1, <1>2 DEF Restored, Reserved, SlotRow, SlotStatus

LEMMA SetOfferEffect ==
    ASSUME Linked, NEW w \in Worker, job[w].pc # "idle",
           NEW st \in OfferStatus \ {"none"}, SetOffer(w, st)
    PROVE  OfferEffect
<1>1. hold[job[w].h].offer \in Offer /\ offer[hold[job[w].h].offer].st # "none"
  BY JobRefers
<1> QED BY <1>1, SameOffers, OfferTurns DEF SetOffer

(* A hold-first handler gives the offer back, or ends it. *)
LEMMA GiveBackEffect ==
    ASSUME Linked, NEW w \in Worker, job[w].pc # "idle", GiveBack(w)
    PROVE  BookingEffect /\ OfferEffect /\ slot' \in SlotRow
<1>1. OfferEffect
  BY SetOfferEffect DEF GiveBack, OfferStatus
<1>2. slot \in SlotRow
  BY TypeSplits DEF Linked, RestTyped, SlotRow
<1> QED BY <1>1, <1>2, SameBookings DEF GiveBack, SetReleased, SlotRow, SlotStatus

LEMMA GiveUpEffect ==
    ASSUME Linked, NEW w \in Worker, job[w].pc # "idle", GiveUp(w)
    PROVE  BookingEffect /\ OfferEffect /\ slot' \in SlotRow
<1>1. OfferEffect
  BY SetOfferEffect DEF GiveUp, OfferStatus
<1>2. /\ hold[job[w].h].offer \in Offer
      /\ offer[hold[job[w].h].offer].booking \in Booking
  BY JobRefers DEF OriginalOf
<1> QED BY <1>1, <1>2, RestoredEffect DEF GiveUp

LEMMA GiveBackOrUpEffect ==
    ASSUME Linked, NEW w \in Worker, job[w].pc # "idle", GiveBackOrUp(w)
    PROVE  BookingEffect /\ OfferEffect /\ slot' \in SlotRow
BY GiveBackEffect, GiveUpEffect DEF GiveBackOrUp

LEMMA GiveBackHeldEffect ==
    ASSUME Linked, NEW w \in Worker, job[w].pc # "idle", GiveBackHeld(w)
    PROVE  BookingEffect /\ OfferEffect /\ slot' \in SlotRow
<1>1. slot \in SlotRow
  BY TypeSplits DEF Linked, RestTyped, SlotRow
<1> QED BY <1>1, GiveBackEffect, SameOffers, SameBookings DEF GiveBackHeld

(* The parts of RestTyped that a step leaves alone or writes *)
LEMMA RestKept ==
    ASSUME Linked, slot' \in SlotRow,
           UNCHANGED <<started, gate, refund, penalty, faults>>
    PROVE  RestTyped'
BY TypeSplits DEF Linked, RestTyped, SlotRow

LEMMA AllRestKept ==
    ASSUME Linked, UNCHANGED <<started, slot, gate, refund, penalty, faults>>
    PROVE  RestTyped'
BY TypeSplits DEF Linked, RestTyped
-----------------------------------------------------------------------------
(* The owner and the manager *)

LEMMA CancelLateEffect ==
    ASSUME Linked, NEW b \in Booking, CancelLate(b) PROVE Effect
<1>1. BookingEffect
  BY DEF CancelLate, BookingEffect, Turns
<1>2. PICK r \in Offer : /\ offer[r].st = "none"
                         /\ offer' = [offer EXCEPT ![r] = [st |-> "open", booking |-> b]]
  BY DEF CancelLate, NextRow
<1>3. offer \in [Offer -> OfferRow]
  BY TypeSplits DEF Linked
<1>4. [st |-> "open", booking |-> b] \in OfferRow
  BY DEF OfferRow, OfferStatus
<1>5. booking[b].st # "none"
  BY DEF CancelLate
<1>6. OfferEffect
  BY <1>2, <1>3, <1>4, <1>5 DEF OfferEffect
<1>7. RestTyped'
  BY RestKept DEF CancelLate, Offered, SlotRow, SlotStatus
<1> QED BY <1>1, <1>6, <1>7, SameHolds, SameJobs DEF CancelLate, Effect

LEMMA WithdrawEffect ==
    ASSUME Linked, NEW b \in Booking, Withdraw(b) PROVE Effect
<1>1. BookingEffect
  BY DEF Withdraw, BookingEffect, Turns
<1>2. PICK r \in LiveOffers(b) : offer' = WithOffer(r, "revoked")
  BY DEF Withdraw
<1>3. OfferEffect
  BY <1>2, OfferTurns DEF LiveOffers, OfferStatus
<1>4. RestTyped'
  BY RestKept DEF Withdraw, Reserved, SlotRow, SlotStatus
<1> QED BY <1>1, <1>3, <1>4, SameHolds, SameJobs DEF Withdraw, Effect

LEMMA ManagerCancelEffect ==
    ASSUME Linked, NEW b \in Booking, NEW release_slot \in BOOLEAN,
           ManagerCancel(b, release_slot)
    PROVE  Effect
<1>1. BookingEffect
  BY DEF ManagerCancel, Active, BookingEffect, Turns
<1>2. OfferEffect
  <2>1. offer \in [Offer -> OfferRow] /\ \A r \in Offer : offer[r] \in OfferRow
    BY TypeSplits DEF Linked
  <2>2. CASE booking[b].st = "pending_cancellation"
    <3>1. offer' = [r \in Offer |-> IF r \in LiveOffers(b)
                      THEN [offer[r] EXCEPT !.st = "revoked"] ELSE offer[r]]
      BY <2>2 DEF ManagerCancel
    <3>2. offer' \in [Offer -> OfferRow]
      BY <2>1, <3>1 DEF OfferRow, OfferStatus
    <3> QED BY <2>1, <3>1, <3>2 DEF OfferEffect, OfferRow, LiveOffers
  <2> QED BY <2>2, SameOffers DEF ManagerCancel
<1>3. HoldEffect
  <2>1. CASE booking[b].st = "pending_cancellation"
    <3> DEFINE H == {h \in UNION {LiveHolds(r) : r \in LiveOffers(b)} : ~Locked(h)}
    <3>1. hold' = WithHolds(H, "cancelled")
      BY <2>1 DEF ManagerCancel
    <3>2. H \in SUBSET Hold /\ \A h \in H : hold[h].st # "none"
      BY DEF LiveHolds, Live
    <3> HIDE DEF H
    <3> QED BY <3>1, <3>2, ManyHoldsEnd DEF HoldStatus
  <2> QED BY <2>1, SameHolds DEF ManagerCancel
<1>4. RestTyped'
  BY TypeSplits DEF ManagerCancel, Linked, RestTyped, SlotStatus, RefundType
<1> QED BY <1>1, <1>2, <1>3, <1>4, SameJobs DEF ManagerCancel, Effect

-----------------------------------------------------------------------------
(* create_booking *)

LEMMA CreateHoldEffect ==
    ASSUME Linked, NEW u \in User, CreateHold(u) PROVE Effect
<1>1. PICK b \in Active : \E r \in LiveOffers(b) :
        /\ booking[b].user # u
        /\ \E n \in Hold :
              /\ NextRow(hold, n)
              /\ hold' = [WithHolds(LiveHolds(r), "expired") EXCEPT ![n] =
                    [st |-> "active", offer |-> r, user |-> u, token |-> FALSE,
                     track |-> FALSE, lapsed |-> FALSE, flag |-> "none"]]
        /\ offer' = WithOffer(r, "held")
        /\ slot' = [st |-> "reserving", reserved |-> TRUE]
        /\ UNCHANGED <<started, booking, gate, refund, penalty, job, faults>>
  BY DEF CreateHold
<1>2. PICK r \in LiveOffers(b) :
        /\ \E n \in Hold :
              /\ NextRow(hold, n)
              /\ hold' = [WithHolds(LiveHolds(r), "expired") EXCEPT ![n] =
                    [st |-> "active", offer |-> r, user |-> u, token |-> FALSE,
                     track |-> FALSE, lapsed |-> FALSE, flag |-> "none"]]
        /\ offer' = WithOffer(r, "held")
  BY <1>1
<1>3. PICK n \in Hold :
        /\ NextRow(hold, n)
        /\ hold' = [WithHolds(LiveHolds(r), "expired") EXCEPT ![n] =
              [st |-> "active", offer |-> r, user |-> u, token |-> FALSE,
               track |-> FALSE, lapsed |-> FALSE, flag |-> "none"]]
  BY <1>2
<1>4. r \in Offer /\ offer[r].st \in {"open", "held"} /\ offer[r].booking = b
  BY DEF LiveOffers
<1>5. HoldEffect
  <2> DEFINE row == [st |-> "active", offer |-> r, user |-> u, token |-> FALSE,
                     track |-> FALSE, lapsed |-> FALSE, flag |-> "none"]
             old == WithHolds(LiveHolds(r), "expired")
  <2>1. hold \in [Hold -> HoldRow] /\ \A h \in Hold : hold[h] \in HoldRow
    BY TypeSplits DEF Linked
  <2>2. row \in HoldRow /\ row.st # "none" /\ row.offer = r /\ row.user = u
    BY <1>4 DEF HoldRow, HoldStatus, Flag
  <2>3. old \in [Hold -> HoldRow]
    BY <2>1 DEF WithHolds, HoldRow, HoldStatus
  <2>4. \A h \in Hold :
          \/ old[h] = hold[h]
          \/ /\ hold[h].st # "none" /\ old[h].st # "none"
             /\ old[h].offer = hold[h].offer /\ old[h].user = hold[h].user
    BY <2>1 DEF WithHolds, LiveHolds, Live, HoldRow
  <2>5. hold[n].st = "none" /\ hold' = [old EXCEPT ![n] = row]
    BY <1>3 DEF NextRow
  <2>6. u \in User \ {booking[offer[r].booking].user} /\ offer[r].st # "none"
    BY <1>1, <1>4
  <2> HIDE DEF row, old
  <2>7. /\ hold' \in [Hold -> HoldRow]
        /\ \A h \in Hold : hold'[h] = IF h = n THEN row ELSE old[h]
    BY <2>2, <2>3, <2>5
  <2> QED BY <1>4, <2>2, <2>4, <2>5, <2>6, <2>7 DEF HoldEffect
<1>6. OfferEffect
  BY <1>2, <1>4, OfferTurns DEF OfferStatus
<1>7. RestTyped'
  BY <1>1, RestKept DEF SlotRow, SlotStatus
<1> QED BY <1>1, <1>5, <1>6, <1>7, SameBookings, SameJobs DEF Effect

LEMMA CreateTooLateEffect ==
    ASSUME Linked, NEW u \in User, CreateTooLate(u) PROVE Effect
<1>1. PICK b \in Active : \E r \in LiveOffers(b) :
        /\ offer' = WithOffer(r, "expired")
        /\ booking' = Confirmed(b)
        /\ slot' = Reserved
        /\ UNCHANGED <<started, hold, gate, refund, penalty, job, faults>>
  BY DEF CreateTooLate
<1>2. PICK r \in LiveOffers(b) : offer' = WithOffer(r, "expired")
  BY <1>1
<1>3. OfferEffect
  BY <1>2, OfferTurns DEF LiveOffers, OfferStatus
<1>4. BookingEffect
  BY <1>1, ConfirmedEffect DEF Active
<1>5. RestTyped'
  BY <1>1, RestKept DEF Reserved, SlotRow, SlotStatus
<1> QED BY <1>1, <1>3, <1>4, <1>5, SameHolds, SameJobs DEF Effect

LEMMA ReleasedTyped == ASSUME Linked PROVE Released \in SlotRow
<1>1. slot \in SlotRow
  BY TypeSplits DEF Linked, RestTyped, SlotRow
<1> QED BY <1>1 DEF Released, Offered, SlotRow, SlotStatus

LEMMA HolderMovesOnEffect ==
    ASSUME Linked, NEW h \in Hold, HolderMovesOn(h) PROVE Effect
<1>1. hold[h].st # "none"
  BY DEF HolderMovesOn
<1>2. hold[h].offer \in Offer /\ offer[hold[h].offer].st # "none"
  BY <1>1, HoldRefers
<1>3. HoldEffect
  BY <1>1, HoldEnds DEF HolderMovesOn, HoldStatus
<1>4. OfferEffect
  BY <1>2, OfferTurns, SameOffers DEF HolderMovesOn, OfferStatus
<1>5. slot \in SlotRow
  BY TypeSplits DEF Linked, RestTyped, SlotRow
<1>6. RestTyped'
  BY <1>5, RestKept, ReleasedTyped DEF HolderMovesOn
<1> QED BY <1>3, <1>4, <1>6, SameBookings, SameJobs DEF HolderMovesOn, Effect

LEMMA ResellEffect ==
    ASSUME Linked, NEW u \in User, Resell(u) PROVE Effect
<1>1. BookingEffect
  BY DEF Resell, NextRow, BookingEffect, Sells
<1>2. RestTyped'
  BY RestKept DEF Resell, Reserved, SlotRow, SlotStatus
<1> QED BY <1>1, <1>2, SameOffers, SameHolds, SameJobs DEF Resell, Effect
-----------------------------------------------------------------------------
(* A request at its hold *)

LEMMA StartsEffect ==
    ASSUME Linked, NEW w \in Worker, NEW h \in Hold,
           PayLocks(w, h) \/ CancelLocks(w, h) \/ StartResolve(w, h)
    PROVE  Effect
<1>1. hold[h].st # "none"
  BY DEF PayLocks, CancelLocks, StartResolve
<1>2. JobEffect
  BY <1>1, LockEffect, BeginEffect DEF PayLocks, CancelLocks, StartResolve, Pc, LockedPc
<1>3. UNCHANGED <<started, slot, booking, offer, hold, gate, refund, penalty, faults>>
  BY DEF PayLocks, CancelLocks, StartResolve, saleVars
<1> QED BY <1>2, <1>3, AllRestKept, SameBookings, SameOffers, SameHolds DEF Effect

(* Only the hold and the job change. *)
LEMMA HoldAndJob ==
    ASSUME Linked, HoldEffect, JobEffect,
           UNCHANGED <<started, slot, booking, offer, gate, refund, penalty, faults>>
    PROVE  Effect
BY AllRestKept, SameBookings, SameOffers DEF Effect

LEMMA PayBeginsEffect ==
    ASSUME Linked, NEW w \in Worker, PayBegins(w) PROVE Effect
<1>1. job[w].pc # "idle"
  BY DEF PayBegins
<1> DEFINE h == job[w].h
<1>2. h \in Hold /\ hold[h].st # "none"
  BY <1>1, JobRefers
<1>3. hold \in [Hold -> HoldRow] /\ hold[h] \in HoldRow
  BY <1>2, TypeSplits DEF Linked
<1>4. hold' = [hold EXCEPT ![h] = [@ EXCEPT !.st = "processing", !.token = TRUE]]
  BY DEF PayBegins
<1> HIDE DEF h
<1>5. hold' \in [Hold -> HoldRow]
  BY <1>2, <1>3, <1>4 DEF HoldRow, HoldStatus
<1>6. HoldEffect
  BY <1>2, <1>3, <1>4, <1>5, HoldTurns DEF HoldRow
<1>7. JobEffect
  BY <1>1, GotoEffect DEF PayBegins, Pc
<1> QED BY <1>6, <1>7, HoldAndJob DEF PayBegins, saleVars

(* The hold ends, the request is done, and the offer is given back or not. *)
LEMMA EndsAndReturns ==
    ASSUME Linked, NEW w \in Worker, job[w].pc # "idle",
           NEW st \in HoldStatus \ {"none"}, hold' = WithHold(job[w].h, st),
           Return(w), UNCHANGED <<started, gate, refund, penalty, faults>>,
           GiveBackOrUp(w) \/ GiveBackHeld(w)
    PROVE  Effect
<1>1. HoldEffect
  BY JobRefers, HoldEnds
<1>2. BookingEffect /\ OfferEffect /\ slot' \in SlotRow
  BY GiveBackOrUpEffect, GiveBackHeldEffect
<1> QED BY <1>1, <1>2, RestKept, ReturnEffect DEF Effect

LEMMA EndingEffect ==
    ASSUME Linked, NEW w \in Worker,
           PayTooLate(w) \/ FailPayment(w) \/ CancelHold(w)
    PROVE  Effect
<1>1. CASE PayTooLate(w)
  BY <1>1, EndsAndReturns DEF PayTooLate, HoldStatus
<1>2. CASE FailPayment(w)
  BY <1>2, EndsAndReturns DEF FailPayment, HoldStatus
<1>3. CASE CancelHold(w)
  BY <1>3, EndsAndReturns DEF CancelHold, HoldStatus
<1> QED BY <1>1, <1>2, <1>3

LEMMA RecordTrackEffect ==
    ASSUME Linked, NEW w \in Worker, RecordTrack(w) PROVE Effect
<1>1. job[w].pc # "idle"
  BY DEF RecordTrack
<1> DEFINE h == job[w].h
<1>2. h \in Hold /\ hold[h].st # "none"
  BY <1>1, JobRefers
<1>3. hold \in [Hold -> HoldRow] /\ hold[h] \in HoldRow /\ RestTyped
  BY <1>2, TypeSplits DEF Linked
<1>4. /\ hold' = [hold EXCEPT ![h].track = hold[h].token]
      /\ gate' = [gate EXCEPT ![h].st = "open"]
      /\ UNCHANGED <<started, slot, booking, offer, refund, penalty, faults>>
  BY DEF RecordTrack, saleVars
<1> HIDE DEF h
<1>5. hold' \in [Hold -> HoldRow]
  BY <1>2, <1>3, <1>4 DEF HoldRow
<1>6. HoldEffect
  BY <1>2, <1>3, <1>4, <1>5, HoldTurns DEF HoldRow
<1>7. RestTyped'
  BY <1>3, <1>4 DEF RestTyped, GateStatus
<1>8. JobEffect
  BY ReturnEffect DEF RecordTrack
<1> QED BY <1>4, <1>6, <1>7, <1>8, SameBookings, SameOffers DEF Effect

(* Only the job changes. *)
LEMMA JobOnly ==
    ASSUME Linked, JobEffect,
           UNCHANGED <<started, slot, booking, offer, hold, gate, refund, penalty, faults>>
    PROVE  Effect
BY HoldAndJob, SameHolds

LEMMA FailLocksEffect ==
    ASSUME Linked, NEW w \in Worker, job[w].pc # "idle", FailLocks(w)
    PROVE  JobEffect
<1>1. job[w].h \in Hold /\ hold[job[w].h].st # "none"
  BY JobRefers
<1> QED BY <1>1, LockEffect, ReturnEffect DEF FailLocks, Pc, LockedPc

LEMMA AskingEffect ==
    ASSUME Linked, NEW w \in Worker,
           GatewayRefuses(w) \/ InquireRefusal(w) \/ Classify(w) \/ IndexRefuses(w)
    PROVE  Effect
<1>1. job[w].pc # "idle"
  BY DEF GatewayRefuses, InquireRefusal, Classify, IndexRefuses
<1>2. job[w].h \in Hold /\ hold[job[w].h].st # "none"
  BY <1>1, JobRefers
<1>3. JobEffect
  <2>1. CASE GatewayRefuses(w)
    BY <1>1, <2>1, FailLocksEffect DEF GatewayRefuses
  <2>2. CASE InquireRefusal(w)
    BY <1>1, <1>2, <2>2, LockEffect, GotoEffect DEF InquireRefusal, Pc, LockedPc
  <2>3. CASE Classify(w)
    BY <1>1, <1>2, <2>3, LockEffect, FailLocksEffect, ReturnEffect DEF Classify, Pc, LockedPc
  <2>4. CASE IndexRefuses(w)
    BY <2>4, ReturnEffect DEF IndexRefuses
  <2> QED BY <2>1, <2>2, <2>3, <2>4
<1> QED BY <1>3, JobOnly DEF GatewayRefuses, InquireRefusal, Classify, IndexRefuses, saleVars

(* The gateway's row changes with the job. *)
LEMMA GateAndJob ==
    ASSUME Linked, JobEffect, gate' \in [Hold -> [st : GateStatus, exact : BOOLEAN]],
           faults' \in 0..MaxFault,
           UNCHANGED <<started, slot, booking, offer, hold, refund, penalty>>
    PROVE  Effect
<1>1. RestTyped'
  BY TypeSplits DEF Linked, RestTyped
<1> QED BY <1>1, SameBookings, SameOffers, SameHolds DEF Effect

LEMMA GateTyped ==
    ASSUME Linked
    PROVE  /\ gate \in [Hold -> [st : GateStatus, exact : BOOLEAN]]
           /\ faults \in 0..MaxFault
BY TypeSplits DEF Linked, RestTyped

LEMMA VerifyEffect ==
    ASSUME Linked, NEW w \in Worker, Verify(w) PROVE Effect
<1>1. JobEffect
  BY GotoEffect DEF Verify, Pc
<1>2. gate' \in [Hold -> [st : GateStatus, exact : BOOLEAN]]
  BY GateTyped DEF Verify, GateStatus
<1> QED BY <1>1, <1>2, GateTyped, GateAndJob DEF Verify, saleVars

LEMMA SettleEffect ==
    ASSUME Linked, NEW w \in Worker, Settle(w) PROVE Effect
<1>1. job[w].pc # "idle"
  BY DEF Settle
<1> DEFINE h == job[w].h
<1>2. h \in Hold /\ hold[h].st # "none"
  BY <1>1, JobRefers
<1>3. hold \in [Hold -> HoldRow] /\ hold[h] \in HoldRow
  BY <1>2, TypeSplits DEF Linked
<1>4. JobEffect
  BY <1>2, LockEffect, ReturnEffect DEF Settle, Pc, LockedPc
<1>5. HoldEffect
  <2>1. CASE hold' = [hold EXCEPT ![h].flag = "amount_mismatch"]
    <3> HIDE DEF h
    <3>1. hold' \in [Hold -> HoldRow]
      BY <1>2, <1>3, <2>1 DEF HoldRow, Flag
    <3> QED BY <1>2, <1>3, <2>1, <3>1, HoldTurns DEF HoldRow
  <2> QED BY <2>1, SameHolds DEF Settle
<1> QED BY <1>4, <1>5, HoldAndJob DEF Settle, saleVars

LEMMA TransferEffect ==
    ASSUME Linked, NEW w \in Worker, Transfer(w) PROVE Effect
<1>1. job[w].pc # "idle"
  BY DEF Transfer
<1> DEFINE h == job[w].h
           b == OriginalOf(h)
<1>2. /\ h \in Hold /\ hold[h].st # "none"
      /\ b \in Booking
      /\ hold[h].offer \in Offer /\ offer[hold[h].offer].st # "none"
      /\ hold[h].user \in User \ {booking[b].user}
  BY <1>1, JobRefers
<1>3. booking[b].st = "pending_cancellation" /\ ~started
  BY DEF Transfer, Transferable
<1>4. PICK n \in Booking :
        /\ NextRow(booking, n)
        /\ booking' = [booking EXCEPT ![b].st = "transferred", ![n] =
              [st |-> "confirmed", user |-> hold[h].user, replaces |-> b]]
  BY DEF Transfer
<1>5. BookingEffect
  <2>1. booking[n].st = "none" /\ b # n
    BY <1>3, <1>4 DEF NextRow
  <2>2. HandsOver(b, n, hold[h].user)
    BY <1>2, <1>3, <1>4, <2>1 DEF HandsOver
  <2> HIDE DEF h, b
  <2> QED BY <1>2, <2>2 DEF BookingEffect
<1>6. OfferEffect
  BY <1>2, OfferTurns DEF Transfer, OfferStatus
<1>7. HoldEffect
  BY <1>2, HoldEnds DEF Transfer, HoldStatus
<1>8. RestTyped'
  <2>1. /\ refund' = [refund EXCEPT ![b] = @ \cup {"replaced_after_pending_cancellation"}]
        /\ penalty' = penalty \cup {b}
        /\ slot' = Reserved
        /\ UNCHANGED <<started, gate, faults>>
    BY DEF Transfer
  <2> HIDE DEF h, b
  <2>2. RestTyped
    BY TypeSplits DEF Linked
  <2> QED BY <1>2, <2>1, <2>2 DEF RestTyped, Reserved, SlotStatus, RefundType
<1>9. JobEffect
  BY ReturnEffect DEF Transfer
<1> QED BY <1>5, <1>6, <1>7, <1>8, <1>9 DEF Effect

LEMMA ConflictEffect ==
    ASSUME Linked, NEW w \in Worker, Conflict(w) PROVE Effect
<1>1. job[w].pc # "idle"
  BY DEF Conflict
<1> DEFINE h == job[w].h
<1>2. h \in Hold /\ hold[h].st # "none" /\ OriginalOf(h) \in Booking
  BY <1>1, JobRefers
<1>3. hold \in [Hold -> HoldRow] /\ hold[h] \in HoldRow
  BY <1>2, TypeSplits DEF Linked
<1>4. HoldEffect
  <2>1. hold' = [hold EXCEPT ![h] = [@ EXCEPT !.st = "failed", !.token = FALSE,
                                         !.flag = "paid_but_transfer_conflicted"]]
    BY DEF Conflict
  <2> HIDE DEF h
  <2>2. hold' \in [Hold -> HoldRow]
    BY <1>2, <1>3, <2>1 DEF HoldRow, HoldStatus, Flag
  <2> QED BY <1>2, <1>3, <2>1, <2>2, HoldTurns DEF HoldRow
<1>5. BookingEffect
  BY <1>2, ConfirmedEffect, SameBookings DEF Conflict
<1>6. OfferEffect
  BY <1>1, SetOfferEffect, SameOffers DEF Conflict, OfferStatus
<1>7. slot \in SlotRow
  BY TypeSplits DEF Linked, RestTyped, SlotRow
<1>8. /\ slot' = slot \/ slot' = Reserved
      /\ UNCHANGED <<started, gate, refund, penalty, faults>>
  BY Zenon DEF Conflict
<1>9. RestTyped'
  <2>1. Reserved \in SlotRow
    BY DEF Reserved, SlotRow, SlotStatus
  <2>2. slot' \in SlotRow
    BY <1>7, <1>8, <2>1, Zenon
  <2> QED BY <1>8, <2>2, RestKept
<1>10. JobEffect
  BY ReturnEffect DEF Conflict
<1> QED BY <1>4, <1>5, <1>6, <1>9, <1>10 DEF Effect

LEMMA RecordFailureEffect ==
    ASSUME Linked, NEW w \in Worker, RecordFailure(w) PROVE Effect
<1>1. job[w].pc # "idle"
  BY DEF RecordFailure
<1>2. job[w].h \in Hold /\ hold[job[w].h].st # "none"
  BY <1>1, JobRefers
<1>3. HoldEffect
  BY <1>2, HoldEnds, SameHolds DEF RecordFailure, HoldStatus
<1>4. BookingEffect /\ OfferEffect /\ slot' \in SlotRow
  BY <1>1, GiveBackHeldEffect DEF RecordFailure
<1>5. JobEffect
  BY <1>1, GotoEffect, ReturnEffect DEF RecordFailure, Pc
<1> QED BY <1>3, <1>4, <1>5, RestKept DEF RecordFailure, Effect

LEMMA JobStepEffect ==
    ASSUME Linked, NEW w \in Worker, JobStep(w) PROVE Effect
BY PayBeginsEffect, EndingEffect, RecordTrackEffect, AskingEffect, VerifyEffect, SettleEffect,
   TransferEffect, ConflictEffect, RecordFailureEffect DEF JobStep
-----------------------------------------------------------------------------
(* The jobs of main.py and the environment *)

LEMMA ExpireOfferEffect ==
    ASSUME Linked, NEW r \in Offer, ExpireOffer(r) PROVE Effect
<1>1. offer[r].st # "none" /\ offer[r].booking \in Booking
  BY DEF ExpireOffer, Linked, RowsAreLinked
<1>2. HoldEffect
  <2> DEFINE H == {h \in LiveHolds(r) : ~Locked(h)}
  <2>1. hold' = WithHolds(H, "expired")
    BY DEF ExpireOffer
  <2>2. H \in SUBSET Hold /\ \A h \in H : hold[h].st # "none"
    BY DEF LiveHolds, Live
  <2> HIDE DEF H
  <2> QED BY <2>1, <2>2, ManyHoldsEnd DEF HoldStatus
<1>3. OfferEffect
  BY <1>1, OfferTurns DEF ExpireOffer, OfferStatus
<1>4. BookingEffect /\ slot' \in SlotRow
  BY <1>1, RestoredEffect DEF ExpireOffer
<1> QED BY <1>2, <1>3, <1>4, RestKept, SameJobs DEF ExpireOffer, Effect

LEMMA ExpireHoldEffect ==
    ASSUME Linked, NEW h \in Hold, ExpireHold(h) PROVE Effect
<1>1. hold[h].st # "none"
  BY DEF ExpireHold
<1>2. hold[h].offer \in Offer /\ offer[hold[h].offer].st # "none"
  BY <1>1, HoldRefers
<1>3. HoldEffect
  BY <1>1, HoldEnds DEF ExpireHold, HoldStatus
<1>4. OfferEffect
  BY <1>2, OfferTurns, SameOffers DEF ExpireHold, OfferStatus
<1>5. slot \in SlotRow
  BY TypeSplits DEF Linked, RestTyped, SlotRow
<1>6. RestTyped'
  BY <1>5, RestKept, ReleasedTyped DEF ExpireHold, saleVars
<1> QED BY <1>3, <1>4, <1>6, SameBookings, SameJobs DEF ExpireHold, Effect, saleVars

LEMMA LapseEffect ==
    ASSUME Linked, NEW h \in Hold, Lapse(h) PROVE Effect
<1>1. hold \in [Hold -> HoldRow] /\ hold[h] \in HoldRow
  BY TypeSplits DEF Linked
<1>2. hold' = [hold EXCEPT ![h].lapsed = TRUE] /\ hold[h].st # "none"
  BY DEF Lapse, Live
<1>3. hold' \in [Hold -> HoldRow]
  BY <1>1, <1>2 DEF HoldRow
<1>4. HoldEffect
  BY <1>1, <1>2, <1>3, HoldTurns DEF HoldRow
<1> QED BY <1>4, SameJobs, HoldAndJob DEF Lapse, saleVars

LEMMA TickEffect == ASSUME Linked, Tick PROVE Effect
<1>1. RestTyped'
  BY TypeSplits DEF Linked, RestTyped, Tick, saleVars
<1> QED BY <1>1, SameBookings, SameOffers, SameHolds, SameJobs DEF Tick, saleVars, Effect

LEMMA GatewayEffect ==
    ASSUME Linked, NEW h \in Hold, PayerPays(h) \/ GatewayCloses(h) PROVE Effect
<1>1. CASE PayerPays(h)
  <2>1. PICK exact \in BOOLEAN : gate' = [gate EXCEPT ![h] = [st |-> "paid", exact |-> exact]]
    BY <1>1, Zenon DEF PayerPays
  <2>2. gate' \in [Hold -> [st : GateStatus, exact : BOOLEAN]]
    BY <2>1, GateTyped DEF GateStatus
  <2> QED BY <1>1, <2>2, GateTyped, GateAndJob, SameJobs DEF PayerPays, saleVars
<1>2. CASE GatewayCloses(h)
  <2>1. gate' \in [Hold -> [st : GateStatus, exact : BOOLEAN]]
    BY <1>2, GateTyped DEF GatewayCloses, GateStatus
  <2> QED BY <1>2, <2>1, GateTyped, GateAndJob, SameJobs DEF GatewayCloses, saleVars
<1> QED BY <1>1, <1>2

LEMMA FaultEffect ==
    ASSUME Linked, NEW w \in Worker, Abort(w) \/ LoseVerifyReply(w) \/ LoseInquiry(w)
    PROVE  Effect
<1>1. faults' \in 0..MaxFault
  BY GateTyped, ReplacementAssumption DEF Abort, LoseVerifyReply, LoseInquiry, Fault
<1>2. gate' \in [Hold -> [st : GateStatus, exact : BOOLEAN]]
  BY GateTyped DEF Abort, LoseVerifyReply, LoseInquiry, GateStatus, saleVars
<1>3. JobEffect
  BY ReturnEffect, GotoEffect DEF Abort, LoseVerifyReply, LoseInquiry, Pc
<1> QED BY <1>1, <1>2, <1>3, GateAndJob DEF Abort, LoseVerifyReply, LoseInquiry, saleVars

LEMMA StepEffect == ASSUME Linked, [Next]_vars PROVE Effect
<1>1. ASSUME NEW b \in Booking, CancelLate(b) \/ Withdraw(b)
      PROVE  Effect
  BY <1>1, CancelLateEffect, WithdrawEffect
<1>2. CASE \E b \in Booking, release_slot \in BOOLEAN : ManagerCancel(b, release_slot)
  BY <1>2, ManagerCancelEffect
<1>3. ASSUME NEW u \in User, CreateHold(u) \/ CreateTooLate(u) \/ Resell(u)
      PROVE  Effect
  BY <1>3, CreateHoldEffect, CreateTooLateEffect, ResellEffect
<1>4. ASSUME NEW w \in Request, NEW h \in Hold,
             PayLocks(w, h) \/ CancelLocks(w, h) \/ StartResolve(w, h)
      PROVE  Effect
  BY <1>4, StartsEffect DEF Worker
<1>5. ASSUME NEW h \in Hold, HolderMovesOn(h) \/ Reconcile(h) \/ ExpireHold(h)
      PROVE  Effect
  BY <1>5, HolderMovesOnEffect, StartsEffect, ExpireHoldEffect DEF Reconcile, Worker
<1>6. CASE \E r \in Offer : ExpireOffer(r)
  BY <1>6, ExpireOfferEffect
<1>7. CASE \E w \in Worker : JobStep(w)
  BY <1>7, JobStepEffect
<1>8. ASSUME NEW h \in Hold, Lapse(h) \/ PayerPays(h) \/ GatewayCloses(h)
      PROVE  Effect
  BY <1>8, LapseEffect, GatewayEffect
<1>9. CASE Tick
  BY <1>9, TickEffect
<1>10. ASSUME NEW w \in Worker, Abort(w) \/ LoseVerifyReply(w) \/ LoseInquiry(w)
       PROVE  Effect
  BY <1>10, FaultEffect
<1>11. CASE UNCHANGED vars
  BY <1>11, AllRestKept, SameBookings, SameOffers, SameHolds, SameJobs DEF vars, Effect
<1> QED BY <1>1, <1>2, <1>3, <1>4, <1>5, <1>6, <1>7, <1>8, <1>9, <1>10, <1>11 DEF Next

-----------------------------------------------------------------------------
(* From the effect of a step to the invariant after it *)

(* Rows of bookings keep their owner, and none is deleted. *)
LEMMA BookingsKept ==
    ASSUME Linked, BookingEffect
    PROVE  /\ booking' \in [Booking -> BookingRow]
           /\ \A b \in Booking : booking[b].st # "none" =>
                 booking'[b].st # "none" /\ booking'[b].user = booking[b].user
           /\ \A b \in Booking : booking[b].st = "none" =>
                 \/ booking'[b] = booking[b]
                 \/ booking'[b].st # "none" /\ booking'[b].user \in User
<1>1. booking \in [Booking -> BookingRow] /\ \A b \in Booking : booking[b] \in BookingRow
  BY TypeSplits DEF Linked
<1>2. CASE booking' = booking
  BY <1>1, <1>2
<1>3. ASSUME NEW b \in Booking, NEW from \in BookingStatus \ {"none"},
             NEW to \in BookingStatus \ {"none"}, Turns(b, from, to)
      PROVE  /\ booking' \in [Booking -> BookingRow]
             /\ booking'[b].st = to /\ booking'[b].user = booking[b].user
             /\ \A c \in Booking \ {b} : booking'[c] = booking[c]
  BY <1>1, <1>3 DEF Turns, BookingRow
<1>4. CASE \E b \in Booking : \/ Turns(b, "confirmed", "pending_cancellation")
                             \/ Turns(b, "pending_cancellation", "confirmed")
                             \/ Turns(b, "confirmed", "cancelled")
                             \/ Turns(b, "pending_cancellation", "cancelled")
  <2>1. PICK b \in Booking, from \in BookingStatus \ {"none"}, to \in BookingStatus \ {"none"} :
          Turns(b, from, to)
    BY <1>4 DEF BookingStatus
  <2>2. booking[b].st = from
    BY <2>1 DEF Turns
  <2> QED BY <1>3, <2>1, <2>2
<1>5. ASSUME NEW b \in Booking, NEW n \in Booking, NEW u \in User, HandsOver(b, n, u)
      PROVE  /\ booking' \in [Booking -> BookingRow]
             /\ booking'[n].st = "confirmed" /\ booking'[n].user = u
             /\ booking'[b].st = "transferred" /\ booking'[b].user = booking[b].user
             /\ \A c \in Booking \ {b, n} : booking'[c] = booking[c]
  BY <1>1, <1>5 DEF HandsOver, BookingRow, BookingStatus
<1>6. CASE \E b, n \in Booking, u \in User : HandsOver(b, n, u)
  <2>1. PICK b, n \in Booking, u \in User : HandsOver(b, n, u)
    BY <1>6
  <2>2. booking[n].st = "none" /\ booking[b].st = "pending_cancellation"
    BY <2>1 DEF HandsOver
  <2> QED BY <1>5, <2>1, <2>2
<1>7. CASE \E n \in Booking, u \in User : Sells(n, u)
  <2>1. PICK n \in Booking, u \in User : Sells(n, u)
    BY <1>7
  <2>2. [st |-> "confirmed", user |-> u, replaces |-> 0] \in BookingRow
    BY DEF BookingRow, BookingStatus
  <2> QED BY <1>1, <2>1, <2>2 DEF Sells
<1> QED BY <1>2, <1>4, <1>6, <1>7 DEF BookingEffect

LEMMA OneActiveStep == ASSUME Linked, OneActive, BookingEffect PROVE OneActive'
<1>1. booking \in [Booking -> BookingRow] /\ \A b \in Booking : booking[b] \in BookingRow
  BY TypeSplits DEF Linked
<1>2. CASE booking' = booking
  BY <1>2 DEF OneActive, Active
<1>3. CASE \E b \in Booking : \/ Turns(b, "confirmed", "pending_cancellation")
                             \/ Turns(b, "pending_cancellation", "confirmed")
                             \/ Turns(b, "confirmed", "cancelled")
                             \/ Turns(b, "pending_cancellation", "cancelled")
  <2>1. Active' \subseteq Active
    BY <1>1, <1>3 DEF Turns, Active, BookingRow
  <2> QED BY <2>1 DEF OneActive
<1>4. CASE \E b, n \in Booking, u \in User : HandsOver(b, n, u)
  <2>1. PICK b, n \in Booking, u \in User : HandsOver(b, n, u)
    BY <1>4
  <2>2. \A c \in Booking \ {b, n} : booking'[c] = booking[c]
    BY <1>1, <2>1 DEF HandsOver
  <2>3. booking'[b].st = "transferred"
    BY <1>1, <2>1 DEF HandsOver, BookingRow
  <2>4. b \in Active
    BY <2>1 DEF HandsOver, Active
  <2>5. Active' \subseteq {n}
    BY <2>2, <2>3, <2>4 DEF OneActive, Active
  <2> QED BY <2>5 DEF OneActive
<1>5. CASE \E n \in Booking, u \in User : Sells(n, u)
  <2>1. PICK n \in Booking, u \in User : Sells(n, u)
    BY <1>5
  <2>2. Active' \subseteq {n}
    BY <1>1, <2>1 DEF Sells, Active
  <2> QED BY <2>2 DEF OneActive
<1> QED BY <1>2, <1>3, <1>4, <1>5 DEF BookingEffect

LEMMA LinkedStep == ASSUME Linked, Effect PROVE Linked'
<1> USE DEF Effect
<1>1. /\ booking' \in [Booking -> BookingRow]
      /\ \A b \in Booking : booking[b].st # "none" =>
            booking'[b].st # "none" /\ booking'[b].user = booking[b].user
      /\ \A b \in Booking : booking[b].st = "none" =>
            \/ booking'[b] = booking[b]
            \/ booking'[b].st # "none" /\ booking'[b].user \in User
  BY BookingsKept
<1>2. TypeOK'
  BY <1>1, TypeSplits DEF OfferEffect, HoldEffect, JobEffect, TypeOK, BookingRow, OfferRow,
     HoldRow, JobRow, RestTyped
<1>3. ASSUME NEW b \in Booking
      PROVE  IF booking'[b].st = "none" THEN booking'[b].user = None
             ELSE booking'[b].user \in User
  BY <1>1 DEF Linked, RowsAreLinked
<1>4. ASSUME NEW r \in Offer, offer'[r].st # "none"
      PROVE  offer'[r].booking \in Booking /\ booking'[offer'[r].booking].st # "none"
  BY <1>1, <1>4 DEF OfferEffect, Linked, RowsAreLinked
<1>5. \A r \in Offer : offer[r].st # "none" =>
          offer'[r].st # "none" /\ offer'[r].booking = offer[r].booking
  BY DEF OfferEffect
<1>6. ASSUME NEW h \in Hold, hold'[h].st # "none"
      PROVE  /\ hold'[h].offer \in Offer
             /\ offer'[hold'[h].offer].st # "none"
             /\ hold'[h].user \in User \ {booking'[offer'[hold'[h].offer].booking].user}
  <2>1. /\ hold'[h].offer \in Offer
        /\ offer[hold'[h].offer].st # "none"
        /\ hold'[h].user \in User \ {booking[offer[hold'[h].offer].booking].user}
    BY <1>6 DEF HoldEffect, Linked, RowsAreLinked, OriginalOf
  <2>2. /\ offer[hold'[h].offer].booking \in Booking
        /\ booking[offer[hold'[h].offer].booking].st # "none"
    BY <2>1 DEF Linked, RowsAreLinked
  <2> QED BY <1>1, <1>5, <2>1, <2>2
<1>7. RowsAreLinked'
  BY <1>3, <1>4, <1>6 DEF RowsAreLinked, OriginalOf
<1>8. \A h \in Hold : hold[h].st # "none" => hold'[h].st # "none"
  BY DEF HoldEffect
<1>9. JobsHoldHolds'
  BY <1>8 DEF JobEffect, JobsHoldHolds
<1> QED BY <1>2, <1>7, <1>9 DEF Linked

LEMMA InitLinked == Init => Linked /\ OneActive
<1> SUFFICES ASSUME Init PROVE Linked /\ OneActive
  OBVIOUS
<1>1. 1 \in Booking
  BY ReplacementAssumption DEF Booking
<1>2. PICK u \in User : booking = [b \in Booking |->
            IF b = 1 THEN [st |-> "confirmed", user |-> u, replaces |-> 0]
            ELSE [st |-> "none", user |-> None, replaces |-> 0]]
  BY DEF Init
<1>3. booking \in [Booking -> BookingRow]
  BY <1>2 DEF BookingRow, BookingStatus
<1>4. offer \in [Offer -> OfferRow] /\ hold \in [Hold -> HoldRow]
  BY DEF Init, OfferRow, OfferStatus, HoldRow, HoldStatus, Flag
<1>5. job \in [Worker -> JobRow]
  BY DEF Init, Idle, JobRow, Pc, OfferStatus, SlotStatus
<1>6. RestTyped
  <2>1. /\ started = FALSE
        /\ slot = [st |-> "reserved", reserved |-> TRUE]
        /\ gate = [h \in Hold |-> [st |-> "none", exact |-> TRUE]]
        /\ refund = [b \in Booking |-> {}]
        /\ penalty = {}
        /\ faults = 0
    BY Zenon DEF Init
  <2>2. slot \in [st : SlotStatus, reserved : BOOLEAN]
    BY <2>1 DEF SlotStatus
  <2>3. gate \in [Hold -> [st : GateStatus, exact : BOOLEAN]]
    BY <2>1 DEF GateStatus
  <2>4. refund \in [Booking -> SUBSET RefundType] /\ penalty \in SUBSET Booking
    BY <2>1
  <2>5. faults \in 0..MaxFault
    BY <2>1, ReplacementAssumption
  <2> QED BY <2>1, <2>2, <2>3, <2>4, <2>5 DEF RestTyped
<1>7. TypeOK
  BY <1>3, <1>4, <1>5, <1>6, TypeSplits
<1>8. RowsAreLinked
  BY <1>2 DEF Init, RowsAreLinked
<1>9. JobsHoldHolds
  BY DEF Init, Idle, JobsHoldHolds
<1>10. OneActive
  BY <1>2 DEF OneActive, Active
<1> QED BY <1>7, <1>8, <1>9, <1>10 DEF Linked

(* In every reachable state rows are typed and refer to rows that exist,   *)
(* nobody holds his own slot, and at most one booking entitles to it.      *)
THEOREM ResaleInvariance == Spec => []ResaleInv
<1>1. Init => ResaleInv
  BY InitLinked DEF Linked, ResaleInv
<1>2. ResaleInv /\ [Next]_vars => ResaleInv'
  <2> SUFFICES ASSUME ResaleInv, [Next]_vars PROVE ResaleInv'
    OBVIOUS
  <2>1. Linked /\ OneActive
    BY DEF ResaleInv, Linked
  <2>2. Effect
    BY <2>1, StepEffect
  <2>3. Linked' /\ OneActive'
    BY <2>1, <2>2, LinkedStep, OneActiveStep DEF Effect
  <2> QED BY <2>3 DEF ResaleInv, Linked
<1> QED BY <1>1, <1>2, PTL DEF Spec

-----------------------------------------------------------------------------
(* Refinement of Resale *)

Sale == [b \in Booking |-> SaleOf(b)]

LEMMA Phases ==
    /\ Phase("none") = "none"
    /\ Phase("confirmed") = "sold"
    /\ Phase("pending_cancellation") = "offered"
    /\ Phase("transferred") = "moved"
    /\ Phase("cancelled") = "ended"
BY DEF Phase

LEMMA TurnedSale ==
    ASSUME Linked, NEW b \in Booking, NEW to \in BookingStatus,
           booking' = [booking EXCEPT ![b].st = to]
    PROVE  Sale' = [Sale EXCEPT ![b].phase = Phase(to)]
<1>1. booking \in [Booking -> BookingRow]
  BY TypeSplits DEF Linked
<1>2. /\ booking'[b].st = to /\ booking'[b].user = booking[b].user
      /\ \A c \in Booking \ {b} : booking'[c] = booking[c]
  BY <1>1 DEF BookingRow
<1>3. \A c \in Booking : SaleOf(c)' = IF c = b THEN [SaleOf(b) EXCEPT !.phase = Phase(to)]
                                     ELSE SaleOf(c)
  BY <1>2 DEF SaleOf
<1> QED BY <1>3 DEF Sale

LEMMA SoldSale ==
    ASSUME NEW u, NEW n \in Booking, NEW row, row.st = "confirmed", row.user = u,
           Linked, booking' = [booking EXCEPT ![n] = row]
    PROVE  Sale' = [Sale EXCEPT ![n] = [phase |-> "sold", owner |-> u]]
<1>1. booking \in [Booking -> BookingRow]
  BY TypeSplits DEF Linked
<1>2. \A c \in Booking : booking'[c] = IF c = n THEN row ELSE booking[c]
  BY <1>1
<1>3. \A c \in Booking : SaleOf(c)' = IF c = n THEN [phase |-> "sold", owner |-> u]
                                     ELSE SaleOf(c)
  BY <1>2, Phases DEF SaleOf
<1> QED BY <1>3 DEF Sale

LEMMA MovedSale ==
    ASSUME Linked, NEW b \in Booking, NEW n \in Booking, NEW u \in User, HandsOver(b, n, u)
    PROVE  Sale' = [Sale EXCEPT ![b].phase = "moved",
                                ![n] = [phase |-> "sold", owner |-> u]]
<1>1. booking \in [Booking -> BookingRow]
  BY TypeSplits DEF Linked
<1>2. /\ booking'[n].st = "confirmed" /\ booking'[n].user = u
      /\ booking'[b].st = "transferred" /\ booking'[b].user = booking[b].user
      /\ \A c \in Booking \ {b, n} : booking'[c] = booking[c]
      /\ b # n
  BY <1>1 DEF HandsOver, BookingRow
<1>3. \A c \in Booking : SaleOf(c)' =
          IF c = n THEN [phase |-> "sold", owner |-> u]
          ELSE IF c = b THEN [SaleOf(b) EXCEPT !.phase = "moved"] ELSE SaleOf(c)
  BY <1>2, Phases DEF SaleOf
<1> QED BY <1>2, <1>3 DEF Sale

LEMMA InitSale == Init => Place!Init
<1> SUFFICES ASSUME Init PROVE Place!Init
  OBVIOUS
<1>1. PICK u \in User : booking = [b \in Booking |->
            IF b = 1 THEN [st |-> "confirmed", user |-> u, replaces |-> 0]
            ELSE [st |-> "none", user |-> None, replaces |-> 0]]
  BY DEF Init
<1>2. \A b \in Booking : SaleOf(b) = IF b = 1 THEN Place!SoldTo(u) ELSE Place!Absent
  BY <1>1, Phases DEF SaleOf, Place!SoldTo, Place!Absent
<1>3. 1 \in Booking
  BY ReplacementAssumption DEF Booking
<1> QED BY <1>2, <1>3 DEF Place!Init

LEMMA StepSale ==
    ASSUME Linked, BookingEffect
    PROVE  Place!Next \/ UNCHANGED Sale
<1>1. \A b \in Booking : /\ Sale[b].phase = Phase(booking[b].st)
                         /\ Sale[b].owner = booking[b].user
  BY DEF Sale, SaleOf
<1>2. CASE booking' = booking
  BY <1>2 DEF Sale, SaleOf
<1>3. ASSUME NEW b \in Booking, Turns(b, "confirmed", "pending_cancellation")
      PROVE  Place!Offer(b)
  BY <1>1, <1>3, TurnedSale, Phases DEF Turns, BookingStatus, Place!Offer, Place!Turn, Sale
<1>4. ASSUME NEW b \in Booking, Turns(b, "pending_cancellation", "confirmed")
      PROVE  Place!Keep(b)
  BY <1>1, <1>4, TurnedSale, Phases DEF Turns, BookingStatus, Place!Keep, Place!Turn, Sale
<1>5. ASSUME NEW b \in Booking,
             Turns(b, "confirmed", "cancelled") \/ Turns(b, "pending_cancellation", "cancelled")
      PROVE  Place!End(b)
  BY <1>1, <1>5, TurnedSale, Phases
     DEF Turns, BookingStatus, Place!End, Place!Valid, Place!Turn, Sale
<1>6. ASSUME NEW b \in Booking, NEW n \in Booking, NEW u \in User, HandsOver(b, n, u)
      PROVE  Place!Move(b, n, u)
  <2>1. Sale[b].phase = "offered" /\ Sale[b].owner # u
    BY <1>1, <1>6, Phases DEF HandsOver
  <2>2. Sale[n] = Place!Absent
    BY <1>6, Phases DEF HandsOver, Linked, RowsAreLinked, Sale, SaleOf, Place!Absent
  <2> QED BY <1>6, <2>1, <2>2, MovedSale DEF Place!Move, Place!SoldTo, Sale
<1>7. ASSUME NEW n \in Booking, NEW u \in User, Sells(n, u)
      PROVE  Place!Sell(n, u)
  <2>1. Sale[n] = Place!Absent
    BY <1>7, Phases DEF Sells, Linked, RowsAreLinked, Sale, SaleOf, Place!Absent
  <2>2. Place!Valid = {}
    <3>1. \A b \in Booking : booking[b].st \in BookingStatus \ {"confirmed", "pending_cancellation"}
      BY <1>7, TypeSplits DEF Sells, Active, Linked, BookingRow
    <3> QED BY <1>1, <3>1, Phases DEF BookingStatus, Place!Valid, Sale
  <2>3. Sale' = [Sale EXCEPT ![n] = [phase |-> "sold", owner |-> u]]
    BY <1>7, SoldSale DEF Sells
  <2> QED BY <2>1, <2>2, <2>3 DEF Place!Sell, Place!SoldTo, Sale
<1> QED BY <1>2, <1>3, <1>4, <1>5, <1>6, <1>7 DEF BookingEffect, Place!Next

(* The slot always has one owner, and only a paid hold moves it to another *)
(* user: every step of every handler keeps, offers, ends, hands over or    *)
(* sells the place as Resale allows.                                       *)
THEOREM ResaleRefinement == Spec => ImplementsResale
<1>1. Init => Place!Init
  BY InitSale
<1>2. ResaleInv /\ [Next]_vars => [Place!Next]_Sale
  BY StepEffect, StepSale DEF ResaleInv, Linked, Effect
<1> QED BY <1>1, <1>2, ResaleInvariance, PTL DEF Spec, ImplementsResale, Place!Spec, Sale

(* At most one booking entitles to the slot: Resale's own invariant. *)
THEOREM OneOwnerAlways == Spec => []Place!OneOwner
<1>1. ResaleInv => Place!OneOwner
  <2> SUFFICES ASSUME ResaleInv PROVE Place!OneOwner
    OBVIOUS
  <2>1. \A b \in Booking : booking[b].st \in BookingStatus
    BY TypeSplits DEF ResaleInv, BookingRow
  <2>2. Place!Valid \subseteq Active
    BY <2>1, Phases DEF BookingStatus, Place!Valid, SaleOf, Active
  <2> QED BY <2>2 DEF ResaleInv, OneActive, Place!OneOwner
<1> QED BY <1>1, ResaleInvariance, PTL

(* Once the slot has started no booking is handed over, however late the   *)
(* money of a buyer is found.                                              *)
THEOREM NoLateTransfer == Spec => NoTransferAfterStart
<1>1. ASSUME ResaleInv, [Next]_vars
      PROVE  [started => \A b \in Booking : booking'[b].st = "transferred"
                                           => booking[b].st = "transferred"]_vars
  <2>1. Linked /\ BookingEffect
    BY <1>1, StepEffect DEF ResaleInv, Linked, Effect
  <2>2. booking \in [Booking -> BookingRow]
    BY <2>1, TypeSplits DEF Linked
  <2>3. ASSUME started, NEW b \in Booking, booking'[b].st = "transferred"
        PROVE  booking[b].st = "transferred"
    <3>1. CASE booking' = booking
      BY <2>3, <3>1
    <3>2. ASSUME NEW c \in Booking,
                 NEW to \in BookingStatus \ {"transferred"},
                 booking' = [booking EXCEPT ![c].st = to]
          PROVE  booking[b].st = "transferred"
      BY <2>2, <2>3, <3>2 DEF BookingRow
    <3>3. CASE \E n \in Booking, u \in User : Sells(n, u)
      BY <2>2, <2>3, <3>3 DEF Sells
    <3>4. ~ \E c, n \in Booking, u \in User : HandsOver(c, n, u)
      BY <2>3 DEF HandsOver
    <3> QED BY <2>1, <3>1, <3>2, <3>3, <3>4 DEF BookingEffect, Turns, BookingStatus
  <2> QED BY <2>3
<1> QED BY <1>1, ResaleInvariance, PTL DEF Spec, NoTransferAfterStart

-----------------------------------------------------------------------------
(***************************************************************************)
(* The row locks.  A hold that a transaction has locked changes only in    *)
(* that transaction; a transaction that pays or cancels has locked an      *)
(* active hold, one that transfers or fails has locked one whose payment   *)
(* is under way.                                                           *)
(***************************************************************************)
EndedHold == {"paid", "expired", "failed", "cancelled"}

HoldsLock(w) == job[w].pc \in LockedPc

TokenIsProcessing == \A h \in Hold : hold[h].token <=> hold[h].st = "processing"

LocksAreExclusive ==
    \A v, w \in Worker : v # w /\ HoldsLock(v) /\ HoldsLock(w) => job[v].h # job[w].h

Fits(pc, st) ==
    /\ pc \in {"pays", "cancels"} => st = "active"
    /\ pc \in {"transfers", "fails"} => st = "processing"

LocksFit == \A w \in Worker : Fits(job[w].pc, hold[job[w].h].st)

LockInv == TokenIsProcessing /\ LocksAreExclusive /\ LocksFit

(* What a step of w does to holds and locks *)
SameStatus(h) == hold'[h].st = hold[h].st /\ hold'[h].token = hold[h].token

MayEnd(w, h) ==
    /\ hold[h].st \notin EndedHold
    /\ hold'[h].token <=> hold'[h].st = "processing"
    /\ \/ ~Locked(h)
       \/ HoldsLock(w) /\ job[w].h = h /\ job'[w].pc \notin LockedPc

LockStep(w) ==
    /\ \A v \in Worker \ {w} : job'[v] = job[v]
    /\ \A h \in Hold : SameStatus(h) \/ MayEnd(w, h)
    /\ \/ job'[w] = job[w]
       \/ job'[w].pc \notin LockedPc
       \/ ~Locked(job'[w].h) /\ Fits(job'[w].pc, hold'[job'[w].h].st)

LEMMA LockInvStep ==
    ASSUME Linked, LockInv, Linked', NEW w \in Worker, LockStep(w)
    PROVE  LockInv'
<1> USE DEF LockInv, LockStep
<1>1. TokenIsProcessing'
  BY DEF TokenIsProcessing, SameStatus, MayEnd
<1>2. ASSUME NEW v \in Worker, job'[v] = job[v], HoldsLock(v)
      PROVE  SameStatus(job[v].h)
  <2>1. job[v].h \in Hold
    BY <1>2, JobRefers DEF HoldsLock, LockedPc
  <2>2. Locked(job[v].h)
    BY <1>2 DEF Locked, HoldsLock
  <2> QED
    BY <1>2, <2>1, <2>2 DEF MayEnd, LocksAreExclusive, HoldsLock
<1>3. LocksAreExclusive'
  <2>1. ASSUME NEW v \in Worker \ {w}, HoldsLock(v)', HoldsLock(w)'
        PROVE  job'[v].h # job'[w].h
    <3>1. CASE job'[w] = job[w]
      BY <2>1, <3>1 DEF LocksAreExclusive, HoldsLock
    <3>2. CASE ~Locked(job'[w].h)
      BY <2>1, <3>2 DEF Locked, HoldsLock
    <3> QED
      BY <2>1, <3>1, <3>2 DEF HoldsLock
  <2>2. ASSUME NEW u \in Worker \ {w}, NEW v \in Worker \ {w}, u # v,
               HoldsLock(u)', HoldsLock(v)'
        PROVE  job'[u].h # job'[v].h
    BY <2>2 DEF LocksAreExclusive, HoldsLock
  <2> QED
    BY <2>1, <2>2 DEF LocksAreExclusive
<1>4. ASSUME NEW v \in Worker, job'[v] = job[v]
      PROVE  Fits(job'[v].pc, hold'[job'[v].h].st)
  <2>1. CASE HoldsLock(v)
    BY <1>2, <1>4, <2>1 DEF LocksFit, SameStatus
  <2>2. CASE ~HoldsLock(v)
    BY <1>4, <2>2 DEF HoldsLock, Fits, LockedPc
  <2> QED
    BY <2>1, <2>2
<1>5. LocksFit'
  <2>1. Fits(job'[w].pc, hold'[job'[w].h].st)
    BY <1>4 DEF Fits, LockedPc
  <2> QED
    BY <1>4, <2>1 DEF LocksFit
<1> QED
  BY <1>1, <1>3, <1>5

-----------------------------------------------------------------------------
(* What the updates do to each row *)

LEMMA HoldSet ==
    ASSUME Linked, NEW h \in Hold, NEW st \in HoldStatus, hold' = WithHold(h, st)
    PROVE  /\ \A g \in Hold \ {h} : hold'[g] = hold[g]
           /\ hold'[h].st = st /\ hold'[h].token = FALSE
           /\ hold'[h].offer = hold[h].offer /\ hold'[h].user = hold[h].user
           /\ hold'[h].track = hold[h].track
<1>1. hold \in [Hold -> HoldRow] /\ hold[h] \in HoldRow
  BY TypeSplits DEF Linked
<1> QED
  BY <1>1 DEF WithHold, HoldRow

LEMMA HoldsSet ==
    ASSUME Linked, NEW H \in SUBSET Hold, NEW st \in HoldStatus, hold' = WithHolds(H, st)
    PROVE  \A h \in Hold :
              /\ h \notin H => hold'[h] = hold[h]
              /\ h \in H => hold'[h].st = st /\ hold'[h].token = FALSE
              /\ hold'[h].offer = hold[h].offer /\ hold'[h].user = hold[h].user
              /\ hold'[h].track = hold[h].track
<1>1. hold \in [Hold -> HoldRow] /\ \A h \in Hold : hold[h] \in HoldRow
  BY TypeSplits DEF Linked
<1> QED
  BY <1>1 DEF WithHolds, HoldRow

LEMMA JobSet ==
    ASSUME Linked, NEW w \in Worker
    PROVE  /\ \A pc \in Pc : Goto(w, pc) =>
                /\ job'[w].pc = pc /\ job'[w].h = job[w].h
                /\ \A v \in Worker \ {w} : job'[v] = job[v]
           /\ Return(w) => job'[w].pc = "idle" /\ \A v \in Worker \ {w} : job'[v] = job[v]
           /\ \A pc \in Pc, h \in Hold : Begin(w, h, pc) =>
                /\ job'[w].pc = pc /\ job'[w].h = h
                /\ \A v \in Worker \ {w} : job'[v] = job[v]
           /\ \A pc \in Pc, h \in Hold : Lock(w, h, pc) =>
                /\ ~Locked(h) /\ job'[w].pc = pc /\ job'[w].h = h
                /\ job'[w].seenOffer = offer[hold[h].offer].st
                /\ \A v \in Worker \ {w} : job'[v] = job[v]
<1>1. job \in [Worker -> JobRow] /\ job[w] \in JobRow
  BY TypeSplits DEF Linked
<1>2. ASSUME NEW pc \in Pc, Goto(w, pc)
      PROVE  /\ job'[w].pc = pc /\ job'[w].h = job[w].h
             /\ \A v \in Worker \ {w} : job'[v] = job[v]
  BY <1>1, <1>2 DEF Goto, JobRow
<1>3. ASSUME Return(w)
      PROVE  job'[w].pc = "idle" /\ \A v \in Worker \ {w} : job'[v] = job[v]
  BY <1>1, <1>3 DEF Return, Idle
<1>4. ASSUME NEW pc \in Pc, NEW h \in Hold, Begin(w, h, pc)
      PROVE  /\ job'[w].pc = pc /\ job'[w].h = h
             /\ \A v \in Worker \ {w} : job'[v] = job[v]
  BY <1>1, <1>4 DEF Begin, Idle
<1>5. ASSUME NEW pc \in Pc, NEW h \in Hold, Lock(w, h, pc)
      PROVE  /\ ~Locked(h) /\ job'[w].pc = pc /\ job'[w].h = h
             /\ job'[w].seenOffer = offer[hold[h].offer].st
             /\ \A v \in Worker \ {w} : job'[v] = job[v]
  BY <1>1, <1>5 DEF Lock
<1> QED
  BY <1>2, <1>3, <1>4, <1>5

(* No job moves, and holds that are not locked end. *)
LEMMA UnlockedEnd ==
    ASSUME UNCHANGED job,
           \A h \in Hold : SameStatus(h) \/ (/\ hold[h].st \notin EndedHold /\ ~Locked(h)
                                             /\ hold'[h].token <=> hold'[h].st = "processing")
    PROVE  LockStep(Reconciler)
BY DEF LockStep, MayEnd, Worker

(* A job moves, and does not end up with a lock. *)
LEMMA JobMoves ==
    ASSUME Linked, NEW w \in Worker, \A v \in Worker \ {w} : job'[v] = job[v],
           job'[w].pc \notin LockedPc, \A h \in Hold : SameStatus(h) \/ MayEnd(w, h)
    PROVE  LockStep(w)
BY DEF LockStep

(* A job takes a lock. *)
LEMMA JobLocks ==
    ASSUME Linked, NEW w \in Worker, NEW h \in Hold, NEW pc \in Pc, Lock(w, h, pc),
           UNCHANGED hold, Fits(pc, hold[h].st)
    PROVE  LockStep(w)
BY JobSet DEF LockStep, SameStatus

-----------------------------------------------------------------------------
(* Each step at the locks *)

LEMMA CreateHoldRows ==
    ASSUME Linked, NEW u \in User, CreateHold(u)
    PROVE  \E b \in Booking, r \in Offer, n \in Hold :
              /\ ~started
              /\ booking[b].st = "pending_cancellation"
              /\ offer[r].st \in {"open", "held"} /\ offer[r].booking = b
              /\ \A h \in Hold : Live(h) => hold[h].offer = r /\ ~Locked(h)
              /\ hold[n].st = "none"
              /\ hold'[n].st = "active" /\ hold'[n].offer = r
              /\ ~hold'[n].token /\ ~hold'[n].track
              /\ \A h \in Hold \ {n} :
                    /\ ~Live(h) => hold'[h] = hold[h]
                    /\ Live(h) => hold'[h].st = "expired" /\ ~hold'[h].token
                    /\ hold'[h].offer = hold[h].offer /\ hold'[h].user = hold[h].user
                    /\ hold'[h].track = hold[h].track
              /\ offer' = WithOffer(r, "held")
              /\ slot' = [st |-> "reserving", reserved |-> TRUE]
              /\ UNCHANGED <<started, booking, gate, refund, penalty, job, faults>>
<1>1. PICK b \in Active, r \in Offer, n \in Hold :
        /\ r \in LiveOffers(b)
        /\ ~started
        /\ booking[b].st = "pending_cancellation"
        /\ \A h \in LiveHolds(r) : ~Locked(h)
        /\ \A h \in Hold : Live(h) => h \in LiveHolds(r)
        /\ NextRow(hold, n)
        /\ hold' = [WithHolds(LiveHolds(r), "expired") EXCEPT ![n] =
              [st |-> "active", offer |-> r, user |-> u, token |-> FALSE,
               track |-> FALSE, lapsed |-> FALSE, flag |-> "none"]]
        /\ offer' = WithOffer(r, "held")
        /\ slot' = [st |-> "reserving", reserved |-> TRUE]
        /\ UNCHANGED <<started, booking, gate, refund, penalty, job, faults>>
  <2>1. PICK b \in Active : \E r \in LiveOffers(b) :
          /\ ~started
          /\ booking[b].st = "pending_cancellation"
          /\ \A h \in LiveHolds(r) : ~Locked(h)
          /\ \A h \in Hold : Live(h) => h \in LiveHolds(r)
          /\ \E n \in Hold :
                /\ NextRow(hold, n)
                /\ hold' = [WithHolds(LiveHolds(r), "expired") EXCEPT ![n] =
                      [st |-> "active", offer |-> r, user |-> u, token |-> FALSE,
                       track |-> FALSE, lapsed |-> FALSE, flag |-> "none"]]
          /\ offer' = WithOffer(r, "held")
          /\ slot' = [st |-> "reserving", reserved |-> TRUE]
          /\ UNCHANGED <<started, booking, gate, refund, penalty, job, faults>>
    BY DEF CreateHold, Takeable
  <2> QED
    BY <2>1 DEF LiveOffers
<1> DEFINE old == WithHolds(LiveHolds(r), "expired")
           row == [st |-> "active", offer |-> r, user |-> u, token |-> FALSE,
                   track |-> FALSE, lapsed |-> FALSE, flag |-> "none"]
<1>2. b \in Booking /\ r \in Offer /\ offer[r].st \in {"open", "held"} /\ offer[r].booking = b
  BY <1>1 DEF LiveOffers, Active
<1>3. \A h \in Hold : /\ Live(h) => hold[h].offer = r /\ ~Locked(h)
                      /\ h \in LiveHolds(r) <=> Live(h)
  BY <1>1 DEF LiveHolds
<1>4. hold[n].st = "none"
  BY <1>1 DEF NextRow
<1>5. hold \in [Hold -> HoldRow] /\ \A h \in Hold : hold[h] \in HoldRow
  BY TypeSplits DEF Linked
<1>6. \A h \in Hold :
          /\ ~Live(h) => old[h] = hold[h]
          /\ Live(h) => old[h].st = "expired" /\ ~old[h].token
          /\ old[h].offer = hold[h].offer /\ old[h].user = hold[h].user
          /\ old[h].track = hold[h].track
  BY <1>3, <1>5 DEF WithHolds, HoldRow
<1>7. /\ row.st = "active" /\ row.offer = r /\ ~row.token /\ ~row.track
      /\ DOMAIN old = Hold
  BY DEF WithHolds
<1>8. hold' = [old EXCEPT ![n] = row]
  BY <1>1
<1> HIDE DEF old, row
<1>9. hold'[n] = row /\ \A h \in Hold \ {n} : hold'[h] = old[h]
  BY <1>7, <1>8
<1>10. /\ hold'[n].st = "active" /\ hold'[n].offer = r
       /\ ~hold'[n].token /\ ~hold'[n].track
  BY <1>7, <1>9
<1>11. \A h \in Hold \ {n} :
          /\ ~Live(h) => hold'[h] = hold[h]
          /\ Live(h) => hold'[h].st = "expired" /\ ~hold'[h].token
          /\ hold'[h].offer = hold[h].offer /\ hold'[h].user = hold[h].user
          /\ hold'[h].track = hold[h].track
  BY <1>6, <1>9
<1>12. /\ ~started /\ booking[b].st = "pending_cancellation"
       /\ offer' = WithOffer(r, "held")
       /\ slot' = [st |-> "reserving", reserved |-> TRUE]
       /\ UNCHANGED <<started, booking, gate, refund, penalty, job, faults>>
  BY <1>1
<1>13. \A h \in Hold : Live(h) => hold[h].offer = r /\ ~Locked(h)
  BY <1>3
<1> QED
  BY <1>2, <1>4, <1>10, <1>11, <1>12, <1>13

LEMMA OutsideLocks ==
    ASSUME Linked, TokenIsProcessing,
           \/ \E b \in Booking : CancelLate(b) \/ Withdraw(b)
           \/ \E b \in Booking, release_slot \in BOOLEAN : ManagerCancel(b, release_slot)
           \/ \E u \in User : CreateHold(u) \/ CreateTooLate(u) \/ Resell(u)
           \/ \E h \in Hold : HolderMovesOn(h) \/ ExpireHold(h)
           \/ \E r \in Offer : ExpireOffer(r)
           \/ \E h \in Hold : Lapse(h) \/ PayerPays(h) \/ GatewayCloses(h)
           \/ Tick
           \/ UNCHANGED vars
    PROVE  LockStep(Reconciler)
<1>1. ASSUME UNCHANGED <<hold, job>>
      PROVE  LockStep(Reconciler)
  BY <1>1, UnlockedEnd DEF SameStatus
<1>2. CASE \/ \E b \in Booking : CancelLate(b) \/ Withdraw(b)
           \/ \E u \in User : CreateTooLate(u) \/ Resell(u)
           \/ \E h \in Hold : PayerPays(h) \/ GatewayCloses(h)
           \/ Tick
           \/ UNCHANGED vars
  BY <1>1, <1>2 DEF CancelLate, Withdraw, CreateTooLate, Resell, PayerPays, GatewayCloses, Tick,
     vars
<1>3. ASSUME NEW H \in SUBSET Hold, H \subseteq {h \in Hold : Live(h) /\ ~Locked(h)},
             NEW st \in {"expired", "cancelled"}, hold' = WithHolds(H, st), UNCHANGED job
      PROVE  LockStep(Reconciler)
  <2>0. st \in HoldStatus
    BY DEF HoldStatus
  <2>1. \A h \in Hold : /\ h \notin H => hold'[h] = hold[h]
                        /\ h \in H => hold'[h].st = st /\ ~hold'[h].token
    BY <1>3, <2>0, HoldsSet
  <2>2. \A h \in H : hold[h].st \notin EndedHold /\ ~Locked(h)
    BY <1>3 DEF Live, EndedHold
  <2>3. \A h \in Hold : SameStatus(h) \/ (/\ hold[h].st \notin EndedHold /\ ~Locked(h)
                                          /\ hold'[h].token <=> hold'[h].st = "processing")
    BY <2>1, <2>2 DEF SameStatus
  <2> QED
    BY <1>3, <2>3, UnlockedEnd
<1>4. ASSUME NEW h \in Hold, Live(h), ~Locked(h), hold' = WithHold(h, "expired"), UNCHANGED job
      PROVE  LockStep(Reconciler)
  BY <1>4, HoldSet, UnlockedEnd DEF SameStatus, Live, EndedHold, HoldStatus
<1>5. ASSUME NEW b \in Booking, NEW release_slot \in BOOLEAN, ManagerCancel(b, release_slot)
      PROVE  LockStep(Reconciler)
  <2>1. CASE booking[b].st = "pending_cancellation"
    <3> DEFINE H == {h \in UNION {LiveHolds(r) : r \in LiveOffers(b)} : ~Locked(h)}
    <3>1. hold' = WithHolds(H, "cancelled") /\ UNCHANGED job
      BY <1>5, <2>1 DEF ManagerCancel
    <3>2. H \subseteq {h \in Hold : Live(h) /\ ~Locked(h)}
      BY DEF LiveHolds
    <3> HIDE DEF H
    <3> QED
      BY <1>3, <3>1, <3>2
  <2> QED
    BY <1>1, <1>5, <2>1 DEF ManagerCancel
<1>6. ASSUME NEW u \in User, CreateHold(u)
      PROVE  LockStep(Reconciler)
  <2>1. PICK n \in Hold :
          /\ \A h \in Hold : Live(h) => ~Locked(h)
          /\ hold[n].st = "none"
          /\ hold'[n].st = "active" /\ ~hold'[n].token
          /\ \A h \in Hold \ {n} :
                /\ ~Live(h) => hold'[h] = hold[h]
                /\ Live(h) => hold'[h].st = "expired" /\ ~hold'[h].token
          /\ UNCHANGED job
    BY <1>6, CreateHoldRows
  <2>2. ~Locked(n)
    BY <2>1 DEF Locked, LockedPc, Linked, JobsHoldHolds
  <2> QED
    BY <2>1, <2>2, UnlockedEnd DEF SameStatus, Live, EndedHold
<1>7. ASSUME NEW h \in Hold, HolderMovesOn(h) \/ ExpireHold(h)
      PROVE  LockStep(Reconciler)
  BY <1>4, <1>7 DEF HolderMovesOn, ExpireHold, Live
<1>8. ASSUME NEW r \in Offer, ExpireOffer(r)
      PROVE  LockStep(Reconciler)
  <2> DEFINE H == {h \in LiveHolds(r) : ~Locked(h)}
  <2>1. hold' = WithHolds(H, "expired") /\ UNCHANGED job
    BY <1>8 DEF ExpireOffer
  <2>2. H \subseteq {h \in Hold : Live(h) /\ ~Locked(h)}
    BY DEF LiveHolds
  <2> HIDE DEF H
  <2> QED
    BY <1>3, <2>1, <2>2
<1>9. ASSUME NEW h \in Hold, Lapse(h)
      PROVE  LockStep(Reconciler)
  <2>1. hold \in [Hold -> HoldRow] /\ hold[h] \in HoldRow
    BY TypeSplits DEF Linked
  <2> QED
    BY <1>9, <2>1, UnlockedEnd DEF Lapse, SameStatus, HoldRow
<1> QED
  BY <1>2, <1>5, <1>6, <1>7, <1>8, <1>9

LEMMA StartsAtLocks ==
    ASSUME Linked, NEW w \in Worker, NEW h \in Hold,
           PayLocks(w, h) \/ CancelLocks(w, h) \/ StartResolve(w, h)
    PROVE  LockStep(w)
<1>1. CASE PayLocks(w, h)
  BY <1>1, JobLocks DEF PayLocks, Fits, Pc, LockedPc
<1>2. CASE CancelLocks(w, h)
  BY <1>2, JobLocks DEF CancelLocks, Fits, Pc, LockedPc
<1>3. CASE StartResolve(w, h)
  BY <1>3, JobSet, JobMoves DEF StartResolve, SameStatus, Pc, LockedPc
<1> QED
  BY <1>1, <1>2, <1>3

(* The hold of a job ends in its own transaction. *)
LEMMA OwnEnds ==
    ASSUME Linked, LockInv, NEW w \in Worker, HoldsLock(w),
           hold[job[w].h].st \notin EndedHold,
           NEW st \in HoldStatus \ {"processing"}, hold' = WithHold(job[w].h, st),
           \A v \in Worker \ {w} : job'[v] = job[v], job'[w].pc \notin LockedPc
    PROVE  LockStep(w)
<1>1. job[w].h \in Hold
  BY JobRefers DEF HoldsLock, LockedPc
<1> QED
  BY <1>1, HoldSet, JobMoves DEF SameStatus, MayEnd

LEMMA JobAtLocks ==
    ASSUME Linked, LockInv, NEW w \in Worker, JobStep(w)
    PROVE  LockStep(w)
<1>1. job[w].pc # "idle" /\ job[w].h \in Hold
  <2>1. job[w].pc # "idle"
    BY DEF JobStep, PayBegins, PayTooLate, RecordTrack, GatewayRefuses, FailPayment, CancelHold,
       Verify, Settle, Transfer, Conflict, InquireRefusal, Classify, RecordFailure, IndexRefuses
  <2> QED
    BY <2>1, JobRefers
<1>0. hold \in [Hold -> HoldRow] /\ hold[job[w].h] \in HoldRow
  BY <1>1, TypeSplits DEF Linked
<1>2. Fits(job[w].pc, hold[job[w].h].st)
  BY DEF LockInv, LocksFit
<1>3. ASSUME UNCHANGED hold, \A v \in Worker \ {w} : job'[v] = job[v], job'[w].pc \notin LockedPc
      PROVE  LockStep(w)
  BY <1>3, JobMoves DEF SameStatus
<1>4. Return(w) => job'[w].pc \notin LockedPc /\ \A v \in Worker \ {w} : job'[v] = job[v]
  BY JobSet DEF LockedPc
<1>5. ASSUME NEW pc \in {"request", "settle", "refused", "classify"}, Goto(w, pc)
      PROVE  job'[w].pc \notin LockedPc /\ \A v \in Worker \ {w} : job'[v] = job[v]
  BY <1>5, JobSet DEF LockedPc, Pc
<1>6. ASSUME FailLocks(w), UNCHANGED hold
      PROVE  LockStep(w)
  <2>1. CASE hold[job[w].h].token
    BY <1>1, <1>6, <2>1, JobLocks DEF FailLocks, LockInv, TokenIsProcessing, Fits, Pc, LockedPc
  <2> QED
    BY <1>3, <1>4, <1>6, <2>1 DEF FailLocks
<1>7. CASE PayBegins(w)
  <2>1. hold[job[w].h].st = "active" /\ HoldsLock(w)
    BY <1>2, <1>7 DEF PayBegins, Fits, HoldsLock, LockedPc
  <2>2. /\ hold'[job[w].h].st = "processing" /\ hold'[job[w].h].token
        /\ \A g \in Hold \ {job[w].h} : hold'[g] = hold[g]
    BY <1>0, <1>1, <1>7 DEF PayBegins, HoldRow
  <2> QED
    BY <1>5, <1>7, <2>1, <2>2, JobMoves DEF PayBegins, SameStatus, MayEnd, EndedHold
<1>8. CASE PayTooLate(w)
  BY <1>2, <1>4, <1>8, OwnEnds DEF PayTooLate, Fits, HoldsLock, LockedPc, EndedHold, HoldStatus
<1>9. CASE RecordTrack(w)
  <2>1. \A g \in Hold : SameStatus(g)
    BY <1>0, <1>9 DEF RecordTrack, SameStatus, HoldRow
  <2> QED
    BY <1>4, <1>9, <2>1, JobMoves DEF RecordTrack
<1>10. CASE GatewayRefuses(w)
  BY <1>6, <1>10 DEF GatewayRefuses
<1>11. CASE FailPayment(w)
  BY <1>2, <1>4, <1>11, OwnEnds DEF FailPayment, Fits, HoldsLock, LockedPc, EndedHold, HoldStatus
<1>12. CASE CancelHold(w)
  BY <1>2, <1>4, <1>12, OwnEnds DEF CancelHold, Fits, HoldsLock, LockedPc, EndedHold, HoldStatus
<1>13. CASE Verify(w)
  BY <1>3, <1>5, <1>13 DEF Verify
<1>14. CASE Settle(w)
  <2>1. CASE hold' = [hold EXCEPT ![job[w].h].flag = "amount_mismatch"] /\ Return(w)
    <3>1. \A g \in Hold : SameStatus(g)
      BY <1>0, <2>1 DEF SameStatus, HoldRow
    <3> QED
      BY <1>4, <2>1, <3>1, JobMoves
  <2>2. CASE Return(w) /\ UNCHANGED hold
    BY <1>3, <1>4, <2>2
  <2>3. CASE hold[job[w].h].token /\ Lock(w, job[w].h, "transfers") /\ UNCHANGED hold
    BY <1>1, <2>3, JobLocks DEF LockInv, TokenIsProcessing, Fits, Pc, LockedPc
  <2> QED
    BY <1>14, <2>1, <2>2, <2>3 DEF Settle
<1>15. CASE Transfer(w)
  BY <1>2, <1>4, <1>15, OwnEnds DEF Transfer, Fits, HoldsLock, LockedPc, EndedHold, HoldStatus
<1>16. CASE Conflict(w)
  <2>1. hold[job[w].h].st = "processing" /\ HoldsLock(w)
    BY <1>2, <1>16 DEF Conflict, Fits, HoldsLock, LockedPc
  <2>2. /\ hold'[job[w].h].st = "failed" /\ ~hold'[job[w].h].token
        /\ \A g \in Hold \ {job[w].h} : hold'[g] = hold[g]
    BY <1>0, <1>1, <1>16 DEF Conflict, HoldRow
  <2> QED
    BY <1>4, <1>16, <2>1, <2>2, JobMoves DEF Conflict, SameStatus, MayEnd, EndedHold
<1>17. CASE InquireRefusal(w)
  <2>1. CASE Lock(w, job[w].h, "records")
    BY <1>1, <1>17, <2>1, JobLocks DEF InquireRefusal, Fits, Pc, LockedPc
  <2> QED
    BY <1>3, <1>5, <1>17, <2>1 DEF InquireRefusal
<1>18. CASE Classify(w)
  <2>1. CASE Lock(w, job[w].h, "closes")
    BY <1>1, <1>18, <2>1, JobLocks DEF Classify, Fits, Pc, LockedPc
  <2> QED
    BY <1>3, <1>4, <1>6, <1>18, <2>1 DEF Classify
<1>19. CASE RecordFailure(w)
  <2>1. job'[w].pc \notin LockedPc /\ \A v \in Worker \ {w} : job'[v] = job[v]
    BY <1>4, <1>5, <1>19 DEF RecordFailure
  <2>2. CASE hold[job[w].h].st = "processing"
    BY <1>19, <2>1, <2>2, OwnEnds DEF RecordFailure, HoldsLock, LockedPc, EndedHold, HoldStatus
  <2> QED
    BY <1>3, <1>19, <2>1, <2>2 DEF RecordFailure
<1>20. CASE IndexRefuses(w)
  BY <1>3, <1>4, <1>20 DEF IndexRefuses
<1> QED
  BY <1>7, <1>8, <1>9, <1>10, <1>11, <1>12, <1>13, <1>14, <1>15, <1>16, <1>17, <1>18, <1>19, <1>20
  DEF JobStep

LEMMA FaultsAtLocks ==
    ASSUME Linked, NEW w \in Worker, Abort(w) \/ LoseVerifyReply(w) \/ LoseInquiry(w)
    PROVE  LockStep(w)
<1>1. job'[w].pc \notin LockedPc /\ \A v \in Worker \ {w} : job'[v] = job[v]
  BY JobSet DEF Abort, LoseVerifyReply, LoseInquiry, LockedPc, Pc
<1> QED
  BY <1>1, JobMoves DEF Abort, LoseVerifyReply, LoseInquiry, SameStatus

LEMMA EachLockStep ==
    ASSUME Linked, LockInv, [Next]_vars
    PROVE  \E w \in Worker : LockStep(w)
<1>1. Reconciler \in Worker
  BY DEF Worker
<1>2. ASSUME NEW w \in Request, NEW h \in Hold,
             PayLocks(w, h) \/ CancelLocks(w, h) \/ StartResolve(w, h)
      PROVE  \E v \in Worker : LockStep(v)
  BY <1>2, StartsAtLocks DEF Worker
<1>3. ASSUME NEW h \in Hold, Reconcile(h)
      PROVE  LockStep(Reconciler)
  BY <1>1, <1>3, StartsAtLocks DEF Reconcile
<1>4. ASSUME NEW w \in Worker,
             JobStep(w) \/ Abort(w) \/ LoseVerifyReply(w) \/ LoseInquiry(w)
      PROVE  LockStep(w)
  BY <1>4, JobAtLocks, FaultsAtLocks
<1> QED
  BY <1>1, <1>2, <1>3, <1>4, OutsideLocks DEF Next, LockInv

LEMMA InitLocks == Init => LockInv
<1> SUFFICES ASSUME Init PROVE LockInv
  OBVIOUS
<1>1. \A h \in Hold : hold[h].st = "none" /\ hold[h].token = FALSE
  BY DEF Init
<1>2. \A w \in Worker : job[w].pc = "idle"
  BY DEF Init, Idle
<1> QED
  BY <1>1, <1>2 DEF LockInv, TokenIsProcessing, LocksAreExclusive, HoldsLock, LockedPc, LocksFit, Fits

(* A booking that ended is out of the reach of every step. *)
LEMMA BookingEnds ==
    ASSUME Linked, BookingEffect, NEW b \in Booking,
           booking[b].st \in {"transferred", "cancelled"}
    PROVE  booking'[b] = booking[b]
<1>1. booking \in [Booking -> BookingRow]
  BY TypeSplits DEF Linked
<1>2. \A c \in Booking : \A to \in BookingStatus, from \in {"confirmed", "pending_cancellation"} :
          Turns(c, from, to) => booking'[b] = booking[b]
  BY <1>1 DEF Turns
<1>3. \A c, n \in Booking, u \in User : HandsOver(c, n, u) => booking'[b] = booking[b]
  BY <1>1 DEF HandsOver
<1>4. \A n \in Booking, u \in User : Sells(n, u) => booking'[b] = booking[b]
  BY <1>1 DEF Sells
<1> QED
  BY <1>2, <1>3, <1>4 DEF BookingEffect, BookingStatus

(* Rows that refer to each other, and locks that are respected: what every *)
(* step of the resale may rely on *)
Sound == ResaleInv /\ LockInv

LEMMA SoundStep ==
    ASSUME Sound, [Next]_vars
    PROVE  /\ Linked /\ LockInv /\ Linked' /\ Sound'
           /\ Effect
           /\ \E w \in Worker : LockStep(w)
<1>1. Linked /\ OneActive /\ LockInv
  BY DEF Sound, ResaleInv, Linked
<1>2. Effect
  BY <1>1, StepEffect
<1>3. Linked' /\ OneActive'
  BY <1>1, <1>2, LinkedStep, OneActiveStep DEF Effect
<1>4. \E w \in Worker : LockStep(w)
  BY <1>1, EachLockStep
<1>5. LockInv'
  BY <1>1, <1>3, <1>4, LockInvStep
<1> QED
  BY <1>1, <1>2, <1>3, <1>4, <1>5 DEF Sound, ResaleInv, Linked

(* The row locks of the holds do what the handlers rely on: a locked hold  *)
(* changes in its own transaction only, and a payment is under way exactly *)
(* as long as the hold has its processing token.                           *)
THEOREM LocksAreRespected == Spec => []Sound
<1>1. Init => Sound
  BY InitLinked, InitLocks DEF Sound, Linked, ResaleInv
<1>2. Sound /\ [Next]_vars => Sound'
  BY SoundStep
<1> QED
  BY <1>1, <1>2, PTL DEF Spec

(* A booking or hold that ended stays ended, whichever late answer, retry  *)
(* or job comes: every handler writes a hold under its lock, after looking *)
(* at its status, and only live bookings are turned or handed over.        *)
THEOREM EndedRowsStay == Spec => RowsStayEnded
<1> DEFINE
      Stays == /\ \A b \in Booking :
                    booking[b].st \in {"transferred", "cancelled"} => booking'[b] = booking[b]
               /\ \A h \in Hold :
                    hold[h].st \in {"paid", "expired", "failed", "cancelled"}
                        => hold'[h].st = hold[h].st
<1>1. ASSUME Sound, [Next]_vars
      PROVE  Stays
  <2>1. Linked /\ BookingEffect
    BY <1>1, SoundStep DEF Effect
  <2>2. \A b \in Booking :
            booking[b].st \in {"transferred", "cancelled"} => booking'[b] = booking[b]
    BY <2>1, BookingEnds
  <2>3. \A h \in Hold : hold[h].st \in EndedHold => hold'[h].st = hold[h].st
    BY <1>1, SoundStep DEF LockStep, SameStatus, MayEnd
  <2> QED
    BY <2>2, <2>3 DEF EndedHold
<1>2. RowsStayEnded <=> [][Stays]_vars
  BY DEF RowsStayEnded
<1> HIDE DEF Stays
<1> QED
  BY <1>1, <1>2, LocksAreRespected, PTL DEF Spec

-----------------------------------------------------------------------------
(***************************************************************************)
(* The money.  A hold has no checkout before its payment is begun, one job *)
(* at most asks the gateway for it, and a job that settles a payment has   *)
(* seen the money captured.  The invariant behind TransferIsWhole.         *)
(***************************************************************************)
Fresh == {"none", "active"}

FreshHasNoCheckout ==
    \A h \in Hold : hold[h].st \in Fresh => gate[h].st = "none" /\ ~hold[h].track

RequestIsFirst ==
    /\ \A w \in Worker : job[w].pc = "request" =>
          gate[job[w].h].st = "none" /\ hold[job[w].h].st # "active"
    /\ \A v, w \in Worker :
          v # w /\ job[v].pc = "request" /\ job[w].pc = "request" => job[v].h # job[w].h

SettledIsCaptured ==
    \A w \in Worker :
        /\ job[w].pc \in {"settle", "transfers"} => gate[job[w].h].st = "captured"
        /\ job[w].pc = "transfers" => gate[job[w].h].exact

PaidIsTransfer ==
    \A h \in Hold : hold[h].st = "paid" => booking[OriginalOf(h)].st = "transferred"

UnsoldReplacesNone == \A b \in Booking : booking[b].st = "none" => booking[b].replaces = 0

MoneyInv ==
    /\ FreshHasNoCheckout /\ RequestIsFirst /\ SettledIsCaptured
    /\ PaidIsTransfer /\ UnsoldReplacesNone /\ TransferIsWhole

(* What a step of w does to checkouts and to the jobs that use them *)
FreshStep ==
    \A h \in Hold : hold'[h].st \in Fresh =>
        hold[h].st \in Fresh /\ (hold'[h].track => hold[h].track)

GateStep(w) ==
    \A h \in Hold :
        \/ gate'[h] = gate[h]
        \/ job[w].pc = "request" /\ job[w].h = h /\ job'[w].pc # "request"
        \/ gate[h].st \in {"open", "paid"}

CallStep(w) ==
    \/ job'[w] = job[w]
    \/ job'[w].pc \notin {"request", "settle", "transfers"}
    \/ /\ job[w].pc = "pays" /\ job'[w].pc = "request" /\ job'[w].h = job[w].h
       /\ hold[job[w].h].st = "active" /\ hold'[job[w].h].st # "active"
    \/ job'[w].pc = "settle" /\ gate'[job'[w].h].st = "captured"
    \/ /\ job'[w].pc = "transfers" /\ job[w].pc = "settle" /\ job'[w].h = job[w].h
       /\ gate'[job[w].h] = gate[job[w].h] /\ gate[job[w].h].exact

(* ... and to bookings, refunds and penalties *)
NonePaid == \A h \in Hold : hold'[h].st = "paid" => hold[h].st = "paid"

Quiet ==
    /\ \A b \in Booking : booking'[b].st \in {"transferred", "cancelled"} =>
          booking'[b].st = booking[b].st
    /\ UNCHANGED <<refund, penalty>>
    /\ NonePaid

Cancels(b) ==
    /\ \E from \in {"confirmed", "pending_cancellation"} : Turns(b, from, "cancelled")
    /\ refund' = [refund EXCEPT ![b] = @ \cup {"manager_cancellation"}]
    /\ UNCHANGED penalty
    /\ NonePaid

Transfers(h, n) ==
    /\ HandsOver(OriginalOf(h), n, hold[h].user)
    /\ refund' = [refund EXCEPT ![OriginalOf(h)] = @ \cup {"replaced_after_pending_cancellation"}]
    /\ penalty' = penalty \cup {OriginalOf(h)}
    /\ hold[h].st = "processing" /\ hold'[h].st = "paid"
    /\ \A g \in Hold \ {h} : hold'[g].st = "paid" => hold[g].st = "paid"
    /\ gate[h].st = "captured" /\ gate[h].exact

SaleStep ==
    \/ Quiet
    \/ \E b \in Booking : Cancels(b)
    \/ \E h \in Hold, n \in Booking : Transfers(h, n)

MoneyStep(w) ==
    /\ \A v \in Worker \ {w} : job'[v] = job[v]
    /\ FreshStep /\ GateStep(w) /\ CallStep(w) /\ SaleStep

EndedStay == \A h \in Hold : hold[h].st \in EndedHold => hold'[h].st = hold[h].st

LEMMA JobHasHold ==
    ASSUME Linked, NEW w \in Worker, job[w].pc # "idle"
    PROVE  job[w].h \in Hold /\ hold[job[w].h].st # "none"
BY DEF Linked, JobsHoldHolds

LEMMA CheckoutsStep ==
    ASSUME Linked, MoneyInv, NEW w \in Worker, MoneyStep(w)
    PROVE  (FreshHasNoCheckout /\ RequestIsFirst /\ SettledIsCaptured)'
<1> USE DEF MoneyStep, MoneyInv
<1>1. \A v \in Worker : job[v].pc # "idle" => job[v].h \in Hold /\ hold[job[v].h].st # "none"
  BY JobHasHold
<1>2. FreshHasNoCheckout'
  <2>1. ASSUME NEW h \in Hold, hold[h].st \in Fresh
        PROVE  gate[h].st = "none" /\ ~hold[h].track /\ gate'[h] = gate[h]
    <3>1. gate[h].st = "none" /\ ~hold[h].track
      BY <2>1 DEF FreshHasNoCheckout
    <3>2. ~(job[w].pc = "request" /\ job[w].h = h)
      BY <1>1, <2>1 DEF RequestIsFirst, Fresh
    <3> QED
      BY <3>1, <3>2 DEF GateStep
  <2> QED
    BY <2>1 DEF FreshHasNoCheckout, FreshStep
<1>3. ASSUME NEW v \in Worker, job[v].pc = "request", job'[v] = job[v]
      PROVE  gate'[job[v].h].st = "none" /\ hold'[job[v].h].st # "active"
  <2>1. /\ job[v].h \in Hold /\ hold[job[v].h].st \notin Fresh
        /\ gate[job[v].h].st = "none"
    BY <1>1, <1>3 DEF RequestIsFirst, Fresh
  <2>2. ~(job[w].pc = "request" /\ job[w].h = job[v].h /\ job'[w].pc # "request")
    BY <1>3 DEF RequestIsFirst
  <2> QED
    BY <2>1, <2>2 DEF FreshStep, GateStep, Fresh
<1>4. ASSUME job'[w].pc = "request", job'[w] # job[w]
      PROVE  /\ gate'[job'[w].h].st = "none" /\ hold'[job'[w].h].st # "active"
             /\ \A v \in Worker \ {w} : job[v].pc = "request" => job[v].h # job'[w].h
  <2>1. job[w].pc # "idle" /\ job'[w].h = job[w].h /\ hold[job[w].h].st = "active" /\ hold'[job[w].h].st # "active"
    BY <1>4 DEF CallStep
  <2>2. \A v \in Worker \ {w} : job[v].pc = "request" => job[v].h # job'[w].h
    BY <2>1 DEF RequestIsFirst
  <2>3. gate'[job[w].h] = gate[job[w].h] /\ gate[job[w].h].st = "none"
    BY <1>1, <1>4, <2>1 DEF GateStep, FreshHasNoCheckout, Fresh
  <2> QED
    BY <2>1, <2>2, <2>3
<1>5. RequestIsFirst'
  BY <1>3, <1>4 DEF RequestIsFirst
<1>6. ASSUME NEW h \in Hold, gate[h].st = "captured"
      PROVE  gate'[h] = gate[h]
  BY <1>6 DEF GateStep, RequestIsFirst
<1>7. SettledIsCaptured'
  BY <1>1, <1>6 DEF SettledIsCaptured, CallStep
<1> QED
  BY <1>2, <1>5, <1>7

(* The bookings a step leaves alone, sells or turns keep what they replace. *)
LEMMA SuccessorsKept ==
    ASSUME Linked, BookingEffect, UnsoldReplacesNone,
           \A b, n \in Booking, u \in User : ~HandsOver(b, n, u)
    PROVE  /\ UnsoldReplacesNone'
           /\ \A b, m \in Booking : booking'[m].replaces = b <=> booking[m].replaces = b
<1>1. booking \in [Booking -> BookingRow] /\ \A b \in Booking : booking[b] \in BookingRow /\ b # 0
  BY TypeSplits DEF Linked, Booking
<1>2. ASSUME NEW b \in Booking, NEW from \in BookingStatus, NEW to \in BookingStatus \ {"none"},
             Turns(b, from, to)
      PROVE  \A m \in Booking : /\ booking'[m].replaces = booking[m].replaces
                                /\ booking'[m].st = "none" => booking[m].st = "none"
  BY <1>1, <1>2 DEF Turns, BookingRow
<1>3. ASSUME NEW n \in Booking, NEW u \in User, Sells(n, u)
      PROVE  \A m \in Booking : /\ booking'[m].replaces = booking[m].replaces
                                /\ booking'[m].st = "none" => booking[m].st = "none"
  BY <1>1, <1>3 DEF Sells, UnsoldReplacesNone
<1>4. \A m \in Booking : /\ booking'[m].replaces = booking[m].replaces
                         /\ booking'[m].st = "none" => booking[m].st = "none"
  BY <1>2, <1>3 DEF BookingEffect, BookingStatus
<1> QED
  BY <1>4 DEF UnsoldReplacesNone

(* What the money of one booking says of its end *)
WholeFor(b) ==
    /\ booking[b].st = "transferred" =>
          \E n \in Booking, h \in Hold :
              /\ {m \in Booking : booking[m].replaces = b} = {n}
              /\ {g \in Hold : hold[g].st = "paid" /\ OriginalOf(g) = b} = {h}
              /\ booking[n].user = hold[h].user
              /\ gate[h] = [st |-> "captured", exact |-> TRUE]
              /\ b \in penalty
              /\ refund[b] = {"replaced_after_pending_cancellation"}
    /\ booking[b].st = "cancelled" => refund[b] = {"manager_cancellation"}
    /\ booking[b].st \in {"none", "confirmed", "pending_cancellation"} =>
          /\ b \notin penalty
          /\ refund[b] = {}
          /\ \A n \in Booking : booking[n].replaces # b

LEMMA WholeForEach == TransferIsWhole <=> \A b \in Booking : WholeFor(b)
BY DEF TransferIsWhole, WholeFor

(* A paid hold and the user of a sold booking stay what they are. *)
LEMMA PaidKept ==
    ASSUME Linked, Effect, EndedStay, PaidIsTransfer
    PROVE  /\ \A h \in Hold : hold[h].st = "paid" =>
                 /\ hold'[h].st = "paid" /\ hold'[h].user = hold[h].user
                 /\ OriginalOf(h)' = OriginalOf(h)
<1> SUFFICES ASSUME NEW h \in Hold, hold[h].st = "paid"
             PROVE  /\ hold'[h].st = "paid" /\ hold'[h].user = hold[h].user
                    /\ OriginalOf(h)' = OriginalOf(h)
  OBVIOUS
<1>1. hold'[h].st = "paid"
  BY DEF EndedStay, EndedHold
<1>2. hold'[h].offer = hold[h].offer /\ hold'[h].user = hold[h].user
  BY DEF Effect, HoldEffect
<1>3. hold[h].offer \in Offer /\ offer[hold[h].offer].st # "none"
  BY HoldRefers
<1>4. offer'[hold[h].offer].booking = offer[hold[h].offer].booking
  BY <1>3 DEF Effect, OfferEffect
<1> QED
  BY <1>1, <1>2, <1>4 DEF OriginalOf

(* A booking whose row, holds and payments a step leaves alone *)
KeptFor(b) ==
    /\ \/ booking'[b].st = booking[b].st
       \/ booking[b].st \notin {"transferred", "cancelled"}
            /\ booking'[b].st \notin {"transferred", "cancelled"}
    /\ refund'[b] = refund[b]
    /\ b \in penalty' <=> b \in penalty
    /\ \A m \in Booking : booking'[m].replaces = b <=> booking[m].replaces = b
    /\ \A g \in Hold : hold'[g].st = "paid" /\ hold[g].st # "paid" => OriginalOf(g)' # b

LEMMA WholeKept ==
    ASSUME Linked, Effect, EndedStay, MoneyInv, NEW w \in Worker, GateStep(w), NEW b \in Booking,
           KeptFor(b)
    PROVE  WholeFor(b)'
<1> USE DEF KeptFor
<1>0. WholeFor(b)
  BY WholeForEach DEF MoneyInv
<1>1. \A h \in Hold : hold[h].st = "paid" =>
          hold'[h].st = "paid" /\ hold'[h].user = hold[h].user /\ OriginalOf(h)' = OriginalOf(h)
  BY PaidKept DEF MoneyInv
<1>2. ASSUME booking[b].st = "transferred"
      PROVE  \E n \in Booking, h \in Hold :
                /\ {m \in Booking : booking'[m].replaces = b} = {n}
                /\ {g \in Hold : hold'[g].st = "paid" /\ OriginalOf(g)' = b} = {h}
                /\ booking'[n].user = hold'[h].user
                /\ gate'[h] = [st |-> "captured", exact |-> TRUE]
                /\ b \in penalty'
                /\ refund'[b] = {"replaced_after_pending_cancellation"}
  <2>1. PICK n \in Booking, h \in Hold :
              /\ {m \in Booking : booking[m].replaces = b} = {n}
              /\ {g \in Hold : hold[g].st = "paid" /\ OriginalOf(g) = b} = {h}
              /\ booking[n].user = hold[h].user
              /\ gate[h] = [st |-> "captured", exact |-> TRUE]
              /\ b \in penalty
              /\ refund[b] = {"replaced_after_pending_cancellation"}
    BY <1>0, <1>2 DEF WholeFor
  <2>2. {m \in Booking : booking'[m].replaces = b} = {n}
    BY <2>1
  <2>3. {g \in Hold : hold'[g].st = "paid" /\ OriginalOf(g)' = b} = {h}
    BY <1>1, <2>1
  <2>4. booking[n].replaces = b /\ b # 0 /\ hold[h].st = "paid"
    BY <2>1 DEF Booking
  <2>5. booking'[n].user = booking[n].user
    BY <2>4, BookingsKept DEF Effect, MoneyInv, UnsoldReplacesNone
  <2>6. hold'[h].user = hold[h].user
    BY <1>1, <2>4
  <2>7. gate'[h] = gate[h]
    BY <2>1 DEF GateStep, MoneyInv, RequestIsFirst
  <2>8. b \in penalty' /\ refund'[b] = refund[b]
    BY <2>1
  <2> QED
    BY <2>1, <2>2, <2>3, <2>5, <2>6, <2>7, <2>8
<1>3. booking[b].st \in BookingStatus /\ booking'[b].st \in BookingStatus
  BY BookingsKept, TypeSplits DEF Effect, Linked, BookingRow
<1>4. CASE booking[b].st = "transferred"
  BY <1>2, <1>4 DEF WholeFor
<1>5. CASE booking[b].st = "cancelled"
  BY <1>0, <1>5 DEF WholeFor
<1>6. CASE booking[b].st \in {"none", "confirmed", "pending_cancellation"}
  <2>1. b \notin penalty /\ refund[b] = {} /\ \A n \in Booking : booking[n].replaces # b
    BY <1>0, <1>6 DEF WholeFor
  <2> QED
    BY <1>6, <2>1 DEF WholeFor
<1> QED
  BY <1>3, <1>4, <1>5, <1>6 DEF BookingStatus

LEMMA WholeStep ==
    ASSUME Linked, Effect, EndedStay, MoneyInv, NEW w \in Worker, GateStep(w), SaleStep
    PROVE  (PaidIsTransfer /\ UnsoldReplacesNone /\ TransferIsWhole)'
<1>1. /\ booking \in [Booking -> BookingRow]
      /\ \A b \in Booking : booking[b] \in BookingRow /\ b # 0
      /\ refund \in [Booking -> SUBSET RefundType]
  BY TypeSplits DEF Linked, RestTyped, Booking
<1>2. ASSUME NEW b \in Booking, NEW n \in Booking, NEW u \in User, HandsOver(b, n, u)
      PROVE  /\ b # n /\ booking[b].st = "pending_cancellation" /\ booking[n].st = "none"
             /\ booking'[b].st = "transferred" /\ booking'[b].replaces = booking[b].replaces
             /\ booking'[n].st = "confirmed" /\ booking'[n].user = u /\ booking'[n].replaces = b
             /\ \A c \in Booking \ {b, n} : booking'[c] = booking[c]
  BY <1>1, <1>2 DEF HandsOver, BookingRow
<1>3. \A h \in Hold : hold[h].st = "paid" =>
          hold'[h].st = "paid" /\ hold'[h].user = hold[h].user /\ OriginalOf(h)' = OriginalOf(h)
  BY PaidKept DEF MoneyInv
<1>4. \A h \in Hold : hold[h].st = "paid" =>
          OriginalOf(h) \in Booking /\ booking[OriginalOf(h)].st = "transferred"
  BY HoldRefers DEF MoneyInv, PaidIsTransfer
<1>5. ASSUME \A b \in Booking : booking'[b].st \in {"transferred", "cancelled"} =>
                 booking'[b].st = booking[b].st \/ booking'[b].st = "cancelled",
             NonePaid
      PROVE  /\ \A b, m \in Booking : booking'[m].replaces = b <=> booking[m].replaces = b
             /\ UnsoldReplacesNone'
  <2>1. \A b, n \in Booking, u \in User : ~HandsOver(b, n, u)
    BY <1>2, <1>5
  <2> QED
    BY <2>1, SuccessorsKept DEF Effect, MoneyInv
<1>6. CASE Quiet
  <2>1. /\ \A b, m \in Booking : booking'[m].replaces = b <=> booking[m].replaces = b
        /\ UnsoldReplacesNone'
    BY <1>5, <1>6 DEF Quiet
  <2>2. \A b \in Booking : booking[b].st \in {"transferred", "cancelled"} =>
            booking'[b].st = booking[b].st
    BY <1>6, BookingEnds DEF Effect
  <2>3. ASSUME NEW b \in Booking PROVE WholeFor(b)'
    <3>1. \/ booking'[b].st = booking[b].st
          \/ booking[b].st \notin {"transferred", "cancelled"}
               /\ booking'[b].st \notin {"transferred", "cancelled"}
      BY <1>6, <2>2 DEF Quiet
    <3>2. refund'[b] = refund[b] /\ (b \in penalty' <=> b \in penalty)
      BY <1>6 DEF Quiet
    <3>3. \A g \in Hold : hold'[g].st = "paid" /\ hold[g].st # "paid" => OriginalOf(g)' # b
      BY <1>6 DEF Quiet, NonePaid
    <3>4. \A m \in Booking : booking'[m].replaces = b <=> booking[m].replaces = b
      BY <2>1
    <3> QED
      <4>1. KeptFor(b)
        BY <3>1, <3>2, <3>3, <3>4 DEF KeptFor
      <4> QED
        BY <4>1, WholeKept
  <2>4. TransferIsWhole'
    BY <2>3 DEF TransferIsWhole, WholeFor
  <2>5. PaidIsTransfer'
    BY <1>3, <1>4, <1>6, <2>2 DEF PaidIsTransfer, Quiet, NonePaid
  <2> QED
    BY <2>1, <2>4, <2>5
<1>7. ASSUME NEW b \in Booking, Cancels(b)
      PROVE  (PaidIsTransfer /\ UnsoldReplacesNone /\ TransferIsWhole)'
  <2>1. /\ booking[b].st \in {"confirmed", "pending_cancellation"} /\ booking'[b].st = "cancelled"
        /\ \A c \in Booking \ {b} : booking'[c] = booking[c]
    BY <1>1, <1>7 DEF Cancels, Turns
  <2>2. /\ \A c, m \in Booking : booking'[m].replaces = c <=> booking[m].replaces = c
        /\ UnsoldReplacesNone'
    BY <1>5, <1>7, <2>1 DEF Cancels
  <2>3. /\ refund'[b] = refund[b] \cup {"manager_cancellation"}
        /\ \A c \in Booking \ {b} : refund'[c] = refund[c]
        /\ penalty' = penalty
    BY <1>1, <1>7 DEF Cancels
  <2>4. ASSUME NEW c \in Booking \ {b} PROVE WholeFor(c)'
    <3>1. booking'[c].st = booking[c].st
      BY <2>1
    <3>2. refund'[c] = refund[c] /\ (c \in penalty' <=> c \in penalty)
      BY <2>3
    <3>3. \A g \in Hold : hold'[g].st = "paid" /\ hold[g].st # "paid" => OriginalOf(g)' # c
      BY <1>7 DEF Cancels, NonePaid
    <3>4. \A m \in Booking : booking'[m].replaces = c <=> booking[m].replaces = c
      BY <2>2
    <3> QED
      <4>1. KeptFor(c)
        BY <3>1, <3>2, <3>3, <3>4 DEF KeptFor
      <4> QED
        BY <4>1, WholeKept
  <2>5. WholeFor(b)'
    <3>1. refund[b] = {}
      BY <2>1, WholeForEach DEF MoneyInv, WholeFor
    <3> QED
      BY <2>1, <2>3, <3>1 DEF WholeFor
  <2>6. TransferIsWhole'
    BY <2>4, <2>5 DEF TransferIsWhole, WholeFor
  <2>7. PaidIsTransfer'
    BY <1>3, <1>4, <1>7, <2>1 DEF PaidIsTransfer, Cancels, NonePaid
  <2> QED
    BY <2>2, <2>6, <2>7
<1>8. ASSUME NEW h \in Hold, NEW n \in Booking, Transfers(h, n)
      PROVE  (PaidIsTransfer /\ UnsoldReplacesNone /\ TransferIsWhole)'
  <2>0. PICK b \in Booking : b = OriginalOf(h)
    BY <1>8, HoldRefers DEF Transfers
  <2>1. hold[h].user \in User /\ hold[h].st = "processing"
    BY <1>8, HoldRefers DEF Transfers
  <2>2. /\ b # n /\ booking[b].st = "pending_cancellation" /\ booking[n].st = "none"
        /\ booking'[b].st = "transferred" /\ booking'[b].replaces = booking[b].replaces
        /\ booking'[n].st = "confirmed" /\ booking'[n].user = hold[h].user
        /\ booking'[n].replaces = b
        /\ \A c \in Booking \ {b, n} : booking'[c] = booking[c]
    BY <1>2, <1>8, <2>0, <2>1 DEF Transfers
  <2>3. /\ refund'[b] = refund[b] \cup {"replaced_after_pending_cancellation"}
        /\ \A c \in Booking \ {b} : refund'[c] = refund[c]
        /\ penalty' = penalty \cup {b}
    BY <1>1, <1>8, <2>0 DEF Transfers
  <2>4. /\ OriginalOf(h)' = b /\ hold'[h].user = hold[h].user
        /\ hold'[h].st = "paid"
    <3>1. hold'[h].offer = hold[h].offer /\ hold'[h].user = hold[h].user
      BY <2>1 DEF Effect, HoldEffect
    <3>2. hold[h].offer \in Offer /\ offer[hold[h].offer].st # "none"
      BY <2>1, HoldRefers
    <3>3. offer'[hold[h].offer].booking = offer[hold[h].offer].booking
      BY <3>2 DEF Effect, OfferEffect
    <3> QED
      BY <1>8, <2>0, <3>1, <3>3 DEF OriginalOf, Transfers
  <2>5. booking[n].replaces = 0
    BY <2>2 DEF MoneyInv, UnsoldReplacesNone
  <2>6. /\ \A c \in Booking \ {b}, m \in Booking : booking'[m].replaces = c <=> booking[m].replaces = c
        /\ UnsoldReplacesNone'
    <3>1. \A m \in Booking \ {n} : booking'[m].replaces = booking[m].replaces
      BY <2>2
    <3> QED
      BY <1>1, <2>2, <2>5, <3>1 DEF MoneyInv, UnsoldReplacesNone
  <2>7. ASSUME NEW c \in Booking \ {b} PROVE WholeFor(c)'
    <3>1. \A g \in Hold : hold'[g].st = "paid" /\ hold[g].st # "paid" => OriginalOf(g)' # c
      BY <1>8, <2>4 DEF Transfers
    <3>2. \/ booking'[c].st = booking[c].st
          \/ booking[c].st \notin {"transferred", "cancelled"}
               /\ booking'[c].st \notin {"transferred", "cancelled"}
      BY <2>2
    <3>3. refund'[c] = refund[c] /\ (c \in penalty' <=> c \in penalty)
      BY <2>3
    <3>4. \A m \in Booking : booking'[m].replaces = c <=> booking[m].replaces = c
      BY <2>6
    <3> QED
      <4>1. KeptFor(c)
        BY <3>1, <3>2, <3>3, <3>4 DEF KeptFor
      <4> QED
        BY <4>1, WholeKept
  <2>8. WholeFor(b)'
    <3>1. /\ refund[b] = {} /\ \A m \in Booking : booking[m].replaces # b
      BY <2>2, WholeForEach DEF MoneyInv, WholeFor
    <3>2. {m \in Booking : booking'[m].replaces = b} = {n}
      BY <2>2, <3>1
    <3>3. {g \in Hold : hold'[g].st = "paid" /\ OriginalOf(g)' = b} = {h}
      <4>1. ASSUME NEW g \in Hold \ {h}, hold'[g].st = "paid" PROVE OriginalOf(g)' # b
        <5>1. hold[g].st = "paid"
          BY <1>8, <4>1 DEF Transfers
        <5> QED
          BY <1>3, <1>4, <2>2, <5>1
      <4> QED
        BY <2>4, <4>1
    <3>4. gate'[h] = [st |-> "captured", exact |-> TRUE]
      <4>1. gate'[h] = gate[h]
        BY <1>8 DEF Transfers, GateStep, MoneyInv, RequestIsFirst
      <4>2. gate[h] \in [st : GateStatus, exact : BOOLEAN]
        BY TypeSplits DEF Linked, RestTyped
      <4> QED
        BY <1>8, <4>1, <4>2 DEF Transfers
    <3>5. booking'[n].user = hold'[h].user
      BY <2>2, <2>4
    <3>6. b \in penalty' /\ refund'[b] = {"replaced_after_pending_cancellation"}
      BY <2>3, <3>1
    <3>7. \E m \in Booking, g \in Hold :
              /\ {k \in Booking : booking'[k].replaces = b} = {m}
              /\ {k \in Hold : hold'[k].st = "paid" /\ OriginalOf(k)' = b} = {g}
              /\ booking'[m].user = hold'[g].user
              /\ gate'[g] = [st |-> "captured", exact |-> TRUE]
              /\ b \in penalty'
              /\ refund'[b] = {"replaced_after_pending_cancellation"}
      BY <3>2, <3>3, <3>4, <3>5, <3>6
    <3> QED
      BY <2>2, <3>7 DEF WholeFor
  <2>9. TransferIsWhole'
    BY <2>7, <2>8 DEF TransferIsWhole, WholeFor
  <2>10. PaidIsTransfer'
    BY <1>3, <1>4, <1>8, <2>2, <2>4 DEF PaidIsTransfer, Transfers
  <2> QED
    BY <2>6, <2>9, <2>10
<1> QED
  BY <1>6, <1>7, <1>8 DEF SaleStep

(* Each step at the money *)
NoneLeaves ==
    \A b \in Booking : booking'[b].st \in {"transferred", "cancelled"} =>
        booking'[b].st = booking[b].st

LEMMA ConfirmedStay == ASSUME Linked, NEW b, booking' = Confirmed(b) PROVE NoneLeaves
<1>1. booking \in [Booking -> BookingRow] /\ \A c \in Booking : booking[c] \in BookingRow
  BY TypeSplits DEF Linked
<1>2. booking' = [booking EXCEPT ![b] = [@ EXCEPT !.st =
                     IF booking[b].st = "pending_cancellation" THEN "confirmed" ELSE booking[b].st]]
  BY DEF Confirmed
<1> QED
  BY <1>1, <1>2 DEF NoneLeaves, BookingRow

LEMMA SameStay == ASSUME UNCHANGED booking PROVE NoneLeaves
BY DEF NoneLeaves

(* Holds that end unpaid *)
LEMMA HoldsEndUnpaid ==
    ASSUME Linked, NEW H \in SUBSET Hold, NEW st \in HoldStatus \ {"none", "active", "paid"},
           hold' = WithHolds(H, st)
    PROVE  FreshStep /\ NonePaid
BY HoldsSet DEF FreshStep, NonePaid, Fresh

LEMMA HoldEndsUnpaid ==
    ASSUME Linked, NEW h \in Hold, NEW st \in HoldStatus \ {"none", "active", "paid"},
           hold' = WithHold(h, st)
    PROVE  FreshStep /\ NonePaid
BY HoldSet DEF FreshStep, NonePaid, Fresh

LEMMA SameUnpaid == ASSUME UNCHANGED hold PROVE FreshStep /\ NonePaid
BY DEF FreshStep, NonePaid

LEMMA QuietOutside ==
    ASSUME UNCHANGED <<job, gate, refund, penalty>>, FreshStep, NonePaid, NoneLeaves
    PROVE  MoneyStep(Reconciler)
BY DEF MoneyStep, GateStep, CallStep, SaleStep, Quiet, NoneLeaves

LEMMA OutsideMoney ==
    ASSUME Linked,
           \/ \E b \in Booking : CancelLate(b) \/ Withdraw(b)
           \/ \E b \in Booking, release_slot \in BOOLEAN : ManagerCancel(b, release_slot)
           \/ \E u \in User : CreateHold(u) \/ CreateTooLate(u) \/ Resell(u)
           \/ \E h \in Hold : HolderMovesOn(h) \/ ExpireHold(h)
           \/ \E r \in Offer : ExpireOffer(r)
           \/ \E h \in Hold : Lapse(h) \/ PayerPays(h) \/ GatewayCloses(h)
           \/ Tick
           \/ UNCHANGED vars
    PROVE  MoneyStep(Reconciler)
<1>0. booking \in [Booking -> BookingRow] /\ \A b \in Booking : booking[b] \in BookingRow
  BY TypeSplits DEF Linked
<1>1. ASSUME NEW b \in Booking, CancelLate(b) \/ Withdraw(b)
      PROVE  MoneyStep(Reconciler)
  <2>1. NoneLeaves
    BY <1>0, <1>1 DEF CancelLate, Withdraw, NoneLeaves, BookingRow
  <2> QED
    BY <1>1, <2>1, SameUnpaid, QuietOutside DEF CancelLate, Withdraw
<1>2. ASSUME NEW b \in Booking, NEW release_slot \in BOOLEAN, ManagerCancel(b, release_slot)
      PROVE  MoneyStep(Reconciler)
  <2>1. FreshStep /\ NonePaid
    <3> DEFINE H == {h \in UNION {LiveHolds(r) : r \in LiveOffers(b)} : ~Locked(h)}
    <3>1. hold' = WithHolds(H, "cancelled") \/ UNCHANGED hold
      BY <1>2 DEF ManagerCancel
    <3>2. H \in SUBSET Hold
      BY DEF LiveHolds
    <3> HIDE DEF H
    <3> QED
      BY <3>1, <3>2, HoldsEndUnpaid, SameUnpaid DEF HoldStatus
  <2>2. Cancels(b)
    BY <1>2, <2>1 DEF ManagerCancel, Active, Cancels, Turns
  <2> QED
    BY <1>2, <2>1, <2>2 DEF MoneyStep, GateStep, CallStep, SaleStep, ManagerCancel
<1>3. ASSUME NEW u \in User, CreateHold(u)
      PROVE  MoneyStep(Reconciler)
  <2>1. PICK n \in Hold :
          /\ hold[n].st = "none" /\ hold'[n].st = "active" /\ ~hold'[n].track
          /\ \A h \in Hold \ {n} :
                /\ ~Live(h) => hold'[h] = hold[h]
                /\ Live(h) => hold'[h].st = "expired"
                /\ hold'[h].track = hold[h].track
          /\ UNCHANGED <<booking, gate, refund, penalty, job>>
    BY <1>3, CreateHoldRows
  <2>2. FreshStep /\ NonePaid
    BY <2>1 DEF FreshStep, NonePaid, Fresh
  <2> QED
    BY <2>1, <2>2, SameStay, QuietOutside
<1>4. ASSUME NEW u \in User, CreateTooLate(u)
      PROVE  MoneyStep(Reconciler)
  BY <1>4, ConfirmedStay, SameUnpaid, QuietOutside DEF CreateTooLate
<1>5. ASSUME NEW u \in User, Resell(u)
      PROVE  MoneyStep(Reconciler)
  <2>1. NoneLeaves
    BY <1>0, <1>5 DEF Resell, NoneLeaves
  <2> QED
    BY <1>5, <2>1, SameUnpaid, QuietOutside DEF Resell
<1>6. ASSUME NEW h \in Hold, HolderMovesOn(h) \/ ExpireHold(h)
      PROVE  MoneyStep(Reconciler)
  <2>1. hold' = WithHold(h, "expired") /\ UNCHANGED <<booking, job, gate, refund, penalty>>
    BY <1>6 DEF HolderMovesOn, ExpireHold, saleVars
  <2> QED
    BY <2>1, HoldEndsUnpaid, SameStay, QuietOutside DEF HoldStatus
<1>7. ASSUME NEW r \in Offer, ExpireOffer(r)
      PROVE  MoneyStep(Reconciler)
  <2> DEFINE H == {h \in LiveHolds(r) : ~Locked(h)}
  <2>1. /\ hold' = WithHolds(H, "expired") /\ booking' = Confirmed(offer[r].booking)
        /\ UNCHANGED <<job, gate, refund, penalty>>
    BY <1>7 DEF ExpireOffer, Restored
  <2>2. H \in SUBSET Hold
    BY DEF LiveHolds
  <2> HIDE DEF H
  <2> QED
    BY <2>1, <2>2, HoldsEndUnpaid, ConfirmedStay, QuietOutside DEF HoldStatus
<1>8. ASSUME NEW h \in Hold, Lapse(h)
      PROVE  MoneyStep(Reconciler)
  <2>1. hold \in [Hold -> HoldRow] /\ hold[h] \in HoldRow
    BY TypeSplits DEF Linked
  <2>2. FreshStep /\ NonePaid
    BY <1>8, <2>1 DEF Lapse, FreshStep, NonePaid, HoldRow
  <2> QED
    BY <1>8, <2>2, SameStay, QuietOutside DEF Lapse, saleVars
<1>9. ASSUME NEW h \in Hold, PayerPays(h) \/ GatewayCloses(h)
      PROVE  MoneyStep(Reconciler)
  <2>1. gate \in [Hold -> [st : GateStatus, exact : BOOLEAN]]
    BY TypeSplits DEF Linked, RestTyped
  <2>2. GateStep(Reconciler)
    BY <1>9, <2>1 DEF GateStep, PayerPays, GatewayCloses
  <2>3. UNCHANGED <<hold, booking, refund, penalty, job>>
    BY <1>9 DEF PayerPays, GatewayCloses, saleVars
  <2> QED
    BY <2>2, <2>3, SameUnpaid, SameStay DEF MoneyStep, CallStep, SaleStep, Quiet, NoneLeaves
<1>10. CASE Tick \/ UNCHANGED vars
  BY <1>10, SameUnpaid, SameStay, QuietOutside DEF Tick, vars, saleVars
<1> QED
  BY <1>1, <1>2, <1>3, <1>4, <1>5, <1>6, <1>7, <1>8, <1>9, <1>10

LEMMA QuietJob ==
    ASSUME NEW w \in Worker, \A v \in Worker \ {w} : job'[v] = job[v],
           job'[w].pc \notin {"request", "settle", "transfers"},
           UNCHANGED <<gate, refund, penalty>>, FreshStep, NonePaid, NoneLeaves
    PROVE  MoneyStep(w)
BY DEF MoneyStep, GateStep, CallStep, SaleStep, Quiet, NoneLeaves

LEMMA AskingJob ==
    ASSUME NEW w \in Worker, \A v \in Worker \ {w} : job'[v] = job[v],
           job'[w].pc \notin {"request", "settle", "transfers"},
           UNCHANGED <<hold, booking, gate, refund, penalty>>
    PROVE  MoneyStep(w)
BY QuietJob, SameUnpaid, SameStay

LEMMA StartsMoney ==
    ASSUME Linked, NEW w \in Worker, NEW h \in Hold,
           PayLocks(w, h) \/ CancelLocks(w, h) \/ StartResolve(w, h)
    PROVE  MoneyStep(w)
<1>1. /\ \A v \in Worker \ {w} : job'[v] = job[v]
      /\ job'[w].pc \in {"pays", "cancels", "verify"}
  BY JobSet DEF PayLocks, CancelLocks, StartResolve, Pc, LockedPc
<1>2. UNCHANGED <<hold, booking, gate, refund, penalty>>
  BY DEF PayLocks, CancelLocks, StartResolve, saleVars
<1> QED
  BY <1>1, <1>2, AskingJob

LEMMA GivenBackStay ==
    ASSUME Linked, NEW w \in Worker, GiveBackOrUp(w) \/ GiveBackHeld(w)
    PROVE  NoneLeaves
BY ConfirmedStay, SameStay DEF GiveBackOrUp, GiveBackHeld, GiveBack, GiveUp, Restored

LEMMA FailLocksAsks ==
    ASSUME Linked, NEW w \in Worker, job[w].h \in Hold, FailLocks(w)
    PROVE  /\ \A v \in Worker \ {w} : job'[v] = job[v]
           /\ job'[w].pc \in {"idle", "fails"}
BY JobSet DEF FailLocks, Pc, LockedPc

LEMMA TransferMoney ==
    ASSUME Linked, MoneyInv, LockInv, NEW w \in Worker, Transfer(w)
    PROVE  MoneyStep(w)
<1>1. /\ job[w].pc = "transfers" /\ job[w].h \in Hold
      /\ OriginalOf(job[w].h) \in Booking
      /\ hold[job[w].h].user \in User \ {booking[OriginalOf(job[w].h)].user}
  BY JobRefers DEF Transfer
<1>2. PICK h \in Hold : h = job[w].h
  BY <1>1
<1>3. hold[h].st = "processing" /\ gate[h].st = "captured" /\ gate[h].exact
  BY <1>1, <1>2 DEF LockInv, LocksFit, Fits, MoneyInv, SettledIsCaptured
<1>4. PICK n \in Booking :
        /\ booking[n].st = "none"
        /\ booking' = [booking EXCEPT ![OriginalOf(h)].st = "transferred", ![n] =
              [st |-> "confirmed", user |-> hold[h].user, replaces |-> OriginalOf(h)]]
  BY <1>2 DEF Transfer, NextRow
<1>5. /\ booking[OriginalOf(h)].st = "pending_cancellation" /\ ~started
      /\ refund' = [refund EXCEPT ![OriginalOf(h)] = @ \cup {"replaced_after_pending_cancellation"}]
      /\ penalty' = penalty \cup {OriginalOf(h)}
      /\ hold' = WithHold(h, "paid")
      /\ Return(w) /\ UNCHANGED gate
  BY <1>2 DEF Transfer, Transferable
<1>6. HandsOver(OriginalOf(h), n, hold[h].user)
  BY <1>1, <1>2, <1>4, <1>5 DEF HandsOver
<1>7. hold'[h].st = "paid" /\ \A g \in Hold \ {h} : hold'[g] = hold[g]
  BY <1>5, HoldSet DEF HoldStatus
<1>8. Transfers(h, n)
  BY <1>3, <1>5, <1>6, <1>7 DEF Transfers
<1>9. FreshStep
  BY <1>7 DEF FreshStep, Fresh
<1>10. job'[w].pc = "idle" /\ \A v \in Worker \ {w} : job'[v] = job[v]
  BY <1>5, JobSet
<1>11. GateStep(w) /\ CallStep(w)
  BY <1>5, <1>10 DEF GateStep, CallStep
<1> QED
  BY <1>8, <1>9, <1>10, <1>11 DEF MoneyStep, SaleStep

LEMMA JobMoney ==
    ASSUME Linked, LockInv, MoneyInv, NEW w \in Worker, JobStep(w)
    PROVE  MoneyStep(w)
<1>1. job[w].pc # "idle" /\ job[w].h \in Hold
  <2>1. job[w].pc # "idle"
    BY DEF JobStep, PayBegins, PayTooLate, RecordTrack, GatewayRefuses, FailPayment, CancelHold,
       Verify, Settle, Transfer, Conflict, InquireRefusal, Classify, RecordFailure, IndexRefuses
  <2> QED
    BY <2>1, JobRefers
<1>2. /\ hold \in [Hold -> HoldRow] /\ hold[job[w].h] \in HoldRow
      /\ gate \in [Hold -> [st : GateStatus, exact : BOOLEAN]]
  BY <1>1, TypeSplits DEF Linked, RestTyped
<1>3. Fits(job[w].pc, hold[job[w].h].st)
  BY DEF LockInv, LocksFit
<1>4. Return(w) => job'[w].pc = "idle" /\ \A v \in Worker \ {w} : job'[v] = job[v]
  BY JobSet
<1>5. ASSUME NEW st \in {"expired", "failed", "cancelled"}, hold' = WithHold(job[w].h, st),
             GiveBackOrUp(w) \/ GiveBackHeld(w),
             UNCHANGED <<gate, refund, penalty>>,
             job'[w].pc \in {"idle", "classify"}, \A v \in Worker \ {w} : job'[v] = job[v]
      PROVE  MoneyStep(w)
  <2>1. FreshStep /\ NonePaid
    BY <1>1, <1>5, HoldEndsUnpaid DEF HoldStatus
  <2> QED
    BY <1>5, <2>1, GivenBackStay, QuietJob
<1>6. CASE PayBegins(w)
  <2>1. hold[job[w].h].st = "active"
    BY <1>3, <1>6 DEF PayBegins, Fits
  <2>2. /\ hold'[job[w].h].st = "processing"
        /\ \A g \in Hold \ {job[w].h} : hold'[g] = hold[g]
    BY <1>1, <1>2, <1>6 DEF PayBegins, HoldRow
  <2>3. /\ job'[w].pc = "request" /\ job'[w].h = job[w].h
        /\ \A v \in Worker \ {w} : job'[v] = job[v]
    BY <1>6, JobSet DEF PayBegins, Pc
  <2>4. FreshStep /\ NonePaid
    BY <2>2 DEF FreshStep, NonePaid, Fresh
  <2>5. UNCHANGED <<gate, booking, refund, penalty>> /\ job[w].pc = "pays"
    BY <1>6 DEF PayBegins, saleVars
  <2>6. GateStep(w) /\ CallStep(w)
    BY <2>1, <2>2, <2>3, <2>5 DEF GateStep, CallStep
  <2> QED
    BY <2>3, <2>4, <2>5, <2>6, SameStay DEF MoneyStep, SaleStep, Quiet, NoneLeaves
<1>7. CASE PayTooLate(w)
  BY <1>4, <1>5, <1>7 DEF PayTooLate
<1>8. CASE RecordTrack(w)
  <2>1. hold[job[w].h].st \notin {"none", "active"}
    BY <1>1, <1>8, JobHasHold DEF MoneyInv, RequestIsFirst, RecordTrack
  <2>2. FreshStep /\ NonePaid
    BY <1>1, <1>2, <1>8, <2>1 DEF RecordTrack, HoldRow, FreshStep, NonePaid, Fresh
  <2>3. GateStep(w)
    BY <1>1, <1>2, <1>4, <1>8 DEF RecordTrack, GateStep
  <2>4. UNCHANGED <<booking, refund, penalty>> /\ Return(w)
    BY <1>8 DEF RecordTrack, saleVars
  <2> QED
    BY <1>4, <2>2, <2>3, <2>4, SameStay DEF MoneyStep, CallStep, SaleStep, Quiet, NoneLeaves
<1>9. CASE GatewayRefuses(w)
  BY <1>1, <1>9, FailLocksAsks, AskingJob DEF GatewayRefuses, saleVars
<1>10. CASE FailPayment(w)
  BY <1>4, <1>5, <1>10 DEF FailPayment
<1>11. CASE CancelHold(w)
  BY <1>4, <1>5, <1>11 DEF CancelHold
<1>12. CASE Verify(w)
  <2>1. CASE gate[job[w].h].st \in {"paid", "captured"}
    <3>1. gate' = [gate EXCEPT ![job[w].h].st = "captured"] /\ Goto(w, "settle")
      BY <1>12, <2>1 DEF Verify
    <3>2. /\ job'[w].pc = "settle" /\ job'[w].h = job[w].h
          /\ \A v \in Worker \ {w} : job'[v] = job[v]
      BY <3>1, JobSet DEF Pc
    <3>3. GateStep(w)
      <4>1. CASE gate[job[w].h].st = "captured"
        <5>1. gate'[job[w].h] = gate[job[w].h]
          BY <1>1, <1>2, <3>1, <4>1
        <5> QED
          BY <1>1, <1>2, <3>1, <5>1 DEF GateStep
      <4>2. CASE gate[job[w].h].st = "paid"
        BY <1>1, <1>2, <3>1, <4>2 DEF GateStep
      <4> QED
        BY <2>1, <4>1, <4>2
    <3>4. CallStep(w)
      BY <1>1, <1>2, <3>1, <3>2 DEF CallStep
    <3>5. UNCHANGED <<hold, booking, refund, penalty>>
      BY <1>12 DEF Verify, saleVars
    <3> QED
      BY <3>2, <3>3, <3>4, <3>5, SameUnpaid, SameStay DEF MoneyStep, SaleStep, Quiet, NoneLeaves
  <2>2. CASE gate[job[w].h].st \notin {"paid", "captured"}
    BY <1>12, <2>2, JobSet, AskingJob DEF Verify, Pc, saleVars
  <2> QED
    BY <2>1, <2>2
<1>13. CASE Settle(w)
  <2>0. UNCHANGED <<gate, booking, refund, penalty>> /\ job[w].pc = "settle"
    BY <1>13 DEF Settle, saleVars
  <2>1. CASE Return(w) /\ UNCHANGED hold
    BY <1>4, <2>0, <2>1, AskingJob
  <2>2. CASE hold' = [hold EXCEPT ![job[w].h].flag = "amount_mismatch"] /\ Return(w)
    <3>1. FreshStep /\ NonePaid
      BY <1>1, <1>2, <2>2 DEF FreshStep, NonePaid, HoldRow
    <3> QED
      BY <1>4, <2>0, <2>2, <3>1, SameStay, QuietJob
  <2>3. CASE gate[job[w].h].exact /\ Lock(w, job[w].h, "transfers") /\ UNCHANGED hold
    <3>1. /\ job'[w].pc = "transfers" /\ job'[w].h = job[w].h
          /\ \A v \in Worker \ {w} : job'[v] = job[v]
      BY <1>1, <2>3, JobSet DEF Pc, LockedPc
    <3>2. GateStep(w) /\ CallStep(w)
      BY <2>0, <2>3, <3>1 DEF GateStep, CallStep
    <3> QED
      BY <2>0, <2>3, <3>1, <3>2, SameUnpaid, SameStay DEF MoneyStep, SaleStep, Quiet, NoneLeaves
  <2> QED
    BY <1>13, <2>1, <2>2, <2>3 DEF Settle
<1>14. CASE Transfer(w)
  BY <1>14, TransferMoney
<1>15. CASE Conflict(w)
  <2>1. /\ hold'[job[w].h].st = "failed"
        /\ \A g \in Hold \ {job[w].h} : hold'[g] = hold[g]
    BY <1>1, <1>2, <1>15 DEF Conflict, HoldRow
  <2>2. FreshStep /\ NonePaid
    BY <2>1 DEF FreshStep, NonePaid, Fresh
  <2>3. NoneLeaves
    BY <1>15, ConfirmedStay, SameStay DEF Conflict
  <2>4. Return(w) /\ UNCHANGED <<gate, refund, penalty>>
    BY <1>15 DEF Conflict
  <2> QED
    BY <1>4, <2>2, <2>3, <2>4, QuietJob
<1>16. CASE InquireRefusal(w)
  <2>1. job'[w].pc \in {"records", "classify"} /\ \A v \in Worker \ {w} : job'[v] = job[v]
    BY <1>1, <1>16, JobSet DEF InquireRefusal, Pc, LockedPc
  <2> QED
    BY <1>16, <2>1, AskingJob DEF InquireRefusal, saleVars
<1>17. CASE Classify(w)
  <2>1. job'[w].pc \in {"idle", "closes", "fails"} /\ \A v \in Worker \ {w} : job'[v] = job[v]
    <3>1. Lock(w, job[w].h, "closes") =>
            job'[w].pc = "closes" /\ \A v \in Worker \ {w} : job'[v] = job[v]
      BY <1>1, JobSet DEF Pc, LockedPc
    <3> QED
      BY <1>1, <1>4, <1>17, <3>1, FailLocksAsks DEF Classify
  <2> QED
    BY <1>17, <2>1, AskingJob DEF Classify, saleVars
<1>18. CASE RecordFailure(w)
  <2>1. job'[w].pc \in {"idle", "classify"} /\ \A v \in Worker \ {w} : job'[v] = job[v]
    BY <1>4, <1>18, JobSet DEF RecordFailure, Pc
  <2>2. CASE hold[job[w].h].st = "processing"
    BY <1>5, <1>18, <2>1, <2>2 DEF RecordFailure
  <2>3. CASE hold[job[w].h].st # "processing"
    BY <1>18, <2>1, <2>3, SameUnpaid, GivenBackStay, QuietJob DEF RecordFailure
  <2> QED
    BY <2>2, <2>3
<1>19. CASE IndexRefuses(w)
  BY <1>4, <1>19, AskingJob DEF IndexRefuses, saleVars
<1> QED
  BY <1>6, <1>7, <1>8, <1>9, <1>10, <1>11, <1>12, <1>13, <1>14, <1>15, <1>16, <1>17, <1>18, <1>19
  DEF JobStep

LEMMA FaultsMoney ==
    ASSUME Linked, NEW w \in Worker, Abort(w) \/ LoseVerifyReply(w) \/ LoseInquiry(w)
    PROVE  MoneyStep(w)
<1>1. job'[w].pc \in {"idle", "classify"} /\ \A v \in Worker \ {w} : job'[v] = job[v]
  BY JobSet DEF Abort, LoseVerifyReply, LoseInquiry, Pc
<1>2. CASE Abort(w) \/ LoseInquiry(w)
  BY <1>1, <1>2, AskingJob DEF Abort, LoseInquiry, saleVars
<1>3. CASE LoseVerifyReply(w)
  <2>1. gate \in [Hold -> [st : GateStatus, exact : BOOLEAN]]
    BY TypeSplits DEF Linked, RestTyped
  <2>2. GateStep(w) /\ CallStep(w)
    BY <1>1, <1>3, <2>1 DEF LoseVerifyReply, GateStep, CallStep
  <2>3. UNCHANGED <<hold, booking, refund, penalty>>
    BY <1>3 DEF LoseVerifyReply, saleVars
  <2> QED
    BY <1>1, <2>2, <2>3, SameUnpaid, SameStay DEF MoneyStep, SaleStep, Quiet, NoneLeaves
<1> QED
  BY <1>2, <1>3

LEMMA EachMoneyStep ==
    ASSUME Linked, LockInv, MoneyInv, [Next]_vars
    PROVE  \E w \in Worker : MoneyStep(w)
<1>1. Reconciler \in Worker
  BY DEF Worker
<1>2. ASSUME NEW w \in Request, NEW h \in Hold,
             PayLocks(w, h) \/ CancelLocks(w, h) \/ StartResolve(w, h)
      PROVE  \E v \in Worker : MoneyStep(v)
  BY <1>2, StartsMoney DEF Worker
<1>3. ASSUME NEW h \in Hold, Reconcile(h)
      PROVE  MoneyStep(Reconciler)
  BY <1>1, <1>3, StartsMoney DEF Reconcile
<1>4. ASSUME NEW w \in Worker,
             JobStep(w) \/ Abort(w) \/ LoseVerifyReply(w) \/ LoseInquiry(w)
      PROVE  MoneyStep(w)
  BY <1>4, JobMoney, FaultsMoney
<1> QED
  BY <1>1, <1>2, <1>3, <1>4, OutsideMoney DEF Next

LEMMA InitMoney == Init => MoneyInv
<1> SUFFICES ASSUME Init PROVE MoneyInv
  OBVIOUS
<1>1. \A h \in Hold : hold[h].st = "none" /\ ~hold[h].track /\ gate[h].st = "none"
  BY DEF Init
<1>2. \A w \in Worker : job[w].pc = "idle"
  BY DEF Init, Idle
<1>3. /\ \A b \in Booking : booking[b].replaces = 0
      /\ \A b \in Booking : booking[b].st \in {"none", "confirmed"}
      /\ \A b \in Booking : refund[b] = {} /\ b \notin penalty /\ b # 0
  BY DEF Init, Booking
<1> QED
  BY <1>1, <1>2, <1>3 DEF MoneyInv, FreshHasNoCheckout, RequestIsFirst, SettledIsCaptured,
     PaidIsTransfer, UnsoldReplacesNone, TransferIsWhole

(* A transferred booking has one successor, owned by the user whose hold   *)
(* was paid and captured in the right amount, and its former owner is      *)
(* charged the penalty and refunded once; no other booking is: whatever    *)
(* callbacks, jobs, crashes and lost answers come between.                 *)
THEOREM TransfersAreWhole == Spec => []TransferIsWhole
<1>1. Init => MoneyInv
  BY InitMoney
<1>2. Sound /\ MoneyInv /\ [Next]_vars => MoneyInv'
  <2> SUFFICES ASSUME Sound, MoneyInv, [Next]_vars PROVE MoneyInv'
    OBVIOUS
  <2>1. Linked /\ LockInv /\ Effect /\ EndedStay
    BY SoundStep DEF EndedStay, LockStep, SameStatus, MayEnd
  <2>2. PICK w \in Worker : MoneyStep(w)
    BY <2>1, EachMoneyStep
  <2>3. (FreshHasNoCheckout /\ RequestIsFirst /\ SettledIsCaptured)'
    BY <2>1, <2>2, CheckoutsStep
  <2>4. (PaidIsTransfer /\ UnsoldReplacesNone /\ TransferIsWhole)'
    BY <2>1, <2>2, WholeStep DEF MoneyStep
  <2> QED
    BY <2>3, <2>4 DEF MoneyInv
<1>3. MoneyInv => TransferIsWhole
  BY DEF MoneyInv
<1> QED
  BY <1>1, <1>2, <1>3, LocksAreRespected, PTL DEF Spec

-----------------------------------------------------------------------------
(***************************************************************************)
(* The offers.  A booking has one live offer and the slot one live hold; a *)
(* transaction that has locked a live hold of a held offer has loaded the  *)
(* offer as held, so that it cannot end the hold and leave the offer; and  *)
(* before the deadline a held offer's booking is pending.  The invariant   *)
(* behind OffersAreBacked.                                                 *)
(***************************************************************************)
LiveStatus == {"active", "processing"}
OnOffer == {"open", "held"}

OneLiveOffer ==
    \A r, s \in Offer :
        offer[r].st \in OnOffer /\ offer[s].st \in OnOffer /\ offer[r].booking = offer[s].booking
            => r = s

OneLiveHold ==
    \A g, h \in Hold : hold[g].st \in LiveStatus /\ hold[h].st \in LiveStatus => g = h

HeldIsPending ==
    ~started => \A r \in Offer :
        offer[r].st = "held" => booking[offer[r].booking].st = "pending_cancellation"

SeenHeld ==
    \A w \in Worker :
        /\ HoldsLock(w)
        /\ hold[job[w].h].st \in LiveStatus
        /\ offer[hold[job[w].h].offer].st = "held"
        => job[w].seenOffer = "held"

OfferInv ==
    /\ OneLiveOffer /\ OneLiveHold /\ HeldIsPending /\ SeenHeld
    /\ OffersAreBacked

(* What a step of w does to offers ... *)
Opened(r) ==
    /\ LiveOffers(offer'[r].booking) \subseteq {r}
    /\ \A s \in Offer \ {r} : offer'[s] = offer[s]

Taken(r) ==
    /\ offer[r].st \in OnOffer
    /\ booking[offer[r].booking].st = "pending_cancellation"
    /\ UNCHANGED <<booking, job>>
    /\ \E n \in Hold : hold'[n].st \in LiveStatus /\ hold'[n].offer = r
    /\ \A h \in Hold : hold[h].st \in LiveStatus => ~Locked(h)

OffersMove ==
    \A r \in Offer :
        /\ offer'[r].st \in OnOffer => offer[r].st \in OnOffer \/ Opened(r)
        /\ offer'[r].st = "held" => offer[r].st = "held" \/ Taken(r)
        /\ offer[r].st \in OnOffer /\ offer'[r].st \notin OnOffer =>
              booking'[offer[r].booking].st # "pending_cancellation"

(* ... to bookings that wait for a successor ... *)
PendingMove ==
    /\ \A b \in Booking : booking'[b].st = "pending_cancellation" =>
          \/ booking[b].st = "pending_cancellation"
          \/ \E r \in Offer : offer'[r].st \in OnOffer /\ offer'[r].booking = b
    /\ ~started => \A b \in Booking :
          booking[b].st = "pending_cancellation" /\ booking'[b].st # "pending_cancellation" =>
              \A r \in LiveOffers(b) : offer'[r].st # "held"

(* ... to holds ... *)
HoldsMove ==
    /\ \A h \in Hold : hold'[h].st \in LiveStatus =>
          \/ hold[h].st \in LiveStatus
          \/ hold[h].st = "none" /\ \A g \in Hold \ {h} : hold'[g].st \notin LiveStatus
    /\ ~started => \A h \in Hold :
          hold[h].st \in LiveStatus /\ hold'[h].st \notin LiveStatus =>
              \/ offer'[hold[h].offer].st # "held"
              \/ \E n \in Hold : hold'[n].st \in LiveStatus /\ hold'[n].offer = hold[h].offer

(* ... and to what the jobs have seen *)
JobSees(w) ==
    /\ \A v \in Worker \ {w} : job'[v] = job[v]
    /\ \/ job'[w] = job[w]
       \/ job'[w].pc \notin LockedPc
       \/ job'[w].seenOffer = offer[hold[job'[w].h].offer].st /\ UNCHANGED <<offer, hold>>

OfferStep(w) ==
    /\ started => started'
    /\ OffersMove /\ PendingMove /\ HoldsMove /\ JobSees(w)
    /\ OwnedIsNotFree'

LEMMA OfferInvStep ==
    ASSUME Linked, Effect, OfferInv, NEW w \in Worker, OfferStep(w)
    PROVE  OfferInv'
<1> USE DEF OfferInv, OfferStep
<1>1. ASSUME NEW r \in Offer, offer[r].st # "none"
      PROVE  offer'[r].booking = offer[r].booking /\ offer[r].booking \in Booking
  BY <1>1 DEF Effect, OfferEffect, Linked, RowsAreLinked
<1>2. ASSUME NEW h \in Hold, hold[h].st # "none"
      PROVE  /\ hold'[h].offer = hold[h].offer /\ hold[h].offer \in Offer
             /\ offer[hold[h].offer].st # "none"
  BY <1>2 DEF Effect, HoldEffect, Linked, RowsAreLinked
<1>3. OneLiveOffer'
  <2>1. ASSUME NEW r \in Offer, NEW s \in Offer, r # s,
               offer'[r].st \in OnOffer, offer'[s].st \in OnOffer,
               offer'[r].booking = offer'[s].booking, offer[s].st \in OnOffer
        PROVE  FALSE
    <3>1. offer'[s].booking = offer[s].booking
      BY <1>1, <2>1 DEF OnOffer
    <3>2. CASE offer[r].st \in OnOffer
      BY <1>1, <2>1, <3>1, <3>2 DEF OneLiveOffer, OnOffer
    <3>3. CASE Opened(r)
      BY <2>1, <3>1, <3>3 DEF Opened, LiveOffers, OnOffer
    <3> QED
      BY <2>1, <3>2, <3>3 DEF OffersMove
  <2>2. ASSUME NEW r \in Offer, NEW s \in Offer, r # s,
               offer'[r].st \in OnOffer, offer'[s].st \in OnOffer
        PROVE  offer[r].st \in OnOffer \/ offer[s].st \in OnOffer
    BY <2>2 DEF OffersMove, Opened
  <2> QED
    BY <2>1, <2>2 DEF OneLiveOffer
<1>4. OneLiveHold'
  BY DEF HoldsMove, OneLiveHold
<1>5. HeldIsPending'
  <2>1. ASSUME ~started, NEW r \in Offer, offer'[r].st = "held"
        PROVE  booking'[offer'[r].booking].st = "pending_cancellation"
    <3>1. CASE Taken(r)
      BY <1>1, <3>1 DEF Taken, OnOffer
    <3>2. CASE offer[r].st = "held"
      <4>1. /\ offer'[r].booking = offer[r].booking /\ offer[r].booking \in Booking
            /\ booking[offer[r].booking].st = "pending_cancellation"
            /\ r \in LiveOffers(offer[r].booking)
        BY <1>1, <2>1, <3>2 DEF HeldIsPending, LiveOffers
      <4> QED
        BY <2>1, <4>1 DEF PendingMove
    <3> QED
      BY <2>1, <3>1, <3>2 DEF OffersMove
  <2> QED
    BY <2>1 DEF HeldIsPending
<1>6. SeenHeld'
  <2>1. ASSUME NEW v \in Worker, HoldsLock(v), job'[v] = job[v],
               hold'[job[v].h].st \in LiveStatus, offer'[hold'[job[v].h].offer].st = "held"
        PROVE  job[v].seenOffer = "held"
    <3>1. job[v].h \in Hold /\ hold[job[v].h].st # "none"
      BY <2>1, JobHasHold DEF HoldsLock, LockedPc
    <3>2. hold[job[v].h].st \in LiveStatus /\ Locked(job[v].h)
      BY <2>1, <3>1 DEF HoldsMove, Locked, HoldsLock
    <3>3. hold'[job[v].h].offer = hold[job[v].h].offer /\ hold[job[v].h].offer \in Offer
      BY <1>2, <3>1
    <3>4. offer[hold[job[v].h].offer].st = "held"
      BY <2>1, <3>1, <3>2, <3>3 DEF OffersMove, Taken
    <3> QED
      BY <2>1, <3>2, <3>4 DEF SeenHeld
  <2>2. ASSUME HoldsLock(w)', job'[w] # job[w], offer'[hold'[job'[w].h].offer].st = "held"
        PROVE  job'[w].seenOffer = "held"
    BY <2>2 DEF JobSees, HoldsLock
  <2> QED
    BY <2>1, <2>2 DEF SeenHeld, JobSees, HoldsLock
<1>7. PendingHasOffer'
  <2>1. ASSUME NEW b \in Booking, booking[b].st = "pending_cancellation",
               booking'[b].st = "pending_cancellation"
        PROVE  \E r \in Offer : offer'[r].st \in OnOffer /\ offer'[r].booking = b
    <3>1. PICK r \in Offer : offer[r].st \in OnOffer /\ offer[r].booking = b
      BY <2>1 DEF OffersAreBacked, PendingHasOffer, LiveOffers, OnOffer
    <3>2. offer'[r].st \in OnOffer
      BY <2>1, <3>1 DEF OffersMove
    <3> QED
      BY <1>1, <3>1, <3>2 DEF OnOffer
  <2> QED
    BY <2>1 DEF PendingMove, PendingHasOffer, LiveOffers, OnOffer
<1>8. HeldHasHold'
  <2>1. ASSUME ~started, NEW r \in Offer, offer'[r].st = "held"
        PROVE  \E n \in Hold : hold'[n].st \in LiveStatus /\ hold'[n].offer = r
    <3>1. CASE Taken(r)
      BY <3>1 DEF Taken
    <3>2. CASE offer[r].st = "held"
      <4>1. PICK h \in Hold : hold[h].st \in LiveStatus /\ hold[h].offer = r
        BY <2>1, <3>2 DEF OffersAreBacked, HeldHasHold, LiveHolds, Live, LiveStatus
      <4>2. hold'[h].offer = r
        BY <1>2, <4>1 DEF LiveStatus
      <4> QED
        BY <2>1, <4>1, <4>2 DEF HoldsMove
    <3> QED
      BY <2>1, <3>1, <3>2 DEF OffersMove
  <2> QED
    BY <2>1 DEF HeldHasHold, LiveHolds, Live, LiveStatus
<1> QED
  BY <1>3, <1>4, <1>5, <1>6, <1>7, <1>8 DEF OffersAreBacked

(* A slot keeps its owner's state unless somebody becomes its owner. *)
LEMMA SlotKept ==
    ASSUME OwnedIsNotFree, Active' # {} => Active # {},
           \/ slot' = slot
           \/ slot'.st = "pending_cancellation" /\ slot'.reserved = slot.reserved
           \/ slot'.reserved /\ slot'.st \notin {"open", "blocked"}
    PROVE  OwnedIsNotFree'
BY DEF OwnedIsNotFree

LEMMA ConfirmedActive ==
    ASSUME Linked, NEW b, booking' = Confirmed(b) \/ booking' = booking
    PROVE  Active' = Active
<1>1. booking \in [Booking -> BookingRow] /\ \A c \in Booking : booking[c] \in BookingRow
  BY TypeSplits DEF Linked
<1>2. CASE booking' = Confirmed(b)
  <2>1. booking' = [booking EXCEPT ![b] = [@ EXCEPT !.st =
                     IF booking[b].st = "pending_cancellation" THEN "confirmed" ELSE booking[b].st]]
    BY <1>2 DEF Confirmed
  <2> QED
    BY <1>1, <2>1 DEF Active, BookingRow
<1>3. CASE booking' = booking
  BY <1>3 DEF Active
<1> QED
  BY <1>2, <1>3

(* The row of one offer *)
LEMMA OfferSet ==
    ASSUME Linked, NEW r \in Offer, NEW st \in OfferStatus, offer' = WithOffer(r, st)
    PROVE  /\ offer'[r].st = st /\ offer'[r].booking = offer[r].booking
           /\ \A s \in Offer \ {r} : offer'[s] = offer[s]
<1>1. offer \in [Offer -> OfferRow] /\ offer[r] \in OfferRow
  BY TypeSplits DEF Linked
<1> QED
  BY <1>1 DEF WithOffer, OfferRow

(* A step that leaves bookings and offers alone, and starts no hold *)
HoldsOnlyEnd ==
    /\ \A h \in Hold : hold'[h].st \in LiveStatus => hold[h].st \in LiveStatus
    /\ ~started => \A h \in Hold :
          hold[h].st \in LiveStatus /\ hold'[h].st \notin LiveStatus =>
              offer'[hold[h].offer].st # "held"

LEMMA CalmStep ==
    ASSUME OfferInv, UNCHANGED <<booking, offer, slot>>, started => started',
           NEW w \in Worker, HoldsOnlyEnd, JobSees(w)
    PROVE  OfferStep(w)
<1>1. OwnedIsNotFree'
  BY SlotKept DEF Active, OfferInv, OffersAreBacked
<1> QED
  BY <1>1 DEF OfferStep, OffersMove, PendingMove, HoldsMove, HoldsOnlyEnd

LEMMA SameHoldsEnd == ASSUME \A h \in Hold : hold'[h].st = hold[h].st PROVE HoldsOnlyEnd
BY DEF HoldsOnlyEnd

(* What becomes of an offer that loses its hold, and of slot and booking:  *)
(* it is open again, or the deadline ends it and the owner keeps the slot. *)
Yields(r) ==
    /\ \/ /\ offer' = offer \/ (offer' = WithOffer(r, "open") /\ MayLive(r))
          /\ booking' = booking
       \/ /\ started
          /\ offer' = offer \/ offer' = WithOffer(r, "expired")
          /\ booking' = Confirmed(offer[r].booking)
    /\ \/ slot' = slot
       \/ slot'.st = "pending_cancellation" /\ slot'.reserved = slot.reserved
       \/ slot'.reserved /\ slot'.st \notin {"open", "blocked"}

LEMMA YieldStep ==
    ASSUME Linked, Effect, OfferInv, UNCHANGED started, NEW r \in Offer, offer[r].st # "none",
           Yields(r), HoldsOnlyEnd, NEW w \in Worker, JobSees(w)
    PROVE  OfferStep(w)
<1>1. /\ booking \in [Booking -> BookingRow] /\ \A c \in Booking : booking[c] \in BookingRow
      /\ offer[r].booking \in Booking
  BY TypeSplits DEF Linked, RowsAreLinked
<1>2. OwnedIsNotFree'
  BY SlotKept, ConfirmedActive DEF Yields, OfferInv, OffersAreBacked
<1>3. ASSUME NEW st \in {"open", "expired"}, offer' = WithOffer(r, st)
      PROVE  /\ offer'[r].st = st /\ offer'[r].booking = offer[r].booking
             /\ \A s \in Offer \ {r} : offer'[s] = offer[s]
  BY <1>3, OfferSet DEF OfferStatus
<1>4. ASSUME booking' = Confirmed(offer[r].booking)
      PROVE  /\ booking'[offer[r].booking].st # "pending_cancellation"
             /\ \A b \in Booking \ {offer[r].booking} : booking'[b] = booking[b]
  BY <1>1, <1>4 DEF Confirmed, BookingRow
<1>5. \A b \in Booking : booking'[b].st = "pending_cancellation" =>
          booking[b].st = "pending_cancellation"
  BY <1>4 DEF Yields
<1>6. OffersMove
  <2>1. CASE offer' = offer
    BY <2>1 DEF OffersMove
  <2>2. CASE offer' = WithOffer(r, "open") /\ MayLive(r)
    BY <1>3, <2>2 DEF OffersMove, Opened, MayLive, OnOffer
  <2>3. CASE offer' = WithOffer(r, "expired") /\ booking' = Confirmed(offer[r].booking)
    BY <1>3, <1>4, <2>3 DEF OffersMove, OnOffer
  <2> QED
    BY <2>1, <2>2, <2>3 DEF Yields
<1>7. PendingMove
  BY <1>5 DEF PendingMove, Yields
<1> QED
  BY <1>2, <1>6, <1>7 DEF OfferStep, HoldsMove, HoldsOnlyEnd

LEMMA ReleasedSlot ==
    ASSUME slot' = Released \/ slot' = slot
    PROVE  \/ slot' = slot
           \/ slot'.reserved /\ slot'.st \notin {"open", "blocked"}
BY DEF Released, Offered

LEMMA RestoredYields ==
    ASSUME NEW r, started, Restored(r), offer' = offer \/ offer' = WithOffer(r, "expired")
    PROVE  Yields(r)
BY DEF Restored, Reserved, Yields

(* The bookings, offers and holds of the steps outside the hold-first jobs *)
LEMMA ManagerCancelOffers ==
    ASSUME Linked, OneActive, Effect, OfferInv, NEW b \in Booking, NEW release_slot \in BOOLEAN,
           ManagerCancel(b, release_slot)
    PROVE  OfferStep(Reconciler)
<1>1. /\ booking \in [Booking -> BookingRow] /\ \A c \in Booking : booking[c] \in BookingRow
      /\ offer \in [Offer -> OfferRow] /\ \A r \in Offer : offer[r] \in OfferRow
  BY TypeSplits DEF Linked
<1>2. /\ booking'[b].st = "cancelled"
      /\ \A c \in Booking \ {b} : booking'[c] = booking[c]
      /\ b \in Active /\ UNCHANGED <<started, job>>
  BY <1>1 DEF ManagerCancel, BookingRow
<1>3. OwnedIsNotFree'
  <2>1. Active' = {}
    BY <1>2 DEF OneActive, Active
  <2> QED
    BY <2>1 DEF OwnedIsNotFree
<1>4. JobSees(Reconciler)
  BY <1>2 DEF JobSees
<1>5. CASE booking[b].st = "pending_cancellation"
  <2> DEFINE H == {h \in UNION {LiveHolds(r) : r \in LiveOffers(b)} : ~Locked(h)}
  <2>1. hold' = WithHolds(H, "cancelled")
    BY <1>5 DEF ManagerCancel
  <2>2. H \in SUBSET Hold /\ \A h \in H : hold[h].offer \in LiveOffers(b)
    BY DEF LiveHolds
  <2>3. \A r \in Offer : offer'[r] = IF r \in LiveOffers(b)
            THEN [offer[r] EXCEPT !.st = "revoked"] ELSE offer[r]
    BY <1>5 DEF ManagerCancel
  <2>4. \A r \in Offer : IF r \in LiveOffers(b) THEN offer'[r].st = "revoked" /\ offer[r].booking = b
                         ELSE offer'[r] = offer[r]
    BY <1>1, <2>3 DEF OfferRow, LiveOffers
  <2> HIDE DEF H
  <2>5. OffersMove
    BY <1>2, <2>4 DEF OffersMove, OnOffer
  <2>6. PendingMove
    BY <1>2, <2>4 DEF PendingMove, LiveOffers
  <2>7. LiveOffers(b) \subseteq Offer
    BY DEF LiveOffers
  <2>8. HoldsMove
    <3>1. \A h \in Hold : /\ h \notin H => hold'[h] = hold[h]
                          /\ h \in H => hold'[h].st = "cancelled"
      <4>1. "cancelled" \in HoldStatus
        BY DEF HoldStatus
      <4> QED
        BY <2>1, <2>2, <4>1, HoldsSet
    <3>2. \A h \in H : offer'[hold[h].offer].st # "held"
      BY <2>2, <2>4, <2>7
    <3> QED
      BY <3>1, <3>2 DEF HoldsMove, LiveStatus
  <2> QED
    BY <1>2, <1>3, <1>4, <2>5, <2>6, <2>8 DEF OfferStep
<1>6. CASE booking[b].st # "pending_cancellation"
  <2>1. UNCHANGED <<offer, hold>>
    BY <1>6 DEF ManagerCancel
  <2>2. OffersMove /\ PendingMove /\ HoldsMove
    BY <1>2, <1>6, <2>1 DEF OffersMove, PendingMove, HoldsMove
  <2> QED
    BY <1>2, <1>3, <1>4, <2>2 DEF OfferStep
<1> QED
  BY <1>5, <1>6

LEMMA CancelLateOffers ==
    ASSUME Linked, Effect, OfferInv, NEW b \in Booking, CancelLate(b)
    PROVE  OfferStep(Reconciler)
<1>1. /\ booking \in [Booking -> BookingRow] /\ \A c \in Booking : booking[c] \in BookingRow
      /\ offer \in [Offer -> OfferRow]
  BY TypeSplits DEF Linked
<1>2. PICK r \in Offer : offer[r].st = "none" /\ offer' = [offer EXCEPT ![r] = [st |-> "open", booking |-> b]]
  BY DEF CancelLate, NextRow
<1>3. /\ offer'[r].st = "open" /\ offer'[r].booking = b
      /\ \A s \in Offer \ {r} : offer'[s] = offer[s]
  BY <1>1, <1>2
<1>4. /\ booking[b].st = "confirmed" /\ booking'[b].st = "pending_cancellation"
      /\ \A c \in Booking \ {b} : booking'[c] = booking[c]
  BY <1>1 DEF CancelLate, BookingRow
<1>5. LiveOffers(b) = {} /\ UNCHANGED <<started, hold, job>> /\ slot' = Offered
  BY DEF CancelLate
<1>6. OffersMove
  BY <1>2, <1>3, <1>5 DEF OffersMove, Opened, OnOffer
<1>7. PendingMove
  BY <1>3, <1>4 DEF PendingMove, OnOffer
<1>8. HoldsMove /\ JobSees(Reconciler) /\ OwnedIsNotFree'
  BY <1>5 DEF HoldsMove, JobSees, OwnedIsNotFree, Offered
<1> QED
  BY <1>5, <1>6, <1>7, <1>8 DEF OfferStep

LEMMA WithdrawOffers ==
    ASSUME Linked, Effect, OfferInv, NEW b \in Booking, Withdraw(b)
    PROVE  OfferStep(Reconciler)
<1>1. booking \in [Booking -> BookingRow] /\ \A c \in Booking : booking[c] \in BookingRow
  BY TypeSplits DEF Linked
<1>2. PICK r \in LiveOffers(b) : offer[r].st = "open" /\ offer' = WithOffer(r, "revoked")
  BY DEF Withdraw
<1>3. r \in Offer /\ offer[r].booking = b
  BY <1>2 DEF LiveOffers
<1>4. /\ offer'[r].st = "revoked"
      /\ \A s \in Offer \ {r} : offer'[s] = offer[s]
  BY <1>2, <1>3, OfferSet DEF OfferStatus
<1>5. /\ booking'[b].st = "confirmed"
      /\ \A c \in Booking \ {b} : booking'[c] = booking[c]
  BY <1>1 DEF Withdraw, BookingRow
<1>6. UNCHANGED <<started, hold, job>> /\ slot' = Reserved
  BY DEF Withdraw
<1>7. OffersMove
  BY <1>3, <1>4, <1>5 DEF OffersMove, OnOffer
<1>8. \A s \in LiveOffers(b) : s = r
  BY <1>2, <1>3 DEF OfferInv, OneLiveOffer, LiveOffers, OnOffer
<1>9. PendingMove
  BY <1>4, <1>5, <1>8 DEF PendingMove
<1>10. HoldsMove /\ JobSees(Reconciler) /\ OwnedIsNotFree'
  BY <1>6 DEF HoldsMove, JobSees, OwnedIsNotFree, Reserved
<1> QED
  BY <1>6, <1>7, <1>9, <1>10 DEF OfferStep

LEMMA CreateHoldOffers ==
    ASSUME Linked, Effect, OfferInv, NEW u \in User, CreateHold(u)
    PROVE  OfferStep(Reconciler)
<1>1. PICK b \in Booking, r \in Offer, n \in Hold :
              /\ booking[b].st = "pending_cancellation"
              /\ offer[r].st \in OnOffer /\ offer[r].booking = b
              /\ \A h \in Hold : Live(h) => hold[h].offer = r /\ ~Locked(h)
              /\ hold[n].st = "none"
              /\ hold'[n].st = "active" /\ hold'[n].offer = r
              /\ \A h \in Hold \ {n} :
                    /\ ~Live(h) => hold'[h] = hold[h]
                    /\ Live(h) => hold'[h].st = "expired"
              /\ offer' = WithOffer(r, "held")
              /\ slot' = [st |-> "reserving", reserved |-> TRUE]
              /\ UNCHANGED <<started, booking, job>>
  BY CreateHoldRows DEF OnOffer
<1>2. /\ offer'[r].st = "held" /\ offer'[r].booking = offer[r].booking
      /\ \A s \in Offer \ {r} : offer'[s] = offer[s]
  BY <1>1, OfferSet DEF OfferStatus
<1>3. Taken(r)
  BY <1>1 DEF Taken, LiveStatus, Live
<1>4. OffersMove /\ PendingMove
  BY <1>1, <1>2, <1>3 DEF OffersMove, PendingMove, OnOffer
<1>5. HoldsMove
  BY <1>1 DEF HoldsMove, LiveStatus, Live
<1>6. JobSees(Reconciler) /\ OwnedIsNotFree'
  BY <1>1 DEF JobSees, OwnedIsNotFree
<1> QED
  BY <1>1, <1>4, <1>5, <1>6 DEF OfferStep

LEMMA ResellOffers ==
    ASSUME Linked, Effect, OfferInv, NEW u \in User, Resell(u)
    PROVE  OfferStep(Reconciler)
<1>1. booking \in [Booking -> BookingRow]
  BY TypeSplits DEF Linked
<1>2. \A b \in Booking : \/ booking'[b] = booking[b]
                         \/ booking[b].st = "none" /\ booking'[b].st = "confirmed"
  BY <1>1 DEF Resell, NextRow
<1>3. UNCHANGED <<started, offer, hold, job>> /\ slot' = Reserved
  BY DEF Resell
<1>4. OffersMove
  BY <1>3 DEF OffersMove
<1>5. PendingMove
  BY <1>2 DEF PendingMove
<1>6. HoldsMove /\ JobSees(Reconciler) /\ OwnedIsNotFree'
  BY <1>3 DEF HoldsMove, JobSees, OwnedIsNotFree, Reserved
<1> QED
  BY <1>3, <1>4, <1>5, <1>6 DEF OfferStep

LEMMA OneHoldEnds ==
    ASSUME Linked, NEW h \in Hold, NEW st \in HoldStatus \ LiveStatus, hold' = WithHold(h, st),
           hold[h].st \in LiveStatus => started \/ offer'[hold[h].offer].st # "held"
    PROVE  HoldsOnlyEnd
<1>1. hold'[h].st = st /\ \A g \in Hold \ {h} : hold'[g] = hold[g]
  BY HoldSet
<1> QED
  BY <1>1 DEF HoldsOnlyEnd

LEMMA OutsideOffers ==
    ASSUME Linked, OneActive, Effect, OfferInv,
           \/ \E b \in Booking : CancelLate(b) \/ Withdraw(b)
           \/ \E b \in Booking, release_slot \in BOOLEAN : ManagerCancel(b, release_slot)
           \/ \E u \in User : CreateHold(u) \/ CreateTooLate(u) \/ Resell(u)
           \/ \E h \in Hold : HolderMovesOn(h) \/ ExpireHold(h)
           \/ \E r \in Offer : ExpireOffer(r)
           \/ \E h \in Hold : Lapse(h) \/ PayerPays(h) \/ GatewayCloses(h)
           \/ Tick
           \/ UNCHANGED vars
    PROVE  OfferStep(Reconciler)
<1>0. Reconciler \in Worker
  BY DEF Worker
<1>1. ASSUME UNCHANGED job PROVE JobSees(Reconciler)
  BY <1>1 DEF JobSees
<1>2. ASSUME NEW u \in User, CreateTooLate(u)
      PROVE  OfferStep(Reconciler)
  <2>1. PICK b \in Active : \E r \in LiveOffers(b) :
          /\ started
          /\ offer' = WithOffer(r, "expired")
          /\ booking' = Confirmed(b)
          /\ slot' = Reserved
          /\ UNCHANGED <<started, hold, job>>
    BY <1>2 DEF CreateTooLate
  <2>2. PICK r \in LiveOffers(b) :
          /\ started
          /\ offer' = WithOffer(r, "expired")
          /\ booking' = Confirmed(b)
          /\ slot' = Reserved
          /\ UNCHANGED <<started, hold, job>>
    BY <2>1
  <2>3. r \in Offer /\ offer[r].st # "none" /\ offer[r].booking = b
    BY DEF LiveOffers
  <2>4. Yields(r)
    BY <2>2, <2>3 DEF Yields, Reserved
  <2> QED
    BY <1>0, <1>1, <2>2, <2>3, <2>4, SameHoldsEnd, YieldStep
<1>3. ASSUME NEW h \in Hold, HolderMovesOn(h)
      PROVE  OfferStep(Reconciler)
  <2>1. PICK r \in Offer : r = hold[h].offer /\ offer[r].st # "none"
    BY <1>3, HoldRefers DEF HolderMovesOn
  <2>2. /\ hold' = WithHold(h, "expired") /\ UNCHANGED <<started, booking, job>>
        /\ IF started THEN UNCHANGED <<offer, slot>>
           ELSE MayLive(r) /\ offer' = WithOffer(r, "open") /\ slot' = Released
    BY <1>3, <2>1 DEF HolderMovesOn
  <2>3. Yields(r)
    BY <2>2, ReleasedSlot DEF Yields
  <2>4. started \/ offer'[r].st # "held"
    BY <2>2, OfferSet DEF OfferStatus
  <2>5. HoldsOnlyEnd
    BY <2>1, <2>2, <2>4, OneHoldEnds DEF HoldStatus, LiveStatus
  <2> QED
    BY <1>0, <1>1, <2>1, <2>2, <2>3, <2>5, YieldStep
<1>4. ASSUME NEW h \in Hold, ExpireHold(h)
      PROVE  OfferStep(Reconciler)
  <2>1. PICK r \in Offer : r = hold[h].offer /\ offer[r].st # "none"
    BY <1>4, HoldRefers DEF ExpireHold
  <2>2. /\ hold' = WithHold(h, "expired") /\ UNCHANGED <<started, booking, job>>
        /\ IF offer[r].st = "held" THEN offer' = WithOffer(r, "open") /\ slot' = Released
           ELSE UNCHANGED <<offer, slot>>
    BY <1>4, <2>1 DEF ExpireHold, saleVars
  <2>3. offer[r].st = "held" => MayLive(r)
    BY DEF MayLive, LiveOffers, OfferInv, OneLiveOffer, OnOffer
  <2>4. Yields(r)
    BY <2>2, <2>3, ReleasedSlot DEF Yields
  <2>5. offer'[r].st # "held"
    BY <2>2, OfferSet DEF OfferStatus
  <2>6. HoldsOnlyEnd
    BY <2>1, <2>2, <2>5, OneHoldEnds DEF HoldStatus, LiveStatus
  <2> QED
    BY <1>0, <1>1, <2>1, <2>2, <2>4, <2>6, YieldStep
<1>5. ASSUME NEW r \in Offer, ExpireOffer(r)
      PROVE  OfferStep(Reconciler)
  <2> DEFINE H == {h \in LiveHolds(r) : ~Locked(h)}
  <2>1. /\ hold' = WithHolds(H, "expired") /\ offer' = WithOffer(r, "expired")
        /\ offer[r].st # "none" /\ started /\ Restored(r) /\ UNCHANGED <<started, job>>
    BY <1>5 DEF ExpireOffer
  <2>2. H \in SUBSET Hold
    BY DEF LiveHolds
  <2> HIDE DEF H
  <2>3. "expired" \in HoldStatus
    BY DEF HoldStatus
  <2>4. \A h \in Hold : /\ h \notin H => hold'[h] = hold[h]
                        /\ h \in H => hold'[h].st = "expired"
    BY <2>1, <2>2, <2>3, HoldsSet
  <2>5. HoldsOnlyEnd
    BY <2>1, <2>4 DEF HoldsOnlyEnd, LiveStatus
  <2>6. Yields(r)
    BY <2>1, RestoredYields
  <2> QED
    BY <1>0, <1>1, <2>1, <2>5, <2>6, YieldStep
<1>6. CASE \/ \E h \in Hold : Lapse(h) \/ PayerPays(h) \/ GatewayCloses(h)
           \/ Tick
           \/ UNCHANGED vars
  <2>1. hold \in [Hold -> HoldRow] /\ \A h \in Hold : hold[h] \in HoldRow
    BY TypeSplits DEF Linked
  <2>2. ASSUME NEW h \in Hold, Lapse(h) PROVE \A g \in Hold : hold'[g].st = hold[g].st
    BY <2>1, <2>2 DEF Lapse, HoldRow
  <2>3. \A h \in Hold : hold'[h].st = hold[h].st
    BY <1>6, <2>2 DEF PayerPays, GatewayCloses, Tick, vars
  <2>4. UNCHANGED <<booking, offer, slot, job>>
    BY <1>6 DEF Lapse, PayerPays, GatewayCloses, Tick, vars, saleVars
  <2>5. started => started'
    BY <1>6 DEF Lapse, PayerPays, GatewayCloses, Tick, vars
  <2> QED
    BY <1>0, <1>1, <2>3, <2>4, <2>5, SameHoldsEnd, CalmStep
<1> QED
  BY <1>2, <1>3, <1>4, <1>5, <1>6, CancelLateOffers, WithdrawOffers, ManagerCancelOffers,
     CreateHoldOffers, ResellOffers

(* The jobs *)
LEMMA JobsSee ==
    ASSUME Linked, NEW w \in Worker
    PROVE  /\ Return(w) => JobSees(w)
           /\ \A pc \in Pc \ LockedPc : Goto(w, pc) => JobSees(w)
           /\ \A pc \in Pc \ LockedPc, h \in Hold : Begin(w, h, pc) => JobSees(w)
           /\ \A pc \in Pc, h \in Hold : Lock(w, h, pc) /\ UNCHANGED <<offer, hold>> => JobSees(w)
BY JobSet DEF JobSees, LockedPc, Pc

LEMMA StartsOffers ==
    ASSUME Linked, OfferInv, NEW w \in Worker, NEW h \in Hold,
           PayLocks(w, h) \/ CancelLocks(w, h) \/ StartResolve(w, h)
    PROVE  OfferStep(w)
<1>1. JobSees(w)
  BY JobsSee DEF PayLocks, CancelLocks, StartResolve, Pc, LockedPc
<1> QED
  BY <1>1, SameHoldsEnd, CalmStep DEF PayLocks, CancelLocks, StartResolve, saleVars

LEMMA GiveBackYields ==
    ASSUME Linked, OfferInv, NEW w \in Worker, job[w].pc # "idle",
           GiveBackOrUp(w) \/ GiveBackHeld(w)
    PROVE  /\ Yields(hold[job[w].h].offer)
           /\ HoldsLock(w) /\ hold[job[w].h].st \in LiveStatus
                => started \/ offer'[hold[job[w].h].offer].st # "held"
<1>1. PICK r \in Offer : r = hold[job[w].h].offer
  BY JobRefers
<1>2. HoldsLock(w) /\ hold[job[w].h].st \in LiveStatus /\ offer[r].st = "held"
        => job[w].seenOffer = "held"
  BY <1>1 DEF OfferInv, SeenHeld
<1>3. CASE GiveBack(w)
  <2>1. /\ booking' = booking
        /\ \/ job[w].seenOffer = "open" /\ offer' = offer
           \/ offer' = WithOffer(r, "open") /\ MayLive(r)
    BY <1>1, <1>3 DEF GiveBack, SetOffer
  <2>2. slot \in [st : SlotStatus, reserved : BOOLEAN]
    BY TypeSplits DEF Linked, RestTyped
  <2>3. slot' = slot \/ (slot'.st = "pending_cancellation" /\ slot'.reserved = slot.reserved)
    BY <1>3, <2>2 DEF GiveBack, SetReleased
  <2>4. Yields(r)
    BY <2>1, <2>3 DEF Yields
  <2>5. "open" \in OfferStatus
    BY DEF OfferStatus
  <2> QED
    BY <1>1, <1>2, <2>1, <2>4, <2>5, OfferSet
<1>4. CASE started /\ GiveUp(w)
  <2>1. offer' = offer \/ offer' = WithOffer(r, "expired")
    BY <1>1, <1>4 DEF GiveUp, SetOffer
  <2> QED
    BY <1>1, <1>4, <2>1, RestoredYields DEF GiveUp
<1>5. CASE job[w].seenOffer # "held" /\ UNCHANGED <<offer, slot, booking>>
  BY <1>1, <1>2, <1>5 DEF Yields
<1> QED
  BY <1>3, <1>4, <1>5 DEF GiveBackOrUp, GiveBackHeld

LEMMA TransferOffers ==
    ASSUME Linked, LockInv, OfferInv, NEW w \in Worker, Transfer(w)
    PROVE  OfferStep(w)
<1>1. PICK h \in Hold : h = job[w].h
  BY JobRefers DEF Transfer
<1>2. PICK r \in Offer : r = hold[h].offer /\ offer[r].st # "none"
  BY <1>1, JobRefers DEF Transfer
<1>3. PICK b \in Booking : b = OriginalOf(h)
  BY <1>1, JobRefers DEF Transfer
<1>4. /\ booking \in [Booking -> BookingRow] /\ \A c \in Booking : booking[c] \in BookingRow
      /\ offer[r].booking = b
  BY <1>2, <1>3, TypeSplits DEF Linked, OriginalOf
<1>5. hold[h].st = "processing"
  BY <1>1 DEF LockInv, LocksFit, Fits, Transfer
<1>6. /\ booking[b].st = "pending_cancellation" /\ ~started
      /\ offer' = WithOffer(r, "completed") /\ hold' = WithHold(h, "paid")
      /\ slot' = Reserved /\ Return(w) /\ UNCHANGED started
  BY <1>1, <1>2, <1>3 DEF Transfer, Transferable
<1>7. PICK n \in Booking :
        /\ booking[n].st = "none"
        /\ booking' = [booking EXCEPT ![b].st = "transferred", ![n] =
              [st |-> "confirmed", user |-> hold[h].user, replaces |-> b]]
  BY <1>1, <1>3 DEF Transfer, NextRow
<1>8. /\ booking'[b].st = "transferred" /\ booking'[n].st = "confirmed"
      /\ \A c \in Booking \ {b, n} : booking'[c] = booking[c]
  BY <1>4, <1>6, <1>7 DEF BookingRow
<1>9. offer'[r].st = "completed" /\ \A s \in Offer \ {r} : offer'[s] = offer[s]
  BY <1>6, OfferSet DEF OfferStatus
<1>10. hold'[h].st = "paid" /\ \A g \in Hold \ {h} : hold'[g] = hold[g]
  BY <1>6, HoldSet DEF HoldStatus
<1>11. \A s \in Offer : offer[s].st = "held" => s = r
  <2>1. ASSUME NEW s \in Offer, offer[s].st = "held" PROVE s = r
    <3>1. PICK g \in Hold : hold[g].st \in LiveStatus /\ hold[g].offer = s
      BY <1>6, <2>1 DEF OfferInv, OffersAreBacked, HeldHasHold, LiveHolds, Live, LiveStatus
    <3> QED
      BY <1>2, <1>5, <3>1 DEF OfferInv, OneLiveHold, LiveStatus
  <2> QED
    BY <2>1
<1>12. OffersMove
  BY <1>4, <1>8, <1>9 DEF OffersMove, OnOffer
<1>13. PendingMove
  <2>1. \A c \in Booking : booking'[c].st = "pending_cancellation" =>
            booking[c].st = "pending_cancellation"
    BY <1>8
  <2>2. \A s \in Offer : offer'[s].st # "held"
    BY <1>9, <1>11
  <2> QED
    BY <2>1, <2>2 DEF PendingMove, LiveOffers
<1>14. HoldsMove
  BY <1>2, <1>9, <1>10 DEF HoldsMove, LiveStatus
<1>15. JobSees(w) /\ OwnedIsNotFree'
  BY <1>6, JobsSee DEF OwnedIsNotFree, Reserved
<1> QED
  BY <1>6, <1>12, <1>13, <1>14, <1>15 DEF OfferStep

LEMMA ConflictOffers ==
    ASSUME Linked, Effect, LockInv, OfferInv, NEW w \in Worker, Conflict(w)
    PROVE  OfferStep(w)
<1>1. PICK h \in Hold : h = job[w].h
  BY JobRefers DEF Conflict
<1>2. PICK r \in Offer : r = hold[h].offer /\ offer[r].st # "none"
  BY <1>1, JobRefers DEF Conflict
<1>3. hold \in [Hold -> HoldRow] /\ hold[h] \in HoldRow
  BY TypeSplits DEF Linked
<1>4. hold[h].st = "processing" /\ HoldsLock(w)
  BY <1>1 DEF LockInv, LocksFit, Fits, Conflict, HoldsLock, LockedPc
<1>5. hold'[h].st = "failed" /\ \A g \in Hold \ {h} : hold'[g] = hold[g]
  BY <1>1, <1>3 DEF Conflict, HoldRow
<1>6. JobSees(w) /\ UNCHANGED started
  BY JobsSee DEF Conflict
<1>7. CASE started /\ booking[OriginalOf(h)].st = "pending_cancellation"
  <2>1. /\ offer' = offer \/ offer' = WithOffer(r, "expired")
        /\ booking' = Confirmed(offer[r].booking)
        /\ slot' = Reserved
    BY <1>1, <1>2, <1>7 DEF Conflict, SetOffer, OriginalOf
  <2>2. Yields(r)
    BY <1>7, <2>1 DEF Yields, Reserved
  <2>3. HoldsOnlyEnd
    BY <1>5, <1>7 DEF HoldsOnlyEnd, LiveStatus
  <2> QED
    BY <1>2, <1>6, <2>2, <2>3, YieldStep
<1>8. CASE ~(started /\ booking[OriginalOf(h)].st = "pending_cancellation")
  <2>1. UNCHANGED <<offer, booking, slot>>
    BY <1>1, <1>8 DEF Conflict
  <2>2. started \/ offer[r].st # "held"
    <3>1. \/ job[w].seenOffer # "held"
          \/ booking[offer[r].booking].st # "pending_cancellation"
          \/ started
      BY <1>1, <1>2 DEF Conflict, Transferable, OriginalOf
    <3>2. offer[r].st = "held" => job[w].seenOffer = "held"
      BY <1>1, <1>2, <1>4 DEF OfferInv, SeenHeld, LiveStatus
    <3> QED
      BY <3>1, <3>2 DEF OfferInv, HeldIsPending
  <2>3. HoldsOnlyEnd
    BY <1>2, <1>5, <2>1, <2>2 DEF HoldsOnlyEnd, LiveStatus
  <2> QED
    BY <1>6, <2>1, <2>3, CalmStep
<1> QED
  BY <1>7, <1>8

LEMMA JobOffers ==
    ASSUME Linked, Effect, LockInv, OfferInv, NEW w \in Worker, JobStep(w)
    PROVE  OfferStep(w)
<1>1. job[w].pc # "idle"
  BY DEF JobStep, PayBegins, PayTooLate, RecordTrack, GatewayRefuses, FailPayment, CancelHold,
     Verify, Settle, Transfer, Conflict, InquireRefusal, Classify, RecordFailure, IndexRefuses
<1>2. PICK h \in Hold : h = job[w].h
  BY <1>1, JobRefers
<1>3. PICK r \in Offer : r = hold[h].offer /\ offer[r].st # "none"
  BY <1>1, <1>2, JobRefers
<1>4. hold \in [Hold -> HoldRow] /\ hold[h] \in HoldRow
  BY TypeSplits DEF Linked
<1>5. Fits(job[w].pc, hold[h].st)
  BY <1>2 DEF LockInv, LocksFit
<1>6. ASSUME UNCHANGED <<booking, offer, slot, started>>, JobSees(w),
             \A g \in Hold : hold'[g].st = hold[g].st
      PROVE  OfferStep(w)
  BY <1>6, SameHoldsEnd, CalmStep
<1>7. ASSUME GiveBackOrUp(w) \/ GiveBackHeld(w), HoldsLock(w), UNCHANGED started, JobSees(w),
             NEW st \in {"expired", "failed", "cancelled"}, hold' = WithHold(h, st)
      PROVE  OfferStep(w)
  <2>1. Yields(r) /\ (hold[h].st \in LiveStatus => started \/ offer'[r].st # "held")
    BY <1>1, <1>2, <1>3, <1>7, GiveBackYields
  <2>2. HoldsOnlyEnd
    BY <1>3, <1>7, <2>1, OneHoldEnds DEF HoldStatus, LiveStatus
  <2> QED
    BY <1>3, <1>7, <2>1, <2>2, YieldStep
<1>8. CASE PayBegins(w)
  <2>1. hold[h].st = "active"
    BY <1>5, <1>8 DEF PayBegins, Fits
  <2>2. /\ hold'[h].st = "processing"
        /\ \A g \in Hold \ {h} : hold'[g] = hold[g]
    BY <1>2, <1>4, <1>8 DEF PayBegins, HoldRow
  <2>3. HoldsOnlyEnd
    BY <2>1, <2>2 DEF HoldsOnlyEnd, LiveStatus
  <2>4. JobSees(w)
    BY <1>8, JobsSee DEF PayBegins, Pc, LockedPc
  <2> QED
    BY <1>8, <2>3, <2>4, CalmStep DEF PayBegins, saleVars
<1>9. CASE PayTooLate(w)
  BY <1>2, <1>7, <1>9, JobsSee DEF PayTooLate, HoldsLock, LockedPc
<1>10. CASE RecordTrack(w)
  <2>1. \A g \in Hold : hold'[g].st = hold[g].st
    BY <1>2, <1>4, <1>10 DEF RecordTrack, HoldRow
  <2> QED
    BY <1>6, <1>10, <2>1, JobsSee DEF RecordTrack, saleVars
<1>11. ASSUME FailLocks(w), UNCHANGED <<offer, hold>> PROVE JobSees(w)
  BY <1>2, <1>11, JobsSee DEF FailLocks, Pc, LockedPc
<1>12. CASE GatewayRefuses(w)
  BY <1>6, <1>11, <1>12 DEF GatewayRefuses, saleVars
<1>13. CASE FailPayment(w)
  BY <1>2, <1>7, <1>13, JobsSee DEF FailPayment, HoldsLock, LockedPc
<1>14. CASE CancelHold(w)
  BY <1>2, <1>7, <1>14, JobsSee DEF CancelHold, HoldsLock, LockedPc
<1>15. CASE Verify(w)
  <2>1. JobSees(w)
    BY <1>15, JobsSee DEF Verify, Pc, LockedPc
  <2> QED
    BY <1>6, <1>15, <2>1 DEF Verify, saleVars
<1>16. CASE Settle(w)
  <2>1. \A g \in Hold : hold'[g].st = hold[g].st
    BY <1>2, <1>4, <1>16 DEF Settle, HoldRow
  <2>2. JobSees(w)
    BY <1>2, <1>16, JobsSee DEF Settle, Pc, LockedPc
  <2> QED
    BY <1>6, <1>16, <2>1, <2>2 DEF Settle, saleVars
<1>17. CASE InquireRefusal(w)
  <2>1. JobSees(w)
    BY <1>2, <1>17, JobsSee DEF InquireRefusal, Pc, LockedPc
  <2> QED
    BY <1>6, <1>17, <2>1 DEF InquireRefusal, saleVars
<1>18. CASE Classify(w)
  <2>1. JobSees(w)
    BY <1>2, <1>11, <1>18, JobsSee DEF Classify, Pc, LockedPc
  <2> QED
    BY <1>6, <1>18, <2>1 DEF Classify, saleVars
<1>19. CASE RecordFailure(w)
  <2>1. JobSees(w) /\ HoldsLock(w) /\ UNCHANGED started /\ GiveBackHeld(w)
    BY <1>19, JobsSee DEF RecordFailure, Pc, LockedPc, HoldsLock
  <2>2. CASE hold[h].st = "processing"
    BY <1>2, <1>7, <1>19, <2>1, <2>2 DEF RecordFailure
  <2>3. CASE hold[h].st # "processing"
    <3>1. \A g \in Hold : hold'[g].st = hold[g].st
      BY <1>2, <1>19, <2>3 DEF RecordFailure
    <3>2. Yields(r)
      BY <1>1, <1>2, <1>3, <2>1, GiveBackYields
    <3> QED
      BY <1>3, <2>1, <3>1, <3>2, SameHoldsEnd, YieldStep
  <2> QED
    BY <2>2, <2>3
<1>20. CASE IndexRefuses(w)
  BY <1>6, <1>20, JobsSee DEF IndexRefuses, saleVars
<1> QED
  BY <1>8, <1>9, <1>10, <1>12, <1>13, <1>14, <1>15, <1>16, <1>17, <1>18, <1>19, <1>20,
     TransferOffers, ConflictOffers DEF JobStep

LEMMA FaultsOffers ==
    ASSUME Linked, OfferInv, NEW w \in Worker, Abort(w) \/ LoseVerifyReply(w) \/ LoseInquiry(w)
    PROVE  OfferStep(w)
<1>1. JobSees(w)
  BY JobsSee DEF Abort, LoseVerifyReply, LoseInquiry, Pc, LockedPc
<1> QED
  BY <1>1, SameHoldsEnd, CalmStep DEF Abort, LoseVerifyReply, LoseInquiry, saleVars

LEMMA EachOfferStep ==
    ASSUME Linked, OneActive, Effect, LockInv, OfferInv, [Next]_vars
    PROVE  \E w \in Worker : OfferStep(w)
<1>1. Reconciler \in Worker
  BY DEF Worker
<1>2. ASSUME NEW w \in Request, NEW h \in Hold,
             PayLocks(w, h) \/ CancelLocks(w, h) \/ StartResolve(w, h)
      PROVE  \E v \in Worker : OfferStep(v)
  BY <1>2, StartsOffers DEF Worker
<1>3. ASSUME NEW h \in Hold, Reconcile(h)
      PROVE  OfferStep(Reconciler)
  BY <1>1, <1>3, StartsOffers DEF Reconcile
<1>4. ASSUME NEW w \in Worker,
             JobStep(w) \/ Abort(w) \/ LoseVerifyReply(w) \/ LoseInquiry(w)
      PROVE  OfferStep(w)
  BY <1>4, JobOffers, FaultsOffers
<1> QED
  BY <1>1, <1>2, <1>3, <1>4, OutsideOffers DEF Next

LEMMA InitOffers == Init => OfferInv
<1> SUFFICES ASSUME Init PROVE OfferInv
  OBVIOUS
<1>1. \A h \in Hold : hold[h].st = "none"
  BY DEF Init
<1>2. \A r \in Offer : offer[r].st = "none"
  BY DEF Init
<1>3. \A w \in Worker : job[w].pc = "idle"
  BY DEF Init, Idle
<1>4. \A b \in Booking : booking[b].st \in {"none", "confirmed"}
  BY DEF Init
<1>5. slot = [st |-> "reserved", reserved |-> TRUE]
  BY DEF Init
<1> QED
  BY <1>1, <1>2, <1>3, <1>4, <1>5 DEF OfferInv, OneLiveOffer, OneLiveHold, HeldIsPending, SeenHeld,
     OnOffer, LiveStatus, HoldsLock, LockedPc, OffersAreBacked, PendingHasOffer, HeldHasHold,
     OwnedIsNotFree

(* A booking that waits for its successor always has a live offer, an      *)
(* offer that is held before the deadline a live hold that can end it, and *)
(* a slot with an owner is never shown as free, although handlers write    *)
(* offers and slots back from rows they loaded earlier.                    *)
THEOREM OffersStayBacked == Spec => []OffersAreBacked
<1>1. Init => OfferInv
  BY InitOffers
<1>2. Sound /\ OfferInv /\ [Next]_vars => OfferInv'
  <2> SUFFICES ASSUME Sound, OfferInv, [Next]_vars PROVE OfferInv'
    OBVIOUS
  <2>1. Linked /\ LockInv /\ Effect /\ OneActive
    BY SoundStep DEF Sound, ResaleInv
  <2>2. PICK w \in Worker : OfferStep(w)
    BY <2>1, EachOfferStep
  <2> QED
    BY <2>1, <2>2, OfferInvStep
<1>3. OfferInv => OffersAreBacked
  BY DEF OfferInv
<1> QED
  BY <1>1, <1>2, <1>3, LocksAreRespected, PTL DEF Spec

=============================================================================
