---------------------------- MODULE Desk_proofs ----------------------------
(***************************************************************************)
(* That money leaves once, that what is decided stays, and that a page     *)
(* asks only for payouts that are due: for any number of bookings,         *)
(* settlements and calls, for any prices, commission and rounding.         *)
(***************************************************************************)
EXTENDS Desk, TLAPS

USE DeskAssumption

(* The rows of the two administrators' lists *)
Status    == {"none", "pending"} \cup Decision
SettleRow == [s : Settlement \cup {0}, st : Status, dest : Number]
BackRow   == [b : Booking, st : Status, dest : Number]

PaysType == [rows : SUBSET SettleRow, loading : BOOLEAN, detail : SettleRow,
             shown : Number, pay : SettleRow, busy : BOOLEAN]
RefsType == [rows : SUBSET BackRow, loading : BOOLEAN,
             act : [b : Booking \cup {NoCard}, st : Status, dest : Number,
                    to : Decision \cup {"none"}],
             shown : Number, revealing : BOOLEAN, busy : BOOLEAN]

(***************************************************************************)
(* PaidOnce and DecidedStays rest on when a booking can be in which stage. *)
(* A cancellation holds the booking's lock, so no settlement takes it, and *)
(* it began before the slot did, so none has; only a cancelled booking has *)
(* a refund.  What a confirmation selected is still without a destination, *)
(* for it locks the card, and hence not paid.                              *)
(***************************************************************************)
StagesFit ==
    \A b \in Booking :
        /\ phase[b] = "upcoming" => booking[b].settle \in {"not_settled", "excluded"}
        /\ cancel[b].on => booking[b] = [status |-> "confirmed", settle |-> "not_settled"]
        /\ booking[b].status = "cancelled" <=> booking[b].settle = "excluded"
        /\ refund[b].status # "none" => booking[b].status = "cancelled"
        /\ refund[b].status = "none" => refund[b].dest = NoCard

Taken(t) == confirm[t].st = "taken"

TakenFits ==
    /\ \A t \in Tab : \A b \in confirm[t].backs :
          /\ Taken(t) /\ refund[b].dest = NoCard
          /\ refund[b].status \in {"pending", "approved", "rejected"}
    /\ \A t, u \in Tab : Taken(t) /\ Taken(u) => t = u
    /\ \A t \in Tab : confirm[t].st # "none" => confirm[t].n # NoCard
    /\ \A t \in Tab : Taken(t) => card["user"].st # "none"

MoneyInv == TypeOK /\ StagesFit /\ PaidOnce /\ TakenFits

(* A row of a list is old, but it was true: its card is on record since,   *)
(* and what it says was approved was not rejected.                         *)
SettleTrue(row) ==
    /\ row.s \in Settlement
    /\ settlement[row.s].status # "none"
    /\ row.dest = settlement[row.s].dest
    /\ row.st = "approved" => settlement[row.s].status \in {"approved", "paid"}

BackTrue(row) ==
    /\ row.b \in Booking
    /\ refund[row.b].status # "none"
    /\ row.dest \in {NoCard, refund[row.b].dest}
    /\ row.st = "approved" => refund[row.b].status \in {"approved", "paid"}

IsCall(c) == \E kind, arg, st, ans : c = [kind |-> kind, arg |-> arg, st |-> st, ans |-> ans]

ArgTrue(kind, arg) ==
    /\ kind \in {"detail", "reveal"} => arg \in Settlement
    /\ kind = "decide" => arg.s \in Settlement /\ arg.to \in Decision
    /\ kind = "revealBack" => arg \in Booking
    /\ kind = "payback" => arg.b \in Booking /\ arg.to \in Decision
    /\ kind = "lookup" => arg \in Card

AnsTrue(kind, ans) ==
    /\ kind = "settlements" => ans \in SUBSET SettleRow /\ \A row \in ans : SettleTrue(row)
    /\ kind = "detail" => ans \in SettleRow
    /\ kind \in {"reveal", "revealBack"} => ans \in Number
    /\ kind = "refunds" => ans \in SUBSET BackRow /\ \A row \in ans : BackTrue(row)

CallTrue(c) ==
    /\ IsCall(c)
    /\ ArgTrue(c.kind, c.arg)
    /\ c.st = "ok" => AnsTrue(c.kind, c.ans)

CallsTrue == \A c \in calls : CallTrue(c)

PaysTrue ==
    /\ pays \in PaysType
    /\ \A row \in pays.rows : SettleTrue(row)
    /\ pays.pay # NoSettlement => SettleTrue(pays.pay) /\ pays.pay.st = "approved"

RefsTrue ==
    /\ refs \in RefsType
    /\ \A row \in refs.rows : BackTrue(row)
    /\ refs.act # NoAct => BackTrue(refs.act) /\ refs.act.to \in AllowedNext(refs.act.st)

DeskInv == MoneyInv /\ CallsTrue /\ PaysTrue /\ RefsTrue

-----------------------------------------------------------------------------
(* What a step does to the rows *)

Looks(p) == \E was : \E n \in Card : CanLookup(p, was) /\ Lookup(p, n, was)
Deletes(p) == Free(p) /\ Delete(p)
Begins(t) == card["user"].st = "pending" /\ BeginConfirm(t)
PaysBack(b, to) == CanPayBack(b, to) /\ PayBack(b, to)
Requests(s) == CanRequest /\ Request(s)
Decides(s, to) == CanDecide(s, to) /\ Decide(s, to)

MoneyStep ==
    \/ UNCHANGED server
    \/ \E b \in Booking : Pass(b) \/ CommitCancel(b) \/ \E by \in Person : BeginCancel(b, by)
    \/ \E s \in Settlement : Requests(s) \/ \E to \in Decision : Decides(s, to)
    \/ \E b \in Booking, to \in Decision : PaysBack(b, to)
    \/ \E p \in Person : Looks(p) \/ Verify(p) \/ Deletes(p)
    \/ \E t \in Tab : Begins(t) \/ TakeRefunds(t) \/ Confirm(t) \/ GiveUp(t)

(* The steps of the page leave the rows alone. *)
LEMMA ArriveRests == Arrive => UNCHANGED server
BY DEF Arrive, SettlementsArrive, DetailArrives, RevealArrives, DecideArrives, RefundsArrive,
       DestinationArrives, ActionArrives, FinanceArrives, RequestArrives, ItemsArrive,
       CardArrives, LookupArrives, ConfirmArrives, FullArrives, DeleteArrives

LEMMA ClickRests == Click => UNCHANGED server
BY DEF Click, FetchDetail, OpenPayment, UpdateStatus, CloseDetail, ClosePayment, SubmitPayment,
       OpenAction, CloseAction, RevealDestination, SubmitAction, RequestSettlement, CloseItems,
       OpenItems, EditCard, CancelEdit, ConfirmCard, ToggleFull, DeleteCard, LookupCard

LEMMA ServeMoves ==
    ASSUME CallsTrue, Serve
    PROVE  MoneyStep
<1>1. CASE \E c \in calls : Lose(c)
  BY <1>1 DEF Lose, Fail, MoneyStep
<1>2. ASSUME NEW c \in calls, ServeRead(c) \/ ServeReveal(c)
      PROVE  MoneyStep
  BY <1>2 DEF ServeRead, ServeReveal, Fail, MoneyStep
<1>3. ASSUME NEW c \in calls, ServeRequest(c)
      PROVE  MoneyStep
  BY <1>3 DEF ServeRequest, Fail, MoneyStep, Requests
<1>4. ASSUME NEW c \in calls, ServeDecide(c)
      PROVE  MoneyStep
  BY <1>4 DEF ServeDecide, Fail, MoneyStep, Decides, CallsTrue, CallTrue, ArgTrue
<1>5. ASSUME NEW c \in calls, ServePayBack(c)
      PROVE  MoneyStep
  BY <1>5 DEF ServePayBack, Fail, MoneyStep, PaysBack, CallsTrue, CallTrue, ArgTrue
<1>6. ASSUME NEW c \in calls, ServeLookup(c) \/ EndLookup(c)
      PROVE  MoneyStep
  BY <1>6 DEF ServeLookup, EndLookup, Fail, MoneyStep, Looks, CallsTrue, CallTrue, ArgTrue, Person
<1>7. ASSUME NEW c \in calls, ServeConfirm(c) \/ EndConfirm(c)
      PROVE  MoneyStep
  BY <1>7 DEF ServeConfirm, EndConfirm, Fail, MoneyStep, Begins, CanConfirm, Tab
<1>8. ASSUME NEW c \in calls, ServeDelete(c)
      PROVE  MoneyStep
  BY <1>8 DEF ServeDelete, Fail, MoneyStep, Person, Deletes, Free
<1> QED
  BY <1>1, <1>2, <1>3, <1>4, <1>5, <1>6, <1>7, <1>8 DEF Serve

LEMMA OthersMove == Others => MoneyStep
BY DEF Others, OtherPayBack, OtherRequest, OtherDecide, OtherCard, MoneyStep, Requests, Decides,
       PaysBack, Looks, Deletes, Begins, CanConfirm, OtherConfirm, Tab

LEMMA StepMoves == CallsTrue /\ [Next]_vars => MoneyStep
BY ArriveRests, ClickRests, ServeMoves, OthersMove DEF Next, MoneyStep, vars, server, money

-----------------------------------------------------------------------------
(* The rows of the database *)

LEMMA InitMoney == Init => MoneyInv
<1> SUFFICES ASSUME Init PROVE MoneyInv
  OBVIOUS
<1>1. TypeOK
  <2>1. card \in [Person -> [id : 0 .. MaxRow, n : Number, st : {"none", "pending", "verified"}]]
    BY DEF Init, NoRowOf, Number
  <2>2. \A p \in Person : card[p].st = "none" <=> card[p].n = NoCard
    BY DEF Init, NoRowOf
  <2> QED
    BY <2>1, <2>2 DEF Init, TypeOK, NoJob, NoConfirm, Number
<1>2. StagesFit
  BY DEF Init, StagesFit, NoJob
<1>3. PaidOnce
  BY DEF Init, PaidOnce, LiveIn
<1>4. TakenFits
  BY DEF Init, TakenFits, Taken, NoConfirm
<1> QED
  BY <1>1, <1>2, <1>3, <1>4 DEF MoneyInv

LEMMA PassFits == ASSUME MoneyInv, NEW b \in Booking, Pass(b) PROVE MoneyInv'
<1>1. TypeOK'
  BY DEF MoneyInv, TypeOK, Pass
<1>2. StagesFit'
  BY DEF MoneyInv, TypeOK, StagesFit, Pass
<1>3. PaidOnce'
  BY DEF MoneyInv, PaidOnce, LiveIn, Pass
<1>4. TakenFits'
  BY DEF MoneyInv, TakenFits, Taken, Pass
<1> QED
  BY <1>1, <1>2, <1>3, <1>4 DEF MoneyInv

LEMMA BeginCancelFits ==
    ASSUME MoneyInv, NEW b \in Booking, NEW by \in Person, BeginCancel(b, by)
    PROVE  MoneyInv'
<1>1. Verified("user") \in Number
  BY DEF MoneyInv, TypeOK, Verified, Number, Person
<1>2. TypeOK'
  BY <1>1 DEF MoneyInv, TypeOK, BeginCancel
<1>3. booking[b] = [status |-> "confirmed", settle |-> "not_settled"]
  BY DEF MoneyInv, TypeOK, StagesFit, BeginCancel
<1>4. StagesFit'
  BY <1>3 DEF MoneyInv, TypeOK, StagesFit, BeginCancel
<1>5. PaidOnce'
  BY DEF MoneyInv, PaidOnce, LiveIn, BeginCancel
<1>6. TakenFits'
  BY DEF MoneyInv, TakenFits, Taken, BeginCancel
<1> QED
  BY <1>2, <1>4, <1>5, <1>6 DEF MoneyInv

LEMMA CommitCancelFits ==
    ASSUME MoneyInv, NEW b \in Booking, CommitCancel(b)
    PROVE  MoneyInv'
<1>1. TypeOK'
  BY DEF MoneyInv, TypeOK, CommitCancel, NoJob, Number
<1>2. StagesFit'
  BY DEF MoneyInv, TypeOK, StagesFit, CommitCancel, NoJob
<1>3. booking[b] = [status |-> "confirmed", settle |-> "not_settled"] /\ LiveIn(b) = {}
  <2>1. booking[b] = [status |-> "confirmed", settle |-> "not_settled"]
    BY DEF MoneyInv, StagesFit, CommitCancel
  <2>2. \A s \in LiveIn(b) : settlement[s].status \in {"pending", "approved", "paid"}
    BY DEF LiveIn
  <2> QED
    BY <2>1, <2>2 DEF MoneyInv, PaidOnce, StageOf
<1>4. PaidOnce'
  <2> SUFFICES ASSUME NEW a \in Booking
               PROVE  /\ \A s, t \in LiveIn(a)' : s = t
                      /\ \A s \in LiveIn(a)' : booking'[a].settle = StageOf(settlement'[s].status)
                      /\ LiveIn(a)' # {} => booking'[a].status = "confirmed" /\ refund'[a].status = "none"
                      /\ booking'[a].settle \in {"requested", "included", "settled"} => LiveIn(a)' # {}
    BY DEF PaidOnce
  <2>1. LiveIn(a)' = LiveIn(a) /\ UNCHANGED settlement
    BY DEF LiveIn, CommitCancel
  <2>2. CASE a = b
    BY <1>3, <2>1, <2>2 DEF CommitCancel, MoneyInv, TypeOK
  <2>3. CASE a # b
    BY <2>1, <2>3 DEF CommitCancel, MoneyInv, TypeOK, PaidOnce
  <2> QED
    BY <2>2, <2>3
<1>5. TakenFits'
  <2>1. refund[b].status = "none"
    BY <1>3 DEF MoneyInv, TypeOK, StagesFit
  <2>2. \A t \in Tab : b \notin confirm[t].backs
    BY <2>1 DEF MoneyInv, TakenFits
  <2>3. \A t \in Tab : \A a \in confirm[t].backs : a \in Booking /\ a # b /\ refund'[a] = refund[a]
    BY <2>2 DEF MoneyInv, TypeOK, CommitCancel
  <2> QED
    BY <2>3 DEF MoneyInv, TakenFits, Taken, CommitCancel
<1> QED
  BY <1>1, <1>2, <1>4, <1>5 DEF MoneyInv

LEMMA RequestFits ==
    ASSUME MoneyInv, NEW s \in Settlement, Requests(s)
    PROVE  MoneyInv'
<1> DEFINE E == Eligible
           To == Verified("manager")
<1>1. E \subseteq Booking /\ To \in Number
  BY DEF MoneyInv, TypeOK, Eligible, Verified, Number, Person
<1>2. /\ settlement' = [settlement EXCEPT ![s] = [status |-> "pending", items |-> E, dest |-> To]]
      /\ booking' = [b \in Booking |-> IF b \in E THEN [booking[b] EXCEPT !.settle = "requested"]
                                                  ELSE booking[b]]
      /\ settlement[s].status = "none"
      /\ \A b \in E : ~cancel[b].on
      /\ UNCHANGED <<phase, cancel, confirm, refund, card>>
  BY DEF Requests, CanRequest, Request
<1>3. \A b \in E : /\ booking[b].status = "confirmed" /\ booking[b].settle = "not_settled"
                   /\ phase[b] = "ended"
  BY DEF Eligible
<1>4. \A b \in E : LiveIn(b) = {}
  BY <1>1, <1>3 DEF MoneyInv, PaidOnce, LiveIn, StageOf
<1> HIDE DEF E, To
<1>5. \A b \in Booking : booking'[b] \in
         [status : {"confirmed", "cancelled"},
          settle : {"not_settled", "requested", "included", "settled", "excluded"}]
  BY <1>2 DEF MoneyInv, TypeOK
<1>6. TypeOK'
  BY <1>1, <1>2, <1>5 DEF MoneyInv, TypeOK
<1>7. StagesFit'
  BY <1>1, <1>2, <1>3 DEF MoneyInv, TypeOK, StagesFit
<1>8. PaidOnce'
  <2> SUFFICES ASSUME NEW a \in Booking
               PROVE  /\ \A t, u \in LiveIn(a)' : t = u
                      /\ \A t \in LiveIn(a)' : booking'[a].settle = StageOf(settlement'[t].status)
                      /\ LiveIn(a)' # {} => booking'[a].status = "confirmed" /\ refund'[a].status = "none"
                      /\ booking'[a].settle \in {"requested", "included", "settled"} => LiveIn(a)' # {}
    BY DEF PaidOnce
  <2>1. s \notin LiveIn(a)
    BY <1>2 DEF LiveIn
  <2>2. CASE a \in E
    <3>1. LiveIn(a)' = {s}
      BY <1>2, <1>4, <2>2 DEF LiveIn, MoneyInv, TypeOK
    <3>2. settlement'[s].status = "pending" /\ booking'[a].settle = "requested"
          /\ booking'[a].status = "confirmed" /\ refund'[a] = refund[a]
      BY <1>2, <1>3, <2>2 DEF MoneyInv, TypeOK
    <3> QED
      BY <3>1, <3>2, <1>3, <2>2 DEF StageOf, MoneyInv, StagesFit, TypeOK
  <2>3. CASE a \notin E
    <3>1. LiveIn(a)' = LiveIn(a) /\ \A t \in LiveIn(a) : settlement'[t] = settlement[t]
      BY <1>2, <2>1, <2>3 DEF LiveIn, MoneyInv, TypeOK
    <3>2. booking'[a] = booking[a] /\ refund'[a] = refund[a]
      BY <1>2, <2>3
    <3> QED
      BY <3>1, <3>2 DEF MoneyInv, PaidOnce
  <2> QED
    BY <2>2, <2>3
<1>9. TakenFits'
  BY <1>2 DEF MoneyInv, TakenFits, Taken
<1> QED
  BY <1>6, <1>7, <1>8, <1>9 DEF MoneyInv

LEMMA DecideFits ==
    ASSUME MoneyInv, NEW s \in Settlement, NEW to \in Decision, Decides(s, to)
    PROVE  MoneyInv'
<1> DEFINE I == settlement[s].items
<1>1. /\ settlement' = [settlement EXCEPT ![s].status = to]
      /\ booking' = [b \in Booking |-> IF b \in I THEN [booking[b] EXCEPT !.settle = StageOf(to)]
                                                  ELSE booking[b]]
      /\ UNCHANGED <<phase, cancel, confirm, refund, card>>
  BY DEF Decides, Decide
<1>2. /\ settlement[s].status \in {"pending", "approved"}
      /\ to \in AllowedNext(settlement[s].status)
  BY DEF Decides, CanDecide, AllowedNext
<1>3. I \subseteq Booking
  BY DEF MoneyInv, TypeOK
<1>4. \A b \in I : /\ s \in LiveIn(b) /\ booking[b].settle = StageOf(settlement[s].status)
                   /\ booking[b].status = "confirmed" /\ refund[b].status = "none"
                   /\ LiveIn(b) = {s}
  <2> SUFFICES ASSUME NEW b \in I
               PROVE  /\ s \in LiveIn(b) /\ booking[b].settle = StageOf(settlement[s].status)
                      /\ booking[b].status = "confirmed" /\ refund[b].status = "none"
                      /\ LiveIn(b) = {s}
    OBVIOUS
  <2>1. s \in LiveIn(b)
    BY <1>2 DEF LiveIn
  <2> QED
    BY <2>1, <1>3 DEF MoneyInv, PaidOnce
<1>5. StageOf(to) \in {"included", "settled", "not_settled"}
  BY DEF StageOf, Decision
<1> HIDE DEF I
<1>6. \A b \in Booking : booking'[b] \in
         [status : {"confirmed", "cancelled"},
          settle : {"not_settled", "requested", "included", "settled", "excluded"}]
  BY <1>1, <1>5 DEF MoneyInv, TypeOK
<1>7. TypeOK'
  <2>1. settlement' \in [Settlement -> [status : {"none", "pending"} \cup Decision,
                                       items : SUBSET Booking, dest : Number]]
    <3>1. settlement \in [Settlement -> [status : {"none", "pending"} \cup Decision,
                                        items : SUBSET Booking, dest : Number]]
      BY DEF MoneyInv, TypeOK
    <3>2. [settlement[s] EXCEPT !.status = to] \in [status : {"none", "pending"} \cup Decision,
                                                  items : SUBSET Booking, dest : Number]
      BY <3>1
    <3> QED
      BY <1>1, <3>1, <3>2
  <2>2. booking' \in [Booking -> [status : {"confirmed", "cancelled"},
           settle : {"not_settled", "requested", "included", "settled", "excluded"}]]
    BY <1>1, <1>6
  <2> QED
    BY <1>1, <2>1, <2>2 DEF MoneyInv, TypeOK
<1>8. \A b \in I : booking[b].settle \in {"requested", "included"}
  BY <1>2, <1>4 DEF StageOf
<1>9. StagesFit'
  <2> SUFFICES ASSUME NEW b \in Booking
      PROVE  /\ phase'[b] = "upcoming" => booking'[b].settle \in {"not_settled", "excluded"}
             /\ cancel'[b].on => booking'[b] = [status |-> "confirmed", settle |-> "not_settled"]
             /\ booking'[b].status = "cancelled" <=> booking'[b].settle = "excluded"
             /\ refund'[b].status # "none" => booking'[b].status = "cancelled"
             /\ refund'[b].status = "none" => refund'[b].dest = NoCard
    BY DEF StagesFit
  <2>1. CASE b \in I
    BY <2>1, <1>1, <1>4, <1>5, <1>8 DEF MoneyInv, TypeOK, StagesFit
  <2>2. CASE b \notin I
    BY <2>2, <1>1 DEF MoneyInv, TypeOK, StagesFit
  <2> QED
    BY <2>1, <2>2
<1>10. PaidOnce'
  <2> SUFFICES ASSUME NEW a \in Booking
               PROVE  /\ \A t, u \in LiveIn(a)' : t = u
                      /\ \A t \in LiveIn(a)' : booking'[a].settle = StageOf(settlement'[t].status)
                      /\ LiveIn(a)' # {} => booking'[a].status = "confirmed" /\ refund'[a].status = "none"
                      /\ booking'[a].settle \in {"requested", "included", "settled"} => LiveIn(a)' # {}
    BY DEF PaidOnce
  <2>1. CASE a \in I
    <3>1. LiveIn(a)' = IF to = "rejected" THEN {} ELSE {s}
      BY <1>1, <1>4, <2>1 DEF LiveIn, MoneyInv, TypeOK, Decision, I
    <3>2. settlement'[s].status = to /\ booking'[a].settle = StageOf(to)
          /\ booking'[a].status = "confirmed" /\ refund'[a].status = "none"
      BY <1>1, <1>4, <2>1 DEF MoneyInv, TypeOK
    <3> QED
      BY <3>1, <3>2 DEF StageOf
  <2>2. CASE a \notin I
    <3>1. LiveIn(a)' = LiveIn(a) /\ \A t \in LiveIn(a) : settlement'[t] = settlement[t]
      BY <1>1, <2>2 DEF LiveIn, MoneyInv, TypeOK, I
    <3>2. booking'[a] = booking[a] /\ refund'[a] = refund[a]
      BY <1>1, <2>2
    <3> QED
      BY <3>1, <3>2 DEF MoneyInv, PaidOnce
  <2> QED
    BY <2>1, <2>2
<1>11. TakenFits'
  BY <1>1 DEF MoneyInv, TakenFits, Taken
<1> QED
  BY <1>7, <1>9, <1>10, <1>11 DEF MoneyInv

LEMMA PayBackFits ==
    ASSUME MoneyInv, NEW b \in Booking, NEW to \in Decision, PaysBack(b, to)
    PROVE  MoneyInv'
<1>1. TypeOK'
  BY DEF MoneyInv, TypeOK, PaysBack, PayBack
<1>2. StagesFit'
  BY DEF MoneyInv, TypeOK, StagesFit, PaysBack, CanPayBack, PayBack, Decision
<1>3. PaidOnce'
  BY DEF MoneyInv, TypeOK, PaidOnce, LiveIn, PaysBack, CanPayBack, PayBack
<1>4. TakenFits'
  <2>1. UNCHANGED <<confirm, card>> /\ refund' = [refund EXCEPT ![b].status = to]
    BY DEF PaysBack, PayBack
  <2>2. to = "paid" => refund[b].dest # NoCard
    BY DEF PaysBack, CanPayBack
  <2>3. ASSUME NEW t \in Tab, NEW a \in confirm[t].backs
        PROVE  refund'[a].dest = NoCard /\ refund'[a].status \in {"pending", "approved", "rejected"}
    <3>1. a \in Booking /\ refund[a].dest = NoCard /\ refund[a].status \in {"pending", "approved", "rejected"}
      BY DEF MoneyInv, TypeOK, TakenFits
    <3>2. refund'[a].dest = NoCard /\ refund'[a].status = IF a = b THEN to ELSE refund[a].status
      BY <2>1, <3>1 DEF MoneyInv, TypeOK
    <3> QED
      BY <2>2, <3>1, <3>2 DEF Decision
  <2> QED
    BY <2>1, <2>3 DEF MoneyInv, TakenFits, Taken
<1> QED
  BY <1>1, <1>2, <1>3, <1>4 DEF MoneyInv

LEMMA CardFits ==
    ASSUME MoneyInv, NEW p \in Person, Looks(p) \/ Verify(p) \/ Deletes(p)
    PROVE  MoneyInv'
<1> DEFINE Rows == [id : 0 .. MaxRow, n : Number, st : {"none", "pending", "verified"}]
<1>1. \E r \in Rows : /\ card' = [card EXCEPT ![p] = r]
                      /\ r.st = "none" <=> r.n = NoCard
                      /\ Deletes(p) \/ r.st # "none"
                      /\ UNCHANGED <<phase, booking, cancel, confirm, refund, settlement>>
  <2>0. card[p] \in Rows /\ (card[p].st = "none" <=> card[p].n = NoCard)
    BY DEF MoneyInv, TypeOK
  <2>1. CASE Deletes(p)
    <3>1. NoRowOf(card[p].id) \in Rows
      BY <2>0 DEF NoRowOf, Number
    <3> QED
      BY <2>1, <3>1 DEF Deletes, Delete, NoRowOf, money
  <2>2. CASE Verify(p)
    <3> DEFINE r == [card[p] EXCEPT !.st = "verified"]
    <3>1. card' = [card EXCEPT ![p] = r]
         /\ UNCHANGED <<phase, booking, cancel, confirm, refund, settlement>> /\ card[p].st = "pending"
      BY <2>2 DEF Verify, MoneyInv, TypeOK, money
    <3>2. r \in Rows /\ r.st # "none" /\ r.n # NoCard
      BY <2>0, <3>1
    <3> HIDE DEF r
    <3> QED
      BY <3>1, <3>2
  <2>3. CASE Looks(p)
    <3>1. PICK was : \E n \in Card : CanLookup(p, was) /\ Lookup(p, n, was)
      BY <2>3 DEF Looks
    <3>2. PICK n \in Card : CanLookup(p, was) /\ Lookup(p, n, was)
      BY <3>1
    <3> DEFINE r == [id |-> IF was = "none" THEN card[p].id + 1 ELSE card[p].id,
                     n |-> n, st |-> IF was = "pending" THEN card[p].st ELSE "pending"]
    <3>3. card' = [card EXCEPT ![p] = r]
         /\ UNCHANGED <<phase, booking, cancel, confirm, refund, settlement>>
      BY <3>2 DEF Lookup, money
    <3>4. r.id \in 0 .. MaxRow
      BY <2>0, <3>2 DEF CanLookup
    <3>5. r.st \in {"pending", "verified"}
      BY <2>0, <3>2 DEF CanLookup
    <3>6. r \in Rows /\ r.st # "none" /\ r.n # NoCard
      BY <3>4, <3>5 DEF Number
    <3> HIDE DEF r
    <3> QED
      BY <3>3, <3>6
  <2> QED
    BY <2>1, <2>2, <2>3
<1>2. PICK r \in Rows : /\ card' = [card EXCEPT ![p] = r]
                        /\ r.st = "none" <=> r.n = NoCard
                        /\ Deletes(p) \/ r.st # "none"
                        /\ UNCHANGED <<phase, booking, cancel, confirm, refund, settlement>>
  BY <1>1
<1>3. TypeOK'
  <2>1. /\ card' \in [Person -> Rows]
        /\ \A q \in Person : card'[q].st = "none" <=> card'[q].n = NoCard
    BY <1>2 DEF MoneyInv, TypeOK
  <2> QED
    BY <1>2, <2>1 DEF MoneyInv, TypeOK
<1>4. \A t \in Tab : Taken(t) => card'["user"].st # "none"
  <2>1. CASE p = "user" /\ Deletes(p)
    BY <2>1 DEF Deletes, Free, CardLocked, Taken
  <2>2. CASE p = "user" /\ ~Deletes(p)
    BY <1>2, <2>2 DEF MoneyInv, TypeOK
  <2>3. CASE p # "user"
    BY <1>2, <2>3 DEF MoneyInv, TypeOK, TakenFits, Person
  <2> QED
    BY <2>1, <2>2, <2>3
<1>5. TakenFits'
  BY <1>2, <1>4 DEF MoneyInv, TakenFits, Taken
<1> QED
  BY <1>2, <1>3, <1>5 DEF MoneyInv, StagesFit, PaidOnce, LiveIn

(* A confirmation, up to its commit, writes no row. *)
LEMMA ConfirmBegins ==
    ASSUME MoneyInv, NEW t \in Tab, Begins(t) \/ TakeRefunds(t) \/ GiveUp(t)
    PROVE  MoneyInv'
<1> DEFINE Job == [st : {"none", "read", "taken"}, id : 0 .. MaxRow, n : Number, backs : SUBSET Booking]
<1>1. /\ UNCHANGED <<phase, booking, cancel, refund, settlement, card>>
      /\ \E j \in Job :
            /\ confirm' = [confirm EXCEPT ![t] = j]
            /\ j.st # "none" => j.n # NoCard
            /\ j.st = "taken" => /\ ~CardLocked /\ j.backs = Unaddressed
                                 /\ card["user"].st # "none"
            /\ j.st # "taken" => j.backs = {}
  <2>1. CASE Begins(t)
    <3> DEFINE j == [st |-> "read", id |-> card["user"].id, n |-> card["user"].n, backs |-> {}]
    <3>1. j \in Job /\ j.n # NoCard
      BY <2>1 DEF Begins, MoneyInv, TypeOK, Person
    <3> QED
      BY <2>1, <3>1 DEF Begins, BeginConfirm
  <2>2. CASE TakeRefunds(t)
    <3> DEFINE j == [confirm[t] EXCEPT !.st = "taken", !.backs = Unaddressed]
    <3>1. confirm[t] \in Job /\ confirm[t].st = "read" /\ confirm[t].n # NoCard
      BY <2>2 DEF TakeRefunds, MoneyInv, TypeOK, TakenFits
    <3>2. Unaddressed \in SUBSET Booking
      BY DEF Unaddressed
    <3>3. /\ j \in Job
          /\ j.st = "taken" /\ j.backs = Unaddressed /\ j.n # NoCard
      BY <3>1, <3>2
    <3>4. /\ confirm' = [confirm EXCEPT ![t] = j]
          /\ ~CardLocked /\ card["user"].st # "none"
          /\ UNCHANGED <<phase, booking, cancel, refund, settlement, card>>
      BY <2>2 DEF TakeRefunds, MoneyInv, TypeOK
    <3> HIDE DEF j
    <3> QED
      BY <3>3, <3>4
  <2>3. CASE GiveUp(t)
    <3>1. NoConfirm \in Job /\ NoConfirm.st = "none" /\ NoConfirm.backs = {}
      BY DEF NoConfirm, Number
    <3> QED
      BY <2>3, <3>1 DEF GiveUp
  <2> QED
    BY <2>1, <2>2, <2>3
<1>2. PICK j \in Job :
            /\ confirm' = [confirm EXCEPT ![t] = j]
            /\ j.st # "none" => j.n # NoCard
            /\ j.st = "taken" => /\ ~CardLocked /\ j.backs = Unaddressed
                                 /\ card["user"].st # "none"
            /\ j.st # "taken" => j.backs = {}
  BY <1>1
<1>3. TypeOK'
  BY <1>1, <1>2 DEF MoneyInv, TypeOK
<1>4. \A u \in Tab : confirm'[u] = IF u = t THEN j ELSE confirm[u]
  BY <1>2 DEF MoneyInv, TypeOK
<1>5. TakenFits'
  <2>1. ASSUME NEW u \in Tab, NEW b \in confirm'[u].backs
        PROVE  /\ confirm'[u].st = "taken" /\ refund'[b].dest = NoCard
               /\ refund'[b].status \in {"pending", "approved", "rejected"}
    BY <1>1, <1>2, <1>4, <2>1 DEF MoneyInv, TakenFits, Taken, Unaddressed
  <2>2. ASSUME NEW u \in Tab, NEW v \in Tab, confirm'[u].st = "taken", confirm'[v].st = "taken"
        PROVE  u = v
    BY <1>2, <1>4, <2>2 DEF MoneyInv, TakenFits, Taken, CardLocked
  <2>3. \A u \in Tab : confirm'[u].st # "none" => confirm'[u].n # NoCard
    BY <1>2, <1>4 DEF MoneyInv, TakenFits
  <2>4. \A u \in Tab : confirm'[u].st = "taken" => card'["user"].st # "none"
    BY <1>1, <1>2, <1>4 DEF MoneyInv, TakenFits, Taken
  <2> QED
    BY <2>1, <2>2, <2>3, <2>4 DEF TakenFits, Taken
<1> QED
  BY <1>1, <1>3, <1>5 DEF MoneyInv, StagesFit, PaidOnce, LiveIn

LEMMA ConfirmFits ==
    ASSUME MoneyInv, NEW t \in Tab, Confirm(t)
    PROVE  MoneyInv'
<1> DEFINE B == confirm[t].backs
           n == confirm[t].n
<1>1. /\ confirm[t].st = "taken"
      /\ card' = [card EXCEPT !["user"].st = "verified"]
      /\ refund' = [b \in Booking |-> IF b \in B THEN [refund[b] EXCEPT !.dest = n] ELSE refund[b]]
      /\ confirm' = [confirm EXCEPT ![t] = NoConfirm]
      /\ UNCHANGED <<phase, booking, cancel, settlement>>
  BY DEF Confirm
<1>2. n \in Number /\ B \subseteq Booking
  BY DEF MoneyInv, TypeOK
<1> HIDE DEF B, n
<1>3. \A b \in Booking : refund[b] \in [status : {"none", "pending"} \cup Decision, dest : Number]
  BY DEF MoneyInv, TypeOK
<1>4. \A b \in Booking : /\ refund'[b].status = refund[b].status
                         /\ refund'[b] \in [status : {"none", "pending"} \cup Decision, dest : Number]
                         /\ b \notin B => refund'[b] = refund[b]
  BY <1>1, <1>2, <1>3
<1>5. \A b \in B : refund[b].status # "none"
  BY DEF B, MoneyInv, TakenFits
<1>6. NoConfirm \in [st : {"none", "read", "taken"}, id : 0 .. MaxRow, n : Number, backs : SUBSET Booking]
  BY DEF NoConfirm, Number
<1>7. TypeOK'
  <2>1. refund' \in [Booking -> [status : {"none", "pending"} \cup Decision, dest : Number]]
    BY <1>1, <1>2, <1>3
  <2>2. card["user"].st # "none"
    BY <1>1 DEF MoneyInv, TakenFits, Taken
  <2>3. /\ card' \in [Person -> [id : 0 .. MaxRow, n : Number, st : {"none", "pending", "verified"}]]
        /\ \A p \in Person : card'[p].st = "none" <=> card'[p].n = NoCard
    BY <1>1, <2>2 DEF MoneyInv, TypeOK, Person
  <2> QED
    BY <1>1, <1>6, <2>1, <2>3 DEF MoneyInv, TypeOK
<1>8. StagesFit'
  BY <1>1, <1>4, <1>5 DEF MoneyInv, StagesFit
<1>9. PaidOnce'
  BY <1>1, <1>4 DEF MoneyInv, PaidOnce, LiveIn
<1>10. \A u \in Tab : /\ confirm'[u] = IF u = t THEN NoConfirm ELSE confirm[u]
                      /\ u # t => confirm[u].st # "taken" /\ confirm[u].backs = {}
  BY <1>1 DEF MoneyInv, TypeOK, TakenFits, Taken
<1>11. TakenFits'
  BY <1>10 DEF MoneyInv, TakenFits, Taken, NoConfirm
<1> QED
  BY <1>7, <1>8, <1>9, <1>11 DEF MoneyInv

LEMMA MoneyFits == MoneyInv /\ MoneyStep => MoneyInv'
<1>1. ASSUME MoneyInv, UNCHANGED server PROVE MoneyInv'
  BY <1>1 DEF MoneyInv, TypeOK, StagesFit, PaidOnce, LiveIn, TakenFits, Taken, server, money
<1> QED
  BY <1>1, PassFits, BeginCancelFits, CommitCancelFits, RequestFits, DecideFits, PayBackFits,
     CardFits, ConfirmBegins, ConfirmFits DEF MoneyStep

-----------------------------------------------------------------------------
(* What stays *)

(* A booking in a settlement that can still be decided is not settled. *)
LEMMA DecideTakes ==
    ASSUME MoneyInv, NEW s \in Settlement, NEW to \in Decision, Decides(s, to),
           NEW b \in settlement[s].items
    PROVE  b \in Booking /\ booking[b].settle \in {"requested", "included"}
<1>1. settlement[s].status \in {"pending", "approved"}
  BY DEF Decides, CanDecide, AllowedNext
<1>2. b \in Booking
  BY DEF MoneyInv, TypeOK
<1>3. s \in LiveIn(b)
  BY <1>1 DEF LiveIn
<1> QED
  BY <1>1, <1>2, <1>3 DEF MoneyInv, PaidOnce, StageOf

LEMMA BookingStays ==
    ASSUME MoneyInv, MoneyStep, NEW b \in Booking, booking[b].settle \in {"settled", "excluded"}
    PROVE  booking'[b] = booking[b]
<1>1. ASSUME NEW a \in Booking, CommitCancel(a) PROVE booking'[b] = booking[b]
  <2>1. a # b
    BY <1>1 DEF CommitCancel, MoneyInv, StagesFit
  <2> QED
    BY <1>1, <2>1 DEF CommitCancel, MoneyInv, TypeOK
<1>2. ASSUME NEW s \in Settlement, Requests(s) PROVE booking'[b] = booking[b]
  <2>1. b \notin Eligible
    BY DEF Eligible
  <2> QED
    BY <1>2, <2>1 DEF Requests, Request
<1>3. ASSUME NEW s \in Settlement, NEW to \in Decision, Decides(s, to)
      PROVE  booking'[b] = booking[b]
  <2>1. b \notin settlement[s].items
    BY <1>3, DecideTakes
  <2> QED
    BY <1>3, <2>1 DEF Decides, Decide
<1> QED
  BY <1>1, <1>2, <1>3 DEF MoneyStep, server, money, Pass, BeginCancel, PaysBack, PayBack, Looks,
     Lookup, Verify, Deletes, Delete, Begins, BeginConfirm, TakeRefunds, Confirm, GiveUp

LEMMA SettlementStays ==
    ASSUME MoneyInv, MoneyStep, NEW s \in Settlement, settlement[s].status # "none"
    PROVE  /\ settlement'[s].status # "none"
           /\ settlement'[s].items = settlement[s].items
           /\ settlement'[s].dest = settlement[s].dest
           /\ settlement[s].status \in {"approved", "paid"} =>
                 settlement'[s].status \in {"approved", "paid"}
           /\ settlement[s].status \in {"rejected", "paid"} => settlement'[s] = settlement[s]
<1>1. ASSUME NEW t \in Settlement, Requests(t) PROVE settlement'[s] = settlement[s]
  BY <1>1 DEF Requests, Request, MoneyInv, TypeOK
<1>2. ASSUME NEW t \in Settlement, NEW to \in Decision, Decides(t, to)
      PROVE  \/ settlement'[s] = settlement[s]
             \/ /\ settlement'[s] = [settlement[s] EXCEPT !.status = to]
                /\ to \in AllowedNext(settlement[s].status)
  BY <1>2 DEF Decides, Decide, CanDecide, MoneyInv, TypeOK
<1>3. \/ settlement'[s] = settlement[s]
      \/ \E to \in Decision : /\ settlement'[s] = [settlement[s] EXCEPT !.status = to]
                              /\ to \in AllowedNext(settlement[s].status)
  BY <1>1, <1>2 DEF MoneyStep, server, money, Pass, BeginCancel, CommitCancel, PaysBack, PayBack,
     Looks, Lookup, Verify, Deletes, Delete, Begins, BeginConfirm, TakeRefunds, Confirm, GiveUp
<1>4. settlement[s] \in [status : {"none", "pending"} \cup Decision, items : SUBSET Booking, dest : Number]
  BY DEF MoneyInv, TypeOK
<1> QED
  BY <1>3, <1>4 DEF AllowedNext, Decision

(* A refund that is still given a card, decided or not *)
Addressed(b) ==
    \E t \in Tab : /\ Taken(t) /\ b \in confirm[t].backs
                  /\ refund'[b] = [refund[b] EXCEPT !.dest = confirm[t].n]

LEMMA RefundStays ==
    ASSUME MoneyInv, MoneyStep, NEW b \in Booking, refund[b].status # "none"
    PROVE  /\ refund'[b].status # "none"
           /\ refund[b].dest # NoCard => refund'[b].dest = refund[b].dest
           /\ refund[b].status \in {"approved", "paid"} =>
                 refund'[b].status \in {"approved", "paid"}
           /\ refund[b].status = "paid" => refund'[b] = refund[b]
           /\ refund[b].status = "rejected" => refund'[b] = refund[b] \/ Addressed(b)
<1>1. refund[b] \in [status : {"none", "pending"} \cup Decision, dest : Number]
  BY DEF MoneyInv, TypeOK
<1>2. ASSUME NEW a \in Booking, CommitCancel(a) PROVE refund'[b] = refund[b]
  <2>1. a # b
    BY <1>2 DEF CommitCancel, MoneyInv, StagesFit
  <2> QED
    BY <1>2, <2>1 DEF CommitCancel, MoneyInv, TypeOK
<1>3. ASSUME NEW a \in Booking, NEW to \in Decision, PaysBack(a, to)
      PROVE  \/ refund'[b] = refund[b]
             \/ /\ refund'[b] = [refund[b] EXCEPT !.status = to]
                /\ to = refund[b].status \/ to \in AllowedNext(refund[b].status)
  BY <1>3 DEF PaysBack, CanPayBack, PayBack, MoneyInv, TypeOK
<1>4. ASSUME NEW t \in Tab, Confirm(t)
      PROVE  refund'[b] = refund[b] \/ Addressed(b)
  BY <1>4 DEF Confirm, Addressed, Taken
<1>5. \/ refund'[b] = refund[b]
      \/ \E to \in Decision : /\ refund'[b] = [refund[b] EXCEPT !.status = to]
                              /\ to = refund[b].status \/ to \in AllowedNext(refund[b].status)
      \/ Addressed(b)
  BY <1>2, <1>3, <1>4 DEF MoneyStep, server, money, Pass, BeginCancel, Requests, Request, Decides,
     Decide, Looks, Lookup, Verify, Deletes, Delete, Begins, BeginConfirm, TakeRefunds, GiveUp
<1>6. ASSUME NEW to \in Decision, refund'[b] = [refund[b] EXCEPT !.status = to],
             to = refund[b].status \/ to \in AllowedNext(refund[b].status)
      PROVE  /\ refund'[b].status # "none"
             /\ refund'[b].dest = refund[b].dest
             /\ refund[b].status \in {"approved", "paid"} =>
                   refund'[b].status \in {"approved", "paid"}
             /\ refund[b].status \in {"rejected", "paid"} => to = refund[b].status
  BY <1>1, <1>6 DEF AllowedNext, Decision
<1>7. ASSUME NEW to, refund'[b] = [refund[b] EXCEPT !.status = to], to = refund[b].status
      PROVE  refund'[b] = refund[b]
  BY <1>1, <1>7
<1>8. ASSUME Addressed(b)
      PROVE  /\ refund[b].dest = NoCard /\ refund[b].status # "paid"
             /\ refund'[b].status = refund[b].status
  BY <1>1, <1>8 DEF Addressed, MoneyInv, TakenFits
<1> QED
  BY <1>1, <1>5, <1>6, <1>7, <1>8 DEF Decision

(* DecidedStays, for one step *)
LEMMA StepStays ==
    ASSUME MoneyInv, MoneyStep
    PROVE  /\ \A b \in Booking :
                /\ booking[b].settle \in {"settled", "excluded"} => booking'[b] = booking[b]
                /\ refund[b].status = "paid" => refund'[b] = refund[b]
                /\ refund[b].status = "rejected" =>
                      \/ refund'[b] = refund[b]
                      \/ \E t \in Tab :
                            /\ confirm[t].st = "taken" /\ b \in confirm[t].backs
                            /\ refund'[b] = [refund[b] EXCEPT !.dest = confirm[t].n]
                /\ refund[b].dest # NoCard => refund'[b].dest = refund[b].dest
           /\ \A s \in Settlement :
                /\ settlement[s].status \in {"rejected", "paid"} =>
                      settlement'[s] = settlement[s]
                /\ settlement[s].status # "none" =>
                      /\ settlement'[s].items = settlement[s].items
                      /\ settlement'[s].dest = settlement[s].dest
BY BookingStays, SettlementStays, RefundStays DEF MoneyInv, StagesFit, Addressed, Taken

LEMMA SettleTrueStays ==
    ASSUME MoneyInv, MoneyStep, NEW row, SettleTrue(row)
    PROVE  SettleTrue(row)'
BY SettlementStays DEF SettleTrue

LEMMA BackTrueStays ==
    ASSUME MoneyInv, MoneyStep, NEW row, BackTrue(row)
    PROVE  BackTrue(row)'
BY RefundStays DEF BackTrue

LEMMA CallTrueStays ==
    ASSUME MoneyInv, MoneyStep, NEW c, CallTrue(c)
    PROVE  CallTrue(c)'
BY SettleTrueStays, BackTrueStays DEF CallTrue, AnsTrue

(* The calls, when the step makes at most the call d *)
LEMMA CallsStay ==
    ASSUME MoneyInv, MoneyStep, CallsTrue, NEW d, CallTrue(d)', calls' \subseteq calls \cup {d}
    PROVE  CallsTrue'
BY CallTrueStays DEF CallsTrue

LEMMA CallsEnd ==
    ASSUME MoneyInv, MoneyStep, CallsTrue, calls' \subseteq calls
    PROVE  CallsTrue'
BY CallTrueStays DEF CallsTrue

LEMMA PaysStay ==
    ASSUME MoneyInv, MoneyStep, PaysTrue, UNCHANGED pays
    PROVE  PaysTrue'
BY SettleTrueStays DEF PaysTrue

LEMMA RefsStay ==
    ASSUME MoneyInv, MoneyStep, RefsTrue, UNCHANGED refs
    PROVE  RefsTrue'
BY BackTrueStays DEF RefsTrue

-----------------------------------------------------------------------------
(* The API's answers *)

LEMMA NewCall ==
    ASSUME NEW kind, NEW arg, ArgTrue(kind, arg)
    PROVE  CallTrue(Call(kind, arg))'
BY DEF CallTrue, Call, IsCall

LEMMA MovedCall ==
    ASSUME NEW c, CallTrue(c), NEW st, NEW ans, st = "ok" => AnsTrue(c.kind, ans)'
    PROVE  CallTrue([c EXCEPT !.st = st, !.ans = ans])'
<1>1. PICK kind, arg, st0, ans0 : c = [kind |-> kind, arg |-> arg, st |-> st0, ans |-> ans0]
  BY DEF CallTrue, IsCall
<1> DEFINE d == [c EXCEPT !.st = st, !.ans = ans]
           Fields == [kind : {kind}, arg : {arg}, st : {st0, st}, ans : {ans0, ans}]
<1>2. d \in Fields
  BY <1>1
<1>3. d.kind = c.kind /\ d.arg = c.arg /\ d.st = st /\ d.ans = ans
  BY <1>1
<1>4. IsCall(d)
  <2> HIDE DEF d
  <2>1. d = [kind |-> d.kind, arg |-> d.arg, st |-> d.st, ans |-> d.ans]
    BY <1>2
  <2> QED
    BY <2>1 DEF IsCall
<1> HIDE DEF d
<1>5. CallTrue(d)'
  BY <1>3, <1>4 DEF CallTrue
<1> QED
  BY <1>5 DEF d

(* A row of a list is true when it is served. *)
LEMMA RowsServed ==
    ASSUME MoneyInv, UNCHANGED server, NEW ans
    PROVE  /\ ans = {Row(s) : s \in Made} => AnsTrue("settlements", ans)'
           /\ ans = {RefundRow(b) : b \in {a \in Booking : refund[a].status # "none"}} =>
                 AnsTrue("refunds", ans)'
           /\ \A s \in Settlement : ans = Row(s) => AnsTrue("detail", ans)'
<1>1. UNCHANGED <<settlement, refund>>
  BY DEF server, money
<1>2. \A s \in Settlement : Row(s) \in SettleRow
  BY DEF Row, SettleRow, Status, MoneyInv, TypeOK
<1>3. \A s \in Made : SettleTrue(Row(s)) /\ s \in Settlement
  BY DEF SettleTrue, Row, Made
<1>4. \A b \in Booking : RefundRow(b) \in BackRow
  BY DEF RefundRow, BackRow, Status, MoneyInv, TypeOK
<1>5. \A b \in Booking : refund[b].status # "none" => BackTrue(RefundRow(b))
  BY DEF BackTrue, RefundRow
<1>6. ASSUME NEW row, SettleTrue(row) PROVE SettleTrue(row)'
  BY <1>1, <1>6 DEF SettleTrue
<1>7. ASSUME NEW row, BackTrue(row) PROVE BackTrue(row)'
  BY <1>1, <1>7 DEF BackTrue
<1>8. ans = {Row(s) : s \in Made} => AnsTrue("settlements", ans)'
  BY <1>2, <1>3, <1>6 DEF AnsTrue
<1>9. ans = {RefundRow(b) : b \in {a \in Booking : refund[a].status # "none"}} =>
         AnsTrue("refunds", ans)'
  BY <1>4, <1>5, <1>7 DEF AnsTrue
<1> QED
  BY <1>2, <1>8, <1>9 DEF AnsTrue

LEMMA FailTrue ==
    ASSUME MoneyInv, MoneyStep, CallsTrue, NEW c \in calls, Fail(c)
    PROVE  CallsTrue'
BY MovedCall, CallsStay DEF Fail, CallsTrue

LEMMA AnswerTrue ==
    ASSUME MoneyInv, MoneyStep, CallsTrue, NEW c \in calls, NEW ans, Answer(c, ans),
           AnsTrue(c.kind, ans)'
    PROVE  CallsTrue'
BY MovedCall, CallsStay DEF Answer, CallsTrue

LEMMA BegunTrue ==
    ASSUME MoneyInv, MoneyStep, CallsTrue, NEW c \in calls, NEW ans, Begun(c, ans)
    PROVE  CallsTrue'
BY MovedCall, CallsStay DEF Begun, CallsTrue

LEMMA ServeTrue == MoneyInv /\ MoneyStep /\ CallsTrue /\ Serve => CallsTrue'
<1> SUFFICES ASSUME MoneyInv, MoneyStep, CallsTrue, Serve PROVE CallsTrue'
  OBVIOUS
<1>1. CASE \E c \in calls : Lose(c)
  BY <1>1, FailTrue DEF Lose
<1>2. ASSUME NEW c \in calls, ServeRead(c)
      PROVE  CallsTrue'
  <2>1. CASE c.kind = "settlements" /\ Answer(c, {Row(s) : s \in Made})
    BY <1>2, <2>1, RowsServed, AnswerTrue DEF ServeRead
  <2>2. CASE c.kind = "refunds"
             /\ Answer(c, {RefundRow(b) : b \in {a \in Booking : refund[a].status # "none"}})
    BY <1>2, <2>2, RowsServed, AnswerTrue DEF ServeRead
  <2>3. CASE c.kind = "detail" /\ Answer(c, Row(c.arg))
    <3>1. c.arg \in Settlement
      BY <2>3 DEF CallsTrue, CallTrue, ArgTrue
    <3>2. AnsTrue("detail", Row(c.arg))'
      BY <1>2, <3>1 DEF ServeRead, AnsTrue, Row, SettleRow, Status, MoneyInv, TypeOK, server, money
    <3>3. AnsTrue(c.kind, Row(c.arg))'
      BY <2>3, <3>2
    <3>4. UNCHANGED settlement
      BY <1>2 DEF ServeRead, server, money
    <3>5. PICK ans : ans = Row(c.arg) /\ ans = Row(c.arg)'
      BY <3>4 DEF Row
    <3> QED
      BY <2>3, <3>3, <3>5, AnswerTrue
  <2>4. ASSUME NEW ans, c.kind \in {"items", "finance", "card"}, Answer(c, ans)
        PROVE  CallsTrue'
    BY <2>4, AnswerTrue DEF AnsTrue
  <2> QED
    BY <1>2, <2>1, <2>2, <2>3, <2>4 DEF ServeRead
<1>3. ASSUME NEW c \in calls, ServeReveal(c)
      PROVE  CallsTrue'
  <2> DEFINE n == CASE c.kind = "reveal"     -> settlement[c.arg].dest
                    [] c.kind = "revealBack" -> refund[c.arg].dest
                    [] c.kind = "full"       -> Verified("user")
  <2>1. c.kind \in {"reveal", "revealBack", "full"} /\ (Fail(c) \/ Answer(c, n))
    BY <1>3 DEF ServeReveal
  <2>2. c.kind \in {"reveal", "revealBack"} => n \in Number
    BY DEF CallsTrue, CallTrue, ArgTrue, MoneyInv, TypeOK
  <2>3. PICK ans : ans = n
    OBVIOUS
  <2> HIDE DEF n
  <2>4. AnsTrue(c.kind, ans)'
    BY <2>1, <2>2, <2>3 DEF AnsTrue
  <2> QED
    BY <2>1, <2>3, <2>4, FailTrue, AnswerTrue
<1>4. ASSUME NEW c \in calls,
             \/ ServeRequest(c) \/ ServeDecide(c) \/ ServePayBack(c)
             \/ ServeLookup(c) \/ EndLookup(c) \/ ServeConfirm(c) \/ ServeDelete(c)
      PROVE  CallsTrue'
  <2>1. /\ c.kind \in {"request", "decide", "payback", "lookup", "confirm", "delete"}
        /\ Fail(c) \/ \E ans : Answer(c, ans) \/ Begun(c, ans)
    BY <1>4 DEF ServeRequest, ServeDecide, ServePayBack, ServeLookup, EndLookup, ServeConfirm,
       ServeDelete
  <2> QED
    BY <2>1, FailTrue, AnswerTrue, BegunTrue DEF AnsTrue
<1>5. ASSUME NEW c \in calls, EndConfirm(c)
      PROVE  CallsTrue'
  <2>1. CASE Answer(c, card["user"].n)
    BY <1>5, <2>1, AnswerTrue DEF EndConfirm, AnsTrue
  <2>2. CASE calls' = (calls \ {c}) \cup {[c EXCEPT !.st = "failed", !.ans = {}]}
    BY <2>2, MovedCall, CallsStay DEF CallsTrue
  <2> QED
    BY <1>5, <2>1, <2>2 DEF EndConfirm
<1> QED
  BY <1>1, <1>2, <1>3, <1>4, <1>5 DEF Serve

-----------------------------------------------------------------------------
(* The pages *)

LEMMA FollowTrue ==
    ASSUME MoneyInv, MoneyStep, CallsTrue, NEW c, NEW kind, NEW arg, ArgTrue(kind, arg),
           Follow(c, kind, arg)
    PROVE  CallsTrue'
BY NewCall, CallsStay DEF Follow

LEMMA SendTrue ==
    ASSUME MoneyInv, MoneyStep, CallsTrue, NEW kind, NEW arg, ArgTrue(kind, arg), Send(kind, arg)
    PROVE  CallsTrue'
BY NewCall, CallsStay DEF Send

LEMMA DeliverTrue ==
    ASSUME MoneyInv, MoneyStep, CallsTrue, NEW c, Deliver(c)
    PROVE  CallsTrue'
BY CallsEnd DEF Deliver

LEMMA ArriveCalls ==
    ASSUME MoneyInv, CallsTrue, Arrive
    PROVE  CallsTrue'
<1>1. MoneyStep
  BY ArriveRests DEF MoneyStep
<1>2. ASSUME NEW c \in calls, DetailArrives(c) PROVE CallsTrue'
  <2>1. CASE Follow(c, "reveal", c.arg)
    <3>1. ArgTrue("reveal", c.arg)
      BY <1>2 DEF DetailArrives, CallsTrue, CallTrue, ArgTrue
    <3> QED
      BY <1>1, <2>1, <3>1, FollowTrue
  <2>2. CASE Deliver(c)
    BY <1>1, <2>2, DeliverTrue
  <2> QED
    BY <1>2, <2>1, <2>2 DEF DetailArrives
<1>3. ASSUME NEW c \in calls, DecideArrives(c) \/ ActionArrives(c) \/ RequestArrives(c)
      PROVE  CallsTrue'
  <2>1. \/ Follow(c, "settlements", TRUE) \/ Follow(c, "refunds", TRUE)
        \/ Follow(c, "finance", TRUE) \/ Deliver(c)
    BY <1>3 DEF DecideArrives, ActionArrives, RequestArrives
  <2>2. ArgTrue("settlements", TRUE) /\ ArgTrue("refunds", TRUE) /\ ArgTrue("finance", TRUE)
    BY DEF ArgTrue
  <2> QED
    BY <1>1, <2>1, <2>2, FollowTrue, DeliverTrue
<1>4. ASSUME NEW c \in calls, ~DetailArrives(c), ~DecideArrives(c), ~ActionArrives(c), ~RequestArrives(c),
             \/ SettlementsArrive(c) \/ RevealArrives(c) \/ RefundsArrive(c)
             \/ DestinationArrives(c) \/ FinanceArrives(c) \/ ItemsArrive(c) \/ CardArrives(c)
             \/ LookupArrives(c) \/ ConfirmArrives(c) \/ FullArrives(c) \/ DeleteArrives(c)
      PROVE  CallsTrue'
  <2>1. Deliver(c)
    BY <1>4 DEF SettlementsArrive, RevealArrives, RefundsArrive, DestinationArrives,
       FinanceArrives, ItemsArrive, CardArrives, LookupArrives, ConfirmArrives, FullArrives,
       DeleteArrives
  <2> QED
    BY <1>1, <2>1, DeliverTrue
<1> QED
  BY <1>2, <1>3, <1>4 DEF Arrive

LEMMA ClickCalls ==
    ASSUME MoneyInv, CallsTrue, PaysTrue, RefsTrue, Click
    PROVE  CallsTrue'
<1>1. MoneyStep
  BY ClickRests DEF MoneyStep
<1>2. ASSUME UNCHANGED calls PROVE CallsTrue'
  BY <1>1, <1>2, CallsEnd
<1>3. ASSUME NEW kind, NEW arg, ArgTrue(kind, arg), Send(kind, arg) PROVE CallsTrue'
  BY <1>1, <1>3, SendTrue
<1>4. ASSUME NEW row \in pays.rows, FetchDetail(row) \/ OpenPayment(row) PROVE CallsTrue'
  <2>1. ArgTrue("detail", row.s)
    BY DEF ArgTrue, PaysTrue, SettleTrue
  <2> QED
    BY <1>2, <1>3, <1>4, <2>1 DEF FetchDetail, OpenPayment
<1>5. ASSUME NEW row \in pays.rows, NEW to \in {"approved", "rejected"}, UpdateStatus(row, to)
      PROVE  CallsTrue'
  <2>1. ArgTrue("decide", [s |-> row.s, to |-> to, dialog |-> FALSE])
    BY DEF ArgTrue, PaysTrue, SettleTrue, Decision
  <2> QED
    BY <1>3, <1>5, <2>1 DEF UpdateStatus
<1>6. ASSUME SubmitPayment PROVE CallsTrue'
  <2>1. PICK arg : arg = [s |-> pays.pay.s, to |-> "paid", dialog |-> TRUE]
    OBVIOUS
  <2>2. ArgTrue("decide", arg)
    BY <1>6, <2>1 DEF SubmitPayment, ArgTrue, PaysTrue, SettleTrue, Decision
  <2>3. Send("decide", arg)
    BY <1>6, <2>1 DEF SubmitPayment
  <2> QED
    BY <1>3, <2>2, <2>3
<1>7. ASSUME RevealDestination PROVE CallsTrue'
  <2>1. PICK arg : arg = refs.act.b
    OBVIOUS
  <2>2. ArgTrue("revealBack", arg)
    BY <1>7, <2>1 DEF RevealDestination, ArgTrue, RefsTrue, BackTrue, NoAct
  <2>3. Send("revealBack", arg)
    BY <1>7, <2>1 DEF RevealDestination
  <2> QED
    BY <1>3, <2>2, <2>3
<1>8. ASSUME SubmitAction PROVE CallsTrue'
  <2>1. PICK arg : arg = [b |-> refs.act.b, to |-> refs.act.to]
    OBVIOUS
  <2>2. refs.act.to \in Decision
    BY <1>8 DEF SubmitAction, RefsTrue, AllowedNext, Decision
  <2>3. ArgTrue("payback", arg)
    BY <1>8, <2>1, <2>2 DEF SubmitAction, ArgTrue, RefsTrue, BackTrue
  <2>4. Send("payback", arg)
    BY <1>8, <2>1 DEF SubmitAction
  <2> QED
    BY <1>3, <2>3, <2>4
<1>9. ASSUME NEW n \in Card, LookupCard(n) PROVE CallsTrue'
  <2>1. ArgTrue("lookup", n)
    BY DEF ArgTrue
  <2> QED
    BY <1>3, <1>9, <2>1 DEF LookupCard
<1>10. ASSUME NEW arg, NEW kind \in {"request", "items", "confirm", "full", "delete"}, Send(kind, arg)
       PROVE  CallsTrue'
  BY <1>3, <1>10 DEF ArgTrue
<1>11. ASSUME RequestSettlement \/ ConfirmCard \/ ToggleFull \/ DeleteCard
       PROVE  CallsTrue'
  BY <1>2, <1>10, <1>11 DEF RequestSettlement, ConfirmCard, ToggleFull, DeleteCard
<1>12. ASSUME NEW s \in fin.made, OpenItems(s) PROVE CallsTrue'
  BY <1>10, <1>12 DEF OpenItems
<1>13. ASSUME \/ CloseDetail \/ ClosePayment \/ CloseAction \/ CloseItems \/ EditCard \/ CancelEdit
              \/ \E row \in refs.rows, to \in Decision : OpenAction(row, to)
       PROVE  CallsTrue'
  BY <1>2, <1>13 DEF CloseDetail, ClosePayment, CloseAction, CloseItems, EditCard, CancelEdit, OpenAction
<1> QED
  BY <1>4, <1>5, <1>6, <1>7, <1>8, <1>9, <1>11, <1>12, <1>13 DEF Click

(* The payment dialog opens on a row of the list, and closes. *)
LEMMA PaysMove ==
    ASSUME MoneyInv, CallsTrue, PaysTrue, Arrive \/ Click
    PROVE  PaysTrue'
<1>1. UNCHANGED server
  BY ArriveRests, ClickRests
<1>2. UNCHANGED settlement
  BY <1>1 DEF server, money
<1>3. ASSUME UNCHANGED pays PROVE PaysTrue'
  BY <1>1, <1>3, PaysStay DEF MoneyStep
<1>4. NoSettlement \in SettleRow
  BY DEF NoSettlement, SettleRow, Status, Number
<1>5. pays \in PaysType
  BY DEF PaysTrue
<1>6. ASSUME pays' \in PaysType, pays'.rows = pays.rows, pays'.pay \in {pays.pay, NoSettlement}
      PROVE  PaysTrue'
  BY <1>2, <1>6 DEF PaysTrue, SettleTrue
<1>7. ASSUME NEW c \in calls, c.st # "sent", SettlementsArrive(c) PROVE PaysTrue'
  <2>1. CASE c.st = "ok"
    <3>1. AnsTrue("settlements", c.ans)
      BY <1>7, <2>1 DEF SettlementsArrive, CallsTrue, CallTrue
    <3>2. /\ pays'.rows = c.ans /\ pays'.pay = pays.pay
          /\ pays' \in PaysType
      BY <1>5, <1>7, <2>1, <3>1 DEF SettlementsArrive, PaysType, AnsTrue
    <3> QED
      BY <1>2, <3>1, <3>2 DEF PaysTrue, SettleTrue, AnsTrue
  <2>2. CASE c.st # "ok"
    BY <1>5, <1>6, <1>7, <2>2 DEF SettlementsArrive, PaysType
  <2> QED
    BY <2>1, <2>2
<1>8. ASSUME NEW c \in calls, DetailArrives(c) PROVE PaysTrue'
  <2>1. c.st = "ok" => c.ans \in SettleRow
    BY <1>8 DEF DetailArrives, CallsTrue, CallTrue, AnsTrue
  <2>2. \/ UNCHANGED pays
        \/ c.ans \in SettleRow /\ pays' = [pays EXCEPT !.detail = c.ans]
    BY <1>8, <2>1 DEF DetailArrives
  <2> QED
    BY <1>3, <1>5, <1>6, <2>2 DEF PaysType
<1>9. ASSUME NEW c \in calls, RevealArrives(c) PROVE PaysTrue'
  <2>1. c.st = "ok" => c.ans \in Number
    BY <1>9 DEF RevealArrives, CallsTrue, CallTrue, AnsTrue
  <2>2. PICK n \in Number : pays' = [pays EXCEPT !.shown = n]
    BY <1>5, <1>9, <2>1 DEF RevealArrives, PaysType
  <2> QED
    BY <1>5, <1>6, <2>2 DEF PaysType
<1>10. ASSUME NEW c \in calls, DecideArrives(c) PROVE PaysTrue'
  <2>1. \E y, z \in BOOLEAN, p \in {pays.pay, NoSettlement} :
           pays' = [pays EXCEPT !.busy = y, !.pay = p, !.loading = z]
    BY <1>5, <1>10 DEF DecideArrives, PaysType
  <2> QED
    BY <1>4, <1>5, <1>6, <2>1 DEF PaysType
<1>11. ASSUME Arrive PROVE PaysTrue'
  BY <1>3, <1>7, <1>8, <1>9, <1>10, <1>11 DEF Arrive, RefundsArrive, DestinationArrives,
     ActionArrives, FinanceArrives, RequestArrives, ItemsArrive, CardArrives, LookupArrives,
     ConfirmArrives, FullArrives, DeleteArrives
<1>12. ASSUME NEW row \in pays.rows, FetchDetail(row) PROVE PaysTrue'
  <2>1. pays' \in PaysType /\ pays'.rows = pays.rows /\ pays'.pay = pays.pay
    BY <1>5, <1>12 DEF FetchDetail, PaysType, Number
  <2> QED
    BY <1>6, <2>1
<1>13. ASSUME NEW row \in pays.rows, OpenPayment(row) PROVE PaysTrue'
  <2>1. row \in SettleRow /\ SettleTrue(row) /\ row.st = "approved"
    BY <1>5, <1>13 DEF OpenPayment, PaysTrue, PaysType
  <2>2. pays' \in PaysType /\ pays'.rows = pays.rows /\ pays'.pay = row
    BY <1>5, <1>13, <2>1 DEF OpenPayment, PaysType
  <2> QED
    BY <1>2, <2>1, <2>2 DEF PaysTrue, SettleTrue
<1>14. ASSUME CloseDetail \/ ClosePayment \/ SubmitPayment PROVE PaysTrue'
  <2>1. pays' \in PaysType /\ pays'.rows = pays.rows /\ pays'.pay \in {pays.pay, NoSettlement}
    BY <1>4, <1>5, <1>14 DEF CloseDetail, ClosePayment, SubmitPayment, PaysType
  <2> QED
    BY <1>6, <2>1
<1>15. ASSUME Click PROVE PaysTrue'
  <2>1. \/ UNCHANGED pays
        \/ \E row \in pays.rows : FetchDetail(row) \/ OpenPayment(row)
        \/ CloseDetail \/ ClosePayment \/ SubmitPayment
    <3>1. ASSUME NEW row \in pays.rows, NEW to, UpdateStatus(row, to) PROVE UNCHANGED pays
      BY <3>1 DEF UpdateStatus, pages
    <3>2. ASSUME NEW row \in refs.rows, NEW to, OpenAction(row, to) PROVE UNCHANGED pays
      BY <3>2 DEF OpenAction
    <3>3. ASSUME \/ CloseAction \/ RevealDestination \/ SubmitAction \/ RequestSettlement
                 \/ CloseItems \/ EditCard \/ CancelEdit \/ ConfirmCard \/ ToggleFull \/ DeleteCard
          PROVE  UNCHANGED pays
      BY <3>3 DEF CloseAction, RevealDestination, SubmitAction, RequestSettlement, CloseItems,
         EditCard, CancelEdit, ConfirmCard, ToggleFull, DeleteCard
    <3>4. ASSUME NEW s, OpenItems(s) \/ LookupCard(s) PROVE UNCHANGED pays
      BY <3>4 DEF OpenItems, LookupCard
    <3> QED
      BY <1>15, <3>1, <3>2, <3>3, <3>4 DEF Click
  <2> QED
    BY <1>3, <1>12, <1>13, <1>14, <2>1
<1> QED
  BY <1>11, <1>15

(* The dialog of a refund opens on a row of the list, and closes. *)
LEMMA RefsMove ==
    ASSUME MoneyInv, CallsTrue, RefsTrue, Arrive \/ Click
    PROVE  RefsTrue'
<1>1. UNCHANGED server
  BY ArriveRests, ClickRests
<1>2. UNCHANGED refund
  BY <1>1 DEF server, money
<1>3. ASSUME UNCHANGED refs PROVE RefsTrue'
  BY <1>1, <1>3, RefsStay DEF MoneyStep
<1>4. NoAct \in [b : Booking \cup {NoCard}, st : Status, dest : Number, to : Decision \cup {"none"}]
  BY DEF NoAct, Status, Number
<1>5. refs \in RefsType
  BY DEF RefsTrue
<1>6. ASSUME refs' \in RefsType, refs'.rows = refs.rows, refs'.act \in {refs.act, NoAct}
      PROVE  RefsTrue'
  BY <1>2, <1>6 DEF RefsTrue, BackTrue
<1>7. ASSUME NEW c \in calls, RefundsArrive(c) PROVE RefsTrue'
  <2> DEFINE Busy == refs.busy /\ ~c.arg
  <2>0. Busy \in BOOLEAN
    BY <1>5 DEF RefsType
  <2>1. CASE c.st = "ok"
    <3>1. AnsTrue("refunds", c.ans)
      BY <1>7, <2>1 DEF RefundsArrive, CallsTrue, CallTrue
    <3>2. refs' = [refs EXCEPT !.loading = FALSE, !.busy = Busy, !.rows = c.ans]
      BY <1>5, <1>7, <2>1 DEF RefundsArrive, RefsType
    <3> HIDE DEF Busy
    <3>3. refs'.rows = c.ans /\ refs'.act = refs.act /\ refs' \in RefsType
      BY <1>5, <2>0, <3>1, <3>2 DEF RefsType, AnsTrue
    <3> QED
      BY <1>2, <3>1, <3>3 DEF RefsTrue, BackTrue, AnsTrue
  <2>2. CASE c.st # "ok"
    <3>1. refs' = [refs EXCEPT !.loading = FALSE, !.busy = Busy, !.rows = refs.rows]
      BY <1>5, <1>7, <2>2 DEF RefundsArrive, RefsType
    <3> HIDE DEF Busy
    <3> QED
      BY <1>5, <1>6, <2>0, <3>1 DEF RefsType
  <2> QED
    BY <2>1, <2>2
<1>8. ASSUME NEW c \in calls, DestinationArrives(c) PROVE RefsTrue'
  <2>1. c.st = "ok" => c.ans \in Number
    BY <1>8 DEF DestinationArrives, CallsTrue, CallTrue, AnsTrue
  <2>2. PICK n \in Number : refs' = [refs EXCEPT !.revealing = FALSE, !.shown = n]
    BY <1>5, <1>8, <2>1 DEF DestinationArrives, RefsType
  <2> QED
    BY <1>5, <1>6, <2>2 DEF RefsType
<1>9. ASSUME NEW c \in calls, ActionArrives(c) PROVE RefsTrue'
  <2>1. \/ refs' = [refs EXCEPT !.act = NoAct, !.shown = NoCard, !.loading = TRUE]
        \/ refs' = [refs EXCEPT !.busy = FALSE]
    BY <1>9 DEF ActionArrives
  <2>2. refs' \in RefsType /\ refs'.rows = refs.rows /\ refs'.act \in {refs.act, NoAct}
    BY <1>4, <1>5, <2>1 DEF RefsType, Number
  <2> QED
    BY <1>6, <2>2
<1>10. ASSUME Arrive PROVE RefsTrue'
  BY <1>3, <1>7, <1>8, <1>9, <1>10 DEF Arrive, SettlementsArrive, DetailArrives, RevealArrives,
     DecideArrives, FinanceArrives, RequestArrives, ItemsArrive, CardArrives, LookupArrives,
     ConfirmArrives, FullArrives, DeleteArrives
<1>11. ASSUME NEW row \in refs.rows, NEW to \in Decision, OpenAction(row, to) PROVE RefsTrue'
  <2> DEFINE act == [b |-> row.b, st |-> row.st, dest |-> row.dest, to |-> to]
  <2>1. row \in BackRow /\ BackTrue(row) /\ to \in AllowedNext(row.st)
    BY <1>5, <1>11 DEF OpenAction, RefsTrue, RefsType
  <2>2. refs' = [refs EXCEPT !.shown = NoCard, !.act = act]
    BY <1>11 DEF OpenAction
  <2>3. act \in [b : Booking \cup {NoCard}, st : Status, dest : Number, to : Decision \cup {"none"}]
    BY <2>1 DEF BackRow
  <2>4. BackTrue(act) /\ act.to \in AllowedNext(act.st)
    BY <2>1 DEF BackTrue
  <2> HIDE DEF act
  <2>5. refs' \in RefsType /\ refs'.rows = refs.rows /\ refs'.act = act
    BY <1>5, <2>2, <2>3 DEF RefsType, Number
  <2> QED
    BY <1>2, <2>4, <2>5 DEF RefsTrue, BackTrue
<1>12. ASSUME CloseAction \/ RevealDestination \/ SubmitAction PROVE RefsTrue'
  <2>1. refs' \in RefsType /\ refs'.rows = refs.rows /\ refs'.act \in {refs.act, NoAct}
    BY <1>4, <1>5, <1>12 DEF CloseAction, RevealDestination, SubmitAction, RefsType, Number
  <2> QED
    BY <1>6, <2>1
<1>13. ASSUME Click PROVE RefsTrue'
  <2>1. \/ UNCHANGED refs
        \/ \E row \in refs.rows, to \in Decision : OpenAction(row, to)
        \/ CloseAction \/ RevealDestination \/ SubmitAction
    <3>1. ASSUME NEW row \in pays.rows, NEW to, UpdateStatus(row, to) PROVE UNCHANGED refs
      BY <3>1 DEF UpdateStatus, pages
    <3>2. ASSUME NEW row \in pays.rows, FetchDetail(row) \/ OpenPayment(row) PROVE UNCHANGED refs
      BY <3>2 DEF FetchDetail, OpenPayment
    <3>3. ASSUME \/ CloseDetail \/ ClosePayment \/ SubmitPayment \/ RequestSettlement
                 \/ CloseItems \/ EditCard \/ CancelEdit \/ ConfirmCard \/ ToggleFull \/ DeleteCard
          PROVE  UNCHANGED refs
      BY <3>3 DEF CloseDetail, ClosePayment, SubmitPayment, RequestSettlement, CloseItems,
         EditCard, CancelEdit, ConfirmCard, ToggleFull, DeleteCard
    <3>4. ASSUME NEW s, OpenItems(s) \/ LookupCard(s) PROVE UNCHANGED refs
      BY <3>4 DEF OpenItems, LookupCard
    <3> QED
      BY <1>13, <3>1, <3>2, <3>3, <3>4 DEF Click
  <2> QED
    BY <1>3, <1>11, <1>12, <2>1
<1> QED
  BY <1>10, <1>13

-----------------------------------------------------------------------------
LEMMA InitDesk == Init => DeskInv
<1> SUFFICES ASSUME Init PROVE DeskInv
  OBVIOUS
<1>0. PICK k \in {"settlements", "refunds", "finance", "card"} : Mounted(k)
  BY DEF Init
<1>1. CallsTrue
  <2>1. calls = {Call(k, FALSE)}
    BY <1>0 DEF Mounted
  <2> QED
    BY <2>1 DEF CallsTrue, CallTrue, ArgTrue, IsCall, Call
<1>2. PaysTrue
  <2>1. \E y \in BOOLEAN : pays = [FreshPays EXCEPT !.loading = y]
    BY <1>0 DEF Mounted
  <2>2. FreshPays \in PaysType
    BY DEF FreshPays, PaysType, NoSettlement, SettleRow, Status, Number
  <2>3. pays \in PaysType /\ pays.rows = {} /\ pays.pay = NoSettlement
    BY <2>1, <2>2 DEF PaysType, FreshPays
  <2> QED
    BY <2>3 DEF PaysTrue
<1>3. RefsTrue
  <2>1. \E y \in BOOLEAN : refs = [FreshRefs EXCEPT !.loading = y]
    BY <1>0 DEF Mounted
  <2>2. FreshRefs \in RefsType
    BY DEF FreshRefs, RefsType, NoAct, Status, Number
  <2>3. refs \in RefsType /\ refs.rows = {} /\ refs.act = NoAct
    BY <2>1, <2>2 DEF RefsType, FreshRefs
  <2> QED
    BY <2>3 DEF RefsTrue
<1> QED
  BY <1>1, <1>2, <1>3, InitMoney DEF DeskInv

LEMMA StepDesk == DeskInv /\ [Next]_vars => DeskInv' /\ MoneyStep
<1> SUFFICES ASSUME DeskInv, [Next]_vars PROVE DeskInv' /\ MoneyStep
  OBVIOUS
<1> USE DEF DeskInv
<1>1. MoneyStep
  BY StepMoves
<1>2. MoneyInv'
  BY <1>1, MoneyFits
<1>3. CASE UNCHANGED vars
  BY <1>1, <1>2, <1>3, CallsEnd, PaysStay, RefsStay DEF vars
<1>4. CASE Others
  <2>1. UNCHANGED <<calls, pays, refs>>
    BY <1>4 DEF Others, Pass, CommitCancel, BeginCancel, OtherPayBack, OtherRequest, OtherDecide,
       OtherCard, TakeRefunds, OtherConfirm, pages
  <2> QED
    BY <1>1, <1>2, <2>1, CallsEnd, PaysStay, RefsStay
<1>5. CASE Serve
  <2>1. UNCHANGED <<pays, refs>>
    BY <1>5 DEF Serve, Lose, ServeRead, ServeReveal, ServeRequest, ServeDecide, ServePayBack,
       ServeLookup, EndLookup, ServeConfirm, EndConfirm, ServeDelete, Answer, Begun, Fail, pages
  <2> QED
    BY <1>1, <1>2, <1>5, <2>1, ServeTrue, PaysStay, RefsStay
<1>6. CASE Arrive
  BY <1>1, <1>2, <1>6, ArriveCalls, PaysMove, RefsMove
<1>7. CASE Click
  BY <1>1, <1>2, <1>7, ClickCalls, PaysMove, RefsMove
<1> QED
  BY <1>3, <1>4, <1>5, <1>6, <1>7 DEF Next

LEMMA DeskAlways == Spec => []DeskInv
BY InitDesk, StepDesk, PTL DEF Spec

(* Every variable of the desk keeps its type. *)
THEOREM DeskTypes == Spec => []TypeOK
<1>1. DeskInv => TypeOK
  BY DEF DeskInv, MoneyInv
<1> QED
  BY <1>1, DeskAlways, PTL

(* The price of a booking leaves once: through at most one settlement, and *)
(* then through no refund (update_settlement_status).                      *)
THEOREM MoneyLeavesOnce == Spec => []PaidOnce
<1>1. DeskInv => PaidOnce
  BY DEF DeskInv, MoneyInv
<1> QED
  BY <1>1, DeskAlways, PTL

(* While a page asks for the number of a bank transfer, the transfer is    *)
(* due and goes to the card the page shows.                                *)
THEOREM PayoutsAskedAreDue == Spec => []PayoutIsDue
<1>1. DeskInv => PayoutIsDue
  BY DEF DeskInv, PaysTrue, RefsTrue, SettleTrue, BackTrue, PayoutIsDue, AllowedNext, NoAct
<1> QED
  BY <1>1, DeskAlways, PTL

(* What is decided stays decided, and the card of a payout stays the card; *)
(* a rejected refund gains one only from a confirmation that had selected  *)
(* it before (confirm_card).                                               *)
THEOREM DecisionsStay == Spec => DecidedStays
<1> DEFINE Stays ==
      /\ \A b \in Booking :
             /\ booking[b].settle \in {"settled", "excluded"} => booking'[b] = booking[b]
             /\ refund[b].status = "paid" => refund'[b] = refund[b]
             /\ refund[b].status = "rejected" =>
                   \/ refund'[b] = refund[b]
                   \/ \E t \in Tab :
                         /\ confirm[t].st = "taken" /\ b \in confirm[t].backs
                         /\ refund'[b] = [refund[b] EXCEPT !.dest = confirm[t].n]
             /\ refund[b].dest # NoCard => refund'[b].dest = refund[b].dest
      /\ \A s \in Settlement :
             /\ settlement[s].status \in {"rejected", "paid"} =>
                   settlement'[s] = settlement[s]
             /\ settlement[s].status # "none" =>
                   /\ settlement'[s].items = settlement[s].items
                   /\ settlement'[s].dest = settlement[s].dest
<1>1. DeskInv /\ [Next]_vars => [Stays]_vars
  <2> SUFFICES ASSUME DeskInv, [Next]_vars PROVE Stays
    OBVIOUS
  <2> QED
    BY StepDesk, StepStays DEF DeskInv
<1>2. [][Stays]_vars <=> DecidedStays
  BY DEF DecidedStays
<1> HIDE DEF Stays
<1> QED
  BY <1>1, <1>2, DeskAlways, PTL DEF Spec
=============================================================================
