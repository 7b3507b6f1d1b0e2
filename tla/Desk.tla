-------------------------------- MODULE Desk --------------------------------
(***************************************************************************)
(* The money that leaves by hand: settlements that pay a manager for the   *)
(* bookings that took place, refunds of the cancelled ones, the bank cards *)
(* both are paid to, and the four pages they are worked from: the          *)
(* administrator's lists of settlements and of refunds, the manager's      *)
(* finance tab and the card section of the user's profile.                 *)
(*                                                                         *)
(* A page's call is a record of "calls": sent, served by the API in one    *)
(* transaction, delivered; calls overtake each other and may fail.  One of *)
(* the pages is followed from the moment it is mounted; whoever works at   *)
(* any other page, or at this one in another tab, acts in one step, but    *)
(* for what is read without a lock.  A cancellation reads the card and     *)
(* commits the refund later.  A confirmation reads the card, then locks it *)
(* and selects the refunds that have no destination, and writes these when *)
(* it commits, decided in between or not.  A lookup reads the card's row   *)
(* before it writes it.                                                    *)
(*                                                                         *)
(* Abstractions: paid online bookings of one user at one vendor; amounts   *)
(* are whole units and commission is rounded down to one; settlements are  *)
(* requested without a period, as the page does; one refund type, since a  *)
(* booking is cancelled once; filters and search only hide rows.           *)
(***************************************************************************)
EXTENDS Integers, FiniteSets
LOCAL INSTANCE FiniteSetsExt

CONSTANTS
    Booking,        \* paid online bookings
    Card,           \* card numbers
    NoCard,         \* not a card number
    Price,          \* the price paid for a booking
    Percent,        \* the commission
    Step,           \* SETTLEMENT_ROUND_STEP
    MaxSettlement,  \* bound on the settlements ever requested
    MaxRow,         \* bound on the rows of bank_cards ever made by a person
    MaxCalls,       \* bound on the pages' calls in flight
    MaxClicks,      \* bound on the clicks that send a call
    MaxOther        \* bound on what other actors do

ASSUME DeskAssumption ==
    /\ NoCard \notin Card
    /\ Price \in [Booking -> Nat]
    /\ Percent \in 0 .. 100
    /\ Step \in Nat \ {0}
    /\ {MaxSettlement, MaxRow, MaxCalls, MaxClicks, MaxOther} \subseteq Nat
    /\ MaxRow > 0            \* the manager's card at the start is a row

VARIABLES
    phase,       \* where the time is in the slot of a booking
    booking,     \* status and settlement_status
    cancel,      \* cancellations in progress: the card they have read
    confirm,     \* confirmations of the user's card in progress, by tab
    refund,      \* refunds, by booking
    settlement,  \* settlements, by number
    card,        \* bank_cards, by person
    calls,       \* the pages' calls in flight
    clicks,      \* how many clicks and acts of others there were
    pays,        \* the administrator's settlements page
    refs,        \* the administrator's refunds page
    fin,         \* the manager's finance tab
    prof         \* the card section of the user's profile

vars == <<phase, booking, cancel, confirm, refund, settlement, card, calls,
          clicks, pays, refs, fin, prof>>
money == <<phase, booking, cancel, confirm, refund, settlement>>
server == <<money, card>>
pages == <<pays, refs, fin, prof>>
-----------------------------------------------------------------------------
Settlement == 1 .. MaxSettlement
Person     == {"user", "manager"}
Tab        == {"page", "other"}
Number     == Card \cup {NoCard}
Decision   == {"approved", "rejected", "paid"}

\* Mutant: what was approved can still be rejected.
AllowedRetracted(st) == CASE st = "pending"  -> {"approved", "rejected"}
                          [] st = "approved" -> {"paid", "rejected"}
                          [] OTHER           -> {}

\* allowed_transitions, the same for settlements and refunds.
AllowedNext(st) == CASE st = "pending"  -> {"approved", "rejected"}
                     [] st = "approved" -> {"paid"}
                     [] OTHER           -> {}

\* settlement_status of the items of a settlement, by its status.
StageOf(st) == CASE st = "pending"  -> "requested"
                 [] st = "approved" -> "included"
                 [] st = "paid"     -> "settled"
                 [] OTHER           -> "not_settled"

Verified(p) == IF card[p].st = "verified" THEN card[p].n ELSE NoCard

Counted == clicks.page < MaxClicks /\ clicks' = [clicks EXCEPT !.page = @ + 1]
ByOther == clicks.other < MaxOther /\ clicks' = [clicks EXCEPT !.other = @ + 1]
-----------------------------------------------------------------------------
(* Slots take place, bookings are cancelled                                *)

\* From the start of a slot to its end nothing can be done with its booking.
Pass(b) ==
    /\ phase[b] = "upcoming"
    /\ phase' = [phase EXCEPT ![b] = "ended"]
    /\ UNCHANGED <<booking, cancel, confirm, refund, settlement, card, calls,
                   clicks, pages>>

NoJob == [on |-> FALSE, dest |-> NoCard]

\* The booking is locked; the user needs a verified card, the manager does not.
BeginCancel(b, by) ==
    /\ booking[b].status = "confirmed"
    /\ ~cancel[b].on
    /\ phase[b] = "upcoming"
    /\ by = "user" => Verified("user") # NoCard
    /\ cancel' = [cancel EXCEPT ![b] = [on |-> TRUE, dest |-> Verified("user")]]
    /\ UNCHANGED <<phase, booking, confirm, refund, settlement, card, calls,
                   clicks, pages>>

CommitCancel(b) ==
    /\ cancel[b].on
    /\ booking' = [booking EXCEPT ![b] = [status |-> "cancelled",
                                          settle |-> "excluded"]]
    /\ refund' = [refund EXCEPT ![b] = [status |-> "pending",
                                        dest |-> cancel[b].dest]]
    /\ cancel' = [cancel EXCEPT ![b] = NoJob]
    /\ UNCHANGED <<phase, confirm, settlement, card, calls, clicks, pages>>
-----------------------------------------------------------------------------
(* Settlements                                                             *)

\* round_settlement_amount: to the nearest step, halves up.
Round(v) == ((2 * v + Step) \div (2 * Step)) * Step

Amount(bs) ==
    LET gross == MapThenSumSet(LAMBDA b : Price[b], bs)
    IN  Round(gross - (gross * Percent) \div 100)

\* Mutant: the settlement status is not looked at.
EligibleTwice ==
    {b \in Booking : /\ booking[b].status = "confirmed"
                     /\ phase[b] = "ended"}

Eligible ==
    {b \in Booking : /\ booking[b].status = "confirmed"
                     /\ booking[b].settle = "not_settled"
                     /\ phase[b] = "ended"}

\* SELECT ... FOR UPDATE waits for the cancellations of what it would take.
CanRequest ==
    /\ Amount(Eligible) > 0
    /\ Verified("manager") # NoCard
    /\ \A b \in Eligible : ~cancel[b].on

Request(s) ==
    /\ settlement[s].status = "none"
    /\ \A t \in 1 .. s - 1 : settlement[t].status # "none"
    /\ settlement' = [settlement EXCEPT ![s] =
          [status |-> "pending", items |-> Eligible,
           dest |-> Verified("manager")]]
    /\ booking' = [b \in Booking |->
          IF b \in Eligible THEN [booking[b] EXCEPT !.settle = "requested"]
                            ELSE booking[b]]
    /\ UNCHANGED <<phase, cancel, confirm, refund, card>>

CanDecide(s, to) ==
    /\ to \in AllowedNext(settlement[s].status)
    /\ to \in {"approved", "paid"} =>
          /\ settlement[s].dest # NoCard
          /\ \A b \in settlement[s].items :
                /\ booking[b].status = "confirmed"
                /\ booking[b].settle \in {"requested", "included"}

\* update_settlement_status; the same decision again is refused.
Decide(s, to) ==
    /\ settlement' = [settlement EXCEPT ![s].status = to]
    /\ booking' = [b \in Booking |->
          IF b \in settlement[s].items
          THEN [booking[b] EXCEPT !.settle = StageOf(to)]
          ELSE booking[b]]
    /\ UNCHANGED <<phase, cancel, confirm, refund, card>>

OtherRequest ==
    /\ CanRequest
    /\ \E s \in Settlement : Request(s)
    /\ ByOther
    /\ UNCHANGED <<calls, pages>>

OtherDecide(s, to) ==
    /\ CanDecide(s, to)
    /\ Decide(s, to)
    /\ ByOther
    /\ UNCHANGED <<calls, pages>>
-----------------------------------------------------------------------------
(* Refunds and cards                                                       *)

\* update_refund_status: the status a refund has can be given again.
CanPayBack(b, to) ==
    /\ refund[b].status # "none"
    /\ to = refund[b].status \/ to \in AllowedNext(refund[b].status)
    /\ to = "paid" => refund[b].dest # NoCard

PayBack(b, to) ==
    /\ refund' = [refund EXCEPT ![b].status = to]
    /\ UNCHANGED <<phase, booking, cancel, confirm, settlement, card>>

OtherPayBack(b, to) ==
    /\ CanPayBack(b, to)
    /\ PayBack(b, to)
    /\ ByOther
    /\ UNCHANGED <<calls, pages>>

NoRowOf(id) == [id |-> id, n |-> NoCard, st |-> "none"]

\* upsert_pending: a person has one row, and a new number unverifies it.
\* SQLAlchemy writes what differs from the row as it was read: a row read
\* pending and confirmed since stays verified.
CanLookup(p, was) == IF was = "none" THEN card[p].st = "none" /\ card[p].id < MaxRow
                                     ELSE card[p].st # "none"
Lookup(p, n, was) ==
    /\ card' = [card EXCEPT ![p] =
          [id |-> IF was = "none" THEN @.id + 1 ELSE @.id,
           n |-> n, st |-> IF was = "pending" THEN @.st ELSE "pending"]]
    /\ UNCHANGED money

\* confirm_card, first part: the card is read without a lock.
NoConfirm == [st |-> "none", id |-> 0, n |-> NoCard, backs |-> {}]

CanConfirm(p, id) == card[p].id = id /\ card[p].st = "pending"

BeginConfirm(t) ==
    /\ confirm[t] = NoConfirm
    /\ confirm' = [confirm EXCEPT ![t] =
          [st |-> "read", id |-> card["user"].id, n |-> card["user"].n,
           backs |-> {}]]
    /\ UNCHANGED <<phase, booking, cancel, refund, settlement, card>>

\* Mutant: every open refund is selected, whatever its destination.
AllOpen == {b \in Booking : refund[b].status \in {"pending", "approved"}}

Unaddressed == {b \in Booking : /\ refund[b].status \in {"pending", "approved"}
                                /\ refund[b].dest = NoCard}

\* Second part: the SELECT of the refunds flushes the card's new status, which
\* locks its row until the commit.  The refunds are not locked.
CardLocked == \E t \in Tab : confirm[t].st = "taken"

TakeRefunds(t) ==
    /\ confirm[t].st = "read" /\ ~CardLocked
    /\ card["user"].st # "none" /\ card["user"].id = confirm[t].id
    /\ confirm' = [confirm EXCEPT ![t].st = "taken", ![t].backs = Unaddressed]
    /\ UNCHANGED <<phase, booking, cancel, refund, settlement, card, calls,
                   clicks, pages>>

\* Third part: the number as it was read becomes the destination of what was
\* selected, and the transaction commits.
Confirm(t) ==
    /\ confirm[t].st = "taken"
    /\ card' = [card EXCEPT !["user"].st = "verified"]
    /\ refund' = [b \in Booking |-> IF b \in confirm[t].backs
                                    THEN [refund[b] EXCEPT !.dest = confirm[t].n]
                                    ELSE refund[b]]
    /\ confirm' = [confirm EXCEPT ![t] = NoConfirm]
    /\ UNCHANGED <<phase, booking, cancel, settlement>>

\* Its row is gone, or the server fails: nothing of it is committed.
GiveUp(t) ==
    /\ confirm[t] # NoConfirm
    /\ confirm' = [confirm EXCEPT ![t] = NoConfirm]
    /\ UNCHANGED <<phase, booking, cancel, refund, settlement, card>>

\* The refunds are the user's: the manager's card is only confirmed.
Verify(p) ==
    /\ card[p].st = "pending"
    /\ card' = [card EXCEPT ![p].st = "verified"]
    /\ UNCHANGED money

CanDelete(p) == card[p].st = "verified"

\* Mutant: the number goes, the row stays verified.
Erase(p) ==
    /\ card' = [card EXCEPT ![p].n = NoCard]
    /\ UNCHANGED money

Delete(p) ==
    /\ card' = [card EXCEPT ![p] = NoRowOf(@.id)]
    /\ UNCHANGED money

Free(p) == p = "user" => ~CardLocked

\* The same from another tab, and the manager's from wherever.
OtherCard(p) ==
    /\ \/ Free(p) /\ CanLookup(p, card[p].st) /\ \E n \in Card : Lookup(p, n, card[p].st)
       \/ p = "manager" /\ Verify(p)
       \/ p = "user" /\ CanConfirm(p, card[p].id) /\ BeginConfirm("other")
       \/ Free(p) /\ CanDelete(p) /\ Delete(p)
    /\ ByOther
    /\ UNCHANGED <<calls, pages>>

OtherConfirm ==
    /\ Confirm("other") \/ GiveUp("other")
    /\ UNCHANGED <<calls, clicks, pages>>
-----------------------------------------------------------------------------
(* Calls                                                                   *)

Call(kind, arg) == [kind |-> kind, arg |-> arg, st |-> "sent", ans |-> {}]
Send(k, arg) == /\ Cardinality(calls) < MaxCalls
                /\ calls' = calls \cup {Call(k, arg)}
                /\ Counted
Deliver(c)   == calls' = calls \ {c} /\ UNCHANGED clicks
Follow(c, k, arg) == /\ calls' = (calls \ {c}) \cup {Call(k, arg)}
                     /\ UNCHANGED clicks

\* The API has begun with it.
Begun(c, ans) ==
    /\ calls' = (calls \ {c}) \cup {[c EXCEPT !.st = "begun", !.ans = ans]}
    /\ UNCHANGED <<clicks, pages>>
Answer(c, ans) ==
    /\ calls' = (calls \ {c}) \cup {[c EXCEPT !.st = "ok", !.ans = ans]}
    /\ UNCHANGED <<clicks, pages>>
Fail(c) ==
    /\ calls' = (calls \ {c}) \cup {[c EXCEPT !.st = "failed", !.ans = {}]}
    /\ UNCHANGED <<clicks, pages, server>>

\* The network loses the call or its answer, or the server fails.
Lose(c) == c.st \in {"sent", "ok"} /\ Fail(c)

Row(s) == [s |-> s, st |-> settlement[s].status, dest |-> settlement[s].dest]
RefundRow(b) == [b |-> b, st |-> refund[b].status, dest |-> refund[b].dest]
Made == {s \in Settlement : settlement[s].status # "none"}

\* The reads: both lists, a detail, the summary, the user's card.
ServeRead(c) ==
    /\ \/ c.kind = "settlements" /\ Answer(c, {Row(s) : s \in Made})
       \/ c.kind = "refunds"
          /\ Answer(c, {RefundRow(b) : b \in {a \in Booking : refund[a].status # "none"}})
       \/ c.kind \in {"detail", "items"} /\ Answer(c, Row(c.arg))
       \/ c.kind = "finance"
          /\ Answer(c, [avail |-> Amount(Eligible) > 0, made |-> Made])
       \/ c.kind = "card" /\ Answer(c, Verified("user"))
    /\ UNCHANGED server

\* .../destination and .../verified/full: the number in full, if there is one.
ServeReveal(c) ==
    LET n == CASE c.kind = "reveal"     -> settlement[c.arg].dest
               [] c.kind = "revealBack" -> refund[c.arg].dest
               [] c.kind = "full"       -> Verified("user")
    IN  /\ c.kind \in {"reveal", "revealBack", "full"}
        /\ IF n = NoCard THEN Fail(c) ELSE Answer(c, n) /\ UNCHANGED server

ServeRequest(c) ==
    /\ c.kind = "request"
    /\ \/ CanRequest /\ Answer(c, {}) /\ \E s \in Settlement : Request(s)
       \/ /\ Amount(Eligible) = 0 \/ Verified("manager") = NoCard
          /\ \A b \in Eligible : ~cancel[b].on
          /\ Fail(c)

ServeDecide(c) ==
    /\ c.kind = "decide"
    /\ IF CanDecide(c.arg.s, c.arg.to)
       THEN Decide(c.arg.s, c.arg.to) /\ Answer(c, {})
       ELSE Fail(c)

ServePayBack(c) ==
    /\ c.kind = "payback"
    /\ IF CanPayBack(c.arg.b, c.arg.to)
       THEN PayBack(c.arg.b, c.arg.to) /\ Answer(c, {})
       ELSE Fail(c)

ServeLookup(c) ==
    /\ c.kind = "lookup"
    /\ Begun(c, card["user"].st)
    /\ UNCHANGED server

\* The write of a row that is gone, or the second row of a person, fails.
EndLookup(c) ==
    /\ c.kind = "lookup"
    /\ ~CardLocked
    /\ \/ CanLookup("user", c.ans) /\ Lookup("user", c.arg, c.ans) /\ Answer(c, card'["user"])
       \/ (c.ans = "none") # (card["user"].st = "none") /\ Fail(c)

ServeConfirm(c) ==
    /\ c.kind = "confirm"
    /\ IF CanConfirm("user", c.arg)
       THEN BeginConfirm("page") /\ Begun(c, {})
       ELSE Fail(c)

EndConfirm(c) ==
    /\ c.kind = "confirm"
    /\ \/ Confirm("page") /\ Answer(c, card["user"].n)
       \/ /\ GiveUp("page")
          /\ calls' = (calls \ {c}) \cup {[c EXCEPT !.st = "failed", !.ans = {}]}
          /\ UNCHANGED <<clicks, pages>>

ServeDelete(c) ==
    /\ c.kind = "delete"
    /\ IF CanDelete("user")
       THEN ~CardLocked /\ Delete("user") /\ Answer(c, {})
       ELSE Fail(c)
-----------------------------------------------------------------------------
(* The administrator's settlements page                                    *)

NoSettlement == [s |-> 0, st |-> "none", dest |-> NoCard]
FreshPays == [rows |-> {}, loading |-> FALSE, detail |-> NoSettlement,
              shown |-> NoCard, pay |-> NoSettlement, busy |-> FALSE]

SettlementsArrive(c) ==
    /\ c.kind = "settlements"
    /\ pays' = [pays EXCEPT !.loading = FALSE,
                            !.rows = IF c.st = "ok" THEN c.ans ELSE @]
    /\ Deliver(c)
    /\ UNCHANGED <<server, refs, fin, prof>>

OnSettlement(row) ==
    /\ row \in pays.rows /\ ~pays.loading
    /\ pays.detail = NoSettlement /\ pays.pay = NoSettlement

FetchDetail(row) ==
    /\ OnSettlement(row)
    /\ pays' = [pays EXCEPT !.shown = NoCard]
    /\ Send("detail", row.s)
    /\ UNCHANGED <<server, refs, fin, prof>>

\* The dialog opens on the answer, which also asks for the card in full.
DetailArrives(c) ==
    /\ c.kind = "detail"
    /\ IF c.st = "ok"
       THEN pays' = [pays EXCEPT !.detail = c.ans] /\ Follow(c, "reveal", c.arg)
       ELSE Deliver(c) /\ UNCHANGED pays
    /\ UNCHANGED <<server, refs, fin, prof>>

RevealArrives(c) ==
    /\ c.kind = "reveal"
    /\ pays' = [pays EXCEPT !.shown = IF c.st = "ok" THEN c.ans ELSE @]
    /\ Deliver(c)
    /\ UNCHANGED <<server, refs, fin, prof>>

CloseDetail ==
    /\ pays.detail # NoSettlement
    /\ pays' = [pays EXCEPT !.detail = NoSettlement]
    /\ UNCHANGED <<server, calls, clicks, refs, fin, prof>>

\* updateStatus from a row's buttons: nothing keeps it from being sent twice.
UpdateStatus(row, to) ==
    /\ OnSettlement(row) /\ row.st = "pending"
    /\ Send("decide", [s |-> row.s, to |-> to, dialog |-> FALSE])
    /\ UNCHANGED <<server, pages>>

OpenPayment(row) ==
    /\ OnSettlement(row) /\ row.st = "approved"
    /\ pays' = [pays EXCEPT !.pay = row]
    /\ UNCHANGED <<server, calls, clicks, refs, fin, prof>>

ClosePayment ==
    /\ pays.pay # NoSettlement
    /\ pays' = [pays EXCEPT !.pay = NoSettlement]
    /\ UNCHANGED <<server, calls, clicks, refs, fin, prof>>

SubmitPayment ==
    /\ pays.pay # NoSettlement /\ ~pays.busy
    /\ pays' = [pays EXCEPT !.busy = TRUE]
    /\ Send("decide", [s |-> pays.pay.s, to |-> "paid", dialog |-> TRUE])
    /\ UNCHANGED <<server, refs, fin, prof>>

\* Success reloads the list, and closes whichever payment dialog is open.
DecideArrives(c) ==
    /\ c.kind = "decide"
    /\ pays' = [pays EXCEPT
          !.busy = IF c.arg.dialog THEN FALSE ELSE @,
          !.pay = IF c.arg.dialog /\ c.st = "ok" THEN NoSettlement ELSE @,
          !.loading = @ \/ c.st = "ok"]
    /\ IF c.st = "ok" THEN Follow(c, "settlements", TRUE) ELSE Deliver(c)
    /\ UNCHANGED <<server, refs, fin, prof>>
-----------------------------------------------------------------------------
(* The administrator's refunds page                                        *)

NoAct == [b |-> NoCard, st |-> "none", dest |-> NoCard, to |-> "none"]
FreshRefs == [rows |-> {}, loading |-> FALSE, act |-> NoAct,
              shown |-> NoCard, revealing |-> FALSE, busy |-> FALSE]

\* The list that follows a decision (arg) also ends its submission.
RefundsArrive(c) ==
    /\ c.kind = "refunds"
    /\ refs' = [refs EXCEPT !.loading = FALSE, !.busy = @ /\ ~c.arg,
                            !.rows = IF c.st = "ok" THEN c.ans ELSE @]
    /\ Deliver(c)
    /\ UNCHANGED <<server, pays, fin, prof>>

OpenAction(row, to) ==
    /\ row \in refs.rows /\ ~refs.loading /\ refs.act = NoAct
    /\ to \in AllowedNext(row.st)
    /\ refs' = [refs EXCEPT !.shown = NoCard,
          !.act = [b |-> row.b, st |-> row.st, dest |-> row.dest, to |-> to]]
    /\ UNCHANGED <<server, calls, clicks, pays, fin, prof>>

CloseAction ==
    /\ refs.act # NoAct
    /\ refs' = [refs EXCEPT !.act = NoAct, !.shown = NoCard]
    /\ UNCHANGED <<server, calls, clicks, pays, fin, prof>>

RevealDestination ==
    /\ refs.act.to = "paid" /\ refs.act.dest # NoCard
    /\ ~refs.revealing
    /\ refs' = [refs EXCEPT !.revealing = TRUE]
    /\ Send("revealBack", refs.act.b)
    /\ UNCHANGED <<server, pays, fin, prof>>

\* The number is shown in whichever dialog is open by then.
DestinationArrives(c) ==
    /\ c.kind = "revealBack"
    /\ refs' = [refs EXCEPT !.revealing = FALSE,
                            !.shown = IF c.st = "ok" THEN c.ans ELSE @]
    /\ Deliver(c)
    /\ UNCHANGED <<server, pays, fin, prof>>

SubmitAction ==
    /\ refs.act # NoAct /\ ~refs.busy
    /\ refs.act.to = "paid" => refs.act.dest # NoCard
    /\ refs' = [refs EXCEPT !.busy = TRUE]
    /\ Send("payback", [b |-> refs.act.b, to |-> refs.act.to])
    /\ UNCHANGED <<server, pays, fin, prof>>

ActionArrives(c) ==
    /\ c.kind = "payback"
    /\ IF c.st = "ok"
       THEN /\ refs' = [refs EXCEPT !.act = NoAct, !.shown = NoCard,
                                    !.loading = TRUE]
            /\ Follow(c, "refunds", TRUE)
       ELSE /\ refs' = [refs EXCEPT !.busy = FALSE]
            /\ Deliver(c)
    /\ UNCHANGED <<server, pays, fin, prof>>
-----------------------------------------------------------------------------
(* The manager's finance tab                                               *)

FreshFin == [loading |-> FALSE, avail |-> FALSE, made |-> {}, busy |-> FALSE,
             open |-> FALSE, detail |-> 0, waiting |-> FALSE]

FinanceArrives(c) ==
    /\ c.kind = "finance"
    /\ fin' = IF c.st = "ok"
              THEN [fin EXCEPT !.loading = FALSE, !.avail = c.ans.avail,
                               !.made = c.ans.made]
              ELSE [fin EXCEPT !.loading = FALSE]
    /\ Deliver(c)
    /\ UNCHANGED <<server, pays, refs, prof>>

RequestSettlement ==
    /\ ~fin.busy /\ ~fin.loading /\ fin.avail /\ ~fin.open
    /\ fin' = [fin EXCEPT !.busy = TRUE]
    /\ Send("request", FALSE)
    /\ UNCHANGED <<server, pays, refs, prof>>

RequestArrives(c) ==
    /\ c.kind = "request"
    /\ fin' = [fin EXCEPT !.busy = FALSE, !.loading = @ \/ c.st = "ok"]
    /\ IF c.st = "ok" THEN Follow(c, "finance", TRUE) ELSE Deliver(c)
    /\ UNCHANGED <<server, pays, refs, prof>>

OpenItems(s) ==
    /\ s \in fin.made /\ ~fin.open /\ ~fin.waiting
    /\ fin' = [fin EXCEPT !.open = TRUE, !.detail = 0, !.waiting = TRUE]
    /\ Send("items", s)
    /\ UNCHANGED <<server, pays, refs, prof>>

ItemsArrive(c) ==
    /\ c.kind = "items"
    /\ fin' = IF c.st = "ok"
              THEN [fin EXCEPT !.detail = c.arg, !.waiting = FALSE]
              ELSE [fin EXCEPT !.detail = 0, !.waiting = FALSE, !.open = FALSE]
    /\ Deliver(c)
    /\ UNCHANGED <<server, pays, refs, prof>>

CloseItems ==
    /\ fin.open
    /\ fin' = [fin EXCEPT !.open = FALSE, !.detail = 0]
    /\ UNCHANGED <<server, calls, clicks, pays, refs, prof>>
-----------------------------------------------------------------------------
(* The card section of the profile                                         *)

FreshProf == [loading |-> FALSE, shown |-> NoCard, edit |-> FALSE,
              pending |-> NoRowOf(0), busy |-> FALSE, full |-> NoCard,
              visible |-> FALSE, asking |-> FALSE, deleting |-> FALSE]

\* Without its user the page has no card section: it is loading until then.
CardArrives(c) ==
    /\ c.kind = "card"
    /\ prof' = IF c.st = "ok"
               THEN [prof EXCEPT !.shown = c.ans, !.loading = FALSE]
               ELSE prof
    /\ Deliver(c)
    /\ UNCHANGED <<server, pays, refs, fin>>

HasCard == ~prof.loading /\ prof.shown # NoCard /\ ~prof.edit
HasForm == ~prof.loading /\ (prof.shown = NoCard \/ prof.edit)

EditCard ==
    /\ HasCard
    /\ prof' = [prof EXCEPT !.edit = TRUE, !.pending = NoRowOf(0)]
    /\ UNCHANGED <<server, calls, clicks, pays, refs, fin>>

CancelEdit ==
    /\ prof.edit
    /\ prof' = [prof EXCEPT !.edit = FALSE, !.pending = NoRowOf(0)]
    /\ UNCHANGED <<server, calls, clicks, pays, refs, fin>>

\* Typing a number discards the one that was looked up.
LookupCard(n) ==
    /\ HasForm /\ ~prof.busy
    /\ prof' = [prof EXCEPT !.busy = TRUE,
                    !.pending = IF @.n = n THEN @ ELSE NoRowOf(0)]
    /\ Send("lookup", n)
    /\ UNCHANGED <<server, pays, refs, fin>>

LookupArrives(c) ==
    /\ c.kind = "lookup"
    /\ prof' = [prof EXCEPT !.busy = FALSE,
                    !.pending = IF c.st = "ok" THEN c.ans ELSE @]
    /\ Deliver(c)
    /\ UNCHANGED <<server, pays, refs, fin>>

ConfirmCard ==
    /\ HasForm /\ ~prof.busy /\ prof.pending.st # "none"
    /\ prof' = [prof EXCEPT !.busy = TRUE]
    /\ Send("confirm", prof.pending.id)
    /\ UNCHANGED <<server, pays, refs, fin>>

ConfirmArrives(c) ==
    /\ c.kind = "confirm"
    /\ prof' = IF c.st = "ok"
               THEN [prof EXCEPT !.busy = FALSE, !.shown = c.ans,
                        !.pending = NoRowOf(0), !.edit = FALSE,
                        !.visible = FALSE, !.full = NoCard]
               ELSE [prof EXCEPT !.busy = FALSE]
    /\ Deliver(c)
    /\ UNCHANGED <<server, pays, refs, fin>>

\* The full number is kept once it was shown.
ToggleFull ==
    /\ HasCard /\ ~prof.asking
    /\ IF prof.visible \/ prof.full # NoCard
       THEN /\ prof' = [prof EXCEPT !.visible = ~@]
            /\ UNCHANGED <<calls, clicks>>
       ELSE /\ prof' = [prof EXCEPT !.asking = TRUE]
            /\ Send("full", FALSE)
    /\ UNCHANGED <<server, pays, refs, fin>>

FullArrives(c) ==
    /\ c.kind = "full"
    /\ prof' = IF c.st = "ok"
               THEN [prof EXCEPT !.asking = FALSE, !.full = c.ans,
                                 !.visible = TRUE]
               ELSE [prof EXCEPT !.asking = FALSE]
    /\ Deliver(c)
    /\ UNCHANGED <<server, pays, refs, fin>>

DeleteCard ==
    /\ HasCard /\ ~prof.deleting
    /\ prof' = [prof EXCEPT !.deleting = TRUE]
    /\ Send("delete", FALSE)
    /\ UNCHANGED <<server, pays, refs, fin>>

DeleteArrives(c) ==
    /\ c.kind = "delete"
    /\ prof' = IF c.st = "ok"
               THEN [FreshProf EXCEPT !.busy = prof.busy,
                                      !.asking = prof.asking]
               ELSE [prof EXCEPT !.deleting = FALSE]
    /\ Deliver(c)
    /\ UNCHANGED <<server, pays, refs, fin>>
-----------------------------------------------------------------------------
\* The page that is followed asks for what it shows.
Mounted(k) ==
    /\ calls = {Call(k, FALSE)}
    /\ pays = [FreshPays EXCEPT !.loading = (k = "settlements")]
    /\ refs = [FreshRefs EXCEPT !.loading = (k = "refunds")]
    /\ fin = [FreshFin EXCEPT !.loading = (k = "finance")]
    /\ prof = [FreshProf EXCEPT !.loading = TRUE]

Init ==
    /\ phase \in [Booking -> {"upcoming", "ended"}]
    /\ booking = [b \in Booking |-> [status |-> "confirmed",
                                     settle |-> "not_settled"]]
    /\ cancel = [b \in Booking |-> NoJob]
    /\ confirm = [t \in Tab |-> NoConfirm]
    /\ refund = [b \in Booking |-> [status |-> "none", dest |-> NoCard]]
    /\ settlement = [s \in Settlement |->
                        [status |-> "none", items |-> {}, dest |-> NoCard]]
    /\ card \in [Person -> {NoRowOf(0)} \cup
          {[id |-> 1, n |-> n, st |-> st] : n \in Card, st \in {"pending", "verified"}}]
    /\ card["manager"].st # "none"
    /\ card["user"].n # card["manager"].n
    /\ clicks = [page |-> 0, other |-> 0]
    /\ \E k \in {"settlements", "refunds", "finance", "card"} : Mounted(k)

Others ==
    \/ \E b \in Booking : \/ Pass(b) \/ CommitCancel(b)
                          \/ \E by \in Person : BeginCancel(b, by)
                          \/ \E to \in Decision : OtherPayBack(b, to)
    \/ OtherRequest
    \/ \E s \in Settlement, to \in Decision : OtherDecide(s, to)
    \/ \E p \in Person : OtherCard(p)
    \/ \E t \in Tab : TakeRefunds(t)
    \/ OtherConfirm

Serve ==
    \/ \E c \in calls : Lose(c)
    \/ \E c \in {d \in calls : d.st = "sent"} :
        \/ ServeRead(c) \/ ServeReveal(c) \/ ServeRequest(c) \/ ServeDecide(c)
        \/ ServePayBack(c) \/ ServeLookup(c) \/ ServeConfirm(c) \/ ServeDelete(c)
    \/ \E c \in {d \in calls : d.st = "begun"} : EndLookup(c) \/ EndConfirm(c)

Arrive ==
    \E c \in {d \in calls : d.st \in {"ok", "failed"}} :
        \/ SettlementsArrive(c) \/ DetailArrives(c) \/ RevealArrives(c)
        \/ DecideArrives(c) \/ RefundsArrive(c) \/ DestinationArrives(c)
        \/ ActionArrives(c) \/ FinanceArrives(c) \/ RequestArrives(c)
        \/ ItemsArrive(c) \/ CardArrives(c) \/ LookupArrives(c)
        \/ ConfirmArrives(c) \/ FullArrives(c) \/ DeleteArrives(c)

Click ==
    \/ \E row \in pays.rows : \/ FetchDetail(row) \/ OpenPayment(row)
                              \/ \E to \in {"approved", "rejected"} : UpdateStatus(row, to)
    \/ CloseDetail \/ ClosePayment \/ SubmitPayment
    \/ \E row \in refs.rows, to \in Decision : OpenAction(row, to)
    \/ CloseAction \/ RevealDestination \/ SubmitAction
    \/ RequestSettlement \/ CloseItems \/ \E s \in fin.made : OpenItems(s)
    \/ EditCard \/ CancelEdit \/ ConfirmCard \/ ToggleFull \/ DeleteCard
    \/ \E n \in Card : LookupCard(n)

Next == Others \/ Serve \/ Arrive \/ Click

Spec == Init /\ [][Next]_vars
-----------------------------------------------------------------------------
(* Types, and a row of bank_cards has a number.                            *)
TypeOK ==
    /\ phase \in [Booking -> {"upcoming", "ended"}]
    /\ booking \in [Booking -> [status : {"confirmed", "cancelled"},
           settle : {"not_settled", "requested", "included", "settled", "excluded"}]]
    /\ cancel \in [Booking -> [on : BOOLEAN, dest : Number]]
    /\ confirm \in [Tab -> [st : {"none", "read", "taken"}, id : 0 .. MaxRow,
                            n : Number, backs : SUBSET Booking]]
    /\ refund \in [Booking -> [status : {"none", "pending"} \cup Decision,
                               dest : Number]]
    /\ settlement \in [Settlement -> [status : {"none", "pending"} \cup Decision,
                                      items : SUBSET Booking, dest : Number]]
    /\ card \in [Person -> [id : 0 .. MaxRow, n : Number,
                            st : {"none", "pending", "verified"}]]
    /\ \A p \in Person : card[p].st = "none" <=> card[p].n = NoCard

LiveIn(b) == {s \in Settlement : /\ b \in settlement[s].items
                                 /\ settlement[s].status \in {"pending", "approved", "paid"}}

(* The price of a booking leaves once: through one settlement at most, be  *)
(* it requested, approved or paid, whose stage the booking shows, and then *)
(* never also through a refund (_eligible_settlement_bookings,             *)
(* update_settlement_status, cancel_booking_by_manager).                   *)
PaidOnce ==
    \A b \in Booking :
        /\ \A s, t \in LiveIn(b) : s = t
        /\ \A s \in LiveIn(b) : booking[b].settle = StageOf(settlement[s].status)
        /\ LiveIn(b) # {} => /\ booking[b].status = "confirmed"
                             /\ refund[b].status = "none"
        /\ booking[b].settle \in {"requested", "included", "settled"} => LiveIn(b) # {}

(* What is decided stays: a booking that is settled or excluded, a refund  *)
(* or settlement that is rejected or paid, and the card a refund or a      *)
(* settlement is paid to, once there is one (models/refund.py: immutable   *)
(* payout destination snapshot).  One thing still happens to a rejected    *)
(* refund: it gets the card of a confirmation that had selected it before  *)
(* the rejection was committed (bank_card_service.py, confirm_card).       *)
DecidedStays ==
    [][/\ \A b \in Booking :
             /\ booking[b].settle \in {"settled", "excluded"} => booking'[b] = booking[b]
             /\ refund[b].status = "paid" => refund'[b] = refund[b]
             /\ refund[b].status = "rejected" =>
                   \/ refund'[b] = refund[b]
                   \/ \E t \in Tab :
                         /\ confirm[t].st = "taken" /\ b \in confirm[t].backs
                         /\ refund'[b] = [refund[b] EXCEPT !.dest = confirm[t].n]
             /\ refund[b].dest # NoCard => refund'[b].dest = refund[b].dest
       /\ \A s \in Settlement :
             /\ settlement[s].status \in {"rejected", "paid"} =>
                   settlement'[s] = settlement[s]
             /\ settlement[s].status # "none" =>
                   /\ settlement'[s].items = settlement[s].items
                   /\ settlement'[s].dest = settlement[s].dest]_vars

(* While a page asks for the number of a bank transfer the transfer is     *)
(* due: the row was approved and was not rejected since, and the masked    *)
(* card next to it is the one on record, however old the list is.          *)
PayoutIsDue ==
    /\ pays.pay # NoSettlement =>
          /\ settlement[pays.pay.s].status \in {"approved", "paid"}
          /\ settlement[pays.pay.s].dest = pays.pay.dest
    /\ refs.act.to = "paid" =>
          /\ refund[refs.act.b].status \in {"approved", "paid"}
          /\ refs.act.dest \in {NoCard, refund[refs.act.b].dest}
=============================================================================
