---------------------------- MODULE BookingPages ----------------------------
(***************************************************************************)
(* The pages a user books with, in one browser tab: the vendor page with   *)
(* its booking dialog, /book, /book/payment, the payment callback and the  *)
(* user's list of bookings.  A page sends a request, may be left or ask    *)
(* for something else, and applies the answer whenever it comes; what an   *)
(* answer does is the continuation after its await.  The API is modelled   *)
(* by what each call does at once: what happens inside a call is the       *)
(* subject of Checkout and Replacement.                                    *)
(***************************************************************************)
EXTENDS Naturals, FiniteSets, Sequences

CONSTANTS Slots, Days, DayOf,   \* the slots of one vendor, and their days
          MaxRows,              \* bound: bookings and holds the user makes
          MaxReqs,              \* bound: requests in flight
          MaxVer,               \* bound: the versions others leave behind
          MaxRaces,             \* bound: edits of a slot written over a newer row
          Guest,                \* the user starts logged out
          Tabs,                 \* bound: the tabs of the list opened
          Links                 \* bound: <<from, to>>, the pages opened by hand

PageKinds == {"vendor", "book", "payment", "callback", "bookings", "login"}

ASSUME PagesAssumption ==
    /\ DayOf \in [Slots -> Days]
    /\ MaxRows \in Nat \ {0} /\ MaxReqs \in Nat \ {0} /\ MaxVer \in Nat
    /\ MaxRaces \in Nat
    /\ Guest \in BOOLEAN
    /\ Tabs \subseteq {"current", "past", "cancelled"}
    /\ Links \subseteq PageKinds \X {"vendor", "book", "bookings"}

VARIABLES slot,     \* [Slots -> the slot row of the server]
          bk,       \* the user's bookings and holds, in order of creation
          view,     \* the mounted page and its component state
          reqs,     \* requests sent and answers not yet applied
          guest,    \* logged out
          told      \* history: rows the user was told are paid

vars == <<slot, bk, view, reqs, guest, told>>
server == <<slot, bk>>

Rows == 1..Len(bk)
SlotStatus == {"open", "reserving", "reserved", "offered", "closed"}
Prices == {1, 2}
Kinds == {"booking", "replacement_hold"}
Modes == {"none", "pending_payment", "pending_replacement",
          "refund_with_penalty", "refused"}

----------------------------------------------------------------------------
(* Pages.  NoSlot, NoPend, NoTerms and 0 stand for null.                   *)

NoSlot == [s |-> "none", st |-> "closed", ver |-> 0, price |-> 0, mine |-> 0]
NoPend == [b |-> 0, kind |-> "booking", url |-> FALSE, resume |-> FALSE]
NoTerms == [b |-> 0, mode |-> "none"]

VendorPage(d) == [page |-> "vendor", day |-> d, rows |-> {}, loading |-> TRUE,
                  sel |-> NoSlot, with |-> "none", busy |-> FALSE, paying |-> 0]
BookPage(s) == [page |-> "book", s |-> s, step |-> "loading", sel |-> NoSlot,
                with |-> "none", pend |-> NoPend, cancelling |-> FALSE]
PaymentPage(b, k) == [page |-> "payment", b |-> b, kind |-> k, loading |-> TRUE,
                      shown |-> FALSE, paying |-> FALSE, cancelling |-> FALSE]
CallbackPage(b, o) == [page |-> "callback", b |-> b, outcome |-> o,
                       loading |-> o = "none"]
BookingsPage == [page |-> "bookings", tab |-> "current", rows |-> {},
                 loading |-> TRUE, paying |-> 0, withdrawing |-> 0, dlg |-> 0,
                 terms |-> NoTerms, accepted |-> FALSE, busy |-> FALSE]
LoginPage(s) == [page |-> "login", s |-> s]
Gateway(b) == [page |-> "gateway", b |-> b]

(* A request: the page and the continuation that wait for it, the call and *)
(* its argument, the answer, and where the answer goes: to the mounted     *)
(* page ("page"), to a continuation whose page was left ("left": it may    *)
(* still navigate), or nowhere, after the document was unloaded ("gone").  *)
NoAns == [code |-> "none"]
Req(p, k, op, arg) == [from |-> p, k |-> k, op |-> op, arg |-> arg,
                       ans |-> NoAns, to |-> "page"]

(* A read whose page was left is forgotten: its answer sets the state of   *)
(* an unmounted page.  Only the payment page navigates on what it read.    *)
Reads == {"slots", "pending", "slot", "list", "terms", "verify"}
Left(R) == {[r EXCEPT !.to = IF r.to = "page" THEN "left" ELSE r.to] :
               r \in {q \in R : q.op \notin Reads}}
Gone(R) == {[r EXCEPT !.to = "gone"] :
               r \in {q \in R : q.ans = NoAns /\ q.op \notin Reads \cup {"detail"}}}

CanSend == Cardinality(reqs) < MaxReqs
Send(q) == reqs' = reqs \cup {q}

(* What a page asks for when it is mounted.                                *)
Mounted(v) ==
    CASE v.page = "vendor" -> {Req("vendor", "slots", "slots", [day |-> v.day])}
      [] v.page = "book" -> {Req("book", "pending", "pending", [s |-> v.s])}
      [] v.page = "payment" ->
            {Req("payment", "detail", "detail", [b |-> v.b, kind |-> v.kind])}
      [] v.page = "callback" /\ v.outcome = "none" ->
            {Req("callback", "verify", "verify", [b |-> v.b])}
      [] v.page = "bookings" ->
            {Req("bookings", "list", "list", [tab |-> v.tab])}
      [] OTHER -> {}

(* router.push: another page of the same document.                         *)
Push(v, R) == /\ view' = v
              /\ reqs' = Left(R) \cup Mounted(v)

(* window.location.assign(start_url): the document is unloaded.            *)
Assign(b, R) == /\ view' = Gateway(b)
                /\ reqs' = Gone(R)
----------------------------------------------------------------------------
(* The server.  Every update of a slot row writes the version after the    *)
(* one its reader read; the rows of a booking are read under a lock, so    *)
(* theirs advances.  A slot remembers, as history, every row it has been   *)
(* (issued) and how many edits were written over a row that had changed    *)
(* since they read it (races).  A booking remembers its version, whether   *)
(* the slot's price was the one on the page (quoted), and in which mode it *)
(* was given up and which the user was shown.  The ball is a choice the    *)
(* page insists on; its price is left out.                                 *)

Started(s) == slot[s].clk = "started"
Payable(i) == bk[i].st = "unpaid" /\ ~bk[i].due
NewRow(s, k, arg) ==
    [s |-> s, kind |-> k, st |-> "unpaid", due |-> FALSE, track |-> FALSE,
     cap |-> FALSE, won |-> FALSE, how |-> "none", said |-> "none",
     ver |-> arg.ver, quoted |-> arg.price = slot[s].price]

Issue(row) == [row EXCEPT !.issued = @ \cup {<<row.ver, row.price, row.st>>}]
Updated(s, st) == Issue([slot[s] EXCEPT !.st = st, !.ver = @ + 1])
SetSlot(s, st) == slot' = [slot EXCEPT ![s] = Updated(s, st)]

(* The slot of an unpaid row that ends: for sale again, or offered again.  *)
Freed(k) == IF k = "booking" THEN "open" ELSE "offered"
EndRow(i, how, said) ==
    /\ bk' = [bk EXCEPT ![i].st = "ended", ![i].how = how, ![i].said = said]
    /\ SetSlot(bk[i].s, Freed(bk[i].kind))

ModeNow(i) ==
    IF Started(bk[i].s) THEN "refused"
    ELSE CASE bk[i].st = "unpaid" -> "pending_payment"
           [] bk[i].st = "paid" -> IF slot[bk[i].s].clk = "near" THEN "pending_replacement"
                                   ELSE "refund_with_penalty"
           [] OTHER -> "refused"

OwnUnpaid(s) == {i \in Rows : /\ bk[i].s = s /\ bk[i].st = "unpaid"
                              /\ bk[i].kind = "booking"}
Snapshot(s) ==
    [s |-> s, st |-> slot[s].st, ver |-> slot[s].ver, price |-> slot[s].price,
     mine |-> IF slot[s].st = "reserving" /\ OwnUnpaid(s) # {}
              THEN CHOOSE i \in OwnUnpaid(s) : TRUE ELSE 0]

Answer(r, a) == reqs' = (reqs \ {r}) \cup
                    (IF r.to = "gone" THEN {} ELSE {[r EXCEPT !.ans = a]})
Only(r, a) == Answer(r, a) /\ UNCHANGED server

(* The checkout that blocks a new one: alive, or lapsed with its           *)
(* transaction still open at the gateway.                                  *)
Blocks(i) == bk[i].st = "unpaid" /\ (~bk[i].due \/ bk[i].track)
PendOf(i) == [b |-> i, kind |-> bk[i].kind,
              url |-> bk[i].track /\ ~bk[i].due, resume |-> ~bk[i].due]

(* POST /bookings: one live checkout per user; the version of the slot is  *)
(* the one the page read; a slot its owner offers yields a hold.           *)
\* mutant of Sellable: the version of the slot is not compared
Sellable_anyVersion(s, v) == slot[s].st \in {"open", "offered"} /\ ~Started(s)
Sellable(s, v) == /\ slot[s].st \in {"open", "offered"} /\ ~Started(s)
                  /\ slot[s].ver = v
ServeCreate(r) ==
    LET s == r.arg.s
        Old == {i \in Rows : bk[i].st = "unpaid"}
        k == IF slot[s].st = "open" THEN "booking" ELSE "replacement_hold"
        OldOn(t) == {i \in Old : bk[i].s = t}
    IN
    /\ r.op = "create"
    /\ \/ \E i \in Rows : /\ Blocks(i)
                          /\ Only(r, [code |-> "limit", pend |-> PendOf(i)])
       \/ /\ \A i \in Rows : ~Blocks(i)
          /\ (~Sellable(s, r.arg.ver) \/ Len(bk) = MaxRows)
          /\ Only(r, [code |-> "gone"])
       \/ /\ \A i \in Rows : ~Blocks(i)
          /\ Sellable(s, r.arg.ver) /\ Len(bk) < MaxRows
          /\ bk' = Append([i \in Rows |->
                              IF i \in Old THEN [bk[i] EXCEPT !.st = "ended"]
                              ELSE bk[i]], NewRow(s, k, r.arg))
          /\ slot' = [t \in Slots |->
                CASE t = s -> Updated(t, "reserving")
                  [] t # s /\ OldOn(t) # {} ->
                        Updated(t, Freed(bk[CHOOSE i \in OldOn(t) : TRUE].kind))
                  [] OTHER -> slot[t]]
          /\ Answer(r, [code |-> "ok", b |-> Len(bk) + 1, kind |-> k])

(* The outcome of resolving a transaction: captured money confirms a row   *)
(* that waits for it and is left to a person otherwise.                    *)
\* mutant of Outcome: captured money always reads as a successful payment
Outcome_capturedIsPaid(i) == CASE bk[i].cap -> "paid"
                               [] ~bk[i].cap /\ bk[i].st = "ended" -> "failed"
                               [] OTHER -> "pending"
Outcome(i) == CASE bk[i].won -> "paid"
                [] ~bk[i].won /\ bk[i].cap /\ bk[i].st = "unpaid" -> "paid"
                [] ~bk[i].won /\ bk[i].cap /\ bk[i].st # "unpaid" ->
                       "reconciliation_required"
                [] ~bk[i].won /\ ~bk[i].cap /\ bk[i].st = "ended" -> "failed"
                [] OTHER -> "pending"
Confirm(i) == /\ bk' = [bk EXCEPT ![i].st = "paid", ![i].won = TRUE]
              /\ SetSlot(bk[i].s, "reserved")
Resolve(i) == IF bk[i].cap /\ bk[i].st = "unpaid" THEN Confirm(i)
              ELSE UNCHANGED server

(* POST .../pay, for a booking or for a hold by the path; the number of a  *)
(* row means nothing in the other table.  A hold is paid once; an overdue  *)
(* row ends here, unless the gateway has its money or does not know yet.   *)
Addresses(r) == \/ r.arg.kind = bk[r.arg.b].kind
                \/ r.arg.kind = "booking" /\ bk[r.arg.b].won
Processing(i) == bk[i].kind = "replacement_hold" /\ bk[i].track
ServePay(r) ==
    LET i == r.arg.b
        Done == bk[i].won /\ r.arg.kind = "replacement_hold"
        Waits == Addresses(r) /\ bk[i].st = "unpaid" /\ ~Processing(i)
        Lapsed == Waits /\ bk[i].due /\ ~bk[i].cap
    IN
    /\ r.op = "pay"
    /\ \/ /\ Waits /\ Payable(i)
          /\ bk' = [bk EXCEPT ![i].track = TRUE]
          /\ Answer(r, [code |-> "url"])
          /\ UNCHANGED slot
       \/ /\ Waits /\ bk[i].due /\ bk[i].cap
          /\ Confirm(i) /\ Answer(r, [code |-> "done"])
       \/ /\ Lapsed
          /\ EndRow(i, "none", "none") /\ Answer(r, [code |-> "gone"])
       \/ /\ Addresses(r) /\ Done
          /\ Only(r, [code |-> "done"])
       \/ /\ \/ ~Addresses(r) \/ (~Waits /\ ~Done)
             \/ Lapsed /\ bk[i].track
          /\ Only(r, [code |-> "gone"])

(* DELETE .../replacement-holds/{id}: a hold without a transaction.        *)
ServeRelease(r) ==
    LET i == r.arg.b
        Can == Addresses(r) /\ bk[i].st = "unpaid" /\ ~bk[i].track
    IN
    /\ r.op = "release"
    /\ \/ /\ Can
          /\ EndRow(i, "none", "none") /\ Answer(r, [code |-> "ok"])
       \/ /\ ~Can
          /\ Only(r, [code |-> "gone"])

(* POST /bookings/{id}/cancel: a paid booking is cancelled in the mode the *)
(* user was shown and accepted.  An unpaid one asks the gateway first: the *)
(* booking may turn out to be paid (refused), or become so before the row  *)
(* is locked again (answered as it is).                                    *)
\* mutant of Agreed: the expected mode is not compared
Agreed_anyMode(r, m) == r.arg.accepted
Agreed(r, m) == r.arg.mode = m /\ r.arg.accepted
ServeCancel(r) ==
    LET i == r.arg.b
        m == ModeNow(i)
        Bound == slot[bk[i].s].ver < MaxVer + 4
    IN
    /\ r.op = "cancel"
    /\ \/ /\ Addresses(r) /\ m = "pending_payment" /\ ~bk[i].cap
          /\ EndRow(i, "none", "none") /\ Answer(r, [code |-> "ok"])
       \/ /\ Addresses(r) /\ m = "pending_payment" /\ bk[i].cap
          /\ Confirm(i)
          /\ \E c \in {"gone", "ok"} : Answer(r, [code |-> c])
       \/ /\ Addresses(r) /\ m = "refund_with_penalty" /\ Agreed(r, m)
          /\ EndRow(i, m, r.arg.said) /\ Answer(r, [code |-> "ok"])
       \/ /\ Addresses(r) /\ m = "pending_replacement" /\ Agreed(r, m) /\ Bound
          /\ bk' = [bk EXCEPT ![i].st = "offered", ![i].how = m,
                              ![i].said = r.arg.said]
          /\ SetSlot(bk[i].s, "offered")
          /\ Answer(r, [code |-> "ok"])
       \/ /\ \/ ~Addresses(r) \/ m = "refused"
             \/ m \in {"refund_with_penalty", "pending_replacement"}
                /\ ~(Agreed(r, m) /\ Bound)
          /\ Only(r, [code |-> "gone"])

ServeWithdraw(r) ==
    LET i == r.arg.b
        s == bk[i].s
        Can == bk[i].st = "offered" /\ slot[s].st = "offered" /\ ~Started(s)
    IN
    /\ r.op = "withdraw"
    /\ \/ /\ Can
          /\ bk' = [bk EXCEPT ![i].st = "paid", ![i].how = "none",
                              ![i].said = "none"]
          /\ SetSlot(s, "reserved")
          /\ Answer(r, [code |-> "ok"])
       \/ /\ ~Can
          /\ Only(r, [code |-> "gone"])

ServeVerify(r) ==
    /\ r.op = "verify"
    /\ Resolve(r.arg.b)
    /\ Answer(r, [code |-> "ok", outcome |-> Outcome(r.arg.b)])

(* The calls that only read.                                               *)
InTab(i, tab) ==
    CASE tab = "cancelled" -> bk[i].st = "ended"
      [] tab = "past" -> bk[i].st # "ended" /\ Started(bk[i].s)
      [] tab = "current" -> bk[i].st # "ended" /\ ~Started(bk[i].s)
InList(i, tab) == InTab(i, tab) /\ (bk[i].kind = "booking" \/ bk[i].won)
ServeRead(r) ==
    \/ /\ r.op = "slots"
       /\ Only(r, [code |-> "ok", rows |->
                     {Snapshot(s) : s \in {t \in Slots : DayOf[t] = r.arg.day}}])
    \/ /\ r.op = "pending"
       /\ \E i \in Rows : Blocks(i) /\ Only(r, [code |-> "some", pend |-> PendOf(i)])
    \/ /\ r.op = "pending"
       /\ \A i \in Rows : ~Blocks(i)
       /\ Only(r, [code |-> "null"])
    \/ /\ r.op = "slot"
       /\ Only(r, [code |-> "ok", row |-> Snapshot(r.arg.s)])
    \/ /\ r.op = "detail"
       /\ Only(r, [code |-> CASE ~Addresses(r) -> "failed"
                              [] /\ Addresses(r) /\ bk[r.arg.b].st = "unpaid"
                                 /\ ~Processing(r.arg.b) -> "ok"
                              [] OTHER -> "over"])
    \/ /\ r.op = "list"
       /\ Only(r, [code |-> "ok", rows |-> {[b |-> i, st |-> bk[i].st] :
                     i \in {j \in Rows : InList(j, r.arg.tab)}}])
    \/ /\ r.op = "terms"
       /\ Only(r, [code |-> "ok",
                   terms |-> [b |-> r.arg.b, mode |-> ModeNow(r.arg.b)]])

Serve(r) ==
    /\ r.ans = NoAns
    /\ \/ ServeCreate(r) \/ ServePay(r) \/ ServeRelease(r) \/ ServeCancel(r)
       \/ ServeWithdraw(r) \/ ServeVerify(r) \/ ServeRead(r)
    /\ UNCHANGED <<view, guest, told>>

(* The request or its answer is lost: fetch rejects, with the server's     *)
(* work done or not.                                                       *)
Lose(r) ==
    /\ r.to # "gone"
    /\ r.ans = NoAns \/ (r.ans.code = "ok" /\ r.op \notin Reads)
    /\ reqs' = (reqs \ {r}) \cup {[r EXCEPT !.ans = [code |-> "failed"]]}
    /\ UNCHANGED <<slot, bk, view, guest, told>>

(* Other users and the manager.                                            *)
OthersSlot(s) ==
    /\ slot[s].ver < MaxVer
    /\ \/ /\ slot[s].st = "open" /\ ~Started(s)
          /\ SetSlot(s, "reserved") /\ UNCHANGED bk
       \/ /\ slot[s].st = "reserved" /\ ~Started(s)
          /\ \A i \in Rows : bk[i].s = s => bk[i].st = "ended"
          /\ SetSlot(s, "offered") /\ UNCHANGED bk
    /\ UNCHANGED <<view, reqs, guest, told>>

(* PATCH of a slot by its manager: the row is read without a lock, refused *)
(* when reserved, and written later.  So the write follows any row x the   *)
(* slot has been while open: the price p, if the edit changes the one it   *)
(* read, and the version after the one it read.                            *)
Edited(s, x, p) ==
    Issue([slot[s] EXCEPT !.price = IF p = x[2] THEN @ ELSE p,
                          !.ver = x[1] + 1,
                          !.races = IF x[1] = slot[s].ver THEN @ ELSE @ + 1])
Edit(s, x, p) ==
    /\ x \in slot[s].issued /\ x[3] = "open"
    /\ x[1] < MaxVer /\ slot[s].ver <= MaxVer
    /\ x[1] # slot[s].ver => slot[s].races < MaxRaces
    /\ slot' = [slot EXCEPT ![s] = Edited(s, x, p)]
    /\ UNCHANGED <<bk, view, reqs, guest, told>>

(* The clock.                                                              *)
Tick(s) == /\ ~Started(s)
           /\ slot' = [slot EXCEPT ![s].clk =
                          IF @ = "far" THEN "near" ELSE "started"]
           /\ UNCHANGED <<bk, view, reqs, guest, told>>
Lapse(i) == /\ Payable(i)
            /\ bk' = [bk EXCEPT ![i].due = TRUE]
            /\ UNCHANGED <<slot, view, reqs, guest, told>>

(* The background jobs: an overdue row ends, captured money is applied; a  *)
(* buyer takes an offered slot over.                                       *)
Jobs(i) ==
    /\ \/ /\ bk[i].st = "unpaid" /\ bk[i].due /\ ~bk[i].cap
          /\ EndRow(i, bk[i].how, bk[i].said)
       \/ /\ bk[i].cap /\ bk[i].st = "unpaid"
          /\ Confirm(i)
       \/ /\ bk[i].st = "offered" /\ slot[bk[i].s].st = "offered"
          /\ bk' = [bk EXCEPT ![i].st = "ended"]
          /\ SetSlot(bk[i].s, "reserved")
    /\ UNCHANGED <<view, reqs, guest, told>>
----------------------------------------------------------------------------
(* Common to the pages.                                                    *)

On(r) == r.to = "page"                  \* its page is still mounted
Rest(r) == reqs \ {r}
Then(r, q) == [q EXCEPT !.to = r.to]    \* the next request of a continuation
Is(r, p, k) == r.from = p /\ r.k = k /\ r.ans # NoAns
Set(v) == view' = v
Keep(r, v) == IF On(r) THEN view' = v ELSE UNCHANGED view
Calm == UNCHANGED <<slot, bk, guest, told>>

Bookable(x) == x.st \in {"open", "offered"}
CreateReq(p, x) ==
    Req(p, "create", "create",
        [s |-> x.s, ver |-> x.ver, price |-> x.price])
\* mutant of PayReq: every checkout is paid as a booking
PayReq_asBooking(p, k, b, kind, s) ==
    Req(p, k, "pay", [b |-> b, kind |-> "booking", s |-> s])
PayReq(p, k, b, kind, s) ==
    Req(p, k, "pay", [b |-> b, kind |-> kind, s |-> s])
(* The site's own cancel button of an unpaid checkout.                     *)
DropReq(p, b, kind) ==
    IF kind = "booking"
    THEN Req(p, "drop", "cancel",
             [b |-> b, kind |-> kind, mode |-> "pending_payment",
              accepted |-> FALSE, said |-> "pending_payment"])
    ELSE Req(p, "drop", "release", [b |-> b, kind |-> kind])

(* The user opens a page by its address or by a link.                      *)
Destinations == {VendorPage(d) : d \in Days} \cup {BookPage(s) : s \in Slots}
                    \cup {BookingsPage}
Open(v) ==
    /\ <<view.page, v.page>> \in Links /\ CanSend
    /\ v.page = "bookings" => ~guest
    /\ Push(v, reqs)
    /\ Calm

(* /book without a session sends the user to log in and come back; logging *)
(* in does so.                                                             *)
RedirectGuest ==
    /\ view.page = "book" /\ guest
    /\ Push(LoginPage(view.s), reqs)
    /\ Calm
Login ==
    /\ view.page = "login"
    /\ guest' = FALSE
    /\ Push(BookPage(view.s), reqs)
    /\ UNCHANGED <<slot, bk, told>>
----------------------------------------------------------------------------
(* The vendor page.                                                        *)

OnVendor == view.page = "vendor"

(* Another day: the selection is cleared and the day's slots are fetched.  *)
PickDay(d) ==
    /\ OnVendor /\ d # view.day /\ CanSend
    /\ Set([view EXCEPT !.day = d, !.sel = NoSlot, !.loading = TRUE])
    /\ Send(Req("vendor", "slots", "slots", [day |-> d]))
    /\ Calm
(* fetchSlots applies any answer, whatever day is selected by then.        *)
SlotsArrive(r) ==
    /\ Is(r, "vendor", "slots")
    /\ Keep(r, [view EXCEPT !.loading = FALSE,
                            !.rows = IF r.ans.code = "ok" THEN r.ans.rows ELSE {}])
    /\ reqs' = Rest(r) /\ Calm
SelectSlot(x) ==
    /\ OnVendor /\ ~view.loading /\ x \in view.rows /\ Bookable(x)
    /\ view.sel = NoSlot
    /\ Set([view EXCEPT !.sel = x, !.with = "none"])
    /\ UNCHANGED reqs /\ Calm
(* The user's own unpaid slot: straight to the gateway.                    *)
ContinuePending(x) ==
    /\ OnVendor /\ ~view.loading /\ x \in view.rows /\ view.sel = NoSlot
    /\ x.st = "reserving" /\ x.mine # 0 /\ view.paying = 0 /\ CanSend
    /\ Set([view EXCEPT !.paying = x.mine])
    /\ Send(Req("vendor", "resume", "pay",
                [b |-> x.mine, kind |-> "booking", s |-> x.s]))
    /\ Calm
ResumeArrives(r) ==
    /\ Is(r, "vendor", "resume")
    /\ \/ /\ r.ans.code = "url" /\ Assign(r.arg.b, Rest(r))
       \/ /\ r.ans.code = "done" /\ Push(BookingsPage, Rest(r))
       \/ /\ r.ans.code \notin {"url", "done"} /\ On(r)
          /\ Set([view EXCEPT !.paying = 0, !.sel = NoSlot, !.loading = TRUE])
          /\ reqs' = Rest(r) \cup {Req("vendor", "slots", "slots",
                                       [day |-> DayOf[r.arg.s]])}
       \/ /\ r.ans.code \notin {"url", "done"} /\ ~On(r)
          /\ UNCHANGED view /\ reqs' = Rest(r)
    /\ Calm
ChooseBall(w) ==
    /\ view.page \in {"vendor", "book"} /\ view.sel # NoSlot /\ view.with # w
    /\ view.page = "book" => view.step = "confirm"
    /\ Set([view EXCEPT !.with = w])
    /\ UNCHANGED reqs /\ Calm
CloseBooking ==
    /\ OnVendor /\ view.sel # NoSlot
    /\ Set([view EXCEPT !.sel = NoSlot])
    /\ UNCHANGED reqs /\ Calm
(* confirmBooking: log in first, or create with the version on screen.     *)
ConfirmBooking ==
    /\ OnVendor /\ view.sel # NoSlot /\ ~view.busy /\ view.with # "none"
    /\ ~Started(view.sel.s)
    /\ \/ /\ guest
          /\ Push(LoginPage(view.sel.s), reqs)
       \/ /\ ~guest /\ CanSend
          /\ Set([view EXCEPT !.busy = TRUE])
          /\ Send(CreateReq("vendor", view.sel))
    /\ Calm
(* Created: pay by the kind the answer names.  Anything else: /book        *)
(* re-checks.                                                              *)
Created(r) ==
    /\ r.from \in {"vendor", "book"} /\ r.k = "create" /\ r.ans.code = "ok"
    /\ reqs' = Rest(r) \cup
               {Then(r, PayReq(r.from, "pay", r.ans.b, r.ans.kind, r.arg.s))}
    /\ UNCHANGED view /\ Calm
ConfirmFails(r) ==
    /\ Is(r, "vendor", "create") \/ Is(r, "vendor", "pay")
    /\ r.ans.code \notin {"ok", "url", "done"}
    /\ Push(BookPage(r.arg.s), Rest(r))
    /\ Calm
(* The gateway's address or a booking already paid, from every page that   *)
(* pays: these continuations navigate even when their page was left.       *)
Paid(r) ==
    /\ r.k \in {"pay", "listpay"} /\ r.ans # NoAns
    /\ \/ r.ans.code = "url" /\ Assign(r.arg.b, Rest(r))
       \/ r.ans.code = "done" /\ Push(BookingsPage, Rest(r))
    /\ Calm
----------------------------------------------------------------------------
(* /book.                                                                  *)

Step(s) == view.page = "book" /\ view.step = s

(* loadDetails: a checkout that blocks is shown, else the slot is read.    *)
PendingArrives(r) ==
    /\ Is(r, "book", "pending")
    /\ \/ /\ r.ans.code = "some"
          /\ Keep(r, [view EXCEPT !.step = "conflict", !.pend = r.ans.pend])
          /\ reqs' = Rest(r)
       \/ /\ r.ans.code = "null"
          /\ UNCHANGED view
          /\ reqs' = Rest(r) \cup {Then(r, Req("book", "slot", "slot", r.arg))}
       \/ /\ r.ans.code = "failed"
          /\ Keep(r, [view EXCEPT !.step = "error"])
          /\ reqs' = Rest(r)
    /\ Calm
Fits(r) == r.ans.code = "ok" /\ Bookable(r.ans.row) /\ ~Started(r.arg.s)
SlotArrives(r) ==
    /\ Is(r, "book", "slot")
    /\ \/ /\ Fits(r)
          /\ Keep(r, [view EXCEPT !.step = "confirm", !.sel = r.ans.row,
                                  !.with = "none"])
       \/ /\ ~Fits(r)
          /\ Keep(r, [view EXCEPT !.step = "error"])
    /\ reqs' = Rest(r) /\ Calm
HandleConfirm ==
    /\ Step("confirm") /\ view.with # "none"
    /\ \/ /\ Started(view.s)
          /\ Set([view EXCEPT !.step = "error"]) /\ UNCHANGED reqs
       \/ /\ ~Started(view.s) /\ CanSend
          /\ Set([view EXCEPT !.step = "processing"])
          /\ Send(CreateReq("book", view.sel))
    /\ Calm
(* A conflict (409) shows what blocks; any other failure offers the        *)
(* confirmation again.                                                     *)
BookFails(r) ==
    /\ Is(r, "book", "create") \/ Is(r, "book", "pay")
    /\ \/ /\ r.ans.code = "limit"
          /\ Keep(r, [view EXCEPT !.step = "conflict",
                                  !.pend = [r.ans.pend EXCEPT !.resume = TRUE]])
       \/ /\ r.ans.code = "gone"
          /\ Keep(r, [view EXCEPT !.step = "conflict"])
       \/ /\ r.ans.code = "failed"
          /\ Keep(r, [view EXCEPT !.step = "confirm"])
    /\ reqs' = Rest(r) /\ Calm
ResumePending ==
    /\ Step("conflict") /\ view.pend.b # 0 /\ view.pend.resume
    /\ \/ view.pend.url /\ Assign(view.pend.b, reqs)
       \/ /\ ~view.pend.url /\ CanSend
          /\ Push(PaymentPage(view.pend.b, view.pend.kind), reqs)
    /\ Calm
CancelPending ==
    /\ Step("conflict") /\ view.pend.b # 0 /\ ~view.cancelling /\ CanSend
    /\ Set([view EXCEPT !.cancelling = TRUE])
    /\ Send(DropReq("book", view.pend.b, view.pend.kind))
    /\ Calm
PendingDropped(r) ==
    /\ Is(r, "book", "drop")
    /\ \/ /\ r.ans.code = "ok" /\ On(r)
          /\ Set([view EXCEPT !.pend = NoPend, !.step = "loading",
                              !.cancelling = FALSE])
          /\ reqs' = Rest(r) \cup {Req("book", "pending", "pending", [s |-> view.s])}
       \/ /\ r.ans.code # "ok" \/ ~On(r)
          /\ Keep(r, [view EXCEPT !.cancelling = FALSE])
          /\ reqs' = Rest(r)
    /\ Calm
----------------------------------------------------------------------------
(* /book/payment.                                                          *)

OnPayment == view.page = "payment" /\ view.shown

DetailArrives(r) ==
    /\ Is(r, "payment", "detail")
    /\ \/ /\ r.ans.code = "over"
          /\ Push(BookingsPage, Rest(r))
       \/ /\ r.ans.code # "over"
          /\ Keep(r, [view EXCEPT !.loading = FALSE, !.shown = r.ans.code = "ok"])
          /\ reqs' = Rest(r)
    /\ Calm
HandlePayment ==
    /\ OnPayment /\ ~view.paying /\ ~bk[view.b].due /\ CanSend
    /\ Set([view EXCEPT !.paying = TRUE])
    /\ Send(PayReq("payment", "pay", view.b, view.kind, bk[view.b].s))
    /\ Calm
PaymentFails(r) ==
    /\ Is(r, "payment", "pay") /\ r.ans.code \notin {"url", "done"}
    /\ Keep(r, [view EXCEPT !.paying = FALSE])
    /\ reqs' = Rest(r) /\ Calm
CancelCheckout ==
    /\ OnPayment /\ ~view.cancelling /\ CanSend
    /\ Set([view EXCEPT !.cancelling = TRUE])
    /\ Send(DropReq("payment", view.b, view.kind))
    /\ Calm
CheckoutDropped(r) ==
    /\ Is(r, "payment", "drop")
    /\ \/ /\ r.ans.code = "ok"
          /\ Push(BookingsPage, Rest(r))
       \/ /\ r.ans.code # "ok"
          /\ Keep(r, [view EXCEPT !.cancelling = FALSE])
          /\ reqs' = Rest(r)
    /\ Calm
----------------------------------------------------------------------------
(* The gateway and the callback page.                                      *)

AtGateway == view.page = "gateway"

PayAtGateway ==
    /\ AtGateway /\ bk[view.b].track /\ ~bk[view.b].cap
    /\ bk' = [bk EXCEPT ![view.b].cap = TRUE]
    /\ UNCHANGED <<slot, view, reqs, guest, told>>
(* The browser comes back, through the API with an outcome or not.         *)
ReturnResolved ==
    /\ AtGateway
    /\ Resolve(view.b)
    /\ Push(CallbackPage(view.b, Outcome(view.b)), reqs)
    /\ told' = IF Outcome(view.b) = "paid" THEN told \cup {view.b} ELSE told
    /\ UNCHANGED guest
ReturnToVerify ==
    /\ AtGateway /\ CanSend
    /\ Push(CallbackPage(view.b, "none"), reqs)
    /\ Calm
\* mutant of VerifyArrives: a failed verification leaves the page waiting
VerifyArrives_noFinally(r) ==
    /\ Is(r, "callback", "verify") /\ r.ans.code = "ok"
    /\ Keep(r, [view EXCEPT !.outcome = r.ans.outcome])
    /\ told' = IF On(r) /\ r.ans.outcome = "paid"
               THEN told \cup {r.arg.b} ELSE told
    /\ reqs' = Rest(r)
    /\ UNCHANGED <<slot, bk, guest>>
VerifyArrives(r) ==
    /\ Is(r, "callback", "verify")
    /\ LET o == IF r.ans.code = "ok" THEN r.ans.outcome
                ELSE "reconciliation_required" IN
       /\ Keep(r, [view EXCEPT !.outcome = o, !.loading = FALSE])
       /\ told' = IF On(r) /\ o = "paid" THEN told \cup {r.arg.b} ELSE told
    /\ reqs' = Rest(r)
    /\ UNCHANGED <<slot, bk, guest>>
----------------------------------------------------------------------------
(* The list of bookings and its cancellation dialog.                       *)

OnList == view.page = "bookings"
Listed(x) == OnList /\ ~view.loading /\ x \in view.rows /\ view.dlg = 0
ListReq(tab) == Req("bookings", "list", "list", [tab |-> tab])

SwitchTab(tab) ==
    /\ OnList /\ tab # view.tab /\ view.dlg = 0 /\ CanSend
    /\ Set([view EXCEPT !.tab = tab, !.loading = TRUE])
    /\ Send(ListReq(tab))
    /\ Calm
ListArrives(r) ==
    /\ Is(r, "bookings", "list")
    /\ Keep(r, [view EXCEPT !.loading = FALSE,
                            !.rows = IF r.ans.code = "ok" THEN r.ans.rows ELSE @])
    /\ reqs' = Rest(r) /\ Calm
HandlePay(x) ==
    /\ Listed(x) /\ x.st = "unpaid" /\ view.paying # x.b /\ ~bk[x.b].due /\ CanSend
    /\ Set([view EXCEPT !.paying = x.b])
    /\ Send(PayReq("bookings", "listpay", x.b, "booking", bk[x.b].s))
    /\ Calm
ListPayFails(r) ==
    /\ Is(r, "bookings", "listpay") /\ r.ans.code \notin {"url", "done"}
    /\ Keep(r, [view EXCEPT !.paying = 0])
    /\ reqs' = Rest(r) /\ Calm
(* The dialog opens on a booking and asks for its terms; an answer is      *)
(* shown in the dialog, whichever booking that is open for.                *)
CancelClick(x) ==
    /\ Listed(x) /\ x.st \in {"unpaid", "paid"} /\ CanSend
    /\ x.st = "paid" => ~Started(bk[x.b].s)
    /\ Set([view EXCEPT !.dlg = x.b, !.terms = NoTerms, !.accepted = FALSE])
    /\ Send(Req("bookings", "terms", "terms", [b |-> x.b]))
    /\ Calm
TermsArrive(r) ==
    /\ Is(r, "bookings", "terms")
    /\ \/ /\ r.ans.code = "ok" /\ Keep(r, [view EXCEPT !.terms = r.ans.terms])
       \/ /\ r.ans.code = "failed" /\ Keep(r, [view EXCEPT !.dlg = 0])
    /\ reqs' = Rest(r) /\ Calm
Shown == OnList /\ view.dlg # 0
AcceptTerms ==
    /\ Shown /\ view.terms.mode \in {"pending_replacement", "refund_with_penalty"}
    /\ Set([view EXCEPT !.accepted = ~@])
    /\ UNCHANGED reqs /\ Calm
CloseCancel ==
    /\ Shown
    /\ Set([view EXCEPT !.dlg = 0, !.terms = NoTerms, !.accepted = FALSE])
    /\ UNCHANGED reqs /\ Calm
CanSubmit == /\ view.terms.mode \notin {"none", "refused"}
             /\ view.terms.mode = "pending_payment" \/ view.accepted
ConfirmCancel ==
    /\ Shown /\ CanSubmit /\ ~view.busy /\ CanSend
    /\ Set([view EXCEPT !.busy = TRUE])
    /\ Send(Req("bookings", "cancel", "cancel",
                [b |-> view.dlg, kind |-> "booking", mode |-> view.terms.mode,
                 accepted |-> view.accepted, said |-> view.terms.mode]))
    /\ Calm
CancelArrives(r) ==
    /\ Is(r, "bookings", "cancel")
    /\ \/ /\ r.ans.code = "ok" /\ On(r)
          /\ Set([view EXCEPT !.dlg = 0, !.terms = NoTerms, !.accepted = FALSE,
                              !.busy = FALSE, !.loading = TRUE])
          /\ reqs' = Rest(r) \cup {ListReq(view.tab)}
       \/ /\ r.ans.code # "ok" \/ ~On(r)
          /\ Keep(r, [view EXCEPT !.busy = FALSE])
          /\ reqs' = Rest(r)
    /\ Calm
WithdrawClick(x) ==
    /\ Listed(x) /\ x.st = "offered" /\ view.withdrawing # x.b /\ CanSend
    /\ Set([view EXCEPT !.withdrawing = x.b])
    /\ Send(Req("bookings", "withdraw", "withdraw", [b |-> x.b]))
    /\ Calm
WithdrawArrives(r) ==
    /\ Is(r, "bookings", "withdraw")
    /\ \/ /\ r.ans.code = "ok" /\ On(r)
          /\ Set([view EXCEPT !.withdrawing = 0, !.loading = TRUE])
          /\ reqs' = Rest(r) \cup {ListReq(view.tab)}
       \/ /\ r.ans.code # "ok" \/ ~On(r)
          /\ Keep(r, [view EXCEPT !.withdrawing = 0])
          /\ reqs' = Rest(r)
    /\ Calm
----------------------------------------------------------------------------
FirstRow(st) == [st |-> st, clk |-> "far", ver |-> 0, price |-> 1,
                 issued |-> {<<0, 1, st>>}, races |-> 0]
Init ==
    /\ slot \in [Slots -> {FirstRow(st) : st \in {"open", "reserved", "offered"}}]
    /\ bk = <<>>
    /\ guest = Guest /\ told = {}
    /\ view \in {VendorPage(d) : d \in Days} \cup {BookPage(s) : s \in Slots}
    /\ reqs = IF view.page = "book" /\ guest THEN {} ELSE Mounted(view)

(* An answer is applied.                                                   *)
Deliver(r) ==
    \/ SlotsArrive(r) \/ ResumeArrives(r) \/ Created(r) \/ ConfirmFails(r)
    \/ Paid(r) \/ PendingArrives(r) \/ SlotArrives(r) \/ BookFails(r)
    \/ PendingDropped(r) \/ DetailArrives(r) \/ PaymentFails(r)
    \/ CheckoutDropped(r) \/ VerifyArrives(r) \/ ListArrives(r)
    \/ ListPayFails(r) \/ TermsArrive(r) \/ CancelArrives(r) \/ WithdrawArrives(r)

User ==
    \/ \E v \in Destinations : Open(v)
    \/ RedirectGuest \/ Login
    \/ \E d \in Days : PickDay(d)
    \/ view.page = "vendor"
       /\ \E x \in view.rows : SelectSlot(x) \/ ContinuePending(x)
    \/ \E w \in {"with", "without"} : ChooseBall(w)
    \/ CloseBooking \/ ConfirmBooking
    \/ HandleConfirm \/ ResumePending \/ CancelPending
    \/ HandlePayment \/ CancelCheckout
    \/ PayAtGateway \/ ReturnResolved \/ ReturnToVerify
    \/ \E t \in Tabs : SwitchTab(t)
    \/ view.page = "bookings"
       /\ \E x \in view.rows : HandlePay(x) \/ CancelClick(x) \/ WithdrawClick(x)
    \/ AcceptTerms \/ CloseCancel \/ ConfirmCancel

World == \/ \E s \in Slots : OthersSlot(s) \/ Tick(s)
         \/ \E s \in Slots : \E x \in slot[s].issued, p \in Prices : Edit(s, x, p)
         \/ \E i \in Rows : Lapse(i) \/ Jobs(i)

Next == User \/ World \/ \E r \in reqs : Serve(r) \/ Lose(r) \/ Deliver(r)
Spec == Init /\ [][Next]_vars
----------------------------------------------------------------------------
(* Properties.                                                             *)

PageOK(v) ==
    CASE v.page = "vendor" -> v.day \in Days /\ v.paying \in 0..Len(bk)
      [] v.page = "book" -> v.s \in Slots /\ v.pend.b \in 0..Len(bk)
      [] v.page = "payment" -> v.b \in Rows /\ v.kind \in Kinds
      [] v.page = "callback" -> v.b \in Rows /\ (v.loading <=> v.outcome = "none")
      [] v.page = "bookings" -> v.dlg \in 0..Len(bk) /\ v.terms.mode \in Modes
      [] v.page = "login" -> v.s \in Slots
      [] v.page = "gateway" -> v.b \in Rows

(* Types of the rows and of the mounted page's state: every number on a    *)
(* page names a row, and the callback page waits exactly until it knows an *)
(* outcome.                                                                *)
TypeOK ==
    /\ \A s \in Slots : slot[s].st \in SlotStatus /\ slot[s].ver \in Nat
    /\ \A i \in Rows : /\ bk[i].s \in Slots /\ bk[i].kind \in Kinds
                       /\ bk[i].st \in {"unpaid", "paid", "offered", "ended"}
    /\ PageOK(view)
    /\ \A r \in reqs : r.to \in {"page", "left", "gone"}
    /\ told \subseteq Rows

(* A payment, a cancellation or a look at a checkout names the table the   *)
(* row is in, whatever page carried its number there: a hold's number      *)
(* means another row, or none, among the bookings.                         *)
CallsAddressTheirRow ==
    \A r \in reqs : r.op \in {"pay", "detail", "cancel", "release"} => Addresses(r)

(* What was shown is what is done, however old the page: the price that a  *)
(* booking is charged for its slot is the one next to the button, and a    *)
(* paid booking is given up only in the mode its dialog named, though time *)
(* passes and payments arrive while it is open.  The price may be another  *)
(* one only if the version on the page was issued again at another price,  *)
(* and that takes an edit written over a row that had changed since it was *)
(* read.                                                                   *)
Reissued(s, v) ==
    \E x, y \in slot[s].issued : x[1] = v /\ y[1] = v /\ x[2] # y[2]
TermsWereShown ==
    /\ \A i \in Rows : bk[i].quoted \/ Reissued(bk[i].s, bk[i].ver)
    /\ \A s \in Slots : (\E x \in slot[s].issued : Reissued(s, x[1]))
                          => slot[s].races # 0
    /\ \A i \in Rows : bk[i].how # "none" => bk[i].said = bk[i].how

(* The page says "paid" only of a row that did get its slot: money that    *)
(* arrives after the row ended is not shown as success.                    *)
ToldPaidIsPaid == \A i \in told : bk[i].won

=============================================================================
