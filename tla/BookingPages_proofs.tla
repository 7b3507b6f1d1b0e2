------------------------- MODULE BookingPages_proofs -------------------------
(***************************************************************************)
(* What holds of the booking pages for any slots and days and any number   *)
(* of rows, calls and edits.                                               *)
(*                                                                         *)
(* A page acts on what it read before, so the invariant says in which      *)
(* sense everything a page or an answer carries is still true: a number    *)
(* names the row it named, a version stands beside a price it was issued   *)
(* at.  What the server does to its rows keeps all of it, which is stated  *)
(* once (KeepsTrue) over the rows before and after.                        *)
(***************************************************************************)
EXTENDS BookingPages, SequenceTheorems, TLAPS

(* The values of a row of the server, and of a slot as a page shows it.    *)
Issues == Nat \X Prices \X SlotStatus
SlotSpace == [st : SlotStatus, clk : {"far", "near", "started"}, ver : Nat,
              price : Prices, issued : SUBSET Issues, races : Nat]
BookingRows == [s : Slots, kind : Kinds, st : {"unpaid", "paid", "offered", "ended"},
                due : BOOLEAN, track : BOOLEAN, cap : BOOLEAN, won : BOOLEAN,
                how : Modes, said : Modes, ver : Nat, quoted : BOOLEAN]
Snaps == [s : Slots, st : SlotStatus, ver : Nat, price : Prices, mine : Nat]
Pends == [b : Nat, kind : Kinds, url : BOOLEAN, resume : BOOLEAN]
TermsSet == [b : Nat, mode : Modes]
ListRows == [b : Nat, st : {"unpaid", "paid", "offered", "ended"}]
Outcomes == {"none", "paid", "failed", "pending", "reconciliation_required"}
Choices == {"none", "with", "without"}

(* The component state of each page.                                       *)
VendorViews == [page : {"vendor"}, day : Days, rows : SUBSET Snaps,
                loading : BOOLEAN, sel : Snaps \cup {NoSlot}, with : Choices,
                busy : BOOLEAN, paying : Nat]
BookViews == [page : {"book"}, s : Slots,
              step : {"loading", "conflict", "error", "confirm", "processing"},
              sel : Snaps \cup {NoSlot}, with : Choices, pend : Pends,
              cancelling : BOOLEAN]
PaymentViews == [page : {"payment"}, b : Nat, kind : Kinds, loading : BOOLEAN,
                 shown : BOOLEAN, paying : BOOLEAN, cancelling : BOOLEAN]
CallbackViews == [page : {"callback"}, b : Nat, outcome : Outcomes,
                  loading : BOOLEAN]
BookingsViews == [page : {"bookings"}, tab : {"current", "past", "cancelled"},
                  rows : SUBSET ListRows, loading : BOOLEAN, paying : Nat,
                  withdrawing : Nat, dlg : Nat, terms : TermsSet,
                  accepted : BOOLEAN, busy : BOOLEAN]

-----------------------------------------------------------------------------
(* What a page and a call carry is true of the server's rows B and slots S. *)

(* A number and a kind name a row: the kind is the one of its table, or    *)
(* the row became a booking when it was paid.                              *)
Names(b, kind, B) ==
    /\ b \in 1..Len(B)
    /\ kind = B[b].kind \/ (kind = "booking" /\ B[b].won)

(* Two prices issued under one version, and a slot's history: the row it   *)
(* is was issued, and while no edit was written over a newer row, no       *)
(* version came back and none has two prices.                              *)
Twice(W, v) == \E x, y \in W : x[1] = v /\ y[1] = v /\ x[2] # y[2]
InOrder(W, v) == \A x, y \in W : x[1] <= v /\ (x[1] = y[1] => x[2] = y[2])
History(w) == /\ <<w.ver, w.price, w.st>> \in w.issued
              /\ w.races = 0 => InOrder(w.issued, w.ver)
SlotRows == {w \in SlotSpace : History(w)}

(* The price beside a version is one that version was issued at.           *)
Quotes(x, S) ==
    x.ver \in Nat /\ \E y \in S[x.s].issued : y[1] = x.ver /\ y[2] = x.price

SnapTrue(x, B, S) ==
    /\ x \in Snaps
    /\ Quotes(x, S)
    /\ x.mine # 0 => Names(x.mine, "booking", B)
PendTrue(p, B) == p \in Pends /\ (p.b # 0 => Names(p.b, p.kind, B))
ListTrue(R, B) == R \subseteq ListRows /\ \A x \in R : Names(x.b, "booking", B)
SnapsTrue(R, B, S) == R \subseteq Snaps /\ \A x \in R : SnapTrue(x, B, S)

VendorTrue(v, B, S) ==
    /\ v \in VendorViews
    /\ SnapsTrue(v.rows, B, S)
    /\ v.sel # NoSlot => SnapTrue(v.sel, B, S)
    /\ v.paying \in 0..Len(B)
BookTrue(v, B, S) ==
    /\ v \in BookViews
    /\ v.sel # NoSlot => SnapTrue(v.sel, B, S)
    /\ v.with # "none" => v.sel # NoSlot
    /\ PendTrue(v.pend, B)
PaymentTrue(v, B) == v \in PaymentViews /\ Names(v.b, v.kind, B)
CallbackTrue(v, B) == /\ v \in CallbackViews /\ v.b \in 1..Len(B)
                      /\ v.loading <=> v.outcome = "none"
BookingsTrue(v, B) == /\ v \in BookingsViews
                      /\ ListTrue(v.rows, B)
                      /\ v.dlg # 0 => Names(v.dlg, "booking", B)
LoginTrue(v) == v.s \in Slots
GatewayTrue(v, B) == v.b \in 1..Len(B)
ViewTrue(v, B, S) ==
    /\ v.page \in PageKinds \cup {"gateway"}
    /\ v.page = "vendor" => VendorTrue(v, B, S)
    /\ v.page = "book" => BookTrue(v, B, S)
    /\ v.page = "payment" => PaymentTrue(v, B)
    /\ v.page = "callback" => CallbackTrue(v, B)
    /\ v.page = "bookings" => BookingsTrue(v, B)
    /\ v.page = "login" => LoginTrue(v)
    /\ v.page = "gateway" => GatewayTrue(v, B)

(* A call: its continuation tells what was asked.                          *)
CallForm(r) ==
    /\ r = [from |-> r.from, k |-> r.k, op |-> r.op, arg |-> r.arg,
            ans |-> r.ans, to |-> r.to]
    /\ r.to \in {"page", "left", "gone"}
    /\ r.k \in {"slots", "pending", "slot", "create", "detail", "verify", "list",
                "terms", "cancel", "withdraw", "pay", "listpay", "resume", "drop"}
    /\ r.k \in {"slots", "pending", "slot", "create", "detail", "verify", "list",
                "terms", "cancel", "withdraw"} => r.op = r.k
    /\ r.k \in {"pay", "listpay", "resume"} => r.op = "pay"
    /\ r.k = "drop" => r.op \in {"cancel", "release"}
ArgTrue(r, B, S) ==
    /\ r.op \in {"pending", "slot", "create", "pay"} => r.arg.s \in Slots
    /\ r.op = "create" => Quotes(r.arg, S)
    /\ r.op \in {"pay", "detail", "cancel", "release"} =>
          Names(r.arg.b, r.arg.kind, B)
    /\ r.op = "cancel" => r.arg.mode \in Modes /\ r.arg.said = r.arg.mode
    /\ r.op \in {"verify", "terms", "withdraw"} => r.arg.b \in 1..Len(B)
Replies(op, arg, ans, B, S) ==
    /\ ans.code \in {"some", "limit"} => PendTrue(ans.pend, B)
    /\ ans.code = "ok" =>
          /\ op = "slots" => SnapsTrue(ans.rows, B, S)
          /\ op = "slot" => SnapTrue(ans.row, B, S)
          /\ op = "create" => /\ ans.b \in 1..Len(B)
                              /\ ans.kind = B[ans.b].kind
          /\ op = "verify" => /\ ans.outcome \in Outcomes \ {"none"}
                              /\ ans.outcome = "paid" => B[arg.b].won
          /\ op = "list" => ListTrue(ans.rows, B)
          /\ op = "terms" => ans.terms \in TermsSet
AnsTrue(r, B, S) == Replies(r.op, r.arg, r.ans, B, S)
CallTrue(r, B, S) == CallForm(r) /\ ArgTrue(r, B, S) /\ AnsTrue(r, B, S)

(* No row was given up in another mode than the one shown, or charged      *)
(* another price, unless its version had two.                              *)
ShownTerms(b) == b.how # "none" => b.said = b.how
Charged(b, S) == b.quoted \/ Twice(S[b.s].issued, b.ver)
RowsCharged(B, S) == \A i \in 1..Len(B) : Charged(B[i], S)
RowsTrue(B, S) ==
    /\ S \in [Slots -> SlotRows]
    /\ B \in Seq(BookingRows)
    /\ \A i \in 1..Len(B) : ShownTerms(B[i])
ToldTrue(T, B) == \A i \in T : i \in 1..Len(B) /\ B[i].won

(* The inductive invariant.  An answer that goes to the mounted page is    *)
(* for a page of that name.                                                *)
CallsTrue(R, p, B, S) ==
    \A r \in R : CallTrue(r, B, S) /\ (r.to = "page" => r.from = p)
PagesInv ==
    /\ RowsTrue(bk, slot)
    /\ RowsCharged(bk, slot)
    /\ ViewTrue(view, bk, slot)
    /\ CallsTrue(reqs, view.page, bk, slot)
    /\ ToldTrue(told, bk)

USE PagesAssumption

-----------------------------------------------------------------------------
(* Pages when they are mounted *)

(* What stands for null. *)
LEMMA Nulls ==
    /\ NoPend \in Pends /\ NoPend.b = 0 /\ NoTerms \in TermsSet
    /\ {} \subseteq Snaps /\ {} \subseteq ListRows
BY DEF NoPend, Pends, NoTerms, TermsSet, Kinds, Modes

LEMMA VendorFresh ==
    ASSUME NEW d \in Days, NEW B, NEW S, Len(B) \in Nat
    PROVE  ViewTrue(VendorPage(d), B, S) /\ VendorPage(d).page = "vendor"
<1> DEFINE v == VendorPage(d)
<1>1. v \in VendorViews
  BY DEF VendorPage, VendorViews, Choices
<1>2. v.rows = {} /\ v.sel = NoSlot /\ v.paying = 0 /\ v.page = "vendor"
  BY DEF VendorPage
<1>3. VendorTrue(v, B, S)
  BY <1>1, <1>2 DEF VendorTrue, SnapsTrue
<1> QED BY <1>2, <1>3 DEF ViewTrue, PageKinds

LEMMA BookFresh ==
    ASSUME NEW s \in Slots, NEW B, NEW S
    PROVE  ViewTrue(BookPage(s), B, S) /\ BookPage(s).page = "book"
<1> DEFINE v == BookPage(s)
<1>1. v \in BookViews
  BY Nulls DEF BookPage, BookViews, Choices
<1>2. v.sel = NoSlot /\ v.with = "none" /\ v.pend = NoPend /\ v.page = "book"
  BY DEF BookPage
<1>3. BookTrue(v, B, S)
  BY <1>1, <1>2, Nulls DEF BookTrue, PendTrue
<1> QED BY <1>2, <1>3 DEF ViewTrue, PageKinds

LEMMA PaymentFresh ==
    ASSUME NEW b, NEW k \in Kinds, NEW B, NEW S, Len(B) \in Nat, Names(b, k, B)
    PROVE  ViewTrue(PaymentPage(b, k), B, S) /\ PaymentPage(b, k).page = "payment"
<1> DEFINE v == PaymentPage(b, k)
<1>1. v \in PaymentViews
  BY DEF PaymentPage, PaymentViews, Names
<1>2. v.b = b /\ v.kind = k /\ v.page = "payment"
  BY DEF PaymentPage
<1>3. PaymentTrue(v, B)
  BY <1>1, <1>2 DEF PaymentTrue
<1> QED BY <1>2, <1>3 DEF ViewTrue, PageKinds

LEMMA CallbackFresh ==
    ASSUME NEW B, NEW S, Len(B) \in Nat, NEW b \in 1..Len(B), NEW o \in Outcomes
    PROVE  ViewTrue(CallbackPage(b, o), B, S) /\ CallbackPage(b, o).page = "callback"
<1> DEFINE v == CallbackPage(b, o)
<1>1. v \in CallbackViews
  BY DEF CallbackPage, CallbackViews
<1>2. v.b = b /\ (v.loading <=> v.outcome = "none") /\ v.page = "callback"
  BY DEF CallbackPage
<1>3. CallbackTrue(v, B)
  BY <1>1, <1>2 DEF CallbackTrue
<1> QED BY <1>2, <1>3 DEF ViewTrue, PageKinds

LEMMA BookingsFresh ==
    ASSUME NEW B, NEW S
    PROVE  ViewTrue(BookingsPage, B, S) /\ BookingsPage.page = "bookings"
<1> DEFINE v == BookingsPage
<1>1. v \in BookingsViews
  BY Nulls DEF BookingsPage, BookingsViews
<1>2. v.rows = {} /\ v.dlg = 0 /\ v.page = "bookings"
  BY DEF BookingsPage
<1>3. BookingsTrue(v, B)
  BY <1>1, <1>2 DEF BookingsTrue, ListTrue
<1> QED BY <1>2, <1>3 DEF ViewTrue, PageKinds

LEMMA LoginFresh ==
    ASSUME NEW s \in Slots, NEW B, NEW S
    PROVE  ViewTrue(LoginPage(s), B, S) /\ LoginPage(s).page = "login"
BY DEF ViewTrue, PageKinds, LoginPage, LoginTrue

LEMMA GatewayFresh ==
    ASSUME NEW B, NEW S, NEW b \in 1..Len(B)
    PROVE  ViewTrue(Gateway(b), B, S) /\ Gateway(b).page = "gateway"
BY DEF ViewTrue, PageKinds, Gateway, GatewayTrue

-----------------------------------------------------------------------------
(* Calls *)

(* A call that was just sent: its form and its empty answer. *)
LEMMA NewCall ==
    ASSUME NEW p, NEW k, NEW op, NEW arg, NEW B, NEW S
    PROVE  LET q == Req(p, k, op, arg) IN
           /\ q.from = p /\ q.k = k /\ q.op = op /\ q.arg = arg /\ q.to = "page"
           /\ q = [from |-> q.from, k |-> q.k, op |-> q.op, arg |-> q.arg,
                   ans |-> q.ans, to |-> q.to]
           /\ AnsTrue(q, B, S)
BY DEF Req, AnsTrue, Replies, NoAns

(* What a page asks for first names the row it is about. *)
LEMMA MountedTrue ==
    ASSUME NEW v, NEW B, NEW S, ViewTrue(v, B, S), NEW q \in Mounted(v)
    PROVE  CallTrue(q, B, S) /\ q.from = v.page
<1>1. CASE v.page = "vendor"
  <2>1. q = Req("vendor", "slots", "slots", [day |-> v.day])
    BY <1>1 DEF Mounted
  <2> QED BY <1>1, <2>1, NewCall DEF CallTrue, CallForm, ArgTrue
<1>2. CASE v.page = "book"
  <2>1. q = Req("book", "pending", "pending", [s |-> v.s])
    BY <1>2 DEF Mounted
  <2>2. v.s \in Slots
    BY <1>2 DEF ViewTrue, BookTrue, BookViews
  <2> QED BY <1>2, <2>1, <2>2, NewCall DEF CallTrue, CallForm, ArgTrue
<1>3. CASE v.page = "payment"
  <2>1. q = Req("payment", "detail", "detail", [b |-> v.b, kind |-> v.kind])
    BY <1>3 DEF Mounted
  <2>2. Names(v.b, v.kind, B)
    BY <1>3 DEF ViewTrue, PaymentTrue
  <2> QED BY <1>3, <2>1, <2>2, NewCall DEF CallTrue, CallForm, ArgTrue
<1>4. CASE v.page = "callback"
  <2>1. q = Req("callback", "verify", "verify", [b |-> v.b])
    BY <1>4 DEF Mounted
  <2>2. v.b \in 1..Len(B)
    BY <1>4 DEF ViewTrue, CallbackTrue
  <2> QED BY <1>4, <2>1, <2>2, NewCall DEF CallTrue, CallForm, ArgTrue
<1>5. CASE v.page = "bookings"
  <2>1. q = Req("bookings", "list", "list", [tab |-> v.tab])
    BY <1>5 DEF Mounted
  <2> QED BY <1>5, <2>1, NewCall DEF CallTrue, CallForm, ArgTrue
<1>6. v.page \notin {"login", "gateway"}
  BY DEF Mounted
<1> QED BY <1>1, <1>2, <1>3, <1>4, <1>5, <1>6 DEF ViewTrue, PageKinds

(* A call stays true when its answer goes elsewhere. *)
LEMMA Redirected ==
    ASSUME NEW r, NEW B, NEW S, CallTrue(r, B, S), NEW t \in {"page", "left", "gone"}
    PROVE  LET q == [r EXCEPT !.to = t] IN CallTrue(q, B, S) /\ q.to = t
<1> DEFINE q == [r EXCEPT !.to = t]
<1>1. /\ q.from = r.from /\ q.k = r.k /\ q.op = r.op /\ q.arg = r.arg
      /\ q.ans = r.ans /\ q.to = t
      /\ q = [from |-> q.from, k |-> q.k, op |-> q.op, arg |-> q.arg,
              ans |-> q.ans, to |-> q.to]
  BY DEF CallTrue, CallForm
<1> HIDE DEF q
<1>2. CallForm(q)
  BY <1>1 DEF CallTrue, CallForm
<1>3. ArgTrue(q, B, S)
  BY <1>1 DEF CallTrue, ArgTrue
<1>4. AnsTrue(q, B, S)
  BY <1>1 DEF CallTrue, AnsTrue
<1> QED BY <1>1, <1>2, <1>3, <1>4 DEF CallTrue, q

(* No answer of a page that was left goes to the page mounted next. *)
LEMMA LeftTrue ==
    ASSUME NEW R, NEW B, NEW S, \A r \in R : CallTrue(r, B, S), NEW q \in Left(R)
    PROVE  CallTrue(q, B, S) /\ q.to # "page"
<1>1. PICK r \in R : q = [r EXCEPT !.to = IF r.to = "page" THEN "left" ELSE r.to]
  BY DEF Left
<1>2. (IF r.to = "page" THEN "left" ELSE r.to) \in {"left", "gone"}
  BY DEF CallTrue, CallForm
<1> QED BY <1>1, <1>2, Redirected

LEMMA GoneTrue ==
    ASSUME NEW R, NEW B, NEW S, \A r \in R : CallTrue(r, B, S), NEW q \in Gone(R)
    PROVE  CallTrue(q, B, S) /\ q.to # "page"
<1>1. PICK r \in R : q = [r EXCEPT !.to = "gone"]
  BY DEF Gone
<1> QED BY <1>1, Redirected

-----------------------------------------------------------------------------
(* Steps of a page *)

LEMMA Lengths == ASSUME PagesInv PROVE Len(bk) \in Nat /\ Rows = 1..Len(bk)
BY LenProperties DEF PagesInv, RowsTrue, Rows

LEMMA RowOf ==
    ASSUME PagesInv, NEW i \in 1..Len(bk)
    PROVE  bk[i] \in BookingRows /\ bk[i].s \in Slots /\ slot[bk[i].s] \in SlotRows
<1>1. bk[i] \in BookingRows
  BY ElementOfSeq DEF PagesInv, RowsTrue
<1> QED BY <1>1 DEF BookingRows, PagesInv, RowsTrue

LEMMA CallOf ==
    ASSUME PagesInv, NEW r \in reqs
    PROVE  CallTrue(r, bk, slot) /\ (r.to = "page" => r.from = view.page)
BY DEF PagesInv, CallsTrue

LEMMA ViewOf == ASSUME PagesInv PROVE ViewTrue(view, bk, slot)
BY DEF PagesInv

(* The page stays: what it holds then is true, and so is the call it adds.  *)
LEMMA Stays ==
    ASSUME PagesInv, UNCHANGED <<slot, bk, told>>,
           ViewTrue(view', bk, slot), view'.page = view.page,
           NEW q, reqs' \subseteq reqs \cup {q},
           CallTrue(q, bk, slot), q.to = "page" => q.from = view.page
    PROVE  PagesInv'
BY DEF PagesInv, CallsTrue

LEMMA StaysQuiet ==
    ASSUME PagesInv, UNCHANGED <<slot, bk, told>>, reqs' \subseteq reqs,
           view' = view \/ (ViewTrue(view', bk, slot) /\ view'.page = view.page)
    PROVE  PagesInv'
BY DEF PagesInv, CallsTrue

(* Another page is mounted, in this document or at the gateway.            *)
LEMMA Moves ==
    ASSUME PagesInv, UNCHANGED <<slot, bk, told>>,
           NEW v, ViewTrue(v, bk, slot), NEW R, R \subseteq reqs,
           view' = v, reqs' = Left(R) \cup Mounted(v)
    PROVE  PagesInv'
<1>1. \A q \in Left(R) : CallTrue(q, bk, slot) /\ q.to # "page"
  BY LeftTrue DEF PagesInv, CallsTrue
<1>2. \A q \in Mounted(v) : CallTrue(q, bk, slot) /\ q.from = v.page
  BY MountedTrue
<1>3. CallsTrue(reqs', v.page, bk, slot)
  BY <1>1, <1>2 DEF CallsTrue
<1> QED BY <1>3 DEF PagesInv

LEMMA Leaves ==
    ASSUME PagesInv, UNCHANGED <<slot, bk, told>>,
           NEW b, b \in 1..Len(bk), NEW R, R \subseteq reqs, Assign(b, R)
    PROVE  PagesInv'
<1>1. \A q \in Gone(R) : CallTrue(q, bk, slot) /\ q.to # "page"
  BY GoneTrue DEF PagesInv, CallsTrue
<1>2. ViewTrue(view', bk, slot)
  BY GatewayFresh DEF Assign
<1>3. CallsTrue(reqs', view'.page, bk, slot)
  BY <1>1 DEF CallsTrue, Assign
<1> QED BY <1>2, <1>3 DEF PagesInv

(* What each page holds is the invariant of a mounted page of its name.    *)
LEMMA VendorView ==
    ASSUME NEW v, NEW B, NEW S, VendorTrue(v, B, S)
    PROVE  ViewTrue(v, B, S) /\ v.page = "vendor"
BY DEF ViewTrue, VendorTrue, VendorViews, PageKinds
LEMMA BookView ==
    ASSUME NEW v, NEW B, NEW S, BookTrue(v, B, S)
    PROVE  ViewTrue(v, B, S) /\ v.page = "book"
BY DEF ViewTrue, BookTrue, BookViews, PageKinds
LEMMA PaymentView ==
    ASSUME NEW v, NEW B, NEW S, PaymentTrue(v, B)
    PROVE  ViewTrue(v, B, S) /\ v.page = "payment"
BY DEF ViewTrue, PaymentTrue, PaymentViews, PageKinds
LEMMA CallbackView ==
    ASSUME NEW v, NEW B, NEW S, CallbackTrue(v, B)
    PROVE  ViewTrue(v, B, S) /\ v.page = "callback"
BY DEF ViewTrue, CallbackTrue, CallbackViews, PageKinds
LEMMA BookingsView ==
    ASSUME NEW v, NEW B, NEW S, BookingsTrue(v, B)
    PROVE  ViewTrue(v, B, S) /\ v.page = "bookings"
BY DEF ViewTrue, BookingsTrue, BookingsViews, PageKinds

(* The calls the pages send. *)
LEMMA SlotsCall ==
    ASSUME NEW B, NEW S, NEW d
    PROVE  LET q == Req("vendor", "slots", "slots", [day |-> d]) IN
           CallTrue(q, B, S) /\ q.from = "vendor"
BY NewCall DEF CallTrue, CallForm, ArgTrue

LEMMA CreateCall ==
    ASSUME NEW B, NEW S, NEW p, NEW x, SnapTrue(x, B, S)
    PROVE  LET q == CreateReq(p, x) IN CallTrue(q, B, S) /\ q.from = p
<1> DEFINE a == [s |-> x.s, ver |-> x.ver, price |-> x.price]
           q == Req(p, "create", "create", a)
<1>1. a.s \in Slots /\ Quotes(a, S)
  BY DEF SnapTrue, Snaps, Quotes
<1> HIDE DEF a
<1>2. CallTrue(q, B, S) /\ q.from = p
  BY <1>1, NewCall DEF CallTrue, CallForm, ArgTrue
<1> QED BY <1>2 DEF CreateReq, a

LEMMA PayCall ==
    ASSUME NEW B, NEW S, NEW p, NEW k \in {"pay", "listpay", "resume"},
           NEW b, NEW kind, Names(b, kind, B), NEW s \in Slots
    PROVE  LET q == PayReq(p, k, b, kind, s) IN CallTrue(q, B, S) /\ q.from = p
<1> DEFINE a == [b |-> b, kind |-> kind, s |-> s]
           q == Req(p, k, "pay", a)
<1>1. a.s \in Slots /\ Names(a.b, a.kind, B)
  OBVIOUS
<1> HIDE DEF a
<1>2. CallTrue(q, B, S) /\ q.from = p
  BY <1>1, NewCall DEF CallTrue, CallForm, ArgTrue
<1> QED BY <1>2 DEF PayReq, a

LEMMA DropCall ==
    ASSUME NEW B, NEW S, NEW p, NEW b, NEW kind, Names(b, kind, B)
    PROVE  LET q == DropReq(p, b, kind) IN CallTrue(q, B, S) /\ q.from = p
<1>1. CASE kind = "booking"
  <2> DEFINE a == [b |-> b, kind |-> kind, mode |-> "pending_payment",
                   accepted |-> FALSE, said |-> "pending_payment"]
             q == Req(p, "drop", "cancel", a)
  <2>1. Names(a.b, a.kind, B) /\ a.mode \in Modes /\ a.said = a.mode
    BY DEF Modes
  <2> HIDE DEF a
  <2>2. CallTrue(q, B, S) /\ q.from = p
    BY <2>1, NewCall DEF CallTrue, CallForm, ArgTrue
  <2> QED BY <1>1, <2>2 DEF DropReq, a
<1>2. CASE kind # "booking"
  <2> DEFINE a == [b |-> b, kind |-> kind]
             q == Req(p, "drop", "release", a)
  <2>1. Names(a.b, a.kind, B)
    OBVIOUS
  <2> HIDE DEF a
  <2>2. /\ q.from = p /\ q.k = "drop" /\ q.op = "release" /\ q.arg = a
        /\ q.to = "page" /\ AnsTrue(q, B, S)
        /\ q = [from |-> q.from, k |-> q.k, op |-> q.op, arg |-> q.arg,
                ans |-> q.ans, to |-> q.to]
    BY NewCall
  <2> HIDE DEF q
  <2>3. CallForm(q) /\ ArgTrue(q, B, S)
    BY <2>1, <2>2 DEF CallForm, ArgTrue
  <2>4. CallTrue(q, B, S) /\ q.from = p
    BY <2>2, <2>3 DEF CallTrue
  <2> QED BY <1>2, <2>4 DEF DropReq, a, q
<1> QED BY <1>1, <1>2

-----------------------------------------------------------------------------
(* Links and the login *)

LEMMA OpenTrue ==
    ASSUME PagesInv, NEW v \in Destinations, Open(v)
    PROVE  PagesInv'
<1>1. ViewTrue(v, bk, slot)
  BY VendorFresh, BookFresh, BookingsFresh, Lengths DEF Destinations
<1> QED BY <1>1, Moves DEF Open, Push, Calm

LEMMA RedirectTrue == ASSUME PagesInv, RedirectGuest PROVE PagesInv'
<1>1. view.s \in Slots
  BY ViewOf DEF RedirectGuest, ViewTrue, BookTrue, BookViews
<1>2. ViewTrue(LoginPage(view.s), bk, slot)
  BY <1>1, LoginFresh
<1> QED BY <1>2, Moves DEF RedirectGuest, Push, Calm

LEMMA LoginStep == ASSUME PagesInv, Login PROVE PagesInv'
<1>1. view.s \in Slots
  BY ViewOf DEF Login, ViewTrue, LoginTrue
<1>2. ViewTrue(BookPage(view.s), bk, slot)
  BY <1>1, BookFresh
<1> QED BY <1>2, Moves DEF Login, Push

-----------------------------------------------------------------------------
(* The vendor page *)

LEMMA VendorOf ==
    ASSUME PagesInv, view.page = "vendor"
    PROVE  VendorTrue(view, bk, slot)
BY ViewOf DEF ViewTrue

LEMMA PickDayTrue == ASSUME PagesInv, NEW d \in Days, PickDay(d) PROVE PagesInv'
<1> DEFINE q == Req("vendor", "slots", "slots", [day |-> d])
<1>1. VendorTrue(view, bk, slot)
  BY VendorOf DEF PickDay, OnVendor
<1>2. VendorTrue(view', bk, slot)
  BY <1>1 DEF PickDay, Set, VendorTrue, VendorViews
<1>3. CallTrue(q, bk, slot) /\ q.from = "vendor"
  BY SlotsCall
<1>4. reqs' \subseteq reqs \cup {q}
  BY DEF PickDay, Send
<1> HIDE DEF q
<1>5. ViewTrue(view', bk, slot) /\ view'.page = view.page
  BY <1>1, <1>2, VendorView
<1>6. view.page = "vendor"
  BY DEF PickDay, OnVendor
<1> QED BY <1>3, <1>4, <1>5, <1>6, Stays DEF PickDay, Calm

LEMMA SlotsArriveTrue ==
    ASSUME PagesInv, NEW r \in reqs, SlotsArrive(r)
    PROVE  PagesInv'
<1>1. CASE On(r)
  <2> DEFINE R == IF r.ans.code = "ok" THEN r.ans.rows ELSE {}
  <2>1. CallTrue(r, bk, slot) /\ view.page = "vendor" /\ r.k = "slots"
    BY <1>1, CallOf DEF On, SlotsArrive, Is
  <2>2. SnapsTrue(R, bk, slot)
    BY <2>1 DEF CallTrue, CallForm, AnsTrue, Replies, SnapsTrue
  <2>3. VendorTrue(view, bk, slot)
    BY <2>1, VendorOf
  <2>4. view' = [view EXCEPT !.loading = FALSE, !.rows = R]
    BY <1>1 DEF SlotsArrive, Keep
  <2> HIDE DEF R
  <2>5. VendorTrue(view', bk, slot)
    BY <2>2, <2>3, <2>4 DEF VendorTrue, VendorViews, SnapsTrue
  <2> QED BY <2>1, <2>5, VendorView, StaysQuiet DEF SlotsArrive, Rest, Calm
<1> QED BY <1>1, StaysQuiet DEF SlotsArrive, Keep, Rest, Calm

LEMMA SelectSlotTrue ==
    ASSUME PagesInv, NEW x, SelectSlot(x)
    PROVE  PagesInv'
<1>1. VendorTrue(view, bk, slot) /\ view.page = "vendor"
  BY VendorOf DEF SelectSlot, OnVendor
<1>2. SnapTrue(x, bk, slot)
  BY <1>1 DEF SelectSlot, VendorTrue, SnapsTrue
<1>3. VendorTrue(view', bk, slot)
  BY <1>1, <1>2 DEF SelectSlot, Set, VendorTrue, VendorViews, Choices, SnapTrue
<1> QED BY <1>1, <1>3, VendorView, StaysQuiet DEF SelectSlot, Calm

LEMMA ContinueTrue ==
    ASSUME PagesInv, NEW x, ContinuePending(x)
    PROVE  PagesInv'
<1> DEFINE q == Req("vendor", "resume", "pay",
                    [b |-> x.mine, kind |-> "booking", s |-> x.s])
<1>1. VendorTrue(view, bk, slot) /\ view.page = "vendor"
  BY VendorOf DEF ContinuePending, OnVendor
<1>2. Names(x.mine, "booking", bk) /\ x.s \in Slots
  BY <1>1 DEF ContinuePending, VendorTrue, SnapsTrue, SnapTrue, Snaps
<1>3. x.mine \in 0..Len(bk)
  BY <1>2, Lengths DEF Names
<1>4. VendorTrue(view', bk, slot)
  BY <1>1, <1>3, Lengths DEF ContinuePending, Set, VendorTrue, VendorViews
<1>5. CallTrue(q, bk, slot) /\ q.from = "vendor"
  BY <1>2, PayCall DEF PayReq
<1>6. reqs' \subseteq reqs \cup {q}
  BY DEF ContinuePending, Send
<1> HIDE DEF q
<1>7. ViewTrue(view', bk, slot) /\ view'.page = view.page
  BY <1>1, <1>4, VendorView
<1> QED BY <1>1, <1>5, <1>6, <1>7, Stays DEF ContinuePending, Calm

LEMMA ResumeArrivesTrue ==
    ASSUME PagesInv, NEW r \in reqs, ResumeArrives(r)
    PROVE  PagesInv'
<1>1. CallTrue(r, bk, slot) /\ r.op = "pay" /\ r.from = "vendor"
  BY CallOf DEF ResumeArrives, Is, CallTrue, CallForm
<1>2. CASE r.ans.code = "url" /\ Assign(r.arg.b, Rest(r))
  <2>1. r.arg.b \in 1..Len(bk)
    BY <1>1 DEF CallTrue, ArgTrue, Names
  <2> QED BY <1>2, <2>1, Leaves DEF ResumeArrives, Calm, Rest
<1>3. CASE Push(BookingsPage, Rest(r))
  BY <1>3, BookingsFresh, Moves DEF ResumeArrives, Calm, Rest, Push
<1>4. CASE /\ On(r)
           /\ Set([view EXCEPT !.paying = 0, !.sel = NoSlot, !.loading = TRUE])
           /\ reqs' = Rest(r) \cup {Req("vendor", "slots", "slots",
                                        [day |-> DayOf[r.arg.s]])}
  <2> DEFINE q == Req("vendor", "slots", "slots", [day |-> DayOf[r.arg.s]])
  <2>1. view.page = "vendor"
    BY <1>1, <1>4, CallOf DEF On
  <2>2. VendorTrue(view, bk, slot)
    BY <2>1, VendorOf
  <2>a. /\ view' \in VendorViews /\ view'.rows = view.rows
        /\ view'.sel = NoSlot /\ view'.paying = 0
    BY <1>4, <2>2 DEF Set, VendorTrue, VendorViews
  <2>3. VendorTrue(view', bk, slot)
    BY <2>a, <2>2, Lengths DEF VendorTrue
  <2>4. CallTrue(q, bk, slot) /\ q.from = "vendor"
    BY SlotsCall
  <2>5. reqs' \subseteq reqs \cup {q}
    BY <1>4 DEF Rest
  <2> HIDE DEF q
  <2>6. ViewTrue(view', bk, slot) /\ view'.page = view.page
    BY <2>1, <2>3, VendorView
  <2> QED BY <2>1, <2>4, <2>5, <2>6, Stays DEF ResumeArrives, Calm
<1>5. CASE UNCHANGED view /\ reqs' = Rest(r)
  BY <1>5, StaysQuiet DEF ResumeArrives, Calm, Rest
<1> QED BY <1>2, <1>3, <1>4, <1>5 DEF ResumeArrives

LEMMA ChooseBallTrue ==
    ASSUME PagesInv, NEW w \in {"with", "without"}, ChooseBall(w)
    PROVE  PagesInv'
<1>1. CASE view.page = "vendor"
  <2>1. VendorTrue(view, bk, slot)
    BY <1>1, VendorOf
  <2>2. VendorTrue(view', bk, slot)
    BY <2>1 DEF ChooseBall, Set, VendorTrue, VendorViews, Choices
  <2> QED BY <1>1, <2>2, VendorView, StaysQuiet DEF ChooseBall, Calm
<1>2. CASE view.page = "book"
  <2>1. BookTrue(view, bk, slot)
    BY <1>2, ViewOf DEF ViewTrue
  <2>2. BookTrue(view', bk, slot)
    BY <2>1 DEF ChooseBall, Set, BookTrue, BookViews, Choices
  <2> QED BY <1>2, <2>2, BookView, StaysQuiet DEF ChooseBall, Calm
<1> QED BY <1>1, <1>2 DEF ChooseBall

LEMMA CloseBookingTrue == ASSUME PagesInv, CloseBooking PROVE PagesInv'
<1>1. VendorTrue(view, bk, slot) /\ view.page = "vendor"
  BY VendorOf DEF CloseBooking, OnVendor
<1>2. VendorTrue(view', bk, slot)
  BY <1>1 DEF CloseBooking, Set, VendorTrue, VendorViews
<1> QED BY <1>1, <1>2, VendorView, StaysQuiet DEF CloseBooking, Calm

LEMMA ConfirmBookingTrue == ASSUME PagesInv, ConfirmBooking PROVE PagesInv'
<1>1. VendorTrue(view, bk, slot) /\ view.page = "vendor"
  BY VendorOf DEF ConfirmBooking, OnVendor
<1>2. SnapTrue(view.sel, bk, slot)
  BY <1>1 DEF ConfirmBooking, VendorTrue
<1>3. CASE Push(LoginPage(view.sel.s), reqs)
  <2>1. view.sel.s \in Slots
    BY <1>2 DEF SnapTrue, Snaps
  <2> QED BY <1>3, <2>1, LoginFresh, Moves DEF ConfirmBooking, Calm, Push
<1>4. CASE Set([view EXCEPT !.busy = TRUE]) /\ Send(CreateReq("vendor", view.sel))
  <2> DEFINE q == CreateReq("vendor", view.sel)
  <2>1. VendorTrue(view', bk, slot)
    BY <1>1, <1>4 DEF Set, VendorTrue, VendorViews
  <2>2. CallTrue(q, bk, slot) /\ q.from = "vendor"
    BY <1>2, CreateCall
  <2>3. reqs' \subseteq reqs \cup {q}
    BY <1>4 DEF Send
  <2> HIDE DEF q
  <2>4. ViewTrue(view', bk, slot) /\ view'.page = view.page
    BY <1>1, <2>1, VendorView
  <2> QED BY <1>1, <2>2, <2>3, <2>4, Stays DEF ConfirmBooking, Calm
<1> QED BY <1>3, <1>4 DEF ConfirmBooking

LEMMA CreatedTrue ==
    ASSUME PagesInv, NEW r \in reqs, Created(r)
    PROVE  PagesInv'
<1> DEFINE q == PayReq(r.from, "pay", r.ans.b, r.ans.kind, r.arg.s)
           t == Then(r, q)
<1>1. /\ CallTrue(r, bk, slot) /\ r.op = "create" /\ r.ans.code = "ok"
      /\ r.to = "page" => r.from = view.page
  BY CallOf DEF Created, CallTrue, CallForm
<1>2. Names(r.ans.b, r.ans.kind, bk) /\ r.arg.s \in Slots
      /\ r.to \in {"page", "left", "gone"}
  BY <1>1 DEF CallTrue, CallForm, ArgTrue, AnsTrue, Replies, Names
<1>3. CallTrue(t, bk, slot) /\ t.from = r.from /\ t.to = r.to
  <2>1. CallTrue(q, bk, slot) /\ q.from = r.from
    <3>1. PICK p, b, kind, s : /\ p = r.from /\ b = r.ans.b
                               /\ kind = r.ans.kind /\ s = r.arg.s
      OBVIOUS
    <3>2. LET c == PayReq(p, "pay", b, kind, s) IN
          CallTrue(c, bk, slot) /\ c.from = p
      BY <1>2, <3>1, PayCall
    <3> QED BY <3>1, <3>2
  <2>2. t.from = q.from
    BY DEF Then, PayReq, Req
  <2> HIDE DEF q
  <2>3. CallTrue(t, bk, slot) /\ t.to = r.to
    BY <1>2, <2>1, Redirected DEF Then
  <2> QED BY <2>1, <2>2, <2>3
<1>4. reqs' \subseteq reqs \cup {t}
  BY DEF Created, Rest
<1> HIDE DEF t
<1>5. UNCHANGED view /\ ViewTrue(view', bk, slot)
  BY ViewOf DEF Created
<1> QED BY <1>1, <1>3, <1>4, <1>5, Stays DEF Created, Calm

LEMMA ConfirmFailsTrue ==
    ASSUME PagesInv, NEW r \in reqs, ConfirmFails(r)
    PROVE  PagesInv'
<1>1. r.op \in {"create", "pay"} /\ CallTrue(r, bk, slot)
  BY CallOf DEF ConfirmFails, Is, CallTrue, CallForm
<1>2. r.arg.s \in Slots
  BY <1>1 DEF CallTrue, ArgTrue
<1> QED BY <1>2, BookFresh, Moves DEF ConfirmFails, Calm, Push, Rest

LEMMA PaidTrue ==
    ASSUME PagesInv, NEW r \in reqs, Paid(r)
    PROVE  PagesInv'
<1>1. CASE Assign(r.arg.b, Rest(r))
  <2>1. r.op = "pay" /\ CallTrue(r, bk, slot)
    BY CallOf DEF Paid, CallTrue, CallForm
  <2>2. r.arg.b \in 1..Len(bk)
    BY <2>1 DEF CallTrue, ArgTrue, Names
  <2> QED BY <1>1, <2>2, Leaves DEF Paid, Calm, Rest
<1>2. CASE Push(BookingsPage, Rest(r))
  BY <1>2, BookingsFresh, Moves DEF Paid, Calm, Rest, Push
<1> QED BY <1>1, <1>2 DEF Paid

-----------------------------------------------------------------------------
(* /book *)

LEMMA BookOf ==
    ASSUME PagesInv, view.page = "book"
    PROVE  BookTrue(view, bk, slot)
BY ViewOf DEF ViewTrue

LEMMA ReadCall ==
    ASSUME NEW B, NEW S, NEW k \in {"pending", "slot"}, NEW a, a.s \in Slots,
           NEW t \in {"page", "left", "gone"}
    PROVE  LET q == [Req("book", k, k, a) EXCEPT !.to = t] IN
           CallTrue(q, B, S) /\ q.from = "book" /\ q.to = t
<1> DEFINE q == Req("book", k, k, a)
<1>1. CallTrue(q, B, S)
  BY NewCall DEF CallTrue, CallForm, ArgTrue
<1>2. [q EXCEPT !.to = t].from = "book"
  BY DEF Req
<1> HIDE DEF q
<1>3. CallTrue([q EXCEPT !.to = t], B, S) /\ [q EXCEPT !.to = t].to = t
  BY <1>1, Redirected
<1> QED BY <1>2, <1>3 DEF q

LEMMA PendingArrivesTrue ==
    ASSUME PagesInv, NEW r \in reqs, PendingArrives(r)
    PROVE  PagesInv'
<1>1. /\ CallTrue(r, bk, slot) /\ r.op = "pending"
      /\ r.from = "book" /\ (r.to = "page" => view.page = "book")
  BY CallOf DEF PendingArrives, Is, CallTrue, CallForm
<1>2. CASE /\ r.ans.code = "some"
           /\ Keep(r, [view EXCEPT !.step = "conflict", !.pend = r.ans.pend])
           /\ reqs' = Rest(r)
  <2>1. PendTrue(r.ans.pend, bk)
    BY <1>1, <1>2 DEF CallTrue, AnsTrue, Replies
  <2>2. ASSUME On(r) PROVE BookTrue(view', bk, slot) /\ view.page = "book"
    <3>1. BookTrue(view, bk, slot) /\ view.page = "book"
      BY <1>1, <2>2, BookOf DEF On
    <3> QED BY <1>2, <2>1, <2>2, <3>1 DEF Keep, BookTrue, BookViews, PendTrue
  <2> QED BY <1>2, <2>2, BookView, StaysQuiet DEF PendingArrives, Keep, Rest, Calm
<1>3. CASE /\ UNCHANGED view
           /\ reqs' = Rest(r) \cup {Then(r, Req("book", "slot", "slot", r.arg))}
  <2> DEFINE q == Then(r, Req("book", "slot", "slot", r.arg))
  <2>1. r.arg.s \in Slots /\ r.to \in {"page", "left", "gone"}
    BY <1>1 DEF CallTrue, CallForm, ArgTrue
  <2>2. CallTrue(q, bk, slot) /\ q.from = "book" /\ q.to = r.to
    BY <2>1, ReadCall DEF Then
  <2>3. reqs' \subseteq reqs \cup {q}
    BY <1>3 DEF Rest
  <2> HIDE DEF q
  <2>4. ViewTrue(view', bk, slot) /\ view'.page = view.page
    BY <1>3, ViewOf
  <2> QED BY <1>1, <2>2, <2>3, <2>4, Stays DEF PendingArrives, Calm
<1>4. CASE Keep(r, [view EXCEPT !.step = "error"]) /\ reqs' = Rest(r)
  <2>1. ASSUME On(r) PROVE BookTrue(view', bk, slot) /\ view.page = "book"
    <3>1. BookTrue(view, bk, slot) /\ view.page = "book"
      BY <1>1, <2>1, BookOf DEF On
    <3> QED BY <1>4, <2>1, <3>1 DEF Keep, BookTrue, BookViews
  <2> QED BY <1>4, <2>1, BookView, StaysQuiet DEF PendingArrives, Keep, Rest, Calm
<1> QED BY <1>2, <1>3, <1>4 DEF PendingArrives

LEMMA SlotArrivesTrue ==
    ASSUME PagesInv, NEW r \in reqs, SlotArrives(r)
    PROVE  PagesInv'
<1>1. /\ CallTrue(r, bk, slot) /\ r.op = "slot"
      /\ r.from = "book" /\ (r.to = "page" => view.page = "book")
  BY CallOf DEF SlotArrives, Is, CallTrue, CallForm
<1>2. ASSUME On(r) PROVE BookTrue(view', bk, slot) /\ view.page = "book"
  <2>1. BookTrue(view, bk, slot) /\ view.page = "book"
    BY <1>1, <1>2, BookOf DEF On
  <2>2. CASE /\ Fits(r)
             /\ Keep(r, [view EXCEPT !.step = "confirm", !.sel = r.ans.row,
                                     !.with = "none"])
    <3>1. SnapTrue(r.ans.row, bk, slot)
      BY <1>1, <2>2 DEF Fits, CallTrue, AnsTrue, Replies
    <3>2. r.ans.row \in Snaps
      BY <3>1 DEF SnapTrue
    <3>3. view' = [view EXCEPT !.step = "confirm", !.sel = r.ans.row, !.with = "none"]
      BY <1>2, <2>2 DEF Keep
    <3>4. /\ view' \in BookViews /\ view'.sel = r.ans.row /\ view'.with = "none"
          /\ view'.pend = view.pend
      BY <2>1, <3>2, <3>3 DEF BookTrue, BookViews, Choices
    <3> QED BY <2>1, <3>1, <3>4 DEF BookTrue
  <2>3. CASE Keep(r, [view EXCEPT !.step = "error"])
    BY <1>2, <2>1, <2>3 DEF Keep, BookTrue, BookViews
  <2> QED BY <2>1, <2>2, <2>3 DEF SlotArrives
<1> QED BY <1>2, BookView, StaysQuiet DEF SlotArrives, Keep, Rest, Calm

LEMMA HandleConfirmTrue == ASSUME PagesInv, HandleConfirm PROVE PagesInv'
<1>1. BookTrue(view, bk, slot) /\ view.page = "book"
  BY BookOf DEF HandleConfirm, Step
<1>2. CASE Set([view EXCEPT !.step = "error"]) /\ UNCHANGED reqs
  <2>1. BookTrue(view', bk, slot)
    BY <1>1, <1>2 DEF Set, BookTrue, BookViews
  <2> QED BY <1>1, <1>2, <2>1, BookView, StaysQuiet DEF HandleConfirm, Calm
<1>3. CASE /\ Set([view EXCEPT !.step = "processing"])
           /\ Send(CreateReq("book", view.sel))
  <2> DEFINE q == CreateReq("book", view.sel)
  <2>1. BookTrue(view', bk, slot)
    BY <1>1, <1>3 DEF Set, BookTrue, BookViews
  <2>2. SnapTrue(view.sel, bk, slot)
    BY <1>1 DEF HandleConfirm, BookTrue
  <2>3. CallTrue(q, bk, slot) /\ q.from = "book"
    BY <2>2, CreateCall
  <2>4. reqs' \subseteq reqs \cup {q}
    BY <1>3 DEF Send
  <2> HIDE DEF q
  <2>5. ViewTrue(view', bk, slot) /\ view'.page = view.page
    BY <1>1, <2>1, BookView
  <2> QED BY <1>1, <2>3, <2>4, <2>5, Stays DEF HandleConfirm, Calm
<1> QED BY <1>2, <1>3 DEF HandleConfirm

LEMMA BookFailsTrue ==
    ASSUME PagesInv, NEW r \in reqs, BookFails(r)
    PROVE  PagesInv'
<1>1. /\ CallTrue(r, bk, slot)
      /\ r.from = "book" /\ (r.to = "page" => view.page = "book")
  BY CallOf DEF BookFails, Is
<1>2. ASSUME On(r) PROVE BookTrue(view', bk, slot) /\ view.page = "book"
  <2>1. BookTrue(view, bk, slot) /\ view.page = "book"
    BY <1>1, <1>2, BookOf DEF On
  <2>2. CASE /\ r.ans.code = "limit"
             /\ Keep(r, [view EXCEPT !.step = "conflict",
                                     !.pend = [r.ans.pend EXCEPT !.resume = TRUE]])
    <3> DEFINE p == [r.ans.pend EXCEPT !.resume = TRUE]
    <3>1. PendTrue(r.ans.pend, bk)
      BY <1>1, <2>2 DEF CallTrue, AnsTrue, Replies
    <3>2. PendTrue(p, bk)
      BY <3>1 DEF PendTrue, Pends
    <3>3. view' = [view EXCEPT !.step = "conflict", !.pend = p]
      BY <1>2, <2>2 DEF Keep
    <3> HIDE DEF p
    <3> QED BY <2>1, <3>2, <3>3 DEF BookTrue, BookViews, PendTrue
  <2>3. CASE \/ Keep(r, [view EXCEPT !.step = "conflict"])
             \/ Keep(r, [view EXCEPT !.step = "confirm"])
    BY <1>2, <2>1, <2>3 DEF Keep, BookTrue, BookViews
  <2> QED BY <2>1, <2>2, <2>3 DEF BookFails
<1> QED BY <1>2, BookView, StaysQuiet DEF BookFails, Keep, Rest, Calm

LEMMA ResumeTrue == ASSUME PagesInv, ResumePending PROVE PagesInv'
<1>1. BookTrue(view, bk, slot)
  BY BookOf DEF ResumePending, Step
<1>2. /\ Names(view.pend.b, view.pend.kind, bk) /\ view.pend.kind \in Kinds
      /\ view.pend.b \in 1..Len(bk)
  BY <1>1 DEF ResumePending, BookTrue, PendTrue, Pends, Names
<1>3. CASE Assign(view.pend.b, reqs)
  BY <1>2, <1>3, Leaves DEF ResumePending, Calm
<1>4. CASE Push(PaymentPage(view.pend.b, view.pend.kind), reqs)
  BY <1>2, <1>4, PaymentFresh, Lengths, Moves DEF ResumePending, Push, Calm
<1> QED BY <1>3, <1>4 DEF ResumePending

LEMMA CancelPendingTrue == ASSUME PagesInv, CancelPending PROVE PagesInv'
<1> DEFINE q == DropReq("book", view.pend.b, view.pend.kind)
<1>1. BookTrue(view, bk, slot) /\ view.page = "book"
  BY BookOf DEF CancelPending, Step
<1>2. BookTrue(view', bk, slot)
  BY <1>1 DEF CancelPending, Set, BookTrue, BookViews
<1>3. Names(view.pend.b, view.pend.kind, bk)
  BY <1>1 DEF CancelPending, BookTrue, PendTrue
<1>4. CallTrue(q, bk, slot) /\ q.from = "book"
  BY <1>3, DropCall
<1>5. reqs' \subseteq reqs \cup {q}
  BY DEF CancelPending, Send
<1> HIDE DEF q
<1>6. ViewTrue(view', bk, slot) /\ view'.page = view.page
  BY <1>1, <1>2, BookView
<1> QED BY <1>1, <1>4, <1>5, <1>6, Stays DEF CancelPending, Calm

LEMMA PendingDroppedTrue ==
    ASSUME PagesInv, NEW r \in reqs, PendingDropped(r)
    PROVE  PagesInv'
<1>1. r.from = "book" /\ (r.to = "page" => view.page = "book")
  BY CallOf DEF PendingDropped, Is
<1>2. CASE /\ On(r)
           /\ Set([view EXCEPT !.pend = NoPend, !.step = "loading",
                               !.cancelling = FALSE])
           /\ reqs' = Rest(r) \cup {Req("book", "pending", "pending", [s |-> view.s])}
  <2> DEFINE q == Req("book", "pending", "pending", [s |-> view.s])
  <2>1. BookTrue(view, bk, slot) /\ view.page = "book"
    BY <1>1, <1>2, BookOf DEF On
  <2>2. BookTrue(view', bk, slot)
    BY <1>2, <2>1, Nulls DEF Set, BookTrue, BookViews, PendTrue
  <2>3. view.s \in Slots
    BY <2>1 DEF BookTrue, BookViews
  <2>4. CallTrue(q, bk, slot) /\ q.from = "book"
    BY <2>3, NewCall DEF CallTrue, CallForm, ArgTrue
  <2>5. reqs' \subseteq reqs \cup {q}
    BY <1>2 DEF Rest
  <2> HIDE DEF q
  <2>6. ViewTrue(view', bk, slot) /\ view'.page = view.page
    BY <2>1, <2>2, BookView
  <2> QED BY <2>1, <2>4, <2>5, <2>6, Stays DEF PendingDropped, Calm
<1>3. CASE Keep(r, [view EXCEPT !.cancelling = FALSE]) /\ reqs' = Rest(r)
  <2>1. ASSUME On(r) PROVE BookTrue(view', bk, slot) /\ view.page = "book"
    <3>1. BookTrue(view, bk, slot) /\ view.page = "book"
      BY <1>1, <2>1, BookOf DEF On
    <3> QED BY <1>3, <2>1, <3>1 DEF Keep, BookTrue, BookViews
  <2> QED BY <1>3, <2>1, BookView, StaysQuiet DEF PendingDropped, Keep, Rest, Calm
<1> QED BY <1>2, <1>3 DEF PendingDropped

-----------------------------------------------------------------------------
(* /book/payment *)

LEMMA PaymentOf ==
    ASSUME PagesInv, view.page = "payment"
    PROVE  PaymentTrue(view, bk)
BY ViewOf DEF ViewTrue

(* The flags of the payment page: its booking stays. *)
LEMMA PaymentFlags ==
    ASSUME NEW v, NEW B, PaymentTrue(v, B), NEW w,
           \/ \E x, y \in BOOLEAN : w = [v EXCEPT !.loading = x, !.shown = y]
           \/ \E x \in BOOLEAN : w \in {[v EXCEPT !.paying = x],
                                        [v EXCEPT !.cancelling = x]}
    PROVE  PaymentTrue(w, B)
BY DEF PaymentTrue, PaymentViews

LEMMA DetailArrivesTrue ==
    ASSUME PagesInv, NEW r \in reqs, DetailArrives(r)
    PROVE  PagesInv'
<1>1. r.from = "payment" /\ (r.to = "page" => view.page = "payment")
  BY CallOf DEF DetailArrives, Is
<1>2. CASE Push(BookingsPage, Rest(r))
  BY <1>2, BookingsFresh, Moves DEF DetailArrives, Calm, Rest, Push
<1>3. CASE /\ Keep(r, [view EXCEPT !.loading = FALSE, !.shown = r.ans.code = "ok"])
           /\ reqs' = Rest(r)
  <2>1. ASSUME On(r) PROVE PaymentTrue(view', bk) /\ view.page = "payment"
    <3>1. PaymentTrue(view, bk) /\ view.page = "payment"
      BY <1>1, <2>1, PaymentOf DEF On
    <3>2. view' = [view EXCEPT !.loading = FALSE, !.shown = (r.ans.code = "ok")]
      BY <1>3, <2>1 DEF Keep
    <3> QED BY <3>1, <3>2, PaymentFlags
  <2> QED BY <1>3, <2>1, PaymentView, StaysQuiet DEF DetailArrives, Keep, Rest, Calm
<1> QED BY <1>2, <1>3 DEF DetailArrives

LEMMA HandlePaymentTrue == ASSUME PagesInv, HandlePayment PROVE PagesInv'
<1> DEFINE q == PayReq("payment", "pay", view.b, view.kind, bk[view.b].s)
<1>1. PaymentTrue(view, bk) /\ view.page = "payment"
  BY PaymentOf DEF HandlePayment, OnPayment
<1>2. PaymentTrue(view', bk)
  BY <1>1, PaymentFlags DEF HandlePayment, Set
<1>3. Names(view.b, view.kind, bk)
  BY <1>1 DEF PaymentTrue
<1>4. bk[view.b].s \in Slots
  BY <1>3, RowOf DEF Names
<1>5. CallTrue(q, bk, slot) /\ q.from = "payment"
  BY <1>3, <1>4, PayCall
<1>6. reqs' \subseteq reqs \cup {q}
  BY DEF HandlePayment, Send
<1> HIDE DEF q
<1>7. ViewTrue(view', bk, slot) /\ view'.page = view.page
  BY <1>1, <1>2, PaymentView
<1> QED BY <1>1, <1>5, <1>6, <1>7, Stays DEF HandlePayment, Calm

LEMMA PaymentFailsTrue ==
    ASSUME PagesInv, NEW r \in reqs, PaymentFails(r)
    PROVE  PagesInv'
<1>1. ASSUME On(r) PROVE PaymentTrue(view', bk) /\ view.page = "payment"
  <2>1. PaymentTrue(view, bk) /\ view.page = "payment"
    BY <1>1, CallOf, PaymentOf DEF On, PaymentFails, Is
  <2> QED BY <1>1, <2>1, PaymentFlags DEF PaymentFails, Keep
<1> QED BY <1>1, PaymentView, StaysQuiet DEF PaymentFails, Keep, Rest, Calm

LEMMA CancelCheckoutTrue == ASSUME PagesInv, CancelCheckout PROVE PagesInv'
<1> DEFINE q == DropReq("payment", view.b, view.kind)
<1>1. PaymentTrue(view, bk) /\ view.page = "payment"
  BY PaymentOf DEF CancelCheckout, OnPayment
<1>2. PaymentTrue(view', bk)
  BY <1>1, PaymentFlags DEF CancelCheckout, Set
<1>3. CallTrue(q, bk, slot) /\ q.from = "payment"
  BY <1>1, DropCall DEF PaymentTrue
<1>4. reqs' \subseteq reqs \cup {q}
  BY DEF CancelCheckout, Send
<1> HIDE DEF q
<1>5. ViewTrue(view', bk, slot) /\ view'.page = view.page
  BY <1>1, <1>2, PaymentView
<1> QED BY <1>1, <1>3, <1>4, <1>5, Stays DEF CancelCheckout, Calm

LEMMA CheckoutDroppedTrue ==
    ASSUME PagesInv, NEW r \in reqs, CheckoutDropped(r)
    PROVE  PagesInv'
<1>1. CASE Push(BookingsPage, Rest(r))
  BY <1>1, BookingsFresh, Moves DEF CheckoutDropped, Calm, Rest, Push
<1>2. CASE Keep(r, [view EXCEPT !.cancelling = FALSE]) /\ reqs' = Rest(r)
  <2>1. ASSUME On(r) PROVE PaymentTrue(view', bk) /\ view.page = "payment"
    <3>1. PaymentTrue(view, bk) /\ view.page = "payment"
      BY <2>1, CallOf, PaymentOf DEF On, CheckoutDropped, Is
    <3> QED BY <1>2, <2>1, <3>1, PaymentFlags DEF Keep
  <2> QED BY <1>2, <2>1, PaymentView, StaysQuiet DEF CheckoutDropped, Keep, Rest, Calm
<1> QED BY <1>1, <1>2 DEF CheckoutDropped

-----------------------------------------------------------------------------
(* The callback page *)

LEMMA ReturnToVerifyTrue == ASSUME PagesInv, ReturnToVerify PROVE PagesInv'
<1>1. view.b \in 1..Len(bk)
  BY ViewOf DEF ReturnToVerify, AtGateway, ViewTrue, GatewayTrue
<1>2. ViewTrue(CallbackPage(view.b, "none"), bk, slot)
  BY <1>1, CallbackFresh, Lengths DEF Outcomes
<1> QED BY <1>2, Moves DEF ReturnToVerify, Push, Calm

(* What the page tells was the outcome of the server's own answer. *)
LEMMA VerifyArrivesTrue ==
    ASSUME PagesInv, NEW r \in reqs, VerifyArrives(r)
    PROVE  PagesInv'
<1> DEFINE o == IF r.ans.code = "ok" THEN r.ans.outcome
                ELSE "reconciliation_required"
<1>1. /\ CallTrue(r, bk, slot) /\ r.op = "verify"
      /\ r.to = "page" => view.page = "callback"
  BY CallOf DEF VerifyArrives, Is, CallTrue, CallForm
<1>2. o \in Outcomes \ {"none"} /\ (o = "paid" => bk[r.arg.b].won)
  BY <1>1 DEF CallTrue, AnsTrue, Replies, Outcomes
<1>3. r.arg.b \in 1..Len(bk)
  BY <1>1 DEF CallTrue, ArgTrue
<1>4. /\ Keep(r, [view EXCEPT !.outcome = o, !.loading = FALSE])
      /\ told' = IF On(r) /\ o = "paid" THEN told \cup {r.arg.b} ELSE told
      /\ reqs' \subseteq reqs /\ UNCHANGED <<slot, bk>>
  BY DEF VerifyArrives, Rest
<1> HIDE DEF o
<1>5. ToldTrue(told', bk)
  BY <1>2, <1>3, <1>4 DEF PagesInv, ToldTrue
<1>6. ASSUME On(r) PROVE ViewTrue(view', bk, slot) /\ view'.page = view.page
  <2>1. CallbackTrue(view, bk) /\ view.page = "callback"
    BY <1>1, <1>6, ViewOf DEF On, ViewTrue
  <2>2. CallbackTrue(view', bk)
    BY <1>2, <1>4, <1>6, <2>1 DEF Keep, CallbackTrue, CallbackViews
  <2> QED BY <2>1, <2>2, CallbackView
<1>7. ViewTrue(view', bk, slot) /\ view'.page = view.page
  BY <1>4, <1>6, ViewOf DEF Keep
<1> QED BY <1>4, <1>5, <1>7 DEF PagesInv, CallsTrue

-----------------------------------------------------------------------------
(* The list of bookings *)

LEMMA BookingsOf ==
    ASSUME PagesInv, view.page = "bookings"
    PROVE  BookingsTrue(view, bk)
BY ViewOf DEF ViewTrue

(* An update of what the page shows. *)
LEMMA BookingsKept ==
    ASSUME NEW v, NEW B, BookingsTrue(v, B), NEW w, w \in BookingsViews,
           w.rows = v.rows \/ ListTrue(w.rows, B),
           w.dlg \in {0, v.dlg} \/ Names(w.dlg, "booking", B)
    PROVE  BookingsTrue(w, B)
BY DEF BookingsTrue

LEMMA ListCall ==
    ASSUME NEW B, NEW S, NEW t
    PROVE  LET q == ListReq(t) IN CallTrue(q, B, S) /\ q.from = "bookings"
<1> DEFINE a == [tab |-> t]
           q == Req("bookings", "list", "list", a)
<1> HIDE DEF a
<1>1. CallTrue(q, B, S) /\ q.from = "bookings"
  BY NewCall DEF CallTrue, CallForm, ArgTrue
<1> QED BY <1>1 DEF ListReq, a

(* The number of a call about a booking. *)
LEMMA NumberCall ==
    ASSUME NEW B, NEW S, NEW k \in {"terms", "withdraw"}, NEW b \in 1..Len(B)
    PROVE  LET q == Req("bookings", k, k, [b |-> b]) IN
           CallTrue(q, B, S) /\ q.from = "bookings"
<1> DEFINE a == [b |-> b]
           q == Req("bookings", k, k, a)
<1>1. a.b \in 1..Len(B)
  OBVIOUS
<1> HIDE DEF a
<1> QED BY <1>1, NewCall DEF CallTrue, CallForm, ArgTrue, a

LEMMA SwitchTabTrue == ASSUME PagesInv, NEW t \in Tabs, SwitchTab(t) PROVE PagesInv'
<1> DEFINE q == ListReq(t)
<1>1. BookingsTrue(view, bk) /\ view.page = "bookings"
  BY BookingsOf DEF SwitchTab, OnList
<1>2. t \in {"current", "past", "cancelled"}
  BY DEF PagesAssumption
<1>3. view' \in BookingsViews /\ view'.rows = view.rows /\ view'.dlg = view.dlg
  BY <1>1, <1>2 DEF SwitchTab, Set, BookingsTrue, BookingsViews
<1>4. ViewTrue(view', bk, slot) /\ view'.page = view.page
  BY <1>1, <1>3, BookingsKept, BookingsView
<1>5. CallTrue(q, bk, slot) /\ q.from = "bookings"
  BY ListCall
<1>6. reqs' \subseteq reqs \cup {q}
  BY DEF SwitchTab, Send
<1> HIDE DEF q
<1> QED BY <1>1, <1>4, <1>5, <1>6, Stays DEF SwitchTab, Calm

LEMMA ListArrivesTrue ==
    ASSUME PagesInv, NEW r \in reqs, ListArrives(r)
    PROVE  PagesInv'
<1>1. /\ CallTrue(r, bk, slot) /\ r.op = "list"
      /\ r.to = "page" => view.page = "bookings"
  BY CallOf DEF ListArrives, Is, CallTrue, CallForm
<1>2. ASSUME On(r) PROVE BookingsTrue(view', bk) /\ view.page = "bookings"
  <2> DEFINE R == IF r.ans.code = "ok" THEN r.ans.rows ELSE view.rows
  <2>1. BookingsTrue(view, bk) /\ view.page = "bookings"
    BY <1>1, <1>2, BookingsOf DEF On
  <2>2. ListTrue(R, bk)
    BY <1>1, <2>1 DEF CallTrue, AnsTrue, Replies, BookingsTrue
  <2>3. view' = [view EXCEPT !.loading = FALSE, !.rows = R]
    BY <1>2, <2>1 DEF ListArrives, Keep, BookingsTrue, BookingsViews
  <2> HIDE DEF R
  <2>4. view' \in BookingsViews /\ view'.rows = R /\ view'.dlg = view.dlg
    BY <2>1, <2>2, <2>3 DEF BookingsTrue, BookingsViews, ListTrue
  <2> QED BY <2>1, <2>2, <2>4, BookingsKept
<1> QED BY <1>2, BookingsView, StaysQuiet DEF ListArrives, Keep, Rest, Calm

(* A row of the list is a booking the page may act on. *)
LEMMA Listing ==
    ASSUME PagesInv, NEW x, Listed(x)
    PROVE  /\ BookingsTrue(view, bk) /\ view.page = "bookings"
           /\ Names(x.b, "booking", bk) /\ x.b \in Nat /\ x.b \in 1..Len(bk)
<1>1. BookingsTrue(view, bk) /\ view.page = "bookings" /\ x \in view.rows
  BY BookingsOf DEF Listed, OnList
<1>2. Names(x.b, "booking", bk) /\ x \in ListRows
  BY <1>1 DEF BookingsTrue, ListTrue
<1> QED BY <1>1, <1>2 DEF Names, ListRows

LEMMA HandlePayTrue == ASSUME PagesInv, NEW x, HandlePay(x) PROVE PagesInv'
<1> DEFINE q == PayReq("bookings", "listpay", x.b, "booking", bk[x.b].s)
<1>1. /\ BookingsTrue(view, bk) /\ view.page = "bookings"
      /\ Names(x.b, "booking", bk) /\ x.b \in Nat /\ x.b \in 1..Len(bk)
  BY Listing DEF HandlePay
<1>2. view' \in BookingsViews /\ view'.rows = view.rows /\ view'.dlg = view.dlg
  BY <1>1 DEF HandlePay, Set, BookingsTrue, BookingsViews
<1>3. ViewTrue(view', bk, slot) /\ view'.page = view.page
  BY <1>1, <1>2, BookingsKept, BookingsView
<1>4. CallTrue(q, bk, slot) /\ q.from = "bookings"
  <2>1. bk[x.b].s \in Slots
    BY <1>1, RowOf
  <2> DEFINE kind == "booking"
             k == "listpay"
  <2>2. Names(x.b, kind, bk) /\ k \in {"pay", "listpay", "resume"}
    BY <1>1
  <2> HIDE DEF kind, k
  <2>3. LET c == PayReq("bookings", k, x.b, kind, bk[x.b].s)
        IN  CallTrue(c, bk, slot) /\ c.from = "bookings"
    BY <2>1, <2>2, PayCall
  <2> QED BY <2>3 DEF kind, k
<1>5. reqs' \subseteq reqs \cup {q}
  BY DEF HandlePay, Send
<1> HIDE DEF q
<1> QED BY <1>1, <1>3, <1>4, <1>5, Stays DEF HandlePay, Calm

LEMMA ListPayFailsTrue ==
    ASSUME PagesInv, NEW r \in reqs, ListPayFails(r)
    PROVE  PagesInv'
<1>1. ASSUME On(r) PROVE BookingsTrue(view', bk) /\ view.page = "bookings"
  <2>1. BookingsTrue(view, bk) /\ view.page = "bookings"
    BY <1>1, CallOf, BookingsOf DEF On, ListPayFails, Is
  <2>2. view' \in BookingsViews /\ view'.rows = view.rows /\ view'.dlg = view.dlg
    BY <1>1, <2>1 DEF ListPayFails, Keep, BookingsTrue, BookingsViews
  <2> QED BY <2>1, <2>2, BookingsKept
<1> QED BY <1>1, BookingsView, StaysQuiet DEF ListPayFails, Keep, Rest, Calm

LEMMA CancelClickTrue == ASSUME PagesInv, NEW x, CancelClick(x) PROVE PagesInv'
<1> DEFINE q == Req("bookings", "terms", "terms", [b |-> x.b])
<1>1. /\ BookingsTrue(view, bk) /\ view.page = "bookings"
      /\ Names(x.b, "booking", bk) /\ x.b \in Nat /\ x.b \in 1..Len(bk)
  BY Listing DEF CancelClick
<1>2. view' \in BookingsViews /\ view'.rows = view.rows /\ view'.dlg = x.b
  BY <1>1, Nulls DEF CancelClick, Set, BookingsTrue, BookingsViews
<1>3. ViewTrue(view', bk, slot) /\ view'.page = view.page
  BY <1>1, <1>2, BookingsKept, BookingsView
<1>4. CallTrue(q, bk, slot) /\ q.from = "bookings"
  BY <1>1, NumberCall
<1>5. reqs' \subseteq reqs \cup {q}
  BY DEF CancelClick, Send
<1> HIDE DEF q
<1> QED BY <1>1, <1>3, <1>4, <1>5, Stays DEF CancelClick, Calm

LEMMA TermsArriveTrue ==
    ASSUME PagesInv, NEW r \in reqs, TermsArrive(r)
    PROVE  PagesInv'
<1>1. /\ CallTrue(r, bk, slot) /\ r.op = "terms"
      /\ r.to = "page" => view.page = "bookings"
  BY CallOf DEF TermsArrive, Is, CallTrue, CallForm
<1>2. ASSUME On(r) PROVE BookingsTrue(view', bk) /\ view.page = "bookings"
  <2>1. BookingsTrue(view, bk) /\ view.page = "bookings"
    BY <1>1, <1>2, BookingsOf DEF On
  <2>2. CASE r.ans.code = "ok" /\ Keep(r, [view EXCEPT !.terms = r.ans.terms])
    <3>1. r.ans.terms \in TermsSet
      BY <1>1, <2>2 DEF CallTrue, AnsTrue, Replies
    <3>2. view' \in BookingsViews /\ view'.rows = view.rows /\ view'.dlg = view.dlg
      BY <1>2, <2>1, <2>2, <3>1 DEF Keep, BookingsTrue, BookingsViews
    <3> QED BY <2>1, <3>2, BookingsKept
  <2>3. CASE Keep(r, [view EXCEPT !.dlg = 0])
    <3>1. view' \in BookingsViews /\ view'.rows = view.rows /\ view'.dlg = 0
      BY <1>2, <2>1, <2>3 DEF Keep, BookingsTrue, BookingsViews
    <3> QED BY <2>1, <3>1, BookingsKept
  <2> QED BY <2>1, <2>2, <2>3 DEF TermsArrive
<1> QED BY <1>2, BookingsView, StaysQuiet DEF TermsArrive, Keep, Rest, Calm

LEMMA AcceptTermsTrue == ASSUME PagesInv, AcceptTerms PROVE PagesInv'
<1>1. BookingsTrue(view, bk) /\ view.page = "bookings"
  BY BookingsOf DEF AcceptTerms, Shown, OnList
<1>2. view' \in BookingsViews /\ view'.rows = view.rows /\ view'.dlg = view.dlg
  BY <1>1 DEF AcceptTerms, Set, BookingsTrue, BookingsViews
<1>3. ViewTrue(view', bk, slot) /\ view'.page = view.page
  BY <1>1, <1>2, BookingsKept, BookingsView
<1> QED BY <1>3, StaysQuiet DEF AcceptTerms, Calm

LEMMA CloseCancelTrue == ASSUME PagesInv, CloseCancel PROVE PagesInv'
<1>1. BookingsTrue(view, bk) /\ view.page = "bookings"
  BY BookingsOf DEF CloseCancel, Shown, OnList
<1>2. view' \in BookingsViews /\ view'.rows = view.rows /\ view'.dlg = 0
  BY <1>1, Nulls DEF CloseCancel, Set, BookingsTrue, BookingsViews
<1>3. ViewTrue(view', bk, slot) /\ view'.page = view.page
  BY <1>1, <1>2, BookingsKept, BookingsView
<1> QED BY <1>3, StaysQuiet DEF CloseCancel, Calm

LEMMA ConfirmCancelTrue == ASSUME PagesInv, ConfirmCancel PROVE PagesInv'
<1> DEFINE a == [b |-> view.dlg, kind |-> "booking", mode |-> view.terms.mode,
                 accepted |-> view.accepted, said |-> view.terms.mode]
           q == Req("bookings", "cancel", "cancel", a)
<1>1. BookingsTrue(view, bk) /\ view.page = "bookings"
  BY BookingsOf DEF ConfirmCancel, Shown, OnList
<1>2. view' \in BookingsViews /\ view'.rows = view.rows /\ view'.dlg = view.dlg
  BY <1>1 DEF ConfirmCancel, Set, BookingsTrue, BookingsViews
<1>3. ViewTrue(view', bk, slot) /\ view'.page = view.page
  BY <1>1, <1>2, BookingsKept, BookingsView
<1>4. Names(a.b, a.kind, bk) /\ a.mode \in Modes /\ a.said = a.mode
  BY <1>1 DEF ConfirmCancel, Shown, BookingsTrue, BookingsViews, TermsSet
<1>5. reqs' \subseteq reqs \cup {q}
  BY DEF ConfirmCancel, Send
<1> HIDE DEF a
<1>6. CallTrue(q, bk, slot) /\ q.from = "bookings"
  BY <1>4, NewCall DEF CallTrue, CallForm, ArgTrue
<1> HIDE DEF q
<1> QED BY <1>1, <1>3, <1>5, <1>6, Stays DEF ConfirmCancel, Calm

(* The list is read again after what was done about a row. *)
LEMMA ListedAgain ==
    ASSUME PagesInv, UNCHANGED <<slot, bk, told>>, NEW r \in reqs,
           BookingsTrue(view, bk), view.page = "bookings", BookingsTrue(view', bk),
           reqs' = Rest(r) \cup {ListReq(view.tab)}
    PROVE  PagesInv'
<1> DEFINE q == ListReq(view.tab)
<1>1. CallTrue(q, bk, slot) /\ q.from = "bookings"
  BY ListCall
<1>2. reqs' \subseteq reqs \cup {q}
  BY DEF Rest
<1> HIDE DEF q
<1>3. ViewTrue(view', bk, slot) /\ view'.page = view.page
  BY BookingsView
<1> QED BY <1>1, <1>2, <1>3, Stays

LEMMA CancelArrivesTrue ==
    ASSUME PagesInv, NEW r \in reqs, CancelArrives(r)
    PROVE  PagesInv'
<1>1. ASSUME On(r) PROVE BookingsTrue(view, bk) /\ view.page = "bookings"
  BY <1>1, CallOf, BookingsOf DEF On, CancelArrives, Is
<1>2. CASE /\ On(r)
           /\ Set([view EXCEPT !.dlg = 0, !.terms = NoTerms, !.accepted = FALSE,
                               !.busy = FALSE, !.loading = TRUE])
           /\ reqs' = Rest(r) \cup {ListReq(view.tab)}
  <2>1. view' \in BookingsViews /\ view'.rows = view.rows /\ view'.dlg = 0
    BY <1>1, <1>2, Nulls DEF Set, BookingsTrue, BookingsViews
  <2> QED BY <1>1, <1>2, <2>1, BookingsKept, ListedAgain DEF CancelArrives, Calm
<1>3. CASE Keep(r, [view EXCEPT !.busy = FALSE]) /\ reqs' = Rest(r)
  <2>1. ASSUME On(r) PROVE BookingsTrue(view', bk) /\ view.page = "bookings"
    <3>1. view' \in BookingsViews /\ view'.rows = view.rows /\ view'.dlg = view.dlg
      BY <1>1, <1>3, <2>1 DEF Keep, BookingsTrue, BookingsViews
    <3> QED BY <1>1, <2>1, <3>1, BookingsKept
  <2> QED BY <1>3, <2>1, BookingsView, StaysQuiet DEF CancelArrives, Keep, Rest, Calm
<1> QED BY <1>2, <1>3 DEF CancelArrives

LEMMA WithdrawClickTrue == ASSUME PagesInv, NEW x, WithdrawClick(x) PROVE PagesInv'
<1> DEFINE q == Req("bookings", "withdraw", "withdraw", [b |-> x.b])
<1>1. /\ BookingsTrue(view, bk) /\ view.page = "bookings"
      /\ Names(x.b, "booking", bk) /\ x.b \in Nat /\ x.b \in 1..Len(bk)
  BY Listing DEF WithdrawClick
<1>2. view' \in BookingsViews /\ view'.rows = view.rows /\ view'.dlg = view.dlg
  BY <1>1 DEF WithdrawClick, Set, BookingsTrue, BookingsViews
<1>3. ViewTrue(view', bk, slot) /\ view'.page = view.page
  BY <1>1, <1>2, BookingsKept, BookingsView
<1>4. CallTrue(q, bk, slot) /\ q.from = "bookings"
  BY <1>1, NumberCall
<1>5. reqs' \subseteq reqs \cup {q}
  BY DEF WithdrawClick, Send
<1> HIDE DEF q
<1> QED BY <1>1, <1>3, <1>4, <1>5, Stays DEF WithdrawClick, Calm

LEMMA WithdrawArrivesTrue ==
    ASSUME PagesInv, NEW r \in reqs, WithdrawArrives(r)
    PROVE  PagesInv'
<1>1. ASSUME On(r) PROVE BookingsTrue(view, bk) /\ view.page = "bookings"
  BY <1>1, CallOf, BookingsOf DEF On, WithdrawArrives, Is
<1>2. CASE /\ On(r)
           /\ Set([view EXCEPT !.withdrawing = 0, !.loading = TRUE])
           /\ reqs' = Rest(r) \cup {ListReq(view.tab)}
  <2>1. view' \in BookingsViews /\ view'.rows = view.rows /\ view'.dlg = view.dlg
    BY <1>1, <1>2 DEF Set, BookingsTrue, BookingsViews
  <2> QED BY <1>1, <1>2, <2>1, BookingsKept, ListedAgain DEF WithdrawArrives, Calm
<1>3. CASE Keep(r, [view EXCEPT !.withdrawing = 0]) /\ reqs' = Rest(r)
  <2>1. ASSUME On(r) PROVE BookingsTrue(view', bk) /\ view.page = "bookings"
    <3>1. view' \in BookingsViews /\ view'.rows = view.rows /\ view'.dlg = view.dlg
      BY <1>1, <1>3, <2>1 DEF Keep, BookingsTrue, BookingsViews
    <3> QED BY <1>1, <2>1, <3>1, BookingsKept
  <2> QED BY <1>3, <2>1, BookingsView, StaysQuiet DEF WithdrawArrives, Keep, Rest, Calm
<1> QED BY <1>2, <1>3 DEF WithdrawArrives

-----------------------------------------------------------------------------
(* What the server may do to its rows *)

(* Rows are added, for the price of their version, and keep what they were *)
(* created with, what was paid stays paid, and what was issued stays so.   *)
RowsMoved(B, B2) ==
    /\ Len(B) \in Nat /\ Len(B2) \in Nat /\ Len(B) <= Len(B2)
    /\ \A i \in 1..Len(B) : B2[i].kind = B[i].kind /\ (B[i].won => B2[i].won)
SlotsMoved(S, S2) == \A s \in Slots : S[s].issued \subseteq S2[s].issued
SameTerms(b, c) == c.s = b.s /\ c.ver = b.ver /\ c.quoted = b.quoted
TermsKept(B, B2, S2) ==
    /\ \A i \in 1..Len(B) : SameTerms(B[i], B2[i])
    /\ \A i \in 1..Len(B2) : i > Len(B) => Charged(B2[i], S2)
Moved(B, S, B2, S2) ==
    RowsMoved(B, B2) /\ SlotsMoved(S, S2) /\ TermsKept(B, B2, S2)

LEMMA NamesKept ==
    ASSUME NEW B, NEW B2, RowsMoved(B, B2), NEW b, NEW kind, Names(b, kind, B)
    PROVE  Names(b, kind, B2)
BY DEF RowsMoved, Names

LEMMA QuotesKept ==
    ASSUME NEW S, NEW S2, SlotsMoved(S, S2), NEW x, x.s \in Slots, Quotes(x, S)
    PROVE  Quotes(x, S2)
BY DEF SlotsMoved, Quotes

LEMMA SnapKept ==
    ASSUME NEW B, NEW S, NEW B2, NEW S2, Moved(B, S, B2, S2), NEW x, SnapTrue(x, B, S)
    PROVE  SnapTrue(x, B2, S2)
<1>1. x.s \in Slots
  BY DEF SnapTrue, Snaps
<1>2. Quotes(x, S2)
  BY <1>1, QuotesKept DEF Moved, SnapTrue
<1>3. x.mine # 0 => Names(x.mine, "booking", B2)
  <2> DEFINE kind == "booking"
  <2>1. x.mine # 0 => Names(x.mine, kind, B)
    BY DEF SnapTrue
  <2> HIDE DEF kind
  <2>2. x.mine # 0 => Names(x.mine, kind, B2)
    BY <2>1, NamesKept DEF Moved
  <2> QED BY <2>2 DEF kind
<1> QED BY <1>2, <1>3 DEF SnapTrue

LEMMA SnapsKept ==
    ASSUME NEW B, NEW S, NEW B2, NEW S2, Moved(B, S, B2, S2), NEW R, SnapsTrue(R, B, S)
    PROVE  SnapsTrue(R, B2, S2)
BY SnapKept DEF SnapsTrue

LEMMA PendKept ==
    ASSUME NEW B, NEW B2, RowsMoved(B, B2), NEW p, PendTrue(p, B)
    PROVE  PendTrue(p, B2)
BY NamesKept DEF PendTrue

(* A booking of the list. *)
LEMMA BookingKept ==
    ASSUME NEW B, NEW B2, RowsMoved(B, B2), NEW b, Names(b, "booking", B)
    PROVE  Names(b, "booking", B2)
BY DEF RowsMoved, Names

LEMMA ListKept ==
    ASSUME NEW B, NEW B2, RowsMoved(B, B2), NEW R, ListTrue(R, B)
    PROVE  ListTrue(R, B2)
BY BookingKept DEF ListTrue

LEMMA NumbersKept ==
    ASSUME NEW B, NEW B2, RowsMoved(B, B2)
    PROVE  1..Len(B) \subseteq 1..Len(B2) /\ 0..Len(B) \subseteq 0..Len(B2)
BY DEF RowsMoved

(* A page keeps what is true. *)
LEMMA ViewKept ==
    ASSUME NEW B, NEW S, NEW B2, NEW S2, Moved(B, S, B2, S2), NEW v, ViewTrue(v, B, S)
    PROVE  ViewTrue(v, B2, S2)
<1>0. RowsMoved(B, B2)
  BY DEF Moved
<1>1. VendorTrue(v, B, S) => VendorTrue(v, B2, S2)
  BY <1>0, SnapKept, SnapsKept, NumbersKept DEF VendorTrue
<1>2. BookTrue(v, B, S) => BookTrue(v, B2, S2)
  BY <1>0, SnapKept, PendKept DEF BookTrue
<1>3. PaymentTrue(v, B) => PaymentTrue(v, B2)
  BY <1>0, NamesKept DEF PaymentTrue
<1>4. CallbackTrue(v, B) => CallbackTrue(v, B2)
  BY <1>0, NumbersKept DEF CallbackTrue
<1>5. BookingsTrue(v, B) => BookingsTrue(v, B2)
  BY <1>0, ListKept, BookingKept DEF BookingsTrue
<1>6. GatewayTrue(v, B) => GatewayTrue(v, B2)
  BY <1>0, NumbersKept DEF GatewayTrue
<1> QED BY <1>1, <1>2, <1>3, <1>4, <1>5, <1>6 DEF ViewTrue

(* So do calls and answers. *)
LEMMA ArgKept ==
    ASSUME NEW B, NEW S, NEW B2, NEW S2, Moved(B, S, B2, S2), NEW r, ArgTrue(r, B, S)
    PROVE  ArgTrue(r, B2, S2)
<1>1. RowsMoved(B, B2) /\ SlotsMoved(S, S2)
  BY DEF Moved
<1>2. r.op = "create" => Quotes(r.arg, S2)
  BY <1>1, QuotesKept DEF ArgTrue
<1>3. r.op \in {"pay", "detail", "cancel", "release"} =>
          Names(r.arg.b, r.arg.kind, B2)
  BY <1>1, NamesKept DEF ArgTrue
<1>4. r.op \in {"verify", "terms", "withdraw"} => r.arg.b \in 1..Len(B2)
  BY <1>1, NumbersKept DEF ArgTrue
<1> QED BY <1>2, <1>3, <1>4 DEF ArgTrue

LEMMA RepliesKept ==
    ASSUME NEW B, NEW S, NEW B2, NEW S2, Moved(B, S, B2, S2),
           NEW op, NEW arg, NEW ans, Replies(op, arg, ans, B, S),
           op = "verify" => arg.b \in 1..Len(B)
    PROVE  Replies(op, arg, ans, B2, S2)
<1>1. RowsMoved(B, B2)
  BY DEF Moved
<1>2. ans.code \in {"some", "limit"} => PendTrue(ans.pend, B2)
  BY <1>1, PendKept DEF Replies
<1>3. ans.code = "ok" /\ op = "slots" => SnapsTrue(ans.rows, B2, S2)
  BY SnapsKept DEF Replies
<1>4. ans.code = "ok" /\ op = "slot" => SnapTrue(ans.row, B2, S2)
  BY SnapKept DEF Replies
<1>5. ans.code = "ok" /\ op = "create" =>
          ans.b \in 1..Len(B2) /\ ans.kind = B2[ans.b].kind
  BY <1>1, NumbersKept DEF Replies, RowsMoved
<1>6. ans.code = "ok" /\ op = "verify" =>
          /\ ans.outcome \in Outcomes \ {"none"}
          /\ ans.outcome = "paid" => B2[arg.b].won
  BY <1>1 DEF Replies, RowsMoved
<1>7. ans.code = "ok" /\ op = "list" => ListTrue(ans.rows, B2)
  BY <1>1, ListKept DEF Replies
<1>8. ans.code = "ok" /\ op = "terms" => ans.terms \in TermsSet
  BY DEF Replies
<1> QED BY <1>2, <1>3, <1>4, <1>5, <1>6, <1>7, <1>8 DEF Replies

LEMMA CallKept ==
    ASSUME NEW B, NEW S, NEW B2, NEW S2, Moved(B, S, B2, S2), NEW r, CallTrue(r, B, S)
    PROVE  CallTrue(r, B2, S2)
<1>1. ArgTrue(r, B2, S2)
  BY ArgKept DEF CallTrue
<1>2. r.op = "verify" => r.arg.b \in 1..Len(B)
  BY DEF CallTrue, ArgTrue
<1>3. AnsTrue(r, B2, S2)
  BY <1>2, RepliesKept DEF CallTrue, AnsTrue
<1> QED BY <1>1, <1>3 DEF CallTrue

LEMMA ToldKept ==
    ASSUME NEW B, NEW B2, RowsMoved(B, B2), NEW T, ToldTrue(T, B)
    PROVE  ToldTrue(T, B2)
BY NumbersKept DEF ToldTrue, RowsMoved

LEMMA ChargedKept ==
    ASSUME PagesInv, Moved(bk, slot, bk', slot')
    PROVE  RowsCharged(bk', slot')
<1> SUFFICES ASSUME NEW i \in 1..Len(bk') PROVE Charged(bk'[i], slot')
  BY DEF RowsCharged
<1>1. Len(bk) \in Nat /\ Len(bk') \in Nat
  BY DEF Moved, RowsMoved
<1>2. CASE i > Len(bk)
  BY <1>2 DEF Moved, TermsKept
<1>3. CASE i \in 1..Len(bk)
  <2>1. SameTerms(bk[i], bk'[i]) /\ Charged(bk[i], slot)
    BY <1>3 DEF Moved, TermsKept, PagesInv, RowsCharged
  <2>2. bk[i].s \in Slots
    BY <1>3, RowOf
  <2>3. slot[bk[i].s].issued \subseteq slot'[bk[i].s].issued
    BY <2>2 DEF Moved, SlotsMoved
  <2> QED BY <2>1, <2>3 DEF SameTerms, Charged, Twice
<1> QED BY <1>1, <1>2, <1>3

(* A step of the server that answers a call, or none. *)
LEMMA KeepsTrue ==
    ASSUME PagesInv, UNCHANGED <<view, told>>,
           RowsTrue(bk', slot'), Moved(bk, slot, bk', slot'),
           NEW q, reqs' \subseteq reqs \cup {q},
           q \in reqs \/ (CallTrue(q, bk', slot') /\ (q.to = "page" => q.from = view.page))
    PROVE  PagesInv'
<1>1. ViewTrue(view', bk', slot')
  BY ViewKept DEF PagesInv
<1>2. ToldTrue(told', bk')
  BY ToldKept DEF PagesInv, Moved
<1>3. \A r \in reqs : CallTrue(r, bk', slot') /\ (r.to = "page" => r.from = view.page)
  BY CallKept DEF PagesInv, CallsTrue
<1>4. CallsTrue(reqs', view'.page, bk', slot')
  BY <1>3 DEF CallsTrue
<1> QED BY <1>1, <1>2, <1>4, ChargedKept DEF PagesInv

LEMMA KeepsQuiet ==
    ASSUME PagesInv, UNCHANGED <<view, reqs, told>>,
           RowsTrue(bk', slot'), Moved(bk, slot, bk', slot')
    PROVE  PagesInv'
<1>1. ViewTrue(view', bk', slot')
  BY ViewKept DEF PagesInv
<1>2. ToldTrue(told', bk')
  BY ToldKept DEF PagesInv, Moved
<1>3. CallsTrue(reqs', view'.page, bk', slot')
  BY CallKept DEF PagesInv, CallsTrue
<1> QED BY <1>1, <1>2, <1>3, ChargedKept DEF PagesInv

-----------------------------------------------------------------------------
(* Rows and slots that are updated *)

LEMMA RowSpace ==
    ASSUME PagesInv
    PROVE  /\ slot \in [Slots -> SlotRows] /\ bk \in Seq(BookingRows)
           /\ Len(bk) \in Nat /\ DOMAIN bk = 1..Len(bk) /\ Rows = 1..Len(bk)
           /\ \A i \in 1..Len(bk) : bk[i] \in BookingRows /\ ShownTerms(bk[i])
BY ElementOfSeq, LenProperties DEF PagesInv, RowsTrue, Rows

(* Nothing happens to the rows, or to the slots. *)
LEMMA SlotsSame ==
    ASSUME PagesInv, UNCHANGED slot
    PROVE  slot' \in [Slots -> SlotRows] /\ SlotsMoved(slot, slot')
BY RowSpace DEF SlotsMoved

LEMMA RowsSame ==
    ASSUME PagesInv, UNCHANGED bk
    PROVE  /\ bk' \in Seq(BookingRows) /\ RowsMoved(bk, bk')
           /\ TermsKept(bk, bk', slot')
           /\ \A i \in 1..Len(bk') : ShownTerms(bk'[i])
BY RowSpace DEF RowsMoved, TermsKept, SameTerms

(* What a slot becomes is issued, after all it has been unless an edit was *)
(* written over a newer row.                                               *)
LEMMA IssuedRow ==
    ASSUME NEW w \in SlotRows, NEW v \in SlotSpace, v.issued = w.issued,
           v.races = 0 => w.races = 0 /\ v.ver = w.ver + 1
    PROVE  Issue(v) \in SlotRows /\ w.issued \subseteq Issue(v).issued
<1> DEFINE e == <<v.ver, v.price, v.st>>
           u == [v EXCEPT !.issued = v.issued \cup {e}]
<1>1. Issue(v) = u
  BY DEF Issue, SlotSpace
<1>2. /\ e \in Issues /\ v.issued \subseteq Issues /\ v.ver \in Nat
      /\ w.ver \in Nat /\ w.issued \subseteq Issues
      /\ e[1] = v.ver
  BY DEF SlotRows, SlotSpace, Issues
<1> HIDE DEF e
<1>3. /\ u \in SlotSpace /\ u.ver = v.ver /\ u.price = v.price /\ u.st = v.st
      /\ u.races = v.races /\ u.issued = v.issued \cup {e}
  BY <1>2 DEF SlotSpace
<1> HIDE DEF u
<1>4. ASSUME u.races = 0 PROVE InOrder(u.issued, u.ver)
  <2>1. InOrder(w.issued, w.ver) /\ v.ver = w.ver + 1
    BY <1>3, <1>4 DEF SlotRows, History
  <2>2. \A x \in w.issued : x[1] \in Nat /\ x[1] <= w.ver
    BY <1>2, <2>1 DEF InOrder, Issues
  <2>3. \A x \in w.issued : x[1] <= v.ver /\ x[1] # e[1]
    BY <1>2, <2>1, <2>2
  <2>4. e[1] <= v.ver
    BY <1>2
  <2> QED BY <1>3, <2>1, <2>3, <2>4 DEF InOrder
<1>5. <<u.ver, u.price, u.st>> \in u.issued
  BY <1>3 DEF e
<1> QED BY <1>1, <1>3, <1>4, <1>5 DEF SlotRows, History

(* The version of a slot advances with its status. *)
LEMMA UpdatedSlot ==
    ASSUME PagesInv, NEW s \in Slots, NEW st \in SlotStatus
    PROVE  /\ Updated(s, st) \in SlotRows
           /\ slot[s].issued \subseteq Updated(s, st).issued
<1> DEFINE v == [slot[s] EXCEPT !.st = st, !.ver = slot[s].ver + 1]
<1>1. slot[s] \in SlotRows
  BY RowSpace
<1>2. slot[s] \in SlotSpace /\ slot[s].ver + 1 \in Nat
  BY <1>1 DEF SlotRows, SlotSpace
<1>3. /\ v \in SlotSpace /\ v.issued = slot[s].issued
      /\ v.races = slot[s].races /\ v.ver = slot[s].ver + 1
  BY <1>2 DEF SlotSpace
<1>4. Updated(s, st) = Issue(v)
  BY <1>2 DEF Updated, SlotSpace
<1> HIDE DEF v
<1> QED BY <1>1, <1>3, <1>4, IssuedRow

(* One slot becomes another row. *)
LEMMA SlotBecomes ==
    ASSUME PagesInv, NEW s \in Slots, NEW u \in SlotRows,
           slot[s].issued \subseteq u.issued, slot' = [slot EXCEPT ![s] = u]
    PROVE  slot' \in [Slots -> SlotRows] /\ SlotsMoved(slot, slot')
<1>1. slot' \in [Slots -> SlotRows]
  BY RowSpace
<1>2. \A t \in Slots : slot'[t] = IF t = s THEN u ELSE slot[t]
  BY RowSpace
<1> QED BY <1>1, <1>2 DEF SlotsMoved

LEMMA SlotUpdated ==
    ASSUME PagesInv, NEW s \in Slots, NEW st \in SlotStatus, SetSlot(s, st)
    PROVE  slot' \in [Slots -> SlotRows] /\ SlotsMoved(slot, slot')
BY UpdatedSlot, SlotBecomes DEF SetSlot

LEMMA RowUpdated ==
    ASSUME PagesInv, NEW i \in 1..Len(bk), NEW b \in BookingRows,
           b.kind = bk[i].kind, bk[i].won => b.won, ShownTerms(b),
           SameTerms(bk[i], b), bk' = [bk EXCEPT ![i] = b]
    PROVE  /\ bk' \in Seq(BookingRows) /\ RowsMoved(bk, bk')
           /\ TermsKept(bk, bk', slot')
           /\ \A j \in 1..Len(bk') : ShownTerms(bk'[j])
<1>1. bk' \in Seq(BookingRows) /\ Len(bk') = Len(bk)
  BY ExceptSeq, RowSpace
<1>2. \A j \in 1..Len(bk) : bk'[j] = IF j = i THEN b ELSE bk[j]
  BY RowSpace
<1>3. TermsKept(bk, bk', slot')
  BY <1>1, <1>2, RowSpace DEF TermsKept, SameTerms
<1> QED BY <1>1, <1>2, <1>3, RowSpace DEF RowsMoved

(* A row ends with its slot freed. *)
LEMMA EndRowTrue ==
    ASSUME PagesInv, NEW i \in 1..Len(bk), NEW how \in Modes, NEW said \in Modes,
           how # "none" => said = how, EndRow(i, how, said)
    PROVE  RowsTrue(bk', slot') /\ Moved(bk, slot, bk', slot')
<1> DEFINE b == [bk[i] EXCEPT !.st = "ended", !.how = how, !.said = said]
<1>1. bk[i] \in BookingRows /\ ShownTerms(bk[i])
  BY RowSpace
<1>2. /\ b \in BookingRows /\ b.kind = bk[i].kind /\ (bk[i].won => b.won)
      /\ ShownTerms(b) /\ SameTerms(bk[i], b)
  BY <1>1 DEF BookingRows, ShownTerms, SameTerms
<1>3. bk' = [bk EXCEPT ![i] = b]
  BY <1>1, RowSpace DEF EndRow, BookingRows
<1> HIDE DEF b
<1>4. /\ bk' \in Seq(BookingRows) /\ RowsMoved(bk, bk')
      /\ TermsKept(bk, bk', slot')
      /\ \A j \in 1..Len(bk') : ShownTerms(bk'[j])
  BY <1>2, <1>3, RowUpdated
<1>5. bk[i].s \in Slots /\ Freed(bk[i].kind) \in SlotStatus
  BY <1>1 DEF BookingRows, Freed, SlotStatus
<1>6. slot' \in [Slots -> SlotRows] /\ SlotsMoved(slot, slot')
  BY <1>5, SlotUpdated DEF EndRow
<1> QED BY <1>4, <1>6 DEF RowsTrue, Moved

LEMMA ConfirmTrue ==
    ASSUME PagesInv, NEW i \in 1..Len(bk), Confirm(i)
    PROVE  RowsTrue(bk', slot') /\ Moved(bk, slot, bk', slot') /\ bk'[i].won
<1> DEFINE b == [bk[i] EXCEPT !.st = "paid", !.won = TRUE]
<1>1. bk[i] \in BookingRows /\ ShownTerms(bk[i])
  BY RowSpace
<1>2. b \in BookingRows /\ b.kind = bk[i].kind /\ b.won /\ ShownTerms(b)
      /\ SameTerms(bk[i], b)
  BY <1>1 DEF BookingRows, ShownTerms, SameTerms
<1>3. bk' = [bk EXCEPT ![i] = b]
  BY <1>1, RowSpace DEF Confirm, BookingRows
<1> HIDE DEF b
<1>4. /\ bk' \in Seq(BookingRows) /\ RowsMoved(bk, bk')
      /\ TermsKept(bk, bk', slot')
      /\ \A j \in 1..Len(bk') : ShownTerms(bk'[j])
  BY <1>2, <1>3, RowUpdated
<1>5. bk[i].s \in Slots /\ "reserved" \in SlotStatus
  BY <1>1 DEF BookingRows, SlotStatus
<1>6. slot' \in [Slots -> SlotRows] /\ SlotsMoved(slot, slot')
  BY <1>5, SlotUpdated DEF Confirm
<1>7. bk'[i].won
  BY <1>2, <1>3, RowSpace
<1> QED BY <1>4, <1>6, <1>7 DEF RowsTrue, Moved

(* A flag or the status of a row changes; its slot follows, or not. *)
LEMMA RowMarked ==
    ASSUME PagesInv, NEW i \in 1..Len(bk),
           \/ bk' = [bk EXCEPT ![i].track = TRUE]
           \/ bk' = [bk EXCEPT ![i].cap = TRUE]
           \/ bk' = [bk EXCEPT ![i].due = TRUE]
           \/ bk' = [bk EXCEPT ![i].st = "ended"]
           \/ bk' = [bk EXCEPT ![i].st = "paid", ![i].how = "none", ![i].said = "none"]
           \/ \E m \in Modes : bk' = [bk EXCEPT ![i].st = "offered", ![i].how = m,
                                                ![i].said = m],
           UNCHANGED slot \/ \E st \in SlotStatus : SetSlot(bk[i].s, st)
    PROVE  RowsTrue(bk', slot') /\ Moved(bk, slot, bk', slot')
<1>1. bk[i] \in BookingRows /\ ShownTerms(bk[i])
  BY RowSpace
<1> DEFINE Fit(b) == /\ b \in BookingRows /\ b.kind = bk[i].kind
                     /\ bk[i].won => b.won
                     /\ ShownTerms(b) /\ SameTerms(bk[i], b)
                     /\ bk' = [bk EXCEPT ![i] = b]
<1>2. \E b : Fit(b)
  <2>1. CASE bk' = [bk EXCEPT ![i].track = TRUE]
    <3>1. Fit([bk[i] EXCEPT !.track = TRUE])
      BY <1>1, <2>1 DEF BookingRows, ShownTerms, SameTerms
    <3> QED BY <3>1
  <2>2. CASE bk' = [bk EXCEPT ![i].cap = TRUE]
    <3>1. Fit([bk[i] EXCEPT !.cap = TRUE])
      BY <1>1, <2>2 DEF BookingRows, ShownTerms, SameTerms
    <3> QED BY <3>1
  <2>3. CASE bk' = [bk EXCEPT ![i].due = TRUE]
    <3>1. Fit([bk[i] EXCEPT !.due = TRUE])
      BY <1>1, <2>3 DEF BookingRows, ShownTerms, SameTerms
    <3> QED BY <3>1
  <2>4. CASE bk' = [bk EXCEPT ![i].st = "ended"]
    <3>1. Fit([bk[i] EXCEPT !.st = "ended"])
      BY <1>1, <2>4 DEF BookingRows, ShownTerms, SameTerms
    <3> QED BY <3>1
  <2>5. CASE bk' = [bk EXCEPT ![i].st = "paid", ![i].how = "none", ![i].said = "none"]
    <3>1. Fit([bk[i] EXCEPT !.st = "paid", !.how = "none", !.said = "none"])
      BY <1>1, <2>5, RowSpace DEF BookingRows, ShownTerms, SameTerms, Modes
    <3> QED BY <3>1
  <2>6. ASSUME NEW m \in Modes,
               bk' = [bk EXCEPT ![i].st = "offered", ![i].how = m, ![i].said = m]
        PROVE  \E b : Fit(b)
    <3>1. Fit([bk[i] EXCEPT !.st = "offered", !.how = m, !.said = m])
      BY <1>1, <2>6, RowSpace DEF BookingRows, ShownTerms, SameTerms
    <3> QED BY <3>1
  <2> QED BY <2>1, <2>2, <2>3, <2>4, <2>5, <2>6
<1>3. /\ bk' \in Seq(BookingRows) /\ RowsMoved(bk, bk')
      /\ TermsKept(bk, bk', slot')
      /\ \A j \in 1..Len(bk') : ShownTerms(bk'[j])
  <2>1. PICK b : Fit(b)
    BY <1>2
  <2> QED BY <2>1, RowUpdated
<1>4. bk[i].s \in Slots
  BY <1>1 DEF BookingRows
<1>5. slot' \in [Slots -> SlotRows] /\ SlotsMoved(slot, slot')
  BY <1>4, SlotUpdated, SlotsSame
<1> QED BY <1>3, <1>5 DEF RowsTrue, Moved

LEMMA ServerSame ==
    ASSUME PagesInv, UNCHANGED server
    PROVE  RowsTrue(bk', slot') /\ Moved(bk, slot, bk', slot')
BY SlotsSame, RowsSame DEF server, RowsTrue, Moved

LEMMA ResolveTrue ==
    ASSUME PagesInv, NEW i \in 1..Len(bk), Resolve(i)
    PROVE  /\ RowsTrue(bk', slot') /\ Moved(bk, slot, bk', slot')
           /\ Outcome(i) \in Outcomes \ {"none"}
           /\ Outcome(i) = "paid" => bk'[i].won
<1>1. RowsTrue(bk', slot') /\ Moved(bk, slot, bk', slot')
  BY ConfirmTrue, ServerSame DEF Resolve
<1>2. Outcome(i) \in Outcomes \ {"none"}
  BY DEF Outcome, Outcomes
<1>3. ASSUME Outcome(i) = "paid" PROVE bk'[i].won
  <2>1. CASE bk[i].cap /\ bk[i].st = "unpaid"
    BY <2>1, ConfirmTrue DEF Resolve
  <2>2. CASE ~(bk[i].cap /\ bk[i].st = "unpaid")
    <3>1. bk[i].won
      BY <1>3, <2>2 DEF Outcome
    <3> QED BY <2>2, <3>1 DEF Resolve, server
  <2> QED BY <2>1, <2>2
<1> QED BY <1>1, <1>2, <1>3

-----------------------------------------------------------------------------
(* Calls that are served *)

(* A refusal carries nothing, and most successes neither. *)
LEMMA PlainReply ==
    ASSUME NEW op, NEW arg, NEW ans, NEW B, NEW S,
           ans.code \notin {"ok", "some", "limit"}
              \/ (ans.code = "ok" /\ op \in {"cancel", "release", "withdraw"})
    PROVE  Replies(op, arg, ans, B, S)
BY DEF Replies

LEMMA Answered ==
    ASSUME PagesInv, UNCHANGED <<view, told>>, NEW r \in reqs, NEW a,
           RowsTrue(bk', slot'), Moved(bk, slot, bk', slot'),
           Answer(r, a), Replies(r.op, r.arg, a, bk', slot')
    PROVE  PagesInv'
<1> DEFINE q == [r EXCEPT !.ans = a]
<1>1. CallTrue(r, bk, slot) /\ (r.to = "page" => r.from = view.page)
  BY CallOf
<1>2. CallTrue(r, bk', slot')
  BY <1>1, CallKept
<1>3. /\ q.from = r.from /\ q.k = r.k /\ q.op = r.op /\ q.arg = r.arg
      /\ q.ans = a /\ q.to = r.to
      /\ q = [from |-> q.from, k |-> q.k, op |-> q.op, arg |-> q.arg,
              ans |-> q.ans, to |-> q.to]
  BY <1>1 DEF CallTrue, CallForm
<1>4. reqs' \subseteq reqs \cup {q}
  BY DEF Answer
<1> HIDE DEF q
<1>5. CallForm(q)
  BY <1>2, <1>3 DEF CallTrue, CallForm
<1>6. ArgTrue(q, bk', slot')
  BY <1>2, <1>3 DEF CallTrue, ArgTrue
<1>7. AnsTrue(q, bk', slot')
  BY <1>3 DEF AnsTrue
<1>8. CallTrue(q, bk', slot')
  BY <1>5, <1>6, <1>7 DEF CallTrue
<1> QED BY <1>1, <1>3, <1>4, <1>8, KeepsTrue

LEMMA AnsweredOnly ==
    ASSUME PagesInv, UNCHANGED <<view, told>>, NEW r \in reqs, NEW a,
           Only(r, a), Replies(r.op, r.arg, a, bk, slot)
    PROVE  PagesInv'
<1>1. UNCHANGED server /\ Answer(r, a)
  BY DEF Only
<1>2. Replies(r.op, r.arg, a, bk', slot')
  BY <1>1 DEF server
<1> QED BY <1>1, <1>2, ServerSame, Answered

LEMMA LoseTrue == ASSUME PagesInv, NEW r \in reqs, Lose(r) PROVE PagesInv'
<1> DEFINE a == [code |-> "failed"]
           q == [r EXCEPT !.ans = a]
<1>1. CallTrue(r, bk, slot) /\ (r.to = "page" => r.from = view.page)
  BY CallOf
<1>2. Replies(r.op, r.arg, a, bk, slot)
  BY PlainReply
<1>3. reqs' \subseteq reqs \cup {q}
  BY DEF Lose
<1> HIDE DEF a
<1>4. /\ q.from = r.from /\ q.k = r.k /\ q.op = r.op /\ q.arg = r.arg
      /\ q.ans = a /\ q.to = r.to
      /\ q = [from |-> q.from, k |-> q.k, op |-> q.op, arg |-> q.arg,
              ans |-> q.ans, to |-> q.to]
  BY <1>1 DEF CallTrue, CallForm
<1> HIDE DEF q
<1>5. CallForm(q)
  BY <1>1, <1>4 DEF CallTrue, CallForm
<1>6. ArgTrue(q, bk, slot)
  BY <1>1, <1>4 DEF CallTrue, ArgTrue
<1>7. AnsTrue(q, bk, slot)
  BY <1>2, <1>4 DEF AnsTrue
<1>8. CallTrue(q, bk, slot)
  BY <1>5, <1>6, <1>7 DEF CallTrue
<1>9. UNCHANGED <<slot, bk, told>> /\ ViewTrue(view', bk, slot) /\ view'.page = view.page
  BY ViewOf DEF Lose
<1> QED BY <1>1, <1>3, <1>4, <1>8, <1>9, Stays

(* What a call that only reads answers is true when it answers. *)
LEMMA SnapshotTrue ==
    ASSUME PagesInv, NEW s \in Slots
    PROVE  SnapTrue(Snapshot(s), bk, slot)
<1> DEFINE x == Snapshot(s)
           m == IF slot[s].st = "reserving" /\ OwnUnpaid(s) # {}
                THEN CHOOSE i \in OwnUnpaid(s) : TRUE ELSE 0
<1>1. m # 0 => m \in OwnUnpaid(s)
  OBVIOUS
<1>2. m # 0 => Names(m, "booking", bk)
  BY <1>1, RowSpace DEF OwnUnpaid, Names
<1>3. m \in Nat
  <2>1. m # 0 => m \in 1..Len(bk)
    BY <1>2 DEF Names
  <2> HIDE DEF m
  <2> QED BY <2>1, RowSpace
<1>4. slot[s] \in SlotRows
  BY RowSpace
<1>5. x = [s |-> s, st |-> slot[s].st, ver |-> slot[s].ver, price |-> slot[s].price,
           mine |-> m]
  BY DEF Snapshot
<1> HIDE DEF m, x
<1>6. x \in Snaps /\ Quotes(x, slot) /\ x.mine = m
  <2>1. x \in Snaps /\ x.mine = m /\ x.ver \in Nat
    BY <1>3, <1>4, <1>5 DEF SlotRows, SlotSpace, Snaps
  <2>2. <<slot[s].ver, slot[s].price, slot[s].st>> \in slot[s].issued
    BY <1>4 DEF SlotRows, History
  <2> QED BY <1>5, <2>1, <2>2 DEF Quotes
<1> QED BY <1>2, <1>6 DEF SnapTrue, x

LEMMA PendOfTrue ==
    ASSUME PagesInv, NEW i \in 1..Len(bk)
    PROVE  PendTrue(PendOf(i), bk)
<1>1. bk[i] \in BookingRows
  BY RowSpace
<1> QED BY <1>1, RowSpace DEF BookingRows, PendOf, PendTrue, Pends, Names

LEMMA ModeNowTrue ==
    ASSUME PagesInv, NEW i \in 1..Len(bk)
    PROVE  ModeNow(i) \in Modes
BY DEF ModeNow, Modes

LEMMA ServeReadTrue ==
    ASSUME PagesInv, UNCHANGED <<view, told>>, NEW r \in reqs, ServeRead(r)
    PROVE  PagesInv'
<1>0. CallTrue(r, bk, slot)
  BY CallOf
<1>1. CASE r.op = "slots" /\ Only(r, [code |-> "ok", rows |->
                     {Snapshot(s) : s \in {t \in Slots : DayOf[t] = r.arg.day}}])
  <2> DEFINE R == {Snapshot(s) : s \in {t \in Slots : DayOf[t] = r.arg.day}}
             a == [code |-> "ok", rows |-> R]
  <2>1. \A x \in R : SnapTrue(x, bk, slot)
    BY SnapshotTrue
  <2>2. a.code = "ok" /\ a.rows = R
    OBVIOUS
  <2>3. Only(r, a)
    BY <1>1
  <2> HIDE DEF R, a
  <2>4. SnapsTrue(a.rows, bk, slot)
    BY <2>1, <2>2 DEF SnapsTrue, SnapTrue
  <2>5. Replies(r.op, r.arg, a, bk, slot)
    BY <1>1, <2>2, <2>4 DEF Replies
  <2> QED BY <2>3, <2>5, AnsweredOnly
<1>2. CASE /\ r.op = "pending"
           /\ \E i \in Rows : Blocks(i) /\ Only(r, [code |-> "some", pend |-> PendOf(i)])
  <2>1. PICK i \in 1..Len(bk) : Only(r, [code |-> "some", pend |-> PendOf(i)])
    BY <1>2, RowSpace
  <2> DEFINE p == PendOf(i)
             a == [code |-> "some", pend |-> p]
  <2>2. PendTrue(p, bk)
    BY PendOfTrue
  <2> HIDE DEF p
  <2>3. Replies(r.op, r.arg, a, bk, slot)
    BY <1>2, <2>2 DEF Replies
  <2>4. Only(r, a)
    BY <2>1 DEF p
  <2> HIDE DEF a
  <2> QED BY <2>3, <2>4, AnsweredOnly
<1>3. CASE Only(r, [code |-> "null"])
  BY <1>3, PlainReply, AnsweredOnly
<1>4. CASE r.op = "slot" /\ Only(r, [code |-> "ok", row |-> Snapshot(r.arg.s)])
  <2> DEFINE x == Snapshot(r.arg.s)
             a == [code |-> "ok", row |-> x]
  <2>1. r.arg.s \in Slots
    BY <1>0, <1>4 DEF CallTrue, ArgTrue
  <2>2. SnapTrue(x, bk, slot)
    BY <2>1, SnapshotTrue
  <2>3. Only(r, a)
    BY <1>4
  <2> HIDE DEF x
  <2>4. Replies(r.op, r.arg, a, bk, slot)
    BY <1>4, <2>2 DEF Replies
  <2> HIDE DEF a
  <2> QED BY <2>3, <2>4, AnsweredOnly
<1>5. CASE /\ r.op = "detail"
           /\ Only(r, [code |-> CASE ~Addresses(r) -> "failed"
                              [] /\ Addresses(r) /\ bk[r.arg.b].st = "unpaid"
                                 /\ ~Processing(r.arg.b) -> "ok"
                              [] OTHER -> "over"])
  <2> DEFINE c == CASE ~Addresses(r) -> "failed"
                    [] /\ Addresses(r) /\ bk[r.arg.b].st = "unpaid"
                       /\ ~Processing(r.arg.b) -> "ok"
                    [] OTHER -> "over"
             a == [code |-> c]
  <2>1. c \in {"failed", "ok", "over"}
    OBVIOUS
  <2>2. Only(r, a)
    BY <1>5
  <2> HIDE DEF c
  <2>3. Replies(r.op, r.arg, a, bk, slot)
    BY <1>5, <2>1 DEF Replies
  <2> HIDE DEF a
  <2> QED BY <2>2, <2>3, AnsweredOnly
<1>6. CASE /\ r.op = "list"
           /\ Only(r, [code |-> "ok", rows |-> {[b |-> i, st |-> bk[i].st] :
                         i \in {j \in Rows : InList(j, r.arg.tab)}}])
  <2> DEFINE R == {[b |-> i, st |-> bk[i].st] : i \in {j \in Rows : InList(j, r.arg.tab)}}
             a == [code |-> "ok", rows |-> R]
  <2>1. ASSUME NEW x \in R PROVE x \in ListRows /\ Names(x.b, "booking", bk)
    <3>1. PICK i \in 1..Len(bk) : /\ x = [b |-> i, st |-> bk[i].st]
                                  /\ bk[i].kind = "booking" \/ bk[i].won
      BY RowSpace DEF InList
    <3>2. bk[i] \in BookingRows
      BY RowSpace
    <3> QED BY <3>1, <3>2, RowSpace DEF ListRows, Names, BookingRows
  <2>2. a.code = "ok" /\ a.rows = R
    OBVIOUS
  <2>3. Only(r, a)
    BY <1>6
  <2> HIDE DEF R, a
  <2>4. ListTrue(a.rows, bk)
    BY <2>1, <2>2 DEF ListTrue
  <2>5. Replies(r.op, r.arg, a, bk, slot)
    BY <1>6, <2>2, <2>4 DEF Replies
  <2> QED BY <2>3, <2>5, AnsweredOnly
<1>7. CASE /\ r.op = "terms"
           /\ Only(r, [code |-> "ok",
                       terms |-> [b |-> r.arg.b, mode |-> ModeNow(r.arg.b)]])
  <2> DEFINE t == [b |-> r.arg.b, mode |-> ModeNow(r.arg.b)]
             a == [code |-> "ok", terms |-> t]
  <2>1. r.arg.b \in 1..Len(bk)
    BY <1>0, <1>7 DEF CallTrue, ArgTrue
  <2>2. t \in TermsSet
    BY <2>1, ModeNowTrue, RowSpace DEF TermsSet
  <2>3. Only(r, a)
    BY <1>7
  <2> HIDE DEF t
  <2>4. Replies(r.op, r.arg, a, bk, slot)
    BY <1>7, <2>2 DEF Replies
  <2> HIDE DEF a
  <2> QED BY <2>3, <2>4, AnsweredOnly
<1> QED BY <1>1, <1>2, <1>3, <1>4, <1>5, <1>6, <1>7 DEF ServeRead

(* A slot sold again, and the rows that lapsed ended: what a checkout does. *)
LEMMA CreateRows ==
    ASSUME PagesInv, NEW s \in Slots, NEW k \in Kinds, NEW arg, arg.ver \in Nat,
           NEW Old, Charged(NewRow(s, k, arg), slot'),
           bk' = Append([i \in Rows |->
                            IF i \in Old THEN [bk[i] EXCEPT !.st = "ended"]
                            ELSE bk[i]], NewRow(s, k, arg))
    PROVE  /\ bk' \in Seq(BookingRows) /\ RowsMoved(bk, bk')
           /\ TermsKept(bk, bk', slot')
           /\ \A i \in 1..Len(bk') : ShownTerms(bk'[i])
           /\ Len(bk') = Len(bk) + 1 /\ bk'[Len(bk) + 1].kind = k
<1> DEFINE B == [i \in 1..Len(bk) |->
                    IF i \in Old THEN [bk[i] EXCEPT !.st = "ended"] ELSE bk[i]]
           b == NewRow(s, k, arg)
<1>1. b \in BookingRows /\ ShownTerms(b) /\ b.kind = k /\ Charged(b, slot')
  BY DEF NewRow, BookingRows, ShownTerms, Modes
<1>2. \A i \in 1..Len(bk) : /\ B[i] \in BookingRows /\ ShownTerms(B[i])
                            /\ B[i].kind = bk[i].kind /\ B[i].won = bk[i].won
                            /\ SameTerms(bk[i], B[i])
  <2> TAKE i \in 1..Len(bk)
  <2>1. bk[i] \in BookingRows /\ ShownTerms(bk[i])
    BY RowSpace
  <2> QED BY <2>1 DEF BookingRows, ShownTerms, SameTerms
<1>3. bk' = Append(B, b)
  BY RowSpace
<1>4. DOMAIN B = 1..Len(bk)
  OBVIOUS
<1> HIDE DEF B, b
<1>5. B \in Seq(BookingRows) /\ Len(B) = Len(bk)
  <2>1. B \in [1..Len(bk) -> BookingRows]
    <3>1. B = [i \in 1..Len(bk) |-> B[i]]
      BY <1>4 DEF B
    <3> QED BY <1>2, <3>1
  <2>2. B \in Seq(BookingRows)
    <3> DEFINE n == Len(bk)
    <3>1. n \in Nat /\ B \in [1..n -> BookingRows]
      BY <2>1, RowSpace
    <3> HIDE DEF n
    <3> QED BY <3>1, SeqDef
  <2> QED BY <1>4, <2>2, RowSpace, LenProperties
<1>6. /\ bk' \in Seq(BookingRows) /\ Len(bk') = Len(bk) + 1
      /\ \A i \in 1..Len(bk) : bk'[i] = B[i]
      /\ bk'[Len(bk) + 1] = b
  <2>1. /\ Append(B, b) \in Seq(BookingRows)
        /\ Len(Append(B, b)) = Len(B) + 1
        /\ \A i \in 1..Len(B) : Append(B, b)[i] = B[i]
        /\ Append(B, b)[Len(B) + 1] = b
    BY <1>1, <1>5, AppendProperties
  <2> QED BY <1>3, <1>5, <2>1
<1>7. \A i \in 1..Len(bk') : ShownTerms(bk'[i])
  <2> TAKE i \in 1..Len(bk')
  <2>1. i \in 1..Len(bk) \/ i = Len(bk) + 1
    BY <1>6, RowSpace
  <2> QED BY <1>1, <1>2, <1>6, <2>1
<1>8. TermsKept(bk, bk', slot')
  <2>1. \A i \in 1..Len(bk') : i > Len(bk) => i = Len(bk) + 1
    BY <1>6, RowSpace
  <2> QED BY <1>1, <1>2, <1>6, <2>1 DEF TermsKept
<1> QED BY <1>1, <1>2, <1>6, <1>7, <1>8, RowSpace DEF RowsMoved

LEMMA SomeSlotsUpdated ==
    ASSUME PagesInv,
           \A t \in Slots : slot'[t] = slot[t]
                            \/ \E st \in SlotStatus : slot'[t] = Updated(t, st)
    PROVE  SlotsMoved(slot, slot')
BY UpdatedSlot DEF SlotsMoved

(* The version the page read is the slot's: another price beside it was    *)
(* issued under it too.                                                    *)
LEMMA CreatedCharged ==
    ASSUME PagesInv, NEW s \in Slots, NEW k, NEW arg, arg.s = s, Quotes(arg, slot),
           slot[s].ver = arg.ver, SlotsMoved(slot, slot')
    PROVE  Charged(NewRow(s, k, arg), slot')
<1> DEFINE b == NewRow(s, k, arg)
<1>1. b.s = s /\ b.ver = arg.ver /\ (b.quoted <=> arg.price = slot[s].price)
  BY DEF NewRow
<1> HIDE DEF b
<1>2. PICK y \in slot[s].issued : y[1] = arg.ver /\ y[2] = arg.price
  BY DEF Quotes
<1> DEFINE x == <<slot[s].ver, slot[s].price, slot[s].st>>
<1>3. x \in slot[s].issued
  BY RowSpace DEF SlotRows, History
<1>4. x[1] = arg.ver /\ x[2] = slot[s].price
  OBVIOUS
<1> HIDE DEF x
<1>5. x \in slot'[s].issued /\ y \in slot'[s].issued
  BY <1>2, <1>3 DEF SlotsMoved
<1>6. b.quoted \/ Twice(slot'[s].issued, arg.ver)
  BY <1>1, <1>2, <1>4, <1>5 DEF Twice
<1>7. Charged(b, slot')
  BY <1>1, <1>6 DEF Charged
<1> QED BY <1>7 DEF b

LEMMA ServeCreateTrue ==
    ASSUME PagesInv, UNCHANGED <<view, told>>, NEW r \in reqs, ServeCreate(r)
    PROVE  PagesInv'
<1> DEFINE s == r.arg.s
           Old == {i \in Rows : bk[i].st = "unpaid"}
           k == IF slot[s].st = "open" THEN "booking" ELSE "replacement_hold"
           OldOn(t) == {i \in Old : bk[i].s = t}
           a == [code |-> "ok", b |-> Len(bk) + 1, kind |-> k]
<1>1. r.op = "create" /\ s \in Slots /\ Quotes(r.arg, slot)
  BY CallOf DEF ServeCreate, CallTrue, ArgTrue
<1>2. CASE \E i \in Rows : Blocks(i) /\ Only(r, [code |-> "limit", pend |-> PendOf(i)])
  <2>1. PICK i \in 1..Len(bk) : Only(r, [code |-> "limit", pend |-> PendOf(i)])
    BY <1>2, RowSpace
  <2> DEFINE p == PendOf(i)
             c == [code |-> "limit", pend |-> p]
  <2>2. PendTrue(p, bk)
    BY PendOfTrue
  <2> HIDE DEF p
  <2>3. Replies(r.op, r.arg, c, bk, slot)
    BY <2>2 DEF Replies
  <2>4. Only(r, c)
    BY <2>1 DEF p
  <2> HIDE DEF c
  <2> QED BY <2>3, <2>4, AnsweredOnly
<1>3. CASE Only(r, [code |-> "gone"])
  BY <1>3, PlainReply, AnsweredOnly
<1>4. CASE /\ Sellable(s, r.arg.ver)
           /\ bk' = Append([i \in Rows |->
                              IF i \in Old THEN [bk[i] EXCEPT !.st = "ended"]
                              ELSE bk[i]], NewRow(s, k, r.arg))
           /\ slot' = [t \in Slots |->
                CASE t = s -> Updated(t, "reserving")
                  [] t # s /\ OldOn(t) # {} ->
                        Updated(t, Freed(bk[CHOOSE i \in OldOn(t) : TRUE].kind))
                  [] OTHER -> slot[t]]
           /\ Answer(r, a)
  <2>1. slot[s].ver = r.arg.ver /\ r.arg.ver \in Nat
    BY <1>1, <1>4 DEF Sellable, Quotes
  <2>2. k \in Kinds
    BY DEF Kinds
  <2> HIDE DEF k
  <2>4. \A t \in Slots : \/ slot'[t] = slot[t]
                         \/ \E st \in SlotStatus : slot'[t] = Updated(t, st)
    <3>1. \A x : Freed(x) \in SlotStatus
      BY DEF Freed, SlotStatus
    <3>2. "reserving" \in SlotStatus
      BY DEF SlotStatus
    <3> TAKE t \in Slots
    <3>3. \/ slot'[t] = Updated(t, "reserving")
          \/ \E x : slot'[t] = Updated(t, Freed(x))
          \/ slot'[t] = slot[t]
      BY <1>4
    <3> QED BY <3>1, <3>2, <3>3
  <2>8. SlotsMoved(slot, slot')
    BY <2>4, SomeSlotsUpdated
  <2>9. Charged(NewRow(s, k, r.arg), slot')
    BY <1>1, <2>1, <2>8, CreatedCharged
  <2>3. /\ bk' \in Seq(BookingRows) /\ RowsMoved(bk, bk')
        /\ TermsKept(bk, bk', slot')
        /\ \A i \in 1..Len(bk') : ShownTerms(bk'[i])
        /\ Len(bk') = Len(bk) + 1 /\ bk'[Len(bk) + 1].kind = k
    BY <1>1, <1>4, <2>1, <2>2, <2>9, CreateRows
  <2>5. slot' \in [Slots -> SlotRows]
    <3>1. \A t \in Slots : slot'[t] \in SlotRows
      BY <2>4, UpdatedSlot, RowSpace
    <3>2. slot' = [t \in Slots |-> slot'[t]]
      BY <1>4
    <3> QED BY <3>1, <3>2
  <2>6. RowsTrue(bk', slot') /\ Moved(bk, slot, bk', slot')
    BY <2>3, <2>5, <2>8 DEF RowsTrue, Moved
  <2>7. Replies(r.op, r.arg, a, bk', slot')
    BY <1>1, <2>3, RowSpace DEF Replies
  <2> QED BY <1>4, <2>6, <2>7, Answered
<1> QED BY <1>2, <1>3, <1>4 DEF ServeCreate

LEMMA ServePayTrue ==
    ASSUME PagesInv, UNCHANGED <<view, told>>, NEW r \in reqs, ServePay(r)
    PROVE  PagesInv'
<1> DEFINE i == r.arg.b
<1>1. i \in 1..Len(bk)
  BY CallOf DEF ServePay, CallTrue, ArgTrue, Names
<1>2. CASE /\ bk' = [bk EXCEPT ![i].track = TRUE]
           /\ Answer(r, [code |-> "url"])
           /\ UNCHANGED slot
  <2>1. RowsTrue(bk', slot') /\ Moved(bk, slot, bk', slot')
    BY <1>1, <1>2, RowMarked
  <2> QED BY <1>2, <2>1, PlainReply, Answered
<1>3. CASE Confirm(i) /\ Answer(r, [code |-> "done"])
  BY <1>1, <1>3, ConfirmTrue, PlainReply, Answered
<1>4. CASE EndRow(i, "none", "none") /\ Answer(r, [code |-> "gone"])
  <2>1. RowsTrue(bk', slot') /\ Moved(bk, slot, bk', slot')
    BY <1>1, <1>4, EndRowTrue DEF Modes
  <2> QED BY <1>4, <2>1, PlainReply, Answered
<1>5. CASE Only(r, [code |-> "done"]) \/ Only(r, [code |-> "gone"])
  BY <1>5, PlainReply, AnsweredOnly
<1> QED BY <1>2, <1>3, <1>4, <1>5 DEF ServePay

LEMMA ServeReleaseTrue ==
    ASSUME PagesInv, UNCHANGED <<view, told>>, NEW r \in reqs, ServeRelease(r)
    PROVE  PagesInv'
<1> DEFINE i == r.arg.b
<1>1. i \in 1..Len(bk) /\ r.op = "release"
  BY CallOf DEF ServeRelease, CallTrue, ArgTrue, Names
<1>2. CASE EndRow(i, "none", "none") /\ Answer(r, [code |-> "ok"])
  <2>1. RowsTrue(bk', slot') /\ Moved(bk, slot, bk', slot')
    BY <1>1, <1>2, EndRowTrue DEF Modes
  <2> QED BY <1>1, <1>2, <2>1, PlainReply, Answered
<1>3. CASE Only(r, [code |-> "gone"])
  BY <1>3, PlainReply, AnsweredOnly
<1> QED BY <1>2, <1>3 DEF ServeRelease

LEMMA ServeCancelTrue ==
    ASSUME PagesInv, UNCHANGED <<view, told>>, NEW r \in reqs, ServeCancel(r)
    PROVE  PagesInv'
<1> DEFINE i == r.arg.b
           m == ModeNow(i)
<1>1. i \in 1..Len(bk) /\ r.op = "cancel" /\ r.arg.said = r.arg.mode
  BY CallOf DEF ServeCancel, CallTrue, ArgTrue, Names
<1>2. m \in Modes
  BY <1>1, ModeNowTrue
<1>3. CASE EndRow(i, "none", "none") /\ Answer(r, [code |-> "ok"])
  <2>1. RowsTrue(bk', slot') /\ Moved(bk, slot, bk', slot')
    BY <1>1, <1>3, EndRowTrue DEF Modes
  <2> QED BY <1>1, <1>3, <2>1, PlainReply, Answered
<1>4. CASE Confirm(i) /\ \E c \in {"gone", "ok"} : Answer(r, [code |-> c])
  <2>1. PICK c \in {"gone", "ok"} : Answer(r, [code |-> c])
    BY <1>4
  <2>2. Replies(r.op, r.arg, [code |-> c], bk', slot')
    BY <1>1, <2>1, PlainReply
  <2> QED BY <1>1, <1>4, <2>1, <2>2, ConfirmTrue, Answered
<1>5. CASE Agreed(r, m) /\ EndRow(i, m, r.arg.said) /\ Answer(r, [code |-> "ok"])
  <2>1. r.arg.said = m
    BY <1>1, <1>5 DEF Agreed
  <2>2. RowsTrue(bk', slot') /\ Moved(bk, slot, bk', slot')
    BY <1>1, <1>2, <1>5, <2>1, EndRowTrue
  <2> QED BY <1>1, <1>5, <2>2, PlainReply, Answered
<1>6. CASE /\ Agreed(r, m)
           /\ bk' = [bk EXCEPT ![i].st = "offered", ![i].how = m,
                               ![i].said = r.arg.said]
           /\ SetSlot(bk[i].s, "offered")
           /\ Answer(r, [code |-> "ok"])
  <2>1. r.arg.said = m
    BY <1>1, <1>6 DEF Agreed
  <2>2. RowsTrue(bk', slot') /\ Moved(bk, slot, bk', slot')
    BY <1>1, <1>2, <1>6, <2>1, RowMarked DEF SlotStatus
  <2> QED BY <1>1, <1>6, <2>2, PlainReply, Answered
<1>7. CASE Only(r, [code |-> "gone"])
  BY <1>7, PlainReply, AnsweredOnly
<1> QED BY <1>3, <1>4, <1>5, <1>6, <1>7 DEF ServeCancel

LEMMA ServeWithdrawTrue ==
    ASSUME PagesInv, UNCHANGED <<view, told>>, NEW r \in reqs, ServeWithdraw(r)
    PROVE  PagesInv'
<1> DEFINE i == r.arg.b
<1>1. i \in 1..Len(bk) /\ r.op = "withdraw"
  BY CallOf DEF ServeWithdraw, CallTrue, ArgTrue
<1>2. CASE /\ bk' = [bk EXCEPT ![i].st = "paid", ![i].how = "none",
                               ![i].said = "none"]
           /\ SetSlot(bk[i].s, "reserved")
           /\ Answer(r, [code |-> "ok"])
  <2>1. RowsTrue(bk', slot') /\ Moved(bk, slot, bk', slot')
    BY <1>1, <1>2, RowMarked DEF SlotStatus
  <2> QED BY <1>1, <1>2, <2>1, PlainReply, Answered
<1>3. CASE Only(r, [code |-> "gone"])
  BY <1>3, PlainReply, AnsweredOnly
<1> QED BY <1>2, <1>3 DEF ServeWithdraw

LEMMA ServeVerifyTrue ==
    ASSUME PagesInv, UNCHANGED <<view, told>>, NEW r \in reqs, ServeVerify(r)
    PROVE  PagesInv'
<1> DEFINE i == r.arg.b
           o == Outcome(i)
           a == [code |-> "ok", outcome |-> o]
<1>1. i \in 1..Len(bk) /\ r.op = "verify"
  BY CallOf DEF ServeVerify, CallTrue, ArgTrue
<1>2. /\ RowsTrue(bk', slot') /\ Moved(bk, slot, bk', slot')
      /\ o \in Outcomes \ {"none"} /\ (o = "paid" => bk'[i].won)
  BY <1>1, ResolveTrue DEF ServeVerify
<1>3. Answer(r, a)
  BY DEF ServeVerify
<1> HIDE DEF o
<1>4. Replies(r.op, r.arg, a, bk', slot')
  BY <1>1, <1>2 DEF Replies
<1> QED BY <1>2, <1>3, <1>4, Answered

LEMMA ServeTrue == ASSUME PagesInv, NEW r \in reqs, Serve(r) PROVE PagesInv'
<1>1. UNCHANGED <<view, told>>
  BY DEF Serve
<1> QED BY <1>1, ServeCreateTrue, ServePayTrue, ServeReleaseTrue, ServeCancelTrue,
           ServeWithdrawTrue, ServeVerifyTrue, ServeReadTrue DEF Serve

-----------------------------------------------------------------------------
(* Others, the clock, the jobs and the gateway *)

LEMMA OthersTrue == ASSUME PagesInv, NEW s \in Slots, OthersSlot(s) PROVE PagesInv'
<1>1. UNCHANGED <<view, reqs, told, bk>>
  BY DEF OthersSlot
<1>2. slot' \in [Slots -> SlotRows] /\ SlotsMoved(slot, slot')
  BY SlotUpdated DEF OthersSlot, SlotStatus
<1> QED BY <1>1, <1>2, RowsSame, KeepsQuiet DEF RowsTrue, Moved

(* An edit follows a row the slot has been, and counts as a race unless it *)
(* is the row still.                                                       *)
LEMMA EditTrue ==
    ASSUME PagesInv, NEW s \in Slots, NEW x \in slot[s].issued, NEW p \in Prices,
           Edit(s, x, p)
    PROVE  PagesInv'
<1> DEFINE q == IF p = x[2] THEN slot[s].price ELSE p
           n == IF x[1] = slot[s].ver THEN slot[s].races ELSE slot[s].races + 1
           v == [slot[s] EXCEPT !.price = q, !.ver = x[1] + 1, !.races = n]
<1>1. slot[s] \in SlotRows
  BY RowSpace
<1>2. slot[s] \in SlotSpace /\ x \in Issues /\ slot[s].races \in Nat
  BY <1>1 DEF SlotRows, SlotSpace
<1>3. x[1] \in Nat /\ slot[s].price \in Prices
  BY <1>2 DEF Issues, SlotSpace
<1>4. q \in Prices /\ n \in Nat /\ x[1] + 1 \in Nat
  BY <1>2, <1>3
<1>5. n = 0 => slot[s].races = 0 /\ x[1] = slot[s].ver
  BY <1>2
<1>6. Edited(s, x, p) = Issue(v)
  BY <1>2 DEF Edited, SlotSpace
<1> HIDE DEF q, n
<1>7. /\ v \in SlotSpace /\ v.issued = slot[s].issued /\ v.races = n
      /\ v.ver = x[1] + 1
  BY <1>2, <1>4 DEF SlotSpace
<1> HIDE DEF v
<1>8. Issue(v) \in SlotRows /\ slot[s].issued \subseteq Issue(v).issued
  BY <1>1, <1>5, <1>7, IssuedRow
<1>9. slot' \in [Slots -> SlotRows] /\ SlotsMoved(slot, slot')
  BY <1>6, <1>8, SlotBecomes DEF Edit
<1>10. UNCHANGED <<view, reqs, told, bk>>
  BY DEF Edit
<1> QED BY <1>9, <1>10, RowsSame, KeepsQuiet DEF RowsTrue, Moved

LEMMA TickTrue == ASSUME PagesInv, NEW s \in Slots, Tick(s) PROVE PagesInv'
<1> DEFINE c == IF slot[s].clk = "far" THEN "near" ELSE "started"
           u == [slot[s] EXCEPT !.clk = c]
<1>1. slot[s] \in SlotRows
  BY RowSpace
<1>2. slot[s] \in SlotSpace /\ History(slot[s])
  BY <1>1 DEF SlotRows
<1>3. /\ u \in SlotSpace /\ u.issued = slot[s].issued /\ u.ver = slot[s].ver
      /\ u.price = slot[s].price /\ u.st = slot[s].st /\ u.races = slot[s].races
  BY <1>2 DEF SlotSpace
<1>4. slot' = [slot EXCEPT ![s] = u]
  BY <1>2, RowSpace DEF Tick, SlotSpace
<1> HIDE DEF c, u
<1>5. u \in SlotRows
  BY <1>2, <1>3 DEF SlotRows, History
<1>6. slot' \in [Slots -> SlotRows] /\ SlotsMoved(slot, slot')
  BY <1>3, <1>4, <1>5, SlotBecomes
<1>7. UNCHANGED <<view, reqs, told, bk>>
  BY DEF Tick
<1> QED BY <1>6, <1>7, RowsSame, KeepsQuiet DEF RowsTrue, Moved

LEMMA LapseTrue == ASSUME PagesInv, NEW i \in Rows, Lapse(i) PROVE PagesInv'
<1>1. i \in 1..Len(bk)
  BY DEF Rows
<1>2. RowsTrue(bk', slot') /\ Moved(bk, slot, bk', slot')
  BY <1>1, RowMarked DEF Lapse
<1> QED BY <1>2, KeepsQuiet DEF Lapse

LEMMA JobsTrue == ASSUME PagesInv, NEW i \in Rows, Jobs(i) PROVE PagesInv'
<1>1. i \in 1..Len(bk)
  BY DEF Rows
<1>2. /\ bk[i].how \in Modes /\ bk[i].said \in Modes
      /\ bk[i].how # "none" => bk[i].said = bk[i].how
  BY <1>1, RowSpace DEF BookingRows, ShownTerms
<1>3. RowsTrue(bk', slot') /\ Moved(bk, slot, bk', slot')
  <2>1. CASE EndRow(i, bk[i].how, bk[i].said)
    BY <1>1, <1>2, <2>1, EndRowTrue
  <2>2. CASE Confirm(i)
    BY <1>1, <2>2, ConfirmTrue
  <2>3. CASE bk' = [bk EXCEPT ![i].st = "ended"] /\ SetSlot(bk[i].s, "reserved")
    BY <1>1, <2>3, RowMarked DEF SlotStatus
  <2> QED BY <2>1, <2>2, <2>3 DEF Jobs
<1> QED BY <1>3, KeepsQuiet DEF Jobs

LEMMA GatewayOf ==
    ASSUME PagesInv, AtGateway
    PROVE  view.b \in 1..Len(bk)
BY ViewOf DEF AtGateway, ViewTrue, GatewayTrue

LEMMA PayAtGatewayTrue == ASSUME PagesInv, PayAtGateway PROVE PagesInv'
<1>1. view.b \in 1..Len(bk)
  BY GatewayOf DEF PayAtGateway
<1>2. RowsTrue(bk', slot') /\ Moved(bk, slot, bk', slot')
  BY <1>1, RowMarked DEF PayAtGateway
<1> QED BY <1>2, KeepsQuiet DEF PayAtGateway

(* The API resolves the payment before the browser is sent to the page.    *)
LEMMA ReturnResolvedTrue == ASSUME PagesInv, ReturnResolved PROVE PagesInv'
<1> DEFINE i == view.b
           o == Outcome(i)
           v == CallbackPage(i, o)
<1>1. i \in 1..Len(bk)
  BY GatewayOf DEF ReturnResolved
<1>2. /\ RowsTrue(bk', slot') /\ Moved(bk, slot, bk', slot')
      /\ o \in Outcomes \ {"none"} /\ (o = "paid" => bk'[i].won)
  BY <1>1, ResolveTrue DEF ReturnResolved
<1>3. i \in 1..Len(bk') /\ Len(bk') \in Nat
  BY <1>1, <1>2, NumbersKept DEF Moved, RowsMoved
<1>4. /\ view' = v /\ reqs' = Left(reqs) \cup Mounted(v)
      /\ told' = IF o = "paid" THEN told \cup {i} ELSE told
  BY DEF ReturnResolved, Push
<1> HIDE DEF o
<1>5. ViewTrue(v, bk', slot')
  BY <1>2, <1>3, CallbackFresh
<1>6. \A r \in reqs : CallTrue(r, bk', slot')
  BY <1>2, CallKept DEF PagesInv, CallsTrue
<1>7. \A q \in Left(reqs) : CallTrue(q, bk', slot') /\ q.to # "page"
  BY <1>6, LeftTrue
<1> HIDE DEF v
<1>8. \A q \in Mounted(v) : CallTrue(q, bk', slot') /\ q.from = v.page
  BY <1>5, MountedTrue
<1>9. CallsTrue(reqs', view'.page, bk', slot')
  BY <1>4, <1>7, <1>8 DEF CallsTrue
<1>10. ToldTrue(told', bk')
  <2>1. ToldTrue(told, bk')
    BY <1>2, ToldKept DEF PagesInv, Moved
  <2> QED BY <1>2, <1>3, <1>4, <2>1 DEF ToldTrue
<1> QED BY <1>2, <1>4, <1>5, <1>9, <1>10, ChargedKept DEF PagesInv

-----------------------------------------------------------------------------
(* The invariant *)

LEMMA PagesInit == Init => PagesInv
<1> SUFFICES ASSUME Init PROVE PagesInv
  OBVIOUS
<1>1. Len(bk) = 0 /\ bk \in Seq(BookingRows)
  BY EmptySeq DEF Init
<1>2. slot \in [Slots -> SlotRows]
  <2>1. \A st \in {"open", "reserved", "offered"} : FirstRow(st) \in SlotRows
    <3> TAKE st \in {"open", "reserved", "offered"}
    <3> DEFINE w == FirstRow(st)
    <3>1. /\ w.ver = 0 /\ w.price = 1 /\ w.st = st /\ w.races = 0
          /\ w.issued = {<<0, 1, st>>}
      BY DEF FirstRow
    <3>2. w \in SlotSpace
      BY DEF FirstRow, SlotSpace, Issues, Prices, SlotStatus
    <3> HIDE DEF w
    <3>3. History(w)
      BY <3>1 DEF History, InOrder
    <3> QED BY <3>2, <3>3 DEF SlotRows, w
  <2> QED BY <2>1 DEF Init
<1>3. ViewTrue(view, bk, slot)
  BY <1>1, VendorFresh, BookFresh DEF Init
<1>4. reqs = {} \/ reqs = Mounted(view)
  BY DEF Init
<1>5. CallsTrue(reqs, view.page, bk, slot)
  BY <1>3, <1>4, MountedTrue DEF CallsTrue
<1>6. ToldTrue(told, bk)
  BY DEF Init, ToldTrue
<1> QED BY <1>1, <1>2, <1>3, <1>5, <1>6 DEF PagesInv, RowsTrue, RowsCharged

LEMMA DeliverTrue == ASSUME PagesInv, NEW r \in reqs, Deliver(r) PROVE PagesInv'
BY SlotsArriveTrue, ResumeArrivesTrue, CreatedTrue, ConfirmFailsTrue, PaidTrue,
   PendingArrivesTrue, SlotArrivesTrue, BookFailsTrue, PendingDroppedTrue,
   DetailArrivesTrue, PaymentFailsTrue, CheckoutDroppedTrue, VerifyArrivesTrue,
   ListArrivesTrue, ListPayFailsTrue, TermsArriveTrue, CancelArrivesTrue,
   WithdrawArrivesTrue DEF Deliver

LEMMA UserTrue == ASSUME PagesInv, User PROVE PagesInv'
<1>1. CASE \E v \in Destinations : Open(v)
  BY <1>1, OpenTrue
<1>2. CASE RedirectGuest \/ Login
  BY <1>2, RedirectTrue, LoginStep
<1>3. CASE \E d \in Days : PickDay(d)
  BY <1>3, PickDayTrue
<1>4. CASE \E x \in view.rows : SelectSlot(x) \/ ContinuePending(x)
  BY <1>4, SelectSlotTrue, ContinueTrue
<1>5. CASE \E w \in {"with", "without"} : ChooseBall(w)
  BY <1>5, ChooseBallTrue
<1>6. CASE CloseBooking \/ ConfirmBooking
  BY <1>6, CloseBookingTrue, ConfirmBookingTrue
<1>7. CASE HandleConfirm \/ ResumePending \/ CancelPending
  BY <1>7, HandleConfirmTrue, ResumeTrue, CancelPendingTrue
<1>8. CASE HandlePayment \/ CancelCheckout
  BY <1>8, HandlePaymentTrue, CancelCheckoutTrue
<1>9. CASE PayAtGateway \/ ReturnResolved \/ ReturnToVerify
  BY <1>9, PayAtGatewayTrue, ReturnResolvedTrue, ReturnToVerifyTrue
<1>10. CASE \E t \in Tabs : SwitchTab(t)
  BY <1>10, SwitchTabTrue
<1>11. CASE \E x \in view.rows : HandlePay(x) \/ CancelClick(x) \/ WithdrawClick(x)
  BY <1>11, HandlePayTrue, CancelClickTrue, WithdrawClickTrue
<1>12. CASE AcceptTerms \/ CloseCancel \/ ConfirmCancel
  BY <1>12, AcceptTermsTrue, CloseCancelTrue, ConfirmCancelTrue
<1> QED BY <1>1, <1>2, <1>3, <1>4, <1>5, <1>6, <1>7, <1>8, <1>9, <1>10, <1>11, <1>12
        DEF User

LEMMA PagesStep == PagesInv /\ [Next]_vars => PagesInv'
<1> SUFFICES ASSUME PagesInv, [Next]_vars PROVE PagesInv'
  OBVIOUS
<1>1. CASE User
  BY <1>1, UserTrue
<1>2. CASE World
  BY <1>2, OthersTrue, EditTrue, TickTrue, LapseTrue, JobsTrue DEF World
<1>3. CASE \E r \in reqs : Serve(r) \/ Lose(r) \/ Deliver(r)
  BY <1>3, ServeTrue, LoseTrue, DeliverTrue
<1>4. CASE UNCHANGED vars
  BY <1>4, StaysQuiet DEF vars
<1> QED BY <1>1, <1>2, <1>3, <1>4 DEF Next

(* What every page and call carries is true in every state. *)
THEOREM PagesHoldTruth == Spec => []PagesInv
BY PagesInit, PagesStep, PTL DEF Spec

(* Every number on a page names a row of the user, and the callback page   *)
(* waits exactly until it knows an outcome.                                *)
THEOREM PagesTypes == Spec => []TypeOK
<1>1. PagesInv => TypeOK
  <2> SUFFICES ASSUME PagesInv PROVE TypeOK
    OBVIOUS
  <2>1. \A s \in Slots : slot[s].st \in SlotStatus /\ slot[s].ver \in Nat
    BY RowSpace DEF SlotRows, SlotSpace
  <2>2. \A i \in Rows : /\ bk[i].s \in Slots /\ bk[i].kind \in Kinds
                        /\ bk[i].st \in {"unpaid", "paid", "offered", "ended"}
    BY RowSpace DEF BookingRows
  <2>3. PageOK(view)
    <3>1. ViewTrue(view, bk, slot) /\ Rows = 1..Len(bk) /\ Len(bk) \in Nat
      BY ViewOf, RowSpace
    <3>2. view.page = "vendor" => view.day \in Days /\ view.paying \in 0..Len(bk)
      BY <3>1 DEF ViewTrue, VendorTrue, VendorViews
    <3>3. view.page = "book" => view.s \in Slots /\ view.pend.b \in 0..Len(bk)
      BY <3>1 DEF ViewTrue, BookTrue, BookViews, PendTrue, Names
    <3>4. view.page = "payment" => view.b \in Rows /\ view.kind \in Kinds
      BY <3>1 DEF ViewTrue, PaymentTrue, PaymentViews, Names
    <3>5. view.page = "callback" =>
             view.b \in Rows /\ (view.loading <=> view.outcome = "none")
      BY <3>1 DEF ViewTrue, CallbackTrue
    <3>6. view.page = "bookings" =>
             view.dlg \in 0..Len(bk) /\ view.terms.mode \in Modes
      BY <3>1 DEF ViewTrue, BookingsTrue, BookingsViews, TermsSet, Names
    <3>7. view.page = "login" => view.s \in Slots
      BY <3>1 DEF ViewTrue, LoginTrue
    <3>8. view.page = "gateway" => view.b \in Rows
      BY <3>1 DEF ViewTrue, GatewayTrue
    <3>9. view.page \in PageKinds \cup {"gateway"}
      BY <3>1 DEF ViewTrue
    <3> QED BY <3>2, <3>3, <3>4, <3>5, <3>6, <3>7, <3>8, <3>9 DEF PageOK, PageKinds
  <2>4. \A r \in reqs : r.to \in {"page", "left", "gone"}
    BY CallOf DEF CallTrue, CallForm
  <2>5. told \subseteq Rows
    BY DEF PagesInv, ToldTrue, Rows
  <2> QED BY <2>1, <2>2, <2>3, <2>4, <2>5 DEF TypeOK
<1> QED BY <1>1, PagesHoldTruth, PTL

(* A payment, a look at a checkout, a cancellation or a release names the  *)
(* table its row is in, whichever page carried the number there.           *)
THEOREM NumbersNameTheirRow == Spec => []CallsAddressTheirRow
<1>1. PagesInv => CallsAddressTheirRow
  BY CallOf DEF CallsAddressTheirRow, CallTrue, ArgTrue, Names, Addresses
<1> QED BY <1>1, PagesHoldTruth, PTL

(* A row is charged the price that stood next to the button, unless its    *)
(* version was issued at two prices, which takes an edit written over a    *)
(* row that had changed since it was read; and a paid booking is given up  *)
(* only in the mode its dialog named.                                      *)
THEOREM ShownIsDone == Spec => []TermsWereShown
<1>1. PagesInv => TermsWereShown
  <2> SUFFICES ASSUME PagesInv PROVE TermsWereShown
    OBVIOUS
  <2>1. \A i \in Rows : bk[i].quoted \/ Reissued(bk[i].s, bk[i].ver)
    BY RowSpace DEF PagesInv, RowsCharged, Charged, Twice, Reissued
  <2>2. ASSUME NEW s \in Slots, NEW x \in slot[s].issued, Reissued(s, x[1])
        PROVE  slot[s].races # 0
    <3>1. History(slot[s])
      BY RowSpace DEF SlotRows
    <3>2. PICK a, b \in slot[s].issued : a[1] = x[1] /\ b[1] = x[1] /\ a[2] # b[2]
      BY <2>2 DEF Reissued
    <3>3. ~InOrder(slot[s].issued, slot[s].ver)
      BY <3>2 DEF InOrder
    <3> QED BY <3>1, <3>3 DEF History
  <2> QED BY <2>1, <2>2, RowSpace DEF TermsWereShown, ShownTerms
<1> QED BY <1>1, PagesHoldTruth, PTL

(* The callback page says "paid" only of a row that got its slot.          *)
THEOREM PaidIsTold == Spec => []ToldPaidIsPaid
<1>1. PagesInv => ToldPaidIsPaid
  BY DEF PagesInv, ToldTrue, ToldPaidIsPaid
<1> QED BY <1>1, PagesHoldTruth, PTL
=============================================================================
