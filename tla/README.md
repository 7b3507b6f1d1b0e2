# ToopSet: a TLA+ model of the booking platform

ToopSet (`src/`) sells time slots of sports courts.  A FastAPI backend
(`src/backend/app`) keeps everything in PostgreSQL, takes payments through the
Zibal gateway, and runs a few background jobs in the same process; a Next.js
frontend (`src/frontend`) calls its API from pages whose calls overlap.  This
directory holds TLA+ modules of both, the TLC configurations that check them,
and theorems that TLAPS proves about them.

## 1. Inventory

| Component | State it keeps | Operations | What is hard | Module |
|---|---|---|---|---|
| Online checkout (`services/booking_service.py`, `booking_repo`, `payment_repo`, `zibal_gateway`) | `bookings`, `payments`, `time_slots.status`/`is_reserved`, `refunds` | create, pay, callback/result (verify, resolve), cancel | every gateway call is made between two transactions with all locks released; callback, result page, cancel, create, sweeper and reconciler act on the same rows | `Checkout` |
| Background jobs (`main.py`) | none of their own | expire unpaid bookings, reconcile payments, expire replacement work | run every minute beside the requests; `SKIP LOCKED`; one crash loses what was in flight | `Checkout`, `Replacement` |
| Replacement after a late cancellation (`booking_service.py`, `replacement_service.py`) | `replacement_requests`, `booking_holds`, penalties, refunds | cancel within 48 h, hold, pay, finalize (transfer), withdraw, revoke, expire | a second checkout on a slot that is still sold; processing token; deadline against late money | `Replacement` |
| Manager finance, bank cards (`finance_service.py`, `bank_card_service.py`) with their four pages | `refunds`, `settlements`, `bookings.settlement_status`, `bank_cards` | request, approve, reject and pay settlements and refunds; look up, confirm and delete cards | one booking must be settled once and never refunded too; stale lists, a confirmation racing cancellations and decisions, since it selects refunds without a lock | `Desk` |
| Slot administration (`time_slot_service.py`) with the manager's schedule tab and weekly editor | `time_slots`, weekly templates, manual bookings | create, update, apply weekly schedule, book and cancel by hand | a slot is read without a lock and its times, price and status are written back; a bulk replacement over live bookings; slots that reach past 03:00 | `Schedule` |
| Sessions (`auth_service.py`, `refresh_token_repo.py`, `auth_cache.py`, `lib/api.ts`, `use-auth.ts`) | `refresh_tokens`, `users.token_version`, a Redis copy, the browser's cookies | sign in, renew, sign out, revoke, deactivate | reuse detection against tabs that share cookies and answers that are lost; cache dropped before commit | `Sessions` |
| OTP login (`otp_service.py`, `login-form`, `otp-form`, `register-form`) | Redis code, failures, pause | send, verify, register | three keys written one by one; a failed SMS | `SignIn` |
| Booking pages (`app/book`, `app/vendors/[id]`, `app/dashboard/bookings`) | the mounted page, its calls in flight | choose, book, pay, return from the gateway, cancel, withdraw | answers that arrive after the page was left or the row has changed; `slot.version` counted up from a row read without a lock | `BookingPages` |
| Dashboard pages (26 lists, dialogs and forms) and the lists cached for them (`cache_service.py`) | the list shown, dialogs, busy flags, `admin_list:*` in Redis | load, filter, page, write, patch or reload | answers that overtake each other, double clicks, caches refilled with what was read before a commit | `Panels`, `PageKinds`, `Portal` |
| Reviews, vendors, users, favourites | rows | CRUD | - | their pages in `Panels` |
| Notifications, SMS, Eitaa digest, wallet, uploads, API layer, other pages | rows, files | record, deliver, route | little state logic | not modelled |

**How they interact.**  An HTTP request runs one service object on one
database session.  Services call each other directly and share the session, so
what they write is one transaction until somebody commits.  `booking_service`
commits before every gateway call and locks its rows again afterwards; the
gateway, the payer, other requests and the jobs of `main.py` run in between.
The only state shared outside PostgreSQL is Redis (caches, OTP codes, the user
status used by authentication).

**What makes each part correct.**

* Checkout: slot and bookings agree; a hold never changes hands; a confirmed
  booking has exactly one payment of the right amount; a refund is owed once
  and for money received; captured money is recorded; unpaid holds end.
* Replacement: the original is transferred once and only for money; a request
  that lapsed or was withdrawn restores the original; nobody loses the slot
  and the money both.
* Finance: a booking is in at most one live settlement and is never settled
  after a refund.
* Slots: an administrator's edit never frees a sold slot, and changes nothing of
  it but what was asked for while it was free; a vendor's calendar overlaps
  itself only in the two cases the code lets through.
* Sessions: a session has one refresh token that can be exchanged; an ended one
  gets no successor; nobody loses a session as a thief without cause.
* OTP: a code admits one request, and only within its attempts.
* Pages: a call names the row its button stood next to; what was shown is what
  is charged or given up; a button that waits for its answer does not send
  twice; a page at rest shows what is stored, unless it lost one of the races
  named in `Panels`.

## 2. Plan

| Step | Modules | Purpose | State |
|---|---|---|---|
| 1 | `Checkout`, `SlotSale`, `MCCheckout`, `Checkout_proofs`, `Checkout_money` | the checkout and the jobs that end it, the promise about a slot, proofs for all constants | done |
| 2 | `Replacement`, `Resale`, `MCReplacement`, `Replacement_proofs` | late cancellation and resale of one slot, the promise about its place | done |
| 3 | `BookingPages`, `MCBookingPages`, `BookingPages_proofs` | the pages a user books with | done |
| 4 | `Schedule`, `MCSchedule`, `Schedule_proofs` | the vendor's calendar and the page it is edited from | done |
| 5 | `Desk`, `MCDesk`, `Desk_proofs` | settlements, refunds, cards and their pages | done |
| 6 | `Sessions`, `MCSessions`, `Sessions_proofs` | refresh tokens between tabs and API | done |
| 7 | `SignIn`, `PageKinds`, `Panels`, `Portal`, `MCPortal`, `Portal_proofs` | the forms that sign in, then one of the dashboard's pages | done |
| 8 | further proofs | see section 5 for what is proved and what is only checked | under way |

## 3. Modules

### Checkout

One action is one database transaction: each handler locks the booking (or the
slot) before it decides, so its reads and writes are atomic with respect to
the other handlers of the same booking.  A request that talks to the gateway is
a *job*: `job[w].pc` says which transaction or gateway call is next, and all
other actors run in between.

| TLA+ | Code |
|---|---|
| `slot[s]` | `time_slots.status`; `is_reserved` is written together with it by every handler modelled and is TRUE exactly for `reserving` and `reserved` |
| `booking[b]` | a row of `bookings`: status, user, slot; `lapsed` is `expires_at <= now` |
| `payment[p]` | a row of `payments`: status, booking, `track` (`gateway_transaction_id` is set), `token` (`processing_token` is set), `flag` (`failure_code` as far as support acts on it) |
| `gate[p]` | what Zibal knows of the checkout opened for `p`: `open` (-1), `paid` (2), `captured` (1), `closed` (3 and the error states); `exact`: the amount paid is the amount asked |
| `refund[b]` | rows of `refunds` |
| `job[w]` | where a request, or the reconciler, is between two transactions |

| Actions | Code |
|---|---|
| `CreateBooking`, `CreateResolvesOld`, `CreateAfterResolve`, `CreateRefused` | `create_booking` and `_ensure_single_live_checkout` |
| `StartPayment`, `RecordTrack`, `RecordRefusal`, `PayTooLate` | `_start_zibal_payment` |
| `StartResolve`, `Verify`, `SettlePaid`, `SettleFlagged`, `SettleNothing`, `RecordFailedAttempt`, `Classify`, `ExpireCheckout` | `resolve_zibal_payment`, `verify_zibal_payment`, `_record_failed_zibal_attempt`, `_expire_zibal_booking_checkout` |
| `CancelUnpaid`, `CancelStarts`, `EnsureUnpaid`, `CancelRelocked`, `CancelConfirmed` | `cancel_booking`, `_ensure_zibal_checkout_unpaid` |
| `ManagerCancel` | `finance_service.cancel_booking_by_manager` |
| `Sweep`, `Reconcile`, `CleanNonPayable` | the jobs of `main.py` |
| `PayerPays`, `GatewayCloses` | Zibal and the payer (external) |
| `Crash`, `LoseVerifyReply`, `LoseInquiry` | the process dies; an HTTP call to Zibal fails after, or before, it had its effect |

Not in `Checkout`: the branches for replacement bookings and late
cancellation (module `Replacement`), the mock gateway
(`pay_booking`), notifications, logs and cache invalidation.  `None` is SQL
NULL.  `ManagerCancel` does not require that the booking's manager is the
caller; ownership is checked by every handler and is no state.

### SlotSale

The promise about slots: offered, held for one user, sold to that user, free
again.  `Checkout` implements it (`ImplementsSlotSale`), reading the phase off
`slot` and the holder off the active booking.

### Replacement

Less than 48 hours before the slot, a confirmed booking is not cancelled but
offered: it becomes `pending_cancellation` and a row of `replacement_requests`
is opened.  A buyer takes a row of `booking_holds`, pays at the gateway, and
the arriving money moves the slot.  The module follows one slot through any
number of such rounds; the bookings sold at the checkout in between are
`Checkout`'s business and one step here (`Resell`).

| TLA+ | Code |
|---|---|
| `started` | the slot's `start_time` has come, which is the deadline of its requests |
| `slot` | `time_slots.status` and `is_reserved`, kept apart because handlers write them apart |
| `booking[b]` | rows of `bookings` of the slot; `replaces` is the booking whose transfer created the row |
| `offer[r]` | rows of `replacement_requests` |
| `hold[h]` | rows of `booking_holds`; `token`, `track` and `flag` as in `Checkout`, `lapsed` is the hold's `expires_at` |
| `refund`, `penalty` | rows of `refunds` and `penalties` |
| `job[w]` | a request between two transactions, or between two locks: `seenOffer`, `seenSlot` are the statuses it loaded |

| Actions | Code |
|---|---|
| `CancelLate`, `Withdraw`, `ManagerCancel` | `cancel_booking`, `withdraw_cancellation`, `cancel_booking_by_manager` with `revoke_replacement_request` |
| `CreateHold`, `CreateTooLate`, `HolderMovesOn`, `Resell` | `create_booking`, `_ensure_single_live_checkout` |
| `PayLocks`, `PayBegins`, `PayTooLate`, `RecordTrack`, `GatewayRefuses`, `FailPayment` | `pay_replacement_hold`, `_fail_replacement_payment` |
| `CancelLocks`, `CancelHold` | `cancel_replacement_hold` |
| `StartResolve`, `Verify`, `Settle`, `Transfer`, `Conflict` | `resolve_zibal_payment`, `_verify_zibal_replacement_hold`, `_finalize_replacement_payment` |
| `InquireRefusal`, `Classify`, `RecordFailure` | `_record_failed_zibal_attempt` and the classification in `resolve_zibal_payment` |
| `IndexRefuses` | the unique index on live requests of a booking |
| `ExpireOffer`, `ExpireHold`, `Reconcile` | the jobs of `main.py` |
| `Tick`, `Lapse`, `PayerPays`, `GatewayCloses` | time, Zibal and the payer |
| `Abort`, `LoseVerifyReply`, `LoseInquiry` | a crash or a deadlock victim; lost answers |

**Two locks.**  Pay, cancel-hold, fail and finalize lock the hold first and the
request after it.  The request was loaded together with the hold, and the
second query does not refresh it in the session, so such a handler decides on
what it saw before it waited.  Hence two actions, one per lock, and `seenOffer`
and `seenSlot` in between; `SetOffer` and `SetReleased` write a column only if
it differs from what was loaded, as the session does.  `booking_repo.get_by_id`
refreshes, so bookings are always current.  Jobs and `revoke_replacement_request`
skip a locked hold.  `create_booking` waits for it while it holds the request:
PostgreSQL breaks that cycle by rolling one transaction back, which is `Abort`.

Left out: the mock gateway; an administrator who edits the slot's times
(`Schedule` has the calendar); the early cancellation, which is in `Checkout`;
re-creating a missing request in `create_booking`, which `OffersAreBacked`
shows unreachable; ownership checks; notifications, logs and caches.

### Resale

The promise about the place in one slot: an owner may offer it and keeps it
while it is offered; exactly one other user takes it over, in one step and
never twice; the manager may end a sale.  `Replacement` implements it
(`ImplementsResale`), reading the phase and the owner off the bookings.

### BookingPages

One tab.  `view` is the mounted page with its component state; `reqs` are the
calls in flight, each with the page and the continuation that wait for it.  A
call is served in one step by what the API does at once (`slot`, `bk`: the
slots and the user's rows); the answer goes to the mounted page, to a
continuation whose page was left (it may still navigate), or nowhere once the
document was unloaded for the gateway.  The actions carry the names of the
handlers in `app/book/*`, `app/vendors/[id]` and `app/dashboard/bookings`.

The manager's `PATCH` reads a slot without a lock and writes it later, with
`slot.version += 1` counted from the row it read (`time_slot_repo.py:183`).  So
`Edit` may follow any row the slot has been while open (`issued` is the history
of its versions, prices and statuses), and a version can be issued again at
another price.  `races` counts the edits written over a newer row.  The price of
the balls is not modelled: no version covers it (see Disagreements).

### Schedule

`slot` are the rows of `time_slots` with their times, price, status and
reservation; a time is a day and an offset from 03:00 of it, so a slot may
reach into the next operational day.  `booking` has manual and online bookings;
`saved` is the weekly template.  The page's calls are sent, served in one
transaction and delivered.  An update takes two steps, the page's toggle
(`ToggleRead`, `ToggleWrite`) and any other manager's (`EditRead`,
`EditWrite`): `update_vendor_slot` reads the slot without a lock
(`time_slot_service.py:346`), waits for the vendor's schedule lock, and checks
and writes times, price and status from what it read.  `ServeApply` is
`apply_weekly_schedule` with all its refusals; it finds the slots it keeps by
their start (`:546`), so it does not meet one that reaches in from the day
before.

### Desk

`booking`, `refund`, `settlement` and `card` are rows; `cancel` a cancellation
that has read the card and not committed; `confirm` the confirmations of the
user's card, at the page and elsewhere, each of which has read the card, or has
locked it and selected the open refunds (`bank_card_service.py:134`), and writes
these when it commits, whatever was decided about them in between; `pays`,
`refs`, `fin`, `prof` the states of the four pages, of which one is mounted.  A
lookup reads the card's row before it writes it, and keeps a row that was
verified meanwhile.  Whoever works elsewhere acts in one step (`Other...`), the
lookups of another tab included, but for confirmations and cancellations.

### Sessions

`tokens` are the rows of `refresh_tokens`: a session is a chain of rows of
which each is exchanged once (`next` is `replaced_by`).  `work` holds what the
API works on: a renewal reads the user, locks the row, commits (`ReadUser`,
`LockLive`/`LockReplaced`/`LockEnded`, `CommitRenewal`/`EndReused`); what ends
sessions takes its snapshot, waits for the rows, commits (`Ask`, `Mark`,
`CommitEnd`).  `cookies` are shared by the tabs, `calls` are calls of `api()`
(repeated once after a renewal), `renewal[t]` is `refreshPromise` of a tab.

### SignIn, PageKinds, Panels and Portal

`SignIn` has the three forms and the three Redis keys of one number, with
somebody else at the same number; every command to Redis is a step of its own
but for the script that takes a code.  `PageKinds` describes the dashboard's
pages as data (how a page asks, what its handlers and dialogs do, whether the
API drops the cached lists before or after its commit); `Panels` is
the machine that runs any of them, with the API's list, its cache and the calls
in flight.  `newest` is the call whose list was asked for last; a call or an
entry of the cache is `late` once the table changed after it was read; and
`crossed` remembers a race that the page lost, until the list that was asked
for last is shown and is not late.  A broadcast asks for its list half a second
after its answer (`Reload`).  The vendors' page asks as if every view of it
were cached; the administrators' is not.  `Portal` composes them: a tab is at the forms until it is signed
in, and then at one page.  `LeaveForms` clears what belongs to the forms,
because no page reads it.

### Proof modules

| Module | What it holds |
|---|---|
| `Checkout_proofs` | the inductive invariant `IndInv`, what any step does to slots and bookings (`Effect`), the refinement of `SlotSale` |
| `Checkout_money` | what any step does to payments, gateway and refunds (`Moves`), and from it `MoneyInv` |
| `Replacement_proofs` | what any step does to bookings, requests, holds and jobs (`StepEffect`); on top of it the locks (`LockStep`), the money (`MoneyStep`) and the offers (`OfferStep`) |
| `BookingPages_proofs` | what a page and a call carry stays true: the server's rows before and after (`KeepsTrue`), then each page |
| `Schedule_proofs`, `Desk_proofs` | the effect of a step on the rows, and what calls and pages still know of them |
| `Sessions_proofs` | five effects on tokens and requests |
| `Portal_proofs` | the codes of `SignIn`, inside the portal; what every record of `PageKinds` satisfies, and from it the pages of `Panels` |

In all of them the actions are first reduced to a few effects, one lemma per
group of actions, and each conjunct of an invariant is then shown to survive
the effects.

## 4. Runs

Requests and users (tabs, calls, workers, cards) are symmetric in the safety
runs; liveness runs use no symmetry.  Deadlock is not checked: rows and clicks are bounded, a sold
slot may rest for ever and a visitor may stop anywhere.

### Checkout (`MCCheckout`)

| Run | Instance | What it shows |
|---|---|---|
| `checkout_rivals` | 2 users, 1 slot, 1 request and the reconciler, 2 bookings, 2 payments | the slot changes hands only through its release; money on record has an owner, a refund or a flag, no refund is missing, what is closed cannot be paid and, since no answer is lost and amounts are exact here, captured money is always on somebody's list (`MoneyIsAccounted`); `IndInv`; what was sold again was refunded; refinement of `SlotSale` |
| `checkout_two_slots` | 1 user, 2 slots, 3 bookings, 1 payment | the path of `create_booking` that resolves an older checkout at the gateway and comes back |
| `checkout_faults` | 1 slot, 1 booking, 2 payments, 2 requests, 1 fault, crashes, wrong amounts | confirmation needs exactly one exact payment; ended rows stay ended; late money is flagged |
| `checkout_released` | fair; 1 booking, 2 payments, 2 requests and the reconciler | every unpaid booking ends, and captured money is recorded |

The bounds: a hold needs two bookings on a slot to change hands, two payments
on a booking to be paid twice, two workers to race (the reconciler is always a
second one), and one fault to lose one answer.  Longer histories repeat these
situations because a row that ended is not written again (`EndIsFinal` is
proved for any number of rows).

**Fairness.**  Time passes (`Lapse`), an answer or a timeout reaches every
request (`JobStep`; the HTTP client has a timeout), the sweeper and the
reconciler run every minute (`main.py`).  The reconciler's list contains each
stale payment again and again, but requests may disable it in between, hence
strong fairness for `Reconcile`.  Nothing is assumed of users or of the payer.

### Replacement (`MCReplacement`)

Two users (an owner and a buyer, in either role), one request and the
reconciler.

| Run | Instance | What it shows |
|---|---|---|
| `cycles` | 3 bookings, 2 offers, 1 hold, wrong amounts | the slot is cancelled, transferred or released, and cancelled again: `ResaleInv`, transfers are whole, refinement of `Resale` |
| `rivals` | 2 bookings, 2 offers, 2 holds | late answers to a first hold meet a second one; the owner withdraws under a hold and cancels again: transfers are whole, a held request has a live hold, an offered booking its request (also when the unique index refuses a row) and an owned slot is not free (`OffersAreBacked`) |
| `decided` | fair; 2 bookings, 1 offer, 1 hold, 1 fault | a slot that has started is not moved; ended rows stay ended; every offered booking is decided, every hold ends, also after a crash, a deadlock victim or a lost answer |

In `cycles` the successor may cancel again or the manager sell the slot anew.
One hold suffices where the question is about owners, two where a late answer
can hit somebody else's hold.  One request with the reconciler already gives
two handlers on one hold, one of them between its locks.

**Fairness.**  The slot starts some day (`Tick`), requests are answered
(`JobStep`), the jobs run every minute.  They skip rows that are locked just
then, hence strong fairness for `ExpireOffer`, `ExpireHold` and `Reconcile`.
`decided` has exact amounts: with wrong ones the code fails (below).

### The other runs

| Run | Instance | States | What it shows |
|---|---|---|---|
| `booking_pages` | 1 slot, 2 days, 1 row, 2 calls in flight, versions up to 1 and one update over a newer row, a guest | 2.8 M | a call names the row it means (`CallsAddressTheirRow`), what was shown is what is charged, unless the version was issued twice, or given up (`TermsWereShown`), "paid" is said only of what was won (`ToldPaidIsPaid`) |
| `schedule` | 2 days of a schedule that repeats daily, 2 ranges of which one reaches the next day's start, 3 slots, 2 bookings, 2 updates of others in flight (later times; other times and price), 1 call, 2 clicks | 3.0 M | a step brings two slots to one time only by a stale update or past 03:00 (`NoOverlap`), a live booking keeps its slot reserved, and undeleted, unmoved and unrepriced but by an update that read it free (`BookedIsKept`) |
| `desk` | 2 bookings of which one is not worth a settlement, 2 cards, 2 settlements, 2 calls, 2 clicks, 1 act of others | 1.2 M | the price of a booking leaves once (`PaidOnce`), what is decided stays, but for the card a confirmation under way still gives a rejected refund, a payout that a page asks for is due |
| `sessions` | 2 tabs, 2 calls, 2 requests, 3 rows, 3 clicks, 1 act elsewhere, one lost answer | 2.0 M | one live token per session, ended ones stay ended, no reuse is seen unless an answer was lost or two tabs renewed at a time |
| `portal` | limit 1, 2 codes, 3 acts of the tab and 1 of another; 2 rows, 2 calls, 2 clicks, 1 act of others | 1.6 M | a code admits once, a page at rest shows what is stored unless it lost a named race since its last list (`ShownIsTrue`), a button that waits does not send twice |

Two calls in flight are the least that overtake each other, two rows the least
for which an answer can hit the wrong one, two clicks a double click; a third
one repeats a pair.  Three slots are a schedule's two and one beside them, two
updates in flight the least of which one makes the other stale.  Three token
rows are a chain with a reused link, or two
sessions of which one was renewed.  These runs state safety only, so they need
no fairness.

### Disagreements found

The following disagreements between the code and its documents, comments or
tests were met while modelling.  The properties above are stated of what the
code does; where a property below is named, stating it in the configuration
mentioned shows the behaviour.

* A verification's answer is lost and the booking is cancelled before the next
  try: `expire_pending_for_nonpayable_bookings` (`payment_repo.py:140`) closes
  the payment as expired, and its captured money is never recorded, although
  `docs/booking-cancellation-flow.md:853` says money is not lost.
  (`checkout_released` with `MaxFault = 1`, `MaxPayment = 1` and one request:
  `CapturedIsRecorded` fails.)
* A crash after the payment row is committed and before its track is leaves a
  pending payment that neither job touches: the sweeper skips the booking, the
  reconciler asks for a track.
* `resolve_zibal_payment` records a failed attempt twice.  If another buyer
  took the request in between, the second time opens it under him, and the
  owner may withdraw while he pays; the document promises 409.
* The manager cancels while a buyer's verification is at the gateway: the hold
  has lost its token, the answer is 409 and the captured money is neither
  recorded nor flagged (`booking_service.py:1624`).
* A request whose verification answer is slow settles a payment again after it
  was settled, its booking confirmed, cancelled and refunded: the idempotence
  check asks for `SUCCESS` *and* `CONFIRMED`
  (`booking_service.py:1481`).  The refunded payment is flagged
  `paid_but_booking_not_payable` and reaches support as unexplained money.
* After an amount mismatch the booking stays payable; a second payment is
  captured, the unique index on successes refuses it, and it is never recorded
  (`booking_service.py:1489`).  (`checkout_released` with
  `WrongAmounts = TRUE`: `CapturedIsRecorded` fails.)
* `cancel_replacement_hold` (and pay, fail, record-failure) decides on the
  request it loaded before it waited for its lock; a request revoked by the
  manager in between is written back to `open`, although
  `models/replacement.py:47` calls revoked rows history.
* Money of a wrong amount leaves the hold in `processing` with its track, and
  the expiry job leaves out requests with such a hold: the booking stays
  `pending_cancellation` after the slot has started
  (`booking_service.py:1631`).  (`decided` with `WrongAmounts = TRUE`:
  `PendingIsDecided` fails.)
* In short: with a lost answer, a crash or a wrong amount
  `CapturedIsWatched`, the first part of `MoneyIsAccounted`, does not hold of
  the code, so `checkout_rivals` is without them.
* Sessions.  A renewal that commits while its session is being ended leaves the
  new token live, since the revoking statement does not see it and `refresh`
  does not compare `token_version` (`learning-guide:313`).  Two writers of
  `token_version` can lose one raise (`:300`).  Two tabs that renew with one
  cookie end the session.  A renewal that fails after a fresh sign-in clears
  the new tokens, and one that succeeds after a sign-out puts an access token
  back.  A wrong current password (401) starts a renewal and is sent twice.
* OTP.  A code that is locked or was never delivered is reported as already
  sent (`otp_service.py:89`).  `_store_code` sets the code before it deletes
  the failures, so a code can be guessed more often than the limit that the
  docstring of `verify_otp` states; `CodeAdmitsOnce` excepts exactly that.
* Calendar.  `update_vendor_slot` decides on the slot it read before it waited
  for the schedule lock (`time_slot_service.py:343-393`; `learning-guide:616`
  says the writers of a schedule never run at the same time).  An update that
  read the slot free therefore moves or reprices it after it was booked, at
  most to what it asked for (`BookedIsKept`); and one that changes the start
  computes its window with the end it read, so two updates of one slot can
  leave it over another one (`NoOverlap`).  A schedule is applied without
  looking at a slot that reaches in from the day before (`:546-548`), and an
  item may itself reach past 03:00 into the next day's first
  (`schemas/time_slot.py:170` compares items of one day): the two overlap
  (`NoOverlap`).  Applying a schedule deletes unreserved slots with the
  cancelled bookings, payments and refunds on them.  A late lookup in the
  cancel dialog can cancel another slot's booking.  A late template replaces
  edits.
* Desk.  A late answer shows another row's full card number.  A refund created
  while a card is being confirmed stays without destination
  (`bank_card_service.py:129`).  A refund that is rejected while a card is
  being confirmed still gets the card: the refunds are selected without a lock
  and written when the confirmation commits (`bank_card_service.py:134-151`,
  `admin.py:924`), which `DecidedStays` allows and nothing else.  Confirming
  by id confirms whichever number another tab looked up.  A booking whose net
  rounds to 0 cannot be settled alone.
* Pages.  Answers of lists are never discarded, so an older list can be shown
  last, and a reload after a write uses the filters of the click.  Contact
  messages beyond the first 20 cannot be reached.  Busy flags that hold one id
  let another row through.  Two clicks on a hero image delete two, since
  images are deleted by position.  Lists cached in Redis are dropped before
  the commit on some paths, the broadcast's (`notification_service.py:96`,
  `admin.py:186`) among them, and can be refilled with the old rows for 60 s.
  `ShownIsTrue` excepts these races by name, and only until the next list is
  shown.  A late answer closes another row's dialog.
* Booking pages.  `slot.version += 1` counts from a row that was read without a
  lock (`time_slot_repo.py:183`), so a stale update issues a version again at
  another price, and `create_booking` lets the page's older price pass
  (`booking_service.py:781`; its comment calls it an optimistic lock).
  The balls' price is not covered by `slot.version` at all
  (`booking_service.py:781`, `learning-guide:362`), so it may change between the
  page and the booking.  The cancel dialog can be opened for another booking
  before the terms of the first arrived, and then shows and sends those, which
  pass if the mode is the same (`dashboard/bookings/page.tsx:145`).  A manual
  booking toasts success when nothing was booked.

## 5. Proofs

Assumptions: those the modules state of their constants (`CheckoutAssumption`,
`ReplacementAssumption`, `SessionsAssumption`, `DeskAssumption`,
`ScheduleAssumption`, `PagesAssumption`, `SignInAssumption`,
`PanelsAssumption`): types, `None` is no user or slot, the reconciler is no
request, there is room for the row the system starts with, the calendar opens on
a day it has, a page can have a request in flight.  All theorems hold for any
number of users, slots, requests, rows, calls and faults.

| Theorem | Statement |
|---|---|
| `Invariance` (`Checkout`) | `Spec => []IndInv` |
| `TypeCorrect`, `SlotsMatch`, `OneCheckout` | type correctness, `SlotMatchesBookings`, `OneCheckoutPerUser` |
| `SaleRefinement` | `Spec => ImplementsSlotSale` |
| `ConfirmedPaid` | `Spec => []ConfirmedIsPaid` |
| `MoneyExplained` | the three conjuncts of `MoneyIsAccounted` that say what recorded money and closed payments are |
| `LateSuccess`, `SoldRefunded`, `EndIsFinal` | `Spec => LateSuccessIsFlagged`, `SoldSlotIsRefunded`, `EndedStaysEnded` |
| `ResaleInvariance` (`Replacement`) | `Spec => []ResaleInv` |
| `ResaleRefinement`, `OneOwnerAlways` | `Spec => ImplementsResale`, `Spec => []Place!OneOwner` |
| `LocksAreRespected` | `Spec => [](ResaleInv /\ LockInv)` |
| `TransfersAreWhole`, `OffersStayBacked` | `Spec => []TransferIsWhole`, `Spec => []OffersAreBacked` |
| `NoLateTransfer`, `EndedRowsStay` | `Spec => NoTransferAfterStart`, `Spec => RowsStayEnded` |
| `ScheduleTypes`, `LiveSlotsAreReserved` (`Schedule`) | `Spec => []TypeOK`, `[]LiveIsReserved` |
| `SlotsAreApart`, `BookedSlotsAreKept` | `Spec => NoOverlap`, `Spec => BookedIsKept` |
| `DeskTypes`, `MoneyLeavesOnce`, `PayoutsAskedAreDue` (`Desk`) | `Spec => []TypeOK`, `[]PaidOnce`, `[]PayoutIsDue` |
| `DecisionsStay` | `Spec => DecidedStays` |
| `SessionTypes`, `SessionHasOneLiveToken` (`Sessions`) | `Spec => []TypeOK`, `Spec => []OneLiveToken` |
| `EndedTokenStaysEnded`, `NoSessionEndsInError` | `Spec => EndedStaysEnded`, `Spec => []NoFalseReuse` |
| `PagesHoldTruth` (`BookingPages`) | `Spec => []PagesInv` |
| `PagesTypes`, `NumbersNameTheirRow` | `Spec => []TypeOK`, `Spec => []CallsAddressTheirRow` |
| `ShownIsDone`, `PaidIsTold` | `Spec => []TermsWereShown`, `Spec => []ToldPaidIsPaid` |
| `SignInTypes`, `OneAdmission` (`Portal`) | `PortalSpec => []SignInTypeOK`, `PortalSpec => []CodeAdmitsOnce` |
| `PortalTypes`, `NothingStale`, `OneRequestOfAForm` | `PortalSpec => []PortalTypeOK`, `[]ShownIsTrue`, `[]FlagsFollowCalls` |

**Checkout.**  Type correctness is not inductive alone: `CreateAfterResolve` reads the user
through the job's payment and its booking, so `RowsAreLinked` and
`JobsHoldPayments` are needed.  `SlotMatchesBookings` speaks of *the* active
booking of a slot; its inductive form splits into `ActiveBookingsDiffer` (two
active bookings of one slot are equal) and `SlotRepeatsBooking` (the slot
repeats the status of its booking), which let `Released`, written by most
handlers without a lock on the slot, be replaced by what it does on a pending
booking.  The proof groups the actions by effect: quiet, ending bookings,
selling one, inserting one.

*Money.*  `ConfirmedIsPaid` looks like a property of one handler, but a handler
settles on what it asked the gateway before it locked.  `MoneyInv` says what a
job may still believe: one about to settle has seen the money captured, one
about to ask for a checkout is the first (`JobsKnowGate`, `OneRequest`); a row
without a track has none at the gateway, and a token sits on a pending payment
(`RowsAreFresh`); a success was captured, and in the right amount unless it is
flagged (`RecordedIsCaptured`); a booking has one success, and a confirmed one
has it (`OneSuccess`, the unique index, and `ConfirmedHasSuccess`).  It holds through every fault, and gives `ConfirmedPaid`,
`MoneyExplained`, and, step by step, `LateSuccess`, `SoldRefunded` and
`EndIsFinal` (a late refusal of the gateway cannot take a success back).

*Captured money.*  The three other parts of `MoneyIsAccounted` are
`MoneyExplained`, under every fault.  The first, `CapturedIsWatched`, is checked
on `checkout_rivals` only: it holds of the code as long as no answer is lost,
nobody crashes and amounts are exact, and TLC shows the counterexample without
any of these (the first, the second and the sixth of the disagreements above).

**Replacement.**  A hold-first handler reads its booking through the hold and
its request, so typing a step needs that these rows exist (`RowsAreLinked`,
`JobsHoldHolds`), and the refinement needs that a buyer is not the owner, which
is a fact about the hold since `create_booking` wrote it.  With `OneActive`
they are `ResaleInv`, which is inductive as it stands.  The proof is by the
effect of a step: a booking's status turns, it is handed over before the start,
or a new one is sold when none is active.  Staleness does not disturb it,
because no handler writes a booking from a stale row.

*Locks.*  `LockInv` makes the handlers' transactions usable in a proof: a
locked hold is changed by its own transaction only (`LocksAreExclusive`), that
transaction found the hold in the status it needs (`LocksFit`), and the token is
there exactly while a payment is under way (`TokenIsProcessing`).

*Transfers.*  `TransferIsWhole` speaks of a booking's state after up to four
transactions.  Its inductive form adds what each of them relied on: a hold that
was not sent to the gateway has no checkout there (`FreshHasNoCheckout`), and
one job at most asks for one (`RequestIsFirst`); a job that settles has seen
the money captured (`SettledIsCaptured`); a paid hold is its booking's transfer
(`PaidIsTransfer`).

*Offers.*  Handlers write an offer from the row they loaded before they waited,
so `OffersAreBacked` is true only because of what the loaded row still says
about the present one: whoever has a live hold of a held offer locked has
loaded the offer as held (`SeenHeld`), until the slot starts a held offer's
booking is pending (`HeldIsPending`), and there is one live offer of a booking
and one live hold of the slot (`OneLiveOffer`, `OneLiveHold`).

**Sessions.**  `OneLiveToken` is not inductive: a renewal gives the row it holds
a successor, a second live row unless the first is live still.  `SessionsInv`
adds why it is: the row under a lock is live, the locks of two requests are
disjoint, and rows are ended by whoever has them locked.  A free row is the
name of no session (`RowsAreNamed`), so a sign-in opens a session of its own.
Typing `token_version` needs that each raise was counted (`VersionsCounted`).
`NoFalseReuse` rests on `InUse`, which holds while no answer was lost and no two
tabs renewed at a time: one renewal is on its way (`OneRenewal`), one request
works on it (`OneRequest`, `RequestRenews`); a cookie with a successor waits for
an answered renewal to replace it (`CookieIsUnused`); a token a sign-in opened
is known to its call only (`OpenedIsApart`).

**Schedule.**  `ScheduleInv` types the rows, calls, updates in flight and the
editor, and has what `LiveIsReserved` needs: a live booking is on a slot that is
there, reserved, and its only one.  A stale update does not disturb that,
because it writes only the columns it changes and is refused on a slot that was
reserved when it read it.  `NoOverlap` is a property of steps, since a stale
update may leave two slots over each other.  A single slot that comes or moves
was checked against all the others, unless its own times changed since they
were read (`OneComes`); a schedule keeps the protected slots it has a place for
and its own slots of a day are apart, so two slots can only come to meet if
they start on different days.  `BookedIsKept` follows by the effect of a step
on one slot.

**Desk.**  `PayoutIsDue` relates a page's dialog to rows that changed since its
list was read.  It is inductive once it is said of everything on the way: a row
in an answer, in a list or in a dialog was true, its card is on record since,
and what it calls approved was not rejected (`CallsTrue`, `PaysTrue`,
`RefsTrue`).  `PaidOnce` needs that the stages of booking, settlement and refund
fit (`StagesFit`).  `DecidedStays` needs that one confirmation at a time has the
card locked, and that the refunds it selected are still without destination and
unpaid (`TakenFits`).

**Booking pages.**  A page acts on what it read some calls ago, so each of the
four properties is true only because what was read is still true, in the sense
in which it is used.  `PagesInv` says so of everything on the way, whether an
argument, an answer, a list, a selection or a dialog: a number with a kind
names the user's row of that table (`Names`: kinds do not change and a hold
that was paid is a booking), a version stands beside a price it was issued at
(`Quotes`), an outcome "paid" is of a row that got its slot.  A row charged
another price than the one shown is then a version with two prices, and as long
as no update was written over a newer row the versions of a slot grow with its
prices (`History`).  It also says which continuation waits for which call
(`CallForm`), and that an answer for the mounted page is for a page of that
name, since what is left is forgotten or redirected.  The
server's side is one relation between its rows before and after (`Moved`: rows
are added, kinds stay, what was paid stays paid, and what was issued stays in
the history), which every handler and job is shown to satisfy and
which keeps all of it (`KeepsTrue`); a step of a page leaves the rows alone
and is shown to hold only what was true.

**Portal.**  `CodeAdmitsOnce` needs that the stored code is the present one
(`StoredIsCode`), that a code once taken is not stored again (`TakenIsGone`),
and that its wrong guesses are counted (`WrongIsCounted`).  The last holds until
a code was stored before the failures of its predecessor were dropped, which
is the exception the property states.  The steps of the dashboard leave the
forms alone, hence the theorem is one about the whole portal.

*Pages.*  The 26 pages are records, so the proof first shows of each record what
it needs (`PagesFit`): a cached list is dropped by every handler that writes it,
a flag that disables a control belongs to that control only, a page with a form
has only the form and what is above it, a page that patches its rows patches
everything it writes, and any other page asks for its list again.  A page added
to `PageKinds` needs its lemma, or shows that it breaks one of these habits.
`FlagsFollowCalls` needs the converse of its first part for the flags that
disable a control: such a flag is set as long as its request is in flight
(`FlagsOf`), and an open dialog has an operation and a row (`DialogOf`).
`ShownIsTrue` speaks of a page at rest, so `TrueInv` says what is true before it
is at rest, with any number of requests in flight.  A list that was read, in an
answer or in the cache, is what the API would answer now or it is marked late;
so is the row that a commit has left (`CallsTrue`, `CacheTrue`); a cache entry
of before a commit is dropped by a request in flight.  And from when the list
asked for last is shown, unless a race was lost since, whatever the page shows
and the table does not have is going to be mended by a request in flight: one
that will ask for the list again, patch that row, or save that form
(`PageTrue`).  With nothing in flight that is `ShownIsTrue`.  What is excepted is
decided by what happened (`crossed`), not by how many requests there are:
requests may overlap freely as long as the list asked for last is shown last and
is not older than the table.

**What was checked before it was proved.**  TLC found every conjunct of these
invariants true on an instance: `MoneyInv` on `checkout_rivals`
(377,052 states), with 2 requests and 3 payments (52,514) and on
`checkout_faults` (394,220), the invariants of `Replacement` on `cycles`
(576,857), `ScheduleInv` on `schedule` (3.0 M), `DeskInv` on `desk` (1.2 M),
`InUse` on `sessions` (2.0 M), `PagesInv` on `booking_pages` (2.8 M), `CodeInv`
on `portal` and on the forms alone with limit 2 and two rival requests (3.0 M),
`PanelInv` and `TrueInv` on `portal` (1.6 M).

### Only model-checked

* `UnpaidIsReleased`, `CapturedIsRecorded`, `PendingIsDecided`, `HoldsEnd`:
  liveness under fairness, which the provers cannot treat.

* `CapturedIsWatched`, the first part of `MoneyIsAccounted`: it holds only in
  runs without faults and wrong amounts (above).

Every other invariant and action property the runs check is a theorem, without
hypotheses beyond the assumptions on the constants.

## 6. Not modelled

* The mock gateway, price recomputation, reports, metrics and the digest: no
  decision rests on them.
* `generate_slots` and the administrators' `update_slot`, which repeats the
  checks of `update_vendor_slot` on more fields; a template that is bootstrapped
  from the calendar.
* The price of the balls, which is read when a booking is created.
* In `Sessions`, the answers 404 and 429 of the renewal endpoint; in `SignIn`, a
  request whose form was left while the API still worked on it; in `Replacement`,
  the unique index once the deadline has passed.
* Delivery of notifications and SMS, beyond whether a code arrived.
* What pages draw: maps, images, exports, layout, and pages that only read.
* Amounts of penalties and commission, beyond the rounding of a settlement.
* The remaining components carry their reason in `PROJECT.json`.
