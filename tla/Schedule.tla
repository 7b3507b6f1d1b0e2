------------------------------- MODULE Schedule -------------------------------
(***************************************************************************)
(* A vendor's calendar: the slots, the manual and online bookings on them, *)
(* the weekly schedule that replaces them, and the manager's page from     *)
(* which all of this is changed (VendorScheduleTab and its                 *)
(* WeeklyScheduleEditor), with its calls in flight.                        *)
(*                                                                         *)
(* A call of the page is a record of "calls": sent, served by the API in   *)
(* one transaction, then delivered to the page.  Calls overtake each other *)
(* freely.  The update of a slot (PATCH), the page's toggle and any other  *)
(* manager's, takes two steps: it reads the slot before it waits for the   *)
(* vendor's schedule lock and writes after.                                *)
(*                                                                         *)
(* A point of time is a pair <<day, offset>>, the offset from 03:00 of the *)
(* operational day; so a slot can reach into the next day.                 *)
(*                                                                         *)
(* Abstractions: gender goes with price; blocked, disabled and closed are  *)
(* one status; no slot is longer than a day; no late cancellation          *)
(* (Replacement has it); the clock stands at midnight; a schedule runs to  *)
(* the end of Day; a page of one manager, other managers and users act     *)
(* through the API; reads fail only where that closes a dialog; the        *)
(* calendar begins as the last schedule made it, or empty but for a single *)
(* slot, with a manual booking or none.                                    *)
(***************************************************************************)
EXTENDS Integers, FiniteSets
LOCAL INSTANCE FiniteSetsExt

CONSTANTS
    Day,         \* the days of the calendar, a range of naturals
    Week,        \* the days after which the weekly schedule repeats
    Midnight,    \* the offset at which the date changes
    Span,        \* the time ranges of an item: from an offset to an offset of
                 \* the same day, or (late = 1) of the next
    Price,       \* the prices an item can have, positive
    Edits,       \* the updates other managers send
    MaxSlot,     \* bound on the slots ever made
    MaxBooking,  \* bound on the bookings ever made
    MaxEdits,    \* bound on the other managers' updates in flight
    MaxCalls,    \* bound on the page's calls in flight
    MaxClicks    \* bound on the clicks that write, edit or select a day, and
                 \* on what other managers do

ASSUME ScheduleAssumption ==
    /\ Day \subseteq Nat \ {0}
    /\ 1 \in Day             \* the day the tab opens on
    /\ Week \in Nat \ {0} /\ Midnight \in Nat
    /\ Span \subseteq [from : Nat, late : {0, 1}, to : Nat]
    /\ Price \subseteq Nat \ {0}
    /\ Edits \subseteq [from : Nat \X Nat, to : Nat \X Nat, price : Nat,
                       status : {"same", "open", "closed"}]
    /\ {MaxSlot, MaxBooking, MaxEdits, MaxCalls, MaxClicks} \subseteq Nat

VARIABLES
    now,      \* the date
    slot,     \* time_slots, by id
    booking,  \* bookings, by number
    saved,    \* the items of the latest weekly schedule version
    edits,    \* the other managers' updates that have read their slot
    calls,    \* the page's calls in flight
    clicks,   \* how many clicks and others' edits there were
    tab,      \* the schedule tab and its two dialogs
    editor    \* the weekly schedule editor

vars == <<now, slot, booking, saved, edits, calls, clicks, tab, editor>>
server == <<now, slot, booking, saved, edits>>
page == <<clicks, tab, editor>>
net == <<calls, clicks>>
-----------------------------------------------------------------------------
SlotId  == 1 .. MaxSlot
Booking == 1 .. MaxBooking
Item    == [dow : 0 .. Week - 1, span : Span, price : Price]
Time    == Nat \X Nat

SlotStatus    == {"open", "reserving", "reserved", "closed"}
BookingStatus == {"none", "pending", "confirmed", "ended"}
Live          == {"pending", "confirmed"}

\* A row of time_slots: not made yet, there, or deleted.
Slot == [life : {"none", "on", "gone"}, from : Time, to : Time, price : Nat,
         status : SlotStatus, reserved : BOOLEAN]

NoTime == <<0, 0>>
Absent(life) == [life |-> life, from |-> NoTime, to |-> NoTime, price |-> 0,
                 status |-> "open", reserved |-> FALSE]
Fresh(w, p) == [life |-> "on", from |-> w.from, to |-> w.to, price |-> p,
                status |-> "open", reserved |-> FALSE]

There(i) == slot[i].life = "on"
Unused   == {i \in SlotId : slot[i].life = "none"}

\* item_window: the window of a span on a day.
At(d, s) == [from |-> <<d, s.from>>, to |-> <<d + s.late, s.to>>]
Window   == {At(d, s) : d \in Day, s \in Span}
Times(i) == [from |-> slot[i].from, to |-> slot[i].to]

Before(s, t) == s[1] < t[1] \/ (s[1] = t[1] /\ s[2] < t[2])
Meet(v, w)   == Before(v.from, w.to) /\ Before(w.from, v.to)
HasOverlap(w, except) == \E i \in SlotId \ except : There(i) /\ Meet(Times(i), w)

\* Slots that start between midnight and 03:00 belong to the day before.
Date(t) == IF t[2] < Midnight THEN t[1] ELSE t[1] + 1

LiveOn(i) == {b \in Booking : booking[b].status \in Live /\ booking[b].slot = i}
Free(i) == /\ There(i)
           /\ slot[i].status = "open"
           /\ ~slot[i].reserved
           /\ LiveOn(i) = {}
Begun(i) == Date(slot[i].from) <= now

\* _weekly_schedule_minimum_date: after today and after the last date that a
\* live online booking holds.
MinDay ==
    LET last == {Date(slot[i].from) : i \in {j \in SlotId : ~Begun(j)
                    /\ \E b \in LiveOn(j) : booking[b].source = "online"}}
    IN  1 + Max({now} \cup last)
-----------------------------------------------------------------------------
(* Online bookings and their clock                                         *)

NewBooking(b, i, src, st) ==
    /\ booking[b].status = "none"
    /\ \A c \in 1 .. b - 1 : booking[c].status # "none"
    /\ booking' = [booking EXCEPT ![b] =
                      [status |-> st, source |-> src, slot |-> i]]

SetStatus(b, st) == booking' = [booking EXCEPT ![b].status = st]

\* Cancelled, expired and deleted bookings are alike here.
Gone == [status |-> "ended", source |-> "online", slot |-> 0]
End(b) == booking' = [booking EXCEPT ![b] = Gone]

Book(i) ==
    /\ Free(i) /\ ~Begun(i)
    /\ \E b \in Booking : NewBooking(b, i, "online", "pending")
    /\ slot' = [slot EXCEPT ![i].status = "reserving", ![i].reserved = TRUE]
    /\ UNCHANGED <<now, saved, edits, calls, page>>

\* A verified payment takes the slot whatever was done to it meanwhile.
Confirm(b) ==
    /\ booking[b].status = "pending"
    /\ SetStatus(b, "confirmed")
    /\ slot' = [slot EXCEPT ![booking[b].slot].status = "reserved",
                            ![booking[b].slot].reserved = TRUE]
    /\ UNCHANGED <<now, saved, edits, calls, page>>

\* The sweeper frees the slot only while its status is still reserving.
Expire(b) ==
    LET i == booking[b].slot
    IN  /\ booking[b].status = "pending"
        /\ End(b)
        /\ slot' = IF slot[i].status = "reserving"
                   THEN [slot EXCEPT ![i].status = "open",
                                     ![i].reserved = FALSE]
                   ELSE slot
        /\ UNCHANGED <<now, saved, edits, calls, page>>

UserCancel(b) ==
    LET i == booking[b].slot
    IN  /\ booking[b].status = "confirmed"
        /\ booking[b].source = "online"
        /\ ~Begun(i)
        /\ End(b)
        /\ slot' = [slot EXCEPT ![i].status = "open", ![i].reserved = FALSE]
        /\ UNCHANGED <<now, saved, edits, calls, page>>

Tick ==
    /\ \E d \in Day : d > now + 1
    /\ now' = now + 1
    /\ UNCHANGED <<slot, booking, saved, edits, calls, page>>
-----------------------------------------------------------------------------
(* Single slots                                                            *)

Counted == clicks < MaxClicks /\ clicks' = clicks + 1

\* create_slot by another manager.
CreateSlot(w, p) ==
    /\ ~HasOverlap(w, {})
    /\ Counted
    /\ \E i \in Unused : /\ \A j \in Unused : i <= j
                         /\ slot' = [slot EXCEPT ![i] = Fresh(w, p)]
    /\ UNCHANGED <<now, booking, saved, edits, calls, tab, editor>>

\* update_vendor_slot, update_slot: what the update u makes of the times read
\* in r, and the row that the flush leaves: of what u gives, only what
\* differs from r is written.  is_reserved is FALSE in r and in u.
Editable(i) == There(i) /\ ~slot[i].reserved

Given(new, t) == IF new = NoTime THEN t ELSE new
Merged(u, r) == [from |-> Given(u.from, r.from), to |-> Given(u.to, r.to)]

Put(new, read, current) == IF new \in {NoTime, read} THEN current ELSE new
\* Mutant: the whole row is written back as it was read.
WrittenWhole(i, u, r) ==
    [r EXCEPT
        !.from   = Given(u.from, @),
        !.to     = Given(u.to, @),
        !.price  = IF u.price = 0 THEN @ ELSE u.price,
        !.status = IF u.status = "same" THEN @ ELSE u.status]

Written(i, u, r) ==
    [slot[i] EXCEPT
        !.from   = Put(u.from, r.from, @),
        !.to     = Put(u.to, r.to, @),
        !.price  = IF u.price \in {0, r.price} THEN @ ELSE u.price,
        !.status = IF u.status \in {"same", r.status} THEN @ ELSE u.status]

\* The update of a deleted row fails, and so does a second row of the same
\* times (uq_time_slots_vendor_start_end).
Accepted(i, u, r) ==
    /\ Before(Merged(u, r).from, Merged(u, r).to)
    /\ ~HasOverlap(Merged(u, r), {i})
    /\ There(i)
    /\ \A j \in SlotId \ {i} : There(j) =>
          \/ slot[j].from # Written(i, u, r).from
          \/ slot[j].to # Written(i, u, r).to

EditRead(i, u) ==
    /\ Editable(i)
    /\ Cardinality(edits) < MaxEdits
    /\ edits' = edits \cup {[id |-> i, set |-> u, read |-> slot[i]]}
    /\ Counted
    /\ UNCHANGED <<now, slot, booking, saved, calls, tab, editor>>

EditWrite(e) ==
    /\ edits' = edits \ {e}
    /\ slot' = IF Accepted(e.id, e.set, e.read)
               THEN [slot EXCEPT ![e.id] = Written(e.id, e.set, e.read)]
               ELSE slot
    /\ UNCHANGED <<now, booking, saved, calls, page>>
-----------------------------------------------------------------------------
(* The API's side of the page's calls.  An answer is kept in the record.   *)

Served(c, d) == calls' = (calls \ {c}) \cup {d}
Answer(c, st, ans) == Served(c, [c EXCEPT !.st = st, !.ans = ans])

\* What the page makes of a slot (isBlockedStatus, isBooked).
Look(r) == IF r.status = "closed" THEN "blocked"
           ELSE IF r.reserved \/ r.status # "open" THEN "booked"
           ELSE "free"

\* GET .../slots?date=
ServeDay(c) ==
    /\ c.kind = "day"
    /\ Answer(c, "ok", {[id |-> i, from |-> slot[i].from, to |-> slot[i].to,
                         look |-> Look(slot[i])] :
                           i \in {j \in SlotId : There(j)
                                    /\ slot[j].from[1] = c.arg.day}})
    /\ UNCHANGED <<server, page>>

\* GET .../weekly-schedule-template: the saved version, and MinDay.
ServeTemplate(c) ==
    /\ c.kind = "template"
    /\ Answer(c, "ok", [items |-> saved, min |-> MinDay])
    /\ UNCHANGED <<server, page>>

\* GET /manager/bookings, and the page's search for the slot's booking in it.
ServeLookup(c) ==
    /\ c.kind = "lookup"
    /\ \/ Answer(c, "ok", LiveOn(c.arg.id))
       \/ Answer(c, "failed", {})
    /\ UNCHANGED <<server, page>>

\* PATCH .../slots/{id} of the page, which gives the status only.
ToggleRead(c) ==
    /\ c.kind = "toggle"
    /\ IF Editable(c.arg.id) THEN Answer(c, "locked", slot[c.arg.id])
       ELSE Answer(c, "failed", {})
    /\ UNCHANGED <<server, page>>

Turned(next) == [from |-> NoTime, to |-> NoTime, price |-> 0, status |-> next]

ToggleWrite(c) ==
    LET u == Turned(c.arg.next)
    IN  /\ c.kind = "toggle"
        /\ IF Accepted(c.arg.id, u, c.ans)
           THEN /\ Answer(c, "ok", {})
                /\ slot' = [slot EXCEPT ![c.arg.id] = Written(c.arg.id, u, c.ans)]
           ELSE Answer(c, "failed", {}) /\ UNCHANGED slot
        /\ UNCHANGED <<now, booking, saved, edits, page>>

\* POST /manager/bookings/recurring with allow_partial: every free slot of
\* these times in the weeks asked for; the others are counted and skipped.
Later(t, k) == <<t[1] + k * Week, t[2]>>
Weeks(c) == {i \in SlotId : \E k \in 0 .. c.arg.weeks - 1 :
                Times(i) = [from |-> Later(c.arg.from, k), to |-> Later(c.arg.to, k)]}

ServeManual(c) ==
    LET ids == {i \in Weeks(c) : Free(i)}
    IN  /\ c.kind = "manual"
        /\ \E f \in [ids -> Booking] :
              /\ \A i, j \in ids : f[i] = f[j] => i = j
              /\ \A i \in ids : booking[f[i]].status = "none"
              /\ booking' = [b \in Booking |->
                    IF \E i \in ids : f[i] = b
                    THEN [status |-> "confirmed", source |-> "manual",
                          slot |-> CHOOSE i \in ids : f[i] = b]
                    ELSE booking[b]]
        /\ slot' = [i \in SlotId |->
                      IF i \in ids THEN [slot[i] EXCEPT !.status = "reserved",
                                                       !.reserved = TRUE]
                      ELSE slot[i]]
        /\ Answer(c, "ok", {})
        /\ UNCHANGED <<now, saved, edits, page>>

\* POST /manager/bookings/{id}/cancel
ServeCancel(c) ==
    LET b == c.arg.b
        i == booking[b].slot
    IN  /\ c.kind = "cancel"
        /\ IF booking[b].status \in Live /\ ~Begun(i)
           THEN /\ Answer(c, "ok", {})
                /\ End(b)
                /\ slot' = [slot EXCEPT ![i].reserved = FALSE,
                        ![i].status = IF c.arg.release THEN "open" ELSE "closed"]
           ELSE Answer(c, "failed", {}) /\ UNCHANGED <<slot, booking>>
        /\ UNCHANGED <<now, saved, edits, page>>
-----------------------------------------------------------------------------
(* apply_weekly_schedule                                                   *)

\* Items are compared within their weekday.
Consistent(items) ==
    \A i, j \in items : i # j /\ i.dow = j.dow => ~Meet(At(0, i.span), At(0, j.span))

\* The slots that start in the range, and the windows the items ask for.
InRange(from) == {i \in SlotId : There(i) /\ slot[i].from[1] \in Day
                                           /\ slot[i].from[1] >= from}
Asks(i, w) == i.dow = w.from[1] % Week /\ At(w.from[1], i.span) = w
Desired(items, from) ==
    {w \in Window : w.from[1] >= from /\ \E i \in items : Asks(i, w)}
PriceOf(items, w) == (CHOOSE i \in items : Asks(i, w)).price

\* Mutant: only what users booked is protected.
OnlineProtected(i) == \E b \in LiveOn(i) : booking[b].source = "online"

Protected(i) == slot[i].reserved \/ LiveOn(i) # {}
Manual(i) == \E b \in LiveOn(i) : booking[b].source = "manual"

\* Mutant: what is protected stays, without a conflict.
FreeRetired(items, from) ==
    {i \in InRange(from) : Times(i) \notin Desired(items, from) /\ ~Protected(i)}

Retired(items, from) == {i \in InRange(from) : Times(i) \notin Desired(items, from)}
Reopened(items, from) == {i \in InRange(from) : /\ Times(i) \in Desired(items, from)
                                                /\ ~Protected(i)}
Missing(items, from) == {w \in Desired(items, from) : \A i \in InRange(from) : Times(i) # w}

\* The ids of new slots.
Numberings(ws, ids) == {f \in [ws -> ids] : \A v, w \in ws : f[v] = f[w] => v = w}

\* A protected slot stays as it is; a free one is opened at the new price.
Rescheduled(items, from, f) ==
    [i \in SlotId |->
        CASE i \in Retired(items, from) -> Absent("gone")
          [] i \in Reopened(items, from) ->
                Fresh(Times(i), PriceOf(items, Times(i)))
          [] \E w \in DOMAIN f : f[w] = i ->
                LET w == CHOOSE v \in DOMAIN f : f[v] = i
                IN  Fresh(w, PriceOf(items, w))
          [] OTHER -> slot[i]]

\* Mutant: the ORM nulls slot_id instead (models/time_slot.py:82).
Orphaned(ids) ==
    [b \in Booking |-> IF booking[b].slot \in ids
                       THEN [booking[b] EXCEPT !.slot = 0]
                       ELSE booking[b]]

\* Bookings of a deleted slot are deleted with it, live or not.
Cascaded(ids) ==
    [b \in Booking |-> IF booking[b].slot \in ids THEN Gone ELSE booking[b]]

ServeApply(c) ==
    LET items == c.arg.items
        from  == c.arg.from
        gone  == Retired(items, from)
        kept  == {i \in gone : Protected(i)}
        asked == {i \in kept : Manual(i)}
        new   == Numberings(Missing(items, from), Unused)
        Refuse(why, what) == /\ Answer(c, why, what)
                             /\ UNCHANGED <<slot, booking, saved>>
    IN  /\ c.kind = "apply"
        /\ \/ /\ ~Consistent(items)
              /\ Refuse("failed", {})
           \/ /\ Consistent(items) /\ from < MinDay
              /\ Refuse("early", MinDay)
           \/ /\ Consistent(items) /\ from >= MinDay /\ kept # asked
              /\ Refuse("protected", {})
           \/ /\ Consistent(items) /\ from >= MinDay /\ kept = asked
              /\ asked # {} /\ ~c.arg.confirmed
              /\ Refuse("ask", {})
           \/ /\ Consistent(items) /\ from >= MinDay /\ kept = asked
              /\ asked = {} \/ c.arg.confirmed
              /\ new # {}
              /\ slot' = Rescheduled(items, from, CHOOSE f \in new : TRUE)
              /\ booking' = Cascaded(gone)
              /\ saved' = items
              /\ Answer(c, "ok", {})
        /\ UNCHANGED <<now, edits, page>>
-----------------------------------------------------------------------------
(* The schedule tab                                                        *)

NoRow == [id |-> 0, from |-> NoTime, to |-> NoTime, look |-> "free"]

Call(k, arg) == [kind |-> k, arg |-> arg, st |-> "sent", ans |-> {}]
Ask(k, arg) == /\ Cardinality(calls) < MaxCalls
               /\ calls' = calls \cup {Call(k, arg)}
               /\ UNCHANGED clicks
Send(k, arg) == /\ Cardinality(calls) < MaxCalls
                /\ calls' = calls \cup {Call(k, arg)}
                /\ Counted
Deliver(c) == calls' = calls \ {c} /\ UNCHANGED clicks
Reload(c) == /\ calls' = (calls \ {c}) \cup {Call("day", [day |-> c.arg.day])}
             /\ UNCHANGED clicks

\* While the day's slots load they are not shown.
Loading(t) == [t EXCEPT !.loading = TRUE, !.rows = {}]

Past(row) == Date(row.from) <= now
\* A row can be acted on unless a dialog covers it.
OnRow(row) == /\ row \in tab.rows
              /\ ~tab.loading
              /\ tab.manual = NoRow /\ tab.cancel = NoRow
              /\ ~editor.open /\ editor.stage = "edit"
              /\ ~Past(row)

SelectDay(d) ==
    /\ d # tab.day
    /\ tab.manual = NoRow /\ tab.cancel = NoRow
    /\ ~editor.open /\ editor.stage = "edit"
    /\ tab' = Loading([tab EXCEPT !.day = d])
    /\ Send("day", [day |-> d])
    /\ UNCHANGED <<server, editor>>

\* loadDaySlots applies every answer, for whichever day it was asked.
DayArrives(c) ==
    /\ c.kind = "day"
    /\ tab' = [tab EXCEPT !.rows = c.ans, !.loading = FALSE]
    /\ Deliver(c)
    /\ UNCHANGED <<server, editor>>

Toggle(row) ==
    /\ OnRow(row) /\ row.look # "booked"
    /\ tab.toggling # row.id
    /\ tab' = [tab EXCEPT !.toggling = row.id]
    /\ Send("toggle", [id |-> row.id, day |-> tab.day,
                       next |-> IF row.look = "blocked" THEN "open" ELSE "closed"])
    /\ UNCHANGED <<server, editor>>

\* One flag serves all toggles; the reload is for the day of the click.
ToggleArrives(c) ==
    /\ c.kind = "toggle"
    /\ LET done == [tab EXCEPT !.toggling = NoRow.id]
       IN  IF c.st = "ok" THEN tab' = Loading(done) /\ Reload(c)
           ELSE tab' = done /\ Deliver(c)
    /\ UNCHANGED <<server, editor>>

OpenManual(row) ==
    /\ OnRow(row) /\ row.look = "free"
    /\ tab' = [tab EXCEPT !.manual = row]
    /\ UNCHANGED <<server, net, editor>>

CloseManual ==
    /\ tab.manual # NoRow
    /\ tab' = [tab EXCEPT !.manual = NoRow]
    /\ UNCHANGED <<server, net, editor>>

SubmitManual(n) ==
    /\ tab.manual # NoRow
    /\ ~tab.busy
    /\ tab' = [tab EXCEPT !.busy = TRUE]
    /\ Send("manual", [from |-> tab.manual.from, to |-> tab.manual.to,
                       weeks |-> n, day |-> tab.day])
    /\ UNCHANGED <<server, editor>>

ManualArrives(c) ==
    /\ c.kind = "manual"
    /\ tab' = Loading([tab EXCEPT !.manual = NoRow, !.busy = FALSE])
    /\ Reload(c)
    /\ UNCHANGED <<server, editor>>

OpenCancel(row) ==
    /\ OnRow(row) /\ row.look = "booked"
    /\ tab' = [tab EXCEPT !.cancel = row, !.found = {}, !.looking = TRUE]
    /\ Ask("lookup", [id |-> row.id, day |-> tab.day])
    /\ UNCHANGED <<server, editor>>

\* Whichever dialog is open gets the answer, or is closed by the failure.
LookupArrives(c) ==
    /\ c.kind = "lookup"
    /\ tab' = IF c.st = "ok"
              THEN [tab EXCEPT !.found = c.ans, !.looking = FALSE]
              ELSE [tab EXCEPT !.cancel = NoRow, !.looking = FALSE]
    /\ Deliver(c)
    /\ UNCHANGED <<server, editor>>

CloseCancel ==
    /\ tab.cancel # NoRow
    /\ tab' = [tab EXCEPT !.cancel = NoRow, !.found = {}]
    /\ UNCHANGED <<server, net, editor>>

CancelBooking(release) ==
    /\ tab.cancel # NoRow /\ ~Past(tab.cancel)
    /\ ~tab.looking /\ ~tab.cancelling
    /\ \E b \in tab.found :
          Send("cancel", [b |-> b, release |-> release, day |-> tab.day])
    /\ tab' = [tab EXCEPT !.cancelling = TRUE]
    /\ UNCHANGED <<server, editor>>

CancelArrives(c) ==
    /\ c.kind = "cancel"
    /\ IF c.st = "ok"
       THEN /\ tab' = Loading([tab EXCEPT !.cancel = NoRow, !.found = {},
                                          !.cancelling = FALSE])
            /\ Reload(c)
       ELSE /\ tab' = [tab EXCEPT !.cancelling = FALSE]
            /\ Deliver(c)
    /\ UNCHANGED <<server, editor>>
-----------------------------------------------------------------------------
(* The weekly schedule editor                                              *)

OpenEditor ==
    /\ tab.manual = NoRow /\ tab.cancel = NoRow
    /\ ~editor.open /\ editor.stage = "edit"
    /\ editor' = [editor EXCEPT !.open = TRUE, !.loading = TRUE]
    /\ Ask("template", {})
    /\ UNCHANGED <<server, tab>>

\* A late answer replaces the items whatever the editor is doing.
TemplateArrives(c) ==
    /\ c.kind = "template"
    /\ editor' = [editor EXCEPT !.loading = FALSE, !.items = c.ans.items,
                     !.min = c.ans.min,
                     !.from = IF @ < c.ans.min THEN c.ans.min ELSE @]
    /\ Deliver(c)
    /\ UNCHANGED <<server, tab>>

Editing == editor.open /\ editor.stage = "edit" /\ ~editor.loading

\* addDraftSlot refuses a draft that meets an item of the day.
Addable(i) == \A j \in editor.items :
                 i.dow = j.dow => ~Meet(At(0, i.span), At(0, j.span))

AddItem(i) ==
    /\ Editing
    /\ Addable(i)
    /\ editor' = [editor EXCEPT !.items = @ \cup {i}]
    /\ Counted
    /\ UNCHANGED <<server, calls, tab>>

\* updateItem checks nothing: validate does, before the schedule is applied.
UpdateItem(i, j) ==
    /\ Editing
    /\ i \in editor.items /\ j \notin editor.items
    /\ i.dow = j.dow
    /\ \/ i.span = j.span
       \/ i.price = j.price
    /\ editor' = [editor EXCEPT !.items = (@ \ {i}) \cup {j}]
    /\ Counted
    /\ UNCHANGED <<server, calls, tab>>

RemoveItem(i) ==
    /\ Editing
    /\ i \in editor.items
    /\ editor' = [editor EXCEPT !.items = @ \ {i}]
    /\ Counted
    /\ UNCHANGED <<server, calls, tab>>

PickDate(d) ==
    /\ Editing
    /\ d >= editor.min /\ d # editor.from
    /\ editor' = [editor EXCEPT !.from = d]
    /\ Counted
    /\ UNCHANGED <<server, calls, tab>>

Valid == editor.from >= editor.min /\ Consistent(editor.items)

Review ==
    /\ Editing
    /\ Valid
    /\ editor' = [editor EXCEPT !.stage = "confirm"]
    /\ UNCHANGED <<server, net, tab>>

\* Back from either confirmation, also while the call is in flight.
Back ==
    /\ editor.stage # "edit"
    /\ editor' = [editor EXCEPT !.stage = "edit"]
    /\ UNCHANGED <<server, net, tab>>

Apply ==
    /\ editor.stage # "edit"
    /\ ~editor.busy
    /\ Valid
    /\ Send("apply", [items |-> editor.items, from |-> editor.from,
                      confirmed |-> editor.stage = "deletion", day |-> tab.day])
    /\ editor' = [editor EXCEPT !.busy = TRUE]
    /\ UNCHANGED <<server, tab>>

\* The deletion dialog opens on its answer even if the editor was closed.
ApplyArrives(c) ==
    /\ c.kind = "apply"
    /\ editor' =
          [editor EXCEPT !.busy = FALSE,
              !.stage = IF c.st = "ask" THEN "deletion" ELSE "edit",
              !.min = IF c.st = "early" THEN c.ans ELSE @,
              !.from = IF c.st = "early" THEN c.ans ELSE @]
    /\ IF c.st = "ok"
       THEN tab' = Loading(tab) /\ Reload(c)
       ELSE UNCHANGED tab /\ Deliver(c)
    /\ UNCHANGED server

\* The items are loaded anew before they can be edited again; until then only
\* a call in flight, refused for confirmation, can still send the old ones.
CloseEditor ==
    /\ editor.open /\ editor.stage = "edit"
    /\ editor' = [editor EXCEPT !.open = FALSE,
                                !.items = IF editor.busy THEN @ ELSE {}]
    /\ UNCHANGED <<server, net, tab>>
-----------------------------------------------------------------------------
FreshTab ==
    [day |-> 1, loading |-> TRUE, rows |-> {}, toggling |-> NoRow.id,
     manual |-> NoRow, busy |-> FALSE, cancel |-> NoRow, found |-> {},
     looking |-> FALSE, cancelling |-> FALSE]

FreshEditor ==
    [open |-> FALSE, loading |-> FALSE, items |-> {}, min |-> 1, from |-> 1,
     stage |-> "edit", busy |-> FALSE]

\* f numbers the slots that are there; the taken one has booking 1.
Began(taken, p, f) ==
    /\ slot = [i \in SlotId |->
          IF \E w \in DOMAIN f : f[w] = i
          THEN LET w == CHOOSE v \in DOMAIN f : f[v] = i
                   r == Fresh(w, p)
               IN  IF w \in taken
                   THEN [r EXCEPT !.status = "reserved", !.reserved = TRUE]
                   ELSE r
          ELSE Absent("none")]
    /\ booking = [b \in Booking |->
          IF taken # {} /\ b = 1
          THEN [status |-> "confirmed", source |-> "manual",
                slot |-> f[CHOOSE w \in taken : TRUE]]
          ELSE [Gone EXCEPT !.status = "none"]]

Init ==
    /\ now = 0
    /\ saved \in {items \in SUBSET Item : Consistent(items)}
    /\ \E ws \in SUBSET Window, taken \in SUBSET Window, p \in Price :
          /\ \/ ws = Desired(saved, 1)
             \/ saved = {} /\ Cardinality(ws) = 1
          /\ taken \subseteq ws /\ Cardinality(taken) <= 1
          /\ LET new == Numberings(ws, SlotId)
             IN  new # {} /\ Began(taken, p, CHOOSE f \in new : TRUE)
    /\ edits = {}
    /\ tab = FreshTab
    /\ editor = FreshEditor
    /\ calls = {Call("day", [day |-> 1])}
    /\ clicks = 0

Online ==
    \/ \E i \in SlotId : Book(i)
    \/ \E b \in Booking : Confirm(b) \/ Expire(b) \/ UserCancel(b)
    \/ \E w \in Window, p \in Price : CreateSlot(w, p)
    \/ \E i \in SlotId, u \in Edits : EditRead(i, u)
    \/ \E e \in edits : EditWrite(e)
    \/ Tick

Serve ==
    \/ \E c \in {d \in calls : d.st = "sent"} :
          \/ ServeDay(c) \/ ServeTemplate(c) \/ ServeLookup(c) \/ ToggleRead(c)
          \/ ServeManual(c) \/ ServeCancel(c) \/ ServeApply(c)
    \/ \E c \in {d \in calls : d.st = "locked"} : ToggleWrite(c)

Arrive ==
    \E c \in {d \in calls : d.st \notin {"sent", "locked"}} :
        \/ DayArrives(c) \/ ToggleArrives(c) \/ ManualArrives(c)
        \/ LookupArrives(c) \/ CancelArrives(c) \/ TemplateArrives(c)
        \/ ApplyArrives(c)

Click ==
    \/ \E d \in Day : SelectDay(d) \/ PickDate(d)
    \/ \E row \in tab.rows : Toggle(row) \/ OpenManual(row) \/ OpenCancel(row)
    \/ \E n \in 1 .. 2 : SubmitManual(n)
    \/ CloseManual \/ CloseCancel
    \/ \E release \in BOOLEAN : CancelBooking(release)
    \/ \E i \in Item : AddItem(i) \/ RemoveItem(i) \/ \E j \in Item : UpdateItem(i, j)
    \/ OpenEditor \/ CloseEditor \/ Review \/ Back \/ Apply

Next == Online \/ Serve \/ Arrive \/ Click

Spec == Init /\ [][Next]_vars
-----------------------------------------------------------------------------
(* Types and bounds.                                                       *)
TypeOK ==
    /\ now \in Nat
    /\ slot \in [SlotId -> Slot]
    /\ \A b \in Booking : /\ booking[b].status \in BookingStatus
                          /\ booking[b].source \in {"online", "manual"}
                          /\ booking[b].slot \in SlotId \/ booking[b].status \notin Live
    /\ saved \subseteq Item
    /\ \A e \in edits : e.id \in SlotId /\ e.set \in Edits /\ e.read \in Slot
    /\ tab.day \in Day /\ tab.found \subseteq Booking
    /\ editor.items \subseteq Item
    /\ editor.stage \in {"edit", "confirm", "deletion"}

Meeting(rows, i, j) == /\ rows[i].life = "on" /\ rows[j].life = "on"
                       /\ Meet(rows[i], rows[j])

\* The update of the slot that is written in this step, if one is.
Writes(i) == {e \in edits \ edits' : e.id = i}

(* No step brings two slots of the vendor to cover the same time, through  *)
(* every mix of single slots, updates and schedules applied over each      *)
(* other (has_overlap, and apply_weekly_schedule's refusal to keep a       *)
(* protected slot the new schedule has no place for), save the two the     *)
(* code lets through: an update of a slot whose times changed after it     *)
(* read them, and a schedule's slot against one that starts on another     *)
(* operational day, reaching past 03:00.                                   *)
NoOverlap ==
    [][\A i, j \in SlotId : i # j /\ Meeting(slot', i, j) =>
          \/ Meeting(slot, i, j)
          \/ \E k \in {i, j} : \E e \in Writes(k) :
                 <<e.read.from, e.read.to>> # <<slot[k].from, slot[k].to>>
          \/ /\ slot'[i].from[1] # slot'[j].from[1]
             /\ \E c \in calls \ calls' : c.kind = "apply" /\ c.st = "sent"]_vars

(* A slot with a live booking is marked reserved, so that no list offers   *)
(* it and no edit or second booking passes; in particular not after an     *)
(* update that read the slot before the booking and wrote after it.  There *)
(* is one live booking at most.                                            *)
LiveIsReserved ==
    \A i \in SlotId : LiveOn(i) # {} =>
        /\ There(i) /\ slot[i].reserved
        /\ \A a, b \in LiveOn(i) : a = b

\* A slot is there after the step, with one of these times and prices.
Stays(i, from, to, price) ==
    /\ slot'[i].life = "on"
    /\ slot'[i].from \in from /\ slot'[i].to \in to
    /\ slot'[i].price \in price

(* While a booking is live its slot is neither repriced, moved nor         *)
(* deleted, save a manual booking's by a schedule that was applied with    *)
(* the manager's confirmation (is_protected, effective_from after the last *)
(* online booking), and save what the code lets through: an update that    *)
(* read the slot before it was taken changes it to what it asks for, and   *)
(* to nothing else.                                                        *)
BookedIsKept ==
    [][\A b \in Booking : booking[b].status \in Live =>
        LET i == booking[b].slot
        IN  \/ Stays(i, {slot[i].from}, {slot[i].to}, {slot[i].price})
            \/ \E e \in Writes(i) :
                  /\ ~e.read.reserved
                  /\ Stays(i, {slot[i].from, e.set.from}, {slot[i].to, e.set.to},
                           {slot[i].price, e.set.price})
            \/ /\ booking[b].source = "manual"
               /\ \E c \in calls : c.kind = "apply" /\ c.arg.confirmed]_vars
=============================================================================
