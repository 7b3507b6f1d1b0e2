-------------------------- MODULE Schedule_proofs --------------------------
(***************************************************************************)
(* That no step but the two the code lets through brings two slots to one  *)
(* time, that a live booking's slot is reserved, and that a booked slot is *)
(* kept but for an update that read it before: for any days, spans,        *)
(* prices, updates, bookings and calls of the page.                        *)
(***************************************************************************)
EXTENDS Schedule, TLAPS

USE ScheduleAssumption

Row == [id : SlotId, from : Time, to : Time, look : {"blocked", "booked", "free"}]

WindowType == [from : Time, to : Time]
Update == [from : Time, to : Time, price : Nat, status : {"same", "open", "closed"}]
BookingRow == [status : BookingStatus, source : {"online", "manual"}, slot : SlotId \cup {0}]

TabType == [day : Day, loading : BOOLEAN, rows : SUBSET Row, toggling : SlotId \cup {0},
            manual : Row \cup {NoRow}, busy : BOOLEAN, cancel : Row \cup {NoRow},
            found : SUBSET Booking, looking : BOOLEAN, cancelling : BOOLEAN]

(* The rows, and the updates that have read one of them unreserved *)
RowsOK ==
    /\ now \in Nat
    /\ slot \in [SlotId -> Slot]
    /\ booking \in [Booking -> BookingRow]
    /\ \A b \in Booking : booking[b].status \in Live => booking[b].slot \in SlotId
    /\ saved \subseteq Item

EditsOK == \A e \in edits : /\ e.id \in SlotId /\ e.set \in Edits
                            /\ e.read \in Slot /\ ~e.read.reserved

CalendarInv == RowsOK /\ LiveIsReserved /\ EditsOK

(* What the page sends, and what it is answered *)
ArgOK(kind, arg) ==
    /\ kind = "toggle" => arg.id \in SlotId /\ arg.next \in {"open", "closed"}
    /\ kind = "cancel" => arg.b \in Booking
    /\ kind = "apply" => arg.items \subseteq Item

AnsOK(kind, ans) ==
    /\ kind = "day" => ans \subseteq Row
    /\ kind = "lookup" => ans \subseteq Booking
    /\ kind = "template" => ans.items \subseteq Item

IsCall(c) == \E kind, arg, st, ans : c = [kind |-> kind, arg |-> arg, st |-> st, ans |-> ans]

CallOK(c) ==
    /\ IsCall(c)
    /\ ArgOK(c.kind, c.arg)
    /\ c.st = "ok" => AnsOK(c.kind, c.ans)
    /\ c.kind \in {"day", "template"} => c.st \in {"sent", "ok"}

CallsOK == \A c \in calls : CallOK(c)

EditorOK ==
    /\ {"open", "loading", "items", "min", "from", "stage", "busy"} = DOMAIN editor
    /\ editor.items \subseteq Item
    /\ editor.stage \in {"edit", "confirm", "deletion"}
    /\ editor = [x \in DOMAIN editor |-> editor[x]]

PageOK == tab \in TabType /\ EditorOK

ScheduleInv == CalendarInv /\ CallsOK /\ PageOK

-----------------------------------------------------------------------------
(* Slots *)

LEMMA NoTimeType == NoTime \in Time
BY DEF NoTime, Time

LEMMA UpdateType == Edits \subseteq Update
BY DEF Update, Time

LEMMA TurnedType == \A next \in {"open", "closed"} : Turned(next) \in Update
BY NoTimeType DEF Turned, Update

LEMMA GoneType == Gone \in BookingRow /\ Gone.status \notin Live /\ Gone.slot = 0
BY DEF Gone, BookingRow, BookingStatus, Live

LEMMA AbsentType == \A life \in {"none", "gone"} :
                        Absent(life) \in Slot /\ Absent(life).life = life
BY NoTimeType DEF Absent, Slot, SlotStatus

LEMMA FreshType ==
    ASSUME NEW w \in WindowType, NEW p \in Nat
    PROVE  /\ Fresh(w, p) \in Slot
           /\ Fresh(w, p).life = "on" /\ Fresh(w, p).from = w.from /\ Fresh(w, p).to = w.to
           /\ ~Fresh(w, p).reserved
BY DEF Fresh, Slot, SlotStatus, WindowType

LEMMA WindowTypes == Window \subseteq WindowType /\ \A w \in Window : w.from[1] \in Day
<1> SUFFICES ASSUME NEW d \in Day, NEW s \in Span
             PROVE  At(d, s) \in WindowType /\ At(d, s).from[1] \in Day
  BY DEF Window
<1>1. d \in Nat /\ s.from \in Nat /\ s.late \in {0, 1} /\ s.to \in Nat
  OBVIOUS
<1> QED
  BY <1>1 DEF At, WindowType, Time

LEMMA TimesType ==
    ASSUME RowsOK, NEW i \in SlotId
    PROVE  Times(i) \in WindowType /\ Times(i).from = slot[i].from /\ Times(i).to = slot[i].to
BY DEF RowsOK, Times, WindowType, Slot

LEMMA MeetSym == \A v, w : Meet(v, w) <=> Meet(w, v)
BY DEF Meet

(* What a write of an update leaves of its row *)
LEMMA WrittenFields ==
    ASSUME RowsOK, NEW i \in SlotId, NEW u \in Update, NEW r
    PROVE  LET w == Written(i, u, r)
           IN  /\ w \in Slot
               /\ w.life = slot[i].life /\ w.reserved = slot[i].reserved
               /\ w.from = Put(u.from, r.from, slot[i].from)
               /\ w.to = Put(u.to, r.to, slot[i].to)
               /\ w.from \in {slot[i].from, u.from} /\ w.to \in {slot[i].to, u.to}
               /\ w.price \in {slot[i].price, u.price}
<1>1. slot[i] \in Slot
  BY DEF RowsOK
<1>2. Put(u.from, r.from, slot[i].from) \in {slot[i].from, u.from}
      /\ Put(u.to, r.to, slot[i].to) \in {slot[i].to, u.to}
  BY DEF Put
<1>3. u.from \in Time /\ u.to \in Time /\ u.price \in Nat /\ u.status \in {"same", "open", "closed"}
  BY DEF Update
<1> DEFINE f == Put(u.from, r.from, slot[i].from)
           t == Put(u.to, r.to, slot[i].to)
           p == IF u.price \in {0, r.price} THEN slot[i].price ELSE u.price
           st == IF u.status \in {"same", r.status} THEN slot[i].status ELSE u.status
<1>4. f \in Time /\ t \in Time
  BY <1>1, <1>2, <1>3 DEF Slot
<1>5. p \in Nat /\ p \in {slot[i].price, u.price} /\ st \in SlotStatus
  BY <1>1, <1>3 DEF Slot, SlotStatus
<1>6. Written(i, u, r) = [slot[i] EXCEPT !.from = f, !.to = t, !.price = p, !.status = st]
  BY <1>1 DEF Written, Slot
<1> HIDE DEF f, t, p, st
<1>7. PICK w : w = [slot[i] EXCEPT !.from = f, !.to = t, !.price = p, !.status = st]
  OBVIOUS
<1>8. /\ w.life = slot[i].life /\ w.from = f /\ w.to = t /\ w.price = p
      /\ w.reserved = slot[i].reserved
  BY <1>1, <1>7 DEF Slot
<1>9. w \in Slot
  BY <1>1, <1>4, <1>5, <1>7 DEF Slot
<1> QED
  BY <1>2, <1>5, <1>6, <1>7, <1>8, <1>9 DEF f, t

LEMMA Marked ==
    ASSUME RowsOK, NEW i \in SlotId, NEW st \in SlotStatus, NEW r \in BOOLEAN,
           slot' = [slot EXCEPT ![i].status = st, ![i].reserved = r]
    PROVE  /\ slot' \in [SlotId -> Slot]
           /\ slot'[i].reserved = r
           /\ \A j \in SlotId : /\ slot'[j].life = slot[j].life
                                /\ slot'[j].from = slot[j].from /\ slot'[j].to = slot[j].to
                                /\ slot'[j].price = slot[j].price
                                /\ j # i => slot'[j] = slot[j]
<1>1. slot[i] \in Slot
  BY DEF RowsOK
<1>2. PICK w : w = [slot[i] EXCEPT !.status = st, !.reserved = r]
  OBVIOUS
<1>3. /\ w.life = slot[i].life /\ w.from = slot[i].from /\ w.to = slot[i].to
      /\ w.price = slot[i].price /\ w.reserved = r
  BY <1>1, <1>2 DEF Slot
<1>4. w \in Slot
  BY <1>1, <1>2 DEF Slot
<1>5. slot' = [slot EXCEPT ![i] = w]
  BY <1>2 DEF RowsOK
<1> QED
  BY <1>3, <1>4, <1>5 DEF RowsOK

(***************************************************************************)
(* The slot of one id and its live bookings change together; the rest      *)
(* stays.                                                                  *)
(***************************************************************************)
LEMMA ReservedStays ==
    ASSUME LiveIsReserved, NEW i \in SlotId,
           \A j \in SlotId \ {i} : LiveOn(j)' \subseteq LiveOn(j) /\ slot'[j] = slot[j],
           LiveOn(i)' # {} => There(i)' /\ slot'[i].reserved,
           \A a, b \in LiveOn(i)' : a = b
    PROVE  LiveIsReserved'
<1> SUFFICES ASSUME NEW j \in SlotId, LiveOn(j)' # {}
             PROVE  There(j)' /\ slot'[j].reserved /\ \A a, b \in LiveOn(j)' : a = b
  BY DEF LiveIsReserved
<1>1. CASE j = i
  BY <1>1
<1>2. CASE j # i
  <2>1. LiveOn(j)' \subseteq LiveOn(j) /\ slot'[j] = slot[j]
    BY <1>2
  <2>2. LiveOn(j) # {}
    BY <2>1
  <2>3. There(j) /\ slot[j].reserved /\ \A a, b \in LiveOn(j) : a = b
    BY <2>2 DEF LiveIsReserved
  <2> QED
    BY <2>1, <2>3 DEF There
<1> QED
  BY <1>1, <1>2

(* The bookings stay, and so do the slots but for times, price and status. *)
LEMMA FlagsStay ==
    ASSUME LiveIsReserved, UNCHANGED booking,
           \A i \in SlotId : There(i) => There(i)' /\ slot'[i].reserved = slot[i].reserved
    PROVE  LiveIsReserved'
BY DEF LiveIsReserved, LiveOn

LEMMA BookFits ==
    ASSUME CalendarInv, NEW i \in SlotId, Book(i)
    PROVE  CalendarInv'
<1>1. PICK b \in Booking : NewBooking(b, i, "online", "pending")
  BY DEF Book
<1>2. booking' = [booking EXCEPT ![b] = [status |-> "pending", source |-> "online", slot |-> i]]
      /\ booking[b].status = "none"
  BY <1>1 DEF NewBooking
<1>3. slot' = [slot EXCEPT ![i].status = "reserving", ![i].reserved = TRUE]
      /\ There(i) /\ LiveOn(i) = {} /\ UNCHANGED <<now, saved, edits>>
  BY DEF Book, Free
<1>4. RowsOK'
  <2>1. slot' \in [SlotId -> Slot]
    BY <1>3, Marked DEF CalendarInv, SlotStatus
  <2>2. booking' \in [Booking -> BookingRow]
    BY <1>2 DEF CalendarInv, RowsOK, BookingRow, BookingStatus
  <2>3. \A a \in Booking : booking'[a].status \in Live => booking'[a].slot \in SlotId
    BY <1>2 DEF CalendarInv, RowsOK
  <2> QED
    BY <1>3, <2>1, <2>2, <2>3 DEF CalendarInv, RowsOK
<1>5. LiveOn(i)' = {b} /\ There(i)' /\ slot'[i].reserved
  <2>1. slot'[i].reserved /\ slot'[i].life = slot[i].life
    BY <1>3, Marked DEF CalendarInv, SlotStatus
  <2> QED
    BY <1>2, <1>3, <2>1 DEF LiveOn, Live, CalendarInv, RowsOK, There
<1>6. \A j \in SlotId \ {i} : LiveOn(j)' \subseteq LiveOn(j) /\ slot'[j] = slot[j]
  BY <1>2, <1>3 DEF LiveOn, CalendarInv, RowsOK
<1>7. LiveIsReserved'
  BY <1>5, <1>6, ReservedStays DEF CalendarInv
<1> QED
  BY <1>3, <1>4, <1>7 DEF CalendarInv, EditsOK

(* The only live booking of a slot ends, and the slot stays there. *)
LEMMA EndFits ==
    ASSUME CalendarInv, NEW b \in Booking, booking[b].status \in Live, End(b),
           UNCHANGED <<now, saved, edits>>,
           NEW r \in Slot, slot' \in {slot, [slot EXCEPT ![booking[b].slot] = r]}
    PROVE  CalendarInv'
<1>0. PICK i \in SlotId : i = booking[b].slot
  BY DEF CalendarInv, RowsOK
<1>1. i = booking[b].slot /\ b \in LiveOn(i)
  BY <1>0 DEF CalendarInv, RowsOK, LiveOn
<1>2. booking' = [booking EXCEPT ![b] = Gone]
  BY DEF End
<1>3. RowsOK'
  <2>1. booking' \in [Booking -> BookingRow]
    BY <1>2, GoneType DEF CalendarInv, RowsOK
  <2>2. \A a \in Booking : booking'[a].status \in Live => booking'[a].slot \in SlotId
    BY <1>2, GoneType DEF CalendarInv, RowsOK
  <2>3. slot' \in [SlotId -> Slot]
    BY <1>1 DEF CalendarInv, RowsOK
  <2> QED
    BY <2>1, <2>2, <2>3 DEF CalendarInv, RowsOK
<1>4. LiveOn(i) = {b}
  BY <1>1 DEF CalendarInv, LiveIsReserved
<1>5. \A j \in SlotId : LiveOn(j)' \subseteq LiveOn(j) \ {b}
  BY <1>2, GoneType DEF LiveOn, CalendarInv, RowsOK
<1>6. \A j \in SlotId \ {i} : slot'[j] = slot[j]
  BY <1>1 DEF CalendarInv, RowsOK
<1>7. LiveOn(i)' = {}
  BY <1>4, <1>5
<1>8. LiveIsReserved'
  BY <1>5, <1>6, <1>7, ReservedStays DEF CalendarInv
<1> QED
  BY <1>3, <1>8 DEF CalendarInv, EditsOK

LEMMA ConfirmFits ==
    ASSUME CalendarInv, NEW b \in Booking, Confirm(b)
    PROVE  CalendarInv'
<1> DEFINE i == booking[b].slot
<1>1. i \in SlotId /\ booking[b].status = "pending"
  BY DEF CalendarInv, RowsOK, Live, Confirm
<1>2. /\ booking' = [booking EXCEPT ![b].status = "confirmed"]
      /\ slot' = [slot EXCEPT ![i].status = "reserved", ![i].reserved = TRUE]
      /\ UNCHANGED <<now, saved, edits>>
  BY DEF Confirm, SetStatus
<1>3. \A a \in Booking : booking'[a].slot = booking[a].slot
                         /\ (booking'[a].status \in Live <=> booking[a].status \in Live)
  BY <1>1, <1>2 DEF CalendarInv, RowsOK, BookingRow, Live
<1>4. booking' \in [Booking -> BookingRow]
  BY <1>2 DEF CalendarInv, RowsOK, BookingRow, BookingStatus
<1>5. slot' \in [SlotId -> Slot]
      /\ \A j \in SlotId : /\ slot'[j].life = slot[j].life
                           /\ slot[j].reserved => slot'[j].reserved
  BY <1>1, <1>2, Marked DEF CalendarInv, SlotStatus
<1>6. RowsOK'
  BY <1>2, <1>3, <1>4, <1>5 DEF CalendarInv, RowsOK
<1>7. \A j \in SlotId : LiveOn(j)' = LiveOn(j)
  BY <1>3 DEF LiveOn
<1>8. LiveIsReserved'
  BY <1>5, <1>7 DEF CalendarInv, LiveIsReserved, There
<1> QED
  BY <1>2, <1>6, <1>8 DEF CalendarInv, EditsOK

LEMMA ExpireFits ==
    ASSUME CalendarInv, NEW b \in Booking, Expire(b) \/ UserCancel(b)
    PROVE  CalendarInv'
<1> DEFINE i == booking[b].slot
<1>1. booking[b].status \in Live /\ End(b) /\ UNCHANGED <<now, saved, edits>>
  BY DEF Expire, UserCancel, Live
<1>2. i \in SlotId
  BY <1>1 DEF CalendarInv, RowsOK
<1>3. slot' \in {slot, [slot EXCEPT ![i].status = "open", ![i].reserved = FALSE]}
  BY DEF Expire, UserCancel
<1> DEFINE r == [slot[i] EXCEPT !.status = "open", !.reserved = FALSE]
<1>4. r \in Slot
  <2>1. slot[i] \in Slot
    BY <1>2 DEF CalendarInv, RowsOK
  <2> QED
    BY <2>1 DEF Slot, SlotStatus
<1>5. slot' \in {slot, [slot EXCEPT ![i] = r]}
  BY <1>2, <1>3 DEF CalendarInv, RowsOK
<1> HIDE DEF r
<1> QED
  BY <1>1, <1>4, <1>5, EndFits

LEMMA CancelFits ==
    ASSUME CalendarInv, NEW c, ArgOK(c.kind, c.arg), ServeCancel(c)
    PROVE  CalendarInv'
<1> DEFINE b == c.arg.b
           i == booking[b].slot
<1>1. b \in Booking /\ UNCHANGED <<now, saved, edits>>
  BY DEF ServeCancel, ArgOK
<1>2. CASE booking[b].status \in Live /\ ~Begun(i)
  <2>1. i \in SlotId
    BY <1>1, <1>2 DEF CalendarInv, RowsOK
  <2>2. /\ End(b)
        /\ \E st \in {"open", "closed"} : slot' = [slot EXCEPT ![i].reserved = FALSE, ![i].status = st]
    BY <1>2 DEF ServeCancel
  <2> PICK st \in {"open", "closed"} : slot' = [slot EXCEPT ![i].reserved = FALSE, ![i].status = st]
    BY <2>2
  <2> DEFINE r == [slot[i] EXCEPT !.reserved = FALSE, !.status = st]
  <2>3. r \in Slot
    <3>1. slot[i] \in Slot
      BY <2>1 DEF CalendarInv, RowsOK
    <3> QED
      BY <3>1 DEF Slot, SlotStatus
  <2>4. slot' = [slot EXCEPT ![i] = r]
    BY <2>1 DEF CalendarInv, RowsOK
  <2> HIDE DEF r, b
  <2> QED
    BY <1>1, <1>2, <2>2, <2>3, <2>4, EndFits
<1>3. CASE ~(booking[b].status \in Live /\ ~Begun(i))
  BY <1>1, <1>3 DEF ServeCancel, CalendarInv, RowsOK, LiveIsReserved, LiveOn, EditsOK, There
<1> QED
  BY <1>2, <1>3 DEF ServeCancel

LEMMA CreateFits ==
    ASSUME CalendarInv, NEW w \in Window, NEW p \in Price, CreateSlot(w, p)
    PROVE  CalendarInv'
<1>1. PICK i \in Unused : slot' = [slot EXCEPT ![i] = Fresh(w, p)]
  BY DEF CreateSlot
<1>2. i \in SlotId /\ ~There(i) /\ UNCHANGED <<now, booking, saved, edits>>
  BY <1>1 DEF Unused, There, CreateSlot
<1>3. Fresh(w, p) \in Slot
  BY WindowTypes, FreshType
<1>4. RowsOK'
  BY <1>1, <1>2, <1>3 DEF CalendarInv, RowsOK
<1>5. LiveIsReserved'
  BY <1>1, <1>2, FlagsStay DEF CalendarInv, RowsOK, There
<1> QED
  BY <1>2, <1>4, <1>5 DEF CalendarInv, EditsOK

(* A write of an update touches neither the flag nor the booking. *)
LEMMA WriteFits ==
    ASSUME CalendarInv, NEW i \in SlotId, NEW u \in Update, NEW r,
           slot' = slot \/ slot' = [slot EXCEPT ![i] = Written(i, u, r)],
           UNCHANGED <<now, booking, saved>>, edits' \subseteq edits
    PROVE  CalendarInv'
<1>1. Written(i, u, r) \in Slot /\ Written(i, u, r).life = slot[i].life
      /\ Written(i, u, r).reserved = slot[i].reserved
  BY WrittenFields DEF CalendarInv
<1>2. slot' \in [SlotId -> Slot]
      /\ \A j \in SlotId : slot'[j].life = slot[j].life /\ slot'[j].reserved = slot[j].reserved
  BY <1>1 DEF CalendarInv, RowsOK
<1>3. RowsOK'
  BY <1>2 DEF CalendarInv, RowsOK
<1>4. LiveIsReserved'
  BY <1>2, FlagsStay DEF CalendarInv, There
<1> QED
  BY <1>3, <1>4 DEF CalendarInv, EditsOK

LEMMA ToggleFits ==
    ASSUME CalendarInv, NEW c, ArgOK(c.kind, c.arg), ToggleWrite(c)
    PROVE  CalendarInv'
<1>1. c.arg.id \in SlotId /\ Turned(c.arg.next) \in Update
  BY TurnedType DEF ToggleWrite, ArgOK
<1>2. PICK i \in SlotId, u \in Update, r \in {c.ans} : i = c.arg.id /\ u = Turned(c.arg.next) /\ r = c.ans
  BY <1>1
<1>3. slot' = slot \/ slot' = [slot EXCEPT ![i] = Written(i, u, r)]
  BY <1>2 DEF ToggleWrite
<1>4. UNCHANGED <<now, booking, saved>> /\ edits' \subseteq edits
  BY DEF ToggleWrite
<1> QED
  BY <1>3, <1>4, WriteFits

LEMMA EditWriteFits ==
    ASSUME CalendarInv, NEW e \in edits, EditWrite(e)
    PROVE  CalendarInv'
<1>1. PICK i \in SlotId, u \in Update, r \in {e.read} : i = e.id /\ u = e.set /\ r = e.read
  BY UpdateType DEF CalendarInv, EditsOK
<1>2. slot' = slot \/ slot' = [slot EXCEPT ![i] = Written(i, u, r)]
  BY <1>1 DEF EditWrite
<1>3. UNCHANGED <<now, booking, saved>> /\ edits' \subseteq edits
  BY DEF EditWrite
<1> QED
  BY <1>2, <1>3, WriteFits

LEMMA EditReadFits ==
    ASSUME CalendarInv, NEW i \in SlotId, NEW u \in Edits, EditRead(i, u)
    PROVE  CalendarInv'
<1>1. edits' = edits \cup {[id |-> i, set |-> u, read |-> slot[i]]} /\ ~slot[i].reserved
      /\ UNCHANGED <<now, slot, booking, saved>>
  BY DEF EditRead, Editable
<1>2. slot[i] \in Slot
  BY DEF CalendarInv, RowsOK
<1>3. EditsOK'
  BY <1>1, <1>2 DEF CalendarInv, EditsOK
<1>4. RowsOK'
  BY <1>1 DEF CalendarInv, RowsOK
<1>5. LiveIsReserved'
  BY <1>1 DEF CalendarInv, LiveIsReserved, LiveOn, There
<1> QED
  BY <1>3, <1>4, <1>5 DEF CalendarInv

LEMMA ManualFits ==
    ASSUME CalendarInv, NEW c, ServeManual(c)
    PROVE  CalendarInv'
<1> DEFINE ids == {i \in Weeks(c) : Free(i)}
<1>1. ids \subseteq SlotId /\ \A i \in ids : There(i) /\ LiveOn(i) = {}
  BY DEF Weeks, Free
<1>2. slot' = [i \in SlotId |-> IF i \in ids THEN [slot[i] EXCEPT !.status = "reserved", !.reserved = TRUE]
                                            ELSE slot[i]]
      /\ UNCHANGED <<now, saved, edits>>
  BY DEF ServeManual
<1>3. PICK f \in [ids -> Booking] :
         /\ \A i, j \in ids : f[i] = f[j] => i = j
         /\ \A i \in ids : booking[f[i]].status = "none"
         /\ booking' = [b \in Booking |->
               IF \E i \in ids : f[i] = b
               THEN [status |-> "confirmed", source |-> "manual", slot |-> CHOOSE i \in ids : f[i] = b]
               ELSE booking[b]]
  BY DEF ServeManual
<1> HIDE DEF ids
<1>4. \A i \in ids : booking'[f[i]] = [status |-> "confirmed", source |-> "manual", slot |-> i]
  <2> SUFFICES ASSUME NEW i \in ids
               PROVE  booking'[f[i]] = [status |-> "confirmed", source |-> "manual", slot |-> i]
    OBVIOUS
  <2>1. f[i] \in Booking
    BY <1>3
  <2>2. (CHOOSE j \in ids : f[j] = f[i]) = i
    BY <1>3
  <2> QED
    BY <1>3, <2>1, <2>2
<1>5. \A b \in Booking : \/ booking'[b] = booking[b] /\ \A i \in ids : f[i] # b
                         \/ \E i \in ids : f[i] = b
  BY <1>3
<1>6. \A i \in ids : /\ booking'[f[i]] \in BookingRow
                     /\ booking'[f[i]].slot = i
  <2>1. ASSUME NEW i \in ids, NEW r, r = [status |-> "confirmed", source |-> "manual", slot |-> i]
        PROVE  r \in BookingRow /\ r.slot = i
    BY <1>1, <2>1 DEF BookingRow, BookingStatus
  <2> QED
    BY <1>4, <2>1
<1>7. \A b \in Booking : /\ booking'[b] \in BookingRow
                         /\ booking'[b].status \in Live => booking'[b].slot \in SlotId
  <2> SUFFICES ASSUME NEW b \in Booking
               PROVE  /\ booking'[b] \in BookingRow
                      /\ booking'[b].status \in Live => booking'[b].slot \in SlotId
    OBVIOUS
  <2>1. CASE booking'[b] = booking[b]
    BY <2>1 DEF CalendarInv, RowsOK
  <2>2. CASE \E i \in ids : f[i] = b
    BY <1>1, <1>6, <2>2
  <2> QED
    BY <1>5, <2>1, <2>2
<1>8. booking' \in [Booking -> BookingRow]
  <2>1. booking' = [b \in Booking |-> booking'[b]]
    BY <1>3
  <2>2. \A b \in Booking : booking'[b] \in BookingRow
    BY <1>7
  <2> QED
    BY <2>1, <2>2
<1>9. /\ slot' \in [SlotId -> Slot]
      /\ \A j \in SlotId : /\ slot'[j].life = slot[j].life
                           /\ slot[j].reserved \/ j \in ids => slot'[j].reserved
  <2> SUFFICES ASSUME NEW j \in SlotId
               PROVE  /\ slot'[j] \in Slot /\ slot'[j].life = slot[j].life
                      /\ slot[j].reserved \/ j \in ids => slot'[j].reserved
    BY <1>2
  <2>1. slot[j] \in Slot
    BY DEF CalendarInv, RowsOK
  <2> QED
    BY <1>2, <2>1 DEF Slot, SlotStatus
<1>10. RowsOK'
  BY <1>2, <1>8, <1>9, <1>7 DEF CalendarInv, RowsOK
<1>11. \A i \in ids : LiveOn(i)' \subseteq {f[i]}
  <2> SUFFICES ASSUME NEW i \in ids, NEW b \in LiveOn(i)' PROVE b = f[i]
    OBVIOUS
  <2>1. b \in Booking /\ booking'[b].status \in Live /\ booking'[b].slot = i
    BY DEF LiveOn
  <2>2. booking'[b] # booking[b]
    BY <1>1, <2>1 DEF LiveOn
  <2>3. PICK j \in ids : f[j] = b
    BY <1>5, <2>1, <2>2
  <2> QED
    BY <1>6, <2>1, <2>3
<1>12. \A i \in SlotId \ ids : LiveOn(i)' = LiveOn(i)
  <2> SUFFICES ASSUME NEW i \in SlotId \ ids, NEW b \in Booking
               PROVE  b \in LiveOn(i)' <=> b \in LiveOn(i)
    BY DEF LiveOn
  <2>1. CASE booking'[b] = booking[b]
    BY <2>1 DEF LiveOn
  <2>2. ASSUME NEW j \in ids, f[j] = b
        PROVE  b \in LiveOn(i)' <=> b \in LiveOn(i)
    BY <1>3, <1>6, <2>2 DEF LiveOn, Live
  <2> QED
    BY <1>5, <2>1, <2>2
<1>13. LiveIsReserved'
  BY <1>1, <1>9, <1>11, <1>12 DEF CalendarInv, LiveIsReserved, There
<1> QED
  BY <1>2, <1>10, <1>13 DEF CalendarInv, EditsOK

-----------------------------------------------------------------------------
(* The weekly schedule *)

Applies(c) ==
    LET items == c.arg.items
        from  == c.arg.from
        gone  == Retired(items, from)
    IN  /\ c.kind = "apply" /\ c \notin calls'
        /\ Consistent(items)
        /\ \A i \in gone : Protected(i) => Manual(i) /\ c.arg.confirmed
        /\ \E f \in Numberings(Missing(items, from), Unused) :
              slot' = Rescheduled(items, from, f)
        /\ booking' = Cascaded(gone)
        /\ saved' = items
        /\ UNCHANGED <<now, edits>>

LEMMA Moves ==
    ASSUME NEW c, CallOK(c), NEW st, c.st # st, NEW ans, Answer(c, st, ans)
    PROVE  c \notin calls'
<1>1. PICK kind, arg, st0, ans0 : c = [kind |-> kind, arg |-> arg, st |-> st0, ans |-> ans0]
  BY DEF CallOK, IsCall
<1>2. [c EXCEPT !.st = st, !.ans = ans] # c
  BY <1>1
<1> QED
  BY <1>2 DEF Answer, Served

LEMMA ApplyCases ==
    ASSUME NEW c, CallOK(c), c.st = "sent", ServeApply(c)
    PROVE  Applies(c) \/ UNCHANGED server
<1> DEFINE new == Numberings(Missing(c.arg.items, c.arg.from), Unused)
<1>1. new # {} => (CHOOSE f \in new : TRUE) \in new
  OBVIOUS
<1>2. CASE UNCHANGED <<slot, booking, saved>>
  BY <1>2 DEF ServeApply, server
<1>3. /\ Answer(c, "ok", {}) /\ new # {}
      /\ slot' = Rescheduled(c.arg.items, c.arg.from, CHOOSE f \in new : TRUE)
      => \E f \in new : slot' = Rescheduled(c.arg.items, c.arg.from, f)
  BY <1>1
<1> HIDE DEF new
<1>4. Answer(c, "ok", {}) => c \notin calls'
  BY Moves
<1> QED
  BY <1>2, <1>3, <1>4 DEF ServeApply, Applies, new, server

LEMMA AskedFor ==
    ASSUME NEW items \in SUBSET Item, NEW from, NEW w \in Desired(items, from)
    PROVE  w \in Window /\ w \in WindowType /\ w.from[1] \in Day /\ w.from[1] >= from
           /\ PriceOf(items, w) \in Nat
<1>1. PICK i \in items : Asks(i, w)
  BY DEF Desired
<1>2. (CHOOSE j \in items : Asks(j, w)) \in items
  BY <1>1
<1> QED
  BY <1>2, WindowTypes DEF PriceOf, Item, Desired

(* Two windows that a schedule asks for on one day do not meet. *)
LEMMA OneDay ==
    ASSUME NEW items \in SUBSET Item, Consistent(items), NEW from,
           NEW v \in Desired(items, from), NEW w \in Desired(items, from),
           v # w, v.from[1] = w.from[1]
    PROVE  ~Meet(v, w)
<1>1. PICK i \in items : Asks(i, v)
  BY DEF Desired
<1>2. PICK j \in items : Asks(j, w)
  BY DEF Desired
<1>3. PICK d : d = v.from[1] /\ d \in Nat
  BY AskedFor
<1>4. At(d, i.span) = v /\ At(d, j.span) = w /\ i.dow = j.dow
  BY <1>1, <1>2, <1>3 DEF Asks
<1>5. i # j
  BY <1>4
<1>6. ~Meet(At(0, i.span), At(0, j.span))
  BY <1>4, <1>5 DEF Consistent
<1>7. PICK s, t : s = i.span /\ t = j.span /\ s \in Span /\ t \in Span
  BY DEF Item
<1>8. /\ s.from \in Nat /\ s.late \in {0, 1} /\ s.to \in Nat
      /\ t.from \in Nat /\ t.late \in {0, 1} /\ t.to \in Nat
  BY <1>7
<1>9. Meet(At(d, s), At(d, t)) <=> Meet(At(0, s), At(0, t))
  BY <1>3, <1>8 DEF Meet, Before, At
<1> QED
  BY <1>4, <1>6, <1>7, <1>9

(* What applying a schedule makes of a slot *)
LEMMA RescheduledAt ==
    ASSUME RowsOK, NEW items \in SUBSET Item, NEW from,
           NEW f \in Numberings(Missing(items, from), Unused), NEW i \in SlotId
    PROVE  LET r == Rescheduled(items, from, f)[i]
           IN  \/ /\ i \in Retired(items, from)
                  /\ r = Absent("gone")
               \/ /\ i \in Reopened(items, from) /\ i \notin Retired(items, from)
                  /\ r = Fresh(Times(i), PriceOf(items, Times(i)))
               \/ /\ i \in Unused /\ i \notin Retired(items, from)
                  /\ \E w \in Missing(items, from) :
                        f[w] = i /\ r = Fresh(w, PriceOf(items, w))
               \/ /\ i \notin Retired(items, from) /\ i \notin Reopened(items, from)
                  /\ r = slot[i]
<1> DEFINE made == \E w \in DOMAIN f : f[w] = i
<1>1. /\ DOMAIN f = Missing(items, from)
      /\ \A w \in DOMAIN f : f[w] \in Unused
      /\ \A v, w \in DOMAIN f : f[v] = f[w] => v = w
  BY DEF Numberings
<1>2. i \in Unused => i \notin Retired(items, from) /\ i \notin Reopened(items, from)
  BY DEF Retired, Reopened, InRange, There, Unused
<1>3. i \in Reopened(items, from) => i \notin Retired(items, from)
  BY DEF Retired, Reopened
<1>4. CASE i \in Retired(items, from)
  BY <1>1, <1>2, <1>3, <1>4 DEF Rescheduled
<1>5. CASE i \in Reopened(items, from)
  BY <1>1, <1>2, <1>3, <1>5 DEF Rescheduled
<1>6. CASE i \notin Retired(items, from) /\ i \notin Reopened(items, from) /\ made
  <2>1. PICK w \in DOMAIN f : f[w] = i
    BY <1>6
  <2>2. (CHOOSE v \in DOMAIN f : f[v] = i) = w
    BY <1>1, <2>1
  <2>3. Rescheduled(items, from, f)[i] = Fresh(w, PriceOf(items, w))
    BY <1>6, <2>2 DEF Rescheduled
  <2> QED
    BY <1>1, <1>6, <2>1, <2>3
<1>7. CASE i \notin Retired(items, from) /\ i \notin Reopened(items, from) /\ ~made
  BY <1>7 DEF Rescheduled
<1> QED
  BY <1>4, <1>5, <1>6, <1>7

(* The same, in what the invariants ask of the slot *)
LEMMA AppliedTo ==
    ASSUME CalendarInv, NEW c, ArgOK(c.kind, c.arg), c.kind = "apply",
           NEW f \in Numberings(Missing(c.arg.items, c.arg.from), Unused),
           slot' = Rescheduled(c.arg.items, c.arg.from, f), NEW i \in SlotId
    PROVE  LET items == c.arg.items
               from  == c.arg.from
           IN  /\ slot'[i] \in Slot
               /\ \/ i \in Retired(items, from) /\ ~There(i)'
                  \/ /\ i \notin Retired(items, from) /\ There(i)
                     /\ slot'[i].life = "on"
                     /\ slot'[i].from = slot[i].from /\ slot'[i].to = slot[i].to
                     /\ Protected(i) => slot'[i] = slot[i]
                  \/ ~There(i) /\ slot'[i] = slot[i]
                  \/ /\ ~There(i)
                     /\ \E w \in Missing(items, from) :
                           f[w] = i /\ slot'[i].from = w.from /\ slot'[i].to = w.to
<1> DEFINE items == c.arg.items
           from  == c.arg.from
<1>1. items \in SUBSET Item
  BY DEF ArgOK
<1> HIDE DEF items
<1>2. f \in Numberings(Missing(items, from), Unused) /\ slot' = Rescheduled(items, from, f)
  BY DEF items
<1>3. slot[i] \in Slot
  BY DEF CalendarInv, RowsOK
<1>4. CASE i \in Retired(items, from) /\ slot'[i] = Absent("gone")
  BY <1>4, AbsentType DEF There, items
<1>5. CASE /\ i \in Reopened(items, from) /\ i \notin Retired(items, from)
           /\ slot'[i] = Fresh(Times(i), PriceOf(items, Times(i)))
  <2>1. There(i) /\ ~Protected(i) /\ Times(i) \in Desired(items, from)
    BY <1>5 DEF Reopened, InRange
  <2>2. Times(i) \in WindowType /\ PriceOf(items, Times(i)) \in Nat
        /\ Times(i).from = slot[i].from /\ Times(i).to = slot[i].to
    BY <1>1, <2>1, AskedFor, TimesType DEF CalendarInv
  <2>3. PICK w \in WindowType, p \in Nat : w = Times(i) /\ p = PriceOf(items, Times(i))
    BY <2>2
  <2>4. slot'[i] = Fresh(w, p)
    BY <1>5, <2>3
  <2>5. slot'[i] \in Slot /\ slot'[i].life = "on" /\ slot'[i].from = w.from /\ slot'[i].to = w.to
    BY <2>4, FreshType
  <2> QED
    BY <1>5, <2>1, <2>2, <2>3, <2>5 DEF items
<1>6. ASSUME i \in Unused, NEW w \in Missing(items, from), slot'[i] = Fresh(w, PriceOf(items, w))
      PROVE  /\ slot'[i] \in Slot /\ ~There(i)
             /\ slot'[i].from = w.from /\ slot'[i].to = w.to
  <2>1. w \in WindowType /\ PriceOf(items, w) \in Nat
    BY <1>1, AskedFor DEF Missing
  <2>2. PICK p \in Nat : p = PriceOf(items, w)
    BY <2>1
  <2>3. slot'[i] = Fresh(w, p)
    BY <1>6, <2>2
  <2> QED
    BY <1>6, <2>1, <2>3, FreshType DEF Unused, There
<1>7. CASE i \notin Retired(items, from) /\ slot'[i] = slot[i]
  BY <1>3, <1>7 DEF items, There
<1>8. \/ i \in Retired(items, from) /\ slot'[i] = Absent("gone")
      \/ /\ i \in Reopened(items, from) /\ i \notin Retired(items, from)
         /\ slot'[i] = Fresh(Times(i), PriceOf(items, Times(i)))
      \/ /\ i \in Unused
         /\ \E w \in Missing(items, from) : f[w] = i /\ slot'[i] = Fresh(w, PriceOf(items, w))
      \/ i \notin Retired(items, from) /\ slot'[i] = slot[i]
  BY <1>1, <1>2, RescheduledAt DEF CalendarInv
<1> QED
  BY <1>4, <1>5, <1>6, <1>7, <1>8 DEF items

LEMMA ApplyFits ==
    ASSUME CalendarInv, NEW c, ArgOK(c.kind, c.arg), Applies(c)
    PROVE  CalendarInv'
<1> DEFINE gone == Retired(c.arg.items, c.arg.from)
<1>1. booking' = Cascaded(gone) /\ saved' \subseteq Item /\ UNCHANGED <<now, edits>>
  BY DEF Applies, ArgOK
<1>0. PICK f \in Numberings(Missing(c.arg.items, c.arg.from), Unused) :
         slot' = Rescheduled(c.arg.items, c.arg.from, f)
  BY DEF Applies
<1>2. slot' = [i \in SlotId |-> slot'[i]] /\ c.kind = "apply"
  BY <1>0 DEF Applies, Rescheduled
<1> HIDE DEF gone
<1>3. slot' \in [SlotId -> Slot]
  BY <1>0, <1>2, AppliedTo
<1>4. \A b \in Booking : booking'[b] = IF booking[b].slot \in gone THEN Gone ELSE booking[b]
  BY <1>1 DEF Cascaded
<1>5. booking' \in [Booking -> BookingRow]
  BY <1>1, GoneType DEF Cascaded, CalendarInv, RowsOK
<1>6. \A b \in Booking : booking'[b].status \in Live =>
          booking'[b] = booking[b] /\ booking[b].slot \notin gone
  BY <1>4, GoneType
<1>7. RowsOK'
  BY <1>1, <1>3, <1>5, <1>6 DEF CalendarInv, RowsOK
<1>8. \A i \in SlotId : LiveOn(i)' \subseteq LiveOn(i) /\ (LiveOn(i)' # {} => i \notin gone)
  BY <1>6 DEF LiveOn
<1>9. LiveIsReserved'
  <2> SUFFICES ASSUME NEW i \in SlotId, LiveOn(i)' # {}
               PROVE  There(i)' /\ slot'[i].reserved /\ \A a, b \in LiveOn(i)' : a = b
    BY DEF LiveIsReserved
  <2>1. LiveOn(i) # {} /\ i \notin gone
    BY <1>8
  <2>2. There(i) /\ slot[i].reserved /\ \A a, b \in LiveOn(i) : a = b
    BY <2>1 DEF CalendarInv, LiveIsReserved
  <2>3. slot'[i] = slot[i]
    BY <1>0, <1>2, <2>1, <2>2, AppliedTo DEF Protected, gone
  <2> QED
    BY <1>8, <2>2, <2>3 DEF There
<1> QED
  BY <1>1, <1>7, <1>9 DEF CalendarInv, EditsOK

-----------------------------------------------------------------------------
(* Steps of the calendar *)

LEMMA RestFits == CalendarInv /\ UNCHANGED server => CalendarInv'
BY DEF CalendarInv, RowsOK, LiveIsReserved, LiveOn, EditsOK, There, server

LEMMA OnlineFits == CalendarInv /\ Online => CalendarInv'
<1> SUFFICES ASSUME CalendarInv, Online PROVE CalendarInv'
  OBVIOUS
<1>1. CASE Tick
  BY <1>1 DEF Tick, CalendarInv, RowsOK, LiveIsReserved, LiveOn, EditsOK, There
<1> QED
  BY <1>1, BookFits, ConfirmFits, ExpireFits, CreateFits, EditReadFits, EditWriteFits DEF Online

(* What a call of the page does when it is served *)
Serves(c) ==
    \/ UNCHANGED server
    \/ ToggleWrite(c) \/ ServeManual(c) \/ ServeCancel(c)
    \/ Applies(c) /\ c.st = "sent"

LEMMA ServeKinds ==
    CallsOK /\ Serve => \E c \in calls : Serves(c)
<1> SUFFICES ASSUME CallsOK, Serve PROVE \E c \in calls : Serves(c)
  OBVIOUS
<1>1. ASSUME NEW c \in calls, ServeDay(c) \/ ServeTemplate(c) \/ ServeLookup(c) \/ ToggleRead(c)
      PROVE  Serves(c)
  BY <1>1 DEF ServeDay, ServeTemplate, ServeLookup, ToggleRead, Serves
<1>2. ASSUME NEW c \in calls, c.st = "sent", ServeApply(c) PROVE Serves(c)
  BY <1>2, ApplyCases DEF Serves, CallsOK
<1> QED
  BY <1>1, <1>2 DEF Serve, Serves

LEMMA ServeFits == CalendarInv /\ CallsOK /\ Serve => CalendarInv'
BY ServeKinds, RestFits, ToggleFits, ManualFits, CancelFits, ApplyFits DEF Serves, CallsOK, CallOK

LEMMA ArriveRests == Arrive => UNCHANGED server
BY DEF Arrive, DayArrives, ToggleArrives, ManualArrives, LookupArrives, CancelArrives,
       TemplateArrives, ApplyArrives

LEMMA ClickRests == Click => UNCHANGED server
BY DEF Click, SelectDay, PickDate, Toggle, OpenManual, OpenCancel, SubmitManual, CloseManual,
       CloseCancel, CancelBooking, AddItem, RemoveItem, UpdateItem, OpenEditor, CloseEditor,
       Review, Back, Apply

-----------------------------------------------------------------------------
(* The calls and the page *)

LEMMA NewCall ==
    ASSUME NEW kind, NEW arg, ArgOK(kind, arg)
    PROVE  CallOK(Call(kind, arg))
BY DEF CallOK, Call, IsCall

LEMMA MovedCall ==
    ASSUME NEW c, CallOK(c), NEW st, NEW ans, st = "ok" => AnsOK(c.kind, ans),
           c.kind \in {"day", "template"} => st = "ok"
    PROVE  CallOK([c EXCEPT !.st = st, !.ans = ans])
<1>1. PICK kind, arg, st0, ans0 : c = [kind |-> kind, arg |-> arg, st |-> st0, ans |-> ans0]
  BY DEF CallOK, IsCall
<1> DEFINE d == [c EXCEPT !.st = st, !.ans = ans]
           Fields == [kind : {kind}, arg : {arg}, st : {st0, st}, ans : {ans0, ans}]
<1>2. d \in Fields
  BY <1>1
<1>3. d.kind = c.kind /\ d.arg = c.arg /\ d.st = st /\ d.ans = ans
  BY <1>1
<1>4. IsCall(d)
  <2> HIDE DEF d
  <2>1. d = [kind |-> d.kind, arg |-> d.arg, st |-> d.st, ans |-> d.ans]
    BY <1>2
  <2> QED
    BY <2>1 DEF IsCall
<1> HIDE DEF d
<1>5. CallOK(d)
  BY <1>3, <1>4 DEF CallOK
<1> QED
  BY <1>5 DEF d

LEMMA AnswerOK ==
    ASSUME CallsOK, NEW c \in calls, NEW st, NEW ans, Answer(c, st, ans),
           st = "ok" => AnsOK(c.kind, ans), c.kind \in {"day", "template"} => st = "ok"
    PROVE  CallsOK'
<1>1. CallOK([c EXCEPT !.st = st, !.ans = ans])
  BY MovedCall DEF CallsOK
<1> QED
  BY <1>1 DEF Answer, Served, CallsOK

LEMMA DayRows ==
    ASSUME RowsOK, NEW i \in SlotId
    PROVE  [id |-> i, from |-> slot[i].from, to |-> slot[i].to, look |-> Look(slot[i])] \in Row
<1>1. slot[i].from \in Time /\ slot[i].to \in Time
  BY DEF RowsOK, Slot
<1>2. Look(slot[i]) \in {"blocked", "booked", "free"}
  BY DEF Look
<1> QED
  BY <1>1, <1>2 DEF Row

LEMMA ServeCalls ==
    ASSUME CalendarInv, CallsOK, Serve
    PROVE  CallsOK'
<1>1. ASSUME NEW c \in calls, ServeDay(c) PROVE CallsOK'
  <2> DEFINE ans == {[id |-> i, from |-> slot[i].from, to |-> slot[i].to,
                      look |-> Look(slot[i])] :
                        i \in {j \in SlotId : There(j) /\ slot[j].from[1] = c.arg.day}}
  <2>1. ans \subseteq Row
    BY DayRows DEF CalendarInv
  <2>2. Answer(c, "ok", ans) /\ c.kind = "day"
    BY <1>1 DEF ServeDay
  <2> HIDE DEF ans
  <2>3. AnsOK(c.kind, ans)
    BY <2>1, <2>2 DEF AnsOK
  <2> QED
    BY <2>2, <2>3, AnswerOK
<1>2. ASSUME NEW c \in calls, ServeTemplate(c) PROVE CallsOK'
  <2>1. AnsOK(c.kind, [items |-> saved, min |-> MinDay])
    BY <1>2 DEF ServeTemplate, AnsOK, CalendarInv, RowsOK
  <2> QED
    BY <1>2, <2>1, AnswerOK DEF ServeTemplate
<1>3. ASSUME NEW c \in calls, ServeLookup(c) PROVE CallsOK'
  <2>1. PICK st \in {"ok", "failed"}, ans \in SUBSET Booking : Answer(c, st, ans)
    BY <1>3 DEF ServeLookup, LiveOn
  <2>2. AnsOK(c.kind, ans) /\ c.kind = "lookup"
    BY <1>3 DEF ServeLookup, AnsOK
  <2> QED
    BY <2>1, <2>2, AnswerOK
<1>4. ASSUME NEW c \in calls, NEW st, NEW ans, Answer(c, st, ans),
             c.kind \in {"toggle", "manual", "cancel", "apply"}
      PROVE  CallsOK'
  BY <1>4, AnswerOK DEF AnsOK
<1>5. ASSUME NEW c \in calls,
             ToggleRead(c) \/ ToggleWrite(c) \/ ServeManual(c) \/ ServeCancel(c)
      PROVE  CallsOK'
  BY <1>4, <1>5 DEF ToggleRead, ToggleWrite, ServeManual, ServeCancel
<1>6. ASSUME NEW c \in calls, ServeApply(c) PROVE CallsOK'
  <2>1. c.kind = "apply" /\ \E st, ans : Answer(c, st, ans)
    BY <1>6 DEF ServeApply
  <2> QED
    BY <1>4, <2>1
<1> QED
  BY <1>1, <1>2, <1>3, <1>5, <1>6 DEF Serve

LEMMA FollowOK ==
    ASSUME CallsOK, NEW kind, NEW arg, ArgOK(kind, arg), calls' \subseteq calls \cup {Call(kind, arg)}
    PROVE  CallsOK'
BY NewCall DEF CallsOK

LEMMA EndOK == ASSUME CallsOK, calls' \subseteq calls PROVE CallsOK'
BY DEF CallsOK

LEMMA ArriveCalls ==
    ASSUME CallsOK, Arrive
    PROVE  CallsOK'
<1>1. ASSUME NEW c, Reload(c) PROVE CallsOK'
  <2>1. ArgOK("day", [day |-> c.arg.day])
    BY DEF ArgOK
  <2> QED
    BY <1>1, <2>1, FollowOK DEF Reload
<1>2. ASSUME NEW c, Deliver(c) PROVE CallsOK'
  BY <1>2, EndOK DEF Deliver
<1> QED
  BY <1>1, <1>2 DEF Arrive, DayArrives, ToggleArrives, ManualArrives, LookupArrives, CancelArrives,
     TemplateArrives, ApplyArrives

LEMMA ClickCalls ==
    ASSUME CallsOK, PageOK, Click
    PROVE  CallsOK'
<1>1. ASSUME NEW kind, NEW arg, ArgOK(kind, arg), Send(kind, arg) \/ Ask(kind, arg)
      PROVE  CallsOK'
  BY <1>1, FollowOK DEF Send, Ask
<1>2. ASSUME NEW kind \in {"day", "manual", "lookup", "template"}, NEW arg,
             Send(kind, arg) \/ Ask(kind, arg)
      PROVE  CallsOK'
  BY <1>1, <1>2 DEF ArgOK
<1>3. ASSUME NEW row \in tab.rows, Toggle(row) PROVE CallsOK'
  <2>1. row.id \in SlotId
    BY DEF PageOK, TabType, Row
  <2>2. PICK arg : arg = [id |-> row.id, day |-> tab.day,
                          next |-> IF row.look = "blocked" THEN "open" ELSE "closed"]
    OBVIOUS
  <2>3. ArgOK("toggle", arg)
    BY <2>1, <2>2 DEF ArgOK
  <2> QED
    BY <1>1, <1>3, <2>2, <2>3 DEF Toggle
<1>4. ASSUME NEW release, CancelBooking(release) PROVE CallsOK'
  <2>1. PICK b \in tab.found : Send("cancel", [b |-> b, release |-> release, day |-> tab.day])
    BY <1>4 DEF CancelBooking
  <2>2. b \in Booking
    BY DEF PageOK, TabType
  <2>3. PICK arg : arg = [b |-> b, release |-> release, day |-> tab.day]
    OBVIOUS
  <2>4. ArgOK("cancel", arg)
    BY <2>2, <2>3 DEF ArgOK
  <2> QED
    BY <1>1, <2>1, <2>3, <2>4
<1>5. ASSUME Apply PROVE CallsOK'
  <2>1. PICK arg : arg = [items |-> editor.items, from |-> editor.from,
                          confirmed |-> editor.stage = "deletion", day |-> tab.day]
    OBVIOUS
  <2>2. ArgOK("apply", arg)
    BY <2>1 DEF ArgOK, PageOK, EditorOK
  <2> QED
    BY <1>1, <1>5, <2>1, <2>2 DEF Apply
<1>6. ASSUME NEW d, SelectDay(d) PROVE CallsOK'
  BY <1>2, <1>6 DEF SelectDay
<1>7. ASSUME NEW row, OpenCancel(row) PROVE CallsOK'
  BY <1>2, <1>7 DEF OpenCancel
<1>8. ASSUME NEW n, SubmitManual(n) PROVE CallsOK'
  BY <1>2, <1>8 DEF SubmitManual
<1>9. ASSUME OpenEditor PROVE CallsOK'
  BY <1>2, <1>9 DEF OpenEditor
<1>10. ASSUME UNCHANGED calls PROVE CallsOK'
  BY <1>10, EndOK
<1>11. ASSUME NEW x, NEW y, PickDate(x) \/ OpenManual(x) \/ AddItem(x) \/ RemoveItem(x) \/ UpdateItem(x, y)
       PROVE  CallsOK'
  BY <1>10, <1>11 DEF PickDate, OpenManual, AddItem, RemoveItem, UpdateItem, net
<1>12. ASSUME CloseManual \/ CloseCancel \/ CloseEditor \/ Review \/ Back PROVE CallsOK'
  BY <1>10, <1>12 DEF CloseManual, CloseCancel, CloseEditor, Review, Back, net
<1> QED
  BY <1>3, <1>4, <1>5, <1>6, <1>7, <1>8, <1>9, <1>11, <1>12 DEF Click

(* The tab, from the answers it is given and the rows it shows *)
LEMMA RowKinds == NoRow \in Row \cup {NoRow} /\ NoRow.id = 0 /\ \A row \in Row : row.id \in SlotId
BY DEF Row, NoRow

LEMMA LoadingType == \A t \in TabType : Loading(t) \in TabType
BY DEF Loading, TabType

LEMMA TabArrives ==
    ASSUME CallsOK, tab \in TabType, Arrive
    PROVE  tab' \in TabType
<1>1. ASSUME NEW c \in calls, c.st \notin {"sent", "locked"}, DayArrives(c) PROVE tab' \in TabType
  <2>1. c.ans \subseteq Row
    BY <1>1 DEF DayArrives, CallsOK, CallOK, AnsOK
  <2> QED
    BY <1>1, <2>1 DEF DayArrives, TabType
<1>2. ASSUME NEW c \in calls, LookupArrives(c) PROVE tab' \in TabType
  <2>1. c.st = "ok" => c.ans \subseteq Booking
    BY <1>2 DEF LookupArrives, CallsOK, CallOK, AnsOK
  <2>2. CASE c.st = "ok"
    BY <1>2, <2>1, <2>2 DEF LookupArrives, TabType
  <2>3. CASE c.st # "ok"
    BY <1>2, <2>3 DEF LookupArrives, TabType
  <2> QED
    BY <2>2, <2>3
<1>3. ASSUME NEW c \in calls, ToggleArrives(c) PROVE tab' \in TabType
  <2>1. [tab EXCEPT !.toggling = NoRow.id] \in TabType
    BY RowKinds DEF TabType
  <2> QED
    BY <1>3, <2>1, LoadingType DEF ToggleArrives
<1>4. ASSUME NEW c \in calls, ManualArrives(c) PROVE tab' \in TabType
  <2>1. [tab EXCEPT !.manual = NoRow, !.busy = FALSE] \in TabType
    BY DEF TabType
  <2> QED
    BY <1>4, <2>1, LoadingType DEF ManualArrives
<1>5. ASSUME NEW c \in calls, CancelArrives(c) PROVE tab' \in TabType
  <2>1. [tab EXCEPT !.cancel = NoRow, !.found = {}, !.cancelling = FALSE] \in TabType
    BY DEF TabType
  <2>2. [tab EXCEPT !.cancelling = FALSE] \in TabType
    BY DEF TabType
  <2> QED
    BY <1>5, <2>1, <2>2, LoadingType DEF CancelArrives
<1>6. ASSUME NEW c \in calls, TemplateArrives(c) \/ ApplyArrives(c) PROVE tab' \in TabType
  BY <1>6, LoadingType DEF TemplateArrives, ApplyArrives
<1> QED
  BY <1>1, <1>2, <1>3, <1>4, <1>5, <1>6 DEF Arrive

LEMMA TabClicks ==
    ASSUME tab \in TabType, Click
    PROVE  tab' \in TabType
<1>1. ASSUME NEW d \in Day, SelectDay(d) PROVE tab' \in TabType
  <2>1. [tab EXCEPT !.day = d] \in TabType
    BY DEF TabType
  <2> QED
    BY <1>1, <2>1, LoadingType DEF SelectDay
<1>2. ASSUME NEW row \in tab.rows, Toggle(row) \/ OpenManual(row) \/ OpenCancel(row)
      PROVE  tab' \in TabType
  <2>1. row \in Row /\ row.id \in SlotId
    BY RowKinds DEF TabType
  <2>2. CASE Toggle(row)
    BY <2>1, <2>2 DEF Toggle, TabType
  <2>3. CASE OpenManual(row)
    BY <2>1, <2>3 DEF OpenManual, TabType
  <2>4. CASE OpenCancel(row)
    BY <2>1, <2>4 DEF OpenCancel, TabType
  <2> QED
    BY <1>2, <2>2, <2>3, <2>4
<1>3. ASSUME NEW n, SubmitManual(n) PROVE tab' \in TabType
  BY <1>3 DEF SubmitManual, TabType
<1>4. ASSUME CloseManual PROVE tab' \in TabType
  BY <1>4 DEF CloseManual, TabType
<1>5. ASSUME CloseCancel PROVE tab' \in TabType
  BY <1>5 DEF CloseCancel, TabType
<1>6. ASSUME NEW release, CancelBooking(release) PROVE tab' \in TabType
  BY <1>6 DEF CancelBooking, TabType
<1>7. ASSUME NEW x, NEW y, PickDate(x) \/ AddItem(x) \/ RemoveItem(x) \/ UpdateItem(x, y)
      PROVE  tab' \in TabType
  BY <1>7 DEF PickDate, AddItem, RemoveItem, UpdateItem
<1>8. ASSUME OpenEditor \/ CloseEditor \/ Review \/ Back \/ Apply PROVE tab' \in TabType
  BY <1>8 DEF OpenEditor, CloseEditor, Review, Back, Apply
<1> QED
  BY <1>1, <1>2, <1>3, <1>4, <1>5, <1>6, <1>7, <1>8 DEF Click

(* The editor: what it holds is items, from the answers and the drafts *)
EditorFields == {"open", "loading", "items", "min", "from", "stage", "busy"}

LEMMA EditorMoves ==
    ASSUME CallsOK, EditorOK, Arrive \/ Click
    PROVE  EditorOK'
<1> DEFINE Good(e) == /\ EditorFields = DOMAIN e
                      /\ e.items \subseteq Item
                      /\ e.stage \in {"edit", "confirm", "deletion"}
                      /\ e = [x \in DOMAIN e |-> e[x]]
<1>1. Good(editor) /\ (Good(editor') => EditorOK')
  BY DEF EditorOK, EditorFields
<1>2. ASSUME UNCHANGED editor PROVE EditorOK'
  BY <1>2 DEF EditorOK
<1>3. ASSUME NEW c \in calls, c.st \notin {"sent", "locked"}, TemplateArrives(c) PROVE EditorOK'
  <2>1. c.ans.items \subseteq Item
    BY <1>3 DEF TemplateArrives, CallsOK, CallOK, AnsOK
  <2> QED
    BY <1>1, <1>3, <2>1 DEF TemplateArrives, EditorFields
<1>4. ASSUME NEW c \in calls, ApplyArrives(c) PROVE EditorOK'
  BY <1>1, <1>4 DEF ApplyArrives, EditorFields
<1>5. ASSUME NEW i \in Item, NEW j \in Item, AddItem(i) \/ RemoveItem(i) \/ UpdateItem(i, j)
      PROVE  EditorOK'
  BY <1>1, <1>5 DEF AddItem, RemoveItem, UpdateItem, EditorFields
<1>6. ASSUME NEW d, PickDate(d) PROVE EditorOK'
  BY <1>1, <1>6 DEF PickDate, EditorFields
<1>7. ASSUME OpenEditor PROVE EditorOK'
  BY <1>1, <1>7 DEF OpenEditor, EditorFields
<1>8. ASSUME CloseEditor PROVE EditorOK'
  BY <1>1, <1>8 DEF CloseEditor, EditorFields
<1>9. ASSUME Review \/ Back \/ Apply PROVE EditorOK'
  BY <1>1, <1>9 DEF Review, Back, Apply, EditorFields
<1> HIDE DEF Good
<1>10. ASSUME Arrive PROVE EditorOK'
  BY <1>2, <1>3, <1>4, <1>10 DEF Arrive, DayArrives, ToggleArrives, ManualArrives, LookupArrives,
     CancelArrives
<1>11. ASSUME NEW x, SelectDay(x) \/ Toggle(x) \/ OpenManual(x) \/ OpenCancel(x) \/ SubmitManual(x)
                     \/ CancelBooking(x)
       PROVE  EditorOK'
  BY <1>2, <1>11 DEF SelectDay, Toggle, OpenManual, OpenCancel, SubmitManual, CancelBooking
<1>12. ASSUME CloseManual \/ CloseCancel PROVE EditorOK'
  BY <1>2, <1>12 DEF CloseManual, CloseCancel
<1>13. ASSUME Click PROVE EditorOK'
  BY <1>5, <1>6, <1>7, <1>8, <1>9, <1>11, <1>12, <1>13 DEF Click
<1> QED
  BY <1>10, <1>13

-----------------------------------------------------------------------------
-----------------------------------------------------------------------------
(* The calendar as it begins *)
LEMMA BeganFits ==
    ASSUME NEW ws \in SUBSET Window, NEW taken \in SUBSET ws, NEW p \in Price,
           NEW f \in Numberings(ws, SlotId), Began(taken, p, f), saved \subseteq Item, now = 0
    PROVE  RowsOK /\ LiveIsReserved
<1>1. /\ DOMAIN f = ws /\ \A w \in ws : f[w] \in SlotId
      /\ \A v, w \in ws : f[v] = f[w] => v = w
  BY DEF Numberings
<1>2. ASSUME NEW w \in ws
      PROVE  /\ slot[f[w]] \in Slot /\ slot[f[w]].life = "on"
             /\ w \in taken => slot[f[w]].reserved
  <2>1. (CHOOSE v \in DOMAIN f : f[v] = f[w]) = w
    BY <1>1
  <2>2. PICK v \in WindowType, q \in Nat : v = w /\ q = p
    BY WindowTypes
  <2>3. PICK r : r = Fresh(v, q)
    OBVIOUS
  <2>4. r \in Slot /\ r.life = "on"
    BY <2>3, FreshType
  <2>5. CASE w \in taken
    <3>1. slot[f[w]] = [r EXCEPT !.status = "reserved", !.reserved = TRUE]
      BY <1>1, <2>1, <2>2, <2>3, <2>5 DEF Began
    <3> QED
      BY <2>4, <3>1 DEF Slot, SlotStatus
  <2>6. CASE w \notin taken
    <3>1. slot[f[w]] = r
      BY <1>1, <2>1, <2>2, <2>3, <2>6 DEF Began
    <3> QED
      BY <2>4, <2>6, <3>1
  <2> QED
    BY <2>5, <2>6
<1>3. ASSUME NEW i \in SlotId, \A w \in ws : f[w] # i
      PROVE  slot[i] \in Slot
  BY <1>1, <1>3, AbsentType DEF Began
<1>4. \A b \in Booking : /\ booking[b] \in BookingRow
                         /\ booking[b].status \in Live =>
                               b = 1 /\ \E w \in taken : booking[b].slot = f[w]
  <2> SUFFICES ASSUME NEW b \in Booking
               PROVE  /\ booking[b] \in BookingRow
                      /\ booking[b].status \in Live =>
                            b = 1 /\ \E w \in taken : booking[b].slot = f[w]
    OBVIOUS
  <2>1. CASE taken # {} /\ b = 1
    <3>1. PICK w \in taken : w = CHOOSE v \in taken : TRUE
      BY <2>1
    <3>2. PICK i \in SlotId : i = f[w]
      BY <1>1
    <3>3. booking[b] = [status |-> "confirmed", source |-> "manual", slot |-> i]
      BY <2>1, <3>1, <3>2 DEF Began
    <3> QED
      BY <2>1, <3>2, <3>3 DEF BookingRow, BookingStatus
  <2>2. CASE ~(taken # {} /\ b = 1)
    <3>1. booking[b] = [Gone EXCEPT !.status = "none"]
      BY <2>2 DEF Began
    <3> QED
      BY <3>1 DEF BookingRow, BookingStatus, Gone, Live
  <2> QED
    BY <2>1, <2>2
<1>5. slot \in [SlotId -> Slot]
  <2>1. slot = [i \in SlotId |-> slot[i]]
    BY DEF Began
  <2>2. \A i \in SlotId : slot[i] \in Slot
    BY <1>2, <1>3
  <2> QED
    BY <2>1, <2>2
<1>6. booking \in [Booking -> BookingRow]
  <2>1. booking = [b \in Booking |-> booking[b]]
    BY DEF Began
  <2> QED
    BY <1>4, <2>1
<1>7. RowsOK
  BY <1>1, <1>4, <1>5, <1>6 DEF RowsOK
<1>8. LiveIsReserved
  BY <1>2, <1>4 DEF LiveIsReserved, LiveOn, There
<1> QED
  BY <1>7, <1>8

LEMMA InitSchedule == Init => ScheduleInv
<1> SUFFICES ASSUME Init PROVE ScheduleInv
  OBVIOUS
<1>1. PICK ws \in SUBSET Window, taken \in SUBSET Window, p \in Price :
          /\ taken \subseteq ws
          /\ Numberings(ws, SlotId) # {}
          /\ Began(taken, p, CHOOSE f \in Numberings(ws, SlotId) : TRUE)
  BY DEF Init
<1>2. PICK f \in Numberings(ws, SlotId) : Began(taken, p, f)
  BY <1>1
<1>3. RowsOK /\ LiveIsReserved
  BY <1>1, <1>2, BeganFits DEF Init
<1>4. EditsOK
  BY DEF Init, EditsOK
<1>5. CallsOK
  <2>1. ArgOK("day", [day |-> 1])
    BY DEF ArgOK
  <2>2. CallOK(Call("day", [day |-> 1]))
    BY <2>1, NewCall
  <2> QED
    BY <2>2 DEF Init, CallsOK
<1>6. tab \in TabType
  BY RowKinds DEF Init, FreshTab, TabType
<1>7. EditorOK
  BY DEF Init, FreshEditor, EditorOK
<1> QED
  BY <1>3, <1>4, <1>5, <1>6, <1>7 DEF ScheduleInv, CalendarInv, PageOK

LEMMA StepSchedule == ScheduleInv /\ [Next]_vars => ScheduleInv'
<1> SUFFICES ASSUME ScheduleInv, [Next]_vars PROVE ScheduleInv'
  OBVIOUS
<1> USE DEF ScheduleInv, PageOK
<1>1. CASE UNCHANGED vars
  BY <1>1, RestFits, EndOK DEF vars, server, EditorOK
<1>2. CASE Online
  <2>1. UNCHANGED <<calls, tab, editor>>
    BY <1>2 DEF Online, Book, Confirm, Expire, UserCancel, CreateSlot, EditRead, EditWrite, Tick, page
  <2> QED
    BY <1>2, <2>1, OnlineFits, EndOK DEF EditorOK
<1>3. CASE Serve
  <2>1. UNCHANGED <<tab, editor>>
    BY <1>3 DEF Serve, ServeDay, ServeTemplate, ServeLookup, ToggleRead, ToggleWrite, ServeManual,
       ServeCancel, ServeApply, page
  <2> QED
    BY <1>3, <2>1, ServeFits, ServeCalls DEF EditorOK
<1>4. CASE Arrive
  BY <1>4, ArriveRests, RestFits, ArriveCalls, TabArrives, EditorMoves
<1>5. CASE Click
  BY <1>5, ClickRests, RestFits, ClickCalls, TabClicks, EditorMoves
<1> QED
  BY <1>1, <1>2, <1>3, <1>4, <1>5 DEF Next

LEMMA ScheduleAlways == Spec => []ScheduleInv
BY InitSchedule, StepSchedule, PTL DEF Spec

(* The calendar and the page keep their types. *)
THEOREM ScheduleTypes == Spec => []TypeOK
<1>1. ScheduleInv => TypeOK
  BY DEF ScheduleInv, CalendarInv, RowsOK, BookingRow, PageOK, TabType, EditorOK, EditsOK, TypeOK
<1> QED
  BY <1>1, ScheduleAlways, PTL

(* The slot of a live booking is there and reserved, and has no other live *)
(* booking, also after an update that read it before the booking was made. *)
THEOREM LiveSlotsAreReserved == Spec => []LiveIsReserved
<1>1. ScheduleInv => LiveIsReserved
  BY DEF ScheduleInv, CalendarInv
<1> QED
  BY <1>1, ScheduleAlways, PTL

-----------------------------------------------------------------------------
(* What a step may do to times and prices *)

TimesStay == \A i \in SlotId : /\ slot'[i].life = slot[i].life
                              /\ slot'[i].from = slot[i].from /\ slot'[i].to = slot[i].to
                              /\ slot'[i].price = slot[i].price

(* Only a new slot, an update and a schedule change them. *)
LEMMA Changes ==
    ASSUME ScheduleInv, [Next]_vars
    PROVE  \/ TimesStay
           \/ \E w \in Window, p \in Price : CreateSlot(w, p)
           \/ \E e \in edits : EditWrite(e)
           \/ \E c \in calls : Applies(c) /\ c.st = "sent"
<1> USE DEF ScheduleInv, CalendarInv
<1>1. \A b \in Booking : booking[b].status \in Live => booking[b].slot \in SlotId
  BY DEF RowsOK
<1>2. ASSUME UNCHANGED slot PROVE TimesStay
  BY <1>2 DEF TimesStay
<1>3. ASSUME NEW i \in SlotId, NEW st \in SlotStatus, NEW r \in BOOLEAN,
             slot' = [slot EXCEPT ![i].status = st, ![i].reserved = r]
      PROVE  TimesStay
  BY <1>3, Marked DEF TimesStay
<1>4. ASSUME NEW i \in SlotId, Book(i) PROVE TimesStay
  BY <1>3, <1>4 DEF Book, SlotStatus
<1>5. ASSUME NEW b \in Booking, Confirm(b) \/ Expire(b) \/ UserCancel(b) PROVE TimesStay
  <2>1. booking[b].slot \in SlotId
    BY <1>1, <1>5 DEF Confirm, Expire, UserCancel, Live
  <2>2. \/ UNCHANGED slot
        \/ slot' = [slot EXCEPT ![booking[b].slot].status = "reserved", ![booking[b].slot].reserved = TRUE]
        \/ slot' = [slot EXCEPT ![booking[b].slot].status = "open", ![booking[b].slot].reserved = FALSE]
    BY <1>5 DEF Confirm, Expire, UserCancel
  <2> QED
    BY <1>2, <1>3, <2>1, <2>2 DEF SlotStatus
<1>6. ASSUME NEW i, NEW u, Tick \/ EditRead(i, u) PROVE TimesStay
  BY <1>2, <1>6 DEF Tick, EditRead
<1>7. ASSUME NEW c \in calls, ToggleWrite(c) PROVE TimesStay
  <2>1. c.arg.id \in SlotId /\ Turned(c.arg.next) \in Update
    BY <1>7, TurnedType DEF ToggleWrite, CallsOK, CallOK, ArgOK
  <2>2. PICK i \in SlotId, u \in Update, r \in {c.ans} : i = c.arg.id /\ u = Turned(c.arg.next) /\ r = c.ans
    BY <2>1
  <2>3. slot' = slot \/ slot' = [slot EXCEPT ![i] = Written(i, u, r)]
    BY <1>7, <2>2 DEF ToggleWrite
  <2>4. u.from = NoTime /\ u.to = NoTime /\ u.price = 0
    BY <2>2 DEF Turned
  <2>5. PICK w : w = Written(i, u, r)
    OBVIOUS
  <2>6. w.life = slot[i].life /\ w.from = slot[i].from /\ w.to = slot[i].to
    BY <2>4, <2>5, WrittenFields DEF Put
  <2>7. w.price = slot[i].price
    BY <2>4, <2>5 DEF Written, RowsOK, Slot
  <2> QED
    BY <1>2, <2>3, <2>5, <2>6, <2>7 DEF TimesStay, RowsOK
<1>8. ASSUME NEW c \in calls, ServeManual(c) PROVE TimesStay
  <2>1. \A i \in SlotId : \/ slot'[i] = slot[i]
                          \/ slot'[i] = [slot[i] EXCEPT !.status = "reserved", !.reserved = TRUE]
    BY <1>8 DEF ServeManual
  <2>2. ASSUME NEW r \in Slot, NEW w, w = [r EXCEPT !.status = "reserved", !.reserved = TRUE]
        PROVE  w.life = r.life /\ w.from = r.from /\ w.to = r.to /\ w.price = r.price
    BY <2>2 DEF Slot
  <2>3. \A i \in SlotId : slot[i] \in Slot
    BY DEF RowsOK
  <2> QED
    BY <2>1, <2>2, <2>3 DEF TimesStay
<1>9. ASSUME NEW c \in calls, ServeCancel(c) PROVE TimesStay
  <2> DEFINE i == booking[c.arg.b].slot
  <2>1. CASE UNCHANGED slot
    BY <1>2, <2>1
  <2>2. CASE booking[c.arg.b].status \in Live
    <3>1. i \in SlotId
      BY <1>1, <1>9, <2>2 DEF ServeCancel, CallsOK, CallOK, ArgOK
    <3>2. \/ UNCHANGED slot
          \/ \E st \in {"open", "closed"} :
                slot' = [slot EXCEPT ![i].reserved = FALSE, ![i].status = st]
      BY <1>9 DEF ServeCancel
    <3>3. ASSUME NEW st \in {"open", "closed"},
                 slot' = [slot EXCEPT ![i].reserved = FALSE, ![i].status = st]
          PROVE  TimesStay
      <4>1. slot' = [slot EXCEPT ![i].status = st, ![i].reserved = FALSE]
        BY <3>1, <3>3 DEF RowsOK, Slot
      <4> QED
        BY <1>3, <3>1, <4>1 DEF SlotStatus
    <3> QED
      BY <1>2, <3>2, <3>3
  <2> QED
    BY <1>9, <2>1, <2>2 DEF ServeCancel
<1>10. ASSUME UNCHANGED vars \/ Arrive \/ Click PROVE TimesStay
  BY <1>2, <1>10, ArriveRests, ClickRests DEF vars, server
<1>11. ASSUME Serve PROVE TimesStay \/ \E c \in calls : Applies(c) /\ c.st = "sent"
  <2>1. PICK c \in calls : Serves(c)
    BY <1>11, ServeKinds
  <2> QED
    BY <1>2, <1>7, <1>8, <1>9, <2>1 DEF Serves, server
<1> QED
  BY <1>4, <1>5, <1>6, <1>10, <1>11 DEF Next, Online

-----------------------------------------------------------------------------
(* Slots apart *)

Apart ==
    \A i, j \in SlotId : i # j /\ Meeting(slot', i, j) =>
        \/ Meeting(slot, i, j)
        \/ \E k \in {i, j} : \E e \in Writes(k) :
               <<e.read.from, e.read.to>> # <<slot[k].from, slot[k].to>>
        \/ /\ slot'[i].from[1] # slot'[j].from[1]
           /\ \E c \in calls \ calls' : c.kind = "apply" /\ c.st = "sent"

LEMMA MeetingSym == \A rows, i, j : Meeting(rows, i, j) <=> Meeting(rows, j, i)
BY DEF Meeting, Meet

(* Two slots that were there with their times do not come to meet. *)
LEMMA Stand ==
    ASSUME NEW i, NEW j, Meeting(slot', i, j),
           \A k \in {i, j} : There(k) /\ slot'[k].from = slot[k].from /\ slot'[k].to = slot[k].to
    PROVE  Meeting(slot, i, j)
BY DEF Meeting, Meet, There

(* A single slot that comes into or changes its place meets no other. *)
LEMMA OneComes ==
    ASSUME NEW k \in SlotId, \A j \in SlotId \ {k} : slot'[j] = slot[j],
           ~HasOverlap([from |-> slot'[k].from, to |-> slot'[k].to], {k}),
           NEW i \in SlotId, NEW j \in SlotId, i # j, Meeting(slot', i, j)
    PROVE  Meeting(slot, i, j)
<1>1. ASSUME NEW l \in SlotId \ {k} PROVE ~Meeting(slot', k, l)
  <2>1. slot'[l] = slot[l]
    OBVIOUS
  <2>2. There(l) => ~Meet(Times(l), [from |-> slot'[k].from, to |-> slot'[k].to])
    BY DEF HasOverlap
  <2> QED
    BY <2>1, <2>2 DEF Meeting, Meet, Times, There
<1>2. i # k /\ j # k
  BY <1>1, MeetingSym
<1> QED
  BY <1>2 DEF Meeting

LEMMA CreateApart ==
    ASSUME ScheduleInv, NEW w \in Window, NEW p \in Price, CreateSlot(w, p)
    PROVE  Apart
<1>1. PICK k \in Unused : slot' = [slot EXCEPT ![k] = Fresh(w, p)]
  BY DEF CreateSlot
<1>2. k \in SlotId /\ slot'[k].from = w.from /\ slot'[k].to = w.to
      /\ \A j \in SlotId \ {k} : slot'[j] = slot[j]
  BY <1>1, WindowTypes, FreshType DEF Unused, ScheduleInv, CalendarInv, RowsOK
<1>3. w = [from |-> slot'[k].from, to |-> slot'[k].to]
  BY <1>2, WindowTypes DEF WindowType
<1>4. ~HasOverlap([from |-> slot'[k].from, to |-> slot'[k].to], {k})
  BY <1>3 DEF CreateSlot, HasOverlap
<1> QED
  BY <1>2, <1>4, OneComes DEF Apart

(* An update whose slot has the times it read puts it where it looked. *)
LEMMA EditApart ==
    ASSUME ScheduleInv, NEW e \in edits, EditWrite(e)
    PROVE  Apart
<1>1. e \in edits \ edits'
  BY DEF EditWrite
<1>2. PICK k \in SlotId, u \in Update, r \in Slot : k = e.id /\ u = e.set /\ r = e.read
  BY UpdateType DEF ScheduleInv, CalendarInv, EditsOK
<1>3. CASE UNCHANGED slot
  BY <1>3 DEF Apart
<1>4. CASE Accepted(k, u, r) /\ slot' = [slot EXCEPT ![k] = Written(k, u, r)]
  <2>1. /\ slot'[k].from = Put(u.from, r.from, slot[k].from)
        /\ slot'[k].to = Put(u.to, r.to, slot[k].to)
        /\ \A j \in SlotId \ {k} : slot'[j] = slot[j]
    BY <1>4, WrittenFields DEF ScheduleInv, CalendarInv, RowsOK
  <2>2. CASE <<r.from, r.to>> = <<slot[k].from, slot[k].to>>
    <3>1. Merged(u, r) = [from |-> slot'[k].from, to |-> slot'[k].to]
      BY <2>1, <2>2 DEF Merged, Given, Put
    <3>2. ~HasOverlap([from |-> slot'[k].from, to |-> slot'[k].to], {k})
      BY <1>4, <3>1 DEF Accepted
    <3> QED
      BY <2>1, <3>2, OneComes DEF Apart
  <2>3. CASE <<r.from, r.to>> # <<slot[k].from, slot[k].to>>
    <3>1. e \in Writes(k)
      BY <1>1, <1>2 DEF Writes
    <3>2. ASSUME NEW i \in SlotId, NEW j \in SlotId, i # j, Meeting(slot', i, j), k \notin {i, j}
          PROVE  Meeting(slot, i, j)
      BY <2>1, <3>2 DEF Meeting
    <3> QED
      BY <1>2, <2>3, <3>1, <3>2 DEF Apart
  <2> QED
    BY <2>2, <2>3
<1> QED
  BY <1>2, <1>3, <1>4 DEF EditWrite

(* A slot that starts on a day of the schedule is one that it asks for. *)
LEMMA Placed ==
    ASSUME CalendarInv, NEW c, ArgOK(c.kind, c.arg), c.kind = "apply",
           NEW f \in Numberings(Missing(c.arg.items, c.arg.from), Unused),
           slot' = Rescheduled(c.arg.items, c.arg.from, f),
           NEW i \in SlotId, slot'[i].life = "on",
           slot'[i].from[1] \in Day, slot'[i].from[1] >= c.arg.from
    PROVE  \E v \in Desired(c.arg.items, c.arg.from) :
              /\ v.from = slot'[i].from /\ v.to = slot'[i].to
              /\ \/ i \in InRange(c.arg.from) /\ Times(i) = v
                 \/ v \in Missing(c.arg.items, c.arg.from) /\ f[v] = i /\ ~There(i)
<1> DEFINE items == c.arg.items
           from  == c.arg.from
<1>1. CASE /\ i \notin Retired(items, from) /\ There(i)
           /\ slot'[i].from = slot[i].from /\ slot'[i].to = slot[i].to
  <2>1. i \in InRange(from)
    BY <1>1 DEF InRange
  <2>2. Times(i) \in Desired(items, from)
    BY <1>1, <2>1 DEF Retired
  <2> QED
    BY <1>1, <2>1, <2>2 DEF Times
<1>2. CASE /\ ~There(i)
           /\ \E w \in Missing(items, from) :
                  f[w] = i /\ slot'[i].from = w.from /\ slot'[i].to = w.to
  BY <1>2 DEF Missing
<1> QED
  BY <1>1, <1>2, AppliedTo DEF There

LEMMA ApplyApart ==
    ASSUME ScheduleInv, NEW c \in calls, Applies(c), c.st = "sent"
    PROVE  Apart
<1> DEFINE items == c.arg.items
           from  == c.arg.from
<1>1. PICK f \in Numberings(Missing(items, from), Unused) : slot' = Rescheduled(items, from, f)
  BY DEF Applies
<1>2. /\ CalendarInv /\ ArgOK(c.kind, c.arg) /\ c.kind = "apply" /\ c \in calls \ calls'
      /\ items \in SUBSET Item /\ Consistent(items)
  BY DEF ScheduleInv, CallsOK, CallOK, ArgOK, Applies
<1> SUFFICES ASSUME NEW i \in SlotId, NEW j \in SlotId, i # j, Meeting(slot', i, j),
                    slot'[i].from[1] = slot'[j].from[1], ~Meeting(slot, i, j)
             PROVE  FALSE
  BY <1>2 DEF Apart
<1>3. slot'[i].life = "on" /\ slot'[j].life = "on" /\ Meet(slot'[i], slot'[j])
  BY DEF Meeting
<1>4. ASSUME NEW k \in SlotId, slot'[k].life = "on"
      PROVE  \/ There(k) /\ slot'[k].from = slot[k].from /\ slot'[k].to = slot[k].to
             \/ \E w \in Missing(items, from) : slot'[k].from = w.from
  BY <1>1, <1>2, <1>4, AppliedTo DEF There
<1>5. PICK w \in Missing(items, from) : slot'[i].from = w.from \/ slot'[j].from = w.from
  BY <1>3, <1>4, Stand
<1>6. w.from[1] \in Day /\ w.from[1] >= from
  BY <1>2, AskedFor DEF Missing
<1>7. /\ slot'[i].from[1] \in Day /\ slot'[i].from[1] >= from
      /\ slot'[j].from[1] \in Day /\ slot'[j].from[1] >= from
  BY <1>5, <1>6
<1>8. PICK v \in Desired(items, from) :
         /\ v.from = slot'[i].from /\ v.to = slot'[i].to
         /\ \/ i \in InRange(from) /\ Times(i) = v
            \/ v \in Missing(items, from) /\ f[v] = i /\ ~There(i)
  BY <1>1, <1>2, <1>3, <1>7, Placed
<1>9. PICK u \in Desired(items, from) :
         /\ u.from = slot'[j].from /\ u.to = slot'[j].to
         /\ \/ j \in InRange(from) /\ Times(j) = u
            \/ u \in Missing(items, from) /\ f[u] = j /\ ~There(j)
  BY <1>1, <1>2, <1>3, <1>7, Placed
<1>10. u # v
  <2>1. CASE i \in InRange(from) /\ j \in InRange(from)
    <3>1. \A k \in {i, j} : /\ There(k) /\ slot'[k].from = slot[k].from
                            /\ slot'[k].to = slot[k].to
      BY <1>8, <1>9, <2>1 DEF InRange, Times
    <3> QED
      BY <3>1, Stand
  <2>2. CASE ~(i \in InRange(from) /\ j \in InRange(from))
    BY <1>8, <1>9, <2>2 DEF Missing
  <2> QED
    BY <2>1, <2>2
<1>11. ~Meet(v, u)
  BY <1>2, <1>8, <1>9, <1>10, OneDay
<1> QED
  BY <1>3, <1>8, <1>9, <1>11 DEF Meet

LEMMA StepApart == ScheduleInv /\ [Next]_vars => Apart
<1> SUFFICES ASSUME ScheduleInv, [Next]_vars PROVE Apart
  OBVIOUS
<1>1. ASSUME TimesStay PROVE Apart
  BY <1>1 DEF Apart, TimesStay, Meeting, Meet
<1> QED
  BY <1>1, Changes, CreateApart, EditApart, ApplyApart

(* No step brings two slots of a vendor to one time, however single slots, *)
(* updates and schedules are applied over each other (has_overlap,         *)
(* apply_weekly_schedule), save an update whose slot was moved after it    *)
(* was read, and a schedule's slot against one of another operational day. *)
THEOREM SlotsAreApart == Spec => NoOverlap
<1>1. ScheduleInv /\ [Next]_vars => [Apart]_vars
  BY StepApart
<1>2. [][Apart]_vars <=> NoOverlap
  BY DEF NoOverlap, Apart
<1> QED
  BY <1>1, <1>2, ScheduleAlways, PTL DEF Spec

-----------------------------------------------------------------------------
(* Booked slots *)

Kept ==
    \A b \in Booking : booking[b].status \in Live =>
        LET i == booking[b].slot
        IN  \/ Stays(i, {slot[i].from}, {slot[i].to}, {slot[i].price})
            \/ \E e \in Writes(i) :
                  /\ ~e.read.reserved
                  /\ Stays(i, {slot[i].from, e.set.from}, {slot[i].to, e.set.to},
                           {slot[i].price, e.set.price})
            \/ /\ booking[b].source = "manual"
               /\ \E c \in calls : c.kind = "apply" /\ c.arg.confirmed

(* The update of a booked slot read it free, and gives what it says.       *)
LEMMA EditKeeps ==
    ASSUME ScheduleInv, NEW e \in edits, EditWrite(e)
    PROVE  Kept
<1>1. e \in edits \ edits'
  BY DEF EditWrite
<1>2. PICK k \in SlotId, u \in Update, r \in Slot :
         k = e.id /\ u = e.set /\ r = e.read /\ ~r.reserved
  BY UpdateType DEF ScheduleInv, CalendarInv, EditsOK
<1> SUFFICES ASSUME NEW b \in Booking, booking[b].status \in Live, NEW i, i = booking[b].slot
             PROVE  \/ Stays(i, {slot[i].from}, {slot[i].to}, {slot[i].price})
                    \/ /\ e \in Writes(i)
                       /\ Stays(i, {slot[i].from, u.from}, {slot[i].to, u.to},
                                {slot[i].price, u.price})
  BY <1>2 DEF Kept
<1>3. i \in SlotId /\ slot[i].life = "on"
  BY DEF ScheduleInv, CalendarInv, RowsOK, LiveIsReserved, LiveOn, There
<1>4. CASE slot'[i] = slot[i]
  BY <1>3, <1>4 DEF Stays
<1>5. CASE i = k /\ slot' = [slot EXCEPT ![k] = Written(k, u, r)]
  <2>1. PICK w : w = Written(k, u, r)
    OBVIOUS
  <2>2. slot'[i] = w
    BY <1>5, <2>1 DEF ScheduleInv, CalendarInv, RowsOK
  <2>3. /\ w.life = slot[i].life /\ w.from \in {slot[i].from, u.from}
        /\ w.to \in {slot[i].to, u.to} /\ w.price \in {slot[i].price, u.price}
    BY <1>5, <2>1, WrittenFields DEF ScheduleInv, CalendarInv
  <2>4. e \in Writes(i)
    BY <1>1, <1>2, <1>5 DEF Writes
  <2> QED
    BY <1>3, <2>2, <2>3, <2>4 DEF Stays
<1>6. slot' = slot \/ slot' = [slot EXCEPT ![k] = Written(k, u, r)]
  BY <1>2 DEF EditWrite
<1>7. slot'[i] = slot[i] \/ (i = k /\ slot' = [slot EXCEPT ![k] = Written(k, u, r)])
  BY <1>3, <1>6 DEF ScheduleInv, CalendarInv, RowsOK
<1> QED
  BY <1>4, <1>5, <1>7

(* A schedule retires a booked slot only with a manual booking on it and   *)
(* the manager's confirmation, and changes none.                           *)
LEMMA ApplyKeeps ==
    ASSUME ScheduleInv, NEW c \in calls, Applies(c)
    PROVE  Kept
<1> SUFFICES ASSUME NEW b \in Booking, booking[b].status \in Live, NEW i, i = booking[b].slot
             PROVE  \/ slot'[i] = slot[i] /\ slot[i].life = "on"
                    \/ /\ booking[b].source = "manual"
                       /\ c.kind = "apply" /\ c.arg.confirmed
  BY DEF Kept, Stays
<1>1. CalendarInv /\ ArgOK(c.kind, c.arg) /\ c.kind = "apply"
  BY DEF ScheduleInv, CallsOK, CallOK, Applies
<1>2. i \in SlotId /\ b \in LiveOn(i)
  BY <1>1 DEF CalendarInv, RowsOK, LiveOn
<1>3. There(i) /\ Protected(i) /\ \A a \in LiveOn(i) : a = b
  BY <1>1, <1>2 DEF CalendarInv, LiveIsReserved, Protected
<1>4. CASE i \in Retired(c.arg.items, c.arg.from)
  <2>1. Manual(i) /\ c.arg.confirmed
    BY <1>3, <1>4 DEF Applies
  <2> QED
    BY <1>1, <1>3, <2>1 DEF Manual
<1>5. CASE i \notin Retired(c.arg.items, c.arg.from)
  <2>1. PICK f \in Numberings(Missing(c.arg.items, c.arg.from), Unused) :
           slot' = Rescheduled(c.arg.items, c.arg.from, f)
    BY DEF Applies
  <2> QED
    BY <1>1, <1>2, <1>3, <1>5, <2>1, AppliedTo DEF There
<1> QED
  BY <1>4, <1>5

LEMMA StepKeeps == ScheduleInv /\ [Next]_vars => Kept
<1> SUFFICES ASSUME ScheduleInv, [Next]_vars PROVE Kept
  OBVIOUS
<1>1. \A b \in Booking : booking[b].status \in Live =>
          booking[b].slot \in SlotId /\ slot[booking[b].slot].life = "on"
  BY DEF ScheduleInv, CalendarInv, RowsOK, LiveIsReserved, LiveOn, There
<1>2. ASSUME TimesStay PROVE Kept
  BY <1>1, <1>2 DEF Kept, Stays, TimesStay
<1>3. ASSUME NEW w, NEW p, CreateSlot(w, p) PROVE Kept
  <2>1. PICK k \in Unused : slot' = [slot EXCEPT ![k] = Fresh(w, p)]
    BY <1>3 DEF CreateSlot
  <2>2. \A i \in SlotId : slot[i].life = "on" => slot'[i] = slot[i]
    BY <2>1 DEF Unused, ScheduleInv, CalendarInv, RowsOK
  <2> QED
    BY <1>1, <2>2 DEF Kept, Stays
<1> QED
  BY <1>2, <1>3, Changes, EditKeeps, ApplyKeeps

(* While a booking is live its slot is neither repriced, moved nor         *)
(* deleted, save a manual booking's by a schedule the manager confirmed    *)
(* (is_protected), and by an update that read the slot before it was taken *)
(* and gives it what it asks for, nothing else.                            *)
THEOREM BookedSlotsAreKept == Spec => BookedIsKept
<1>1. ScheduleInv /\ [Next]_vars => [Kept]_vars
  BY StepKeeps
<1>2. [][Kept]_vars <=> BookedIsKept
  BY DEF BookedIsKept, Kept
<1> QED
  BY <1>1, <1>2, ScheduleAlways, PTL DEF Spec
=============================================================================
