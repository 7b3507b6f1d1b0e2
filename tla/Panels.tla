------------------------------- MODULE Panels -------------------------------
(***************************************************************************)
(* The pages that show a list, or one record, and change rows of it        *)
(* (frontend/app, components), with the lists of the API behind them and   *)
(* their cache in Redis (backend/app/services/cache_service.py).           *)
(*                                                                         *)
(* The pages repeat one pattern.  A search box with a delay, filters and a *)
(* pager decide what is asked for.  An answer is shown when it comes,      *)
(* whatever it answers.  A button of a row, a dialog opened from it or a   *)
(* form sends a write, and then the row is patched, or the list is asked   *)
(* again with the filters of the moment of the click.  The pattern is      *)
(* modelled once, and what a page does in its own way is data: PageKinds   *)
(* says how it asks, what it offers, what its handlers and dialogs do.     *)
(*                                                                         *)
(* The content of a row is a set of items: {} for what is off or not       *)
(* decided, {1} for what is on or approved, others for what is edited.     *)
(* Row 1 is the one the search box finds.                                  *)
(*                                                                         *)
(* Which answers are old is history: `late` marks rows that were read      *)
(* before others were committed, in a request or in the cache.             *)
(***************************************************************************)
EXTENDS Naturals, FiniteSets, PageKinds

CONSTANTS
    MaxRow,     \* bound: rows there may be
    Call,       \* requests of the page that are in flight at the same time
    MaxClicks,  \* bound: what the user does
    MaxOther    \* bound: what others do

ASSUME PanelsAssumption ==
    /\ MaxRow \in Nat \ {0}
    /\ Call \subseteq Nat \ {0} /\ Call # {}
    /\ MaxClicks \in Nat
    /\ MaxOther \in Nat

VARIABLES
    page,       \* the page that is shown
    rows,       \* in the database
    cache,      \* admin_list:{prefix}:{params} in Redis
    query,      \* the search box, the filters and the pager
    shown,      \* the list as the page has it
    dialog,     \* the dialog, or the form
    busy,       \* the rows for which a flag disables buttons
    calls,      \* requests in flight
    used,       \* clicks, and acts of others
    newest,     \* history: the list that was asked for last, while it is
                \* in flight; 0 when it was shown
    crossed     \* history: one of the races of ShownIsTrue happened, and no
                \* list that is as new was shown since

vars == <<page, rows, cache, query, shown, dialog, busy, calls, used, newest, crossed>>

Row     == 1..MaxRow
Item    == {1, 2}
Content == SUBSET Item
RowRec  == [there : BOOLEAN, val : Content]
Nothing == [there |-> FALSE, val |-> {}]

(* What a request for the list names: the text in the search box, the      *)
(* filter and the page.                                                    *)
Key == [name : BOOLEAN, open : BOOLEAN, from : 0..(MaxRow - 1)]

List  == [rows : [Row -> RowRec], total : 0..MaxRow]
Empty == [rows |-> [r \in Row |-> Nothing], total |-> 0]

(* Before a page is opened. *)
NoPage == "none"
This   == Pages[page]
-----------------------------------------------------------------------------
(* What the database answers, what the browser shows *)

Flag == {"row", "dialog", "other"}

NoOp   == [does |-> "nothing", via |-> "none"]
NoCall == [at |-> "idle"]
NoKey  == [name |-> FALSE, open |-> FALSE, from |-> 0]
Reloads(o) == o.after \in {"reload", "await", "cut", "later"}
Ops    == This.ops
Forms  == {o \in Ops : o.via = "form"}
Free   == {c \in Call : calls[c] = NoCall}
InFlight == Call \ Free

(* The part of the query that the fetch of the page depends on. *)
Asked(q) ==
    [name |-> This.asks.search = "server" /\ q.name,
     open |-> This.filter.by = "fixed" \/ (This.filter.by = "server" /\ q.open),
     from |-> IF This.asks.pager = "none" THEN 0 ELSE q.from]

(* The part of S that page `from` of the list holds: a page is one row.   *)
Cut(S, from) == {r \in S : Cardinality({s \in S : s < r}) = from}

Listed(table, S, total) ==
    [rows  |-> [r \in Row |-> IF r \in S THEN table[r] ELSE Nothing],
     total |-> total]

(* What the API answers: the rows that match, in order, cut to the page.   *)
Answer(key) ==
    LET found == {r \in Row : /\ rows[r].there
                              /\ key.name => r = 1
                              /\ key.open => rows[r].val = {}}
    IN  IF This.asks.pager = "none" THEN Listed(rows, found, Cardinality(found))
        ELSE Listed(rows, Cut(found, key.from), Cardinality(found))

(* The rows the browser shows of what it has: it may search, filter and    *)
(* cut once more.                                                          *)
View(list, q) ==
    LET kept == {r \in Row : /\ list.rows[r].there
                             /\ (This.asks.search \in {"client", "direct"} /\ q.name) => r = 1
                             /\ (This.filter.by = "client" /\ q.open) => list.rows[r].val = {}}
    IN  IF This.asks.pager = "both" THEN Cut(kept, q.from) ELSE kept

(* How many pages the pager offers: the browser that cuts what it was sent *)
(* counts no more than that.                                               *)
LastPage ==
    IF This.asks.pager # "server" \/ shown.list.total = 0 THEN 0
    ELSE shown.list.total - 1

-----------------------------------------------------------------------------
(* Asking for the list *)

ListCall(key, holds) ==
    [at |-> "sent", kind |-> "list", key |-> key, list |-> Empty, late |-> FALSE,
     holds |-> holds]

(* A request starts. *)
Start(c, call) ==
    /\ \A d \in Free : c <= d
    /\ calls' = [calls EXCEPT ![c] = call]

Click == used.click < MaxClicks /\ used' = [used EXCEPT !.click = @ + 1]

(* The query changes: the fetch runs again when it depends on the change.  *)
Requery(q) ==
    /\ query' = q
    /\ IF Asked(q) = Asked(query) \/ This.asks.error = "blank"
       THEN UNCHANGED <<calls, shown, newest>>
       ELSE \E c \in Free :
               /\ Start(c, ListCall(Asked(q), "none"))
               /\ shown' = [shown EXCEPT !.loading = TRUE]
               /\ newest' = c
    /\ UNCHANGED crossed

(* The user types: the first page comes back now or after the delay; one   *)
(* page filters as it is typed.                                            *)
Type ==
    /\ This.asks.search # "none"
    /\ Click
    /\ Requery([query EXCEPT !.typed = ~@,
                             !.timer = This.asks.search # "direct",
                             !.name  = IF This.asks.search = "direct" THEN ~query.typed ELSE @,
                             !.from  = IF This.asks.resets = "typing" THEN 0 ELSE @])
    /\ UNCHANGED <<page, rows, cache, dialog, busy>>

Debounce ==
    /\ query.timer
    /\ Requery([query EXCEPT !.timer = FALSE, !.name = query.typed,
                             !.from  = IF This.asks.resets = "debounce" THEN 0 ELSE @])
    /\ UNCHANGED <<page, rows, cache, dialog, busy, used>>

SelectFilter ==
    /\ This.filter.by \in {"server", "client"}
    /\ Click
    /\ Requery([query EXCEPT !.open = ~@, !.from = IF This.filter.resets THEN 0 ELSE @])
    /\ UNCHANGED <<page, rows, cache, dialog, busy>>

TurnPage(to) ==
    /\ to # query.from
    /\ to <= LastPage
    /\ ~shown.loading
    /\ Click
    /\ Requery([query EXCEPT !.from = to])
    /\ UNCHANGED <<page, rows, cache, dialog, busy>>

Listing(c) == calls[c] # NoCall /\ calls[c].kind = "list"

(* A write is committed and the lists in Redis are not dropped yet. *)
Undropped == \E c \in InFlight : calls[c].at = "committed"

(* get_cached_admin_list finds the list in Redis. *)
ServeCached(c) ==
    /\ Listing(c)
    /\ calls[c].at = "sent"
    /\ \E entry \in cache :
          /\ entry.key = calls[c].key
          /\ calls' = [calls EXCEPT ![c].at = "answered", ![c].list = entry.list,
                                    ![c].late = entry.late \/ Undropped]
    /\ UNCHANGED <<page, rows, cache, query, shown, dialog, busy, used, newest, crossed>>

(* The list is read; a list that is cached is stored afterwards. *)
ReadRows(c) ==
    /\ Listing(c)
    /\ calls[c].at = "sent"
    /\ \A entry \in cache : entry.key # calls[c].key
    /\ calls' = [calls EXCEPT ![c].at = IF This.asks.cached THEN "read" ELSE "answered",
                              ![c].list = Answer(calls[c].key)]
    /\ UNCHANGED <<page, rows, cache, query, shown, dialog, busy, used, newest, crossed>>

StoreList(c) ==
    /\ Listing(c)
    /\ calls[c].at = "read"
    /\ cache' = {e \in cache : e.key # calls[c].key}
                    \cup {[key |-> calls[c].key, list |-> calls[c].list,
                           late |-> calls[c].late]}
    /\ calls' = [calls EXCEPT ![c].at = "answered"]
    /\ UNCHANGED <<page, rows, query, shown, dialog, busy, used, newest, crossed>>

Release(b, flag) == IF flag = "none" THEN b ELSE [b EXCEPT ![flag] = {}]

(* What was asked for last is over. *)
Over(c) == newest' = IF newest = c THEN 0 ELSE newest

(* An answer is shown whenever it comes.  A form takes its fields from it. *)
ShowList(c) ==
    /\ Listing(c)
    /\ calls[c].at = "answered"
    /\ shown' = [list |-> calls[c].list, loading |-> FALSE]
    /\ dialog' = IF \E o \in Forms : dialog.op = o
                 THEN [dialog EXCEPT !.val = calls[c].list.rows[1].val, !.edited = FALSE]
                 ELSE dialog
    /\ busy' = Release(busy, calls[c].holds)
    /\ calls' = [calls EXCEPT ![c] = NoCall]
    /\ Over(c)
    /\ crossed' = IF newest = c THEN calls[c].late \/ calls[c].key # Asked(query)
                  ELSE crossed \/ newest = 0
    /\ UNCHANGED <<page, rows, cache, query, used>>

(* A list that fails leaves what was there, empties the rows, or is        *)
(* replaced by a card that says so.                                        *)
ListFails(c) ==
    /\ Listing(c)
    /\ calls[c].at = "sent"
    /\ shown' = [list |-> IF This.asks.error = "keep" THEN shown.list
                          ELSE [shown.list EXCEPT !.rows = Empty.rows],
                 loading |-> FALSE]
    /\ busy' = Release(busy, calls[c].holds)
    /\ calls' = [calls EXCEPT ![c] = NoCall]
    /\ Over(c)
    /\ crossed' = (crossed \/ newest = c \/ (newest = 0 /\ This.asks.error # "keep"))
    /\ UNCHANGED <<page, rows, cache, query, dialog, used>>

-----------------------------------------------------------------------------
(* Writing *)

(* What a control sends: the opposite of what is shown, what the dialog    *)
(* holds, or one of two decisions.                                         *)
Sends(o, r) ==
    CASE o.does = "put" /\ o.via = "button" ->
             {IF shown.list.rows[r].val = {} THEN {1} ELSE {}}
      [] o.does = "put" /\ o.via # "button"      -> {dialog.val}
      [] o.does = "none" /\ o.after = "append"   -> {dialog.val}
      [] o.does = "decide" -> {{1}, {2}}
      [] o.does = "accept" -> {{1}}
      [] OTHER             -> {{}}

(* Of a row with what content a control is offered. *)
Offers(o, r) ==
    /\ r \in View(shown.list, query)
    /\ o.offered = "open" => shown.list.rows[r].val = {}
    /\ o.offered = "taken" => shown.list.rows[r].val # {}

Enabled(o, r) == o.guarded /\ o.flag # "none" => r \notin busy[o.flag]

WriteCall(o, r, val) ==
    [at |-> "sent", kind |-> "write", op |-> o, row |-> r, val |-> val, late |-> FALSE,
     key |-> IF Reloads(o) THEN Asked(query) ELSE NoKey,
     place |-> IF o.does = "place"
               THEN Cardinality({s \in Row : s < r /\ shown.list.rows[s].there}) ELSE 0]

Writing(c) == calls[c] # NoCall /\ calls[c].kind = "write"

(* The handler starts: its flag is set, its request goes out. *)
Send(o, r) ==
    /\ \E c \in Free, val \in Sends(o, r) : Start(c, WriteCall(o, r, val))
    /\ crossed' = (crossed \/ (/\ o \in Forms
                               /\ \E c \in Call : Writing(c) /\ calls[c].op \in Forms))
    /\ busy' = IF o.flag = "none" THEN busy ELSE [busy EXCEPT ![o.flag] = {r}]

Closed == [op |-> NoOp, row |-> 0, val |-> {}, edited |-> FALSE]

(* A button of a row, or one above the list. *)
Press(o, r) ==
    /\ o.via \in {"button", "top"}
    /\ o.via = "button" => Offers(o, r)
    /\ o.via = "top" => r = 1
    /\ dialog.op.via = "form" \/ dialog = Closed
    /\ ~shown.loading
    /\ Enabled(o, r)
    /\ Click
    /\ Send(o, r)
    /\ UNCHANGED <<page, rows, cache, query, shown, dialog, newest>>

OpenDialog(o, r) ==
    /\ o.via \in {"dialog", "alert", "inline"}
    /\ IF o.does \in {"add", "join"} THEN r = 1 ELSE Offers(o, r)
    /\ IF o.via = "inline" THEN dialog.row # r ELSE dialog = Closed
    /\ ~shown.loading
    /\ dialog' = [op |-> o, row |-> r, val |-> shown.list.rows[r].val, edited |-> FALSE]
    /\ UNCHANGED <<page, rows, cache, query, shown, busy, calls, newest, crossed, used>>

(* The fields are not disabled while the form is being saved. *)
Edit(i) ==
    /\ dialog.op.does = "put"
    /\ dialog' = [dialog EXCEPT !.val = IF i \in @ THEN @ \ {i} ELSE @ \cup {i},
                                !.edited = TRUE]
    /\ UNCHANGED <<page, rows, cache, query, shown, busy, calls, newest, crossed, used>>

(* The button of the dialog.  An alert closes with its button on a desktop,*)
(* and stays on a phone.                                                   *)
Confirm ==
    /\ dialog # Closed
    /\ LET o == dialog.op IN
         /\ o.guarded /\ o.flag # "none" => busy[o.flag] = {}
         /\ o.via = "form" => ~shown.loading
         /\ Click
         /\ Send(o, dialog.row)
         /\ \E closes \in BOOLEAN :
              /\ closes => o.via = "alert"
              /\ dialog' = IF closes \/ o.shuts = "click" THEN Closed
                           ELSE [dialog EXCEPT !.edited = FALSE]
    /\ UNCHANGED <<page, rows, cache, query, shown, newest>>

(* Mutant: a dialog that closes resets its flag. *)
CloseAndReset ==
    /\ dialog # Closed
    /\ dialog.op.via # "form"
    /\ dialog.op.locks => busy[dialog.op.flag] = {}
    /\ dialog' = Closed
    /\ busy' = Release(busy, dialog.op.flag)
    /\ UNCHANGED <<page, rows, cache, query, shown, calls, newest, crossed, used>>

(* Cancel, Escape or a click outside: most dialogs close while they wait.  *)
CloseDialog ==
    /\ dialog # Closed
    /\ dialog.op.via # "form"
    /\ dialog.op.locks => busy[dialog.op.flag] = {}
    /\ dialog' = Closed
    /\ UNCHANGED <<page, rows, cache, query, shown, busy, calls, newest, crossed, used>>

(* What the API refuses: a row that is gone, one that is decided.          *)
Accepted(call) ==
    CASE call.op.does \in {"put", "flip", "remove"}     -> rows[call.row].there
      [] call.op.does \in {"decide", "accept", "reject"} ->
             rows[call.row].there /\ rows[call.row].val = {}
      [] call.op.does = "clear" -> rows[call.row].there /\ rows[call.row].val # {}
      [] call.op.does = "add"   -> \E r \in Row : ~rows[r].there
      [] call.op.does = "join"  -> ~rows[call.row].there
      [] call.op.does = "place" -> \E r \in Row : rows[r].there
      [] OTHER -> TRUE

(* The rows after the write. *)
Written(call) ==
    LET r == call.row IN
    CASE call.op.does \in {"put", "decide", "accept", "clear"} -> [rows EXCEPT ![r].val = call.val]
      [] call.op.does = "flip" -> [rows EXCEPT ![r].val = IF @ = {} THEN {1} ELSE {}]
      [] call.op.does \in {"remove", "reject"} -> [rows EXCEPT ![r] = Nothing]
      [] call.op.does = "join" -> [rows EXCEPT ![r] = [there |-> TRUE, val |-> {}]]
      [] call.op.does = "all"  -> [s \in Row |-> IF rows[s].there
                                                THEN [rows[s] EXCEPT !.val = {1}] ELSE rows[s]]
      [] call.op.does = "add"  ->
             LET new == CHOOSE s \in Row : ~rows[s].there /\ \A t \in Row : ~rows[t].there => s <= t
             IN  [rows EXCEPT ![new] = [there |-> TRUE, val |-> {}]]
      [] call.op.does = "place" ->
             [s \in Row |-> IF rows[s].there
                               /\ Cardinality({t \in Row : t < s /\ rows[t].there}) = call.place
                            THEN Nothing ELSE rows[s]]
      [] OTHER -> rows

Outcome(c, at) == calls' = [calls EXCEPT ![c].at = at]

(* The rows that request d carries are older than the table: those of a    *)
(* list that was read, or the one that a write has left.                   *)
Overtaken(d, table) ==
    \/ /\ Listing(d)
       /\ calls[d].at \in {"read", "answered"}
       /\ table # rows
    \/ /\ Writing(d)
       /\ calls[d].at \in {"committed", "done"}
       /\ IF calls[d].op.does = "all" THEN table # rows
          ELSE table[calls[d].row] # rows[calls[d].row]

Aged(table) == [d \in Call |-> IF Overtaken(d, table) THEN [calls[d] EXCEPT !.late = TRUE]
                               ELSE calls[d]]

(* The lists that stay in Redis when the table has come after them. *)
Outlived(table) ==
    IF table = rows THEN cache ELSE {[e EXCEPT !.late = TRUE] : e \in cache}

(* The write is committed; the cached lists are dropped afterwards, or     *)
(* were dropped before, and may be back by now.                            *)
Commit(c) ==
    /\ Writing(c)
    /\ \/ calls[c].at = "sent" /\ calls[c].op.drops # "before" /\ Accepted(calls[c])
       \/ calls[c].at = "dropped"
    /\ rows' = Written(calls[c])
    /\ calls' = [Aged(rows') EXCEPT ![c].at = IF calls[c].op.drops = "after" THEN "committed"
                                              ELSE "done"]
    /\ cache' = IF calls[c].op.drops = "before" THEN Outlived(rows') ELSE cache
    /\ UNCHANGED <<page, query, shown, dialog, busy, used, newest, crossed>>

(* Mutant: the handler forgets to drop the lists. *)
ForgetCache(c) ==
    /\ Writing(c)
    /\ \/ calls[c].at = "sent" /\ calls[c].op.drops = "before" /\ Accepted(calls[c])
       \/ calls[c].at = "committed"
    /\ Outcome(c, IF calls[c].at = "sent" THEN "dropped" ELSE "done")
    /\ UNCHANGED <<page, rows, cache, query, shown, dialog, busy, used, newest, crossed>>

(* invalidate_admin_list_cache: where it comes first, the row was checked. *)
DropCache(c) ==
    /\ Writing(c)
    /\ \/ calls[c].at = "sent" /\ calls[c].op.drops = "before" /\ Accepted(calls[c])
       \/ calls[c].at = "committed"
    /\ cache' = {}
    /\ Outcome(c, IF calls[c].at = "sent" THEN "dropped" ELSE "done")
    /\ UNCHANGED <<page, rows, query, shown, dialog, busy, used, newest, crossed>>

Refuse(c) ==
    /\ Writing(c)
    /\ calls[c].at = "sent"
    /\ ~Accepted(calls[c])
    /\ Outcome(c, "refused")
    /\ UNCHANGED <<page, rows, cache, query, shown, dialog, busy, used, newest, crossed>>

(* The page patches its row, drops it, asks again with the query it had    *)
(* at the click, at once or after a while, or does nothing; the flag may   *)
(* be held until the list is there.                                        *)
Patched(call) ==
    LET mine == shown.list.rows[call.row] IN
    IF call.op.does = "all"
    THEN [r \in Row |-> IF shown.list.rows[r].there
                        THEN [shown.list.rows[r] EXCEPT !.val = {1}] ELSE Nothing]
    ELSE CASE call.op.after \in {"patch", "adopt"} /\ mine.there ->
                  [shown.list.rows EXCEPT ![call.row].val = call.val]
           [] call.op.after = "cut" -> [shown.list.rows EXCEPT ![call.row] = Nothing]
           [] OTHER -> shown.list.rows

(* The dialog of the operation closes whichever row it shows by now; a     *)
(* form that adds starts over.                                             *)
Finish(c) ==
    /\ Writing(c)
    /\ calls[c].at = "done"
    /\ LET o == calls[c].op
           kept == o.after \in {"await", "cut"}
       IN
         /\ shown' = [list |-> [shown.list EXCEPT !.rows = Patched(calls[c]),
                                !.total = IF o.after = "cut" /\ @ > 0 THEN @ - 1 ELSE @],
                      loading |-> shown.loading \/ (o.after \in {"reload", "cut"} /\ o.via # "form")]
         /\ calls' = [calls EXCEPT ![c] =
                        IF o.after = "later"
                        THEN [ListCall(calls[c].key, "none") EXCEPT !.at = "timer"]
                        ELSE IF Reloads(o)
                        THEN ListCall(calls[c].key, IF kept THEN o.flag ELSE "none")
                        ELSE NoCall]
         /\ newest' = IF Reloads(o) /\ o.after # "later" THEN c ELSE newest
         /\ busy' = IF kept THEN busy ELSE Release(busy, o.flag)
         /\ dialog' = IF o.after = "append"
                      THEN [dialog EXCEPT !.val = calls[c].val \cup {2}, !.edited = TRUE]
                      ELSE IF o.after = "adopt"
                      THEN [dialog EXCEPT !.val = calls[c].val, !.edited = FALSE]
                      ELSE IF o.shuts = "answer" /\ dialog.op = o
                      THEN IF o.via = "form" THEN [dialog EXCEPT !.val = {}, !.edited = FALSE]
                           ELSE Closed
                      ELSE dialog
         /\ crossed' = (crossed \/ (~Reloads(o) /\ calls[c].late))
    /\ UNCHANGED <<page, rows, cache, query, used>>

(* The list that was put off is asked for: setTimeout. *)
Reload(c) ==
    /\ Listing(c)
    /\ calls[c].at = "timer"
    /\ calls' = [calls EXCEPT ![c].at = "sent"]
    /\ shown' = [shown EXCEPT !.loading = TRUE]
    /\ newest' = c
    /\ UNCHANGED <<page, rows, cache, query, dialog, busy, used, crossed>>

(* A refusal, or a request or an answer that is lost: the flag is cleared, *)
(* the page stays as it is.                                                *)
Fails(c) ==
    /\ Writing(c)
    /\ calls[c].at \in {"sent", "refused", "done"}
    /\ calls' = [calls EXCEPT ![c] = NoCall]
    /\ busy' = Release(busy, calls[c].op.flag)
    /\ crossed' = (crossed \/ calls[c].at = "done" \/ calls[c].op \in Forms)
    /\ UNCHANGED <<page, rows, cache, query, shown, dialog, used, newest>>

-----------------------------------------------------------------------------
(* The surroundings *)

(* Others change a row, with or without dropping the cached lists.         *)
Other(r) ==
    /\ used.other < MaxOther
    /\ rows[r].there
    /\ \E row \in {Nothing, [there |-> TRUE, val |-> {1} \ rows[r].val]} :
          rows' = [rows EXCEPT ![r] = row]
    /\ calls' = Aged(rows')
    /\ cache' \in {Outlived(rows'), {}}
    /\ used' = [used EXCEPT !.other = @ + 1]
    /\ crossed' = TRUE
    /\ UNCHANGED <<page, query, shown, dialog, busy, newest>>

(* ADMIN_LIST_TTL *)
Expire ==
    /\ cache # {}
    /\ cache' = {}
    /\ UNCHANGED <<page, rows, query, shown, dialog, busy, calls, used, newest, crossed>>
-----------------------------------------------------------------------------
Init ==
    /\ page = NoPage
    /\ rows = Empty.rows
    /\ cache = {}
    /\ query = [typed |-> FALSE, name |-> FALSE, timer |-> FALSE, open |-> FALSE, from |-> 0]
    /\ shown = [list |-> Empty, loading |-> FALSE]
    /\ dialog = Closed
    /\ busy = [f \in Flag |-> {}]
    /\ calls = [c \in Call |-> NoCall]
    /\ used = [click |-> 0, other |-> 0]
    /\ newest = 0
    /\ crossed = FALSE

(* The rows there may be when a page is opened, with room for what it adds; *)
(* the first one is off or on.                                              *)
Tables(p) ==
    {t \in [Row -> {Nothing, [there |-> TRUE, val |-> {}], [there |-> TRUE, val |-> {1}]}] :
        \A r \in Row : /\ t[r].there <=> \A o \in p.ops : /\ o.does = "add" => r = 1
                                                          /\ o.does # "join"
                       /\ t[r].val # {} => r = 1}

(* A page is opened: it asks for its list; a form is there at once.        *)
OpenPage ==
    /\ page = NoPage
    /\ \E name \in DOMAIN Pages \ {NoPage} : LET p == Pages[name] IN
         /\ page' = name
         /\ rows' \in Tables(p)
         /\ shown' = [list |-> Empty, loading |-> p.asks.error # "blank"]
         /\ calls' = [c \in Call |->
                         IF p.asks.error # "blank" /\ \A d \in Call : c <= d
                         THEN ListCall([NoKey EXCEPT !.open = p.filter.by = "fixed"], "none")
                         ELSE NoCall]
         /\ newest' = IF p.asks.error = "blank" THEN 0
                      ELSE CHOOSE c \in Call : \A d \in Call : c <= d
         /\ dialog' = IF \E o \in p.ops : o.via = "form"
                      THEN [Closed EXCEPT !.op = CHOOSE o \in p.ops : o.via = "form", !.row = 1]
                      ELSE Closed
    /\ UNCHANGED <<cache, query, busy, used, crossed>>

Browser ==
    \/ Type
    \/ SelectFilter
    \/ \E to \in 0..(MaxRow - 1) : TurnPage(to)
    \/ \E o \in Ops, r \in Row : Press(o, r) \/ OpenDialog(o, r)
    \/ \E i \in Item : Edit(i)
    \/ Confirm
    \/ CloseDialog

Waits(c) ==
    \/ ServeCached(c) \/ ReadRows(c) \/ StoreList(c) \/ ShowList(c) \/ ListFails(c)
    \/ Commit(c) \/ DropCache(c) \/ Refuse(c) \/ Finish(c) \/ Reload(c) \/ Fails(c)

Working ==
    \/ Browser
    \/ Debounce
    \/ \E c \in Call : Waits(c)
    \/ \E r \in Row : Other(r)
    \/ Expire

Next == OpenPage \/ (page # NoPage /\ Working)

Spec == Init /\ [][Next]_vars

-----------------------------------------------------------------------------
(* Properties *)

(* The type invariant of the pages. *)
TypeOK ==
    /\ page \in DOMAIN Pages
    /\ rows \in [Row -> RowRec]
    /\ cache \subseteq [key : Key, list : List, late : BOOLEAN]
    /\ query \in [typed : BOOLEAN, name : BOOLEAN, timer : BOOLEAN, open : BOOLEAN,
                  from : 0..(MaxRow - 1)]
    /\ shown \in [list : List, loading : BOOLEAN]
    /\ dialog \in [op : Ops \cup {NoOp}, row : 0..MaxRow, val : Content, edited : BOOLEAN]
    /\ busy \in [Flag -> SUBSET Row]
    /\ calls \in [Call ->
          {NoCall}
          \cup [at : {"timer", "sent", "read", "answered"}, kind : {"list"}, key : Key,
                list : List, late : BOOLEAN, holds : Flag \cup {"none"}]
          \cup [at : {"sent", "dropped", "committed", "done", "refused"}, kind : {"write"},
                op : Ops, row : Row, val : Content, late : BOOLEAN, key : Key,
                place : 0..MaxRow]]
    /\ used \in [click : 0..MaxClicks, other : 0..MaxOther]
    /\ newest \in Call \cup {0}
    /\ crossed \in BOOLEAN

Quiet == InFlight = {} /\ ~query.timer

(* The flag that a request releases. *)
Holds(call) == IF call.kind = "list" THEN call.holds ELSE call.op.flag

Patching == \E o \in Ops : o.after = "patch"

(* When nothing is in flight the page shows what the API would answer to   *)
(* its filters, or, where it patches its rows, the rows as they are; and a *)
(* form that was not edited holds what is stored.  Requests may overlap,   *)
(* answers may come in any order: what is excepted, until a list that is   *)
(* as new was asked for last and shown, are the races the page loses.      *)
(* These are: the answer to the last list, or to a write that patches, was *)
(* read or committed before other rows were, or served from lists of       *)
(* before; an older list is shown after the last one; the last one fails,  *)
(* or was asked for with a query of before; the answer to a commit is      *)
(* lost; two saves of one form are on their way, or one fails; and others  *)
(* wrote.                                                                  *)
ShownIsTrue ==
    Quiet /\ ~crossed /\ This.asks.error # "blank" =>
        /\ IF Patching
           THEN \A r \in Row : shown.list.rows[r].there => shown.list.rows[r] = rows[r]
           ELSE Forms = {} => shown.list = Answer(Asked(query))
        /\ Forms # {} /\ ~dialog.edited => dialog.val = rows[1].val

(* A flag is held while a request of it is in flight, and no longer; and a *)
(* form, a dialog or a button above the list that its flag disables has    *)
(* one request in flight, however often it is opened, closed and           *)
(* confirmed: an impatient user sends one broadcast.                       *)
FlagsFollowCalls ==
    /\ \A f \in Flag : busy[f] # {} => \E c \in InFlight : Holds(calls[c]) = f
    /\ \A o \in Ops : o.guarded /\ o.flag # "none" /\ o.via # "button" =>
           Cardinality({c \in Call : Writing(c) /\ calls[c].op = o}) <= 1

=============================================================================
