-------------------------- MODULE Sessions_proofs --------------------------
(***************************************************************************)
(* What holds of the refresh tokens of Sessions for any number of tabs,    *)
(* calls, requests and rows.                                               *)
(*                                                                         *)
(* OneLiveToken alone is not kept by every step: a renewal gives the row   *)
(* it holds a successor, which is a second live row of the session unless  *)
(* that row is live still.  SessionsInv adds why it is: no other request   *)
(* has the lock, and only who has it ends a row.                           *)
(***************************************************************************)
EXTENDS Sessions, TLAPS

(* A live row belongs to a session, which is named after a row that is     *)
(* there: a free row is the name of no session.                            *)
RowsAreNamed ==
    \A t \in Token :
        /\ tokens[t].live => tokens[t].session # 0
        /\ tokens[t].session # 0 => tokens[tokens[t].session].session # 0

(* A renewal works on a row, and the row it has locked is live.            *)
WorkIsOnRows ==
    \A w \in Worker :
        /\ work[w].at \in {"read", "held"} => work[w].token # 0
        /\ work[w].at = "held" => tokens[work[w].token].live

LocksDisjoint ==
    \A v, w \in Worker : v # w => Locks(work[v]) \cap Locks(work[w]) = {}

(* Each raise of token_version was counted when it was asked for.          *)
VersionsCounted ==
    /\ account.ver <= used.other
    /\ \A w \in Worker :
          work[w].at \in {"asked", "marked"} /\ work[w].goal # "session"
              => work[w].ver < used.other

SessionsInv ==
    /\ TypeOK
    /\ OneLiveToken
    /\ RowsAreNamed
    /\ WorkIsOnRows
    /\ LocksDisjoint
    /\ VersionsCounted

USE SessionsAssumption

-----------------------------------------------------------------------------
(* Types *)

(* The empty rows have the type of a row. *)
LEMMA EmptyRows ==
    /\ NoJob \in Job /\ NoCall \in CallRow /\ NoRenewal \in RenewalRow
    /\ NoAccess \in Access
    /\ NoStatus \in [on : BOOLEAN, active : BOOLEAN, ver : Ver]
BY DEF NoJob, Job, Goal, NoCall, CallRow, CallAt, Kind, NoRenewal, RenewalRow, NoAccess,
       Access, NoStatus, Ver, Token

(* What the steps of a call change of its row keeps its type. *)
LEMMA CallFields ==
    ASSUME NEW r \in CallRow, NEW at \in CallAt, NEW access \in Access,
           NEW token \in Token \cup {0}
    PROVE  /\ [r EXCEPT !.at = at, !.access = access, !.token = token] \in CallRow
           /\ [r EXCEPT !.at = at, !.token = token, !.access = access] \in CallRow
           /\ [r EXCEPT !.at = at, !.access = access] \in CallRow
           /\ [r EXCEPT !.at = at] \in CallRow
<1>1. [r EXCEPT !.at = at] \in CallRow
  BY DEF CallRow
<1>2. [r EXCEPT !.at = at, !.access = access] \in CallRow
  BY DEF CallRow
<1>3. [r EXCEPT !.at = at, !.access = access, !.token = token] \in CallRow
  BY DEF CallRow
<1>4. [r EXCEPT !.at = at, !.token = token, !.access = access] \in CallRow
  BY DEF CallRow
<1> QED
  BY <1>1, <1>2, <1>3, <1>4

(* Revoking rows keeps their type, and what it leaves of each row. *)
LEMMA RevokedRows ==
    ASSUME NEW rows, tokens \in [Token -> TokenRow]
    PROVE  /\ Revoked(rows) \in [Token -> TokenRow]
           /\ \A t \in Token :
                 /\ Revoked(rows)[t].session = tokens[t].session
                 /\ Revoked(rows)[t].next = tokens[t].next
                 /\ Revoked(rows)[t].live <=> tokens[t].live /\ t \notin rows
                 /\ ~tokens[t].live => Revoked(rows)[t] = tokens[t]
<1>1. \A t \in Token : [tokens[t] EXCEPT !.live = FALSE] \in TokenRow
  BY DEF TokenRow
<1>2. ASSUME NEW r \in TokenRow, ~r.live
      PROVE  [r EXCEPT !.live = FALSE] = r
  <2>1. r = [session |-> r.session, live |-> r.live, next |-> r.next]
    BY DEF TokenRow
  <2>2. r.live = FALSE
    BY <1>2 DEF TokenRow
  <2> QED
    BY <2>1, <2>2
<1> QED
  BY <1>1, <1>2 DEF Revoked, TokenRow

(* What the successor of a row does to the rows. *)
LEMMA RotatedRows ==
    ASSUME tokens \in [Token -> TokenRow], NEW t \in Token, NEW n \in Token, t # n
    PROVE  /\ Rotated(t, n) \in [Token -> TokenRow]
           /\ Rotated(t, n)[n] = [session |-> tokens[t].session, live |-> TRUE, next |-> 0]
           /\ Rotated(t, n)[t].session = tokens[t].session
           /\ ~Rotated(t, n)[t].live
           /\ \A u \in Token \ {t, n} : Rotated(t, n)[u] = tokens[u]
<1> DEFINE new  == [session |-> tokens[t].session, live |-> TRUE, next |-> 0]
           done == [[tokens[t] EXCEPT !.live = FALSE] EXCEPT !.next = n]
<1>1. tokens[t] \in TokenRow /\ new \in TokenRow
  BY DEF TokenRow
<1>2. done \in TokenRow /\ done.session = tokens[t].session /\ ~done.live
  BY <1>1 DEF TokenRow
<1>3. Rotated(t, n) = [u \in Token |-> IF u = n THEN new ELSE IF u = t THEN done ELSE tokens[u]]
  BY DEF Rotated
<1> HIDE DEF new, done
<1> QED
  BY <1>1, <1>2, <1>3 DEF new

LEMMA TypeInit == Init => TypeOK
BY EmptyRows DEF Init, TypeOK, TokenRow, Token, Ver, Access, NoStatus

LEMMA LiveOfRows == \A s : LiveOf(s) \in SUBSET Token
BY DEF LiveOf

LEMMA LiveRowsRows == LiveRows \in SUBSET Token
BY DEF LiveRows

(* The steps of the API for a request it works on *)
LEMMA TypeWorker ==
    ASSUME SessionsInv, NEW w \in Worker,
           \/ \E t \in Tab : ReadUser(w, t)
           \/ LockLive(w) \/ LockReplaced(w) \/ LockEnded(w) \/ EndReused(w)
           \/ CommitRenewal(w)
           \/ Mark(w) \/ CommitEnd(w) \/ Elsewhere(w)
           \/ \E c \in Call : ServeLogout(w, c)
    PROVE  TypeOK'
<1> USE EmptyRows DEF SessionsInv
<1>1. ASSUME NEW t \in Tab, ReadUser(w, t)
      PROVE  TypeOK'
  BY <1>1 DEF TypeOK, ReadUser, Job, NoJob, Goal, RenewalRow
<1>2. CASE LockLive(w)
  <2>1. [work[w] EXCEPT !.at = "held"] \in Job
    BY DEF TypeOK, Job
  <2> QED
    BY <1>2, <2>1 DEF TypeOK, LockLive
<1>3. CASE LockReplaced(w)
  <2>1. [work[w] EXCEPT !.at = "reused", !.rows = LiveOf(tokens[work[w].token].session)] \in Job
    BY LiveOfRows DEF TypeOK, Job
  <2> QED
    BY <1>3, <2>1 DEF TypeOK, LockReplaced
<1>4. CASE LockEnded(w)
  BY <1>4 DEF TypeOK, LockEnded, Answered, RenewalRow, NoRenewal
<1>5. CASE EndReused(w)
  BY <1>5, RevokedRows DEF TypeOK, EndReused, Answered, RenewalRow, NoRenewal
<1>6. CASE CommitRenewal(w)
  <2>1. PICK n \in Token : /\ Free(n)
                           /\ tokens' = Rotated(work[w].token, n)
                           /\ Answered(w, work[w].for,
                                       [at |-> "renewed", token |-> n, ver |-> work[w].ver])
    BY <1>6 DEF CommitRenewal
  <2>2. work[w] \in Job /\ work[w].token \in Token /\ tokens[work[w].token].live
    BY <1>6 DEF TypeOK, WorkIsOnRows, CommitRenewal, Job
  <2>3. work[w].token # n
    BY <2>1, <2>2 DEF RowsAreNamed, Free
  <2>4. tokens' \in [Token -> TokenRow]
    BY <2>1, <2>2, <2>3, RotatedRows DEF TypeOK
  <2>5. work' \in [Worker -> Job] /\ renewal' \in [Tab -> RenewalRow]
    BY <2>1, <2>2 DEF TypeOK, Answered, RenewalRow, Job
  <2> QED
    BY <1>6, <2>4, <2>5 DEF TypeOK, CommitRenewal
<1>7. CASE Mark(w)
  <2>1. [work[w] EXCEPT !.at = "marked", !.rows = @ \cap LiveRows] \in Job
    BY DEF TypeOK, Job
  <2> QED
    BY <1>7, <2>1 DEF TypeOK, Mark
<1>8. CASE CommitEnd(w)
  <2>1. account' \in [active : BOOLEAN, ver : Ver]
    BY <1>8 DEF TypeOK, CommitEnd, Raised, VersionsCounted, Ver, Job, Goal
  <2>2. calls' \in [Call -> CallRow]
    BY <1>8 DEF TypeOK, CommitEnd, CallRow, CallAt
  <2> QED
    BY <1>8, <2>1, <2>2, RevokedRows DEF TypeOK, CommitEnd
<1>9. CASE Elsewhere(w)
  <2>1. used' \in [clicks : 0..MaxClicks, other : 0..MaxOther]
    BY <1>9 DEF TypeOK, Elsewhere
  <2>2. PICK goal \in Goal, rows \in SUBSET Token : Ask(w, goal, Nobody, rows)
    BY <1>9, LiveOfRows, LiveRowsRows DEF Elsewhere, Goal
  <2>3. work' \in [Worker -> Job]
    BY <2>2 DEF TypeOK, Ask, Job, NoJob, Ver
  <2> QED
    BY <1>9, <2>1, <2>3 DEF TypeOK, Elsewhere
<1>10. ASSUME NEW c \in Call, ServeLogout(w, c)
      PROVE  TypeOK'
  <2>1. [calls[c] EXCEPT !.at = "ending", !.access = NoAccess, !.token = 0] \in CallRow
    BY CallFields DEF TypeOK, CallAt
  <2>2. work' \in [Worker -> Job]
    BY <1>10, LiveOfRows DEF TypeOK, ServeLogout, Ask, Job, NoJob, Ver, Goal
  <2>3. status' \in [on : BOOLEAN, active : BOOLEAN, ver : Ver]
    BY <1>10 DEF TypeOK, ServeLogout, Refill
  <2> QED
    BY <1>10, <2>1, <2>2, <2>3 DEF TypeOK, ServeLogout
<1> QED
  BY <1>1, <1>2, <1>3, <1>4, <1>5, <1>6, <1>7, <1>8, <1>9, <1>10

(* The steps of a call, and of the API for one that it does not work on *)
LEMMA TypeCall ==
    ASSUME SessionsInv, NEW c \in Call,
           \/ \E t \in Tab, k \in Kind : Start(c, t, k)
           \/ Serve(c) \/ Reject(c) \/ Deny(c) \/ DeniedGuest(c) \/ Denied(c)
           \/ ServeEmptyLogout(c) \/ LoggedOut(c)
           \/ ServeSignIn(c) \/ RejectSignIn(c) \/ SignedIn(c) \/ LoseCall(c)
    PROVE  TypeOK'
<1> USE EmptyRows DEF SessionsInv
<1>1. ASSUME NEW t \in Tab, NEW k \in Kind, Start(c, t, k)
      PROVE  TypeOK'
  BY <1>1 DEF TypeOK, Start, server, CallRow, CallAt
<1>2. CASE Serve(c)
  BY <1>2 DEF TypeOK, Serve, Refill
<1>3. CASE Reject(c)
  BY <1>3 DEF TypeOK, Reject, Failed, ClearTokens, server
<1>4. CASE Deny(c)
  <2>1. [calls[c] EXCEPT !.at = "denied", !.access = NoAccess, !.token = 0] \in CallRow
    BY CallFields DEF TypeOK, CallAt
  <2> QED
    BY <1>4, <2>1 DEF TypeOK, Deny, server
<1>5. CASE DeniedGuest(c)
  BY <1>5 DEF TypeOK, DeniedGuest, Failed, ClearTokens, server
<1>6. CASE Denied(c)
  <2>1. [NoRenewal EXCEPT !.at = "sent", !.token = cookies.refresh] \in RenewalRow
    BY DEF TypeOK, RenewalRow, NoRenewal
  <2>2. calls' \in [Call -> CallRow]
    BY <1>6 DEF TypeOK, Denied, CallRow, CallAt
  <2>3. renewal' \in [Tab -> RenewalRow]
    BY <1>6, <2>1 DEF TypeOK, Denied
  <2>4. past' \in [lost : BOOLEAN, crossed : BOOLEAN, reuse : BOOLEAN]
    BY <1>6 DEF TypeOK, Denied
  <2> QED
    BY <1>6, <2>2, <2>3, <2>4 DEF TypeOK, Denied, server
<1>7. CASE ServeEmptyLogout(c)
  <2>1. [calls[c] EXCEPT !.at = "ended", !.access = NoAccess] \in CallRow
    BY CallFields DEF TypeOK, CallAt
  <2>2. status' \in [on : BOOLEAN, active : BOOLEAN, ver : Ver]
    BY <1>7 DEF TypeOK, ServeEmptyLogout, Refill
  <2> QED
    BY <1>7, <2>1, <2>2 DEF TypeOK, ServeEmptyLogout
<1>8. CASE LoggedOut(c)
  BY <1>8 DEF TypeOK, LoggedOut, server
<1>9. CASE ServeSignIn(c)
  <2> DEFINE access == [on |-> TRUE, ver |-> account.ver, fresh |-> TRUE]
             row(n) == [session |-> n, live |-> TRUE, next |-> 0]
  <2>1. PICK n \in Token : /\ tokens' = [tokens EXCEPT ![n] = row(n)]
                           /\ calls' = [calls EXCEPT ![c].at = "opened", ![c].token = n,
                                           ![c].access = access]
    BY <1>9 DEF ServeSignIn
  <2>2. row(n) \in TokenRow /\ access \in Access
    BY DEF TypeOK, TokenRow, Access
  <2>3. [calls[c] EXCEPT !.at = "opened", !.token = n, !.access = access] \in CallRow
    BY <2>2, CallFields DEF TypeOK, CallAt
  <2>4. tokens' \in [Token -> TokenRow] /\ calls' \in [Call -> CallRow]
    BY <2>1, <2>2, <2>3 DEF TypeOK
  <2> QED
    BY <1>9, <2>4 DEF TypeOK, ServeSignIn
<1>10. CASE RejectSignIn(c)
  BY <1>10 DEF TypeOK, RejectSignIn, server
<1>11. CASE SignedIn(c)
  BY <1>11 DEF TypeOK, SignedIn, server, CallRow
<1>12. CASE LoseCall(c)
  <2>1. Abandoned(c) \in [Worker -> Job]
    BY DEF TypeOK, Abandoned, Job
  <2> QED
    BY <1>12, <2>1 DEF TypeOK, LoseCall, ClearTokens
<1> QED
  BY <1>1, <1>2, <1>3, <1>4, <1>5, <1>6, <1>7, <1>8, <1>9, <1>10, <1>11, <1>12

(* The steps of the renewal of a tab *)
LEMMA TypeTab ==
    ASSUME SessionsInv, NEW t \in Tab,
           RefuseRenewal(t) \/ Renewed(t) \/ NotRenewed(t) \/ LoseRenewal(t)
    PROVE  TypeOK'
<1> USE EmptyRows DEF SessionsInv
<1>1. CASE RefuseRenewal(t)
  BY <1>1 DEF TypeOK, RefuseRenewal, RenewalRow
<1>2. CASE Renewed(t)
  <2> DEFINE new == [on |-> TRUE, ver |-> renewal[t].ver, fresh |-> TRUE]
  <2>1. new \in Access /\ renewal[t].token \in Token \cup {0}
    BY DEF TypeOK, Access, RenewalRow
  <2>2. ASSUME NEW d \in Call
        PROVE  [calls[d] EXCEPT !.at = "resent", !.access = new,
                   !.token = IF calls[d].kind = "logout" THEN renewal[t].token ELSE 0] \in CallRow
    <3> DEFINE token == IF calls[d].kind = "logout" THEN renewal[t].token ELSE 0
    <3>1. token \in Token \cup {0} /\ calls[d] \in CallRow /\ "resent" \in CallAt
      BY <2>1 DEF TypeOK, CallAt
    <3> HIDE DEF token, new
    <3>2. [calls[d] EXCEPT !.at = "resent", !.access = new, !.token = token] \in CallRow
      BY <2>1, <3>1, CallFields
    <3> QED
      BY <3>2 DEF token, new
  <2>3. calls' \in [Call -> CallRow]
    BY <1>2, <2>2 DEF TypeOK, Renewed
  <2> QED
    BY <1>2, <2>1, <2>3 DEF TypeOK, Renewed, server
<1>3. CASE NotRenewed(t)
  BY <1>3 DEF TypeOK, NotRenewed, GiveUp, server
<1>4. CASE LoseRenewal(t)
  <2>1. Abandoned(t) \in [Worker -> Job]
    BY DEF TypeOK, Abandoned, Job
  <2> QED
    BY <1>4, <2>1 DEF TypeOK, LoseRenewal, GiveUp
<1> QED
  BY <1>1, <1>2, <1>3, <1>4

(* The other steps *)
LEMMA TypeRest ==
    ASSUME SessionsInv,
           Reactivate \/ Forget \/ Age
    PROVE  TypeOK'
<1> USE EmptyRows DEF SessionsInv
<1>1. CASE Reactivate
  BY <1>1 DEF TypeOK, Reactivate
<1>2. CASE Forget
  BY <1>2 DEF TypeOK, Forget
<1>3. CASE Age
  <2>1. [cookies.access EXCEPT !.fresh = FALSE] \in Access
    BY DEF TypeOK, Access
  <2>2. cookies' = [cookies EXCEPT !.access = [cookies.access EXCEPT !.fresh = FALSE]]
    BY <1>3 DEF Age
  <2> QED
    BY <1>3, <2>1, <2>2 DEF TypeOK, Age, server
<1> QED
  BY <1>1, <1>2, <1>3

LEMMA TypeStep == SessionsInv /\ [Next]_vars => TypeOK'
<1> SUFFICES ASSUME SessionsInv, [Next]_vars
             PROVE  TypeOK'
  OBVIOUS
<1>1. CASE Next
  BY <1>1, TypeWorker, TypeCall, TypeTab, TypeRest DEF Next
<1>2. CASE UNCHANGED vars
  BY <1>2 DEF SessionsInv, TypeOK, vars
<1> QED
  BY <1>1, <1>2

-----------------------------------------------------------------------------
(***************************************************************************)
(* What a step does to the rows and to the requests of the API: nothing,   *)
(* but that nobody may wait for a request any more; a request turns to     *)
(* another job; it ends rows that nobody else has locked; it gives its row *)
(* a successor; a session is opened.                                       *)
(***************************************************************************)
SameJob(i, j) ==
    /\ i.at = j.at /\ i.goal = j.goal /\ i.token = j.token
    /\ i.ver = j.ver /\ i.rows = j.rows

Rests ==
    /\ tokens' = tokens
    /\ account'.ver = account.ver
    /\ used'.other = used.other
    /\ \A w \in Worker : SameJob(work[w], work'[w])

Sound(j) ==
    /\ j.at \in {"read", "held"} => j.token # 0
    /\ j.at = "held" => tokens[j.token].live
    /\ j.at \in {"asked", "marked"} /\ j.goal # "session" => j.ver < used'.other

Turns(w, j) ==
    /\ work' = [work EXCEPT ![w] = j]
    /\ Sound(j)
    /\ Locks(j) \cap LockedByOthers(w) = {}
    /\ used'.other \in Nat /\ used.other <= used'.other
    /\ UNCHANGED <<tokens, account>>

Ends(w, rows) ==
    /\ rows \cap LockedByOthers(w) = {}
    /\ tokens' = Revoked(rows)
    /\ work' = [work EXCEPT ![w] = NoJob]
    /\ account'.ver <= used.other
    /\ UNCHANGED used

Rotates(w, n) ==
    /\ work[w].at = "held"
    /\ Free(n)
    /\ tokens' = Rotated(work[w].token, n)
    /\ work' = [work EXCEPT ![w] = NoJob]
    /\ UNCHANGED <<account, used>>

Opens(n) ==
    /\ Free(n)
    /\ tokens' = [tokens EXCEPT ![n] = [session |-> n, live |-> TRUE, next |-> 0]]
    /\ UNCHANGED <<account, work, used>>

Effect ==
    \/ Rests
    \/ \E w \in Worker, j \in Job : Turns(w, j)
    \/ \E w \in Worker, rows \in SUBSET Token : Ends(w, rows)
    \/ \E w \in Worker, n \in Token : Rotates(w, n)
    \/ \E n \in Token : Opens(n)

(* A request without rows of its own takes no locks. *)
LEMMA NoLocksTaken ==
    ASSUME NEW w, NEW j, j.at \notin {"held", "marked"}
    PROVE  Locks(j) \cap LockedByOthers(w) = {}
BY DEF Locks

LEMMA WorkerEffect ==
    ASSUME SessionsInv, NEW w \in Worker,
           \/ \E t \in Tab : ReadUser(w, t)
           \/ LockLive(w) \/ LockReplaced(w) \/ LockEnded(w) \/ EndReused(w)
           \/ CommitRenewal(w)
           \/ Mark(w) \/ CommitEnd(w) \/ Elsewhere(w)
           \/ \E c \in Call : ServeLogout(w, c)
    PROVE  Effect
<1> DEFINE old == work[w]
<1>1. old \in Job /\ (old.at \in {"read", "held"} => old.token \in Token)
  BY DEF SessionsInv, TypeOK, WorkIsOnRows, Job
<1>2. used.other \in Nat /\ used.other <= used.other
  BY DEF SessionsInv, TypeOK
<1>3. ASSUME NEW t \in Tab, ReadUser(w, t)
      PROVE  Effect
  <2> DEFINE j == [NoJob EXCEPT !.at = "read", !.for = t, !.token = renewal[t].token,
                                !.ver = account.ver]
  <2>1. j \in Job /\ j.at = "read" /\ j.token # 0
    BY <1>3, EmptyRows DEF SessionsInv, TypeOK, ReadUser, Job, NoJob, RenewalRow
  <2>2. work' = [work EXCEPT ![w] = j] /\ UNCHANGED <<tokens, account, used>>
    BY <1>3 DEF ReadUser
  <2> HIDE DEF j
  <2>3. Turns(w, j)
    BY <1>2, <2>1, <2>2, NoLocksTaken DEF Turns, Sound
  <2> QED
    BY <2>1, <2>3 DEF Effect
<1>4. CASE LockLive(w)
  <2> DEFINE j == [old EXCEPT !.at = "held"]
  <2>1. j \in Job /\ j.at = "held" /\ j.token = old.token
    BY <1>1 DEF Job
  <2>2. /\ work' = [work EXCEPT ![w] = j] /\ UNCHANGED <<tokens, account, used>>
        /\ old.at = "read" /\ old.token \notin LockedByOthers(w) /\ tokens[old.token].live
    BY <1>4 DEF LockLive
  <2> HIDE DEF j
  <2>3. Turns(w, j)
    BY <1>1, <1>2, <2>1, <2>2 DEF Turns, Sound, Locks, Token
  <2> QED
    BY <2>1, <2>3 DEF Effect
<1>5. CASE LockReplaced(w)
  <2> DEFINE j == [old EXCEPT !.at = "reused", !.rows = LiveOf(tokens[old.token].session)]
  <2>1. j \in Job /\ j.at = "reused"
    BY <1>1, LiveOfRows DEF Job
  <2>2. work' = [work EXCEPT ![w] = j] /\ UNCHANGED <<tokens, account, used>>
    BY <1>5 DEF LockReplaced
  <2> HIDE DEF j
  <2>3. Turns(w, j)
    BY <1>2, <2>1, <2>2, NoLocksTaken DEF Turns, Sound
  <2> QED
    BY <2>1, <2>3 DEF Effect
<1>6. CASE LockEnded(w)
  <2>1. NoJob \in Job /\ NoJob.at = "idle"
    BY EmptyRows DEF NoJob
  <2>2. work' = [work EXCEPT ![w] = NoJob] /\ UNCHANGED <<tokens, account, used>>
    BY <1>6 DEF LockEnded, Answered
  <2>3. Turns(w, NoJob)
    BY <1>2, <2>1, <2>2, NoLocksTaken DEF Turns, Sound
  <2> QED
    BY <2>1, <2>3 DEF Effect
<1>7. CASE EndReused(w)
  <2>1. Ends(w, old.rows) /\ old.rows \in SUBSET Token
    BY <1>1, <1>7 DEF SessionsInv, VersionsCounted, Ends, EndReused, Answered, Job
  <2> QED
    BY <2>1 DEF Effect
<1>8. CASE CommitRenewal(w)
  <2>1. \E n \in Token : Rotates(w, n)
    BY <1>8 DEF CommitRenewal, Rotates, Answered
  <2> QED
    BY <2>1 DEF Effect
<1>9. CASE Mark(w)
  <2> DEFINE j == [old EXCEPT !.at = "marked", !.rows = @ \cap LiveRows]
  <2>1. /\ j \in Job /\ j.at = "marked" /\ j.rows = old.rows \cap LiveRows
        /\ j.goal = old.goal /\ j.ver = old.ver
    BY <1>1 DEF Job
  <2>2. /\ work' = [work EXCEPT ![w] = j] /\ UNCHANGED <<tokens, account, used>>
        /\ old.at = "asked" /\ old.rows \cap LockedByOthers(w) = {}
    BY <1>9 DEF Mark
  <2>3. old.goal # "session" => old.ver < used.other
    BY <2>2 DEF SessionsInv, VersionsCounted
  <2> HIDE DEF j
  <2>4. Sound(j)
    BY <2>1, <2>2, <2>3 DEF Sound
  <2>5. Locks(j) = old.rows \cap LiveRows
    BY <2>1 DEF Locks
  <2>6. Turns(w, j)
    BY <1>2, <2>2, <2>4, <2>5 DEF Turns
  <2> QED
    BY <2>1, <2>6 DEF Effect
<1>10. CASE CommitEnd(w)
  <2>1. old.rows \cap LockedByOthers(w) = {}
    BY <1>10 DEF SessionsInv, LocksDisjoint, CommitEnd, LockedByOthers, Locks
  <2>2. account'.ver <= used.other
    BY <1>1, <1>10 DEF SessionsInv, TypeOK, VersionsCounted, CommitEnd, Raised, Ver, Job, Goal
  <2>3. Ends(w, old.rows) /\ old.rows \in SUBSET Token
    BY <1>1, <1>10, <2>1, <2>2 DEF Ends, CommitEnd, Job
  <2> QED
    BY <2>3 DEF Effect
<1>11. CASE Elsewhere(w)
  <2>1. PICK goal \in Goal, rows \in SUBSET Token : Ask(w, goal, Nobody, rows)
    BY <1>11, LiveOfRows, LiveRowsRows DEF Elsewhere, Goal
  <2> DEFINE ver == IF goal = "session" THEN 0 ELSE account.ver
             j   == [NoJob EXCEPT !.at = "asked", !.goal = goal, !.for = Nobody, !.ver = ver,
                                  !.rows = rows]
  <2>2. j \in Job /\ j.at = "asked" /\ j.goal = goal /\ j.ver = ver
    BY EmptyRows DEF SessionsInv, TypeOK, Job, NoJob, Ver
  <2>3. /\ work' = [work EXCEPT ![w] = j] /\ UNCHANGED <<tokens, account>>
        /\ used'.other = used.other + 1
    BY <1>11, <2>1 DEF SessionsInv, TypeOK, Elsewhere, Ask
  <2>4. goal # "session" => ver < used'.other
    BY <1>2, <2>3 DEF SessionsInv, TypeOK, VersionsCounted, Ver
  <2> HIDE DEF j, ver
  <2>5. Turns(w, j)
    BY <1>2, <2>2, <2>3, <2>4, NoLocksTaken DEF Turns, Sound
  <2> QED
    BY <2>2, <2>5 DEF Effect
<1>12. ASSUME NEW c \in Call, ServeLogout(w, c)
       PROVE  Effect
  <2> DEFINE rows == LiveOf(tokens[calls[c].token].session)
             j    == [NoJob EXCEPT !.at = "asked", !.goal = "session", !.for = c, !.ver = 0,
                                   !.rows = rows]
  <2>1. j \in Job /\ j.at = "asked" /\ j.goal = "session"
    BY EmptyRows, LiveOfRows DEF Job, NoJob, Ver, Goal
  <2>2. work' = [work EXCEPT ![w] = j] /\ UNCHANGED <<tokens, account, used>>
    BY <1>12 DEF ServeLogout, Ask
  <2> HIDE DEF j
  <2>3. Turns(w, j)
    BY <1>2, <2>1, <2>2, NoLocksTaken DEF Turns, Sound
  <2> QED
    BY <2>1, <2>3 DEF Effect
<1> QED
  BY <1>3, <1>4, <1>5, <1>6, <1>7, <1>8, <1>9, <1>10, <1>11, <1>12

LEMMA CallEffect ==
    ASSUME SessionsInv, NEW c \in Call,
           \/ \E t \in Tab, k \in Kind : Start(c, t, k)
           \/ Serve(c) \/ Reject(c) \/ Deny(c) \/ DeniedGuest(c) \/ Denied(c)
           \/ ServeEmptyLogout(c) \/ LoggedOut(c)
           \/ ServeSignIn(c) \/ RejectSignIn(c) \/ SignedIn(c) \/ LoseCall(c)
    PROVE  Effect
<1>1. \A w \in Worker : SameJob(work[w], work[w])
  BY DEF SameJob
<1>2. CASE ServeSignIn(c)
  <2>1. \E n \in Token : Opens(n)
    BY <1>2 DEF ServeSignIn, Opens
  <2> QED
    BY <2>1 DEF Effect
<1>3. CASE LoseCall(c)
  <2>1. work' = Abandoned(c) /\ UNCHANGED <<account, tokens, used>>
    BY <1>3 DEF LoseCall
  <2>2. \A w \in Worker : SameJob(work[w], work'[w])
    BY <2>1 DEF SessionsInv, TypeOK, Abandoned, SameJob, Job
  <2> QED
    BY <2>1, <2>2 DEF Effect, Rests
<1>4. CASE \E t \in Tab, k \in Kind : Start(c, t, k)
  <2>1. UNCHANGED <<account, tokens, work>> /\ used'.other = used.other
    BY <1>4 DEF SessionsInv, TypeOK, Start, server
  <2> QED
    BY <1>1, <2>1 DEF Effect, Rests
<1>5. CASE \/ Serve(c) \/ Reject(c) \/ Deny(c) \/ DeniedGuest(c) \/ Denied(c)
           \/ ServeEmptyLogout(c) \/ LoggedOut(c) \/ RejectSignIn(c) \/ SignedIn(c)
  <2>1. UNCHANGED <<account, tokens, work, used>>
    BY <1>5 DEF Serve, Reject, Deny, DeniedGuest, Denied, ServeEmptyLogout, LoggedOut,
                RejectSignIn, SignedIn, server
  <2> QED
    BY <1>1, <2>1 DEF Effect, Rests
<1> QED
  BY <1>2, <1>3, <1>4, <1>5

LEMMA OtherEffect ==
    ASSUME SessionsInv,
           \/ \E t \in Tab : RefuseRenewal(t) \/ Renewed(t) \/ NotRenewed(t) \/ LoseRenewal(t)
           \/ Reactivate \/ Forget \/ Age
           \/ UNCHANGED vars
    PROVE  Effect
<1>1. \A w \in Worker : SameJob(work[w], work[w])
  BY DEF SameJob
<1>2. CASE \E t \in Tab : LoseRenewal(t)
  <2>1. PICK t \in Tab : work' = Abandoned(t) /\ UNCHANGED <<account, tokens, used>>
    BY <1>2 DEF LoseRenewal
  <2>2. \A w \in Worker : SameJob(work[w], work'[w])
    BY <2>1 DEF SessionsInv, TypeOK, Abandoned, SameJob, Job
  <2> QED
    BY <2>1, <2>2 DEF Effect, Rests
<1>3. CASE Reactivate
  <2>1. account'.ver = account.ver /\ UNCHANGED <<tokens, work, used>>
    BY <1>3 DEF SessionsInv, TypeOK, Reactivate
  <2> QED
    BY <1>1, <2>1 DEF Effect, Rests
<1>4. CASE \/ \E t \in Tab : RefuseRenewal(t) \/ Renewed(t) \/ NotRenewed(t)
           \/ Forget \/ Age \/ UNCHANGED vars
  <2>1. UNCHANGED <<account, tokens, work, used>>
    BY <1>4 DEF RefuseRenewal, Renewed, NotRenewed, Forget, Age, server, vars
  <2> QED
    BY <1>1, <2>1 DEF Effect, Rests
<1> QED
  BY <1>2, <1>3, <1>4

LEMMA StepEffect == SessionsInv /\ [Next]_vars => Effect
BY WorkerEffect, CallEffect, OtherEffect DEF Next

-----------------------------------------------------------------------------
(* What each effect leaves true *)

(* The same job has the same locks. *)
LEMMA SameLocks ==
    ASSUME NEW i, NEW j, SameJob(i, j)
    PROVE  Locks(i) = Locks(j)
BY DEF Locks, SameJob

LEMMA RestsKeeps ==
    ASSUME SessionsInv, Rests
    PROVE  (OneLiveToken /\ RowsAreNamed /\ WorkIsOnRows /\ LocksDisjoint /\ VersionsCounted)'
<1>1. OneLiveToken' /\ RowsAreNamed'
  BY DEF SessionsInv, Rests, OneLiveToken, LiveRows, RowsAreNamed
<1>2. WorkIsOnRows' /\ VersionsCounted'
  BY DEF SessionsInv, Rests, SameJob, WorkIsOnRows, VersionsCounted
<1>3. LocksDisjoint'
  BY SameLocks DEF SessionsInv, Rests, LocksDisjoint
<1> QED
  BY <1>1, <1>2, <1>3

LEMMA TurnsKeeps ==
    ASSUME SessionsInv, NEW w \in Worker, NEW j \in Job, Turns(w, j)
    PROVE  (OneLiveToken /\ RowsAreNamed /\ WorkIsOnRows /\ LocksDisjoint /\ VersionsCounted)'
<1>1. work'[w] = j /\ \A v \in Worker \ {w} : work'[v] = work[v]
  BY DEF SessionsInv, TypeOK, Turns
<1>2. OneLiveToken' /\ RowsAreNamed'
  BY DEF SessionsInv, Turns, OneLiveToken, LiveRows, RowsAreNamed
<1>3. WorkIsOnRows'
  BY <1>1 DEF SessionsInv, Turns, Sound, WorkIsOnRows
<1>4. \A v \in Worker \ {w} : Locks(j) \cap Locks(work[v]) = {}
  BY DEF Turns, LockedByOthers
<1>5. LocksDisjoint'
  <2> SUFFICES ASSUME NEW u \in Worker, NEW v \in Worker, u # v
               PROVE  Locks(work'[u]) \cap Locks(work'[v]) = {}
    BY DEF LocksDisjoint
  <2>1. CASE u = w
    BY <1>1, <1>4, <2>1
  <2>2. CASE v = w
    BY <1>1, <1>4, <2>2
  <2>3. CASE u # w /\ v # w
    BY <1>1, <2>3 DEF SessionsInv, LocksDisjoint
  <2> QED
    BY <2>1, <2>2, <2>3
<1>6. VersionsCounted'
  <2>1. /\ account.ver \in Nat /\ used.other \in Nat /\ used'.other \in Nat
        /\ \A v \in Worker : work[v].ver \in Nat
    BY DEF SessionsInv, TypeOK, Ver, Job, Turns
  <2> QED
    BY <1>1, <2>1 DEF SessionsInv, Turns, Sound, VersionsCounted
<1> QED
  BY <1>2, <1>3, <1>5, <1>6

(* A request that is done has no locks, and promises nothing. *)
LEMMA DoneKeeps ==
    ASSUME SessionsInv, NEW w \in Worker, work' = [work EXCEPT ![w] = NoJob]
    PROVE  /\ work'[w].at = "idle" /\ \A v \in Worker \ {w} : work'[v] = work[v]
           /\ LocksDisjoint'
<1>1. work'[w] = NoJob /\ \A v \in Worker \ {w} : work'[v] = work[v]
  BY DEF SessionsInv, TypeOK
<1>2. Locks(NoJob) = {}
  BY DEF Locks, NoJob
<1> QED
  BY <1>1, <1>2 DEF SessionsInv, LocksDisjoint, NoJob

LEMMA EndsKeeps ==
    ASSUME SessionsInv, NEW w \in Worker, NEW rows \in SUBSET Token, Ends(w, rows)
    PROVE  (OneLiveToken /\ RowsAreNamed /\ WorkIsOnRows /\ LocksDisjoint /\ VersionsCounted)'
<1>1. /\ work'[w].at = "idle" /\ \A v \in Worker \ {w} : work'[v] = work[v]
      /\ LocksDisjoint'
  BY DoneKeeps DEF Ends
<1>2. \A t \in Token :
         /\ tokens'[t].session = tokens[t].session
         /\ tokens'[t].live <=> tokens[t].live /\ t \notin rows
  BY RevokedRows DEF SessionsInv, TypeOK, Ends
<1>3. tokens \in [Token -> TokenRow] /\ \A t \in Token : tokens[t].session \in Token \cup {0}
  BY DEF SessionsInv, TypeOK, TokenRow
<1>4. OneLiveToken'
  BY <1>2 DEF SessionsInv, OneLiveToken, LiveRows
<1>5. RowsAreNamed'
  BY <1>2, <1>3 DEF SessionsInv, RowsAreNamed
<1>6. WorkIsOnRows'
  <2> SUFFICES ASSUME NEW v \in Worker
               PROVE  /\ work'[v].at \in {"read", "held"} => work'[v].token # 0
                      /\ work'[v].at = "held" => tokens'[work'[v].token].live
    BY DEF WorkIsOnRows
  <2>1. CASE v = w
    BY <1>1, <2>1
  <2>2. CASE v # w /\ work[v].at = "held"
    <3>1. work[v].token \in Token /\ tokens[work[v].token].live
      BY <2>2 DEF SessionsInv, TypeOK, Job, WorkIsOnRows
    <3>2. work[v].token \notin rows
      BY <2>2 DEF Ends, LockedByOthers, Locks
    <3> QED
      BY <1>1, <1>2, <2>2, <3>1, <3>2 DEF SessionsInv, WorkIsOnRows
  <2>3. CASE v # w /\ work[v].at # "held"
    BY <1>1, <2>3 DEF SessionsInv, WorkIsOnRows
  <2> QED
    BY <2>1, <2>2, <2>3
<1>7. VersionsCounted'
  BY <1>1 DEF SessionsInv, Ends, VersionsCounted
<1> QED
  BY <1>1, <1>4, <1>5, <1>6, <1>7

LEMMA RotatesKeeps ==
    ASSUME SessionsInv, NEW w \in Worker, NEW n \in Token, Rotates(w, n)
    PROVE  (OneLiveToken /\ RowsAreNamed /\ WorkIsOnRows /\ LocksDisjoint /\ VersionsCounted)'
<1> DEFINE t == work[w].token
<1>1. /\ work'[w].at = "idle" /\ \A v \in Worker \ {w} : work'[v] = work[v]
      /\ LocksDisjoint'
  BY DoneKeeps DEF Rotates
<1>2. t \in Token /\ tokens[t].live /\ tokens[t].session # 0 /\ tokens[n].session = 0 /\ t # n
  BY DEF SessionsInv, TypeOK, Job, WorkIsOnRows, RowsAreNamed, Rotates, Free
<1>3. tokens \in [Token -> TokenRow] /\ \A u \in Token : tokens[u].session \in Token \cup {0}
  BY DEF SessionsInv, TypeOK, TokenRow
<1> HIDE DEF t
<1>4. /\ tokens'[n].session = tokens[t].session
      /\ tokens'[t].session = tokens[t].session
      /\ ~tokens'[t].live
      /\ \A u \in Token \ {t, n} : tokens'[u] = tokens[u]
  <2>1. tokens' = Rotated(t, n)
    BY DEF Rotates, t
  <2>2. /\ Rotated(t, n)[n] = [session |-> tokens[t].session, live |-> TRUE, next |-> 0]
        /\ Rotated(t, n)[t].session = tokens[t].session
        /\ ~Rotated(t, n)[t].live
        /\ \A u \in Token \ {t, n} : Rotated(t, n)[u] = tokens[u]
    BY <1>2, <1>3, RotatedRows, Zenon
  <2> QED
    BY <2>1, <2>2
<1>5. ~tokens[n].live
  BY <1>2 DEF SessionsInv, RowsAreNamed
<1>6. OneLiveToken'
  BY <1>2, <1>4, <1>5 DEF SessionsInv, OneLiveToken, LiveRows
<1>7. RowsAreNamed'
  BY <1>2, <1>3, <1>4 DEF SessionsInv, RowsAreNamed
<1>8. WorkIsOnRows'
  <2> SUFFICES ASSUME NEW v \in Worker
               PROVE  /\ work'[v].at \in {"read", "held"} => work'[v].token # 0
                      /\ work'[v].at = "held" => tokens'[work'[v].token].live
    BY DEF WorkIsOnRows
  <2>1. CASE v = w
    BY <1>1, <2>1
  <2>2. CASE v # w /\ work[v].at = "held"
    <3>1. work[v].token \in Token /\ tokens[work[v].token].live
      BY <2>2 DEF SessionsInv, TypeOK, Job, WorkIsOnRows
    <3>2. work[v].token # t
      BY <2>2 DEF SessionsInv, LocksDisjoint, Rotates, Locks, t
    <3>3. work[v].token # n
      BY <3>1, <1>5
    <3> QED
      BY <1>1, <1>4, <2>2, <3>1, <3>2, <3>3 DEF SessionsInv, WorkIsOnRows
  <2>3. CASE v # w /\ work[v].at # "held"
    BY <1>1, <2>3 DEF SessionsInv, WorkIsOnRows
  <2> QED
    BY <2>1, <2>2, <2>3
<1>9. VersionsCounted'
  BY <1>1 DEF SessionsInv, Rotates, VersionsCounted
<1> QED
  BY <1>1, <1>6, <1>7, <1>8, <1>9

LEMMA OpensKeeps ==
    ASSUME SessionsInv, NEW n \in Token, Opens(n)
    PROVE  (OneLiveToken /\ RowsAreNamed /\ WorkIsOnRows /\ LocksDisjoint /\ VersionsCounted)'
<1>1. tokens \in [Token -> TokenRow] /\ \A u \in Token : tokens[u].session \in Token \cup {0}
  BY DEF SessionsInv, TypeOK, TokenRow
<1>2. /\ tokens[n].session = 0 /\ ~tokens[n].live
      /\ \A u \in Token : tokens[u].session # n
  BY DEF SessionsInv, RowsAreNamed, Opens, Free, Token
<1>3. tokens'[n].session = n /\ \A u \in Token \ {n} : tokens'[u] = tokens[u]
  BY <1>1 DEF Opens
<1>4. OneLiveToken'
  BY <1>2, <1>3 DEF SessionsInv, OneLiveToken, LiveRows
<1>5. RowsAreNamed'
  BY <1>1, <1>2, <1>3 DEF SessionsInv, RowsAreNamed, Token
<1>6. WorkIsOnRows'
  <2>1. \A v \in Worker : work[v].token \in Token \cup {0}
    BY DEF SessionsInv, TypeOK, Job
  <2> QED
    BY <1>2, <1>3, <2>1 DEF SessionsInv, WorkIsOnRows, Opens
<1>7. LocksDisjoint' /\ VersionsCounted'
  BY DEF SessionsInv, Opens, LocksDisjoint, VersionsCounted
<1> QED
  BY <1>4, <1>5, <1>6, <1>7

-----------------------------------------------------------------------------
LEMMA InvInit == Init => SessionsInv
<1> SUFFICES ASSUME Init
             PROVE  SessionsInv
  OBVIOUS
<1>1. TypeOK
  BY TypeInit
<1>2. \A t \in Token : /\ tokens[t].session = (IF t = 1 THEN 1 ELSE 0)
                       /\ tokens[t].live <=> t = 1
  BY DEF Init
<1>3. OneLiveToken /\ RowsAreNamed
  BY <1>2 DEF OneLiveToken, LiveRows, RowsAreNamed, Token
<1>4. WorkIsOnRows /\ LocksDisjoint /\ VersionsCounted
  BY DEF Init, NoJob, WorkIsOnRows, LocksDisjoint, Locks, VersionsCounted
<1> QED
  BY <1>1, <1>3, <1>4 DEF SessionsInv

LEMMA InvStep == SessionsInv /\ [Next]_vars => SessionsInv'
BY TypeStep, StepEffect, RestsKeeps, TurnsKeeps, EndsKeeps, RotatesKeeps, OpensKeeps
   DEF SessionsInv, Effect

LEMMA Invariance == Spec => []SessionsInv
BY InvInit, InvStep, PTL DEF Spec

(***************************************************************************)
(* Every variable of the sessions has its type: in particular              *)
(* token_version stays within what was asked for.                          *)
(***************************************************************************)
THEOREM SessionTypes == Spec => []TypeOK
<1>1. SessionsInv => TypeOK
  BY DEF SessionsInv
<1> QED
  BY <1>1, Invariance, PTL

(***************************************************************************)
(* A session has at most one token that can be exchanged, for any number   *)
(* of tabs, of requests that the API works on at a time, and of rows.      *)
(***************************************************************************)
THEOREM SessionHasOneLiveToken == Spec => []OneLiveToken
<1>1. SessionsInv => OneLiveToken
  BY DEF SessionsInv
<1> QED
  BY <1>1, Invariance, PTL

(* No effect changes a row that is there and not live. *)
LEMMA EndedStep ==
    ASSUME SessionsInv, Effect, NEW t \in Token, tokens[t].session # 0, ~tokens[t].live
    PROVE  tokens'[t] = tokens[t]
<1>1. tokens \in [Token -> TokenRow]
  BY DEF SessionsInv, TypeOK
<1>2. CASE Rests \/ \E w \in Worker, j \in Job : Turns(w, j)
  BY <1>2 DEF Rests, Turns
<1>3. CASE \E w \in Worker, rows \in SUBSET Token : Ends(w, rows)
  BY <1>1, <1>3, RevokedRows DEF Ends
<1>4. ASSUME NEW w \in Worker, NEW n \in Token, Rotates(w, n)
      PROVE  tokens'[t] = tokens[t]
  <2>1. /\ work[w].token \in Token /\ tokens[work[w].token].live
        /\ tokens[work[w].token].session # 0 /\ tokens[n].session = 0
    BY <1>4 DEF SessionsInv, TypeOK, Job, WorkIsOnRows, RowsAreNamed, Rotates, Free
  <2>2. work[w].token # n /\ t # n /\ t # work[w].token
    BY <2>1
  <2>3. tokens' = Rotated(work[w].token, n)
    BY <1>4 DEF Rotates
  <2>4. \A u \in Token \ {work[w].token, n} : Rotated(work[w].token, n)[u] = tokens[u]
    BY <1>1, <2>1, <2>2, RotatedRows, Zenon
  <2> QED
    BY <2>2, <2>3, <2>4
<1>5. CASE \E n \in Token : Opens(n)
  BY <1>1, <1>5 DEF Opens, Free
<1> QED
  BY <1>2, <1>3, <1>4, <1>5 DEF Effect

(***************************************************************************)
(* A token that was exchanged or ended never changes: no renewal that was  *)
(* on its way gives it a successor, and no revocation or sign-out touches  *)
(* its successor's link.                                                   *)
(***************************************************************************)
THEOREM EndedTokenStaysEnded == Spec => EndedStaysEnded
<1>1. SessionsInv /\ [Next]_vars
        => [\A t \in Token : tokens[t].session # 0 /\ ~tokens[t].live => tokens'[t] = tokens[t]]_vars
  BY StepEffect, EndedStep
<1> QED
  BY <1>1, Invariance, PTL DEF Spec, EndedStaysEnded

-----------------------------------------------------------------------------
(***************************************************************************)
(* Reuse.  While no answer was lost and no two tabs renewed at a time, one *)
(* renewal is on its way at most, and one request of the API works on it.  *)
(* A token has a successor then only if the browser has the successor, or  *)
(* is about to: it is the cookie that an answered renewal will replace.    *)
(* What a sign-in opened is known to its call only, so a renewal neither   *)
(* sends it nor brings it back.                                            *)
(***************************************************************************)
Calm == ~past.lost /\ ~past.crossed

Renews(w) == work[w].at \in {"read", "held", "reused"}
Opened(c) == calls[c].at = "opened"
Carries(t) == renewal[t].at \in {"sent", "renewed"} /\ renewal[t].token # 0

(* A row that is there and has no successor. *)
Unused(x) == x \in Token /\ tokens[x].session # 0 /\ tokens[x].next = 0

OneRenewal ==
    \A t, u \in Tab : renewal[t].at # "idle" /\ renewal[u].at # "idle" => t = u

OneRequest == \A v, w \in Worker : Renews(v) /\ Renews(w) => v = w

RequestRenews ==
    \A w \in Worker : Renews(w) =>
        /\ work[w].for \in Tab
        /\ renewal[work[w].for].at = "sent"
        /\ renewal[work[w].for].token = work[w].token

RenewalIsUnused == \A t \in Tab : Carries(t) => Unused(renewal[t].token)

CookieIsUnused ==
    cookies.refresh # 0 =>
        /\ tokens[cookies.refresh].session # 0
        /\ \/ tokens[cookies.refresh].next = 0
           \/ \E t \in Tab : renewal[t].at = "renewed"

OpenedIsApart ==
    \A c \in Call : Opened(c) =>
        /\ Unused(calls[c].token)
        /\ cookies.refresh # calls[c].token
        /\ \A t \in Tab : Carries(t) => renewal[t].token # calls[c].token
        /\ \A d \in Call : Opened(d) /\ calls[d].token = calls[c].token => c = d

InUse ==
    /\ OneRenewal /\ OneRequest /\ RequestRenews
    /\ RenewalIsUnused /\ CookieIsUnused /\ OpenedIsApart
    /\ ~past.reuse

ReuseInv == Calm => InUse

(* The rows keep their sessions and successors. *)
SameChains ==
    \A x \in Token : tokens'[x].session = tokens[x].session /\ tokens'[x].next = tokens[x].next

(* Nothing new is on its way: cookies, calls and requests may go, and a    *)
(* renewal that was not successful may end.                                *)
Fades ==
    /\ SameChains
    /\ cookies'.refresh \in {cookies.refresh, 0}
    /\ \A c \in Call : calls'[c].at = "opened" => Opened(c) /\ calls'[c].token = calls[c].token
    /\ \A w \in Worker : work'[w].at \in {"read", "held", "reused"} =>
          Renews(w) /\ work'[w].for = work[w].for /\ work'[w].token = work[w].token
    /\ \A t \in Tab :
          \/ renewal'[t] = renewal[t]
          \/ /\ renewal[t].at \notin {"idle", "renewed"}
             /\ renewal'[t].at \notin {"sent", "renewed"}
             /\ \A w \in Worker : Renews(w) /\ work[w].for = t =>
                   work'[w].at \notin {"read", "held", "reused"}
    /\ past'.reuse = past.reuse

LEMMA FadesKeeps == ASSUME SessionsInv, InUse, Fades PROVE InUse'
<1>1. /\ tokens \in [Token -> TokenRow] /\ cookies.refresh \in Token \cup {0}
      /\ \A t \in Tab : renewal[t].token \in Token \cup {0}
  BY DEF SessionsInv, TypeOK, RenewalRow
<1>2. \A t \in Tab : renewal'[t].at \in {"sent", "renewed"} => renewal'[t] = renewal[t]
  BY DEF Fades
<1>3. \A x : Unused(x) => Unused(x)'
  BY DEF Fades, SameChains, Unused
<1>4. OneRenewal'
  BY DEF Fades, InUse, OneRenewal
<1>5. OneRequest'
  BY DEF Fades, InUse, OneRequest, Renews
<1>6. RequestRenews'
  <2> SUFFICES ASSUME NEW w \in Worker, Renews(w)'
               PROVE  /\ work'[w].for \in Tab
                      /\ renewal'[work'[w].for].at = "sent"
                      /\ renewal'[work'[w].for].token = work'[w].token
    BY DEF RequestRenews
  <2>1. Renews(w) /\ work'[w].for = work[w].for /\ work'[w].token = work[w].token
    BY DEF Fades, Renews
  <2>2. PICK t \in Tab : t = work[w].for
    BY <2>1 DEF InUse, RequestRenews
  <2>3. renewal'[t] = renewal[t]
    BY <2>1, <2>2 DEF Fades, Renews
  <2> QED
    BY <2>1, <2>2, <2>3 DEF InUse, RequestRenews
<1>7. RenewalIsUnused'
  BY <1>2, <1>3 DEF InUse, RenewalIsUnused, Carries
<1>8. CookieIsUnused'
  <2>1. \A t \in Tab : renewal[t].at = "renewed" => renewal'[t].at = "renewed"
    BY DEF Fades
  <2> QED
    BY <1>1, <2>1 DEF Fades, SameChains, InUse, CookieIsUnused
<1>9. OpenedIsApart'
  <2> SUFFICES ASSUME NEW c \in Call, Opened(c)'
               PROVE  /\ Unused(calls[c].token)'
                      /\ cookies'.refresh # calls'[c].token
                      /\ \A t \in Tab : Carries(t)' => renewal'[t].token # calls'[c].token
                      /\ \A d \in Call : Opened(d)' /\ calls'[d].token = calls'[c].token => c = d
    BY DEF OpenedIsApart
  <2>1. Opened(c) /\ calls'[c].token = calls[c].token
    BY DEF Fades, Opened
  <2>2. Unused(calls[c].token) /\ cookies.refresh # calls[c].token
    BY <2>1 DEF InUse, OpenedIsApart
  <2>3. Unused(calls[c].token)' /\ cookies'.refresh # calls'[c].token
    BY <2>1, <2>2 DEF Fades, SameChains, Unused, Token
  <2>4. \A t \in Tab : Carries(t)' => renewal'[t].token # calls'[c].token
    BY <1>2, <2>1 DEF InUse, OpenedIsApart, Carries
  <2>5. \A d \in Call : Opened(d)' /\ calls'[d].token = calls'[c].token => c = d
    BY <2>1 DEF Fades, InUse, OpenedIsApart, Opened
  <2> QED
    BY <2>3, <2>4, <2>5
<1> QED
  BY <1>4, <1>5, <1>6, <1>7, <1>8, <1>9 DEF InUse, Fades

(* What only reads and forgets *)
LEMMA CallsFade ==
    ASSUME SessionsInv, InUse, NEW c \in Call,
           \/ \E t \in Tab, k \in Kind : Start(c, t, k)
           \/ Serve(c) \/ Reject(c) \/ Deny(c) \/ DeniedGuest(c)
           \/ ServeEmptyLogout(c) \/ LoggedOut(c) \/ RejectSignIn(c)
    PROVE  Fades
<1>1. /\ UNCHANGED <<tokens, work, renewal, past>>
      /\ cookies'.refresh \in {cookies.refresh, 0}
  BY DEF SessionsInv, TypeOK, Start, Serve, Reject, Deny, DeniedGuest, ServeEmptyLogout,
         LoggedOut, RejectSignIn, Failed, ClearTokens, server
<1>2. /\ \A d \in Call \ {c} : calls'[d] = calls[d]
      /\ calls'[c].at # "opened"
  BY DEF SessionsInv, TypeOK, CallRow, Start, Serve, Reject, Deny, DeniedGuest,
         ServeEmptyLogout, LoggedOut, RejectSignIn, Failed, NoCall
<1> QED
  BY <1>1, <1>2 DEF Fades, SameChains, Renews, Opened

LEMMA EndedFade ==
    ASSUME SessionsInv, NEW rows
    PROVE  tokens' = Revoked(rows) => SameChains
BY RevokedRows DEF SessionsInv, TypeOK, SameChains

(* A request of the API answers its tab with a refusal. *)
LEMMA RefusedFades ==
    ASSUME SessionsInv, InUse, NEW w \in Worker, Renews(w), SameChains,
           Answered(w, work[w].for, [NoRenewal EXCEPT !.at = "expired"]),
           UNCHANGED <<cookies, calls, past>>
    PROVE  Fades
<1>1. PICK t \in Tab : t = work[w].for /\ renewal[t].at = "sent"
  BY DEF InUse, RequestRenews
<1>2. renewal'[t].at = "expired" /\ \A u \in Tab \ {t} : renewal'[u] = renewal[u]
  BY <1>1 DEF Answered, NoRenewal, SessionsInv, TypeOK
<1>3. work'[w].at = "idle" /\ \A v \in Worker \ {w} : work'[v] = work[v]
  BY DEF Answered, NoJob, SessionsInv, TypeOK
<1>4. \A v \in Worker : Renews(v) => v = w
  BY DEF InUse, OneRequest
<1> QED
  BY <1>1, <1>2, <1>3, <1>4 DEF Fades, Renews, Opened

LEMMA Asks ==
    ASSUME SessionsInv, NEW w \in Worker, NEW goal, NEW for, NEW rows, Ask(w, goal, for, rows)
    PROVE  work'[w].at = "asked" /\ \A v \in Worker \ {w} : work'[v] = work[v]
<1> DEFINE job == [NoJob EXCEPT !.at = "asked", !.goal = goal, !.for = for,
                     !.ver = IF goal = "session" THEN 0 ELSE account.ver, !.rows = rows]
<1>1. work' = [work EXCEPT ![w] = job]
  BY DEF Ask
<1>2. job.at = "asked"
  BY DEF NoJob
<1> HIDE DEF job
<1> QED
  BY <1>1, <1>2 DEF SessionsInv, TypeOK

LEMMA WorkFades ==
    ASSUME SessionsInv, InUse, NEW w \in Worker,
           \/ LockLive(w) \/ LockEnded(w) \/ EndReused(w)
           \/ Mark(w) \/ CommitEnd(w) \/ Elsewhere(w)
           \/ \E c \in Call : ServeLogout(w, c)
    PROVE  Fades
<1> USE DEF SessionsInv, TypeOK
<1>1. CASE LockLive(w)
  <2>1. /\ work'[w].for = work[w].for /\ work'[w].token = work[w].token
        /\ \A v \in Worker \ {w} : work'[v] = work[v]
    BY <1>1 DEF LockLive, Job
  <2> QED
    BY <1>1, <2>1 DEF LockLive, Fades, SameChains, Renews, Opened
<1>2. CASE LockEnded(w)
  BY <1>2, RefusedFades DEF LockEnded, Renews, SameChains
<1>3. CASE EndReused(w)
  BY <1>3, RefusedFades, EndedFade DEF EndReused, Renews
<1>4. CASE Mark(w)
  <2>1. work'[w].at = "marked" /\ \A v \in Worker \ {w} : work'[v] = work[v]
    BY <1>4 DEF Mark, Job
  <2> QED
    BY <1>4, <2>1 DEF Mark, Fades, SameChains, Renews, Opened
<1>5. CASE CommitEnd(w)
  <2>1. work'[w].at = "idle" /\ \A v \in Worker \ {w} : work'[v] = work[v]
    BY <1>5 DEF CommitEnd, NoJob
  <2>2. \A c \in Call : calls'[c].at = "opened" => calls'[c] = calls[c]
    BY <1>5 DEF CommitEnd, CallRow
  <2> QED
    BY <1>5, <2>1, <2>2, EndedFade DEF CommitEnd, Fades, Renews, Opened
<1>6. CASE Elsewhere(w)
  <2>1. work'[w].at = "asked" /\ \A v \in Worker \ {w} : work'[v] = work[v]
    <3>1. \E goal \in Goal, rows \in SUBSET Token : Ask(w, goal, Nobody, rows)
      BY <1>6, LiveOfRows, LiveRowsRows DEF Elsewhere, Goal
    <3> QED
      BY <3>1, Asks
  <2> QED
    BY <1>6, <2>1 DEF Elsewhere, Fades, SameChains, Renews, Opened
<1>7. CASE \E c \in Call : ServeLogout(w, c)
  <2>1. PICK c \in Call : ServeLogout(w, c)
    BY <1>7
  <2>2. work'[w].at = "asked" /\ \A v \in Worker \ {w} : work'[v] = work[v]
    BY <2>1, Asks DEF ServeLogout
  <2>3. calls'[c].at = "ending" /\ \A d \in Call \ {c} : calls'[d] = calls[d]
    <3> DEFINE row == [calls[c] EXCEPT !.at = "ending", !.access = NoAccess, !.token = 0]
    <3>1. calls' = [calls EXCEPT ![c] = row] /\ calls[c] \in CallRow
      BY <2>1 DEF ServeLogout
    <3>2. row.at = "ending"
      BY <3>1 DEF CallRow
    <3> HIDE DEF row
    <3> QED
      BY <3>1, <3>2
  <2> QED
    BY <2>1, <2>2, <2>3 DEF ServeLogout, Fades, SameChains, Renews, Opened
<1> QED
  BY <1>1, <1>2, <1>3, <1>4, <1>5, <1>6, <1>7

LEMMA TabsFade ==
    ASSUME SessionsInv, InUse, NEW t \in Tab, RefuseRenewal(t) \/ NotRenewed(t)
    PROVE  Fades
<1>1. CASE RefuseRenewal(t)
  <2>1. /\ renewal[t].at = "sent" /\ \A w \in Worker : work[w].for # t
        /\ renewal'[t].at \in {"expired", "refused"}
        /\ \A u \in Tab \ {t} : renewal'[u] = renewal[u]
    BY <1>1 DEF RefuseRenewal, Arrives, NoRenewal, SessionsInv, TypeOK
  <2> QED
    BY <1>1, <2>1 DEF RefuseRenewal, Fades, SameChains, Renews, Opened
<1>2. CASE NotRenewed(t)
  <2>1. /\ renewal[t].at \in {"expired", "refused"} /\ renewal'[t].at = "idle"
        /\ \A u \in Tab \ {t} : renewal'[u] = renewal[u]
        /\ cookies'.refresh \in {cookies.refresh, 0}
    BY <1>2 DEF NotRenewed, GiveUp, NoRenewal, SessionsInv, TypeOK
  <2>2. \A w \in Worker : ~(Renews(w) /\ work[w].for = t)
    BY <2>1 DEF InUse, RequestRenews
  <2>3. \A c \in Call : calls'[c].at = "opened" => calls'[c] = calls[c]
    BY <1>2 DEF NotRenewed, GiveUp, NoCall, SessionsInv, TypeOK
  <2> QED
    BY <1>2, <2>1, <2>2, <2>3 DEF NotRenewed, server, Fades, SameChains, Renews, Opened
<1> QED
  BY <1>1, <1>2

LEMMA RestFades ==
    ASSUME SessionsInv, InUse, Reactivate \/ Forget \/ Age \/ UNCHANGED vars
    PROVE  Fades
<1>1. UNCHANGED <<tokens, work, renewal, calls, past>> /\ cookies'.refresh = cookies.refresh
  BY DEF SessionsInv, TypeOK, Reactivate, Forget, Age, server, vars
<1> QED
  BY <1>1 DEF Fades, SameChains, Renews, Opened

(* What puts a token on its way *)

(* The one renewal is taken up by the API. *)
LEMMA ReadsKeep ==
    ASSUME SessionsInv, InUse, NEW w \in Worker, NEW t \in Tab, ReadUser(w, t)
    PROVE  InUse'
<1>1. /\ work'[w].at = "read" /\ work'[w].for = t /\ work'[w].token = renewal[t].token
      /\ \A v \in Worker \ {w} : work'[v] = work[v]
  <2> DEFINE job == [NoJob EXCEPT !.at = "read", !.for = t, !.token = renewal[t].token,
                                  !.ver = account.ver]
  <2>1. work' = [work EXCEPT ![w] = job]
    BY DEF ReadUser
  <2>2. job.at = "read" /\ job.for = t /\ job.token = renewal[t].token
    BY DEF NoJob
  <2> HIDE DEF job
  <2> QED
    BY <2>1, <2>2 DEF SessionsInv, TypeOK
<1>2. renewal[t].at = "sent" /\ \A v \in Worker : work[v].for # t
  BY DEF ReadUser, Arrives
<1>3. \A v \in Worker : ~Renews(v)
  BY <1>2 DEF InUse, OneRenewal, RequestRenews
<1>4. OneRequest' /\ RequestRenews'
  BY <1>1, <1>2, <1>3 DEF OneRequest, RequestRenews, Renews, ReadUser
<1>5. (OneRenewal /\ RenewalIsUnused /\ CookieIsUnused /\ OpenedIsApart /\ ~past.reuse)'
  BY DEF InUse, ReadUser, OneRenewal, RenewalIsUnused, CookieIsUnused, OpenedIsApart,
         Carries, Unused, Opened
<1> QED
  BY <1>4, <1>5 DEF InUse

(* The token of a request has no successor. *)
LEMMA NotReplaced == ASSUME SessionsInv, InUse, NEW w \in Worker PROVE ~LockReplaced(w)
<1> SUFFICES ASSUME LockReplaced(w) PROVE FALSE
  OBVIOUS
<1>1. Renews(w) /\ work[w].token # 0
  BY DEF LockReplaced, Renews, SessionsInv, WorkIsOnRows
<1>2. PICK t \in Tab : renewal[t].at = "sent" /\ renewal[t].token = work[w].token
  BY <1>1 DEF InUse, RequestRenews
<1>3. Unused(work[w].token)
  BY <1>1, <1>2 DEF InUse, RenewalIsUnused, Carries
<1> QED
  BY <1>3 DEF LockReplaced, Unused

(* The renewal is successful: its token has a successor, and only the      *)
(* cookie may still be the token.                                          *)
LEMMA RenewalKeeps ==
    ASSUME SessionsInv, InUse, NEW w \in Worker, CommitRenewal(w)
    PROVE  InUse'
<1>1. Renews(w) /\ work[w].token # 0 /\ work[w].token \in Token
  BY DEF CommitRenewal, Renews, SessionsInv, WorkIsOnRows, TypeOK, Job
<1>2. PICK t \in Tab : t = work[w].for /\ renewal[t].at = "sent" /\ renewal[t].token = work[w].token
  BY <1>1 DEF InUse, RequestRenews
<1> DEFINE x == work[w].token
<1>3. x \in Token /\ Unused(x)
  BY <1>1, <1>2 DEF InUse, RenewalIsUnused, Carries
<1>4. PICK n \in Token : /\ Free(n) /\ tokens' = Rotated(x, n)
                         /\ Answered(w, t, [at |-> "renewed", token |-> n, ver |-> work[w].ver])
  BY <1>2 DEF CommitRenewal
<1>5. n # x /\ tokens[n].session = 0
  BY <1>3, <1>4 DEF Free, Unused
<1>6. /\ tokens'[n].session = tokens[x].session /\ tokens'[n].next = 0
      /\ tokens'[x].session = tokens[x].session
      /\ \A y \in Token \ {x, n} : tokens'[y] = tokens[y]
  <2>1. tokens \in [Token -> TokenRow]
    BY DEF SessionsInv, TypeOK
  <2>2. /\ Rotated(x, n)[n] = [session |-> tokens[x].session, live |-> TRUE, next |-> 0]
        /\ Rotated(x, n)[x].session = tokens[x].session
        /\ \A u \in Token \ {x, n} : Rotated(x, n)[u] = tokens[u]
    BY <1>3, <1>5, <2>1, RotatedRows
  <2> QED
    BY <1>4, <2>2
<1>7. /\ renewal'[t].at = "renewed" /\ renewal'[t].token = n
      /\ \A u \in Tab \ {t} : renewal'[u] = renewal[u]
  BY <1>4 DEF Answered, SessionsInv, TypeOK
<1>8. work'[w].at = "idle" /\ \A v \in Worker \ {w} : work'[v] = work[v]
  BY <1>4 DEF Answered, NoJob, SessionsInv, TypeOK
<1>9. UNCHANGED <<cookies, calls, past>>
  BY DEF CommitRenewal
<1> HIDE DEF x
<1>10. Unused(n)' /\ \A y : Unused(y) /\ y # x => Unused(y)' /\ y # n
  BY <1>3, <1>5, <1>6 DEF Unused
<1>11. OneRenewal'
  BY <1>2, <1>7 DEF InUse, OneRenewal
<1>12. \A v \in Worker : ~Renews(v)'
  BY <1>1, <1>8 DEF InUse, OneRequest, Renews
<1>13. \A u \in Tab : Carries(u)' => u = t
  BY <1>2, <1>7 DEF InUse, OneRenewal, Carries
<1>14. RenewalIsUnused'
  BY <1>7, <1>10, <1>13 DEF RenewalIsUnused
<1>15. CookieIsUnused'
  <2>1. cookies.refresh # 0 => cookies.refresh \in Token \ {n}
    BY <1>5 DEF InUse, CookieIsUnused, SessionsInv, TypeOK
  <2>2. cookies.refresh # 0 => tokens'[cookies.refresh].session # 0
    BY <1>3, <1>6, <2>1 DEF InUse, CookieIsUnused, Unused
  <2> QED
    BY <1>7, <1>9, <2>2 DEF CookieIsUnused
<1>16. OpenedIsApart'
  <2>1. \A c \in Call : Opened(c) => Unused(calls[c].token) /\ calls[c].token # x
    BY <1>1, <1>2 DEF x, InUse, OpenedIsApart, Carries
  <2>2. \A c \in Call : Opened(c) => Unused(calls[c].token)' /\ calls[c].token # n
    BY <1>9, <1>10, <2>1
  <2> QED
    BY <1>7, <1>9, <1>13, <2>2 DEF InUse, OpenedIsApart, Opened
<1> QED
  BY <1>9, <1>11, <1>12, <1>14, <1>15, <1>16 DEF InUse, OneRequest, RequestRenews

(* A tab renews, and no other one does: its cookie has no successor. *)
LEMMA DeniedKeeps ==
    ASSUME SessionsInv, InUse, NEW c \in Call, Denied(c), ~past'.crossed
    PROVE  InUse'
<1> DEFINE t == calls[c].tab
<1>1. /\ calls'[c].at = "waiting" /\ \A d \in Call \ {c} : calls'[d] = calls[d]
      /\ UNCHANGED <<tokens, work, cookies>> /\ past'.reuse = past.reuse
  BY DEF Denied, server, SessionsInv, TypeOK, CallRow
<1>2. CASE UNCHANGED renewal
  <2>1. Fades
    BY <1>1, <1>2 DEF Fades, SameChains, Renews, Opened
  <2> QED
    BY <2>1, FadesKeeps
<1>3. CASE ~UNCHANGED renewal
  <2>1. /\ ~Joins(t)
        /\ renewal' = [renewal EXCEPT ![t] = [NoRenewal EXCEPT !.at = "sent",
                                                               !.token = cookies.refresh]]
        /\ past' = [past EXCEPT !.crossed = @ \/ \E u \in Tab \ {t} : renewal[u].at # "idle"]
    BY <1>3 DEF Denied
  <2>2. t \in Tab
    BY <1>3, <2>1 DEF SessionsInv, TypeOK
  <2>3. \A u \in Tab : renewal[u].at = "idle"
    BY <2>1, <2>2 DEF Joins, SessionsInv, TypeOK
  <2>4. /\ renewal'[t].at = "sent" /\ renewal'[t].token = cookies.refresh
        /\ \A u \in Tab \ {t} : renewal'[u] = renewal[u]
    BY <2>1, <2>2 DEF NoRenewal, SessionsInv, TypeOK
  <2> HIDE DEF t
  <2>5. \A w \in Worker : ~Renews(w)
    BY <2>3 DEF InUse, RequestRenews
  <2>6. cookies.refresh # 0 => Unused(cookies.refresh)
    BY <2>3 DEF InUse, CookieIsUnused, Unused, SessionsInv, TypeOK
  <2>7. OneRenewal' /\ OneRequest' /\ RequestRenews'
    BY <1>1, <2>3, <2>4, <2>5 DEF OneRenewal, OneRequest, RequestRenews, Renews
  <2>8. RenewalIsUnused' /\ CookieIsUnused'
    BY <1>1, <2>3, <2>4, <2>6 DEF RenewalIsUnused, CookieIsUnused, Carries, Unused
  <2>9. OpenedIsApart'
    BY <1>1, <2>3, <2>4 DEF InUse, OpenedIsApart, Opened, Carries, Unused
  <2> QED
    BY <1>1, <2>7, <2>8, <2>9 DEF InUse
<1> QED
  BY <1>2, <1>3

(* The browser takes the successor over. *)
LEMMA RenewedKeeps ==
    ASSUME SessionsInv, InUse, NEW t \in Tab, Renewed(t)
    PROVE  InUse'
<1>1. /\ renewal[t].at = "renewed" /\ renewal'[t].at = "idle"
      /\ \A u \in Tab \ {t} : renewal'[u] = renewal[u]
      /\ cookies'.refresh = renewal[t].token
      /\ UNCHANGED <<tokens, work, past>>
  BY DEF Renewed, NoRenewal, server, SessionsInv, TypeOK
<1>2. \A c \in Call : calls'[c].at = "opened" => calls'[c] = calls[c]
  <2> SUFFICES ASSUME NEW c \in Call, calls'[c].at = "opened" PROVE calls'[c] = calls[c]
    OBVIOUS
  <2> DEFINE new == [on |-> TRUE, ver |-> renewal[t].ver, fresh |-> TRUE]
             token == IF calls[c].kind = "logout" THEN renewal[t].token ELSE 0
  <2>1. CASE c \in Waiting(t)
    <3>1. calls'[c] = [calls[c] EXCEPT !.at = "resent", !.access = new, !.token = token]
      BY <2>1 DEF Renewed
    <3> HIDE DEF new, token
    <3> QED
      BY <3>1 DEF SessionsInv, TypeOK, CallRow
  <2> QED
    BY <2>1 DEF Renewed
<1>3. \A w \in Worker : ~Renews(w)
  BY <1>1 DEF InUse, OneRenewal, RequestRenews
<1>4. \A u \in Tab : renewal'[u].at = "idle"
  BY <1>1 DEF InUse, OneRenewal
<1>5. (OneRenewal /\ OneRequest /\ RequestRenews /\ RenewalIsUnused)'
  BY <1>1, <1>3, <1>4 DEF OneRenewal, OneRequest, RequestRenews, RenewalIsUnused, Renews, Carries
<1>6. renewal[t].token # 0 => Unused(renewal[t].token)
  BY <1>1 DEF InUse, RenewalIsUnused, Carries
<1>7. CookieIsUnused'
  BY <1>1, <1>6 DEF CookieIsUnused, Unused
<1>8. OpenedIsApart'
  <2>1. \A c \in Call : Opened(c) =>
            Unused(calls[c].token) /\ renewal[t].token # calls[c].token
    BY <1>1 DEF InUse, OpenedIsApart, Carries, Unused, Token
  <2> QED
    BY <1>1, <1>2, <1>4, <2>1 DEF InUse, OpenedIsApart, Opened, Carries, Unused
<1> QED
  BY <1>1, <1>5, <1>7, <1>8 DEF InUse

(* A session is opened: nobody but the call knows its token. *)
LEMMA OpenedKeeps ==
    ASSUME SessionsInv, InUse, NEW c \in Call, ServeSignIn(c)
    PROVE  InUse'
<1>1. PICK n \in Token :
          /\ Free(n)
          /\ tokens' = [tokens EXCEPT ![n] = [session |-> n, live |-> TRUE, next |-> 0]]
          /\ calls' = [calls EXCEPT ![c] = [calls[c] EXCEPT !.at = "opened", !.token = n,
                          !.access = [on |-> TRUE, ver |-> account.ver, fresh |-> TRUE]]]
  BY DEF ServeSignIn
<1>2. /\ tokens[n].session = 0
      /\ tokens'[n].session = n /\ tokens'[n].next = 0
      /\ \A y \in Token \ {n} : tokens'[y] = tokens[y]
  BY <1>1 DEF Free, SessionsInv, TypeOK
<1>3. calls'[c].at = "opened" /\ calls'[c].token = n /\ \A d \in Call \ {c} : calls'[d] = calls[d]
  BY <1>1 DEF SessionsInv, TypeOK, CallRow
<1>4. UNCHANGED <<work, cookies, renewal, past>> /\ ~Opened(c)
  BY DEF ServeSignIn, Opened
<1>5. Unused(n)' /\ \A y : Unused(y) => Unused(y)' /\ y # n
  BY <1>2 DEF Unused, Token
<1>6. (OneRenewal /\ OneRequest /\ RequestRenews)'
  BY <1>4 DEF InUse, OneRenewal, OneRequest, RequestRenews, Renews
<1>7. RenewalIsUnused'
  BY <1>4, <1>5 DEF InUse, RenewalIsUnused, Carries
<1>8. cookies.refresh # n
  BY <1>2 DEF InUse, CookieIsUnused, Token
<1>9. CookieIsUnused'
  BY <1>2, <1>4, <1>8 DEF InUse, CookieIsUnused, SessionsInv, TypeOK
<1>10. OpenedIsApart'
  <2>1. \A t \in Tab : Carries(t) => renewal[t].token # n
    BY <1>5 DEF InUse, RenewalIsUnused
  <2>2. \A d \in Call : Opened(d) => Unused(calls[d].token)' /\ calls[d].token # n
    BY <1>3, <1>4, <1>5 DEF InUse, OpenedIsApart, Opened
  <2> QED
    BY <1>3, <1>4, <1>5, <1>8, <2>1, <2>2 DEF InUse, OpenedIsApart, Opened, Carries
<1> QED
  BY <1>4, <1>6, <1>7, <1>9, <1>10 DEF InUse

(* The browser is signed in with what was opened. *)
LEMMA SignedInKeeps ==
    ASSUME SessionsInv, InUse, NEW c \in Call, SignedIn(c)
    PROVE  InUse'
<1>1. /\ Opened(c) /\ cookies'.refresh = calls[c].token
      /\ UNCHANGED <<tokens, work, renewal, past>>
      /\ calls'[c].at = "idle" /\ \A d \in Call \ {c} : calls'[d] = calls[d]
  BY DEF SignedIn, Opened, NoCall, server, SessionsInv, TypeOK
<1>2. Unused(calls[c].token)
  BY <1>1 DEF InUse, OpenedIsApart
<1>3. (OneRenewal /\ OneRequest /\ RequestRenews /\ RenewalIsUnused)'
  BY <1>1 DEF InUse, OneRenewal, OneRequest, RequestRenews, RenewalIsUnused, Renews, Carries, Unused
<1>4. CookieIsUnused'
  BY <1>1, <1>2 DEF CookieIsUnused, Unused
<1>5. OpenedIsApart'
  BY <1>1 DEF InUse, OpenedIsApart, Opened, Carries, Unused
<1> QED
  BY <1>1, <1>3, <1>4, <1>5 DEF InUse

(* What has happened stays happened. *)
LEMMA PastStays == ASSUME SessionsInv, [Next]_vars PROVE Calm' => Calm
<1> USE DEF Calm, SessionsInv, TypeOK
<1>1. CASE \E w \in Worker :
              \/ \E t \in Tab : ReadUser(w, t)
              \/ LockLive(w) \/ LockReplaced(w) \/ LockEnded(w) \/ EndReused(w)
              \/ CommitRenewal(w)
              \/ Mark(w) \/ CommitEnd(w) \/ Elsewhere(w)
              \/ \E c \in Call : ServeLogout(w, c)
  BY <1>1 DEF ReadUser, LockLive, LockReplaced, LockEnded, EndReused, CommitRenewal, Mark,
              CommitEnd, Elsewhere, ServeLogout
<1>2. CASE \E c \in Call :
              \/ \E t \in Tab, k \in Kind : Start(c, t, k)
              \/ Serve(c) \/ Reject(c) \/ Deny(c) \/ DeniedGuest(c)
              \/ ServeEmptyLogout(c) \/ LoggedOut(c)
              \/ ServeSignIn(c) \/ RejectSignIn(c) \/ SignedIn(c)
  BY <1>2 DEF Start, Serve, Reject, Deny, DeniedGuest, ServeEmptyLogout, LoggedOut,
              ServeSignIn, RejectSignIn, SignedIn
<1>3. CASE \E c \in Call : Denied(c)
  BY <1>3 DEF Denied
<1>4. CASE \E c \in Call : LoseCall(c)
  BY <1>4 DEF LoseCall
<1>5. CASE \E t \in Tab : LoseRenewal(t)
  BY <1>5 DEF LoseRenewal
<1>6. CASE \/ \E t \in Tab : RefuseRenewal(t) \/ Renewed(t) \/ NotRenewed(t)
           \/ Reactivate \/ Forget \/ Age \/ UNCHANGED vars
  BY <1>6 DEF RefuseRenewal, Renewed, NotRenewed, Reactivate, Forget, Age, vars
<1> QED
  BY <1>1, <1>2, <1>3, <1>4, <1>5, <1>6 DEF Next

LEMMA InUseStep == ASSUME SessionsInv, InUse, Calm', [Next]_vars PROVE InUse'
<1>1. \A w \in Worker, t \in Tab : ReadUser(w, t) => InUse'
  BY ReadsKeep
<1>2. \A w \in Worker : /\ ~LockReplaced(w)
                        /\ CommitRenewal(w) => InUse'
  BY NotReplaced, RenewalKeeps
<1>3. ASSUME NEW w \in Worker,
             \/ LockLive(w) \/ LockEnded(w) \/ EndReused(w)
             \/ Mark(w) \/ CommitEnd(w) \/ Elsewhere(w)
             \/ \E c \in Call : ServeLogout(w, c)
      PROVE  InUse'
  BY <1>3, WorkFades, FadesKeeps
<1>4. ASSUME NEW c \in Call,
             \/ \E t \in Tab, k \in Kind : Start(c, t, k)
             \/ Serve(c) \/ Reject(c) \/ Deny(c) \/ DeniedGuest(c)
             \/ ServeEmptyLogout(c) \/ LoggedOut(c) \/ RejectSignIn(c)
      PROVE  InUse'
  BY <1>4, CallsFade, FadesKeeps
<1>5. ASSUME NEW c \in Call, Denied(c) \/ ServeSignIn(c) \/ SignedIn(c)
      PROVE  InUse'
  BY <1>5, DeniedKeeps, OpenedKeeps, SignedInKeeps DEF Calm
<1>6. ASSUME NEW t \in Tab, RefuseRenewal(t) \/ NotRenewed(t) \/ Renewed(t)
      PROVE  InUse'
  BY <1>6, TabsFade, FadesKeeps, RenewedKeeps
<1>7. ASSUME Reactivate \/ Forget \/ Age \/ UNCHANGED vars
      PROVE  InUse'
  BY <1>7, RestFades, FadesKeeps
<1>8. (\A c \in Call : ~LoseCall(c)) /\ (\A t \in Tab : ~LoseRenewal(t))
  BY DEF Calm, LoseCall, LoseRenewal, SessionsInv, TypeOK
<1> QED
  BY <1>1, <1>2, <1>3, <1>4, <1>5, <1>6, <1>7, <1>8 DEF Next

(***************************************************************************)
(* The API ends no session for a reused token unless an answer was lost or *)
(* two tabs renewed at a time, for any number of tabs, of calls and of     *)
(* sign-ins between them.                                                  *)
(***************************************************************************)
THEOREM NoSessionEndsInError == Spec => []NoFalseReuse
<1>1. Init => ReuseInv
  BY DEF Init, ReuseInv, InUse, OneRenewal, OneRequest, RequestRenews, RenewalIsUnused,
         CookieIsUnused, OpenedIsApart, Renews, Opened, Carries, Unused, NoJob, NoCall,
         NoRenewal, Token
<1>2. SessionsInv /\ ReuseInv /\ [Next]_vars => ReuseInv'
  BY PastStays, InUseStep DEF ReuseInv
<1>3. ReuseInv => NoFalseReuse
  BY DEF ReuseInv, InUse, Calm, NoFalseReuse
<1> QED
  BY <1>1, <1>2, <1>3, Invariance, PTL DEF Spec
=============================================================================
