------------------------------ MODULE Sessions ------------------------------
(***************************************************************************)
(* The sessions of one user (backend/app/services/auth_service.py,         *)
(* api/deps.py, core/auth_cache.py) and one browser that uses them         *)
(* (frontend/lib/api.ts, hooks/use-auth.ts).  A session is a chain of      *)
(* refresh tokens, of which each is exchanged once for its successor.      *)
(* The tabs of the browser share its cookies.  A tab whose call is         *)
(* answered 401 renews the access token, with one renewal at a time in     *)
(* each tab, and repeats the call.                                         *)
(*                                                                         *)
(* A renewal is three steps of the API: it reads the user, it locks the    *)
(* row of the token, it commits.  What ends sessions is three steps too:   *)
(* the statement takes its snapshot, it has waited for the row locks, it   *)
(* commits.  A statement does not see a row that is inserted after its     *)
(* snapshot.  Of a token's expiry times only that of the access token is   *)
(* kept, the refresh token's is seven days away.                           *)
(***************************************************************************)
EXTENDS Naturals, FiniteSets

CONSTANTS
    Tab,        \* tabs of the browser
    Call,       \* calls of the tabs that are in flight at the same time
    Worker,     \* requests the API works on at the same time
    Nobody,     \* whoever waited has gone
    MaxToken,   \* bound: rows of refresh_tokens
    MaxClicks,  \* bound: calls the tabs start
    MaxOther    \* bound: what is done from elsewhere

ASSUME SessionsAssumption ==
    /\ Nobody \notin Tab \cup Call
    /\ MaxToken \in Nat \ {0}
    /\ MaxClicks \in Nat
    /\ MaxOther \in Nat

VARIABLES
    account,    \* the row of users
    tokens,     \* the rows of refresh_tokens
    status,     \* user:status:{id} in Redis
    work,       \* the requests the API works on
    cookies,    \* of the browser
    calls,      \* of the tabs
    renewal,    \* refreshPromise of each tab
    used,       \* calls started, and acts of others
    past        \* what has happened: a lost answer, two tabs renewing, a reuse

server == <<account, tokens, status, work>>
vars == <<account, tokens, status, work, cookies, calls, renewal, used, past>>

Token == 1..MaxToken
Ver   == 0..MaxOther      \* token_version: only others raise it

(* A row that is not there belongs to session 0; a session is named after  *)
(* its first token.  next is replaced_by.                                  *)
TokenRow == [session : Token \cup {0}, live : BOOLEAN, next : Token \cup {0}]

(* What a request carries: an access token, and the refresh cookie *)
Access  == [on : BOOLEAN, ver : Ver, fresh : BOOLEAN]
NoAccess == [on |-> FALSE, ver |-> 0, fresh |-> FALSE]

Goal == {"renew", "session", "all", "off"}
Job  == [at : {"idle", "read", "held", "reused", "asked", "marked"}, goal : Goal,
         for : Tab \cup Call \cup {Nobody}, token : Token \cup {0}, ver : Ver,
         rows : SUBSET Token]
NoJob == [at |-> "idle", goal |-> "renew", for |-> Nobody, token |-> 0, ver |-> 0,
          rows |-> {}]

Kind == {"page", "me", "avatar", "logout", "signin"}
CallAt == {"idle", "sent", "denied", "waiting", "resent", "ending", "ended", "opened"}
CallRow == [at : CallAt, kind : Kind, tab : Tab \cup {Nobody}, access : Access,
            token : Token \cup {0}]
NoCall == [at |-> "idle", kind |-> "page", tab |-> Nobody, access |-> NoAccess,
           token |-> 0]

RenewalRow == [at : {"idle", "sent", "renewed", "expired", "refused"},
               token : Token \cup {0}, ver : Ver]
NoRenewal == [at |-> "idle", token |-> 0, ver |-> 0]

(***************************************************************************)
(* Every variable has its type.                                            *)
(***************************************************************************)
TypeOK ==
    /\ account \in [active : BOOLEAN, ver : Ver]
    /\ tokens \in [Token -> TokenRow]
    /\ status \in [on : BOOLEAN, active : BOOLEAN, ver : Ver]
    /\ work \in [Worker -> Job]
    /\ cookies \in [access : Access, refresh : Token \cup {0}]
    /\ calls \in [Call -> CallRow]
    /\ renewal \in [Tab -> RenewalRow]
    /\ used \in [clicks : 0..MaxClicks, other : 0..MaxOther]
    /\ past \in [lost : BOOLEAN, crossed : BOOLEAN, reuse : BOOLEAN]

NoStatus == [on |-> FALSE, active |-> FALSE, ver |-> 0]

Init ==
    /\ account = [active |-> TRUE, ver |-> 0]
    /\ tokens = [t \in Token |-> [session |-> IF t = 1 THEN 1 ELSE 0, live |-> t = 1,
                                  next |-> 0]]
    /\ status = NoStatus
    /\ work = [w \in Worker |-> NoJob]
    /\ \E refresh \in {0, 1} :      \* a browser may drop the cookie of another site
          cookies = [access |-> [on |-> TRUE, ver |-> 0, fresh |-> TRUE], refresh |-> refresh]
    /\ calls = [c \in Call |-> NoCall]
    /\ renewal = [t \in Tab |-> NoRenewal]
    /\ used = [clicks |-> 0, other |-> 0]
    /\ past = [lost |-> FALSE, crossed |-> FALSE, reuse |-> FALSE]

-----------------------------------------------------------------------------
(* The rows of refresh_tokens *)

Free(t) == tokens[t].session = 0 /\ \A u \in Token : u < t => tokens[u].session # 0

LiveOf(s) == {t \in Token : tokens[t].session = s /\ tokens[t].live}
LiveRows  == {t \in Token : tokens[t].live}

(* revoke_all_for_session, revoke_all_for_user: revoked_at of rows *)
Revoked(rows) ==
    [t \in Token |-> IF t \in rows THEN [tokens[t] EXCEPT !.live = FALSE] ELSE tokens[t]]

(* Rows a transaction other than w's has locked and not committed *)
Locks(j) ==
    CASE j.at = "held"   -> {j.token}
      [] j.at = "marked" -> j.rows
      [] OTHER           -> {}
NoLocks(w) == {}     \* mutant: get_by_hash without for_update
LockedByOthers(w) == UNION {Locks(work[v]) : v \in Worker \ {w}}

-----------------------------------------------------------------------------
(* The API: who may enter (api/deps.py) *)

(* get_current_user takes a cached status, get_current_user_fresh does not *)
Cached(k) == k \in {"page", "logout"}

StatusHit(c) ==
    /\ Cached(calls[c].kind)
    /\ status.on /\ status.active
    /\ calls[c].access.ver = status.ver

Decoded(c) == calls[c].access.on /\ calls[c].access.fresh

Admitted(c)     == Decoded(c) /\ (StatusHit(c) \/ (account.active /\ calls[c].access.ver = account.ver))
Forbidden(c)    == Decoded(c) /\ ~StatusHit(c) /\ ~account.active
Unauthorized(c) == ~Admitted(c) /\ ~Forbidden(c)

(* The row that was read is written to the cache. *)
Refill(c) ==
    status' = IF Cached(calls[c].kind) /\ ~StatusHit(c)
              THEN [on |-> TRUE, active |-> account.active, ver |-> account.ver]
              ELSE status

-----------------------------------------------------------------------------
(* The API: renewing (AuthService.refresh) *)

Answered(w, t, answer) ==
    /\ work' = [work EXCEPT ![w] = NoJob]
    /\ renewal' = IF t \in Tab THEN [renewal EXCEPT ![t] = answer] ELSE renewal

(* The request of the tab has not been taken up. *)
Arrives(t) == renewal[t].at = "sent" /\ \A w \in Worker : work[w].for # t

(* No cookie is 401, an account that is not active is 403. *)
RefuseRenewal(t) ==
    /\ Arrives(t)
    /\ \/ /\ renewal[t].token = 0
          /\ renewal' = [renewal EXCEPT ![t] = [NoRenewal EXCEPT !.at = "expired"]]
       \/ /\ renewal[t].token # 0 /\ ~account.active
          /\ renewal' = [renewal EXCEPT ![t] = [NoRenewal EXCEPT !.at = "refused"]]
    /\ UNCHANGED <<account, tokens, status, work, cookies, calls, used, past>>

(* The user is read, the row of the token is not. *)
ReadUser(w, t) ==
    /\ work[w].at = "idle"
    /\ Arrives(t) /\ renewal[t].token # 0 /\ account.active
    /\ work' = [work EXCEPT ![w] = [NoJob EXCEPT !.at = "read", !.for = t,
                                    !.token = renewal[t].token, !.ver = account.ver]]
    /\ UNCHANGED <<account, tokens, status, cookies, calls, renewal, used, past>>

(* The row is locked, FOR UPDATE, and it is live. *)
LockLive(w) ==
    LET row == tokens[work[w].token] IN
    /\ work[w].at = "read"
    /\ work[w].token \notin LockedByOthers(w)
    /\ row.live
    /\ work' = [work EXCEPT ![w].at = "held"]
    /\ UNCHANGED <<account, tokens, status, cookies, calls, renewal, used, past>>

(* A token that has a successor comes again: its session will be ended,    *)
(* that is the rows the statement sees now.                                *)
LockReplaced(w) ==
    LET row == tokens[work[w].token] IN
    /\ work[w].at = "read"
    /\ work[w].token \notin LockedByOthers(w)
    /\ ~row.live /\ row.next # 0
    /\ work' = [work EXCEPT ![w].at = "reused", ![w].rows = LiveOf(row.session)]
    /\ past' = [past EXCEPT !.reuse = TRUE]
    /\ UNCHANGED <<account, tokens, status, cookies, calls, renewal, used>>

EndReused(w) ==
    /\ work[w].at = "reused"
    /\ work[w].rows \cap LockedByOthers(w) = {}
    /\ tokens' = Revoked(work[w].rows)
    /\ Answered(w, work[w].for, [NoRenewal EXCEPT !.at = "expired"])
    /\ UNCHANGED <<account, status, cookies, calls, used, past>>

(* A token that was ended comes again. *)
LockEnded(w) ==
    LET row == tokens[work[w].token] IN
    /\ work[w].at = "read"
    /\ work[w].token \notin LockedByOthers(w)
    /\ ~row.live /\ row.next = 0
    /\ Answered(w, work[w].for, [NoRenewal EXCEPT !.at = "expired"])
    /\ UNCHANGED <<account, tokens, status, cookies, calls, used, past>>

(* The successor takes the place of the token. *)
Rotated(t, n) ==
    [tokens EXCEPT ![t].live = FALSE, ![t].next = n,
                   ![n] = [session |-> tokens[t].session, live |-> TRUE, next |-> 0]]

CommitRenewal(w) ==
    /\ work[w].at = "held"
    /\ \E n \in Token :
          /\ Free(n)
          /\ tokens' = Rotated(work[w].token, n)
          /\ Answered(w, work[w].for,
                      [at |-> "renewed", token |-> n, ver |-> work[w].ver])
    /\ UNCHANGED <<account, status, cookies, calls, used, past>>

-----------------------------------------------------------------------------
(* The API: ending sessions *)

(* logout, revoke_session, logout_all_sessions, update_profile with a new  *)
(* password, admin_revoke_user_sessions, toggle_active: the statement      *)
(* takes its snapshot.                                                     *)
Ask(w, goal, for, rows) ==
    /\ work[w].at = "idle"
    /\ work' = [work EXCEPT ![w] = [NoJob EXCEPT !.at = "asked", !.goal = goal, !.for = for,
                                    !.ver = IF goal = "session" THEN 0 ELSE account.ver,
                                    !.rows = rows]]

(* It has waited for the rows, skips those that were replaced, and drops   *)
(* the cached status before it commits.                                    *)
Mark(w) ==
    /\ work[w].at = "asked"
    /\ work[w].rows \cap LockedByOthers(w) = {}
    /\ work' = [work EXCEPT ![w].at = "marked", ![w].rows = @ \cap LiveRows]
    /\ status' = IF work[w].goal = "session" THEN status ELSE NoStatus
    /\ UNCHANGED <<account, tokens, cookies, calls, renewal, used, past>>

(* mutant: the administrator's session revocation follows and raises again *)
RaisedTwice(j) ==
    CASE j.goal = "session" -> account
      [] j.goal = "all"     -> [account EXCEPT !.ver = j.ver + 1]
      [] OTHER              -> [active |-> FALSE, ver |-> j.ver + 2]

(* token_version becomes one more than what was read. *)
Raised(j) ==
    CASE j.goal = "session" -> account
      [] j.goal = "all"     -> [account EXCEPT !.ver = j.ver + 1]
      [] OTHER              -> [active |-> FALSE, ver |-> j.ver + 1]

CommitEnd(w) ==
    /\ work[w].at = "marked"
    /\ tokens' = Revoked(work[w].rows)
    /\ account' = Raised(work[w])
    /\ work' = [work EXCEPT ![w] = NoJob]
    /\ calls' = IF work[w].for \in Call THEN [calls EXCEPT ![work[w].for].at = "ended"] ELSE calls
    /\ UNCHANGED <<status, cookies, renewal, used, past>>

(* The user on another device, or an administrator *)
Elsewhere(w) ==
    /\ used.other < MaxOther
    /\ \/ \E s \in Token : LiveOf(s) # {} /\ Ask(w, "session", Nobody, LiveOf(s))
       \/ Ask(w, "all", Nobody, LiveRows)
       \/ /\ account.active
          /\ \A v \in Worker : work[v].goal # "off"     \* pg_advisory_xact_lock(9023)
          /\ Ask(w, "off", Nobody, LiveRows)
    /\ used' = [used EXCEPT !.other = @ + 1]
    /\ UNCHANGED <<account, tokens, status, cookies, calls, renewal, past>>

(* toggle_active of an account that is not active *)
Reactivate ==
    /\ ~account.active
    /\ account' = [account EXCEPT !.active = TRUE]
    /\ status' = NoStatus
    /\ UNCHANGED <<tokens, work, cookies, calls, renewal, used, past>>

(* AUTH_STATUS_TTL *)
Forget ==
    /\ status.on
    /\ status' = NoStatus
    /\ UNCHANGED <<account, tokens, work, cookies, calls, renewal, used, past>>

-----------------------------------------------------------------------------
(* The browser: a call, api() of lib/api.ts *)

ClearTokens == [cookies EXCEPT !.access = NoAccess]

Start(c, t, k) ==
    /\ used.clicks < MaxClicks
    /\ calls[c].at = "idle"
    /\ k = "me" => cookies.access.on       \* fetchCurrentUser
    /\ calls' = [calls EXCEPT ![c] = [at |-> "sent", kind |-> k, tab |-> t,
                                      access |-> IF k = "signin" THEN NoAccess ELSE cookies.access,
                                      token |-> IF k = "logout" THEN cookies.refresh ELSE 0]]
    /\ used' = [used EXCEPT !.clicks = @ + 1]
    /\ UNCHANGED <<server, cookies, renewal, past>>

Sent(c) == calls[c].at \in {"sent", "resent"}

(* What a failed call does to the cookies: /me forgets a refused user, and *)
(* the tab that signs out does so whatever the answer.                     *)
Failed(c) ==
    /\ calls' = [calls EXCEPT ![c] = NoCall]
    /\ cookies' = IF calls[c].kind \in {"me", "logout"} THEN ClearTokens ELSE cookies

(* A call that is admitted changes nothing here. *)
Serve(c) ==
    /\ Sent(c) /\ calls[c].kind \in {"page", "me", "avatar"} /\ Admitted(c)
    /\ Refill(c)
    /\ calls' = [calls EXCEPT ![c] = NoCall]
    /\ UNCHANGED <<account, tokens, work, cookies, renewal, used, past>>

(* A call that is answered 403, or 401 when it was repeated, has failed. *)
Reject(c) ==
    /\ Sent(c) /\ calls[c].kind # "signin"
    /\ Forbidden(c) \/ (Unauthorized(c) /\ calls[c].at = "resent")
    /\ Failed(c)
    /\ UNCHANGED <<server, renewal, used, past>>

(* The first 401 is on its way. *)
Deny(c) ==
    /\ calls[c].at = "sent" /\ calls[c].kind # "signin" /\ Unauthorized(c)
    /\ calls' = [calls EXCEPT ![c].at = "denied", ![c].access = NoAccess, ![c].token = 0]
    /\ UNCHANGED <<server, cookies, renewal, used, past>>

(* 401 without an access token: a guest.  uploadAvatar does not look. *)
DeniedGuest(c) ==
    /\ calls[c].at = "denied"
    /\ calls[c].kind # "avatar" /\ ~cookies.access.on
    /\ Failed(c)
    /\ UNCHANGED <<server, renewal, used, past>>

(* tryRefreshToken: the first call of the tab renews, the others wait. *)
JoinsNever(t) == FALSE     \* mutant: no single flight
Joins(t) == renewal[t].at # "idle"

Denied(c) ==
    LET t == calls[c].tab IN
    /\ calls[c].at = "denied"
    /\ calls[c].kind = "avatar" \/ cookies.access.on
    /\ calls' = [calls EXCEPT ![c].at = "waiting"]
    /\ IF Joins(t)
       THEN UNCHANGED <<renewal, past>>
       ELSE /\ renewal' = [renewal EXCEPT ![t] = [NoRenewal EXCEPT !.at = "sent",
                                                                  !.token = cookies.refresh]]
            /\ past' = [past EXCEPT !.crossed = @ \/ \E u \in Tab \ {t} : renewal[u].at # "idle"]
    /\ UNCHANGED <<server, cookies, used>>

Waiting(t) == {c \in Call : calls[c].at = "waiting" /\ calls[c].tab = t}

(* The renewal was answered: the calls are repeated with the new token. *)
Renewed(t) ==
    LET new == [on |-> TRUE, ver |-> renewal[t].ver, fresh |-> TRUE] IN
    /\ renewal[t].at = "renewed"
    /\ cookies' = [access |-> new, refresh |-> renewal[t].token]
    /\ calls' = [c \in Call |-> IF c \in Waiting(t)
                                THEN [calls[c] EXCEPT !.at = "resent", !.access = new,
                                        !.token = IF calls[c].kind = "logout"
                                                  THEN renewal[t].token ELSE 0]
                                ELSE calls[c]]
    /\ renewal' = [renewal EXCEPT ![t] = NoRenewal]
    /\ UNCHANGED <<server, used, past>>

(* The renewal failed: the tokens go and so do the calls (auth:expired).   *)
(* A 401 takes the refresh cookie too, a 403 does not.                     *)
GiveUp(t, refresh) ==
    /\ cookies' = [access |-> NoAccess, refresh |-> refresh]
    /\ calls' = [c \in Call |-> IF c \in Waiting(t) THEN NoCall ELSE calls[c]]
    /\ renewal' = [renewal EXCEPT ![t] = NoRenewal]

NotRenewed(t) ==
    /\ renewal[t].at \in {"expired", "refused"}
    /\ GiveUp(t, IF renewal[t].at = "expired" THEN 0 ELSE cookies.refresh)
    /\ UNCHANGED <<server, used, past>>

-----------------------------------------------------------------------------
(* The browser: signing out and in (hooks/use-auth.ts) *)

(* The API ends the session of the refresh cookie. *)
ServeLogout(w, c) ==
    /\ Sent(c) /\ calls[c].kind = "logout" /\ Admitted(c) /\ calls[c].token # 0
    /\ Ask(w, "session", c, LiveOf(tokens[calls[c].token].session))
    /\ Refill(c)
    /\ calls' = [calls EXCEPT ![c].at = "ending", ![c].access = NoAccess, ![c].token = 0]
    /\ UNCHANGED <<account, tokens, cookies, renewal, used, past>>

(* There is no refresh cookie. *)
ServeEmptyLogout(c) ==
    /\ Sent(c) /\ calls[c].kind = "logout" /\ Admitted(c) /\ calls[c].token = 0
    /\ Refill(c)
    /\ calls' = [calls EXCEPT ![c].at = "ended", ![c].access = NoAccess]
    /\ UNCHANGED <<account, tokens, work, cookies, renewal, used, past>>

LoggedOut(c) ==
    /\ calls[c].at = "ended"
    /\ calls' = [calls EXCEPT ![c] = NoCall]
    /\ cookies' = [access |-> NoAccess, refresh |-> 0]
    /\ UNCHANGED <<server, renewal, used, past>>

(* login, register and verify_otp open a session of their own. *)
ServeSignIn(c) ==
    /\ calls[c].at = "sent" /\ calls[c].kind = "signin" /\ account.active
    /\ \E n \in Token :
          /\ Free(n)
          /\ tokens' = [tokens EXCEPT ![n] = [session |-> n, live |-> TRUE, next |-> 0]]
          /\ calls' = [calls EXCEPT ![c].at = "opened", ![c].token = n,
                          ![c].access = [on |-> TRUE, ver |-> account.ver, fresh |-> TRUE]]
    /\ UNCHANGED <<account, status, work, cookies, renewal, used, past>>

RejectSignIn(c) ==
    /\ calls[c].at = "sent" /\ calls[c].kind = "signin" /\ ~account.active
    /\ calls' = [calls EXCEPT ![c] = NoCall]
    /\ UNCHANGED <<server, cookies, renewal, used, past>>

SignedIn(c) ==
    /\ calls[c].at = "opened"
    /\ cookies' = [access |-> calls[c].access, refresh |-> calls[c].token]
    /\ calls' = [calls EXCEPT ![c] = NoCall]
    /\ UNCHANGED <<server, renewal, used, past>>

-----------------------------------------------------------------------------
(* Time and the network *)

(* access_token_expire_minutes *)
Age ==
    /\ cookies.access.on /\ cookies.access.fresh
    /\ cookies' = [cookies EXCEPT !.access.fresh = FALSE]
    /\ UNCHANGED <<server, calls, renewal, used, past>>

(* Nobody waits for the request any more; the API works on. *)
Abandoned(x) == [w \in Worker |-> IF work[w].for = x THEN [work[w] EXCEPT !.for = Nobody]
                                                    ELSE work[w]]

LoseRenewal(t) ==
    /\ ~past.lost              \* bound: one answer is lost
    /\ renewal[t].at # "idle"
    /\ GiveUp(t, cookies.refresh)
    /\ work' = Abandoned(t)
    /\ past' = [past EXCEPT !.lost = TRUE]
    /\ UNCHANGED <<account, tokens, status, used>>

(* A lost call that only reads is as if it had not been made. *)
LoseCall(c) ==
    /\ ~past.lost              \* bound: one answer is lost
    /\ calls[c].kind \in {"logout", "signin"}
    /\ calls[c].at \in {"sent", "resent", "denied", "ending", "ended", "opened"}
    /\ calls' = [calls EXCEPT ![c] = NoCall]
    /\ cookies' = IF calls[c].kind = "logout" THEN ClearTokens ELSE cookies
    /\ work' = Abandoned(c)
    /\ past' = [past EXCEPT !.lost = TRUE]
    /\ UNCHANGED <<account, tokens, status, renewal, used>>

Next ==
    \/ \E w \in Worker :
          \/ \E t \in Tab : ReadUser(w, t)
          \/ LockLive(w) \/ LockReplaced(w) \/ LockEnded(w) \/ EndReused(w)
          \/ CommitRenewal(w)
          \/ Mark(w) \/ CommitEnd(w) \/ Elsewhere(w)
          \/ \E c \in Call : ServeLogout(w, c)
    \/ \E c \in Call :
          \/ \E t \in Tab, k \in Kind : Start(c, t, k)
          \/ Serve(c) \/ Reject(c) \/ Deny(c) \/ DeniedGuest(c) \/ Denied(c)
          \/ ServeEmptyLogout(c) \/ LoggedOut(c)
          \/ ServeSignIn(c) \/ RejectSignIn(c) \/ SignedIn(c) \/ LoseCall(c)
    \/ \E t \in Tab : RefuseRenewal(t) \/ Renewed(t) \/ NotRenewed(t) \/ LoseRenewal(t)
    \/ Reactivate \/ Forget \/ Age

Spec == Init /\ [][Next]_vars

-----------------------------------------------------------------------------
(***************************************************************************)
(* A session has at most one refresh token that can still be exchanged,    *)
(* however the renewals of two tabs, repeated requests, sign-outs and      *)
(* revocations overlap: without the row lock two concurrent requests can   *)
(* "issue two valid successors" (auth_service.py:183).                     *)
(***************************************************************************)
OneLiveToken ==
    \A t, u \in LiveRows : tokens[t].session = tokens[u].session => t = u

(***************************************************************************)
(* A token that is not live any more never changes: one that was replaced  *)
(* keeps its successor, and one that was ended by a sign-out or a          *)
(* revocation gets none, also when a renewal of it was on its way.         *)
(***************************************************************************)
EndedStaysEnded ==
    [][\A t \in Token : tokens[t].session # 0 /\ ~tokens[t].live => tokens'[t] = tokens[t]]_vars

(***************************************************************************)
(* The API meets a token that was already exchanged, and ends the session  *)
(* for it, only if an answer was lost or two tabs renewed at a time: the   *)
(* calls of one tab share a renewal (tryRefreshToken), and a sign-in, a    *)
(* sign-out or an avatar upload between them does not bring an old cookie  *)
(* back.                                                                   *)
(***************************************************************************)
NoFalseReuse == past.reuse => past.lost \/ past.crossed
=============================================================================
