------------------------------- MODULE SignIn -------------------------------
(***************************************************************************)
(* Signing in with a phone number: the forms                               *)
(* (frontend/components/auth/login-form.tsx, otp-form.tsx and              *)
(* register-form.tsx) and the codes behind them                            *)
(* (backend/app/services/otp_service.py), for one number.                  *)
(*                                                                         *)
(* A tab asks what the number can do, asks for a code, and enters with a   *)
(* password, with the code or by registering.  Somebody else with the same *)
(* number, another tab or one who guesses, does the same at the API.  The  *)
(* code, the failures that were counted for it and the pause between two   *)
(* codes are three keys in Redis; only the script that takes a code is one *)
(* step, everything else is interleaved key by key.                        *)
(***************************************************************************)
EXTENDS Naturals

CONSTANTS
    Limit,      \* OTP_FAIL_LIMIT
    MaxCode,    \* bound: codes that are generated
    MaxTry,     \* bound: what the user of the tab does
    MaxRival    \* bound: what the other one does

ASSUME SignInAssumption ==
    /\ Limit \in Nat \ {0}
    /\ MaxCode \in Nat \ {0}
    /\ MaxTry \in Nat
    /\ MaxRival \in Nat

VARIABLES
    form,       \* what the tab shows
    otp,        \* the keys in Redis
    account,    \* the row of users
    requests,   \* requests in flight
    inbox,      \* codes that came by SMS
    tries,      \* clicks of the tab, of the other one, codes generated
    admits      \* history: how often each code was taken, how often the
                \* present one was guessed wrong, and whether early, before
                \* its failures were cleared

signInVars == <<form, otp, account, requests, inbox, tries, admits>>

Code    == 1..MaxCode
Guess   == 0..MaxCode       \* 0 is a code that was never sent
Slot    == {"ask", "enter", "rival"}

NoAsk == [kind |-> "none", at |-> "none"]
AskRow(kind, code, named) ==
    [kind |-> kind, at |-> "sent", code |-> code, named |-> named, known |-> FALSE]

(* A click of the tab starts a request in a slot whose flag is clear; the  *)
(* buttons are disabled while it is set.                                   *)
Ask(s, row) ==
    /\ tries.tab < MaxTry
    /\ requests[s] = NoAsk
    /\ requests' = [requests EXCEPT ![s] = row]
    /\ tries' = [tries EXCEPT !.tab = @ + 1]
    /\ UNCHANGED <<otp, account, inbox, admits>>

On(p, step) == form.page = p /\ form.step = step

-----------------------------------------------------------------------------
(* The forms *)

(* onPhoneSubmit of the login form *)
CheckOptions ==
    /\ On("login", "phone")
    /\ Ask("ask", AskRow("options", 0, FALSE))
    /\ UNCHANGED form

(* The link "forgot my password" and the pages of their own. *)
Visit(p) ==
    /\ form.page \in {"login", "register", "otp"} \ {p}
    /\ p = "otp" => On("login", "secret")
    /\ p = "register" => form.page = "login"
    /\ p = "login" => form.page = "register" \/ On("otp", "secret")
    /\ tries.tab < MaxTry
    /\ tries' = [tries EXCEPT !.tab = @ + 1]
    /\ form' = [page |-> p, step |-> IF p = "otp" THEN "secret" ELSE "phone",
                new |-> FALSE, wait |-> FALSE]
    /\ requests' = [requests EXCEPT
          !["ask"] = IF p = "otp" THEN AskRow("send", 0, FALSE) ELSE NoAsk,
          !["enter"] = NoAsk]
    /\ UNCHANGED <<otp, account, inbox, admits>>

(* onSendOtp from the step of the phone, onResendOtp when the timer is up. *)
SendOtp ==
    /\ form.page = "otp"
    /\ form.step = "secret" => ~form.wait
    /\ Ask("ask", AskRow("send", 0, FALSE))
    /\ UNCHANGED form

TimerEnds ==
    /\ form.wait
    /\ form' = [form EXCEPT !.wait = FALSE]
    /\ UNCHANGED <<otp, account, requests, inbox, tries, admits>>

BackToPhone ==
    /\ On("otp", "secret")
    /\ form' = [form EXCEPT !.step = "phone"]
    /\ UNCHANGED <<otp, account, requests, inbox, tries, admits>>

(* The sixth digit submits, and so does the button: a code from the inbox  *)
(* or a wrong one, with a name where the form asks for it.                 *)
VerifyOtp(g, named) ==
    /\ On("otp", "secret")
    /\ g \in inbox \cup {0}
    /\ named => form.new
    /\ Ask("enter", AskRow("verify", g, named))
    /\ UNCHANGED form

SubmitPassword ==
    /\ On("login", "secret")
    /\ Ask("enter", AskRow("login", 0, FALSE))
    /\ UNCHANGED form

SubmitRegistration ==
    /\ form.page = "register"
    /\ Ask("enter", AskRow("register", 0, TRUE))
    /\ UNCHANGED form

(* Another tab, or another person: a code that is asked for, one that is   *)
(* tried, a registration.                                                  *)
Rival(row) ==
    /\ tries.rival < MaxRival
    /\ requests["rival"] = NoAsk
    /\ row.code \in inbox \cup {0}
    /\ requests' = [requests EXCEPT !["rival"] = row]
    /\ tries' = [tries EXCEPT !.rival = @ + 1]
    /\ UNCHANGED <<form, otp, account, inbox, admits>>

RivalRows ==
    {AskRow("send", 0, FALSE), AskRow("register", 0, TRUE)}
    \cup {AskRow("verify", g, TRUE) : g \in Guess}

-----------------------------------------------------------------------------
(* The API *)

At(s, kind, at) == requests[s].kind = kind /\ requests[s].at = at
Goes(s, at) == requests' = [requests EXCEPT ![s].at = at]

(* login_options: whether there is a password. *)
LoginOptions(s) ==
    /\ At(s, "options", "sent")
    /\ Goes(s, IF account.password THEN "password" ELSE "code")
    /\ UNCHANGED <<form, otp, account, inbox, tries, admits>>

(* The password is right or wrong. *)
Login(s) ==
    /\ At(s, "login", "sent")
    /\ \/ account.there /\ account.password /\ account.active /\ Goes(s, "accepted")
       \/ Goes(s, "refused")
    /\ UNCHANGED <<form, otp, account, inbox, tries, admits>>

(* The number is unique. *)
Register(s) ==
    /\ At(s, "register", "sent")
    /\ IF account.there THEN Goes(s, "refused") /\ UNCHANGED account
       ELSE /\ Goes(s, "accepted")
            /\ account' = [there |-> TRUE, password |-> TRUE, active |-> TRUE]
    /\ UNCHANGED <<form, otp, inbox, tries, admits>>

(* send_otp: a code that is there is not replaced, even if it is locked or *)
(* was never delivered.                                                    *)
SendLooks(s) ==
    /\ At(s, "send", "sent")
    /\ requests' = [requests EXCEPT
          ![s].known = account.there,
          ![s].at = IF otp.code # 0 THEN "accepted" ELSE "absent"]
    /\ UNCHANGED <<form, otp, account, inbox, tries, admits>>

(* After a code that is gone there is a pause. *)
LookForPause(s) ==
    /\ At(s, "send", "absent")
    /\ Goes(s, IF otp.pause THEN "refused" ELSE "looked")
    /\ UNCHANGED <<form, otp, account, inbox, tries, admits>>

(* _store_code sets the code and then deletes the failures. *)
StoreCode(s) ==
    /\ At(s, "send", "looked")
    /\ tries.codes < MaxCode
    /\ tries' = [tries EXCEPT !.codes = @ + 1]
    /\ otp' = [otp EXCEPT !.code = tries.codes + 1]
    /\ requests' = [requests EXCEPT ![s].at = "stored", ![s].code = tries.codes + 1]
    /\ admits' = [admits EXCEPT !.wrong = 0, !.early = FALSE]
    /\ UNCHANGED <<form, account, inbox>>

ClearFailures(s) ==
    /\ At(s, "send", "stored")
    /\ otp' = [otp EXCEPT !.failures = 0]
    /\ Goes(s, "cleared")
    /\ UNCHANGED <<form, account, inbox, tries, admits>>

(* The SMS goes out, or fails: then the code that is there is deleted.     *)
SendSms(s) ==
    /\ At(s, "send", "cleared")
    /\ \/ /\ inbox' = inbox \cup {requests[s].code}
          /\ Goes(s, "delivered")
          /\ UNCHANGED otp
       \/ /\ otp' = [otp EXCEPT !.code = 0]
          /\ Goes(s, "refused")
          /\ UNCHANGED inbox
    /\ UNCHANGED <<form, account, tries, admits>>

StartPause(s) ==
    /\ At(s, "send", "delivered")
    /\ otp' = [otp EXCEPT !.pause = TRUE]
    /\ Goes(s, "accepted")
    /\ UNCHANGED <<form, account, inbox, tries, admits>>

(* verify_otp looks for the user before it takes the code. *)
VerifyLooks(s) ==
    /\ At(s, "verify", "sent")
    /\ requests' = [requests EXCEPT ![s].known = account.there, ![s].at = "looked"]
    /\ UNCHANGED <<form, otp, account, inbox, tries, admits>>

(* Mutant: one guess more than the limit. *)
LockedLate == otp.failures > Limit

Locked == otp.failures >= Limit

(* What _CONSUME_OTP_SCRIPT answers; a user without a name keeps the code. *)
Verdict(row) ==
    IF Locked \/ otp.code = 0 THEN "refused"
    ELSE IF row.code # otp.code THEN "wrong"
    ELSE IF ~row.known /\ ~row.named THEN "refused"
    ELSE "taken"

(* Mutant: the key of the code is not deleted. *)
ConsumedLater(verdict) ==
    CASE verdict = "taken" -> [otp EXCEPT !.failures = 0, !.pause = FALSE]
      [] verdict = "wrong" -> [otp EXCEPT !.failures = @ + 1]
      [] OTHER             -> otp

Consumed(verdict) ==
    CASE verdict = "taken" -> [code |-> 0, failures |-> 0, pause |-> FALSE]
      [] verdict = "wrong" -> [otp EXCEPT !.failures = @ + 1]
      [] OTHER             -> otp

TakeCode(s) ==
    /\ At(s, "verify", "looked")
    /\ LET verdict == Verdict(requests[s]) IN
         /\ otp' = Consumed(verdict)
         /\ Goes(s, IF verdict = "wrong" THEN "refused" ELSE verdict)
         /\ admits' = [admits EXCEPT
              !.taken = IF verdict = "taken"
                        THEN [admits.taken EXCEPT ![otp.code] = @ + 1] ELSE @,
              !.wrong = IF verdict = "wrong" THEN @ + 1 ELSE @,
              !.early = @ \/ (verdict = "wrong" /\ \E r \in Slot : requests[r].at = "stored")]
    /\ UNCHANGED <<form, account, inbox, tries>>

(* Who was not known is created, unless the number was registered since;   *)
(* who is not active is refused.  The code is gone either way.             *)
Admit(s) ==
    /\ At(s, "verify", "taken")
    /\ IF requests[s].known
       THEN Goes(s, IF account.active THEN "accepted" ELSE "refused") /\ UNCHANGED account
       ELSE IF account.there THEN Goes(s, "refused") /\ UNCHANGED account
       ELSE /\ Goes(s, "accepted")
            /\ account' = [there |-> TRUE, password |-> FALSE, active |-> TRUE]
    /\ UNCHANGED <<form, otp, inbox, tries, admits>>

(* OTP_TTL and OTP_SEND_COOLDOWN; the failures were counted after the code *)
(* was set, and last longer.                                               *)
KeysExpire ==
    /\ \/ otp.code # 0 /\ otp' = [otp EXCEPT !.code = 0]
       \/ otp.pause /\ otp' = [otp EXCEPT !.pause = FALSE]
       \/ otp.code = 0 /\ otp.failures # 0 /\ otp' = [otp EXCEPT !.failures = 0]
    /\ UNCHANGED <<form, account, requests, inbox, tries, admits>>

-----------------------------------------------------------------------------
(* The answers *)

Arrived(s) == requests' = [requests EXCEPT ![s] = NoAsk]

(* Without a password the page of the code opens, and asks for one.        *)
OptionsArrive ==
    /\ requests["ask"].kind = "options"
    /\ \/ /\ requests["ask"].at = "password"
          /\ form' = [form EXCEPT !.step = "secret"]
          /\ Arrived("ask")
       \/ /\ requests["ask"].at = "code"
          /\ form' = [form EXCEPT !.page = "otp", !.step = "secret"]
          /\ requests' = [requests EXCEPT !["ask"] = AskRow("send", 0, FALSE)]
    /\ UNCHANGED <<otp, account, inbox, tries, admits>>

(* A late answer brings the step of the code back. *)
SendArrives ==
    /\ At("ask", "send", "accepted")
    /\ form' = [form EXCEPT !.step = "secret", !.wait = TRUE, !.new = ~requests["ask"].known]
    /\ Arrived("ask")
    /\ UNCHANGED <<otp, account, inbox, tries, admits>>

(* setTokens, setUser and router.push: the tab leaves the forms. *)
EnterArrives ==
    /\ requests["enter"] # NoAsk
    /\ requests["enter"].at = "accepted"
    /\ form' = [page |-> "in", step |-> "phone", new |-> FALSE, wait |-> FALSE]
    /\ requests' = [requests EXCEPT !["enter"] = NoAsk, !["ask"] = NoAsk]
    /\ UNCHANGED <<otp, account, inbox, tries, admits>>

(* A refusal, or a request or an answer that is lost: the step stays. *)
AskFails(s) ==
    /\ requests[s] # NoAsk
    /\ s # "rival" => requests[s].at \in {"sent", "refused", "accepted", "password", "code"}
    /\ s = "rival" => requests[s].at \in {"refused", "accepted"}
    /\ Arrived(s)
    /\ UNCHANGED <<form, otp, account, inbox, tries, admits>>

-----------------------------------------------------------------------------
SignInInit ==
    /\ form = [page |-> "login", step |-> "phone", new |-> FALSE, wait |-> FALSE]
    /\ otp = [code |-> 0, failures |-> 0, pause |-> FALSE]
    /\ account \in [there : BOOLEAN, password : BOOLEAN, active : BOOLEAN]
    /\ account.password \/ account.active => account.there
    /\ requests = [s \in Slot |-> NoAsk]
    /\ inbox = {}
    /\ tries = [tab |-> 0, rival |-> 0, codes |-> 0]
    /\ admits = [taken |-> [c \in Code |-> 0], wrong |-> 0, early |-> FALSE]

FormActs ==
    \/ CheckOptions \/ SendOtp \/ TimerEnds \/ BackToPhone
    \/ \E p \in {"login", "otp", "register"} : Visit(p)
    \/ \E g \in Guess, named \in BOOLEAN : VerifyOtp(g, named)
    \/ SubmitPassword \/ SubmitRegistration
    \/ \E row \in RivalRows : Rival(row)

Api(s) ==
    \/ LoginOptions(s) \/ Login(s) \/ Register(s)
    \/ SendLooks(s) \/ LookForPause(s) \/ StoreCode(s) \/ ClearFailures(s)
    \/ SendSms(s) \/ StartPause(s)
    \/ VerifyLooks(s) \/ TakeCode(s) \/ Admit(s)

SignInNext ==
    \/ FormActs
    \/ \E s \in Slot : Api(s) \/ AskFails(s)
    \/ KeysExpire
    \/ OptionsArrive \/ SendArrives \/ EnterArrives

SignInSpec == SignInInit /\ [][SignInNext]_signInVars

-----------------------------------------------------------------------------
(* Properties *)

(* The type invariant of the forms and the codes. *)
SignInTypeOK ==
    /\ form \in [page : {"login", "otp", "register", "in"}, step : {"phone", "secret"},
                 new : BOOLEAN, wait : BOOLEAN]
    /\ otp \in [code : Guess, failures : 0..Limit, pause : BOOLEAN]
    /\ account \in [there : BOOLEAN, password : BOOLEAN, active : BOOLEAN]
    /\ requests \in [Slot ->
          {NoAsk}
          \cup [kind : {"options", "login", "register", "send", "verify"},
                at : {"sent", "absent", "looked", "stored", "cleared", "delivered", "taken",
                      "accepted", "refused", "password", "code"},
                code : Guess, named : BOOLEAN, known : BOOLEAN]]
    /\ inbox \subseteq Code
    /\ tries \in [tab : 0..MaxTry, rival : 0..MaxRival, codes : 0..MaxCode]

(* A code admits one request, however many tabs send it at once, and it is *)
(* not tried again after it was guessed wrong as often as the limit says,  *)
(* unless somebody guessed before _store_code had cleared the failures of  *)
(* the code before it.                                                     *)
CodeAdmitsOnce ==
    /\ \A c \in Code : admits.taken[c] <= 1
    /\ admits.early \/ admits.wrong <= Limit

=============================================================================
