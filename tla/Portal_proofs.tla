---------------------------- MODULE Portal_proofs ----------------------------
(***************************************************************************)
(* What holds of the tab for any number of codes, clicks, rows, requests   *)
(* and failures that lock a code: first the codes of SignIn, then the      *)
(* pages of Panels.                                                        *)
(*                                                                         *)
(* A code is not numbered again, so one that was taken is not the present  *)
(* one; what was guessed wrong of the present one was counted, since the   *)
(* failures of it were cleared.                                            *)
(*                                                                         *)
(* The pages are data, so what the proofs need of them is shown page by    *)
(* page (PagesFit) and then used of whichever page is open.  A flag is     *)
(* held for a request in flight (PanelInv).  What a request or the cache   *)
(* carries is true or late, with any number of requests at once; and from  *)
(* when the last list asked for is shown, the page is true to the rows, or *)
(* a request in flight will ask for, patch or save what is not (TrueInv).  *)
(***************************************************************************)
EXTENDS Portal, TLAPS, FiniteSetTheorems, WellFoundedInduction, NaturalsInduction

(* A request for a code that has stored one has one to send. *)
StoredIsCode ==
    \A s \in Slot : requests[s].kind = "send" /\ requests[s].at \in {"stored", "cleared"}
                        => requests[s].code # 0

(* A code that was taken was generated, and is not the present one. *)
TakenIsGone ==
    \A c \in Code : /\ admits.taken[c] <= 1
                    /\ admits.taken[c] # 0 => c <= tries.codes /\ c # otp.code

(* What was guessed wrong of the present code is among its failures.       *)
WrongIsCounted ==
    /\ admits.wrong <= Limit
    /\ otp.code # 0 => admits.wrong <= otp.failures
    /\ (\E s \in Slot : requests[s].at = "stored") => admits.wrong = 0

CodeInv ==
    /\ SignInTypeOK
    /\ admits \in [taken : [Code -> Nat], wrong : Nat, early : BOOLEAN]
    /\ StoredIsCode
    /\ otp.code <= tries.codes
    /\ TakenIsGone
    /\ ~admits.early => WrongIsCounted

USE SignInAssumption

Kind == {"options", "login", "register", "send", "verify"}
Step == {"sent", "absent", "looked", "stored", "cleared", "delivered", "taken",
         "accepted", "refused", "password", "code"}
Request == [kind : Kind, at : Step, code : Guess, named : BOOLEAN, known : BOOLEAN]
Requests == [Slot -> {NoAsk} \cup Request]

-----------------------------------------------------------------------------
(* Types *)

LEMMA RequestTypes ==
    SignInTypeOK => requests \in Requests
BY DEF SignInTypeOK, Requests, Request, Kind, Step

(* A request starts as one. *)
LEMMA AskRows ==
    \A kind \in Kind, g \in Guess, named \in BOOLEAN :
        /\ AskRow(kind, g, named) \in Request
        /\ AskRow(kind, g, named).kind = kind
        /\ AskRow(kind, g, named).at = "sent"
BY DEF AskRow, Request, Step

LEMMA Bounds ==
    /\ 0 \in Guess /\ Code \subseteq Guess /\ Guess \subseteq Nat
    /\ \A g \in Guess : g # 0 <=> g \in Code
BY DEF Guess, Code

(* What the requests keep when one of them is replaced, whichever they are:*)
(* no request stores a code unless the new one does.                       *)
LEMMA Replaced ==
    ASSUME requests \in Requests, StoredIsCode, NEW s \in Slot,
           NEW row \in {NoAsk} \cup Request,
           row.at \notin {"stored", "cleared"},
           requests' = [requests EXCEPT ![s] = row]
    PROVE  /\ requests' \in Requests
           /\ StoredIsCode'
           /\ \A r \in Slot : requests'[r].at = "stored" => requests[r].at = "stored"
BY DEF Requests, StoredIsCode

(* A request that is one goes on to another step. *)
LEMMA Advanced ==
    ASSUME requests \in Requests, NEW s \in Slot, requests[s].kind \in Kind,
           NEW at \in Step
    PROVE  /\ requests[s] \in Request
           /\ [requests[s] EXCEPT !.at = at] \in Request
           /\ [requests[s] EXCEPT !.at = at].at = at
           /\ [requests[s] EXCEPT !.at = at].kind = requests[s].kind
           /\ [requests[s] EXCEPT !.at = at].code = requests[s].code
BY DEF Requests, Request, NoAsk, Kind

-----------------------------------------------------------------------------
(* Steps that leave the code alone *)

FormRow    == [page : {"login", "otp", "register", "in"}, step : {"phone", "secret"},
               new : BOOLEAN, wait : BOOLEAN]
AccountRow == [there : BOOLEAN, password : BOOLEAN, active : BOOLEAN]
TriesRow   == [tab : 0..MaxTry, rival : 0..MaxRival, codes : 0..MaxCode]

(* A step that changes none of the keys, stores no code and generates none.*)
LEMMA CodeAlone ==
    ASSUME CodeInv,
           form' \in FormRow, account' \in AccountRow,
           requests' \in Requests, StoredIsCode',
           \A r \in Slot : requests'[r].at = "stored" => requests[r].at = "stored",
           tries' \in TriesRow, tries'.codes = tries.codes,
           UNCHANGED <<otp, inbox, admits>>
    PROVE  CodeInv'
<1>1. SignInTypeOK'
  BY DEF CodeInv, SignInTypeOK, FormRow, AccountRow, TriesRow, Requests, Request, Kind, Step
<1>2. TakenIsGone' /\ (otp.code <= tries.codes)'
  BY DEF CodeInv, TakenIsGone
<1>3. (~admits.early => WrongIsCounted)'
  BY DEF CodeInv, WrongIsCounted
<1> QED
  BY <1>1, <1>2, <1>3 DEF CodeInv

(* One request is replaced, or starts. *)
LEMMA OneReplaced ==
    ASSUME CodeInv, NEW s \in Slot, NEW row \in {NoAsk} \cup Request,
           row.at \notin {"stored", "cleared"},
           requests' = [requests EXCEPT ![s] = row],
           form' \in FormRow, account' \in AccountRow,
           tries' \in TriesRow, tries'.codes = tries.codes,
           UNCHANGED <<otp, inbox, admits>>
    PROVE  CodeInv'
BY RequestTypes, Replaced, CodeAlone DEF CodeInv

LEMMA StateTypes ==
    ASSUME CodeInv
    PROVE  /\ form \in FormRow /\ account \in AccountRow /\ tries \in TriesRow
           /\ requests \in Requests
           /\ otp \in [code : Guess, failures : 0..Limit, pause : BOOLEAN]
           /\ [tries EXCEPT !.tab = @ + 1].codes = tries.codes
           /\ [tries EXCEPT !.rival = @ + 1].codes = tries.codes
           /\ tries.tab < MaxTry => [tries EXCEPT !.tab = @ + 1] \in TriesRow
           /\ tries.rival < MaxRival => [tries EXCEPT !.rival = @ + 1] \in TriesRow
BY RequestTypes DEF CodeInv, SignInTypeOK, FormRow, AccountRow, TriesRow

(* A click starts a request. *)
LEMMA AskStep ==
    ASSUME CodeInv, NEW s \in Slot, NEW kind \in Kind, NEW g \in Guess, NEW named \in BOOLEAN,
           Ask(s, AskRow(kind, g, named)), UNCHANGED form
    PROVE  CodeInv'
BY StateTypes, AskRows, OneReplaced DEF Ask

LEMMA FormStep ==
    ASSUME CodeInv, FormActs
    PROVE  CodeInv'
<1> USE StateTypes, Bounds
<1>1. CASE CheckOptions
  BY <1>1, AskStep DEF CheckOptions, Slot, Kind
<1>2. CASE SendOtp
  BY <1>2, AskStep DEF SendOtp, Slot, Kind
<1>3. CASE TimerEnds
  BY <1>3, CodeAlone DEF TimerEnds, FormRow, CodeInv, StoredIsCode
<1>4. CASE BackToPhone
  BY <1>4, CodeAlone DEF BackToPhone, FormRow, CodeInv, StoredIsCode
<1>5. ASSUME NEW p \in {"login", "otp", "register"}, Visit(p)
      PROVE  CodeInv'
  <2> DEFINE asked == IF p = "otp" THEN AskRow("send", 0, FALSE) ELSE NoAsk
             new   == [requests EXCEPT !["ask"] = asked, !["enter"] = NoAsk]
  <2>1. asked \in {NoAsk} \cup Request /\ asked.at \in {"sent", "none"}
    BY AskRows DEF NoAsk, Kind
  <2>2. requests' = new
    BY <1>5 DEF Visit
  <2>3. /\ new \in Requests
        /\ \A r \in Slot : new[r] \in {requests[r], asked, NoAsk}
    BY <2>1 DEF Requests, Slot
  <2> HIDE DEF asked, new
  <2>4. StoredIsCode' /\ \A r \in Slot : requests'[r].at = "stored" => requests[r].at = "stored"
    BY <2>1, <2>2, <2>3 DEF StoredIsCode, CodeInv, NoAsk
  <2>5. form' \in FormRow
    BY <1>5 DEF Visit, FormRow
  <2> QED
    BY <1>5, <2>2, <2>3, <2>4, <2>5, CodeAlone DEF Visit
<1>6. ASSUME NEW g \in Guess, NEW named \in BOOLEAN, VerifyOtp(g, named)
      PROVE  CodeInv'
  BY <1>6, AskStep DEF VerifyOtp, Slot, Kind
<1>7. CASE SubmitPassword
  BY <1>7, AskStep DEF SubmitPassword, Slot, Kind
<1>8. CASE SubmitRegistration
  BY <1>8, AskStep DEF SubmitRegistration, Slot, Kind
<1>9. ASSUME NEW row \in RivalRows, Rival(row)
      PROVE  CodeInv'
  <2>1. PICK kind \in Kind, g \in Guess, named \in BOOLEAN : row = AskRow(kind, g, named)
    BY <1>9 DEF RivalRows, Kind
  <2> QED
    BY <1>9, <2>1, AskRows, OneReplaced DEF Rival, Slot
<1> QED
  BY <1>1, <1>2, <1>3, <1>4, <1>5, <1>6, <1>7, <1>8, <1>9 DEF FormActs

(* A step of the API that only moves its request on. *)
LEMMA MovedOn ==
    ASSUME CodeInv, NEW s \in Slot, requests[s].kind \in Kind,
           NEW at \in Step \ {"stored", "cleared"}, Goes(s, at),
           account' \in AccountRow, UNCHANGED <<form, otp, inbox, tries, admits>>
    PROVE  CodeInv'
<1>1. requests' = [requests EXCEPT ![s] = [requests[s] EXCEPT !.at = at]]
  BY DEF Goes
<1>2. [requests[s] EXCEPT !.at = at] \in Request /\ [requests[s] EXCEPT !.at = at].at = at
  BY StateTypes, Advanced
<1> QED
  BY <1>1, <1>2, StateTypes, OneReplaced

(* The user is looked up first. *)
LEMMA LookedUp ==
    ASSUME CodeInv, NEW s \in Slot, requests[s].kind \in Kind,
           NEW at \in Step \ {"stored", "cleared"}, NEW known \in BOOLEAN,
           requests' = [requests EXCEPT ![s].known = known, ![s].at = at],
           UNCHANGED <<form, otp, account, inbox, tries, admits>>
    PROVE  CodeInv'
<1> DEFINE row == [[requests[s] EXCEPT !.known = known] EXCEPT !.at = at]
<1>1. requests[s] \in Request
  BY StateTypes, Advanced
<1>2. row \in Request /\ row.at = at
  BY <1>1 DEF Request
<1>3. requests' = [requests EXCEPT ![s] = row]
  BY StateTypes DEF Requests
<1> HIDE DEF row
<1> QED
  BY <1>2, <1>3, StateTypes, OneReplaced

-----------------------------------------------------------------------------
(* Steps that touch the code *)

LEMMA RequestMoves ==
    ASSUME requests \in Requests, NEW s \in Slot, requests[s].kind \in Kind,
           NEW at \in Step, Goes(s, at)
    PROVE  /\ requests' \in Requests
           /\ requests'[s].at = at
           /\ requests'[s].kind = requests[s].kind
           /\ requests'[s].code = requests[s].code
           /\ \A r \in Slot \ {s} : requests'[r] = requests[r]
<1>1. requests' = [requests EXCEPT ![s] = [requests[s] EXCEPT !.at = at]]
  BY DEF Goes
<1> QED
  BY <1>1, Advanced DEF Requests

LEMMA TypeAfter ==
    ASSUME CodeInv, requests' \in Requests, account' \in AccountRow, UNCHANGED form,
           otp' \in [code : Guess, failures : 0..Limit, pause : BOOLEAN],
           inbox' \subseteq Code, tries' \in TriesRow
    PROVE  SignInTypeOK'
BY DEF CodeInv, SignInTypeOK, FormRow, AccountRow, TriesRow, Requests, Request, Kind, Step

(* A new code: it was not taken, and nothing was guessed of it. *)
LEMMA StoreCodeStep ==
    ASSUME CodeInv, NEW s \in Slot, StoreCode(s)
    PROVE  CodeInv'
<1> DEFINE n   == tries.codes + 1
           row == [[requests[s] EXCEPT !.at = "stored"] EXCEPT !.code = n]
<1> USE StateTypes
<1>1. tries.codes \in Nat /\ tries.codes < MaxCode /\ n \in Code /\ n \in Guess /\ n # 0
  BY DEF StoreCode, TriesRow, Code, Guess
<1>2. requests[s] \in Request
  BY Advanced DEF StoreCode, At, Kind, Step
<1>3. row \in Request /\ row.code = n /\ row.at = "stored"
  BY <1>1, <1>2 DEF Request, Step
<1>4. requests' = [requests EXCEPT ![s] = row]
  BY DEF StoreCode, Requests
<1>5. tries' \in TriesRow /\ tries'.codes = n
  BY <1>1 DEF StoreCode, TriesRow
<1>6. /\ otp' \in [code : Guess, failures : 0..Limit, pause : BOOLEAN]
      /\ otp'.code = n
  BY <1>1 DEF StoreCode
<1>7. /\ admits' \in [taken : [Code -> Nat], wrong : Nat, early : BOOLEAN]
      /\ admits'.wrong = 0 /\ admits'.taken = admits.taken
  BY DEF StoreCode, CodeInv
<1>8. UNCHANGED <<form, account, inbox>>
  BY DEF StoreCode
<1> HIDE DEF row, n
<1>9. requests' \in Requests
  BY <1>3, <1>4 DEF Requests
<1>10. SignInTypeOK'
  BY <1>5, <1>6, <1>8, <1>9, TypeAfter DEF CodeInv, SignInTypeOK
<1>11. StoredIsCode'
  BY <1>1, <1>3, <1>4 DEF StoredIsCode, CodeInv, Requests
<1>12. TakenIsGone'
  BY <1>1, <1>5, <1>6, <1>7 DEF TakenIsGone, CodeInv, Code, n
<1>13. WrongIsCounted'
  BY <1>6, <1>7 DEF WrongIsCounted
<1> QED
  BY <1>1, <1>5, <1>6, <1>7, <1>10, <1>11, <1>12, <1>13, Bounds DEF CodeInv

(* Clearing the failures forgets nothing of the present code: what was     *)
(* guessed of it was guessed early.                                        *)
LEMMA ClearFailuresStep ==
    ASSUME CodeInv, NEW s \in Slot, ClearFailures(s)
    PROVE  CodeInv'
<1> USE StateTypes
<1>1. /\ requests' \in Requests
      /\ requests'[s].at = "cleared"
      /\ requests'[s].code = requests[s].code
      /\ \A r \in Slot \ {s} : requests'[r] = requests[r]
  BY RequestMoves DEF ClearFailures, At, Kind, Step
<1>2. requests[s].kind = "send" /\ requests[s].at = "stored"
  BY DEF ClearFailures, At
<1>3. /\ otp' \in [code : Guess, failures : 0..Limit, pause : BOOLEAN]
      /\ otp'.code = otp.code
  BY DEF ClearFailures
<1>4. UNCHANGED <<form, account, inbox, tries, admits>>
  BY DEF ClearFailures
<1>5. SignInTypeOK'
  BY <1>1, <1>3, <1>4, TypeAfter DEF CodeInv, SignInTypeOK
<1>6. StoredIsCode'
  BY <1>1, <1>2 DEF StoredIsCode, CodeInv
<1>7. TakenIsGone' /\ otp'.code <= tries'.codes
  BY <1>3, <1>4 DEF TakenIsGone, CodeInv
<1>8. ASSUME ~admits'.early
      PROVE  WrongIsCounted'
  <2>1. admits'.wrong = 0
    BY <1>2, <1>4, <1>8 DEF CodeInv, WrongIsCounted
  <2> QED
    BY <1>3, <2>1 DEF WrongIsCounted
<1> QED
  BY <1>4, <1>5, <1>6, <1>7, <1>8 DEF CodeInv

(* A step that sets the keys without a new code: the present code stays or *)
(* goes, and so do its failures unless the code goes.                      *)
LEMMA KeysMove ==
    ASSUME CodeInv, requests' \in Requests, StoredIsCode',
           \A r \in Slot : requests'[r].at = "stored" => requests[r].at = "stored",
           otp' \in [code : Guess, failures : 0..Limit, pause : BOOLEAN],
           otp'.code \in {0, otp.code},
           otp'.code # 0 => otp'.failures = otp.failures,
           inbox' \subseteq Code, UNCHANGED <<form, account, tries, admits>>
    PROVE  CodeInv'
<1> USE StateTypes
<1>1. SignInTypeOK'
  BY TypeAfter
<1>2. TakenIsGone' /\ otp'.code <= tries'.codes
  BY Bounds DEF TakenIsGone, CodeInv, Code, TriesRow
<1>3. (~admits.early => WrongIsCounted)'
  BY DEF CodeInv, WrongIsCounted
<1> QED
  BY <1>1, <1>2, <1>3 DEF CodeInv

LEMMA SendSmsStep ==
    ASSUME CodeInv, NEW s \in Slot, SendSms(s)
    PROVE  CodeInv'
<1> USE StateTypes
<1>1. PICK at \in {"delivered", "refused"} : Goes(s, at)
  BY DEF SendSms
<1>2. requests[s].kind = "send" /\ requests[s].at = "cleared"
  BY DEF SendSms, At
<1>3. /\ requests' \in Requests
      /\ requests'[s].at = at
      /\ \A r \in Slot \ {s} : requests'[r] = requests[r]
  BY <1>1, <1>2, RequestMoves DEF Kind, Step
<1>4. StoredIsCode' /\ \A r \in Slot : requests'[r].at = "stored" => requests[r].at = "stored"
  BY <1>1, <1>3 DEF StoredIsCode, CodeInv
<1>5. requests[s].code \in Code
  BY <1>2, Advanced, Bounds DEF CodeInv, StoredIsCode, Kind, Step, Request
<1>6. inbox' \subseteq Code
  BY <1>5 DEF SendSms, CodeInv, SignInTypeOK
<1>7. /\ otp' \in [code : Guess, failures : 0..Limit, pause : BOOLEAN]
      /\ otp'.code \in {0, otp.code}
      /\ otp'.code # 0 => otp'.failures = otp.failures
  BY Bounds DEF SendSms
<1> QED
  BY <1>3, <1>4, <1>6, <1>7, KeysMove DEF SendSms

LEMMA StartPauseStep ==
    ASSUME CodeInv, NEW s \in Slot, StartPause(s)
    PROVE  CodeInv'
<1> USE StateTypes
<1>1. /\ requests' \in Requests
      /\ requests'[s].at = "accepted"
      /\ \A r \in Slot \ {s} : requests'[r] = requests[r]
  BY RequestMoves DEF StartPause, At, Kind, Step
<1>2. StoredIsCode' /\ \A r \in Slot : requests'[r].at = "stored" => requests[r].at = "stored"
  BY <1>1 DEF StoredIsCode, CodeInv
<1>3. /\ otp' \in [code : Guess, failures : 0..Limit, pause : BOOLEAN]
      /\ otp'.code = otp.code /\ otp'.failures = otp.failures
  BY DEF StartPause
<1> QED
  BY <1>1, <1>2, <1>3, KeysMove DEF StartPause, CodeInv, SignInTypeOK

LEMMA KeysExpireStep ==
    ASSUME CodeInv, KeysExpire
    PROVE  CodeInv'
<1> USE StateTypes
<1>1. /\ otp' \in [code : Guess, failures : 0..Limit, pause : BOOLEAN]
      /\ otp'.code \in {0, otp.code}
      /\ otp'.code # 0 => otp'.failures = otp.failures
  <2>1. CASE otp' = [otp EXCEPT !.code = 0]
    BY <2>1, Bounds
  <2>2. CASE otp' = [otp EXCEPT !.pause = FALSE]
    BY <2>2
  <2>3. CASE otp.code = 0 /\ otp' = [otp EXCEPT !.failures = 0]
    BY <2>3
  <2> QED
    BY <2>1, <2>2, <2>3 DEF KeysExpire
<1>2. UNCHANGED requests /\ StoredIsCode'
  BY DEF KeysExpire, CodeInv, StoredIsCode
<1> QED
  BY <1>1, <1>2, KeysMove DEF KeysExpire, CodeInv, SignInTypeOK

(* What the script does to the history. *)
LEMMA HistoryMoves ==
    ASSUME admits \in [taken : [Code -> Nat], wrong : Nat, early : BOOLEAN],
           NEW taken \in [Code -> Nat], NEW wrong \in Nat, NEW early \in BOOLEAN,
           admits' = [admits EXCEPT !.taken = taken, !.wrong = wrong, !.early = early]
    PROVE  /\ admits' \in [taken : [Code -> Nat], wrong : Nat, early : BOOLEAN]
           /\ admits'.taken = taken /\ admits'.wrong = wrong /\ admits'.early = early
OBVIOUS

(* Taking the code: the script answers by the code that is present, and    *)
(* counts what is wrong only while it is not locked.                       *)
LEMMA TakeCodeStep ==
    ASSUME CodeInv, NEW s \in Slot, TakeCode(s)
    PROVE  CodeInv'
<1> USE StateTypes
<1> DEFINE d == Verdict(requests[s])
<1>1. /\ d \in {"refused", "wrong", "taken"}
      /\ d # "refused" => otp.failures < Limit /\ otp.code # 0
  <2>1. Limit \in Nat /\ otp.failures \in Nat
    OBVIOUS
  <2> QED
    BY <2>1 DEF Verdict, Locked
<1>2. /\ otp' = Consumed(d)
      /\ Goes(s, IF d = "wrong" THEN "refused" ELSE d)
      /\ admits' = [admits EXCEPT
            !.taken = IF d = "taken"
                      THEN [admits.taken EXCEPT ![otp.code] = admits.taken[otp.code] + 1]
                      ELSE admits.taken,
            !.wrong = IF d = "wrong" THEN @ + 1 ELSE @,
            !.early = @ \/ (d = "wrong" /\ \E r \in Slot : requests[r].at = "stored")]
  BY DEF TakeCode
<1>h. /\ admits \in [taken : [Code -> Nat], wrong : Nat, early : BOOLEAN]
      /\ admits.taken \in [Code -> Nat] /\ admits.wrong \in Nat /\ admits.early \in BOOLEAN
  BY DEF CodeInv
<1>0. UNCHANGED <<form, account, inbox, tries>> /\ requests[s].kind = "verify"
  BY DEF TakeCode, At
<1> HIDE DEF d
<1>3. PICK at \in {"refused", "taken"} : Goes(s, at)
  BY <1>1, <1>2
<1>4. /\ requests' \in Requests
      /\ requests'[s].at = at
      /\ \A r \in Slot \ {s} : requests'[r] = requests[r]
  BY <1>0, <1>3, RequestMoves DEF Kind, Step
<1>5. StoredIsCode' /\ \A r \in Slot : requests'[r].at = "stored" => requests[r].at = "stored"
  BY <1>3, <1>4 DEF StoredIsCode, CodeInv
<1>6. CASE d = "refused"
  <2>1. otp' = otp
    BY <1>2, <1>6 DEF Consumed
  <2>2. admits' = admits
    <3>1. admits.early \in BOOLEAN /\ DOMAIN admits = {"taken", "wrong", "early"}
      BY DEF CodeInv
    <3> QED
      BY <1>2, <1>6, <3>1 DEF CodeInv
  <2> QED
    BY <1>0, <1>4, <1>5, <2>1, <2>2, KeysMove DEF CodeInv, SignInTypeOK
<1>7. CASE d = "wrong"
  <2>1. otp' = [otp EXCEPT !.failures = @ + 1]
    BY <1>2, <1>7 DEF Consumed
  <2>2. /\ otp' \in [code : Guess, failures : 0..Limit, pause : BOOLEAN]
        /\ otp'.code = otp.code /\ otp'.failures = otp.failures + 1
    BY <1>1, <1>7, <2>1
  <2>3. /\ admits' \in [taken : [Code -> Nat], wrong : Nat, early : BOOLEAN]
        /\ admits'.taken = admits.taken /\ admits'.wrong = admits.wrong + 1
        /\ ~admits'.early => ~admits.early /\ ~\E r \in Slot : requests[r].at = "stored"
    <3> DEFINE early == admits.early \/ \E r \in Slot : requests[r].at = "stored"
    <3>1. admits' = [admits EXCEPT !.taken = admits.taken, !.wrong = admits.wrong + 1,
                                   !.early = early]
      BY <1>2, <1>7
    <3>2. early \in BOOLEAN /\ admits.wrong + 1 \in Nat
      BY <1>h
    <3> HIDE DEF early
    <3>3. /\ admits' \in [taken : [Code -> Nat], wrong : Nat, early : BOOLEAN]
          /\ admits'.taken = admits.taken /\ admits'.wrong = admits.wrong + 1
          /\ admits'.early = early
      BY <1>h, <3>1, <3>2, HistoryMoves
    <3> QED
      BY <3>3 DEF early
  <2>4. SignInTypeOK'
    BY <1>0, <1>4, <2>2, TypeAfter DEF CodeInv, SignInTypeOK
  <2>5. TakenIsGone' /\ otp'.code <= tries'.codes
    BY <1>0, <2>2, <2>3 DEF TakenIsGone, CodeInv
  <2>6. ASSUME ~admits'.early
        PROVE  WrongIsCounted'
    <3>1. admits.wrong \in Nat /\ admits.wrong <= otp.failures /\ otp.failures \in Nat
      BY <1>1, <1>7, <2>3, <2>6 DEF CodeInv, WrongIsCounted
    <3> QED
      BY <1>1, <1>5, <1>7, <2>2, <2>3, <2>6, <3>1 DEF WrongIsCounted
  <2> QED
    BY <1>5, <2>3, <2>4, <2>5, <2>6 DEF CodeInv
<1>8. CASE d = "taken"
  <2>1. otp' = [code |-> 0, failures |-> 0, pause |-> FALSE]
    BY <1>2, <1>8 DEF Consumed
  <2>2. otp.code \in Code /\ admits.taken[otp.code] = 0
    BY <1>1, <1>8, Bounds DEF CodeInv, TakenIsGone
  <2>3. /\ admits' \in [taken : [Code -> Nat], wrong : Nat, early : BOOLEAN]
        /\ admits'.taken = [admits.taken EXCEPT ![otp.code] = @ + 1]
        /\ admits'.wrong = admits.wrong /\ admits'.early = admits.early
    <3> DEFINE one == [admits.taken EXCEPT ![otp.code] = admits.taken[otp.code] + 1]
           early == admits.early
                        \/ (d = "wrong" /\ \E r \in Slot : requests[r].at = "stored")
    <3>1. one \in [Code -> Nat] /\ early = admits.early
      BY <1>h, <1>8, <2>2
    <3>2. admits' = [admits EXCEPT
              !.taken = IF d = "taken" THEN one ELSE admits.taken,
              !.wrong = IF d = "wrong" THEN admits.wrong + 1 ELSE admits.wrong,
              !.early = early]
      BY <1>2
    <3> HIDE DEF one, early
    <3>4. admits' = [admits EXCEPT !.taken = one, !.wrong = admits.wrong, !.early = early]
      BY <1>8, <3>2
    <3>3. /\ admits' \in [taken : [Code -> Nat], wrong : Nat, early : BOOLEAN]
          /\ admits'.taken = one
          /\ admits'.wrong = admits.wrong /\ admits'.early = admits.early
      BY <1>h, <3>1, <3>4, HistoryMoves
    <3> QED
      BY <3>3 DEF one
  <2>4. SignInTypeOK'
    BY <1>0, <1>4, <2>1, Bounds, TypeAfter DEF CodeInv, SignInTypeOK
  <2>5. TakenIsGone'
    <3>1. /\ otp.code <= tries.codes /\ tries' = tries /\ otp'.code = 0
          /\ admits.taken \in [Code -> Nat] /\ \A c \in Code : c # 0
      BY <1>0, <2>1 DEF CodeInv, Code
    <3>2. /\ admits'.taken[otp.code] = 1
          /\ \A c \in Code \ {otp.code} : admits'.taken[c] = admits.taken[c]
      BY <2>2, <2>3, <3>1
    <3> QED
      BY <3>1, <3>2 DEF TakenIsGone, CodeInv
  <2>6. otp'.code <= tries'.codes
    BY <1>0, <2>1 DEF TriesRow
  <2>7. (~admits.early => WrongIsCounted)'
    BY <1>5, <2>1, <2>3 DEF CodeInv, WrongIsCounted
  <2> QED
    BY <1>5, <2>3, <2>4, <2>5, <2>6, <2>7 DEF CodeInv
<1> QED
  BY <1>1, <1>6, <1>7, <1>8

LEMMA NewAccount ==
    \A p \in BOOLEAN : [there |-> TRUE, password |-> p, active |-> TRUE] \in AccountRow
BY DEF AccountRow

LEMMA ApiStep ==
    ASSUME CodeInv, NEW s \in Slot, Api(s)
    PROVE  CodeInv'
<1> USE StateTypes
<1>0. account \in AccountRow
  OBVIOUS
<1>1. CASE LoginOptions(s)
  BY <1>1, MovedOn DEF LoginOptions, At, Kind, Step
<1>2. CASE Login(s)
  BY <1>2, MovedOn DEF Login, At, Kind, Step
<1>3. CASE Register(s)
  <2>1. PICK at \in {"refused", "accepted"} : Goes(s, at)
    BY <1>3 DEF Register
  <2>2. account' \in AccountRow
    <3>1. \/ account' = account
          \/ account' = [there |-> TRUE, password |-> TRUE, active |-> TRUE]
      BY <1>3 DEF Register
    <3> QED
      BY <1>0, <3>1, NewAccount
  <2> QED
    BY <1>3, <2>1, <2>2, MovedOn DEF Register, At, Kind, Step
<1>4. CASE SendLooks(s)
  BY <1>4, LookedUp DEF SendLooks, At, Kind, Step, AccountRow
<1>5. CASE LookForPause(s)
  BY <1>5, MovedOn DEF LookForPause, At, Kind, Step
<1>6. CASE VerifyLooks(s)
  BY <1>6, LookedUp DEF VerifyLooks, At, Kind, Step, AccountRow
<1>7. CASE Admit(s)
  <2>1. PICK at \in {"refused", "accepted"} : Goes(s, at)
    BY <1>7 DEF Admit
  <2>2. account' \in AccountRow
    <3>1. \/ account' = account
          \/ account' = [there |-> TRUE, password |-> FALSE, active |-> TRUE]
      BY <1>7 DEF Admit
    <3> QED
      BY <1>0, <3>1, NewAccount
  <2> QED
    BY <1>7, <2>1, <2>2, MovedOn DEF Admit, At, Kind, Step
<1> QED
  BY <1>1, <1>2, <1>3, <1>4, <1>5, <1>6, <1>7, StoreCodeStep, ClearFailuresStep, SendSmsStep,
     StartPauseStep, TakeCodeStep DEF Api

(* An answer that comes, or does not. *)
LEMMA AnswerStep ==
    ASSUME CodeInv,
           \/ \E s \in Slot : AskFails(s)
           \/ OptionsArrive \/ SendArrives \/ EnterArrives
    PROVE  CodeInv'
<1> USE StateTypes
<1>1. NoAsk.at \notin {"stored", "cleared"}
  BY DEF NoAsk
<1>2. ASSUME NEW s \in Slot, AskFails(s)
      PROVE  CodeInv'
  BY <1>1, <1>2, OneReplaced DEF AskFails, Arrived
<1>3. CASE OptionsArrive
  <2>1. form' \in FormRow
    BY <1>3 DEF OptionsArrive, FormRow
  <2>2. PICK row \in {NoAsk, AskRow("send", 0, FALSE)} : requests' = [requests EXCEPT !["ask"] = row]
    BY <1>3 DEF OptionsArrive, Arrived
  <2>3. AskRow("send", 0, FALSE) \in Request /\ AskRow("send", 0, FALSE).at = "sent"
    BY AskRows, Bounds DEF Kind
  <2>4. row \in {NoAsk} \cup Request /\ row.at \notin {"stored", "cleared"}
    BY <1>1, <2>2, <2>3
  <2> QED
    BY <1>3, <2>1, <2>2, <2>4, OneReplaced DEF OptionsArrive, Slot
<1>4. CASE SendArrives
  <2>1. requests["ask"].known \in BOOLEAN
    BY <1>4, Advanced DEF SendArrives, At, Slot, Kind, Step, Request
  <2>2. form' \in FormRow
    BY <1>4, <2>1 DEF SendArrives, FormRow
  <2> QED
    BY <1>1, <1>4, <2>2, OneReplaced DEF SendArrives, Arrived, Slot
<1>5. CASE EnterArrives
  <2>1. form' \in FormRow
    BY <1>5 DEF EnterArrives, FormRow
  <2>2. requests' \in Requests /\ \A r \in Slot : requests'[r] \in {requests[r], NoAsk}
    BY <1>5 DEF EnterArrives, Requests, Slot
  <2>3. StoredIsCode' /\ \A r \in Slot : requests'[r].at = "stored" => requests[r].at = "stored"
    BY <1>1, <2>2 DEF StoredIsCode, CodeInv
  <2> QED
    BY <1>5, <2>1, <2>2, <2>3, CodeAlone DEF EnterArrives
<1> QED
  BY <1>2, <1>3, <1>4, <1>5

-----------------------------------------------------------------------------
(* The specification *)

LEMMA CodeInit == SignInInit => CodeInv
BY DEF SignInInit, CodeInv, SignInTypeOK, StoredIsCode, TakenIsGone, WrongIsCounted, NoAsk, Guess,
       Code

LEMMA CodeNext ==
    ASSUME CodeInv, SignInNext
    PROVE  CodeInv'
BY FormStep, ApiStep, AnswerStep, KeysExpireStep DEF SignInNext

LEMMA CodeSame ==
    ASSUME CodeInv, UNCHANGED signInVars
    PROVE  CodeInv'
BY DEF CodeInv, signInVars, SignInTypeOK, StoredIsCode, TakenIsGone, WrongIsCounted

(* Who is in leaves the forms as they were at the beginning. *)
LEMMA CodeLeft ==
    ASSUME CodeInv, LeaveForms
    PROVE  CodeInv'
BY DEF LeaveForms, CodeInv, SignInTypeOK, StoredIsCode, TakenIsGone, WrongIsCounted, NoAsk, Guess,
       Code

LEMMA CodeHolds == PortalSpec => []CodeInv
<1>1. PortalInit => CodeInv
  BY CodeInit DEF PortalInit
<1>2. CodeInv /\ [PortalNext]_portalVars => CodeInv'
  <2>1. CodeInv /\ PortalNext => CodeInv'
    BY CodeNext, CodeSame, CodeLeft DEF PortalNext, SigningIn, OnPage
  <2>2. CodeInv /\ UNCHANGED portalVars => CodeInv'
    BY CodeSame DEF portalVars
  <2> QED
    BY <2>1, <2>2
<1> QED
  BY <1>1, <1>2, PTL DEF PortalSpec

(* The forms and the codes keep their types (login-form.tsx, otp-form.tsx, *)
(* register-form.tsx, otp_service.py).                                     *)
THEOREM SignInTypes == PortalSpec => []SignInTypeOK
<1>1. CodeInv => SignInTypeOK
  BY DEF CodeInv
<1> QED
  BY <1>1, CodeHolds, PTL

(* However many requests send a code at once and however the keys in Redis *)
(* expire meanwhile, _CONSUME_OTP_SCRIPT lets one of them in, and a code   *)
(* that nobody guessed before _store_code had cleared the failures of the  *)
(* one before it is guessed wrong no more often than OTP_FAIL_LIMIT.       *)
THEOREM OneAdmission == PortalSpec => []CodeAdmitsOnce
<1>1. CodeInv => CodeAdmitsOnce
  BY DEF CodeInv, TakenIsGone, WrongIsCounted, CodeAdmitsOnce
<1> QED
  BY <1>1, CodeHolds, PTL

-----------------------------------------------------------------------------
(* The pages: their controls and handlers *)

(* Buttons that are disabled while the flag of their request is set: there *)
(* is one for a flag.                                                      *)
Sole(o) == o.guarded /\ o.flag # "none" /\ o.via # "button"

Loaded(p)  == p.asks.error # "blank"
HasForm(p) == \E o \in p.ops : o.via = "form"
Patches(p) == \E o \in p.ops : o.after = "patch"

Fits(p) ==
    /\ \A o \in p.ops :
          /\ o.flag \in Flag \cup {"none"}
          /\ o.via # "none"
          /\ o.after \in {"append", "adopt"} => \E q \in p.ops : q.via = "form"
          /\ o.via \in {"form", "top"} => o.shuts # "click"
          /\ (\E q \in p.ops : q.via = "form") => o.via \in {"form", "top"}
    /\ \A o, q \in p.ops : Sole(o) /\ q.flag = o.flag => q = o

(* What the handlers of a page have in common: lists that are cached are   *)
(* dropped; a page with a form asks again after each save of it, or never, *)
(* and its other operations are above the form; a page that patches its    *)
(* rows patches all it writes; any other page asks for its list again.     *)
HandlersFit(p) ==
    /\ \A o \in p.ops : o.drops \in {"never", "after", "before"}
    /\ p.asks.cached => \A o \in p.ops : o.drops # "never"
    /\ Loaded(p) /\ HasForm(p) =>
          /\ p.asks.search # "server" /\ p.asks.pager = "none"
          /\ p.filter.by \notin {"fixed", "server"}
          /\ \A o \in p.ops :
                /\ o.drops # "before" /\ o.shuts = "never"
                /\ o.via = "form" => o.does = "put"
                /\ o.via = "top" => o.does = "none" /\ o.after \in {"none", "append"}
                /\ o.after # "later"
                /\ o.via = "form" /\ (\E q \in p.ops : Reloads(q)) => Reloads(o)
    /\ Loaded(p) /\ ~HasForm(p) /\ ~Patches(p) => \A o \in p.ops : Reloads(o)
    /\ Loaded(p) /\ Patches(p) => \A o \in p.ops :
          \/ Reloads(o)
          \/ o.does \in {"put", "decide", "all"} /\ o.after = "patch"
          \/ o.does = "none" /\ o.after = "none"

LEMMA MessagingFits == Fits(Messaging) /\ HandlersFit(Messaging)
<1> DEFINE a == Op(ToggleEnabled, EnabledSwitch, Any)
           b == Op(ToggleEnabled, EnabledColumn, Any)
           c == Op(SaveChannels, ChannelsDialog, Any)
           d == Op(TestSend, TestDialog, Any)
<1>1. /\ a.flag = "row" /\ a.after = "patch" /\ a.shuts = "never"
      /\ a.via = "button" /\ a.guarded = TRUE /\ a.does = "put" /\ a.drops = "never"
  BY DEF Op, Handler, Control, ToggleEnabled, EnabledSwitch, Button
<1>2. /\ b.flag = "row" /\ b.after = "patch" /\ b.shuts = "never"
      /\ b.via = "button" /\ b.guarded = TRUE /\ b.does = "put" /\ b.drops = "never"
  BY DEF Op, Handler, Control, ToggleEnabled, EnabledColumn, Button
<1>3. /\ c.flag = "dialog" /\ c.after = "patch" /\ c.shuts = "answer"
      /\ c.via = "dialog" /\ c.guarded = TRUE /\ c.does = "put" /\ c.drops = "never"
  BY DEF Op, Handler, Control, SaveChannels, ChannelsDialog, Dialog
<1>4. /\ d.flag = "other" /\ d.after = "none" /\ d.shuts = "answer"
      /\ d.via = "dialog" /\ d.guarded = TRUE /\ d.does = "none" /\ d.drops = "never"
  BY DEF Op, Handler, Control, TestSend, TestDialog, Dialog
<1>5. Messaging.ops = {a, b, c, d}
  BY DEF Messaging, Page
<1>6. /\ Messaging.asks.search = "server" /\ Messaging.asks.pager = "server"
      /\ Messaging.asks.cached = FALSE /\ Messaging.asks.error = "keep"
      /\ Messaging.filter.by = "none"
  BY DEF Messaging, Page, MessagingAsks, Asks, NoFilter, Filter
<1> HIDE DEF a, b, c, d
<1>7. Fits(Messaging)
  BY <1>1, <1>2, <1>3, <1>4, <1>5, <1>6 DEF Fits, Sole, Flag
<1>8. HandlersFit(Messaging)
  BY <1>1, <1>2, <1>3, <1>4, <1>5, <1>6 DEF HandlersFit, Loaded, HasForm, Patches, Reloads
<1> QED
  BY <1>7, <1>8

LEMMA UsersFits == Fits(Users) /\ HandlersFit(Users)
<1> DEFINE a == Op(RoleChange, UserRow, Any)
           b == Op(ToggleActive, UserRow, Any)
           c == Op(DeleteUser, UserDialog, Any)
<1>1. /\ a.flag = "row" /\ a.after = "reload" /\ a.shuts = "never"
      /\ a.via = "button" /\ a.guarded = TRUE /\ a.does = "put" /\ a.drops = "after"
  BY DEF Op, Handler, Control, RoleChange, UserRow, Button
<1>2. /\ b.flag = "row" /\ b.after = "reload" /\ b.shuts = "never"
      /\ b.via = "button" /\ b.guarded = TRUE /\ b.does = "flip" /\ b.drops = "after"
  BY DEF Op, Handler, Control, ToggleActive, UserRow, Button
<1>3. /\ c.flag = "dialog" /\ c.after = "cut" /\ c.shuts = "answer"
      /\ c.via = "dialog" /\ c.guarded = TRUE /\ c.does = "remove" /\ c.drops = "before"
  BY DEF Op, Handler, Control, DeleteUser, UserDialog, Dialog
<1>4. Users.ops = {a, b, c}
  BY DEF Users, Page
<1>5. /\ Users.asks.search = "server" /\ Users.asks.pager = "server"
      /\ Users.asks.cached = TRUE /\ Users.asks.error = "empty"
      /\ Users.filter.by = "server"
  BY DEF Users, Page, UsersAsks, Asks, UsersFilters, Filter
<1> HIDE DEF a, b, c
<1>6. Fits(Users)
  BY <1>1, <1>2, <1>3, <1>4, <1>5 DEF Fits, Sole, Flag
<1>7. HandlersFit(Users)
  BY <1>1, <1>2, <1>3, <1>4, <1>5 DEF HandlersFit, Loaded, HasForm, Patches, Reloads
<1> QED
  BY <1>6, <1>7

LEMMA ManagerRequestsFits == Fits(ManagerRequests) /\ HandlersFit(ManagerRequests)
<1> DEFINE a == Op(SubmitDecision, DecisionDialog, DecisionButtons)
<1>1. /\ a.flag = "dialog" /\ a.after = "patch" /\ a.shuts = "answer"
      /\ a.via = "dialog" /\ a.guarded = TRUE /\ a.does = "decide" /\ a.drops = "never"
  BY DEF Op, Handler, Control, SubmitDecision, DecisionDialog
<1>2. ManagerRequests.ops = {a}
  BY DEF ManagerRequests, Page
<1>3. /\ ManagerRequests.asks.search = "direct" /\ ManagerRequests.asks.pager = "none"
      /\ ManagerRequests.asks.cached = FALSE /\ ManagerRequests.asks.error = "keep"
      /\ ManagerRequests.filter.by = "client"
  BY DEF ManagerRequests, Page, RequestsAsks, Asks, RequestsFilter, Filter
<1> HIDE DEF a
<1>4. Fits(ManagerRequests)
  BY <1>1, <1>2, <1>3 DEF Fits, Sole, Flag
<1>5. HandlersFit(ManagerRequests)
  BY <1>1, <1>2, <1>3 DEF HandlersFit, Loaded, HasForm, Patches, Reloads
<1> QED
  BY <1>4, <1>5

LEMMA PendingVendorsFits == Fits(PendingVendors) /\ HandlersFit(PendingVendors)
<1> DEFINE a == Op(ApproveVendor, PendingRow, Any)
           b == Op(RejectVendor, PendingRow, Any)
<1>1. /\ a.flag = "row" /\ a.after = "reload" /\ a.shuts = "never"
      /\ a.via = "button" /\ a.guarded = TRUE /\ a.does = "accept" /\ a.drops = "before"
  BY DEF Op, Handler, Control, ApproveVendor, PendingRow, Button
<1>2. /\ b.flag = "row" /\ b.after = "reload" /\ b.shuts = "never"
      /\ b.via = "button" /\ b.guarded = TRUE /\ b.does = "reject" /\ b.drops = "before"
  BY DEF Op, Handler, Control, RejectVendor, PendingRow, Button
<1>3. PendingVendors.ops = {a, b}
  BY DEF PendingVendors, Page
<1>4. /\ PendingVendors.asks.search = "client" /\ PendingVendors.asks.pager = "server"
      /\ PendingVendors.asks.cached = TRUE /\ PendingVendors.asks.error = "keep"
      /\ PendingVendors.filter.by = "fixed"
  BY DEF PendingVendors, Page, PendingAsks, Asks, PendingOnly, Filter
<1> HIDE DEF a, b
<1>5. Fits(PendingVendors)
  BY <1>1, <1>2, <1>3, <1>4 DEF Fits, Sole, Flag
<1>6. HandlersFit(PendingVendors)
  BY <1>1, <1>2, <1>3, <1>4 DEF HandlersFit, Loaded, HasForm, Patches, Reloads
<1> QED
  BY <1>5, <1>6

LEMMA VendorsFits == Fits(Vendors) /\ HandlersFit(Vendors)
<1> DEFINE a == Op(DeleteVendor, VendorAlert, Any)
           b == Op(ToggleVendor, VendorRow, Any)
<1>1. /\ a.flag = "dialog" /\ a.after = "reload" /\ a.shuts = "answer"
      /\ a.via = "alert" /\ a.guarded = TRUE /\ a.does = "remove" /\ a.drops = "after"
  BY DEF Op, Handler, Control, DeleteVendor, VendorAlert, Alert
<1>2. /\ b.flag = "none" /\ b.after = "reload" /\ b.shuts = "never"
      /\ b.via = "button" /\ b.guarded = FALSE /\ b.does = "put" /\ b.drops = "after"
  BY DEF Op, Handler, Control, ToggleVendor, VendorRow, Link
<1>3. Vendors.ops = {a, b}
  BY DEF Vendors, Page
<1>4. /\ Vendors.asks.search = "server" /\ Vendors.asks.pager = "server"
      /\ Vendors.asks.cached = TRUE /\ Vendors.asks.error = "empty"
      /\ Vendors.filter.by = "server"
  BY DEF Vendors, Page, VendorsAsks, Asks, VendorsFilters, Filter
<1> HIDE DEF a, b
<1>5. Fits(Vendors)
  BY <1>1, <1>2, <1>3, <1>4 DEF Fits, Sole, Flag
<1>6. HandlersFit(Vendors)
  BY <1>1, <1>2, <1>3, <1>4 DEF HandlersFit, Loaded, HasForm, Patches, Reloads
<1> QED
  BY <1>5, <1>6

LEMMA MessagesFits == Fits(Messages) /\ HandlersFit(Messages)
<1> DEFINE a == Op(DeleteMessage, MessageAlert, MessageRow)
<1>1. /\ a.flag = "none" /\ a.after = "reload" /\ a.shuts = "answer"
      /\ a.via = "alert" /\ a.guarded = FALSE /\ a.does = "remove" /\ a.drops = "after"
  BY DEF Op, Handler, Control, DeleteMessage, MessageAlert
<1>2. Messages.ops = {a}
  BY DEF Messages, Page
<1>3. /\ Messages.asks.search = "client" /\ Messages.asks.pager = "both"
      /\ Messages.asks.cached = TRUE /\ Messages.asks.error = "empty"
      /\ Messages.filter.by = "client"
  BY DEF Messages, Page, MessagesAsks, Asks, MessagesFilter, Filter
<1> HIDE DEF a
<1>4. Fits(Messages)
  BY <1>1, <1>2, <1>3 DEF Fits, Sole, Flag
<1>5. HandlersFit(Messages)
  BY <1>1, <1>2, <1>3 DEF HandlersFit, Loaded, HasForm, Patches, Reloads
<1> QED
  BY <1>4, <1>5

LEMMA AllBookingsFits == Fits(AllBookings) /\ HandlersFit(AllBookings)
BY DEF AllBookings, Page, ReadOnly, Fits, HandlersFit, HasForm, Patches

LEMMA CancellationsFits == Fits(Cancellations) /\ HandlersFit(Cancellations)
BY DEF Cancellations, Page, ReadOnly, Fits, HandlersFit, HasForm, Patches

LEMMA PaymentsFits == Fits(Payments) /\ HandlersFit(Payments)
BY DEF Payments, Page, ReadOnly, Fits, HandlersFit, HasForm, Patches

LEMMA RefundsFits == Fits(Refunds) /\ HandlersFit(Refunds)
BY DEF Refunds, Page, ReadOnly, Fits, HandlersFit, HasForm, Patches

LEMMA AllPaymentsFits == Fits(AllPayments) /\ HandlersFit(AllPayments)
BY DEF AllPayments, Page, ReadOnly, Fits, HandlersFit, HasForm, Patches

LEMMA ExplorerFits == Fits(Explorer) /\ HandlersFit(Explorer)
BY DEF Explorer, Page, ReadOnly, Fits, HandlersFit, HasForm, Patches

LEMMA MyReviewsFits == Fits(MyReviews) /\ HandlersFit(MyReviews)
BY DEF MyReviews, Page, ReadOnly, Fits, HandlersFit, HasForm, Patches

LEMMA NotificationsFits == Fits(Notifications) /\ HandlersFit(Notifications)
<1> DEFINE a == Op(MarkRead, NotificationTable, UnreadRow)
           b == Op(MarkAllRead, Top, Any)
           c == Op(Broadcast, BroadcastDialog, Any)
<1>1. /\ a.flag = "none" /\ a.after = "patch" /\ a.shuts = "never"
      /\ a.via = "button" /\ a.guarded = FALSE /\ a.does = "put" /\ a.drops = "after"
  BY DEF Op, Handler, Control, MarkRead, NotificationTable, Link
<1>2. /\ b.flag = "other" /\ b.after = "patch" /\ b.shuts = "never"
      /\ b.via = "top" /\ b.guarded = TRUE /\ b.does = "all" /\ b.drops = "after"
  BY DEF Op, Handler, Control, MarkAllRead, Top
<1>3. /\ c.flag = "dialog" /\ c.after = "later" /\ c.shuts = "answer"
      /\ c.via = "dialog" /\ c.guarded = TRUE /\ c.does = "add" /\ c.drops = "before"
  BY DEF Op, Handler, Control, Broadcast, BroadcastDialog, Dialog
<1>4. Notifications.ops = {a, b, c}
  BY DEF Notifications, Page
<1>5. /\ Notifications.asks.search = "server" /\ Notifications.asks.pager = "server"
      /\ Notifications.asks.cached = TRUE /\ Notifications.asks.error = "keep"
      /\ Notifications.filter.by = "server"
  BY DEF Notifications, Page, NotificationsAsks, Asks, NotificationsFilters, Filter
<1> HIDE DEF a, b, c
<1>6. Fits(Notifications)
  BY <1>1, <1>2, <1>3, <1>4, <1>5 DEF Fits, Sole, Flag
<1>7. HandlersFit(Notifications)
  BY <1>1, <1>2, <1>3, <1>4, <1>5 DEF HandlersFit, Loaded, HasForm, Patches, Reloads
<1> QED
  BY <1>6, <1>7

LEMMA LogsFits == Fits(Logs) /\ HandlersFit(Logs)
<1> DEFINE a == Op(DeleteLog, LogAlert, LogRow)
<1>1. /\ a.flag = "none" /\ a.after = "reload" /\ a.shuts = "click"
      /\ a.via = "alert" /\ a.guarded = FALSE /\ a.does = "remove" /\ a.drops = "before"
  BY DEF Op, Handler, Control, DeleteLog, LogAlert
<1>2. Logs.ops = {a}
  BY DEF Logs, Page
<1>3. /\ Logs.asks.search = "none" /\ Logs.asks.pager = "server"
      /\ Logs.asks.cached = TRUE /\ Logs.asks.error = "keep"
      /\ Logs.filter.by = "server"
  BY DEF Logs, Page, LogsAsks, Asks, LogsFilters, Filter
<1> HIDE DEF a
<1>4. Fits(Logs)
  BY <1>1, <1>2, <1>3 DEF Fits, Sole, Flag
<1>5. HandlersFit(Logs)
  BY <1>1, <1>2, <1>3 DEF HandlersFit, Loaded, HasForm, Patches, Reloads
<1> QED
  BY <1>4, <1>5

LEMMA VendorReviewsFits == Fits(VendorReviews) /\ HandlersFit(VendorReviews)
<1> DEFINE a == Op(RespondReview, ResponseEditor, Any)
<1>1. /\ a.flag = "dialog" /\ a.after = "patch" /\ a.shuts = "answer"
      /\ a.via = "inline" /\ a.guarded = TRUE /\ a.does = "put" /\ a.drops = "never"
  BY DEF Op, Handler, Control, RespondReview, ResponseEditor
<1>2. VendorReviews.ops = {a}
  BY DEF VendorReviews, Page
<1>3. /\ VendorReviews.asks.search = "none" /\ VendorReviews.asks.pager = "none"
      /\ VendorReviews.asks.cached = FALSE /\ VendorReviews.asks.error = "card"
      /\ VendorReviews.filter.by = "none"
  BY DEF VendorReviews, Page, ReviewsAsks, Asks, NoFilter, Filter
<1> HIDE DEF a
<1>4. Fits(VendorReviews)
  BY <1>1, <1>2, <1>3 DEF Fits, Sole, Flag
<1>5. HandlersFit(VendorReviews)
  BY <1>1, <1>2, <1>3 DEF HandlersFit, Loaded, HasForm, Patches, Reloads
<1> QED
  BY <1>4, <1>5

LEMMA HeroImagesFits == Fits(HeroImages) /\ HandlersFit(HeroImages)
<1> DEFINE a == Op(UploadHero, Top, Any)
           b == Op(DeleteHero, Link, Any)
<1>1. /\ a.flag = "other" /\ a.after = "await" /\ a.shuts = "never"
      /\ a.via = "top" /\ a.guarded = TRUE /\ a.does = "add" /\ a.drops = "never"
  BY DEF Op, Handler, Control, UploadHero, Top
<1>2. /\ b.flag = "none" /\ b.after = "await" /\ b.shuts = "never"
      /\ b.via = "button" /\ b.guarded = FALSE /\ b.does = "place" /\ b.drops = "never"
  BY DEF Op, Handler, Control, DeleteHero, Link
<1>3. HeroImages.ops = {a, b}
  BY DEF HeroImages, Page
<1>4. /\ HeroImages.asks.search = "none" /\ HeroImages.asks.pager = "none"
      /\ HeroImages.asks.cached = FALSE /\ HeroImages.asks.error = "keep"
      /\ HeroImages.filter.by = "none"
  BY DEF HeroImages, Page, HeroAsks, Loads, Asks, NoFilter, Filter
<1> HIDE DEF a, b
<1>5. Fits(HeroImages)
  BY <1>1, <1>2, <1>3, <1>4 DEF Fits, Sole, Flag
<1>6. HandlersFit(HeroImages)
  BY <1>1, <1>2, <1>3, <1>4 DEF HandlersFit, Loaded, HasForm, Patches, Reloads
<1> QED
  BY <1>5, <1>6

LEMMA WeekBookingsFits == Fits(WeekBookings) /\ HandlersFit(WeekBookings)
<1> DEFINE a == Op(CancelBooking, DetailDialog, SlotButtons)
           b == Op(ManualSlotBooking, ManualDialog, Open)
<1>1. /\ a.flag = "dialog" /\ a.after = "reload" /\ a.shuts = "answer"
      /\ a.via = "dialog" /\ a.guarded = TRUE /\ a.does = "clear" /\ a.drops = "never"
  BY DEF Op, Handler, Control, CancelBooking, DetailDialog, Dialog
<1>2. /\ b.flag = "other" /\ b.after = "reload" /\ b.shuts = "answer"
      /\ b.via = "dialog" /\ b.guarded = TRUE /\ b.does = "accept" /\ b.drops = "never"
  BY DEF Op, Handler, Control, ManualSlotBooking, ManualDialog, Dialog
<1>3. WeekBookings.ops = {a, b}
  BY DEF WeekBookings, Page
<1>4. /\ WeekBookings.asks.search = "none" /\ WeekBookings.asks.pager = "none"
      /\ WeekBookings.asks.cached = FALSE /\ WeekBookings.asks.error = "keep"
      /\ WeekBookings.filter.by = "none"
  BY DEF WeekBookings, Page, BookingsOfWeek, Loads, Asks, NoFilter, Filter
<1> HIDE DEF a, b
<1>5. Fits(WeekBookings)
  BY <1>1, <1>2, <1>3, <1>4 DEF Fits, Sole, Flag
<1>6. HandlersFit(WeekBookings)
  BY <1>1, <1>2, <1>3, <1>4 DEF HandlersFit, Loaded, HasForm, Patches, Reloads
<1> QED
  BY <1>5, <1>6

LEMMA ListSettingEditorFits == Fits(ListSettingEditor) /\ HandlersFit(ListSettingEditor)
<1> DEFINE a == Op(SaveList, Form, Any)
<1>1. /\ a.flag = "dialog" /\ a.after = "none" /\ a.shuts = "never"
      /\ a.via = "form" /\ a.guarded = TRUE /\ a.does = "put" /\ a.drops = "never"
  BY DEF Op, Handler, Control, SaveList, Form
<1>2. ListSettingEditor.ops = {a}
  BY DEF ListSettingEditor, Page
<1>3. /\ ListSettingEditor.asks.search = "none" /\ ListSettingEditor.asks.pager = "none"
      /\ ListSettingEditor.asks.cached = FALSE /\ ListSettingEditor.asks.error = "keep"
      /\ ListSettingEditor.filter.by = "none"
  BY DEF ListSettingEditor, Page, EditorLoad, Loads, Asks, NoFilter, Filter
<1> HIDE DEF a
<1>4. Fits(ListSettingEditor)
  BY <1>1, <1>2, <1>3 DEF Fits, Sole, Flag
<1>5. HandlersFit(ListSettingEditor)
  BY <1>1, <1>2, <1>3 DEF HandlersFit, Loaded, HasForm, Patches, Reloads
<1> QED
  BY <1>4, <1>5

LEMMA VendorDetailsFits == Fits(VendorDetails) /\ HandlersFit(VendorDetails)
<1> DEFINE a == Op(SaveVendor, DetailsForm, Any)
           b == Op(UploadImage, ImageUpload, Any)
<1>1. /\ a.flag = "dialog" /\ a.after = "reload" /\ a.shuts = "never"
      /\ a.via = "form" /\ a.guarded = TRUE /\ a.does = "put" /\ a.drops = "after"
  BY DEF Op, Handler, Control, SaveVendor, DetailsForm, Form
<1>2. /\ b.flag = "other" /\ b.after = "append" /\ b.shuts = "never"
      /\ b.via = "top" /\ b.guarded = TRUE /\ b.does = "none" /\ b.drops = "never"
  BY DEF Op, Handler, Control, UploadImage, ImageUpload, Top
<1>3. VendorDetails.ops = {a, b}
  BY DEF VendorDetails, Page
<1>4. /\ VendorDetails.asks.search = "none" /\ VendorDetails.asks.pager = "none"
      /\ VendorDetails.asks.cached = FALSE /\ VendorDetails.asks.error = "keep"
      /\ VendorDetails.filter.by = "none"
  BY DEF VendorDetails, Page, DetailsLoad, Loads, Asks, NoFilter, Filter
<1> HIDE DEF a, b
<1>5. Fits(VendorDetails)
  BY <1>1, <1>2, <1>3, <1>4 DEF Fits, Sole, Flag
<1>6. HandlersFit(VendorDetails)
  BY <1>1, <1>2, <1>3, <1>4 DEF HandlersFit, Loaded, HasForm, Patches, Reloads
<1> QED
  BY <1>5, <1>6

LEMMA ProfileFits == Fits(Profile) /\ HandlersFit(Profile)
<1> DEFINE a == Op(SaveName, NameForm, Any)
           b == Op(ChangePassword, PasswordForm, Any)
           c == Op(ChangeAvatar, AvatarButtons, Any)
<1>1. /\ a.flag = "dialog" /\ a.after = "adopt" /\ a.shuts = "never"
      /\ a.via = "form" /\ a.guarded = TRUE /\ a.does = "put" /\ a.drops = "never"
  BY DEF Op, Handler, Control, SaveName, NameForm, Form
<1>2. /\ b.flag = "other" /\ b.after = "none" /\ b.shuts = "never"
      /\ b.via = "top" /\ b.guarded = TRUE /\ b.does = "none" /\ b.drops = "never"
  BY DEF Op, Handler, Control, ChangePassword, PasswordForm, Top
<1>3. /\ c.flag = "row" /\ c.after = "none" /\ c.shuts = "never"
      /\ c.via = "top" /\ c.guarded = TRUE /\ c.does = "none" /\ c.drops = "never"
  BY DEF Op, Handler, Control, ChangeAvatar, AvatarButtons, Top
<1>4. Profile.ops = {a, b, c}
  BY DEF Profile, Page
<1>5. /\ Profile.asks.search = "none" /\ Profile.asks.pager = "none"
      /\ Profile.asks.cached = FALSE /\ Profile.asks.error = "keep"
      /\ Profile.filter.by = "none"
  BY DEF Profile, Page, ProfileLoad, Loads, Asks, NoFilter, Filter
<1> HIDE DEF a, b, c
<1>6. Fits(Profile)
  BY <1>1, <1>2, <1>3, <1>4, <1>5 DEF Fits, Sole, Flag
<1>7. HandlersFit(Profile)
  BY <1>1, <1>2, <1>3, <1>4, <1>5 DEF HandlersFit, Loaded, HasForm, Patches, Reloads
<1> QED
  BY <1>6, <1>7

LEMMA SettingsFits == Fits(Settings) /\ HandlersFit(Settings)
<1> DEFINE a == Op(SaveSetting, SettingForm, Any)
<1>1. /\ a.flag = "none" /\ a.after = "patch" /\ a.shuts = "never"
      /\ a.via = "form" /\ a.guarded = FALSE /\ a.does = "put" /\ a.drops = "never"
  BY DEF Op, Handler, Control, SaveSetting, SettingForm
<1>2. Settings.ops = {a}
  BY DEF Settings, Page
<1>3. /\ Settings.asks.search = "none" /\ Settings.asks.pager = "none"
      /\ Settings.asks.cached = FALSE /\ Settings.asks.error = "keep"
      /\ Settings.filter.by = "none"
  BY DEF Settings, Page, SettingsLoad, Loads, Asks, NoFilter, Filter
<1> HIDE DEF a
<1>4. Fits(Settings)
  BY <1>1, <1>2, <1>3 DEF Fits, Sole, Flag
<1>5. HandlersFit(Settings)
  BY <1>1, <1>2, <1>3 DEF HandlersFit, Loaded, HasForm, Patches, Reloads
<1> QED
  BY <1>4, <1>5

LEMMA ContactFits == Fits(Contact) /\ HandlersFit(Contact)
<1> DEFINE a == Op(SubmitContact, ContactForm, Any)
<1>1. /\ a.flag = "dialog" /\ a.after = "none" /\ a.shuts = "answer"
      /\ a.via = "form" /\ a.guarded = TRUE /\ a.does = "add" /\ a.drops = "never"
  BY DEF Op, Handler, Control, SubmitContact, ContactForm, Form
<1>2. Contact.ops = {a}
  BY DEF Contact, Page
<1>3. /\ Contact.asks.search = "none" /\ Contact.asks.pager = "none"
      /\ Contact.asks.cached = FALSE /\ Contact.asks.error = "blank"
      /\ Contact.filter.by = "none"
  BY DEF Contact, Page, Blank, Asks, NoFilter, Filter
<1> HIDE DEF a
<1>4. Fits(Contact)
  BY <1>1, <1>2, <1>3 DEF Fits, Sole, Flag
<1>5. HandlersFit(Contact)
  BY <1>1, <1>2, <1>3 DEF HandlersFit, Loaded, HasForm, Patches, Reloads
<1> QED
  BY <1>4, <1>5

LEMMA NewVendorFits == Fits(NewVendor) /\ HandlersFit(NewVendor)
<1> DEFINE a == Op(CreateVendor, CreateForm, Any)
<1>1. /\ a.flag = "dialog" /\ a.after = "none" /\ a.shuts = "answer"
      /\ a.via = "form" /\ a.guarded = TRUE /\ a.does = "add" /\ a.drops = "never"
  BY DEF Op, Handler, Control, CreateVendor, CreateForm, Form
<1>2. NewVendor.ops = {a}
  BY DEF NewVendor, Page
<1>3. /\ NewVendor.asks.search = "none" /\ NewVendor.asks.pager = "none"
      /\ NewVendor.asks.cached = FALSE /\ NewVendor.asks.error = "blank"
      /\ NewVendor.filter.by = "none"
  BY DEF NewVendor, Page, Blank, Asks, NoFilter, Filter
<1> HIDE DEF a
<1>4. Fits(NewVendor)
  BY <1>1, <1>2, <1>3 DEF Fits, Sole, Flag
<1>5. HandlersFit(NewVendor)
  BY <1>1, <1>2, <1>3 DEF HandlersFit, Loaded, HasForm, Patches, Reloads
<1> QED
  BY <1>4, <1>5

LEMMA RegisterComplexFits == Fits(RegisterComplex) /\ HandlersFit(RegisterComplex)
<1> DEFINE a == Op(SubmitRegister, RegisterDialog, Any)
<1>1. /\ a.flag = "none" /\ a.after = "none" /\ a.shuts = "never"
      /\ a.via = "dialog" /\ a.guarded = FALSE /\ a.does = "join" /\ a.drops = "never"
  BY DEF Op, Handler, Control, SubmitRegister, RegisterDialog
<1>2. RegisterComplex.ops = {a}
  BY DEF RegisterComplex, Page
<1>3. /\ RegisterComplex.asks.search = "none" /\ RegisterComplex.asks.pager = "none"
      /\ RegisterComplex.asks.cached = FALSE /\ RegisterComplex.asks.error = "blank"
      /\ RegisterComplex.filter.by = "none"
  BY DEF RegisterComplex, Page, Blank, Asks, NoFilter, Filter
<1> HIDE DEF a
<1>4. Fits(RegisterComplex)
  BY <1>1, <1>2, <1>3 DEF Fits, Sole, Flag
<1>5. HandlersFit(RegisterComplex)
  BY <1>1, <1>2, <1>3 DEF HandlersFit, Loaded, HasForm, Patches, Reloads
<1> QED
  BY <1>4, <1>5

LEMMA NewReviewFits == Fits(NewReview) /\ HandlersFit(NewReview)
<1> DEFINE a == Op(SubmitReview, ReviewDialog, Any)
<1>1. /\ a.flag = "dialog" /\ a.after = "none" /\ a.shuts = "answer"
      /\ a.via = "dialog" /\ a.guarded = TRUE /\ a.does = "add" /\ a.drops = "never"
  BY DEF Op, Handler, Control, SubmitReview, ReviewDialog, Dialog
<1>2. NewReview.ops = {a}
  BY DEF NewReview, Page
<1>3. /\ NewReview.asks.search = "none" /\ NewReview.asks.pager = "none"
      /\ NewReview.asks.cached = FALSE /\ NewReview.asks.error = "blank"
      /\ NewReview.filter.by = "none"
  BY DEF NewReview, Page, Blank, Asks, NoFilter, Filter
<1> HIDE DEF a
<1>4. Fits(NewReview)
  BY <1>1, <1>2, <1>3 DEF Fits, Sole, Flag
<1>5. HandlersFit(NewReview)
  BY <1>1, <1>2, <1>3 DEF HandlersFit, Loaded, HasForm, Patches, Reloads
<1> QED
  BY <1>4, <1>5

LEMMA PagesFit == \A name \in DOMAIN Pages : Fits(Pages[name]) /\ HandlersFit(Pages[name])
<1> DEFINE empty == Page(Blank, NoFilter, ReadOnly)
<1>1. Fits(empty) /\ HandlersFit(empty)
  BY DEF Page, ReadOnly, Fits, HandlersFit, HasForm, Patches, Blank, Asks, Loaded
<1> HIDE DEF empty
<1> QED
  BY <1>1, MessagingFits, UsersFits, ManagerRequestsFits, PendingVendorsFits, VendorsFits, MessagesFits, AllBookingsFits, CancellationsFits, PaymentsFits, RefundsFits, AllPaymentsFits, ExplorerFits, MyReviewsFits, NotificationsFits, LogsFits, VendorReviewsFits, HeroImagesFits, WeekBookingsFits, ListSettingEditorFits, VendorDetailsFits, ProfileFits, SettingsFits, ContactFits, NewVendorFits, RegisterComplexFits, NewReviewFits DEF Pages, empty
-----------------------------------------------------------------------------
(* The invariant of the pages *)

Queries  == [typed : BOOLEAN, name : BOOLEAN, timer : BOOLEAN, open : BOOLEAN,
             from : 0..(MaxRow - 1)]
Shows    == [list : List, loading : BOOLEAN]
Dialogs(p) == [op : p.ops \cup {NoOp}, row : 0..MaxRow, val : Content, edited : BOOLEAN]
Moment   == {"timer", "sent", "read", "answered"}
ListRow  == [at : Moment, kind : {"list"}, key : Key, list : List, late : BOOLEAN,
             holds : Flag \cup {"none"}]
WriteRow(p) == [at : {"sent", "dropped", "committed", "done", "refused"}, kind : {"write"},
                op : p.ops, row : Row, val : Content, late : BOOLEAN, key : Key,
                place : 0..MaxRow]
Entry    == [key : Key, list : List, late : BOOLEAN]
Calls(p) == [Call -> {NoCall} \cup ListRow \cup WriteRow(p)]

(* A dialog that is not there is closed, one that is has an operation of   *)
(* the page and a row, and a form is always there.                         *)
DialogOf(p, d) ==
    /\ d.op = NoOp => d = Closed
    /\ d # Closed => d.row \in Row
    /\ d.op.via \notin {"button", "top"}
    /\ (\E o \in p.ops : o.via = "form") => d.op \in p.ops /\ d.op.via = "form" /\ d.row = 1

(* A flag is held for a request in flight; where it disables its button,   *)
(* for one, and as long as that request is in flight.                      *)
Holder(cs, c, flag) == cs[c] # NoCall /\ Holds(cs[c]) = flag

FlagsOf(p, cs, b) ==
    /\ \A f \in Flag : b[f] # {} => \E c \in Call : Holder(cs, c, f)
    /\ \A o \in p.ops : Sole(o) =>
          /\ \A c \in Call : Holder(cs, c, o.flag) => b[o.flag] # {}
          /\ \A c, d \in Call : Holder(cs, c, o.flag) /\ Holder(cs, d, o.flag) => c = d
          /\ o.via = "top" => b[o.flag] \subseteq {1}

Unopened == page = NoPage => calls = [c \in Call |-> NoCall] /\ busy = [f \in Flag |-> {}]

PanelInv ==
    /\ TypeOK
    /\ DialogOf(This, dialog)
    /\ FlagsOf(This, calls, busy)
    /\ Unopened

-----------------------------------------------------------------------------
(* Flags *)

LEMMA FlagKept ==
    ASSUME NEW p, NEW cs, NEW b, FlagsOf(p, cs, b), NEW c \in Call, NEW row, NEW S,
           cs \in [Call -> S],
           cs[c] # NoCall, row # NoCall, Holds(row) = Holds(cs[c])
    PROVE  FlagsOf(p, [cs EXCEPT ![c] = row], b)
<1> DEFINE new == [cs EXCEPT ![c] = row]
<1>1. \A d \in Call : (new[d] # NoCall <=> cs[d] # NoCall) /\ Holds(new[d]) = Holds(cs[d])
  OBVIOUS
<1> HIDE DEF new
<1> QED
  BY <1>1 DEF FlagsOf, Holder, new

LEMMA FlagStart ==
    ASSUME NEW p, NEW cs, NEW b, FlagsOf(p, cs, b), NEW c \in Call, NEW row, NEW S,
           cs \in [Call -> S],
           \A o \in p.ops : o.flag \in Flag \cup {"none"},
           cs[c] = NoCall, row # NoCall, Holds(row) = "none"
    PROVE  FlagsOf(p, [cs EXCEPT ![c] = row], b)
<1> DEFINE new == [cs EXCEPT ![c] = row]
<1>1. \A d \in Call \ {c} : new[d] = cs[d]
  OBVIOUS
<1>2. new[c] = row
  OBVIOUS
<1> HIDE DEF new
<1>3. \A f \in Flag : b[f] # {} => \E d \in Call : Holder(new, d, f)
  BY <1>1 DEF FlagsOf, Holder
<1>4. \A d \in Call, o \in p.ops : Sole(o) /\ Holder(new, d, o.flag) => d # c
  BY <1>2 DEF Sole, Holder
<1>5. FlagsOf(p, new, b)
  BY <1>1, <1>3, <1>4 DEF FlagsOf, Holder
<1> QED
  BY <1>5 DEF new

(* A request that takes a flag: if the flag disables its button, nothing   *)
(* holds it yet.                                                           *)
LEMMA FlagTaken ==
    ASSUME NEW p, Fits(p), NEW cs, NEW b, FlagsOf(p, cs, b), NEW c \in Call, NEW row, NEW S,
           cs \in [Call -> S], b \in [Flag -> SUBSET Row],
           cs[c] = NoCall, row # NoCall, NEW o \in p.ops, Holds(row) = o.flag,
           o.flag # "none", Sole(o) => b[o.flag] = {},
           NEW r \in Row, o.via = "top" => r = 1
    PROVE  FlagsOf(p, [cs EXCEPT ![c] = row], [b EXCEPT ![o.flag] = {r}])
<1> DEFINE new == [cs EXCEPT ![c] = row]
           set == [b EXCEPT ![o.flag] = {r}]
<1>1. \A d \in Call \ {c} : new[d] = cs[d]
  OBVIOUS
<1>2. new[c] = row
  OBVIOUS
<1>3. o.flag \in Flag
  BY DEF Fits
<1>4. set[o.flag] = {r} /\ \A f \in Flag \ {o.flag} : set[f] = b[f]
  BY <1>3
<1> HIDE DEF new, set
<1>5. \A f \in Flag : set[f] # {} => \E d \in Call : Holder(new, d, f)
  BY <1>1, <1>2, <1>4 DEF FlagsOf, Holder
<1>6. ASSUME NEW q \in p.ops, Sole(q)
      PROVE  /\ \A d \in Call : Holder(new, d, q.flag) => set[q.flag] # {}
             /\ \A d, e \in Call : Holder(new, d, q.flag) /\ Holder(new, e, q.flag) => d = e
             /\ q.via = "top" => set[q.flag] \subseteq {1}
  <2>1. CASE q.flag = o.flag
    <3>1. q = o
      BY <2>1, <1>6 DEF Fits
    <3>2. \A d \in Call \ {c} : cs[d] # NoCall => Holds(cs[d]) # o.flag
      BY <3>1, <1>6 DEF FlagsOf, Holder
    <3>3. \A d \in Call : Holder(new, d, q.flag) => d = c
      BY <3>1, <3>2, <1>1 DEF Holder
    <3>4. set[q.flag] = {r} /\ (q.via = "top" => r = 1)
      BY <3>1, <1>4
    <3>5. set[q.flag] # {} /\ (q.via = "top" => set[q.flag] \subseteq {1})
      BY <3>4
    <3> QED
      BY <3>3, <3>5
  <2>2. CASE q.flag # o.flag
    <3>1. q.flag \in Flag
      BY <1>6 DEF Fits, Sole
    <3>2. set[q.flag] = b[q.flag]
      BY <1>4, <2>2, <3>1
    <3>3. Holds(new[c]) # q.flag
      BY <1>2, <2>2
    <3> QED
      BY <1>1, <1>6, <3>2, <3>3 DEF FlagsOf, Holder
  <2> QED
    BY <2>1, <2>2
<1>7. FlagsOf(p, new, set)
  BY <1>5, <1>6 DEF FlagsOf, Holder
<1> QED
  BY <1>7 DEF new, set

(* A request that is over, or goes on without its flag, releases it.       *)
LEMMA FlagReleased ==
    ASSUME NEW p, NEW cs, NEW b, FlagsOf(p, cs, b), NEW c \in Call, NEW row, NEW S,
           cs \in [Call -> S], b \in [Flag -> SUBSET Row],
           \A o \in p.ops : o.flag \in Flag \cup {"none"},
           cs[c] # NoCall, row = NoCall \/ Holds(row) = "none",
           Holds(cs[c]) \in Flag \cup {"none"}
    PROVE  FlagsOf(p, [cs EXCEPT ![c] = row], Release(b, Holds(cs[c])))
<1> DEFINE new == [cs EXCEPT ![c] = row]
           set == Release(b, Holds(cs[c]))
<1>1. \A d \in Call \ {c} : new[d] = cs[d]
  OBVIOUS
<1>2. new[c] = row
  OBVIOUS
<1>3. \A f \in Flag : set[f] = IF f = Holds(cs[c]) THEN {} ELSE b[f]
  BY DEF Release, Flag
<1> HIDE DEF new, set
<1>4. \A f \in Flag : set[f] # {} => \E d \in Call : Holder(new, d, f)
  <2> SUFFICES ASSUME NEW f \in Flag, set[f] # {}
               PROVE  \E d \in Call : Holder(new, d, f)
    OBVIOUS
  <2>1. f # Holds(cs[c]) /\ b[f] # {}
    BY <1>3
  <2>2. PICK d \in Call : Holder(cs, d, f)
    BY <2>1 DEF FlagsOf, Holder
  <2> QED
    BY <2>1, <2>2, <1>1 DEF Holder
<1>5. ASSUME NEW q \in p.ops, Sole(q)
      PROVE  /\ \A d \in Call : Holder(new, d, q.flag) => set[q.flag] # {}
             /\ \A d, e \in Call : Holder(new, d, q.flag) /\ Holder(new, e, q.flag) => d = e
             /\ q.via = "top" => set[q.flag] \subseteq {1}
  <2>1. q.flag \in Flag
    BY <1>5 DEF Sole
  <2>2. ~(Holder(new, c, q.flag))
    BY <1>2, <2>1 DEF Flag, Holder
  <2>3. \A d \in Call : Holder(new, d, q.flag)
            => d # c /\ Holder(cs, d, q.flag)
    BY <2>2, <1>1 DEF Holder
  <2>4. \A d \in Call : Holder(new, d, q.flag) => Holds(cs[c]) # q.flag
    BY <2>3, <1>5 DEF FlagsOf, Holder
  <2>5. \A d \in Call : Holder(new, d, q.flag) => set[q.flag] # {}
    BY <1>3, <1>5, <2>1, <2>3, <2>4 DEF FlagsOf, Holder
  <2>6. \A d, e \in Call : Holder(new, d, q.flag) /\ Holder(new, e, q.flag) => d = e
    <3>1. \A d, e \in Call : Holder(cs, d, q.flag) /\ Holder(cs, e, q.flag) => d = e
      BY <1>5 DEF FlagsOf, Holder
    <3> QED
      BY <3>1, <2>3
  <2>7. q.via = "top" => set[q.flag] \subseteq {1}
    BY <1>3, <1>5, <2>1 DEF FlagsOf, Holder
  <2> QED
    BY <2>5, <2>6, <2>7
<1>6. FlagsOf(p, new, set)
  BY <1>4, <1>5 DEF FlagsOf, Holder
<1> QED
  BY <1>6 DEF new, set

-----------------------------------------------------------------------------
(* Types *)

USE PanelsAssumption

LEMMA StateOf ==
    ASSUME PanelInv
    PROVE  /\ page \in DOMAIN Pages /\ Fits(This)
           /\ rows \in [Row -> RowRec]
           /\ cache \subseteq Entry
           /\ query \in Queries /\ shown \in Shows
           /\ dialog \in Dialogs(This) /\ DialogOf(This, dialog)
           /\ busy \in [Flag -> SUBSET Row]
           /\ calls \in Calls(This) /\ FlagsOf(This, calls, busy)
           /\ used \in [click : 0..MaxClicks, other : 0..MaxOther]
           /\ newest \in Call \cup {0} /\ crossed \in BOOLEAN
BY PagesFit
DEF PanelInv, TypeOK, This, Queries, Shows, Dialogs, Calls, ListRow, WriteRow, Moment, Entry, Ops

LEMMA StateAfter ==
    ASSUME page # NoPage, page \in DOMAIN Pages, page' = page,
           rows' \in [Row -> RowRec],
           cache' \subseteq Entry,
           query' \in Queries, shown' \in Shows,
           dialog' \in Dialogs(This), DialogOf(This, dialog'),
           busy' \in [Flag -> SUBSET Row],
           calls' \in Calls(This), FlagsOf(This, calls', busy'),
           used' \in [click : 0..MaxClicks, other : 0..MaxOther],
           newest' \in Call \cup {0}, crossed' \in BOOLEAN
    PROVE  PanelInv'
<1>1. This' = This
  BY DEF This
<1>2. TypeOK'
  BY <1>1 DEF TypeOK, Queries, Shows, Dialogs, Calls, ListRow, WriteRow, Moment, Entry, Ops
<1>3. Unopened'
  BY DEF Unopened
<1> QED
  BY <1>1, <1>2, <1>3 DEF PanelInv

LEMMA Keys ==
    ASSUME NEW q \in Queries
    PROVE  Asked(q) \in Key
<1>1. q.name \in BOOLEAN /\ q.open \in BOOLEAN /\ q.from \in 0..(MaxRow - 1)
  BY DEF Queries
<1>2. 0 \in 0..(MaxRow - 1)
  OBVIOUS
<1> QED
  BY <1>1, <1>2 DEF Asked, Key

LEMMA RowCounts ==
    \A S \in SUBSET Row : IsFiniteSet(S) /\ Cardinality(S) \in 0..MaxRow
<1> SUFFICES ASSUME NEW S \in SUBSET Row
             PROVE  IsFiniteSet(S) /\ Cardinality(S) \in 0..MaxRow
  OBVIOUS
<1>1. IsFiniteSet(Row) /\ Cardinality(Row) = MaxRow
  BY FS_Interval DEF Row
<1>2. IsFiniteSet(S) /\ Cardinality(S) <= MaxRow
  BY <1>1, FS_Subset
<1>3. Cardinality(S) \in Nat
  BY <1>2, FS_CardinalityType
<1> QED
  BY <1>2, <1>3

LEMMA EmptyRows ==
    /\ Nothing \in RowRec
    /\ Empty.rows \in [Row -> RowRec]
    /\ Empty \in List
BY DEF Empty, List, RowRec, Nothing, Content

LEMMA Answers ==
    ASSUME rows \in [Row -> RowRec], NEW key \in Key
    PROVE  Answer(key) \in List
<1> DEFINE found == {r \in Row : /\ rows[r].there
                                 /\ key.name => r = 1
                                 /\ key.open => rows[r].val = {}}
<1>1. \A S \in SUBSET Row : Listed(rows, S, Cardinality(found)) \in List
  <2>1. Cardinality(found) \in 0..MaxRow
    BY RowCounts
  <2> HIDE DEF found
  <2> QED
    BY <2>1, EmptyRows DEF Listed, List
<1>2. found \subseteq Row /\ Cut(found, key.from) \subseteq Row
  BY DEF Cut
<1>3. Answer(key) \in {Listed(rows, found, Cardinality(found)),
                       Listed(rows, Cut(found, key.from), Cardinality(found))}
  BY DEF Answer
<1> QED
  BY <1>1, <1>2, <1>3

(* What is sent in place of what was there. *)
LEMMA CallsAfter ==
    ASSUME NEW p, NEW cs \in Calls(p), NEW c \in Call,
           NEW row \in {NoCall} \cup ListRow \cup WriteRow(p)
    PROVE  [cs EXCEPT ![c] = row] \in Calls(p)
BY DEF Calls

LEMMA CallKinds ==
    ASSUME NEW p, NEW cs \in Calls(p), NEW c \in Call
    PROVE  /\ cs[c] # NoCall /\ cs[c].kind = "list" => cs[c] \in ListRow
           /\ cs[c] # NoCall /\ cs[c].kind = "write" => cs[c] \in WriteRow(p)
           /\ cs[c] # NoCall => cs[c] \in ListRow \/ cs[c] \in WriteRow(p)
BY DEF Calls, ListRow, WriteRow

LEMMA ListCalls ==
    ASSUME NEW key \in Key, NEW holds \in Flag \cup {"none"}
    PROVE  /\ ListCall(key, holds) \in ListRow
           /\ ListCall(key, holds) # NoCall
           /\ Holds(ListCall(key, holds)) = holds
BY EmptyRows DEF ListCall, ListRow, Moment, NoCall, Holds

LEMMA ListMoves ==
    ASSUME NEW call \in ListRow, NEW at \in Moment, NEW list \in List
    PROVE  /\ [call EXCEPT !.at = at, !.list = list] \in ListRow
           /\ Holds([call EXCEPT !.at = at, !.list = list]) = Holds(call)
BY DEF ListRow, Holds

(* A request goes on. *)
LEMMA CallMoves ==
    ASSUME NEW p, NEW call,
           call \in ListRow \/ call \in WriteRow(p)
    PROVE  /\ call # NoCall
           /\ call \in ListRow =>
                \A at \in Moment, list \in List :
                  /\ [call EXCEPT !.at = at] \in ListRow
                  /\ [call EXCEPT !.at = at, !.list = list] \in ListRow
                  /\ Holds([call EXCEPT !.at = at]) = Holds(call)
                  /\ Holds([call EXCEPT !.at = at, !.list = list]) = Holds(call)
           /\ call \in WriteRow(p) =>
                \A at \in {"sent", "dropped", "committed", "done", "refused"} :
                  /\ [call EXCEPT !.at = at] \in WriteRow(p)
                  /\ Holds([call EXCEPT !.at = at]) = Holds(call)
<1>1. call # NoCall
  BY DEF ListRow, WriteRow, NoCall
<1>2. CASE call \in ListRow
  <2>1. ASSUME NEW at \in Moment, NEW list \in List
        PROVE  /\ [call EXCEPT !.at = at] \in ListRow
               /\ [call EXCEPT !.at = at, !.list = list] \in ListRow
               /\ Holds([call EXCEPT !.at = at]) = Holds(call)
               /\ Holds([call EXCEPT !.at = at, !.list = list]) = Holds(call)
    BY <1>2, <2>1 DEF ListRow, Holds
  <2>2. call \notin WriteRow(p)
    BY <1>2 DEF ListRow, WriteRow
  <2> QED
    BY <1>1, <2>1, <2>2
<1>3. CASE call \in WriteRow(p)
  <2>1. ASSUME NEW at \in {"sent", "dropped", "committed", "done", "refused"}
        PROVE  /\ [call EXCEPT !.at = at] \in WriteRow(p)
               /\ Holds([call EXCEPT !.at = at]) = Holds(call)
    BY <1>3, <2>1 DEF WriteRow, Holds
  <2>2. call \notin ListRow
    BY <1>3 DEF ListRow, WriteRow
  <2> QED
    BY <1>1, <2>1, <2>2
<1> QED
  BY <1>2, <1>3

LEMMA CallHolds ==
    ASSUME NEW p, Fits(p), NEW call, call \in ListRow \/ call \in WriteRow(p)
    PROVE  Holds(call) \in Flag \cup {"none"}
BY DEF ListRow, WriteRow, Holds, Fits

LEMMA Released ==
    ASSUME NEW b \in [Flag -> SUBSET Row], NEW flag \in Flag \cup {"none"}
    PROVE  Release(b, flag) \in [Flag -> SUBSET Row]
BY DEF Release

-----------------------------------------------------------------------------
(* The user *)

LEMMA StartTypes ==
    ASSUME PanelInv, NEW c \in Free, NEW row \in ListRow \cup WriteRow(This), Start(c, row)
    PROVE  /\ calls' = [calls EXCEPT ![c] = row] /\ calls' \in Calls(This)
           /\ calls[c] = NoCall /\ c \in Call
BY StateOf, CallsAfter DEF Start, Free

(* The fetch runs again: its request holds no flag. *)
LEMMA RequeryTypes ==
    ASSUME PanelInv, NEW q \in Queries, Requery(q)
    PROVE  /\ query' \in Queries /\ shown' \in Shows
           /\ newest' \in Call \cup {0} /\ crossed' = crossed
           /\ calls' \in Calls(This) /\ FlagsOf(This, calls', busy)
<1>1. query' \in Queries /\ crossed' = crossed
  BY DEF Requery
<1>2. CASE UNCHANGED <<calls, shown, newest>>
  BY <1>1, <1>2, StateOf
<1>3. ASSUME NEW c \in Free, Start(c, ListCall(Asked(q), "none")),
             shown' = [shown EXCEPT !.loading = TRUE], newest' = c
      PROVE  /\ shown' \in Shows /\ newest' \in Call \cup {0}
             /\ calls' \in Calls(This) /\ FlagsOf(This, calls', busy)
  <2> DEFINE row == ListCall(Asked(q), "none")
  <2>1. row \in ListRow /\ row # NoCall /\ Holds(row) = "none"
    BY Keys, ListCalls
  <2> HIDE DEF row
  <2>2. Start(c, row)
    BY <1>3 DEF row
  <2>3. /\ calls' = [calls EXCEPT ![c] = row] /\ calls' \in Calls(This)
        /\ calls[c] = NoCall /\ c \in Call
    BY <2>1, <2>2, StartTypes
  <2>4. FlagsOf(This, calls', busy)
    BY <2>1, <2>3, StateOf, FlagStart DEF Calls, Fits
  <2>5. shown' \in Shows
    BY <1>3, StateOf DEF Shows
  <2> QED
    BY <1>3, <2>3, <2>4, <2>5
<1> QED
  BY <1>1, <1>2, <1>3 DEF Requery

LEMMA RequeryStep ==
    ASSUME PanelInv, page # NoPage, NEW q \in Queries, Requery(q),
           used' \in [click : 0..MaxClicks, other : 0..MaxOther],
           UNCHANGED <<page, rows, cache, dialog, busy>>
    PROVE  PanelInv'
BY RequeryTypes, StateOf, StateAfter

LEMMA Clicks ==
    ASSUME PanelInv, Click
    PROVE  used' \in [click : 0..MaxClicks, other : 0..MaxOther]
BY StateOf DEF Click

LEMMA QueryChanges ==
    ASSUME NEW q \in Queries, NEW b \in BOOLEAN, NEW from \in 0..(MaxRow - 1)
    PROVE  /\ [q EXCEPT !.typed = b] \in Queries
           /\ [q EXCEPT !.timer = b] \in Queries
           /\ [q EXCEPT !.name = b] \in Queries
           /\ [q EXCEPT !.open = b] \in Queries
           /\ [q EXCEPT !.from = from] \in Queries
BY DEF Queries

LEMMA QueryParts ==
    ASSUME PanelInv
    PROVE  /\ query \in Queries
           /\ query.typed \in BOOLEAN /\ query.name \in BOOLEAN /\ query.open \in BOOLEAN
           /\ query.from \in 0..(MaxRow - 1) /\ 0 \in 0..(MaxRow - 1)
BY StateOf DEF Queries

(* What is asked for by typing, after the delay, by a filter and by the    *)
(* pager is a query.                                                       *)
LEMMA NewQueries ==
    ASSUME PanelInv
    PROVE  /\ [query EXCEPT !.typed = ~@,
                            !.timer = This.asks.search # "direct",
                            !.name  = IF This.asks.search = "direct" THEN ~query.typed ELSE @,
                            !.from  = IF This.asks.resets = "typing" THEN 0 ELSE @] \in Queries
           /\ [query EXCEPT !.timer = FALSE, !.name = query.typed,
                            !.from  = IF This.asks.resets = "debounce" THEN 0 ELSE @] \in Queries
           /\ [query EXCEPT !.open = ~@, !.from = IF This.filter.resets THEN 0 ELSE @] \in Queries
           /\ \A to \in 0..(MaxRow - 1) : [query EXCEPT !.from = to] \in Queries
<1> DEFINE typed == ~query.typed
           timer == This.asks.search # "direct"
           name  == IF This.asks.search = "direct" THEN ~query.typed ELSE query.name
           one   == IF This.asks.resets = "typing" THEN 0 ELSE query.from
           two   == IF This.asks.resets = "debounce" THEN 0 ELSE query.from
           open  == ~query.open
           three == IF This.filter.resets THEN 0 ELSE query.from
<1>1. /\ typed \in BOOLEAN /\ timer \in BOOLEAN /\ name \in BOOLEAN /\ open \in BOOLEAN
      /\ one \in 0..(MaxRow - 1) /\ two \in 0..(MaxRow - 1) /\ three \in 0..(MaxRow - 1)
  BY QueryParts
<1> DEFINE t1 == [query EXCEPT !.typed = typed]
           t2 == [t1 EXCEPT !.timer = timer]
           t3 == [t2 EXCEPT !.name = name]
           t4 == [t3 EXCEPT !.from = one]
           d1 == [query EXCEPT !.timer = FALSE]
           d2 == [d1 EXCEPT !.name = query.typed]
           d3 == [d2 EXCEPT !.from = two]
           f1 == [query EXCEPT !.open = open]
           f2 == [f1 EXCEPT !.from = three]
<1>2. query \in Queries /\ query.typed \in BOOLEAN /\ FALSE \in BOOLEAN /\ 0 \in 0..(MaxRow - 1)
  BY QueryParts
<1> HIDE DEF typed, timer, name, one, two, open, three
<1>3. t1 \in Queries /\ d1 \in Queries /\ f1 \in Queries
  BY <1>1, <1>2, QueryChanges
<1> HIDE DEF t1, d1, f1
<1>4. t2 \in Queries /\ d2 \in Queries /\ f2 \in Queries
  BY <1>1, <1>2, <1>3, QueryChanges
<1> HIDE DEF t2, d2, f2
<1>5. t3 \in Queries /\ d3 \in Queries
  BY <1>1, <1>2, <1>4, QueryChanges
<1> HIDE DEF t3, d3
<1>6. t4 \in Queries
  BY <1>1, <1>2, <1>5, QueryChanges
<1> HIDE DEF t4
<1>7. \A to \in 0..(MaxRow - 1) : [query EXCEPT !.from = to] \in Queries
  BY <1>2, QueryChanges
<1> QED
  BY <1>4, <1>5, <1>6, <1>7
  DEF typed, timer, name, one, two, open, three, t1, t2, t3, t4, d1, d2, d3, f1, f2

LEMMA TypeStep ==
    ASSUME PanelInv, page # NoPage, Type
    PROVE  PanelInv'
<1> DEFINE q == [query EXCEPT !.typed = ~@,
                              !.timer = This.asks.search # "direct",
                              !.name  = IF This.asks.search = "direct" THEN ~query.typed ELSE @,
                              !.from  = IF This.asks.resets = "typing" THEN 0 ELSE @]
<1>1. q \in Queries
  BY NewQueries
<1>2. Requery(q) /\ UNCHANGED <<page, rows, cache, dialog, busy>> /\ Click
  BY DEF Type
<1> HIDE DEF q
<1> QED
  BY <1>1, <1>2, Clicks, RequeryStep

LEMMA DebounceStep ==
    ASSUME PanelInv, page # NoPage, Debounce
    PROVE  PanelInv'
<1> DEFINE q == [query EXCEPT !.timer = FALSE, !.name = query.typed,
                              !.from  = IF This.asks.resets = "debounce" THEN 0 ELSE @]
<1>1. q \in Queries
  BY NewQueries
<1>2. Requery(q) /\ UNCHANGED <<page, rows, cache, dialog, busy>> /\ used' = used
  BY DEF Debounce
<1> HIDE DEF q
<1> QED
  BY <1>1, <1>2, StateOf, RequeryStep

LEMMA SelectFilterStep ==
    ASSUME PanelInv, page # NoPage, SelectFilter
    PROVE  PanelInv'
<1> DEFINE q == [query EXCEPT !.open = ~@, !.from = IF This.filter.resets THEN 0 ELSE @]
<1>1. q \in Queries
  BY NewQueries
<1>2. Requery(q) /\ UNCHANGED <<page, rows, cache, dialog, busy>> /\ Click
  BY DEF SelectFilter
<1> HIDE DEF q
<1> QED
  BY <1>1, <1>2, Clicks, RequeryStep

LEMMA TurnPageStep ==
    ASSUME PanelInv, page # NoPage, NEW to \in 0..(MaxRow - 1), TurnPage(to)
    PROVE  PanelInv'
<1> DEFINE q == [query EXCEPT !.from = to]
<1>1. q \in Queries
  BY NewQueries
<1>2. Requery(q) /\ UNCHANGED <<page, rows, cache, dialog, busy>> /\ Click
  BY DEF TurnPage
<1> HIDE DEF q
<1> QED
  BY <1>1, <1>2, Clicks, RequeryStep

(* What a control sends is the content of a row. *)
LEMMA SendsContent ==
    ASSUME PanelInv, NEW o \in Ops, NEW r \in Row
    PROVE  Sends(o, r) \subseteq Content
BY StateOf DEF Sends, Dialogs, Content, Item

LEMMA WriteCalls ==
    ASSUME PanelInv, NEW o \in Ops, NEW r \in Row, NEW val \in Content
    PROVE  /\ WriteCall(o, r, val) \in WriteRow(This)
           /\ WriteCall(o, r, val) # NoCall
           /\ Holds(WriteCall(o, r, val)) = o.flag
<1> DEFINE key == IF Reloads(o) THEN Asked(query) ELSE NoKey
           place == IF o.does = "place"
                    THEN Cardinality({s \in Row : s < r /\ shown.list.rows[s].there}) ELSE 0
<1>1. key \in Key
  BY Keys, StateOf DEF Key, NoKey
<1>2. place \in 0..MaxRow
  BY RowCounts
<1> DEFINE row == [at |-> "sent", kind |-> "write", op |-> o, row |-> r, val |-> val,
                   late |-> FALSE, key |-> key, place |-> place]
<1>3. WriteCall(o, r, val) = row
  BY DEF WriteCall
<1> HIDE DEF key, place
<1>4. row \in WriteRow(This)
  BY <1>1, <1>2 DEF WriteRow, Ops
<1>5. row # NoCall /\ Holds(row) = o.flag
  BY DEF NoCall, Holds
<1> HIDE DEF row
<1> QED
  BY <1>3, <1>4, <1>5

(* A handler starts where its flag does not forbid it. *)
LEMMA SendTypes ==
    ASSUME PanelInv, NEW o \in Ops, NEW r \in Row, Send(o, r),
           Sole(o) => busy[o.flag] = {},
           o.via = "top" => r = 1
    PROVE  /\ calls' \in Calls(This) /\ busy' \in [Flag -> SUBSET Row] /\ crossed' \in BOOLEAN
           /\ FlagsOf(This, calls', busy')
<1>1. PICK c \in Free, val \in Sends(o, r) : Start(c, WriteCall(o, r, val))
  BY DEF Send
<1>2. val \in Content
  BY SendsContent
<1> DEFINE row == WriteCall(o, r, val)
<1>3. row \in WriteRow(This) /\ row # NoCall /\ Holds(row) = o.flag
  BY <1>2, WriteCalls
<1> HIDE DEF row
<1>4. Start(c, row)
  BY <1>1 DEF row
<1>5. /\ calls' = [calls EXCEPT ![c] = row] /\ calls' \in Calls(This)
      /\ calls[c] = NoCall /\ c \in Call
  BY <1>3, <1>4, StartTypes
<1>6. /\ Fits(This) /\ o \in This.ops /\ o.flag \in Flag \cup {"none"}
      /\ crossed' \in BOOLEAN
  BY StateOf DEF Ops, Fits, Send
<1>7. CASE o.flag = "none"
  <2>1. busy' = busy
    BY <1>7 DEF Send
  <2>2. FlagsOf(This, calls', busy)
    BY <1>3, <1>5, <1>6, <1>7, StateOf, FlagStart DEF Calls, Fits
  <2> QED
    BY <2>1, <2>2, <1>5, <1>6, StateOf
<1>8. CASE o.flag # "none"
  <2>1. busy' = [busy EXCEPT ![o.flag] = {r}]
    BY <1>8 DEF Send
  <2>2. FlagsOf(This, [calls EXCEPT ![c] = row], [busy EXCEPT ![o.flag] = {r}])
    BY <1>3, <1>5, <1>6, <1>8, StateOf, FlagTaken DEF Calls
  <2>3. busy' \in [Flag -> SUBSET Row]
    BY <2>1, <1>6, <1>8, StateOf
  <2> QED
    BY <2>1, <2>2, <2>3, <1>5, <1>6
<1> QED
  BY <1>7, <1>8

LEMMA PressStep ==
    ASSUME PanelInv, page # NoPage, NEW o \in Ops, NEW r \in Row, Press(o, r)
    PROVE  PanelInv'
<1>1. Sole(o) => busy[o.flag] = {}
  <2> SUFFICES ASSUME Sole(o)
               PROVE  busy[o.flag] = {}
    OBVIOUS
  <2>1. o.via = "top" /\ r = 1 /\ r \notin busy[o.flag]
    BY DEF Press, Enabled, Sole
  <2>2. busy[o.flag] \subseteq {1}
    BY <2>1, StateOf DEF FlagsOf, Ops
  <2> QED
    BY <2>1, <2>2
<1>2. o.via = "top" => r = 1
  BY DEF Press
<1>3. Send(o, r) /\ Click /\ UNCHANGED <<page, rows, cache, query, shown, dialog, newest>>
  BY DEF Press
<1>4. /\ calls' \in Calls(This) /\ busy' \in [Flag -> SUBSET Row] /\ crossed' \in BOOLEAN
      /\ FlagsOf(This, calls', busy')
  BY <1>1, <1>2, <1>3, SendTypes
<1> QED
  BY <1>3, <1>4, Clicks, StateOf, StateAfter

-----------------------------------------------------------------------------
(* The dialog *)

LEMMA ClosedDialog ==
    ASSUME NEW p, ~HasForm(p)
    PROVE  Closed \in Dialogs(p) /\ DialogOf(p, Closed)
BY DEF Closed, Dialogs, DialogOf, Content, NoOp, HasForm

(* A dialog that is there keeps its operation and its row. *)
LEMMA DialogParts ==
    ASSUME PanelInv
    PROVE  /\ \A o \in Ops : o # NoOp
           /\ dialog.val \in Content
           /\ dialog # Closed => dialog.op \in Ops /\ dialog.row \in Row
           /\ HasForm(This) => dialog # Closed /\ dialog.op.via = "form" /\ dialog.row = 1
<1>1. \A o \in Ops : o # NoOp
  BY StateOf DEF Fits, Ops, NoOp
<1>2. HasForm(This) => dialog # Closed
  BY <1>1, StateOf DEF DialogOf, HasForm, Closed, Ops
<1> QED
  BY <1>1, <1>2, StateOf DEF DialogOf, HasForm, Dialogs, Ops

LEMMA DialogChanges ==
    ASSUME PanelInv, dialog # Closed, NEW val \in Content, NEW edited \in BOOLEAN
    PROVE  /\ [dialog EXCEPT !.val = val, !.edited = edited] \in Dialogs(This)
           /\ DialogOf(This, [dialog EXCEPT !.val = val, !.edited = edited])
           /\ [dialog EXCEPT !.edited = edited] \in Dialogs(This)
           /\ DialogOf(This, [dialog EXCEPT !.edited = edited])
<1>1. dialog \in Dialogs(This) /\ DialogOf(This, dialog)
  BY StateOf
<1>2. dialog.op # NoOp /\ dialog.row \in Row
  BY <1>1 DEF DialogOf
<1>3. \A d \in Dialogs(This) : d.op = dialog.op /\ d.row = dialog.row => DialogOf(This, d)
  BY <1>1, <1>2 DEF DialogOf
<1> DEFINE one == [dialog EXCEPT !.val = val, !.edited = edited]
           two == [dialog EXCEPT !.edited = edited]
<1>4. one \in Dialogs(This) /\ one.op = dialog.op /\ one.row = dialog.row
  BY <1>1 DEF Dialogs
<1>5. two \in Dialogs(This) /\ two.op = dialog.op /\ two.row = dialog.row
  BY <1>1 DEF Dialogs
<1> HIDE DEF one, two
<1>6. one \in Dialogs(This) /\ DialogOf(This, one) /\ two \in Dialogs(This) /\ DialogOf(This, two)
  BY <1>3, <1>4, <1>5
<1> QED
  BY <1>6 DEF one, two

(* Nothing but the dialog changes. *)
LEMMA DialogAlone ==
    ASSUME PanelInv, page # NoPage, dialog' \in Dialogs(This), DialogOf(This, dialog'),
           UNCHANGED <<page, rows, cache, query, shown, busy, calls, newest, crossed, used>>
    PROVE  PanelInv'
BY StateOf, StateAfter

LEMMA OpenDialogStep ==
    ASSUME PanelInv, page # NoPage, NEW o \in Ops, NEW r \in Row, OpenDialog(o, r)
    PROVE  PanelInv'
<1> DEFINE d == [op |-> o, row |-> r, val |-> shown.list.rows[r].val, edited |-> FALSE]
<1>1. dialog' = d /\ UNCHANGED <<page, rows, cache, query, shown, busy, calls, newest, crossed, used>>
  BY DEF OpenDialog
<1>2. shown.list.rows[r].val \in Content
  BY StateOf DEF Shows, List, RowRec
<1>3. d \in Dialogs(This)
  BY <1>2 DEF Dialogs, Ops, Row
<1>4. o.via \in {"dialog", "alert", "inline"}
  BY DEF OpenDialog
<1>5. ~HasForm(This)
  BY <1>4, StateOf DEF HasForm, Fits, Ops
<1>6. DialogOf(This, d)
  BY <1>4, <1>5, DialogParts DEF DialogOf, HasForm
<1> QED
  BY <1>1, <1>3, <1>6, DialogAlone

LEMMA EditStep ==
    ASSUME PanelInv, page # NoPage, NEW i \in Item, Edit(i)
    PROVE  PanelInv'
<1> DEFINE val == IF i \in dialog.val THEN dialog.val \ {i} ELSE dialog.val \cup {i}
<1>1. dialog # Closed
  BY DEF Edit, Closed, NoOp
<1>2. val \in Content
  BY DialogParts DEF Content
<1>3. dialog' = [dialog EXCEPT !.val = val, !.edited = TRUE]
  BY DEF Edit
<1> HIDE DEF val
<1>4. dialog' \in Dialogs(This) /\ DialogOf(This, dialog')
  BY <1>1, <1>2, <1>3, DialogChanges
<1>5. UNCHANGED <<page, rows, cache, query, shown, busy, calls, newest, crossed, used>>
  BY DEF Edit
<1> QED
  BY <1>4, <1>5, DialogAlone

LEMMA ConfirmStep ==
    ASSUME PanelInv, page # NoPage, Confirm
    PROVE  PanelInv'
<1> DEFINE o == dialog.op
<1>1. /\ dialog # Closed /\ Send(o, dialog.row) /\ Click
      /\ o.guarded /\ o.flag # "none" => busy[o.flag] = {}
      /\ UNCHANGED <<page, rows, cache, query, shown, newest>>
  BY DEF Confirm
<1>2. o \in Ops /\ dialog.row \in Row /\ o.via \notin {"button", "top"}
  BY <1>1, DialogParts, StateOf DEF DialogOf
<1>3. dialog' \in Dialogs(This) /\ DialogOf(This, dialog')
  <2>1. \/ dialog' = Closed /\ (o.via = "alert" \/ o.shuts = "click")
        \/ dialog' = [dialog EXCEPT !.edited = FALSE]
    BY DEF Confirm
  <2>2. CASE dialog' = Closed /\ (o.via = "alert" \/ o.shuts = "click")
    <3>1. ~HasForm(This)
      BY <2>2, <1>2, StateOf, DialogParts DEF Fits, Ops
    <3> QED
      BY <3>1, <2>2, ClosedDialog
  <2>3. CASE dialog' = [dialog EXCEPT !.edited = FALSE]
    BY <2>3, <1>1, DialogChanges, DialogParts
  <2> QED
    BY <2>1, <2>2, <2>3
<1>4. Sole(o) => busy[o.flag] = {}
  BY <1>1 DEF Sole
<1> HIDE DEF o
<1>5. /\ calls' \in Calls(This) /\ busy' \in [Flag -> SUBSET Row] /\ crossed' \in BOOLEAN
      /\ FlagsOf(This, calls', busy')
  BY <1>1, <1>2, <1>4, SendTypes
<1> QED
  BY <1>1, <1>3, <1>5, Clicks, StateOf, StateAfter

LEMMA CloseDialogStep ==
    ASSUME PanelInv, page # NoPage, CloseDialog
    PROVE  PanelInv'
<1>1. ~HasForm(This)
  BY DialogParts DEF CloseDialog
<1>2. dialog' \in Dialogs(This) /\ DialogOf(This, dialog')
  BY <1>1, ClosedDialog DEF CloseDialog
<1> QED
  BY <1>2, DialogAlone DEF CloseDialog

-----------------------------------------------------------------------------
(* Requests for the list *)

LEMMA ListCallAt ==
    ASSUME PanelInv, NEW c \in Call, Listing(c)
    PROVE  /\ calls[c] \in ListRow /\ calls[c] # NoCall
           /\ calls[c].list \in List /\ calls[c].key \in Key /\ calls[c].late \in BOOLEAN
           /\ Holds(calls[c]) = calls[c].holds
           /\ calls[c].holds \in Flag \cup {"none"}
<1>1. calls \in Calls(This)
  BY StateOf
<1>2. calls[c] \in ListRow /\ calls[c] # NoCall
  BY <1>1, CallKinds DEF Listing
<1> QED
  BY <1>2 DEF ListRow, Holds

(* A request goes on and keeps its flag. *)
LEMMA KeptAlone ==
    ASSUME PanelInv, page # NoPage, NEW c \in Call, calls[c] # NoCall,
           NEW row \in ListRow \cup WriteRow(This), Holds(row) = Holds(calls[c]),
           calls' = [calls EXCEPT ![c] = row]
    PROVE  calls' \in Calls(This) /\ FlagsOf(This, calls', busy)
<1>1. row # NoCall
  BY CallMoves
<1>2. calls \in Calls(This) /\ FlagsOf(This, calls, busy)
  BY StateOf
<1> QED
  BY <1>1, <1>2, CallsAfter, FlagKept DEF Calls

(* A request is over, and its flag is released. *)
LEMMA OverAlone ==
    ASSUME PanelInv, page # NoPage, NEW c \in Call, calls[c] # NoCall,
           NEW row \in {NoCall} \cup ListRow, row = NoCall \/ Holds(row) = "none",
           calls' = [calls EXCEPT ![c] = row]
    PROVE  /\ calls' \in Calls(This)
           /\ Release(busy, Holds(calls[c])) \in [Flag -> SUBSET Row]
           /\ FlagsOf(This, calls', Release(busy, Holds(calls[c])))
<1>1. /\ calls \in Calls(This) /\ FlagsOf(This, calls, busy) /\ busy \in [Flag -> SUBSET Row]
      /\ Fits(This)
  BY StateOf
<1>2. Holds(calls[c]) \in Flag \cup {"none"}
  BY <1>1, CallKinds, CallHolds DEF Calls
<1> QED
  BY <1>1, <1>2, CallsAfter, Released, FlagReleased DEF Calls, Fits

LEMMA ServeCachedStep ==
    ASSUME PanelInv, page # NoPage, NEW c \in Call, ServeCached(c)
    PROVE  PanelInv'
<1>1. PICK entry \in cache :
        calls' = [calls EXCEPT ![c].at = "answered", ![c].list = entry.list,
                               ![c].late = entry.late \/ Undropped]
  BY DEF ServeCached
<1> DEFINE late == entry.late \/ Undropped
           list == entry.list
<1>2. list \in List /\ late \in BOOLEAN /\ "answered" \in Moment
  BY StateOf DEF Entry, Moment, Undropped
<1>3. calls[c] \in ListRow /\ calls[c] # NoCall
  BY ListCallAt DEF ServeCached
<1> DEFINE row == [calls[c] EXCEPT !.at = "answered", !.list = list, !.late = late]
<1> HIDE DEF late, list
<1>4. row \in ListRow /\ Holds(row) = Holds(calls[c])
  BY <1>2, <1>3 DEF ListRow, Holds
<1>5. calls' = [calls EXCEPT ![c] = row]
  BY <1>1, StateOf DEF Calls, late, list
<1> HIDE DEF row
<1>6. calls' \in Calls(This) /\ FlagsOf(This, calls', busy)
  BY <1>3, <1>4, <1>5, KeptAlone
<1>7. UNCHANGED <<page, rows, cache, query, shown, dialog, busy, used, newest, crossed>>
  BY DEF ServeCached
<1> QED
  BY <1>6, <1>7, StateOf, StateAfter

LEMMA ReadRowsStep ==
    ASSUME PanelInv, page # NoPage, NEW c \in Call, ReadRows(c)
    PROVE  PanelInv'
<1>1. calls[c] \in ListRow /\ calls[c] # NoCall /\ calls[c].key \in Key
  BY ListCallAt DEF ReadRows
<1> DEFINE at == IF This.asks.cached THEN "read" ELSE "answered"
           list == Answer(calls[c].key)
           row == [calls[c] EXCEPT !.at = at, !.list = list]
<1>2. list \in List
  BY <1>1, Answers, StateOf
<1>3. at \in Moment
  BY DEF Moment
<1>4. calls' = [calls EXCEPT ![c] = row]
  BY StateOf DEF ReadRows, Calls
<1> HIDE DEF at, list
<1>5. row \in ListRow /\ Holds(row) = Holds(calls[c])
  BY <1>1, <1>2, <1>3, ListMoves
<1> HIDE DEF row
<1>6. calls' \in Calls(This) /\ FlagsOf(This, calls', busy)
  BY <1>1, <1>4, <1>5, KeptAlone
<1>7. UNCHANGED <<page, rows, cache, query, shown, dialog, busy, used, newest, crossed>>
  BY DEF ReadRows
<1> QED
  BY <1>6, <1>7, StateOf, StateAfter

LEMMA StoreListStep ==
    ASSUME PanelInv, page # NoPage, NEW c \in Call, StoreList(c)
    PROVE  PanelInv'
<1>1. /\ calls[c] \in ListRow /\ calls[c] # NoCall /\ calls[c].key \in Key
      /\ calls[c].list \in List /\ calls[c].late \in BOOLEAN
  BY ListCallAt DEF StoreList
<1> DEFINE row == [calls[c] EXCEPT !.at = "answered"]
<1>2. row \in ListRow /\ Holds(row) = Holds(calls[c])
  BY <1>1, CallMoves DEF Moment
<1>3. calls' = [calls EXCEPT ![c] = row]
  BY StateOf DEF StoreList, Calls
<1> HIDE DEF row
<1>4. calls' \in Calls(This) /\ FlagsOf(This, calls', busy)
  BY <1>1, <1>2, <1>3, KeptAlone
<1>5. cache' \subseteq Entry
  BY <1>1, StateOf DEF StoreList, Entry
<1>6. UNCHANGED <<page, rows, query, shown, dialog, busy, used, newest, crossed>>
  BY DEF StoreList
<1> QED
  BY <1>4, <1>5, <1>6, StateOf, StateAfter

LEMMA ShowListStep ==
    ASSUME PanelInv, page # NoPage, NEW c \in Call, ShowList(c)
    PROVE  PanelInv'
<1>1. /\ calls[c] \in ListRow /\ calls[c] # NoCall /\ calls[c].list \in List
      /\ Holds(calls[c]) = calls[c].holds
  BY ListCallAt DEF ShowList
<1>2. calls' = [calls EXCEPT ![c] = NoCall] /\ busy' = Release(busy, Holds(calls[c]))
  BY <1>1 DEF ShowList
<1>3. /\ calls' \in Calls(This) /\ busy' \in [Flag -> SUBSET Row]
      /\ FlagsOf(This, calls', busy')
  BY <1>1, <1>2, OverAlone
<1>4. shown' \in Shows
  BY <1>1 DEF ShowList, Shows
<1>5. dialog' \in Dialogs(This) /\ DialogOf(This, dialog')
  <2> DEFINE val == calls[c].list.rows[1].val
  <2>1. val \in Content
    BY <1>1 DEF List, RowRec, Row
  <2>2. CASE \E o \in Forms : dialog.op = o
    <3>1. dialog # Closed
      BY <2>2, DialogParts DEF Closed, Forms
    <3>2. dialog' = [dialog EXCEPT !.val = val, !.edited = FALSE]
      BY <2>2 DEF ShowList
    <3> HIDE DEF val
    <3> QED
      BY <2>1, <3>1, <3>2, DialogChanges
  <2>3. CASE ~ \E o \in Forms : dialog.op = o
    BY <2>3, StateOf DEF ShowList
  <2> QED
    BY <2>2, <2>3
<1>6. /\ UNCHANGED <<page, rows, cache, query, used>>
      /\ newest' \in Call \cup {0} /\ crossed' \in BOOLEAN
  BY StateOf, ListCallAt DEF ShowList, Over
<1> QED
  BY <1>3, <1>4, <1>5, <1>6, StateOf, StateAfter

LEMMA ListFailsStep ==
    ASSUME PanelInv, page # NoPage, NEW c \in Call, ListFails(c)
    PROVE  PanelInv'
<1>1. calls[c] # NoCall /\ Holds(calls[c]) = calls[c].holds
  BY ListCallAt DEF ListFails
<1>2. calls' = [calls EXCEPT ![c] = NoCall] /\ busy' = Release(busy, Holds(calls[c]))
  BY <1>1 DEF ListFails
<1>3. /\ calls' \in Calls(This) /\ busy' \in [Flag -> SUBSET Row]
      /\ FlagsOf(This, calls', busy')
  BY <1>1, <1>2, OverAlone
<1>4. shown' \in Shows
  <2>1. shown.list \in List /\ [shown.list EXCEPT !.rows = Empty.rows] \in List
    BY StateOf, EmptyRows DEF Shows, List
  <2> QED
    BY <2>1 DEF ListFails, Shows
<1>5. /\ UNCHANGED <<page, rows, cache, query, dialog, used>>
      /\ newest' \in Call \cup {0} /\ crossed' \in BOOLEAN
  BY StateOf DEF ListFails, Over
<1> QED
  BY <1>3, <1>4, <1>5, StateOf, StateAfter

-----------------------------------------------------------------------------
(* Writes *)

LEMMA WriteCallAt ==
    ASSUME PanelInv, NEW c \in Call, Writing(c)
    PROVE  /\ calls[c] \in WriteRow(This) /\ calls[c] # NoCall
           /\ calls[c].op \in Ops /\ calls[c].row \in Row /\ calls[c].val \in Content
           /\ calls[c].key \in Key /\ calls[c].late \in BOOLEAN
           /\ Holds(calls[c]) = calls[c].op.flag
<1>1. calls \in Calls(This)
  BY StateOf
<1>2. calls[c] \in WriteRow(This) /\ calls[c] # NoCall
  BY <1>1, CallKinds DEF Writing
<1> QED
  BY <1>2 DEF WriteRow, Holds, Ops

(* The write is at another step: nothing of the page changes. *)
LEMMA OutcomeTypes ==
    ASSUME PanelInv, page # NoPage, NEW c \in Call, Writing(c),
           NEW at \in {"sent", "dropped", "committed", "done", "refused"}, Outcome(c, at)
    PROVE  calls' \in Calls(This) /\ FlagsOf(This, calls', busy)
<1>1. calls[c] \in WriteRow(This) /\ calls[c] # NoCall
  BY WriteCallAt
<1> DEFINE row == [calls[c] EXCEPT !.at = at]
<1>2. row \in WriteRow(This) /\ Holds(row) = Holds(calls[c])
  BY <1>1, CallMoves
<1>3. calls' = [calls EXCEPT ![c] = row]
  BY StateOf DEF Outcome, Calls
<1> HIDE DEF row
<1> QED
  BY <1>1, <1>2, <1>3, KeptAlone

LEMMA WrittenRows ==
    ASSUME rows \in [Row -> RowRec], NEW call, call.row \in Row, call.val \in Content
    PROVE  Written(call) \in [Row -> RowRec]
<1>1. rows[call.row] \in RowRec
  OBVIOUS
<1>2. [rows EXCEPT ![call.row].val = call.val] \in [Row -> RowRec]
  BY <1>1 DEF RowRec
<1>3. [rows EXCEPT ![call.row].val = IF @ = {} THEN {1} ELSE {}] \in [Row -> RowRec]
  BY <1>1 DEF RowRec, Content, Item
<1>4. [rows EXCEPT ![call.row] = Nothing] \in [Row -> RowRec]
  BY EmptyRows
<1>5. [there |-> TRUE, val |-> {}] \in RowRec
  BY DEF RowRec, Content
<1>6. \A r : [rows EXCEPT ![r] = [there |-> TRUE, val |-> {}]] \in [Row -> RowRec]
  BY <1>5
<1>7. [s \in Row |-> IF rows[s].there THEN [rows[s] EXCEPT !.val = {1}] ELSE rows[s]]
        \in [Row -> RowRec]
  BY DEF RowRec, Content, Item
<1>8. [s \in Row |-> IF rows[s].there
                        /\ Cardinality({t \in Row : t < s /\ rows[t].there}) = call.place
                     THEN Nothing ELSE rows[s]] \in [Row -> RowRec]
  BY EmptyRows
<1>9. CASE call.op.does \in {"put", "decide", "accept", "clear"}
  BY <1>2, <1>9 DEF Written
<1>10. CASE call.op.does = "flip"
  BY <1>3, <1>10 DEF Written
<1>11. CASE call.op.does \in {"remove", "reject"}
  BY <1>4, <1>11 DEF Written
<1>12. CASE call.op.does = "join"
  BY <1>6, <1>12 DEF Written
<1>13. CASE call.op.does = "all"
  BY <1>7, <1>13 DEF Written
<1>14. CASE call.op.does = "add"
  BY <1>6, <1>14 DEF Written
<1>15. CASE call.op.does = "place"
  BY <1>8, <1>15 DEF Written
<1>16. CASE call.op.does \notin {"put", "decide", "accept", "clear", "flip", "remove", "reject",
                                 "join", "all", "add", "place"}
  BY <1>16 DEF Written
<1> QED
  BY <1>9, <1>10, <1>11, <1>12, <1>13, <1>14, <1>15, <1>16

(* Requests that are overtaken are what they were, and late.               *)
LEMMA AgedAt ==
    ASSUME PanelInv, NEW table, NEW d \in Call
    PROVE  /\ Aged(table)[d] \in {NoCall} \cup ListRow \cup WriteRow(This)
           /\ Aged(table)[d] # NoCall <=> calls[d] # NoCall
           /\ Holds(Aged(table)[d]) = Holds(calls[d])
           /\ calls[d] \in ListRow => Aged(table)[d] \in ListRow
           /\ calls[d] \in WriteRow(This) => Aged(table)[d] \in WriteRow(This)
<1>1. calls \in Calls(This)
  BY StateOf
<1>2. Aged(table)[d] = calls[d] \/ (calls[d] # NoCall /\ Aged(table)[d] = [calls[d] EXCEPT !.late = TRUE])
  BY DEF Aged, Overtaken, Listing, Writing
<1>3. calls[d] = NoCall \/ calls[d] \in ListRow \/ calls[d] \in WriteRow(This)
  BY <1>1, CallKinds
<1>4. CASE calls[d] \in ListRow
  <2>1. [calls[d] EXCEPT !.late = TRUE] \in ListRow
    BY <1>4 DEF ListRow
  <2>2. Holds([calls[d] EXCEPT !.late = TRUE]) = Holds(calls[d])
    BY <1>4 DEF ListRow, Holds
  <2>3. calls[d] \notin WriteRow(This)
    BY <1>4 DEF ListRow, WriteRow
  <2>4. \A call \in ListRow : call # NoCall
    BY CallMoves
  <2> QED
    BY <1>2, <1>4, <2>1, <2>2, <2>3, <2>4
<1>5. CASE calls[d] \in WriteRow(This)
  <2>1. [calls[d] EXCEPT !.late = TRUE] \in WriteRow(This)
    BY <1>5 DEF WriteRow
  <2>2. Holds([calls[d] EXCEPT !.late = TRUE]) = Holds(calls[d])
    BY <1>5 DEF WriteRow, Holds
  <2>3. calls[d] \notin ListRow
    BY <1>5 DEF ListRow, WriteRow
  <2>4. \A call \in WriteRow(This) : call # NoCall
    BY CallMoves
  <2> QED
    BY <1>2, <1>5, <2>1, <2>2, <2>3, <2>4
<1>6. CASE calls[d] = NoCall
  <2>1. Aged(table)[d] = NoCall
    BY <1>2, <1>6
  <2>2. calls[d] \notin ListRow /\ calls[d] \notin WriteRow(This)
    BY <1>6, CallMoves
  <2> QED
    BY <1>6, <2>1, <2>2
<1> QED
  BY <1>3, <1>4, <1>5, <1>6

LEMMA AgedTypes ==
    ASSUME PanelInv, NEW table
    PROVE  Aged(table) \in Calls(This) /\ FlagsOf(This, Aged(table), busy)
<1>1. Aged(table) \in Calls(This)
  <2>1. Aged(table) = [d \in Call |-> Aged(table)[d]]
    BY DEF Aged
  <2>2. \A d \in Call : Aged(table)[d] \in {NoCall} \cup ListRow \cup WriteRow(This)
    BY AgedAt
  <2> DEFINE cs == Aged(table)
  <2> HIDE DEF cs
  <2>3. cs = [d \in Call |-> cs[d]] /\ \A d \in Call : cs[d] \in {NoCall} \cup ListRow \cup WriteRow(This)
    BY <2>1, <2>2 DEF cs
  <2>4. cs \in Calls(This)
    BY <2>3 DEF Calls
  <2> QED
    BY <2>4 DEF cs
<1>2. \A d \in Call : \A flag : Holder(Aged(table), d, flag) <=> Holder(calls, d, flag)
  BY AgedAt DEF Holder
<1>3. FlagsOf(This, calls, busy)
  BY StateOf
<1>4. FlagsOf(This, Aged(table), busy)
  <2> DEFINE cs == Aged(table)
  <2>1. \A d \in Call : \A flag : Holder(cs, d, flag) <=> Holder(calls, d, flag)
    BY <1>2
  <2> HIDE DEF cs
  <2>2. FlagsOf(This, cs, busy)
    BY <2>1, <1>3 DEF FlagsOf
  <2> QED
    BY <2>2 DEF cs
<1> QED
  BY <1>1, <1>4

LEMMA OutlivedTypes ==
    ASSUME PanelInv, NEW table
    PROVE  Outlived(table) \subseteq Entry
BY StateOf DEF Outlived, Entry

LEMMA CommitStep ==
    ASSUME PanelInv, page # NoPage, NEW c \in Call, Commit(c)
    PROVE  PanelInv'
<1>1. Writing(c)
  BY DEF Commit
<1>2. calls' \in Calls(This) /\ FlagsOf(This, calls', busy)
  <2> DEFINE table == Written(calls[c])
             at == IF calls[c].op.drops = "after" THEN "committed" ELSE "done"
             aged == Aged(table)
             row == [aged[c] EXCEPT !.at = at]
  <2>1. calls' = [aged EXCEPT ![c].at = at]
    BY DEF Commit
  <2>2. /\ aged \in Calls(This) /\ FlagsOf(This, aged, busy)
        /\ aged[c] \in WriteRow(This)
    BY <1>1, WriteCallAt, AgedTypes, AgedAt
  <2>3. at \in {"sent", "dropped", "committed", "done", "refused"}
    OBVIOUS
  <2> HIDE DEF aged, at
  <2>4. row \in WriteRow(This) /\ Holds(row) = Holds(aged[c]) /\ aged[c] # NoCall /\ row # NoCall
    BY <2>2, <2>3, CallMoves
  <2>5. calls' = [aged EXCEPT ![c] = row]
    BY <2>1, <2>2 DEF Calls
  <2> HIDE DEF row
  <2> QED
    BY <2>2, <2>4, <2>5, CallsAfter, FlagKept DEF Calls
<1>3. rows' \in [Row -> RowRec]
  BY <1>1, WriteCallAt, StateOf, WrittenRows DEF Commit
<1>4. UNCHANGED <<page, query, shown, dialog, busy, used, newest, crossed>>
  BY DEF Commit
<1>5. cache' \subseteq Entry
  BY StateOf, OutlivedTypes DEF Commit
<1> QED
  BY <1>2, <1>3, <1>4, <1>5, StateOf, StateAfter

LEMMA DropCacheStep ==
    ASSUME PanelInv, page # NoPage, NEW c \in Call, DropCache(c)
    PROVE  PanelInv'
<1>1. Writing(c)
  BY DEF DropCache
<1>2. calls' \in Calls(This) /\ FlagsOf(This, calls', busy)
  BY <1>1, OutcomeTypes DEF DropCache
<1>3. UNCHANGED <<page, rows, query, shown, dialog, busy, used, newest, crossed>> /\ cache' = {}
  BY DEF DropCache
<1> QED
  BY <1>2, <1>3, StateOf, StateAfter

LEMMA RefuseStep ==
    ASSUME PanelInv, page # NoPage, NEW c \in Call, Refuse(c)
    PROVE  PanelInv'
<1>1. calls' \in Calls(This) /\ FlagsOf(This, calls', busy)
  BY OutcomeTypes DEF Refuse
<1>2. UNCHANGED <<page, rows, cache, query, shown, dialog, busy, used, newest, crossed>>
  BY DEF Refuse
<1> QED
  BY <1>1, <1>2, StateOf, StateAfter

LEMMA PatchedRows ==
    ASSUME PanelInv, NEW call, call.row \in Row, call.val \in Content
    PROVE  Patched(call) \in [Row -> RowRec]
<1>1. shown.list.rows \in [Row -> RowRec]
  BY StateOf DEF Shows, List
<1>2. [shown.list.rows EXCEPT ![call.row].val = call.val] \in [Row -> RowRec]
  BY <1>1 DEF RowRec
<1>3. [shown.list.rows EXCEPT ![call.row] = Nothing] \in [Row -> RowRec]
  BY <1>1, EmptyRows
<1>4. [r \in Row |-> IF shown.list.rows[r].there
                     THEN [shown.list.rows[r] EXCEPT !.val = {1}] ELSE Nothing] \in [Row -> RowRec]
  BY <1>1, EmptyRows DEF RowRec, Content, Item
<1> QED
  BY <1>1, <1>2, <1>3, <1>4 DEF Patched

(* The write is answered: its dialog closes, or its form starts over.      *)
LEMMA FinishDialog ==
    ASSUME PanelInv, NEW c \in Call, Finish(c)
    PROVE  dialog' \in Dialogs(This) /\ DialogOf(This, dialog')
<1> DEFINE o == calls[c].op
<1>1. o \in Ops /\ calls[c].val \in Content
  BY WriteCallAt DEF Finish
<1>2. Fits(This) /\ dialog \in Dialogs(This) /\ DialogOf(This, dialog)
  BY StateOf
<1>3. calls[c].val \cup {2} \in Content /\ {} \in Content
  BY <1>1 DEF Content, Item
<1>4. CASE o.after = "append"
  <2>1. dialog' = [dialog EXCEPT !.val = calls[c].val \cup {2}, !.edited = TRUE]
    BY <1>4 DEF Finish
  <2>2. HasForm(This)
    BY <1>1, <1>2, <1>4 DEF Fits, HasForm, Ops
  <2> QED
    BY <2>1, <2>2, <1>3, DialogParts, DialogChanges
<1>5. CASE o.after = "adopt"
  <2>1. dialog' = [dialog EXCEPT !.val = calls[c].val, !.edited = FALSE]
    BY <1>5 DEF Finish
  <2>2. HasForm(This)
    BY <1>1, <1>2, <1>5 DEF Fits, HasForm, Ops
  <2> QED
    BY <2>1, <2>2, <1>1, DialogParts, DialogChanges
<1>6. CASE o.after \notin {"append", "adopt"} /\ o.shuts = "answer" /\ dialog.op = o
  <2>1. CASE o.via = "form"
    <3>1. dialog' = [dialog EXCEPT !.val = {}, !.edited = FALSE]
      BY <1>6, <2>1 DEF Finish
    <3>2. HasForm(This)
      BY <1>1, <2>1 DEF HasForm, Ops
    <3> QED
      BY <3>1, <3>2, <1>3, DialogParts, DialogChanges
  <2>2. CASE o.via # "form"
    <3>1. dialog' = Closed
      BY <1>6, <2>2 DEF Finish
    <3>2. ~HasForm(This)
      BY <1>6, <2>2, DialogParts
    <3> QED
      BY <3>1, <3>2, ClosedDialog
  <2> QED
    BY <2>1, <2>2
<1>7. CASE o.after \notin {"append", "adopt"} /\ ~(o.shuts = "answer" /\ dialog.op = o)
  <2>1. dialog' = dialog
    BY <1>7 DEF Finish
  <2> QED
    BY <2>1, <1>2
<1> QED
  BY <1>4, <1>5, <1>6, <1>7

LEMMA FinishStep ==
    ASSUME PanelInv, page # NoPage, NEW c \in Call, Finish(c)
    PROVE  PanelInv'
<1> DEFINE o == calls[c].op
           kept == o.after \in {"await", "cut"}
           timer == [ListCall(calls[c].key, "none") EXCEPT !.at = "timer"]
           row == IF o.after = "later" THEN timer
                  ELSE IF Reloads(o) THEN ListCall(calls[c].key, IF kept THEN o.flag ELSE "none")
                  ELSE NoCall
<1>1. /\ calls[c] # NoCall /\ o \in Ops /\ Holds(calls[c]) = o.flag
      /\ calls[c].row \in Row /\ calls[c].val \in Content /\ calls[c].key \in Key
  BY WriteCallAt DEF Finish
<1>2. o.flag \in Flag \cup {"none"}
  BY <1>1, StateOf DEF Fits, Ops
<1>3. calls' = [calls EXCEPT ![c] = row]
  BY DEF Finish
<1>4. /\ calls' \in Calls(This) /\ busy' \in [Flag -> SUBSET Row]
      /\ FlagsOf(This, calls', busy')
  <2>1. CASE kept
    <3>1. row = ListCall(calls[c].key, o.flag)
      BY <2>1 DEF Reloads
    <3>2. row \in ListRow /\ Holds(row) = Holds(calls[c])
      BY <3>1, <1>1, <1>2, ListCalls
    <3>3. busy' = busy
      BY <2>1 DEF Finish
    <3> HIDE DEF row, o
    <3> QED
      BY <3>2, <3>3, <1>1, <1>3, KeptAlone, StateOf
  <2>2. CASE ~kept
    <3>1. row = ListCall(calls[c].key, "none") \/ row = timer \/ row = NoCall
      BY <2>2
    <3>2. timer \in ListRow /\ Holds(timer) = "none"
      <4> DEFINE asked == ListCall(calls[c].key, "none")
      <4>1. asked \in ListRow /\ Holds(asked) = "none" /\ "timer" \in Moment
        BY <1>1, ListCalls DEF Moment
      <4> HIDE DEF asked
      <4>2. [asked EXCEPT !.at = "timer"] \in ListRow /\ Holds([asked EXCEPT !.at = "timer"]) = "none"
        BY <4>1 DEF ListRow, Holds
      <4> QED
        BY <4>2 DEF asked
    <3>3. row \in {NoCall} \cup ListRow /\ (row = NoCall \/ Holds(row) = "none")
      BY <3>1, <3>2, <1>1, ListCalls
    <3>4. busy' = Release(busy, Holds(calls[c]))
      BY <2>2, <1>1 DEF Finish
    <3> HIDE DEF row, o
    <3> QED
      BY <3>3, <3>4, <1>1, <1>3, OverAlone
  <2> QED
    BY <2>1, <2>2
<1>5. shown' \in Shows
  <2> DEFINE total == IF o.after = "cut" /\ shown.list.total > 0 THEN shown.list.total - 1
                      ELSE shown.list.total
             patched == Patched(calls[c])
             loading == shown.loading \/ (o.after \in {"reload", "cut"} /\ o.via # "form")
  <2>1. shown.list \in List /\ shown.loading \in BOOLEAN /\ shown.list.total \in 0..MaxRow
    BY StateOf DEF Shows, List
  <2>2. total \in 0..MaxRow /\ loading \in BOOLEAN
    BY <2>1
  <2>3. patched \in [Row -> RowRec]
    BY <1>1, PatchedRows
  <2>4. shown' = [list |-> [shown.list EXCEPT !.rows = patched, !.total = total],
                  loading |-> loading]
    BY DEF Finish
  <2> HIDE DEF total, patched, loading
  <2>5. [shown.list EXCEPT !.rows = patched, !.total = total] \in List
    BY <2>1, <2>2, <2>3 DEF List
  <2> QED
    BY <2>2, <2>4, <2>5 DEF Shows
<1>6. dialog' \in Dialogs(This) /\ DialogOf(This, dialog')
  BY FinishDialog
<1>7. /\ UNCHANGED <<page, rows, cache, query, used>>
      /\ newest' \in Call \cup {0} /\ crossed' \in BOOLEAN
  BY StateOf, WriteCallAt DEF Finish
<1> QED
  BY <1>4, <1>5, <1>6, <1>7, StateOf, StateAfter

LEMMA ReloadStep ==
    ASSUME PanelInv, page # NoPage, NEW c \in Call, Reload(c)
    PROVE  PanelInv'
<1>1. calls[c] \in ListRow /\ calls[c] # NoCall
  BY ListCallAt DEF Reload
<1> DEFINE row == [calls[c] EXCEPT !.at = "sent"]
<1>2. row \in ListRow /\ Holds(row) = Holds(calls[c])
  <2>1. "sent" \in Moment
    BY DEF Moment
  <2> QED
    BY <1>1, <2>1 DEF ListRow, Holds
<1>3. calls' = [calls EXCEPT ![c] = row]
  BY StateOf DEF Reload, Calls
<1> HIDE DEF row
<1>4. calls' \in Calls(This) /\ FlagsOf(This, calls', busy)
  BY <1>1, <1>2, <1>3, KeptAlone
<1>5. shown' \in Shows
  BY StateOf DEF Reload, Shows
<1>6. UNCHANGED <<page, rows, cache, query, dialog, busy, used, crossed>> /\ newest' \in Call
  BY DEF Reload
<1> QED
  BY <1>4, <1>5, <1>6, StateOf, StateAfter

LEMMA FailsStep ==
    ASSUME PanelInv, page # NoPage, NEW c \in Call, Fails(c)
    PROVE  PanelInv'
<1>1. calls[c] # NoCall /\ Holds(calls[c]) = calls[c].op.flag
  BY WriteCallAt DEF Fails
<1>2. calls' = [calls EXCEPT ![c] = NoCall] /\ busy' = Release(busy, Holds(calls[c]))
  BY <1>1 DEF Fails
<1>3. /\ calls' \in Calls(This) /\ busy' \in [Flag -> SUBSET Row]
      /\ FlagsOf(This, calls', busy')
  BY <1>1, <1>2, OverAlone
<1>4. UNCHANGED <<page, rows, cache, query, shown, dialog, used, newest>> /\ crossed' \in BOOLEAN
  BY StateOf DEF Fails
<1> QED
  BY <1>3, <1>4, StateOf, StateAfter

-----------------------------------------------------------------------------
(* The surroundings, and the specification *)

LEMMA OtherStep ==
    ASSUME PanelInv, page # NoPage, NEW r \in Row, Other(r)
    PROVE  PanelInv'
<1>1. PICK row \in {Nothing, [there |-> TRUE, val |-> {1} \ rows[r].val]} :
        rows' = [rows EXCEPT ![r] = row]
  BY DEF Other
<1>2. [there |-> TRUE, val |-> {1} \ rows[r].val] \in RowRec
  BY DEF RowRec, Content, Item
<1>3. row \in RowRec
  BY <1>1, <1>2, EmptyRows
<1>4. rows' \in [Row -> RowRec]
  BY <1>1, <1>3, StateOf
<1>5. cache' \subseteq Entry
  BY StateOf, OutlivedTypes DEF Other
<1>6. used' \in [click : 0..MaxClicks, other : 0..MaxOther]
  BY StateOf DEF Other
<1>7. UNCHANGED <<page, query, shown, dialog, busy, newest>> /\ crossed' \in BOOLEAN
  BY DEF Other
<1>8. calls' \in Calls(This) /\ FlagsOf(This, calls', busy)
  BY AgedTypes DEF Other
<1> QED
  BY <1>4, <1>5, <1>6, <1>7, <1>8, StateOf, StateAfter

LEMMA ExpireStep ==
    ASSUME PanelInv, page # NoPage, Expire
    PROVE  PanelInv'
<1>1. UNCHANGED <<page, rows, query, shown, dialog, busy, calls, used, newest, crossed>> /\ cache' = {}
  BY DEF Expire
<1> QED
  BY <1>1, StateOf, StateAfter

LEMMA PanelInit == Init => PanelInv
<1> SUFFICES ASSUME Init
             PROVE  PanelInv
  OBVIOUS
<1>1. page \in DOMAIN Pages
  BY DEF Init, Pages, NoPage
<1>2. This.ops = {}
  BY DEF Init, This, Pages, NoPage, Page, ReadOnly
<1>3. dialog \in Dialogs(This) /\ DialogOf(This, dialog)
  BY <1>2, ClosedDialog DEF Init, HasForm
<1>4. query \in Queries /\ shown \in Shows
  BY EmptyRows DEF Init, Queries, Shows
<1>5. calls \in Calls(This) /\ FlagsOf(This, calls, busy) /\ busy \in [Flag -> SUBSET Row]
  BY <1>2 DEF Init, Calls, FlagsOf
<1>6. TypeOK
  <2>1. /\ rows \in [Row -> RowRec] /\ cache \subseteq Entry
        /\ used \in [click : 0..MaxClicks, other : 0..MaxOther]
        /\ newest \in Call \cup {0} /\ crossed \in BOOLEAN
    <3>1. rows \in [Row -> RowRec] /\ cache \subseteq Entry
      BY EmptyRows DEF Init
    <3>2. used \in [click : 0..MaxClicks, other : 0..MaxOther]
      BY DEF Init
    <3>3. newest \in Call \cup {0} /\ crossed \in BOOLEAN
      BY DEF Init
    <3> QED
      BY <3>1, <3>2, <3>3
  <2> QED
    BY <1>1, <1>3, <1>4, <1>5, <2>1
     DEF TypeOK, Queries, Shows, Dialogs, Calls, ListRow, WriteRow, Moment, Entry, Ops
<1>7. Unopened
  BY DEF Init, Unopened
<1> QED
  BY <1>3, <1>5, <1>6, <1>7 DEF PanelInv

(* The request that a page opens with is one there is.                     *)
LEMMA FirstCall ==
    \E c \in Call : \A d \in Call : c <= d
<1> DEFINE R == OpToRel(<, Nat)
<1>1. IsWellFoundedOn(R, Nat)
  BY NatLessThanWellFounded
<1>2. Call \subseteq Nat /\ Call # {}
  OBVIOUS
<1> HIDE DEF R
<1>3. PICK c \in Call : \A d \in Call : ~(<<d, c>> \in R)
  BY <1>1, <1>2, WFMin
<1>4. \A d \in Call : ~(d < c)
  BY <1>2, <1>3 DEF R, OpToRel
<1>5. \A d \in Call : c <= d
  BY <1>2, <1>4
<1> QED
  BY <1>5

LEMMA OpenPageStep ==
    ASSUME PanelInv, OpenPage
    PROVE  PanelInv'
<1>1. PICK name \in DOMAIN Pages \ {NoPage} :
        LET p == Pages[name] IN
         /\ page' = name
         /\ rows' \in Tables(p)
         /\ shown' = [list |-> Empty, loading |-> p.asks.error # "blank"]
         /\ calls' = [c \in Call |->
                         IF p.asks.error # "blank" /\ \A d \in Call : c <= d
                         THEN ListCall([NoKey EXCEPT !.open = p.filter.by = "fixed"], "none")
                         ELSE NoCall]
         /\ newest' = IF p.asks.error = "blank" THEN 0
                      ELSE CHOOSE c \in Call : \A d \in Call : c <= d
         /\ dialog' = IF \E o \in p.ops : o.via = "form"
                      THEN [Closed EXCEPT !.op = CHOOSE o \in p.ops : o.via = "form", !.row = 1]
                      ELSE Closed
  BY DEF OpenPage
<1> DEFINE p == Pages[name]
           fixed == p.filter.by = "fixed"
           first == ListCall([NoKey EXCEPT !.open = fixed], "none")
<1>2. Fits(p) /\ This' = p
  BY <1>1, PagesFit DEF This
<1>3. UNCHANGED <<cache, query, busy, used, crossed>>
  BY DEF OpenPage
<1>4. busy = [f \in Flag |-> {}]
  BY DEF PanelInv, Unopened, OpenPage
<1>5. [NoKey EXCEPT !.open = fixed] \in Key
  <2>1. fixed \in BOOLEAN /\ 0 \in 0..(MaxRow - 1)
    OBVIOUS
  <2> HIDE DEF fixed
  <2> QED
    BY <2>1 DEF NoKey, Key
<1>6. first \in ListRow /\ Holds(first) = "none"
  BY <1>5, ListCalls
<1> HIDE DEF first
<1>7. \A c \in Call : calls'[c] = first \/ calls'[c] = NoCall
  BY <1>1 DEF first
<1>8. calls' \in Calls(p)
  <2>1. calls' = [c \in Call |-> calls'[c]]
    BY <1>1
  <2> QED
    BY <2>1, <1>6, <1>7 DEF Calls
<1>9. FlagsOf(p, calls', busy')
  <2>1. \A f \in Flag : busy'[f] = {}
    BY <1>3, <1>4
  <2>2. \A c \in Call : calls'[c] # NoCall => Holds(calls'[c]) = "none"
    BY <1>6, <1>7
  <2>3. \A o \in p.ops : Sole(o) => o.flag \in Flag
    BY <1>2 DEF Fits, Sole
  <2>4. \A o \in p.ops, c \in Call : ~(Sole(o) /\ Holder(calls', c, o.flag))
    BY <2>2 DEF Sole, Holder
  <2> QED
    BY <2>1, <2>3, <2>4 DEF FlagsOf
<1>10. dialog' \in Dialogs(p) /\ DialogOf(p, dialog')
  <2>1. CASE HasForm(p)
    <3> DEFINE itsForm == CHOOSE o \in p.ops : o.via = "form"
    <3>1. itsForm \in p.ops /\ itsForm.via = "form"
      BY <2>1 DEF HasForm
    <3>2. dialog' = [op |-> itsForm, row |-> 1, val |-> {}, edited |-> FALSE]
      BY <1>1, <2>1 DEF HasForm, Closed
    <3> HIDE DEF itsForm
    <3> QED
      BY <3>1, <3>2 DEF Dialogs, DialogOf, Content, NoOp, Row
  <2>2. CASE ~HasForm(p)
    <3>1. dialog' = Closed
      BY <1>1, <2>2 DEF HasForm
    <3> QED
      BY <3>1, <2>2, ClosedDialog
  <2> QED
    BY <2>1, <2>2
<1>11. rows' \in [Row -> RowRec]
  <2> DEFINE S == {Nothing, [there |-> TRUE, val |-> {}], [there |-> TRUE, val |-> {1}]}
  <2>1. rows' \in [Row -> S]
    BY <1>1 DEF Tables
  <2>2. S \subseteq RowRec
    BY DEF RowRec, Nothing, Content, Item
  <2> QED
    BY <2>1, <2>2
<1>12. shown' \in Shows
  BY <1>1, EmptyRows DEF Shows
<1>13. page' \in DOMAIN Pages /\ page' # NoPage
  BY <1>1
<1>14. newest' \in Call \cup {0}
  BY <1>1, FirstCall
<1>15. TypeOK'
  BY <1>2, <1>3, <1>8, <1>10, <1>11, <1>12, <1>13, <1>14, StateOf
     DEF TypeOK, Queries, Shows, Dialogs, Calls, ListRow, WriteRow, Moment, Entry, Ops
<1>16. Unopened'
  BY <1>13 DEF Unopened
<1> QED
  BY <1>2, <1>9, <1>10, <1>15, <1>16 DEF PanelInv

LEMMA PanelNext ==
    ASSUME PanelInv, Next
    PROVE  PanelInv'
<1>1. CASE OpenPage
  BY <1>1, OpenPageStep
<1>2. CASE page # NoPage /\ Working
  <2>1. CASE Browser
    BY <1>2, <2>1, TypeStep, SelectFilterStep, TurnPageStep, PressStep, OpenDialogStep, EditStep,
       ConfirmStep, CloseDialogStep DEF Browser
  <2>2. CASE Debounce
    BY <1>2, <2>2, DebounceStep
  <2>3. CASE \E c \in Call : Waits(c)
    BY <1>2, <2>3, ServeCachedStep, ReadRowsStep, StoreListStep, ShowListStep, ListFailsStep,
       CommitStep, DropCacheStep, RefuseStep, FinishStep, ReloadStep, FailsStep DEF Waits
  <2>4. CASE \E r \in Row : Other(r)
    BY <1>2, <2>4, OtherStep
  <2>5. CASE Expire
    BY <1>2, <2>5, ExpireStep
  <2> QED
    BY <1>2, <2>1, <2>2, <2>3, <2>4, <2>5 DEF Working
<1> QED
  BY <1>1, <1>2 DEF Next

LEMMA PanelSame ==
    ASSUME PanelInv, UNCHANGED vars
    PROVE  PanelInv'
<1>1. This' = This
  BY DEF This, vars
<1>2. TypeOK'
  BY <1>1 DEF PanelInv, TypeOK, vars, Ops
<1>3. Unopened'
  BY DEF PanelInv, Unopened, vars
<1> QED
  BY <1>1, <1>2, <1>3 DEF PanelInv, vars

LEMMA OneHolder ==
    PanelInv => FlagsFollowCalls
<1> SUFFICES ASSUME PanelInv
             PROVE  FlagsFollowCalls
  OBVIOUS
<1>1. \A f \in Flag : busy[f] # {} => \E c \in InFlight : Holds(calls[c]) = f
  BY StateOf DEF FlagsOf, Holder, InFlight, Free
<1>2. ASSUME NEW o \in Ops, o.guarded /\ o.flag # "none" /\ o.via # "button"
      PROVE  Cardinality({c \in Call : Writing(c) /\ calls[c].op = o}) <= 1
  <2> DEFINE S == {c \in Call : Writing(c) /\ calls[c].op = o}
  <2>1. \A c \in S : Holder(calls, c, o.flag)
    BY DEF Writing, Holder, Holds
  <2>2. \A c, d \in Call : Holder(calls, c, o.flag) /\ Holder(calls, d, o.flag) => c = d
    BY <1>2, StateOf DEF FlagsOf, Sole, Ops
  <2>3. \A c, d \in S : c = d
    BY <2>1, <2>2
  <2> HIDE DEF S
  <2>4. CASE S = {}
    <3>1. Cardinality(S) = 0
      BY <2>4, FS_EmptySet
    <3> QED
      BY <3>1 DEF S
  <2>5. CASE S # {}
    <3>1. PICK c \in S : TRUE
      BY <2>5
    <3>2. S = {c}
      BY <3>1, <2>3
    <3>3. Cardinality(S) = 1
      BY <3>2, FS_Singleton
    <3> QED
      BY <3>3 DEF S
  <2> QED
    BY <2>4, <2>5
<1> QED
  BY <1>1, <1>2 DEF FlagsFollowCalls

-----------------------------------------------------------------------------
(* What is shown                                                           *)
(*                                                                         *)
(* For the state of a page p: the table in the database, what the API      *)
(* tells for each key, what the page asks for now, the cache, the list and *)
(* the dialog it has, its requests, and the history.                       *)

Blankly == [typed |-> FALSE, name |-> FALSE, timer |-> FALSE, open |-> FALSE, from |-> 0]

Told == [k \in Key |-> Answer(k)]

RowsTrue(rs, table) == \A r \in Row : rs[r].there => rs[r] = table[r]

(* Requests at a moment. *)
Lists(call)  == call # NoCall /\ call.kind = "list"
Writes(call) == call # NoCall /\ call.kind = "write"
Made(call)   == Writes(call) /\ call.at \in {"committed", "done"}
Saves(call)  == Writes(call) /\ call.op.via = "form"

(* Nobody wrote the row that a write has left. *)
Leaves(call, table) ==
    IF call.op.does = "all" THEN \A r \in Row : table[r].there => table[r].val = {1}
    ELSE call.op.does \in {"put", "decide"} => table[call.row].val = call.val

(* A request: what it read or left is true while it is not late.  Only     *)
(* lists that are cached are stored, a form writes the first row, and only *)
(* a handler that drops the lists first has dropped them.                  *)
CallTrue(p, call, table, told) ==
    /\ Lists(call) /\ call.at \in {"read", "answered"} /\ ~call.late =>
           call.list = told[call.key]
    /\ Lists(call) /\ call.at = "read" => p.asks.cached
    /\ Saves(call) => call.row = 1
    /\ Writes(call) /\ call.at = "dropped" => call.op.drops = "before"
    /\ Made(call) /\ ~call.late => Leaves(call, table)

(* The cached lists are true, or are about to be dropped. *)
Dropping(cs) == \E c \in Call : cs[c] # NoCall /\ cs[c].at = "committed"

CacheTrue(p, cch, told, cs) ==
    /\ \A e \in cch : ~e.late => e.list = told[e.key] \/ Dropping(cs)
    /\ ~p.asks.cached => cch = {}

(* The list is going to be asked for. *)
Coming(call) ==
    \/ Lists(call) /\ call.at = "timer"
    \/ Made(call) /\ Reloads(call.op)
Awaited(cs) == \E c \in Call : Coming(cs[c])

(* A row that is about to be patched. *)
Touches(call, r) ==
    Made(call) /\ call.op.after = "patch" /\ (call.op.does = "all" \/ call.row = r)

ListTrue(told, asked, list, cs) == list = told[asked] \/ Awaited(cs)

PatchTrue(table, list, cs) ==
    \/ Awaited(cs)
    \/ \A r \in Row : list.rows[r].there =>
          /\ table[r].there
          /\ list.rows[r] = table[r] \/ \E c \in Call : Touches(cs[c], r)

Renews(p) == \E o \in p.ops : Reloads(o)

FormTrue(p, table, dlg, cs) ==
    /\ ~Renews(p) => \A c, d \in Call : Saves(cs[c]) /\ Saves(cs[d]) => c = d
    /\ ~dlg.edited =>
          /\ dlg.val = table[1].val \/ \E c \in Call : Saves(cs[c])
          /\ ~Renews(p) => \A c \in Call : Saves(cs[c]) => cs[c].val = dlg.val

(* What the page shows, when what was asked for last has been shown. *)
PageTrue(p, table, told, asked, list, dlg, cs) ==
    /\ ~HasForm(p) /\ ~Patches(p) => ListTrue(told, asked, list, cs)
    /\ Patches(p) => PatchTrue(table, list, cs)
    /\ HasForm(p) => FormTrue(p, table, dlg, cs)

(* A form that is read once is read before it can be saved. *)
LoadTrue(p, loading, cs) ==
    Loaded(p) /\ HasForm(p) /\ ~Renews(p) =>
       \A c, d \in Call : Lists(cs[c]) /\ cs[d] # NoCall => d = c /\ loading

(* The row of a form has no content where it is not there. *)
RowFits(p, table) == Loaded(p) /\ HasForm(p) /\ ~table[1].there => table[1].val = {}

CallsTrue(p, cs, table, told) == \A c \in Call : CallTrue(p, cs[c], table, told)

NewestFits(nw, cs) == nw # 0 => Lists(cs[nw])

TrueInv ==
    /\ PanelInv
    /\ page = NoPage => query = Blankly
    /\ CallsTrue(This, calls, rows, Told)
    /\ CacheTrue(This, cache, Told, calls)
    /\ LoadTrue(This, shown.loading, calls)
    /\ RowFits(This, rows)
    /\ NewestFits(newest, calls)
    /\ Loaded(This) /\ ~crossed /\ newest = 0 =>
          PageTrue(This, rows, Told, Asked(query), shown.list, dialog, calls)

(* A request that goes on, for the page what it was, and one that also is  *)
(* in flight as before.                                                    *)
Lasts(call, new) ==
    /\ Saves(new) <=> Saves(call)
    /\ Saves(call) => new.val = call.val
    /\ Coming(call) => Coming(new)
    /\ \A r \in Row : Touches(call, r) => Touches(new, r)

Steady(call, new) ==
    /\ new # NoCall <=> call # NoCall
    /\ Lists(new) <=> Lists(call)
    /\ Lasts(call, new)

-----------------------------------------------------------------------------
(* What the API answers *)

LEMMA ToldIs ==
    ASSUME NEW key \in Key
    PROVE  Told[key] = Answer(key)
BY DEF Told

(* A row that is listed is the one in the table. *)
LEMMA AnswerRows ==
    ASSUME NEW key \in Key
    PROVE  RowsTrue(Answer(key).rows, rows)
<1>1. \A S, n : \A r \in Row : Listed(rows, S, n).rows[r] = (IF r \in S THEN rows[r] ELSE Nothing)
  BY DEF Listed
<1>2. \A S, n : RowsTrue(Listed(rows, S, n).rows, rows)
  BY <1>1 DEF RowsTrue, Nothing
<1>3. \E S, n : Answer(key) = Listed(rows, S, n)
  BY DEF Answer
<1> QED
  BY <1>2, <1>3

(* A form asks for all there is, whatever the query. *)
LEMMA FormKey ==
    ASSUME TrueInv, Loaded(This), HasForm(This), NEW q
    PROVE  Asked(q) = NoKey
<1>1. HandlersFit(This)
  BY PagesFit DEF TrueInv, PanelInv, TypeOK, This
<1>2. This.asks.search # "server" /\ This.asks.pager = "none"
      /\ This.filter.by \notin {"fixed", "server"}
  BY <1>1 DEF HandlersFit
<1> QED
  BY <1>2 DEF Asked, NoKey

LEMMA FormAnswer ==
    ASSUME TrueInv, Loaded(This), HasForm(This)
    PROVE  Answer(Asked(query)).rows[1].val = rows[1].val
<1>1. HandlersFit(This) /\ RowFits(This, rows) /\ 1 \in Row
  BY PagesFit DEF TrueInv, PanelInv, TypeOK, This, Row
<1>2. This.asks.pager = "none"
  BY <1>1 DEF HandlersFit
<1>3. Asked(query).name = FALSE /\ Asked(query).open = FALSE
  BY FormKey DEF NoKey
<1> DEFINE found == {r \in Row : /\ rows[r].there
                                 /\ Asked(query).name => r = 1
                                 /\ Asked(query).open => rows[r].val = {}}
<1>4. Answer(Asked(query)) = Listed(rows, found, Cardinality(found))
  BY <1>2 DEF Answer
<1>5. 1 \in found <=> rows[1].there
  BY <1>1, <1>3
<1> HIDE DEF found
<1>6. Answer(Asked(query)).rows[1] = IF 1 \in found THEN rows[1] ELSE Nothing
  BY <1>1, <1>4 DEF Listed
<1> QED
  BY <1>1, <1>5, <1>6 DEF RowFits, Nothing

(* What is asked and told depends on the page, the query and the table.    *)
LEMMA SameTold ==
    ASSUME page' = page
    PROVE  /\ This' = This
           /\ query' = query => Asked(query)' = Asked(query)
           /\ rows' = rows => Told' = Told
<1>1. This' = This
  BY DEF This
<1>2. query' = query => Asked(query)' = Asked(query)
  BY <1>1 DEF Asked
<1>3. rows' = rows => Told' = Told
  BY <1>1 DEF Told, Answer, Listed, Cut
<1> QED
  BY <1>1, <1>2, <1>3

LEMMA TrueFacts ==
    ASSUME TrueInv
    PROVE  /\ PanelInv /\ HandlersFit(This)
           /\ query \in Queries /\ Asked(query) \in Key
           /\ calls \in [Call -> {NoCall} \cup ListRow \cup WriteRow(This)]
           /\ newest \in Call \cup {0} /\ 0 \notin Call
           /\ \A c \in Call : CallTrue(This, calls[c], rows, Told)
           /\ \A e \in cache : ~e.late => e.list = Told[e.key] \/ Dropping(calls)
           /\ ~This.asks.cached => cache = {}
           /\ LoadTrue(This, shown.loading, calls)
           /\ RowFits(This, rows)
           /\ newest # 0 => Lists(calls[newest])
           /\ Loaded(This) /\ ~crossed /\ newest = 0 =>
                PageTrue(This, rows, Told, Asked(query), shown.list, dialog, calls)
<1>1. PanelInv
  BY DEF TrueInv
<1>2. HandlersFit(This)
  BY <1>1, PagesFit DEF PanelInv, TypeOK, This
<1>3. 0 \notin Call
  OBVIOUS
<1> QED
  BY <1>1, <1>2, <1>3, StateOf, Keys DEF TrueInv, Calls, CallsTrue, CacheTrue, NewestFits

(* The invariant after a step on a page. *)
LEMMA TrueAfter ==
    ASSUME TrueInv, PanelInv', page # NoPage, page' = page,
           \A c \in Call : CallTrue(This, calls'[c], rows', Told'),
           CacheTrue(This, cache', Told', calls'),
           LoadTrue(This, shown'.loading, calls'),
           RowFits(This, rows'),
           newest' # 0 => Lists(calls'[newest']),
           Loaded(This) /\ ~crossed' /\ newest' = 0 =>
              PageTrue(This, rows', Told', Asked(query)', shown'.list, dialog', calls')
    PROVE  TrueInv'
<1>1. This' = This
  BY SameTold
<1> QED
  BY <1>1 DEF TrueInv, CallsTrue, NewestFits

-----------------------------------------------------------------------------
(* Requests that go on *)

(* Requests that go on keep what the page shows true. *)
LEMMA PageSteady ==
    ASSUME NEW p, NEW table, NEW told, NEW asked, NEW list, NEW dlg, NEW cs, NEW new,
           PageTrue(p, table, told, asked, list, dlg, cs),
           \A d \in Call : Lasts(cs[d], new[d])
    PROVE  PageTrue(p, table, told, asked, list, dlg, new)
<1>1. Awaited(cs) => Awaited(new)
  BY DEF Awaited, Lasts
<1>2. \A r \in Row : (\E c \in Call : Touches(cs[c], r)) => \E c \in Call : Touches(new[c], r)
  BY DEF Lasts
<1>3. \A d \in Call : Saves(new[d]) <=> Saves(cs[d])
  BY DEF Lasts
<1>4. \A d \in Call : Saves(cs[d]) => new[d].val = cs[d].val
  BY DEF Lasts
<1>5. ListTrue(told, asked, list, cs) => ListTrue(told, asked, list, new)
  BY <1>1 DEF ListTrue
<1>6. PatchTrue(table, list, cs) => PatchTrue(table, list, new)
  BY <1>1, <1>2 DEF PatchTrue
<1>7. FormTrue(p, table, dlg, cs) => FormTrue(p, table, dlg, new)
  BY <1>3, <1>4 DEF FormTrue
<1> QED
  BY <1>5, <1>6, <1>7 DEF PageTrue

LEMMA LoadSteady ==
    ASSUME NEW p, NEW cs, NEW new, NEW loading, LoadTrue(p, loading, cs),
           \A d \in Call : Steady(cs[d], new[d])
    PROVE  LoadTrue(p, loading, new)
BY DEF LoadTrue, Steady

(* One request goes on, and nothing else changes. *)
LEMMA OneSteady ==
    ASSUME TrueInv, PanelInv', page # NoPage, NEW c \in Call, NEW row,
           UNCHANGED <<page, rows, query, shown, dialog, newest, crossed>>,
           calls' = [calls EXCEPT ![c] = row],
           Steady(calls[c], row),
           CallTrue(This, row, rows, Told),
           CacheTrue(This, cache', Told, calls')
    PROVE  TrueInv'
<1>1. Told' = Told /\ Asked(query)' = Asked(query)
  BY SameTold
<1>2. calls'[c] = row /\ \A d \in Call \ {c} : calls'[d] = calls[d]
  BY TrueFacts
<1>3. \A d \in Call : Steady(calls[d], calls'[d])
  BY <1>2 DEF Steady, Lasts
<1>4. \A d \in Call : CallTrue(This, calls'[d], rows', Told')
  BY <1>1, <1>2, TrueFacts
<1>5. LoadTrue(This, shown'.loading, calls')
  BY <1>3, LoadSteady, TrueFacts
<1>6. newest' # 0 => Lists(calls'[newest'])
  BY <1>3, TrueFacts DEF Steady
<1>7. Loaded(This) /\ ~crossed' /\ newest' = 0 =>
        PageTrue(This, rows', Told', Asked(query)', shown'.list, dialog', calls')
  <2>1. \A d \in Call : Lasts(calls[d], calls'[d])
    BY <1>3 DEF Steady
  <2> QED
    BY <1>1, <2>1, PageSteady, TrueFacts
<1> QED
  BY <1>1, <1>4, <1>5, <1>6, <1>7, TrueFacts, TrueAfter

-----------------------------------------------------------------------------
(* The user *)

LEMMA RequeryTruth ==
    ASSUME TrueInv, PanelInv', page # NoPage, NEW q \in Queries, Requery(q),
           UNCHANGED <<page, rows, cache, dialog, busy>>
    PROVE  TrueInv'
<1>1. This' = This /\ Told' = Told
  BY SameTold
<1>2. Asked(query)' = Asked(q)
  BY DEF Asked, This, Requery
<1>3. crossed' = crossed
  BY DEF Requery
<1>4. CASE (Asked(q) = Asked(query) \/ ~Loaded(This)) /\ UNCHANGED <<calls, shown, newest>>
  BY <1>1, <1>2, <1>3, <1>4, TrueFacts, TrueAfter DEF CacheTrue
<1>5. ASSUME NEW c \in Free, Start(c, ListCall(Asked(q), "none")), Asked(q) # Asked(query),
             shown' = [shown EXCEPT !.loading = TRUE], newest' = c
      PROVE  TrueInv'
  <2> DEFINE row == ListCall(Asked(q), "none")
  <2>1. row # NoCall /\ row.kind = "list" /\ row.at = "sent"
    BY DEF ListCall, NoCall
  <2>2. calls' = [calls EXCEPT ![c] = row] /\ c \in Call /\ calls[c] = NoCall
    BY <1>5 DEF Start, Free
  <2> HIDE DEF row
  <2>3. calls'[c] = row /\ \A d \in Call \ {c} : calls'[d] = calls[d]
    BY <2>2, TrueFacts
  <2>4. CallTrue(This, row, rows, Told)
    BY <2>1 DEF CallTrue, Lists, Saves, Made, Writes
  <2>5. \A d \in Call : CallTrue(This, calls'[d], rows', Told')
    BY <1>1, <2>3, <2>4, TrueFacts
  <2>6. Dropping(calls) => Dropping(calls')
    BY <2>2, <2>3 DEF Dropping
  <2>7. CacheTrue(This, cache', Told', calls')
    BY <1>1, <2>6, TrueFacts DEF CacheTrue
  <2>8. ~(Loaded(This) /\ HasForm(This))
    BY <1>5, FormKey
  <2>9. LoadTrue(This, shown'.loading, calls')
    BY <2>8 DEF LoadTrue
  <2>10. newest' # 0 /\ Lists(calls'[newest'])
    BY <1>5, <2>1, <2>2, <2>3, TrueFacts DEF Lists
  <2> QED
    BY <2>5, <2>7, <2>9, <2>10, TrueFacts, TrueAfter
<1> QED
  BY <1>4, <1>5 DEF Requery, Loaded

LEMMA TypeTruth ==
    ASSUME TrueInv, PanelInv', page # NoPage, Type
    PROVE  TrueInv'
<1> DEFINE q == [query EXCEPT !.typed = ~@,
                              !.timer = This.asks.search # "direct",
                              !.name  = IF This.asks.search = "direct" THEN ~query.typed ELSE @,
                              !.from  = IF This.asks.resets = "typing" THEN 0 ELSE @]
<1>1. q \in Queries
  BY TrueFacts, NewQueries
<1>2. Requery(q) /\ UNCHANGED <<page, rows, cache, dialog, busy>>
  BY DEF Type
<1> HIDE DEF q
<1> QED
  BY <1>1, <1>2, RequeryTruth

LEMMA DebounceTruth ==
    ASSUME TrueInv, PanelInv', page # NoPage, Debounce
    PROVE  TrueInv'
<1> DEFINE q == [query EXCEPT !.timer = FALSE, !.name = query.typed,
                              !.from  = IF This.asks.resets = "debounce" THEN 0 ELSE @]
<1>1. q \in Queries
  BY TrueFacts, NewQueries
<1>2. Requery(q) /\ UNCHANGED <<page, rows, cache, dialog, busy>>
  BY DEF Debounce
<1> HIDE DEF q
<1> QED
  BY <1>1, <1>2, RequeryTruth

LEMMA SelectFilterTruth ==
    ASSUME TrueInv, PanelInv', page # NoPage, SelectFilter
    PROVE  TrueInv'
<1> DEFINE q == [query EXCEPT !.open = ~@, !.from = IF This.filter.resets THEN 0 ELSE @]
<1>1. q \in Queries
  BY TrueFacts, NewQueries
<1>2. Requery(q) /\ UNCHANGED <<page, rows, cache, dialog, busy>>
  BY DEF SelectFilter
<1> HIDE DEF q
<1> QED
  BY <1>1, <1>2, RequeryTruth

LEMMA TurnPageTruth ==
    ASSUME TrueInv, PanelInv', page # NoPage, NEW to \in 0..(MaxRow - 1), TurnPage(to)
    PROVE  TrueInv'
<1> DEFINE q == [query EXCEPT !.from = to]
<1>1. q \in Queries
  BY TrueFacts, NewQueries
<1>2. Requery(q) /\ UNCHANGED <<page, rows, cache, dialog, busy>>
  BY DEF TurnPage
<1> HIDE DEF q
<1> QED
  BY <1>1, <1>2, RequeryTruth

(* A request that starts leaves the others as they are. *)
LEMMA Joined ==
    ASSUME TrueInv, NEW c \in Free, NEW row, calls' = [calls EXCEPT ![c] = row]
    PROVE  /\ c \in Call /\ calls[c] = NoCall /\ calls'[c] = row
           /\ \A d \in Call \ {c} : calls'[d] = calls[d]
           /\ Dropping(calls) => Dropping(calls')
           /\ Awaited(calls) => Awaited(calls')
           /\ \A r \in Row : (\E d \in Call : Touches(calls[d], r))
                                 => \E d \in Call : Touches(calls'[d], r)
<1>1. c \in Call /\ calls[c] = NoCall
  BY DEF Free
<1>2. calls'[c] = row /\ \A d \in Call \ {c} : calls'[d] = calls[d]
  BY <1>1, TrueFacts
<1>3. ~Coming(calls[c]) /\ \A r : ~Touches(calls[c], r)
  BY <1>1 DEF Coming, Touches, Lists, Made, Writes
<1>4. Dropping(calls) => Dropping(calls')
  BY <1>1, <1>2 DEF Dropping
<1>5. Awaited(calls) => Awaited(calls')
  BY <1>2, <1>3 DEF Awaited
<1>6. \A r \in Row : (\E d \in Call : Touches(calls[d], r))
                         => \E d \in Call : Touches(calls'[d], r)
  BY <1>2, <1>3
<1> QED
  BY <1>1, <1>2, <1>4, <1>5, <1>6

(* A handler leaves what is shown; a form sends what it holds, and no      *)
(* other save is on its way unless that is crossed.                        *)
LEMMA SendTruth ==
    ASSUME TrueInv, PanelInv', page # NoPage, NEW o \in Ops, NEW r \in Row, Send(o, r),
           UNCHANGED <<page, rows, cache, query, shown, newest>>,
           HasForm(This) => ~shown.loading /\ dialog'.val = dialog.val,
           HasForm(This) /\ o.via = "top" => dialog' = dialog,
           o.via = "form" => r = 1
    PROVE  TrueInv'
<1>1. PICK c \in Free, val \in Sends(o, r) : Start(c, WriteCall(o, r, val))
  BY DEF Send
<1> DEFINE row == WriteCall(o, r, val)
<1>2. /\ row # NoCall /\ row.kind = "write" /\ row.at = "sent" /\ row.op = o /\ row.row = r
      /\ row.val = val
  BY DEF WriteCall, NoCall
<1> HIDE DEF row
<1>3. calls' = [calls EXCEPT ![c] = row]
  BY <1>1 DEF Start, row
<1>4. /\ c \in Call /\ calls[c] = NoCall /\ calls'[c] = row
      /\ \A d \in Call \ {c} : calls'[d] = calls[d]
  BY <1>3, Joined
<1>5. Told' = Told /\ Asked(query)' = Asked(query)
  BY SameTold
<1>6. \A d \in Call : CallTrue(This, calls'[d], rows', Told')
  <2>1. CallTrue(This, row, rows, Told)
    BY <1>2 DEF CallTrue, Lists, Saves, Made, Writes
  <2> QED
    BY <1>4, <1>5, <2>1, TrueFacts
<1>7. CacheTrue(This, cache', Told', calls')
  <2>1. Dropping(calls) => Dropping(calls')
    BY <1>3, Joined
  <2> QED
    BY <1>5, <2>1, TrueFacts DEF CacheTrue
<1>8. LoadTrue(This, shown'.loading, calls')
  <2> SUFFICES ASSUME Loaded(This), HasForm(This), ~Renews(This)
               PROVE  \A d \in Call : ~Lists(calls'[d])
    BY DEF LoadTrue
  <2>1. \A d \in Call : ~Lists(calls[d])
    BY TrueFacts DEF LoadTrue, Lists
  <2> QED
    BY <1>2, <1>4, <2>1 DEF Lists
<1>9. newest' # 0 => Lists(calls'[newest'])
  BY <1>4, TrueFacts DEF Lists
<1>10. ASSUME Loaded(This), ~crossed', newest' = 0
       PROVE  PageTrue(This, rows', Told', Asked(query)', shown'.list, dialog', calls')
  <2>1. PageTrue(This, rows, Told, Asked(query), shown.list, dialog, calls)
    BY <1>10, TrueFacts DEF Send
  <2>2. ~HasForm(This) /\ ~Patches(This) => ListTrue(Told', Asked(query)', shown'.list, calls')
    <3>1. Awaited(calls) => Awaited(calls')
      BY <1>3, Joined
    <3> QED
      BY <1>5, <2>1, <3>1 DEF PageTrue, ListTrue
  <2>3. Patches(This) => PatchTrue(rows', shown'.list, calls')
    <3>1. /\ Awaited(calls) => Awaited(calls')
          /\ \A q \in Row : (\E d \in Call : Touches(calls[d], q))
                                => \E d \in Call : Touches(calls'[d], q)
      BY <1>3, Joined
    <3> QED
      BY <2>1, <3>1 DEF PageTrue, PatchTrue
  <2>4. HasForm(This) => FormTrue(This, rows', dialog', calls')
    <3> SUFFICES ASSUME HasForm(This)
                 PROVE  FormTrue(This, rows', dialog', calls')
      OBVIOUS
    <3>1. o.via \in {"form", "top"}
      BY TrueFacts, StateOf DEF Fits, HasForm, Ops
    <3>2. CASE o.via = "form"
      <4>1. val = dialog.val
        <5>1. o.does = "put"
          BY <1>10, <3>2, TrueFacts DEF HandlersFit, Ops
        <5>2. Sends(o, r) = {dialog.val}
          BY <3>2, <5>1 DEF Sends
        <5> QED
          BY <1>1, <5>2
      <4>2. Saves(calls'[c]) /\ calls'[c].val = dialog'.val
        BY <1>2, <1>4, <3>2, <4>1 DEF Saves, Writes
      <4>3. \A d \in Call \ {c} : ~Saves(calls'[d])
        <5>1. o \in Forms
          BY <3>2 DEF Forms
        <5>2. \A d \in Call : ~(Writing(d) /\ calls[d].op \in Forms)
          BY <1>10, <5>1 DEF Send
        <5>3. \A d \in Call : Writing(d) => calls[d].op \in Ops
          BY TrueFacts, WriteCallAt
        <5>4. \A d \in Call : ~Saves(calls[d])
          BY <5>2, <5>3 DEF Saves, Writes, Writing, Forms
        <5> QED
          BY <1>4, <5>4
      <4> QED
        BY <1>4, <4>2, <4>3 DEF FormTrue
    <3>3. CASE o.via = "top"
      <4>1. ~Saves(calls[c]) /\ ~Saves(calls'[c])
        BY <1>2, <1>4, <3>3 DEF Saves, Writes
      <4>2. dialog' = dialog /\ FormTrue(This, rows, dialog, calls)
        BY <2>1, <3>3 DEF PageTrue
      <4> QED
        BY <1>4, <4>1, <4>2 DEF FormTrue
    <3> QED
      BY <3>1, <3>2, <3>3
  <2> QED
    BY <2>2, <2>3, <2>4 DEF PageTrue
<1> QED
  BY <1>6, <1>7, <1>8, <1>9, <1>10, TrueFacts, TrueAfter

LEMMA PressTruth ==
    ASSUME TrueInv, PanelInv', page # NoPage, NEW o \in Ops, NEW r \in Row, Press(o, r)
    PROVE  TrueInv'
<1>1. /\ Send(o, r) /\ UNCHANGED <<page, rows, cache, query, shown, dialog, newest>>
      /\ o.via # "form" /\ ~shown.loading
  BY DEF Press
<1> QED
  BY <1>1, SendTruth

LEMMA ConfirmTruth ==
    ASSUME TrueInv, PanelInv', page # NoPage, Confirm
    PROVE  TrueInv'
<1> DEFINE o == dialog.op
<1>1. /\ dialog # Closed /\ Send(o, dialog.row)
      /\ UNCHANGED <<page, rows, cache, query, shown, newest>>
      /\ o.via = "form" => ~shown.loading
      /\ \/ dialog' = Closed /\ (o.via = "alert" \/ o.shuts = "click")
         \/ dialog' = [dialog EXCEPT !.edited = FALSE]
  BY DEF Confirm
<1>2. PanelInv
  BY TrueFacts
<1>3. o \in Ops /\ dialog.row \in Row /\ o.via \notin {"button", "top"}
  BY <1>1, <1>2, DialogParts, StateOf DEF DialogOf
<1>4. HasForm(This) => o.via = "form" /\ dialog.row = 1
  BY <1>2, DialogParts
<1>5. HasForm(This) => dialog'.val = dialog.val
  <2>1. HasForm(This) => o.shuts # "click"
    BY <1>2, <1>3, <1>4, StateOf DEF Fits, Ops
  <2>2. HasForm(This) => dialog' = [dialog EXCEPT !.edited = FALSE]
    BY <1>1, <1>4, <2>1
  <2> QED
    BY <2>2, <1>2, StateOf DEF Dialogs
<1>6. o.via = "form" => dialog.row = 1
  BY <1>3, <1>4 DEF HasForm, Ops
<1> HIDE DEF o
<1> QED
  BY <1>1, <1>3, <1>4, <1>5, <1>6, SendTruth

(* Only the dialog changes: that of a page with no form shows nothing that *)
(* could be wrong, nor does a form that is edited.                         *)
LEMMA DialogTruth ==
    ASSUME TrueInv, PanelInv', page # NoPage, HasForm(This) => dialog'.edited,
           UNCHANGED <<page, rows, cache, query, shown, calls, newest, crossed>>
    PROVE  TrueInv'
<1>1. Told' = Told /\ Asked(query)' = Asked(query)
  BY SameTold
<1>2. Loaded(This) /\ ~crossed' /\ newest' = 0 =>
        PageTrue(This, rows', Told', Asked(query)', shown'.list, dialog', calls')
  <2> SUFFICES ASSUME Loaded(This), ~crossed, newest = 0
               PROVE  PageTrue(This, rows, Told, Asked(query), shown.list, dialog', calls)
    BY <1>1
  <2>1. PageTrue(This, rows, Told, Asked(query), shown.list, dialog, calls)
    BY TrueFacts
  <2>2. HasForm(This) => FormTrue(This, rows, dialog', calls)
    BY <2>1 DEF PageTrue, FormTrue
  <2> QED
    BY <2>1, <2>2 DEF PageTrue
<1>3. CacheTrue(This, cache', Told', calls')
  BY <1>1, TrueFacts DEF CacheTrue
<1> QED
  BY <1>1, <1>2, <1>3, TrueFacts, TrueAfter

LEMMA EditTruth ==
    ASSUME TrueInv, PanelInv', page # NoPage, NEW i \in Item, Edit(i)
    PROVE  TrueInv'
<1> DEFINE val == IF i \in dialog.val THEN dialog.val \ {i} ELSE dialog.val \cup {i}
<1>1. dialog' = [dialog EXCEPT !.val = val, !.edited = TRUE]
  BY DEF Edit
<1>2. UNCHANGED <<page, rows, cache, query, shown, busy, calls, newest, crossed, used>>
  BY DEF Edit
<1> HIDE DEF val
<1>3. dialog'.edited
  BY <1>1, TrueFacts, StateOf DEF Dialogs
<1> QED
  BY <1>2, <1>3, DialogTruth

LEMMA DialogsTruth ==
    ASSUME TrueInv, PanelInv', page # NoPage,
           \/ \E o \in Ops, r \in Row : OpenDialog(o, r)
           \/ \E i \in Item : Edit(i)
           \/ CloseDialog
    PROVE  TrueInv'
<1>1. PanelInv
  BY TrueFacts
<1>2. CASE \E o \in Ops, r \in Row : OpenDialog(o, r)
  <2>1. ~HasForm(This)
    BY <1>1, <1>2, StateOf DEF OpenDialog, HasForm, Fits, Ops
  <2> QED
    BY <1>2, <2>1, DialogTruth DEF OpenDialog
<1>3. CASE \E i \in Item : Edit(i)
  BY <1>3, EditTruth
<1>4. CASE CloseDialog
  <2>1. ~HasForm(This)
    BY <1>1, <1>4, DialogParts DEF CloseDialog
  <2> QED
    BY <1>4, <2>1, DialogTruth DEF CloseDialog
<1> QED
  BY <1>2, <1>3, <1>4

-----------------------------------------------------------------------------
(* Requests for the list *)

LEMMA ServeCachedTruth ==
    ASSUME TrueInv, PanelInv', page # NoPage, NEW c \in Call, ServeCached(c)
    PROVE  TrueInv'
<1>1. PICK entry \in cache :
        /\ entry.key = calls[c].key
        /\ calls' = [calls EXCEPT ![c].at = "answered", ![c].list = entry.list,
                                  ![c].late = entry.late \/ Undropped]
  BY Zenon DEF ServeCached
<1>2. /\ Listing(c) /\ calls[c].at = "sent"
      /\ UNCHANGED <<page, rows, cache, query, shown, dialog, busy, used, newest, crossed>>
  BY DEF ServeCached
<1>3. calls[c] \in ListRow /\ calls[c] # NoCall
  BY <1>2, TrueFacts, ListCallAt
<1> DEFINE late == entry.late \/ Undropped
           row == [calls[c] EXCEPT !.at = "answered", !.list = entry.list, !.late = late]
<1>4. /\ row.kind = "list" /\ row.at = "answered" /\ row.list = entry.list
      /\ row.key = calls[c].key /\ row.late = late
  <2> HIDE DEF late
  <2> QED
    BY <1>3 DEF ListRow
<1>5. row # NoCall
  BY <1>4 DEF NoCall
<1>6. calls' = [calls EXCEPT ![c] = row]
  <2> HIDE DEF late
  <2>1. calls' = [calls EXCEPT ![c].at = "answered", ![c].list = entry.list, ![c].late = late]
    BY <1>1 DEF late
  <2> QED
    BY <2>1, TrueFacts
<1> HIDE DEF row
<1>7. Told' = Told
  BY <1>2, SameTold
<1>8. Steady(calls[c], row)
  BY <1>2, <1>3, <1>4, <1>5
     DEF Steady, Lasts, Listing, Lists, Saves, Writes, Coming, Touches, Made
<1>9. CallTrue(This, row, rows, Told)
  <2>1. ~row.late => row.list = Told[row.key]
    <3> SUFFICES ASSUME ~row.late
                 PROVE  row.list = Told[row.key]
      OBVIOUS
    <3>1. ~entry.late /\ ~Undropped
      BY <1>4
    <3>2. ~Dropping(calls)
      BY <3>1 DEF Dropping, Undropped, InFlight, Free
    <3> QED
      BY <1>1, <1>4, <3>1, <3>2, TrueFacts
  <2> QED
    BY <1>4, <2>1 DEF CallTrue, Saves, Writes, Made, Lists
<1>10. CacheTrue(This, cache', Told', calls')
  <2>1. Dropping(calls) => Dropping(calls')
    BY <1>2, <1>6, TrueFacts DEF Dropping
  <2> QED
    BY <1>2, <1>7, <2>1, TrueFacts DEF CacheTrue
<1> QED
  BY <1>2, <1>6, <1>7, <1>8, <1>9, <1>10, OneSteady

LEMMA ReadRowsTruth ==
    ASSUME TrueInv, PanelInv', page # NoPage, NEW c \in Call, ReadRows(c)
    PROVE  TrueInv'
<1> DEFINE at == IF This.asks.cached THEN "read" ELSE "answered"
           list == Answer(calls[c].key)
           row == [calls[c] EXCEPT !.at = at, !.list = list]
<1>1. /\ Listing(c) /\ calls[c].at = "sent"
      /\ UNCHANGED <<page, rows, cache, query, shown, dialog, busy, used, newest, crossed>>
  BY DEF ReadRows
<1>2. calls[c] \in ListRow /\ calls[c] # NoCall /\ calls[c].key \in Key
  BY <1>1, TrueFacts, ListCallAt
<1>3. list = Told[calls[c].key]
  BY <1>2, ToldIs
<1>4. row.kind = "list" /\ row.at = at /\ row.list = list /\ row.key = calls[c].key
  BY <1>2 DEF ListRow
<1>5. row # NoCall
  BY <1>4 DEF NoCall
<1>6. calls' = [calls EXCEPT ![c] = row]
  BY TrueFacts DEF ReadRows
<1> HIDE DEF row, list
<1>7. Told' = Told
  BY <1>1, SameTold
<1>8. Steady(calls[c], row)
  BY <1>1, <1>2, <1>4, <1>5
     DEF Steady, Lasts, Listing, Lists, Saves, Writes, Coming, Touches, Made
<1>9. CallTrue(This, row, rows, Told)
  BY <1>3, <1>4 DEF CallTrue, Saves, Writes, Made, Lists
<1>10. CacheTrue(This, cache', Told', calls')
  <2>1. Dropping(calls) => Dropping(calls')
    BY <1>1, <1>6, TrueFacts DEF Dropping
  <2> QED
    BY <1>1, <1>7, <2>1, TrueFacts DEF CacheTrue
<1> QED
  BY <1>1, <1>6, <1>7, <1>8, <1>9, <1>10, OneSteady

LEMMA StoreListTruth ==
    ASSUME TrueInv, PanelInv', page # NoPage, NEW c \in Call, StoreList(c)
    PROVE  TrueInv'
<1> DEFINE row == [calls[c] EXCEPT !.at = "answered"]
           stored == [key |-> calls[c].key, list |-> calls[c].list, late |-> calls[c].late]
<1>1. /\ Listing(c) /\ calls[c].at = "read"
      /\ UNCHANGED <<page, rows, query, shown, dialog, busy, used, newest, crossed>>
      /\ cache' = {e \in cache : e.key # calls[c].key} \cup {stored}
  BY DEF StoreList
<1>2. calls[c] \in ListRow /\ calls[c] # NoCall
  BY <1>1, TrueFacts, ListCallAt
<1>3. /\ row.kind = "list" /\ row.at = "answered" /\ row.list = calls[c].list
      /\ row.key = calls[c].key /\ row.late = calls[c].late
  BY <1>2 DEF ListRow
<1>4. row # NoCall
  BY <1>3 DEF NoCall
<1>5. calls' = [calls EXCEPT ![c] = row]
  BY TrueFacts DEF StoreList
<1> HIDE DEF row
<1>6. Told' = Told
  BY <1>1, SameTold
<1>7. This.asks.cached /\ (~calls[c].late => calls[c].list = Told[calls[c].key])
  BY <1>1, <1>2, TrueFacts DEF CallTrue, Lists, Listing
<1>8. Steady(calls[c], row)
  BY <1>1, <1>2, <1>3, <1>4
     DEF Steady, Lasts, Listing, Lists, Saves, Writes, Coming, Touches, Made
<1>9. CallTrue(This, row, rows, Told)
  BY <1>3, <1>7 DEF CallTrue, Saves, Writes, Made, Lists
<1>10. CacheTrue(This, cache', Told', calls')
  <2>1. Dropping(calls) => Dropping(calls')
    BY <1>1, <1>5, TrueFacts DEF Dropping
  <2>2. ~stored.late => stored.list = Told[stored.key]
    BY <1>7
  <2> HIDE DEF stored
  <2> QED
    BY <1>1, <1>6, <1>7, <2>1, <2>2, TrueFacts DEF CacheTrue
<1> QED
  BY <1>1, <1>5, <1>6, <1>8, <1>9, <1>10, OneSteady

(* A request is over: none of those that remain was it.                    *)
LEMMA Gone ==
    ASSUME TrueInv, NEW c \in Call, calls' = [calls EXCEPT ![c] = NoCall], page' = page,
           newest' = (IF newest = c THEN 0 ELSE newest) \/ (newest' = newest /\ Writing(c)),
           rows' = rows, cache' = cache, ~(calls[c] # NoCall /\ calls[c].at = "committed")
    PROVE  /\ calls'[c] = NoCall /\ \A d \in Call \ {c} : calls'[d] = calls[d]
           /\ \A d \in Call : CallTrue(This, calls'[d], rows', Told')
           /\ CacheTrue(This, cache', Told', calls')
           /\ newest' # 0 => Lists(calls'[newest'])
<1>1. Told' = Told
  BY SameTold
<1>2. calls'[c] = NoCall /\ \A d \in Call \ {c} : calls'[d] = calls[d]
  BY TrueFacts
<1>3. CallTrue(This, NoCall, rows, Told)
  BY DEF CallTrue, Lists, Writes, Saves, Made
<1>4. \A d \in Call : CallTrue(This, calls'[d], rows', Told')
  BY <1>1, <1>2, <1>3, TrueFacts
<1>5. Dropping(calls) => Dropping(calls')
  BY <1>2 DEF Dropping
<1>6. CacheTrue(This, cache', Told', calls')
  BY <1>1, <1>5, TrueFacts DEF CacheTrue
<1>7. newest' # 0 => newest' = newest /\ newest' # c
  BY TrueFacts DEF Writing, Lists
<1> QED
  BY <1>2, <1>4, <1>6, <1>7, TrueFacts

(* A form that asks once and has its answer has nothing on its way.        *)
LEMMA LoadOver ==
    ASSUME TrueInv, NEW c \in Call, Listing(c), calls' = [calls EXCEPT ![c] = NoCall],
           NEW loading
    PROVE  LoadTrue(This, loading, calls')
<1>1. calls'[c] = NoCall /\ \A d \in Call \ {c} : calls'[d] = calls[d]
  BY TrueFacts
<1>2. Lists(calls[c])
  BY DEF Lists, Listing
<1>3. LoadTrue(This, shown.loading, calls)
  BY TrueFacts
<1> SUFFICES ASSUME Loaded(This), HasForm(This), ~Renews(This)
             PROVE  \A a, b \in Call : Lists(calls'[a]) /\ calls'[b] # NoCall => b = a /\ loading
  BY DEF LoadTrue
<1>4. \A d \in Call : calls[d] # NoCall => d = c
  BY <1>2, <1>3 DEF LoadTrue
<1>5. \A d \in Call : calls'[d] = NoCall
  BY <1>1, <1>4
<1> QED
  BY <1>5 DEF Lists
LEMMA ShowListTruth ==
    ASSUME TrueInv, PanelInv', page # NoPage, NEW c \in Call, ShowList(c)
    PROVE  TrueInv'
<1>1. /\ Listing(c) /\ calls[c].at = "answered" /\ calls[c] # NoCall
      /\ shown'.list = calls[c].list
      /\ calls' = [calls EXCEPT ![c] = NoCall]
      /\ newest' = (IF newest = c THEN 0 ELSE newest)
      /\ crossed' = IF newest = c THEN calls[c].late \/ calls[c].key # Asked(query)
                    ELSE crossed \/ newest = 0
      /\ UNCHANGED <<page, rows, cache, query, used>>
  BY DEF ShowList, Listing, Over
<1>2. /\ calls'[c] = NoCall /\ \A d \in Call \ {c} : calls'[d] = calls[d]
      /\ \A d \in Call : CallTrue(This, calls'[d], rows', Told')
      /\ CacheTrue(This, cache', Told', calls')
      /\ newest' # 0 => Lists(calls'[newest'])
  BY <1>1, Gone
<1>3. LoadTrue(This, shown'.loading, calls')
  BY <1>1, LoadOver
<1>4. RowFits(This, rows')
  BY <1>1, TrueFacts
<1>5. Told' = Told /\ Asked(query)' = Asked(query)
  BY <1>1, SameTold
<1>6. ASSUME Loaded(This), ~crossed', newest' = 0
      PROVE  PageTrue(This, rows', Told', Asked(query)', shown'.list, dialog', calls')
  <2>1. newest = c /\ ~calls[c].late /\ calls[c].key = Asked(query)
    BY <1>1, <1>6
  <2>2. shown'.list = Told[Asked(query)]
    BY <1>1, <2>1, TrueFacts DEF CallTrue, Lists, Listing
  <2>3. shown'.list = Answer(Asked(query))
    BY <2>2, TrueFacts, ToldIs
  <2>4. RowsTrue(shown'.list.rows, rows)
    BY <2>3, TrueFacts, AnswerRows
  <2>5. PatchTrue(rows, shown'.list, calls')
    BY <2>4 DEF RowsTrue, PatchTrue
  <2>6. HasForm(This) => FormTrue(This, rows, dialog', calls')
    <3> SUFFICES ASSUME HasForm(This)
                 PROVE  FormTrue(This, rows, dialog', calls')
      OBVIOUS
    <3>1. dialog.op.via = "form" /\ dialog # Closed /\ dialog.op \in Ops
      BY TrueFacts, DialogParts
    <3>2. \E o \in Forms : dialog.op = o
      BY <3>1 DEF Forms
    <3>3. dialog' = [dialog EXCEPT !.val = calls[c].list.rows[1].val, !.edited = FALSE]
      BY <3>2 DEF ShowList
    <3>4. dialog'.val = rows[1].val
      <4>1. dialog'.val = calls[c].list.rows[1].val
        BY <3>3, TrueFacts, StateOf DEF Dialogs
      <4> QED
        BY <1>1, <1>6, <2>3, <4>1, FormAnswer
    <3>5. ~Renews(This) => \A d \in Call : ~Saves(calls'[d])
      <4> SUFFICES ASSUME ~Renews(This), NEW d \in Call
                   PROVE  ~Saves(calls'[d])
        OBVIOUS
      <4>1. Lists(calls[c]) /\ LoadTrue(This, shown.loading, calls)
        BY <1>1, TrueFacts DEF Lists, Listing
      <4>2. calls[d] # NoCall => d = c
        BY <1>6, <4>1 DEF LoadTrue
      <4> QED
        BY <1>2, <4>2 DEF Saves, Writes
    <3> QED
      BY <3>4, <3>5 DEF FormTrue
  <2> QED
    BY <1>1, <1>5, <2>2, <2>5, <2>6 DEF PageTrue, ListTrue
<1> QED
  BY <1>1, <1>2, <1>3, <1>4, <1>6, TrueAfter

(* A request that is over without having been anything for the page. *)
LEMMA PageGone ==
    ASSUME TrueInv, NEW c \in Call, calls' = [calls EXCEPT ![c] = NoCall],
           UNCHANGED <<page, rows, query, dialog>>, shown'.list = shown.list,
           ~Saves(calls[c]), ~Coming(calls[c]), \A r \in Row : ~Touches(calls[c], r),
           Loaded(This), ~crossed, newest = 0
    PROVE  PageTrue(This, rows', Told', Asked(query)', shown'.list, dialog', calls')
<1>1. calls'[c] = NoCall /\ \A d \in Call \ {c} : calls'[d] = calls[d]
  BY TrueFacts
<1>2. ~Saves(NoCall)
  BY DEF Saves, Writes
<1>3. \A d \in Call : Lasts(calls[d], calls'[d])
  BY <1>1, <1>2 DEF Lasts
<1>4. Told' = Told /\ Asked(query)' = Asked(query)
  BY SameTold
<1> QED
  BY <1>3, <1>4, PageSteady, TrueFacts

LEMMA ListFailsTruth ==
    ASSUME TrueInv, PanelInv', page # NoPage, NEW c \in Call, ListFails(c)
    PROVE  TrueInv'
<1>1. /\ Listing(c) /\ calls[c].at = "sent" /\ calls[c] # NoCall
      /\ This.asks.error = "keep" => shown'.list = shown.list
      /\ calls' = [calls EXCEPT ![c] = NoCall]
      /\ newest' = (IF newest = c THEN 0 ELSE newest)
      /\ crossed' = (crossed \/ newest = c \/ (newest = 0 /\ This.asks.error # "keep"))
      /\ UNCHANGED <<page, rows, cache, query, dialog, used>>
  BY DEF ListFails, Listing, Over
<1>2. /\ \A d \in Call : CallTrue(This, calls'[d], rows', Told')
      /\ CacheTrue(This, cache', Told', calls')
      /\ newest' # 0 => Lists(calls'[newest'])
  BY <1>1, Gone
<1>3. LoadTrue(This, shown'.loading, calls')
  BY <1>1, LoadOver
<1>4. RowFits(This, rows')
  BY <1>1, TrueFacts
<1>5. ASSUME Loaded(This), ~crossed', newest' = 0
      PROVE  PageTrue(This, rows', Told', Asked(query)', shown'.list, dialog', calls')
  <2>1. ~crossed /\ newest = 0 /\ shown'.list = shown.list
    BY <1>1, <1>5
  <2>2. ~Saves(calls[c]) /\ ~Coming(calls[c]) /\ \A r \in Row : ~Touches(calls[c], r)
    BY <1>1 DEF Saves, Writes, Coming, Lists, Made, Touches, Listing
  <2> QED
    BY <1>1, <1>5, <2>1, <2>2, PageGone
<1> QED
  BY <1>1, <1>2, <1>3, <1>4, <1>5, TrueAfter
-----------------------------------------------------------------------------
(* Writes *)

(* A request that is marked as late stays what it is. *)
LEMMA LateParts ==
    ASSUME TrueInv, NEW d \in Call, calls[d] # NoCall, NEW new,
           new = [calls[d] EXCEPT !.late = TRUE]
    PROVE  /\ new # NoCall /\ new.kind = calls[d].kind /\ new.at = calls[d].at /\ new.late = TRUE
           /\ calls[d].kind = "list" => new.key = calls[d].key
           /\ calls[d].kind = "write" => /\ new.op = calls[d].op /\ new.row = calls[d].row
                                         /\ new.val = calls[d].val
<1>1. calls[d] \in ListRow \/ calls[d] \in WriteRow(This)
  BY TrueFacts
<1>2. CASE calls[d] \in ListRow
  <2>1. /\ new.kind = "list" /\ calls[d].kind = "list" /\ new.at = calls[d].at
        /\ new.late = TRUE /\ new.key = calls[d].key /\ new.at # "idle"
    BY <1>2 DEF ListRow, Moment
  <2> QED
    BY <2>1 DEF NoCall
<1>3. CASE calls[d] \in WriteRow(This)
  <2>1. /\ new.kind = "write" /\ calls[d].kind = "write" /\ new.at = calls[d].at
        /\ new.late = TRUE /\ new.op = calls[d].op /\ new.row = calls[d].row
        /\ new.val = calls[d].val /\ new.at # "idle"
    BY <1>3 DEF WriteRow
  <2> QED
    BY <2>1 DEF NoCall
<1> QED
  BY <1>1, <1>2, <1>3

(* What a request has, whatever comes after it, it has or is late.         *)
LEMMA AgedTrue ==
    ASSUME TrueInv, NEW table, NEW told, table = rows => told = Told, NEW d \in Call
    PROVE  /\ Steady(calls[d], Aged(table)[d])
           /\ CallTrue(This, Aged(table)[d], table, told)
           /\ calls[d] # NoCall => Aged(table)[d].at = calls[d].at
<1>1. CASE ~Overtaken(d, table)
  <2>1. Aged(table)[d] = calls[d]
    BY <1>1 DEF Aged
  <2>2. CallTrue(This, calls[d], rows, Told)
    BY TrueFacts
  <2>3. Lists(calls[d]) /\ calls[d].at \in {"read", "answered"} => table = rows
    BY <1>1 DEF Overtaken, Lists, Listing
  <2>4. Made(calls[d]) /\ Leaves(calls[d], rows) => Leaves(calls[d], table)
    BY <1>1 DEF Overtaken, Made, Writes, Writing, Leaves
  <2>5. CallTrue(This, calls[d], table, told)
    BY <2>2, <2>3, <2>4 DEF CallTrue
  <2> QED
    BY <2>1, <2>5 DEF Steady, Lasts
<1>2. CASE Overtaken(d, table)
  <2> DEFINE new == [calls[d] EXCEPT !.late = TRUE]
  <2>1. Aged(table)[d] = new
    BY <1>2 DEF Aged
  <2>2. calls[d] # NoCall
    BY <1>2 DEF Overtaken, Listing, Writing
  <2>3. /\ new # NoCall /\ new.kind = calls[d].kind /\ new.at = calls[d].at /\ new.late = TRUE
        /\ calls[d].kind = "list" => new.key = calls[d].key
        /\ calls[d].kind = "write" => /\ new.op = calls[d].op /\ new.row = calls[d].row
                                      /\ new.val = calls[d].val
    BY <2>2, LateParts
  <2> HIDE DEF new
  <2>4. CallTrue(This, calls[d], rows, Told)
    BY TrueFacts
  <2>5. CallTrue(This, new, table, told)
    BY <2>2, <2>3, <2>4 DEF CallTrue, Lists, Saves, Writes, Made
  <2>6. Steady(calls[d], new)
    BY <2>2, <2>3 DEF Steady, Lasts, Lists, Saves, Writes, Coming, Touches, Made
  <2> QED
    BY <2>1, <2>3, <2>5, <2>6
<1> QED
  BY <1>1, <1>2

(* The lists that stay in Redis are true, or late. *)
LEMMA CacheAged ==
    ASSUME TrueInv, NEW table, NEW told, table = rows => told = Told,
           NEW cch \in {Outlived(table), {}}, NEW cs, Dropping(calls) => Dropping(cs)
    PROVE  CacheTrue(This, cch, told, cs)
<1>1. CASE table = rows
  BY <1>1, TrueFacts DEF CacheTrue, Outlived
<1>2. CASE table # rows
  <2>1. \A e \in Entry : [e EXCEPT !.late = TRUE].late
    BY DEF Entry
  <2>2. cache \subseteq Entry
    BY TrueFacts, StateOf
  <2>3. ASSUME NEW x \in cch
        PROVE  x.late
    <3>1. x \in {[e EXCEPT !.late = TRUE] : e \in cache}
      BY <1>2, <2>3 DEF Outlived
    <3>2. PICK e \in cache : x = [e EXCEPT !.late = TRUE]
      BY <3>1, Zenon
    <3> QED
      BY <2>1, <2>2, <3>2, Zenon
  <2>4. cache = {} => cch = {}
    BY <1>2 DEF Outlived
  <2> QED
    BY <2>3, <2>4, TrueFacts DEF CacheTrue
<1> QED
  BY <1>1, <1>2

LEMMA WriteFacts ==
    ASSUME TrueInv, NEW c \in Call, Writing(c)
    PROVE  /\ calls[c] # NoCall /\ calls[c].kind = "write"
           /\ calls[c].op \in This.ops /\ calls[c].row \in Row
           /\ CallTrue(This, calls[c], rows, Told)
BY TrueFacts, WriteCallAt DEF Writing, Ops

LEMMA OutcomeIs ==
    ASSUME TrueInv, NEW c \in Call, Writing(c),
           NEW at \in {"dropped", "committed", "done", "refused"}
    PROVE  \E row : /\ row = [calls[c] EXCEPT !.at = at]
                    /\ row # NoCall /\ row.kind = "write" /\ row.at = at
                    /\ row.op = calls[c].op /\ row.row = calls[c].row /\ row.val = calls[c].val
                    /\ row.late = calls[c].late
<1> DEFINE row == [calls[c] EXCEPT !.at = at]
<1>1. calls[c] \in WriteRow(This)
  BY TrueFacts, WriteCallAt
<1>2. /\ row.kind = "write" /\ row.at = at
      /\ row.op = calls[c].op /\ row.row = calls[c].row /\ row.val = calls[c].val
      /\ row.late = calls[c].late
  BY <1>1 DEF WriteRow
<1>3. row # NoCall
  BY <1>2 DEF NoCall
<1> QED
  BY <1>2, <1>3

(* A write whose rows are not touched, with the cache as it is or dropped. *)
LEMMA WriteMoves ==
    ASSUME TrueInv, PanelInv', page # NoPage, NEW c \in Call, Writing(c),
           NEW at \in {"dropped", "committed", "done", "refused"}, Outcome(c, at),
           \/ at = "refused" /\ calls[c].at = "sent" /\ cache' = cache
           \/ at = "dropped" /\ calls[c].at = "sent" /\ calls[c].op.drops = "before" /\ cache' = {}
           \/ at = "done" /\ calls[c].at = "committed" /\ cache' = {},
           UNCHANGED <<page, rows, query, shown, dialog, newest, crossed>>
    PROVE  TrueInv'
<1>1. calls[c] # NoCall /\ calls[c].kind = "write" /\ CallTrue(This, calls[c], rows, Told)
  BY WriteFacts
<1>2. PICK row : /\ row = [calls[c] EXCEPT !.at = at]
                 /\ row # NoCall /\ row.kind = "write" /\ row.at = at
                 /\ row.op = calls[c].op /\ row.row = calls[c].row /\ row.val = calls[c].val
                 /\ row.late = calls[c].late
  BY OutcomeIs
<1>3. calls' = [calls EXCEPT ![c] = row]
  BY <1>2, TrueFacts DEF Outcome
<1>4. Told' = Told
  BY SameTold
<1>5. Steady(calls[c], row)
  BY <1>1, <1>2 DEF Steady, Lasts, Lists, Saves, Writes, Coming, Touches, Made
<1>6. CallTrue(This, row, rows, Told)
  BY <1>1, <1>2 DEF CallTrue, Lists, Saves, Writes, Made, Leaves
<1>7. CacheTrue(This, cache', Told', calls')
  <2>1. CASE cache' = {}
    BY <2>1 DEF CacheTrue
  <2>2. CASE cache' = cache /\ calls[c].at = "sent"
    <3>1. Dropping(calls) => Dropping(calls')
      BY <1>3, <2>2, TrueFacts DEF Dropping
    <3> QED
      BY <1>4, <2>2, <3>1, TrueFacts DEF CacheTrue
  <2> QED
    BY <2>1, <2>2
<1> QED
  BY <1>3, <1>4, <1>5, <1>6, <1>7, OneSteady

LEMMA DropCacheTruth ==
    ASSUME TrueInv, PanelInv', page # NoPage, NEW c \in Call, DropCache(c)
    PROVE  TrueInv'
<1>1. CASE calls[c].at = "sent"
  BY <1>1, WriteMoves DEF DropCache
<1>2. CASE calls[c].at # "sent"
  BY <1>2, WriteMoves DEF DropCache
<1> QED
  BY <1>1, <1>2

LEMMA RefuseTruth ==
    ASSUME TrueInv, PanelInv', page # NoPage, NEW c \in Call, Refuse(c)
    PROVE  TrueInv'
BY WriteMoves DEF Refuse

(* What a write does to the rows, where the page patches them or is a form.*)
LEMMA WhatIsWritten ==
    ASSUME rows \in [Row -> RowRec], NEW call, call.row \in Row
    PROVE  /\ call.op.does = "none" => Written(call) = rows
           /\ call.op.does \in {"put", "decide"} =>
                 /\ Written(call)[call.row].val = call.val
                 /\ \A r \in Row : /\ Written(call)[r].there = rows[r].there
                                   /\ r # call.row => Written(call)[r] = rows[r]
           /\ call.op.does = "all" =>
                 \A r \in Row : /\ Written(call)[r].there = rows[r].there
                                /\ Written(call)[r].there => Written(call)[r].val = {1}
<1>1. CASE call.op.does = "none"
  BY <1>1 DEF Written
<1>2. CASE call.op.does \in {"put", "decide"}
  <2>1. Written(call) = [rows EXCEPT ![call.row].val = call.val]
    BY <1>2 DEF Written
  <2>2. Written(call)[call.row] = [rows[call.row] EXCEPT !.val = call.val]
    BY <2>1
  <2>3. \A r \in Row : r # call.row => Written(call)[r] = rows[r]
    BY <2>1
  <2>4. Written(call)[call.row].val = call.val /\ Written(call)[call.row].there = rows[call.row].there
    BY <2>2 DEF RowRec
  <2> QED
    BY <1>2, <2>3, <2>4
<1>3. CASE call.op.does = "all"
  <2>1. Written(call) = [s \in Row |-> IF rows[s].there THEN [rows[s] EXCEPT !.val = {1}]
                                       ELSE rows[s]]
    BY <1>3 DEF Written
  <2>2. ASSUME NEW r \in Row
        PROVE  /\ Written(call)[r].there = rows[r].there
               /\ Written(call)[r].there => Written(call)[r].val = {1}
    <3>1. CASE rows[r].there
      <4>1. Written(call)[r] = [rows[r] EXCEPT !.val = {1}]
        BY <2>1, <3>1
      <4> QED
        BY <4>1 DEF RowRec
    <3>2. CASE ~rows[r].there
      BY <2>1, <3>2
    <3> QED
      BY <3>1, <3>2
  <2> QED
    BY <1>3, <2>2
<1>4. CASE call.op.does \notin {"none", "put", "decide", "all"}
  BY <1>4
<1> QED
  BY <1>1, <1>2, <1>3, <1>4

(* A commit: the request goes on with what it has left, the others go on   *)
(* and are late if it comes after them.                                    *)
LEMMA CommitCalls ==
    ASSUME TrueInv, PanelInv', page # NoPage, NEW c \in Call, Commit(c)
    PROVE  /\ \A d \in Call : Steady(calls[d], calls'[d])
           /\ \A d \in Call : CallTrue(This, calls'[d], rows', Told')
           /\ Dropping(calls) => Dropping(calls')
           /\ calls[c].op.drops = "after" => Dropping(calls')
           /\ Made(calls'[c]) /\ calls'[c].op = calls[c].op /\ calls'[c].row = calls[c].row
<1> DEFINE at == IF calls[c].op.drops = "after" THEN "committed" ELSE "done"
           table == rows'
<1>1. /\ Writing(c) /\ calls[c].at \in {"sent", "dropped"}
      /\ calls' = [Aged(table) EXCEPT ![c].at = at]
      /\ rows' = Written(calls[c])
      /\ page' = page
  BY DEF Commit
<1>2. calls[c] # NoCall /\ calls[c].kind = "write" /\ calls[c].row \in Row
      /\ CallTrue(This, calls[c], rows, Told)
  BY <1>1, WriteFacts
<1>3. at \in {"committed", "done"} /\ (calls[c].op.drops = "after" => at = "committed")
  OBVIOUS
<1> HIDE DEF at
<1>4. PICK row : /\ row = [calls[c] EXCEPT !.at = at]
                 /\ row # NoCall /\ row.kind = "write" /\ row.at = at
                 /\ row.op = calls[c].op /\ row.row = calls[c].row /\ row.val = calls[c].val
                 /\ row.late = calls[c].late
  BY <1>1, <1>3, OutcomeIs
<1>5. Aged(table)[c] = calls[c]
  BY <1>1 DEF Aged, Overtaken, Listing, Writing
<1>6. calls'[c] = row /\ \A d \in Call \ {c} : calls'[d] = Aged(table)[d]
  <2>1. Aged(table) = [d \in Call |-> Aged(table)[d]]
    BY DEF Aged
  <2> DEFINE aged == Aged(table)
  <2> HIDE DEF aged
  <2>2. calls' = [aged EXCEPT ![c].at = at] /\ aged = [d \in Call |-> aged[d]] /\ aged[c] = calls[c]
    BY <1>1, <1>5, <2>1 DEF aged
  <2>3. calls'[c] = [calls[c] EXCEPT !.at = at] /\ \A d \in Call \ {c} : calls'[d] = aged[d]
    BY <2>2
  <2> QED
    BY <1>4, <2>3 DEF aged
<1>7. rows' = rows => Told' = Told
  BY <1>1, SameTold
<1>8. ASSUME NEW d \in Call \ {c}
      PROVE  /\ Steady(calls[d], calls'[d]) /\ CallTrue(This, calls'[d], rows', Told')
             /\ calls[d] # NoCall => calls'[d] # NoCall /\ calls'[d].at = calls[d].at
  <2> DEFINE told == Told'
  <2>1. table = rows => told = Told
    BY <1>7
  <2> HIDE DEF told, table
  <2>2. /\ Steady(calls[d], Aged(table)[d])
        /\ CallTrue(This, Aged(table)[d], table, told)
        /\ calls[d] # NoCall => Aged(table)[d].at = calls[d].at
    BY <2>1, AgedTrue
  <2> QED
    BY <1>6, <2>2 DEF Steady, told, table
<1>9. Steady(calls[c], row)
  BY <1>1, <1>2, <1>4 DEF Steady, Lasts, Lists, Saves, Writes, Coming, Touches, Made
<1>10. CallTrue(This, row, rows', Told')
  <2>1. Leaves(row, rows')
    <3>1. rows \in [Row -> RowRec]
      BY TrueFacts, StateOf
    <3> QED
      BY <1>1, <1>2, <1>4, <3>1, WhatIsWritten DEF Leaves
  <2> QED
    BY <1>2, <1>3, <1>4, <2>1 DEF CallTrue, Lists, Saves, Writes
<1>11. Dropping(calls) => Dropping(calls')
  BY <1>1, <1>8 DEF Dropping
<1>12. calls[c].op.drops = "after" => Dropping(calls')
  BY <1>3, <1>4, <1>6 DEF Dropping
<1>13. Made(row)
  BY <1>3, <1>4 DEF Made, Writes
<1> QED
  BY <1>4, <1>6, <1>8, <1>9, <1>10, <1>11, <1>12, <1>13

LEMMA CommitTruth ==
    ASSUME TrueInv, PanelInv', page # NoPage, NEW c \in Call, Commit(c)
    PROVE  TrueInv'
<1> DEFINE o  == calls[c].op
<1>1. /\ Writing(c)
      /\ \/ calls[c].at = "sent" /\ o.drops # "before" /\ Accepted(calls[c])
         \/ calls[c].at = "dropped"
      /\ rows' = Written(calls[c])
      /\ cache' = IF o.drops = "before" THEN Outlived(rows') ELSE cache
      /\ UNCHANGED <<page, query, shown, dialog, busy, used, newest, crossed>>
  BY DEF Commit
<1>2. /\ calls[c] # NoCall /\ o \in This.ops /\ calls[c].row \in Row /\ calls[c].kind = "write"
      /\ CallTrue(This, calls[c], rows, Told) /\ HandlersFit(This)
  BY <1>1, WriteFacts, TrueFacts
<1>3. /\ \A d \in Call : Steady(calls[d], calls'[d])
      /\ \A d \in Call : CallTrue(This, calls'[d], rows', Told')
      /\ Dropping(calls) => Dropping(calls')
      /\ o.drops = "after" => Dropping(calls')
      /\ Made(calls'[c]) /\ calls'[c].op = o /\ calls'[c].row = calls[c].row
  BY CommitCalls
<1>4. rows \in [Row -> RowRec] /\ shown.list.rows \in [Row -> RowRec] /\ Fits(This)
  BY TrueFacts, StateOf DEF Shows, List
<1>5. ASSUME Loaded(This), HasForm(This)
      PROVE  /\ calls[c].at = "sent" /\ Accepted(calls[c])
             /\ o.via = "form" => o.does = "put" /\ calls[c].row = 1
             /\ o.via # "form" => o.does = "none"
  <2>1. o.drops # "before" /\ o.via \in {"form", "top"}
    BY <1>2, <1>4, <1>5 DEF HandlersFit, Fits, HasForm
  <2>2. calls[c].at = "sent" /\ Accepted(calls[c])
    BY <1>1, <1>2, <2>1 DEF CallTrue, Writes
  <2>3. o.via = "form" => o.does = "put" /\ calls[c].row = 1
    BY <1>2, <1>5 DEF HandlersFit, CallTrue, Saves, Writes
  <2>4. o.via = "top" => o.does = "none"
    BY <1>2, <1>5 DEF HandlersFit
  <2> QED
    BY <2>1, <2>2, <2>3, <2>4
<1>6. /\ o.does = "none" => rows' = rows
      /\ o.does \in {"put", "decide"} =>
            \A r \in Row : /\ rows'[r].there = rows[r].there
                           /\ r # calls[c].row => rows'[r] = rows[r]
      /\ o.does = "all" => \A r \in Row : rows'[r].there = rows[r].there
  BY <1>1, <1>2, <1>4, WhatIsWritten
<1> HIDE DEF o
<1>7. RowFits(This, rows')
  <2> SUFFICES ASSUME Loaded(This), HasForm(This), ~rows'[1].there
               PROVE  rows'[1].val = {}
    BY DEF RowFits
  <2>1. CASE o.via = "form"
    <3>1. rows[1].there
      BY <1>5, <2>1 DEF Accepted, o
    <3>2. rows'[1].there = rows[1].there
      BY <1>5, <1>6, <2>1 DEF Row
    <3> QED
      BY <3>1, <3>2
  <2>2. CASE o.via # "form"
    BY <1>5, <1>6, <2>2, TrueFacts DEF RowFits
  <2> QED
    BY <2>1, <2>2
<1>8. rows' = rows => Told' = Told
  BY <1>1, SameTold
<1>9. CacheTrue(This, cache', Told', calls')
  <2>1. CASE o.drops = "after"
    BY <1>1, <1>3, <2>1, TrueFacts DEF CacheTrue
  <2>2. CASE o.drops = "before"
    <3> DEFINE table == rows'
               told == Told'
               cch == cache'
               cs == calls'
    <3>1. /\ table = rows => told = Told
          /\ cch \in {Outlived(table), {}}
          /\ Dropping(calls) => Dropping(cs)
      BY <1>1, <1>3, <1>8, <2>2
    <3> HIDE DEF table, told, cch, cs
    <3>2. CacheTrue(This, cch, told, cs)
      BY <3>1, CacheAged
    <3> QED
      BY <3>2 DEF told, cch, cs
  <2>3. CASE o.drops \notin {"after", "before"}
    <3>1. ~This.asks.cached
      BY <1>2, <2>3 DEF HandlersFit
    <3> QED
      BY <1>1, <2>3, <3>1, TrueFacts DEF CacheTrue
  <2> QED
    BY <2>1, <2>2, <2>3
<1>10. LoadTrue(This, shown'.loading, calls')
  BY <1>1, <1>3, LoadSteady, TrueFacts
<1>11. newest' # 0 => Lists(calls'[newest'])
  BY <1>1, <1>3, TrueFacts DEF Steady
<1>12. ASSUME Loaded(This), ~crossed', newest' = 0
       PROVE  PageTrue(This, rows', Told', Asked(query)', shown'.list, dialog', calls')
  <2>1. PageTrue(This, rows, Told, Asked(query), shown.list, dialog, calls)
    BY <1>1, <1>12, TrueFacts
  <2>2. \A d \in Call : Lasts(calls[d], calls'[d])
    BY <1>3 DEF Steady
  <2>3. PageTrue(This, rows, Told, Asked(query), shown.list, dialog, calls')
    BY <2>1, <2>2, PageSteady
  <2>4. Reloads(o) => Awaited(calls')
    BY <1>3 DEF Awaited, Coming
  <2>5. ~HasForm(This) /\ ~Patches(This) => ListTrue(Told', Asked(query)', shown'.list, calls')
    BY <1>2, <1>12, <2>4 DEF HandlersFit, ListTrue
  <2>6. Patches(This) => PatchTrue(rows', shown'.list, calls')
    <3> SUFFICES ASSUME Patches(This), ~Awaited(calls'), NEW r \in Row, shown.list.rows[r].there
                 PROVE  /\ rows'[r].there
                        /\ shown.list.rows[r] = rows'[r] \/ \E d \in Call : Touches(calls'[d], r)
      BY <1>1 DEF PatchTrue
    <3>1. /\ rows[r].there
          /\ shown.list.rows[r] = rows[r] \/ \E d \in Call : Touches(calls'[d], r)
      BY <2>3 DEF PageTrue, PatchTrue
    <3>2. \/ o.does \in {"put", "decide", "all"} /\ o.after = "patch"
          \/ o.does = "none" /\ o.after = "none"
      BY <1>2, <1>12, <2>4 DEF HandlersFit
    <3>3. rows'[r].there
      BY <1>6, <3>1, <3>2
    <3>4. rows'[r] = rows[r] \/ Touches(calls'[c], r)
      BY <1>3, <1>6, <3>2 DEF Touches
    <3> QED
      BY <3>1, <3>3, <3>4
  <2>7. HasForm(This) => FormTrue(This, rows', dialog', calls')
    <3> SUFFICES ASSUME HasForm(This)
                 PROVE  FormTrue(This, rows', dialog', calls')
      OBVIOUS
    <3>1. FormTrue(This, rows, dialog, calls')
      BY <2>3 DEF PageTrue
    <3>2. CASE o.via = "form"
      <4>1. Saves(calls'[c])
        BY <1>3, <3>2 DEF Saves, Made
      <4> QED
        BY <1>1, <3>1, <4>1 DEF FormTrue
    <3>3. CASE o.via # "form"
      BY <1>1, <1>5, <1>6, <1>12, <3>1, <3>3
    <3> QED
      BY <3>2, <3>3
  <2> QED
    BY <2>5, <2>6, <2>7 DEF PageTrue
<1> QED
  BY <1>1, <1>3, <1>7, <1>9, <1>10, <1>11, <1>12, TrueAfter

(* What the page makes of its rows when a write is answered. *)
LEMMA PatchedIs ==
    ASSUME PanelInv, NEW call, call.row \in Row, call.val \in Content
    PROVE  /\ call.op.does # "all" /\ call.op.after \in {"none", "append"} =>
                 Patched(call) = shown.list.rows
           /\ call.op.after = "patch" => \A r \in Row :
                 /\ Patched(call)[r].there => shown.list.rows[r].there
                 /\ Patched(call)[r] \in RowRec
                 /\ call.op.does # "all" /\ call.row # r => Patched(call)[r] = shown.list.rows[r]
                 /\ Patched(call)[r].there =>
                       /\ call.op.does = "all" => Patched(call)[r].val = {1}
                       /\ call.op.does # "all" /\ call.row = r => Patched(call)[r].val = call.val
<1> DEFINE mine == shown.list.rows
<1>1. mine \in [Row -> RowRec]
  BY StateOf DEF Shows, List
<1>2. call.op.does # "all" /\ call.op.after \in {"none", "append"} => Patched(call) = mine
  BY DEF Patched
<1>3. ASSUME call.op.after = "patch", NEW r \in Row
      PROVE  /\ Patched(call)[r].there => mine[r].there
             /\ Patched(call)[r] \in RowRec
             /\ call.op.does # "all" /\ call.row # r => Patched(call)[r] = mine[r]
             /\ Patched(call)[r].there =>
                   /\ call.op.does = "all" => Patched(call)[r].val = {1}
                   /\ call.op.does # "all" /\ call.row = r => Patched(call)[r].val = call.val
  <2>1. Patched(call) \in [Row -> RowRec]
    BY <1>3, PatchedRows
  <2>2. CASE call.op.does = "all"
    <3>1. Patched(call) = [s \in Row |-> IF mine[s].there THEN [mine[s] EXCEPT !.val = {1}]
                                         ELSE Nothing]
      BY <2>2 DEF Patched
    <3> HIDE DEF mine
    <3>2. Patched(call)[r] = IF mine[r].there THEN [mine[r] EXCEPT !.val = {1}] ELSE Nothing
      BY <3>1
    <3>3. ~Nothing.there
      BY DEF Nothing
    <3> QED
      BY <1>1, <2>1, <2>2, <3>2, <3>3 DEF RowRec
  <2>3. CASE call.op.does # "all" /\ mine[call.row].there
    <3>1. Patched(call) = [mine EXCEPT ![call.row].val = call.val]
      BY <1>3, <2>3 DEF Patched
    <3> HIDE DEF mine
    <3>2. r # call.row => Patched(call)[r] = mine[r]
      BY <1>1, <3>1
    <3>3. r = call.row => Patched(call)[r].val = call.val /\ mine[r].there
      BY <1>1, <2>3, <3>1 DEF RowRec
    <3> QED
      BY <2>1, <2>3, <3>2, <3>3
  <2>4. CASE call.op.does # "all" /\ ~mine[call.row].there
    <3>1. Patched(call) = mine
      BY <1>3, <2>4 DEF Patched
    <3> QED
      BY <2>1, <2>4, <3>1
  <2> QED
    BY <2>2, <2>3, <2>4
<1> QED
  BY <1>2, <1>3

(* Rows are equal when they are there and have the same content. *)
LEMMA SameRow ==
    \A a, b \in RowRec : a.there = b.there /\ a.val = b.val => a = b
BY DEF RowRec

(* A form whose save is answered: it was the only one.                     *)
LEMMA FormFinish ==
    ASSUME TrueInv, page # NoPage, NEW c \in Call, Finish(c), Loaded(This), HasForm(This),
           ~Reloads(calls[c].op), ~calls[c].late, ~crossed, newest = 0,
           calls' = [calls EXCEPT ![c] = NoCall]
    PROVE  FormTrue(This, rows, dialog', calls')
<1> DEFINE o == calls[c].op
<1>1. /\ Writing(c) /\ calls[c].at = "done" /\ calls[c] # NoCall
      /\ o \in This.ops /\ CallTrue(This, calls[c], rows, Told)
  BY WriteFacts DEF Finish
<1>2. /\ o.via \in {"form", "top"} /\ o.shuts = "never"
      /\ o.via = "form" => o.does = "put" /\ ~Renews(This)
      /\ o.via = "top" => o.after \in {"none", "append"}
  BY <1>1, TrueFacts, StateOf DEF HandlersFit, Fits, HasForm, Renews
<1>3. /\ o.after = "append" => dialog'.edited
      /\ o.after = "adopt" => dialog'.val = calls[c].val
      /\ o.after \notin {"append", "adopt"} => dialog' = dialog
  <2>1. o.after = "append" => dialog' = [dialog EXCEPT !.val = calls[c].val \cup {2}, !.edited = TRUE]
    BY DEF Finish
  <2>2. o.after = "adopt" => dialog' = [dialog EXCEPT !.val = calls[c].val, !.edited = FALSE]
    BY DEF Finish
  <2>3. o.after \notin {"append", "adopt"} => dialog' = dialog
    BY <1>2 DEF Finish
  <2> QED
    BY <2>1, <2>2, <2>3, TrueFacts, StateOf DEF Dialogs
<1>4. calls'[c] = NoCall /\ \A d \in Call \ {c} : calls'[d] = calls[d]
  BY TrueFacts
<1>5. ~Saves(NoCall)
  BY DEF Saves, Writes
<1>6. FormTrue(This, rows, dialog, calls)
  BY TrueFacts DEF PageTrue
<1>7. CASE o.via = "form"
  <2>1. Saves(calls[c]) /\ Made(calls[c])
    BY <1>1, <1>7 DEF Saves, Made, Writes, Writing
  <2>2. rows[1].val = calls[c].val
    BY <1>1, <1>2, <1>7, <2>1 DEF CallTrue, Leaves
  <2>3. \A d \in Call : ~Saves(calls'[d])
    BY <1>2, <1>4, <1>5, <1>6, <1>7, <2>1 DEF FormTrue
  <2>4. ~dialog.edited => dialog.val = calls[c].val
    BY <1>2, <1>6, <1>7, <2>1 DEF FormTrue
  <2> QED
    BY <1>3, <2>2, <2>3, <2>4 DEF FormTrue
<1>8. CASE o.via = "top"
  <2>1. ~Saves(calls[c])
    BY <1>8 DEF Saves
  <2>2. \A d \in Call : Saves(calls'[d]) <=> Saves(calls[d])
    BY <1>4, <1>5, <2>1
  <2>3. \A d \in Call : Saves(calls[d]) => calls'[d] = calls[d]
    BY <1>4, <2>1
  <2>4. dialog' = dialog \/ dialog'.edited
    BY <1>2, <1>3, <1>8
  <2> QED
    BY <1>6, <2>2, <2>3, <2>4 DEF FormTrue
<1> QED
  BY <1>2, <1>7, <1>8

(* The rows of a page that patches them, after the answer to a write.      *)
LEMMA PatchFinish ==
    ASSUME TrueInv, page # NoPage, NEW c \in Call, Finish(c), Loaded(This), Patches(This),
           ~Reloads(calls[c].op), ~calls[c].late, ~crossed, newest = 0,
           calls' = [calls EXCEPT ![c] = NoCall], NEW list, list.rows = Patched(calls[c])
    PROVE  PatchTrue(rows, list, calls')
<1> DEFINE o == calls[c].op
           mine == shown.list.rows
<1>1. /\ Writing(c) /\ calls[c].at = "done" /\ calls[c] # NoCall /\ calls[c].row \in Row
      /\ o \in This.ops /\ CallTrue(This, calls[c], rows, Told) /\ calls[c].val \in Content
  BY WriteFacts, WriteCallAt, TrueFacts DEF Finish
<1>2. \/ o.does \in {"put", "decide", "all"} /\ o.after = "patch"
      \/ o.does = "none" /\ o.after = "none"
  BY <1>1, TrueFacts DEF HandlersFit
<1>3. calls'[c] = NoCall /\ \A d \in Call \ {c} : calls'[d] = calls[d]
  BY TrueFacts
<1>4. PatchTrue(rows, shown.list, calls)
  BY TrueFacts DEF PageTrue
<1>5. Awaited(calls) => Awaited(calls')
  <2>1. ~Coming(calls[c])
    BY <1>1 DEF Coming, Lists, Writing
  <2> QED
    BY <1>3, <2>1 DEF Awaited
<1> SUFFICES ASSUME ~Awaited(calls), NEW r \in Row, list.rows[r].there
             PROVE  /\ rows[r].there
                    /\ list.rows[r] = rows[r] \/ \E d \in Call : Touches(calls'[d], r)
  BY <1>5 DEF PatchTrue
<1>6. mine[r].there =>
        /\ rows[r].there
        /\ mine[r] = rows[r] \/ \E d \in Call : Touches(calls[d], r)
  BY <1>4 DEF PatchTrue
<1>7. CASE Touches(calls[c], r)
  <2>1. o.does \in {"put", "decide", "all"} /\ o.after = "patch" /\ (o.does = "all" \/ calls[c].row = r)
    BY <1>2, <1>7 DEF Touches
  <2>2. mine[r].there /\ list.rows[r] \in RowRec /\ rows[r] \in RowRec
    BY <1>1, <2>1, PatchedIs, TrueFacts, StateOf
  <2>3. list.rows[r].val = IF o.does = "all" THEN {1} ELSE calls[c].val
    <3> DEFINE call == calls[c]
               kept == Patched(call)
    <3>1. call.row \in Row /\ call.val \in Content /\ PanelInv
      BY <1>1, TrueFacts
    <3>2. kept[r].there /\ list.rows = kept
      OBVIOUS
    <3>3. call.op.after = "patch" /\ (call.op.does = "all" \/ call.row = r)
      BY <2>1
    <3> HIDE DEF call
    <3>4. /\ call.op.does = "all" => kept[r].val = {1}
          /\ call.op.does # "all" => kept[r].val = call.val
      BY <3>1, <3>2, <3>3, PatchedIs
    <3> QED
      BY <3>2, <3>4 DEF call
  <2>4. rows[r].there
    BY <1>6, <2>2
  <2>5. Leaves(calls[c], rows)
    BY <1>1, <1>7 DEF CallTrue, Touches
  <2>6. rows[r].val = IF o.does = "all" THEN {1} ELSE calls[c].val
    BY <2>1, <2>4, <2>5 DEF Leaves
  <2>7. list.rows[r] = rows[r]
    <3>1. list.rows[r].there = rows[r].there
      BY <2>2, <2>4 DEF RowRec
    <3> QED
      BY <2>2, <2>3, <2>6, <3>1, SameRow
  <2> QED
    BY <2>4, <2>7
<1>8. CASE ~Touches(calls[c], r)
  <2>1. ~(o.after = "patch" /\ (o.does = "all" \/ calls[c].row = r))
    BY <1>1, <1>8 DEF Touches, Made, Writes, Writing
  <2>2. list.rows[r] = mine[r]
    BY <1>1, <1>2, <2>1, PatchedIs, TrueFacts
  <2> QED
    BY <1>3, <1>6, <1>8, <2>2
<1> QED
  BY <1>7, <1>8

(* The page patches its row, or asks for its list again, now or later.     *)
LEMMA FinishTruth ==
    ASSUME TrueInv, PanelInv', page # NoPage, NEW c \in Call, Finish(c)
    PROVE  TrueInv'
<1> DEFINE o == calls[c].op
           timer == [ListCall(calls[c].key, "none") EXCEPT !.at = "timer"]
           row == IF o.after = "later" THEN timer
                  ELSE IF Reloads(o)
                  THEN ListCall(calls[c].key, IF o.after \in {"await", "cut"} THEN o.flag ELSE "none")
                  ELSE NoCall
           list == [shown.list EXCEPT !.rows = Patched(calls[c]),
                               !.total = IF o.after = "cut" /\ @ > 0 THEN @ - 1 ELSE @]
<1>1. /\ Writing(c) /\ calls[c].at = "done"
      /\ calls' = [calls EXCEPT ![c] = row]
      /\ newest' = IF Reloads(o) /\ o.after # "later" THEN c ELSE newest
      /\ crossed' = (crossed \/ (~Reloads(o) /\ calls[c].late))
      /\ shown'.list = list
      /\ UNCHANGED <<page, rows, cache, query, used>>
  BY DEF Finish
<1>2. list.rows = Patched(calls[c])
  BY TrueFacts, StateOf DEF Shows, List
<1>3. /\ calls[c] # NoCall /\ calls[c].kind = "write" /\ o \in This.ops /\ HandlersFit(This)
  BY <1>1, WriteFacts, TrueFacts
<1>4. /\ ~Reloads(o) => row = NoCall
      /\ Reloads(o) => /\ row # NoCall /\ row.kind = "list" /\ row.at \in {"sent", "timer"}
                       /\ o.after = "later" => row.at = "timer"
  BY DEF ListCall, NoCall, Reloads
<1> HIDE DEF o, row, list
<1>5. /\ Told' = Told /\ Asked(query)' = Asked(query)
      /\ calls'[c] = row /\ \A d \in Call \ {c} : calls'[d] = calls[d]
  BY <1>1, SameTold, TrueFacts
<1>6. \A d \in Call : CallTrue(This, calls'[d], rows', Told')
  <2>1. CallTrue(This, row, rows, Told)
    BY <1>4 DEF CallTrue, Lists, Saves, Made, Writes
  <2> QED
    BY <1>1, <1>5, <2>1, TrueFacts
<1>7. CacheTrue(This, cache', Told', calls')
  <2>1. Dropping(calls) => Dropping(calls')
    BY <1>1, <1>5 DEF Dropping
  <2> QED
    BY <1>1, <1>5, <2>1, TrueFacts DEF CacheTrue
<1>8. LoadTrue(This, shown'.loading, calls')
  <2> SUFFICES ASSUME Loaded(This), HasForm(This), ~Renews(This)
               PROVE  \A d \in Call : ~Lists(calls'[d])
    BY DEF LoadTrue
  <2>1. ~Reloads(o)
    BY <1>3 DEF Renews
  <2>2. \A d \in Call \ {c} : ~Lists(calls[d])
    BY <1>3, TrueFacts DEF LoadTrue
  <2> QED
    BY <1>4, <1>5, <2>1, <2>2 DEF Lists
<1>9. newest' # 0 => Lists(calls'[newest'])
  <2>1. CASE Reloads(o) /\ o.after # "later"
    BY <1>1, <1>4, <1>5, <2>1 DEF Lists
  <2>2. CASE ~(Reloads(o) /\ o.after # "later")
    BY <1>1, <1>3, <1>5, <2>2, TrueFacts DEF Lists
  <2> QED
    BY <2>1, <2>2
<1>10. ASSUME Loaded(This), ~crossed', newest' = 0
       PROVE  PageTrue(This, rows', Told', Asked(query)', shown'.list, dialog', calls')
  <2>1. ~crossed /\ newest = 0 /\ (Reloads(o) => o.after = "later")
    BY <1>1, <1>10, TrueFacts
  <2>2. CASE o.after = "later"
    <3>1. ~HasForm(This)
      BY <1>3, <1>10, <2>2 DEF HandlersFit
    <3>2. Awaited(calls')
      <4>1. Coming(calls'[c])
        BY <1>4, <1>5, <2>2 DEF Coming, Lists, Reloads
      <4> QED
        BY <4>1 DEF Awaited
    <3> QED
      BY <3>1, <3>2 DEF PageTrue, ListTrue, PatchTrue
  <2>3. CASE o.after # "later"
    <3>1. ~Reloads(o) /\ ~calls[c].late /\ row = NoCall
      BY <1>1, <1>4, <1>10, <2>1, <2>3
    <3>2. calls' = [calls EXCEPT ![c] = NoCall]
      BY <1>1, <3>1
    <3>3. Patches(This) => PatchTrue(rows, list, calls')
      BY <1>2, <1>10, <2>1, <3>1, <3>2, PatchFinish DEF o
    <3>4. HasForm(This) => FormTrue(This, rows, dialog', calls')
      BY <1>10, <2>1, <3>1, <3>2, FormFinish DEF o
    <3>5. HasForm(This) \/ Patches(This)
      BY <1>3, <1>10, <3>1 DEF HandlersFit
    <3> QED
      BY <1>1, <3>3, <3>4, <3>5 DEF PageTrue
  <2> QED
    BY <2>2, <2>3
<1> QED
  BY <1>1, <1>6, <1>7, <1>8, <1>9, <1>10, TrueFacts, TrueAfter

LEMMA ReloadTruth ==
    ASSUME TrueInv, PanelInv', page # NoPage, NEW c \in Call, Reload(c)
    PROVE  TrueInv'
<1> DEFINE row == [calls[c] EXCEPT !.at = "sent"]
<1>1. /\ Listing(c) /\ calls[c].at = "timer"
      /\ shown' = [shown EXCEPT !.loading = TRUE]
      /\ newest' = c
      /\ UNCHANGED <<page, rows, cache, query, dialog, busy, used, crossed>>
  BY DEF Reload
<1>2. calls[c] \in ListRow /\ calls[c] # NoCall
  BY <1>1, TrueFacts, ListCallAt
<1>3. row.kind = "list" /\ row.at = "sent"
  BY <1>2 DEF ListRow
<1>4. row # NoCall
  BY <1>3 DEF NoCall
<1>5. calls' = [calls EXCEPT ![c] = row]
  BY TrueFacts DEF Reload
<1> HIDE DEF row
<1>6. /\ Told' = Told
      /\ calls'[c] = row /\ \A d \in Call \ {c} : calls'[d] = calls[d]
  BY <1>1, <1>5, SameTold, TrueFacts
<1>7. \A d \in Call : CallTrue(This, calls'[d], rows', Told')
  <2>1. CallTrue(This, row, rows, Told)
    BY <1>3 DEF CallTrue, Lists, Saves, Made, Writes
  <2> QED
    BY <1>1, <1>6, <2>1, TrueFacts
<1>8. CacheTrue(This, cache', Told', calls')
  <2>1. Dropping(calls) => Dropping(calls')
    BY <1>1, <1>6 DEF Dropping
  <2> QED
    BY <1>1, <1>6, <2>1, TrueFacts DEF CacheTrue
<1>9. LoadTrue(This, shown'.loading, calls')
  <2> SUFFICES ASSUME Loaded(This), HasForm(This), ~Renews(This)
               PROVE  /\ \A d \in Call : calls'[d] # NoCall => d = c
                      /\ shown'.loading
    BY DEF LoadTrue, Lists
  <2>1. \A d \in Call : calls[d] # NoCall => d = c
    BY <1>1, <1>2, TrueFacts DEF LoadTrue, Lists, Listing
  <2>2. shown'.loading
    BY <1>1, TrueFacts, StateOf DEF Shows
  <2> QED
    BY <1>6, <2>1, <2>2
<1>10. newest' # 0 /\ Lists(calls'[newest'])
  BY <1>1, <1>3, <1>4, <1>6, TrueFacts DEF Lists
<1> QED
  BY <1>1, <1>7, <1>8, <1>9, <1>10, TrueFacts, TrueAfter

LEMMA FailsTruth ==
    ASSUME TrueInv, PanelInv', page # NoPage, NEW c \in Call, Fails(c)
    PROVE  TrueInv'
<1>1. /\ Writing(c) /\ calls[c].at \in {"sent", "refused", "done"}
      /\ calls' = [calls EXCEPT ![c] = NoCall]
      /\ crossed' = (crossed \/ calls[c].at = "done" \/ calls[c].op \in Forms)
      /\ UNCHANGED <<page, rows, cache, query, shown, dialog, used, newest>>
  BY DEF Fails
<1>2. /\ calls'[c] = NoCall /\ \A d \in Call \ {c} : calls'[d] = calls[d]
      /\ \A d \in Call : CallTrue(This, calls'[d], rows', Told')
      /\ CacheTrue(This, cache', Told', calls')
      /\ newest' # 0 => Lists(calls'[newest'])
  BY <1>1, Gone
<1>3. LoadTrue(This, shown'.loading, calls')
  BY <1>1, <1>2, TrueFacts DEF LoadTrue, Lists
<1>4. ASSUME Loaded(This), ~crossed', newest' = 0
      PROVE  PageTrue(This, rows', Told', Asked(query)', shown'.list, dialog', calls')
  <2>1. ~crossed /\ newest = 0 /\ calls[c].at # "done" /\ calls[c].op \notin Forms
    BY <1>1, <1>4
  <2>2. /\ calls[c].op \in Ops /\ calls[c].kind = "write" /\ calls[c].at \in {"sent", "refused"}
    BY <1>1, <2>1, WriteFacts DEF Ops
  <2>3. ~Saves(calls[c]) /\ ~Coming(calls[c]) /\ \A r \in Row : ~Touches(calls[c], r)
    BY <2>1, <2>2 DEF Saves, Writes, Coming, Lists, Made, Touches, Forms
  <2> QED
    BY <1>1, <1>4, <2>1, <2>3, PageGone
<1> QED
  BY <1>1, <1>2, <1>3, <1>4, TrueFacts, TrueAfter

-----------------------------------------------------------------------------
(* The surroundings, and the specification *)

(* Others write: what was read before is late, and nothing is promised     *)
(* until a list that is as new was asked for and shown.                    *)
LEMMA OtherTruth ==
    ASSUME TrueInv, PanelInv', page # NoPage, NEW r \in Row, Other(r)
    PROVE  TrueInv'
<1> DEFINE table == rows'
           told == Told'
           cch == cache'
           cs == calls'
<1>1. PICK row \in {Nothing, [there |-> TRUE, val |-> {1} \ rows[r].val]} :
        rows' = [rows EXCEPT ![r] = row]
  BY DEF Other
<1>2. /\ crossed' = TRUE /\ cch \in {Outlived(table), {}} /\ cs = Aged(table)
      /\ UNCHANGED <<page, query, shown, dialog, busy, newest>>
  BY DEF Other
<1>3. rows \in [Row -> RowRec]
  BY TrueFacts, StateOf
<1>4. RowFits(This, rows')
  <2>1. 1 \in Row
    BY DEF Row
  <2>2. rows'[1] = rows[1] \/ rows'[1] = Nothing \/ rows'[1].there
    BY <1>1, <1>3, <2>1
  <2> QED
    BY <2>2, TrueFacts DEF RowFits, Nothing
<1>5. table = rows => told = Told
  BY <1>2, SameTold
<1> HIDE DEF table, told, cch, cs
<1>6. \A d \in Call : /\ Steady(calls[d], cs[d])
                      /\ CallTrue(This, cs[d], table, told)
                      /\ calls[d] # NoCall => cs[d].at = calls[d].at
  BY <1>2, <1>5, AgedTrue
<1>7. Dropping(calls) => Dropping(cs)
  BY <1>6 DEF Dropping, Steady
<1>8. CacheTrue(This, cch, told, cs)
  <2>1. cch \in {Outlived(table), {}}
    BY <1>2
  <2> QED
    BY <1>5, <1>7, <2>1, CacheAged
<1>9. LoadTrue(This, shown.loading, cs)
  BY <1>6, LoadSteady, TrueFacts
<1>10. newest # 0 => Lists(cs[newest])
  BY <1>6, TrueFacts DEF Steady
<1> QED
  BY <1>2, <1>4, <1>6, <1>8, <1>9, <1>10, TrueAfter DEF table, told, cch, cs

LEMMA ExpireTruth ==
    ASSUME TrueInv, PanelInv', page # NoPage, Expire
    PROVE  TrueInv'
<1>1. cache' = {} /\ UNCHANGED <<page, rows, query, shown, dialog, busy, calls, used, newest, crossed>>
  BY DEF Expire
<1>2. Told' = Told /\ Asked(query)' = Asked(query)
  BY <1>1, SameTold
<1>3. CacheTrue(This, cache', Told', calls')
  BY <1>1 DEF CacheTrue
<1> QED
  BY <1>1, <1>2, <1>3, TrueFacts, TrueAfter

LEMMA TrueInit == Init => TrueInv
<1> SUFFICES ASSUME Init
             PROVE  TrueInv
  OBVIOUS
<1>1. PanelInv
  BY PanelInit
<1>2. /\ ~Loaded(This) /\ cache = {} /\ query = Blankly /\ newest = 0
      /\ \A c \in Call : calls[c] = NoCall
  BY DEF Init, Loaded, This, Pages, NoPage, Page, Blank, Asks, Blankly
<1>3. CallsTrue(This, calls, rows, Told)
  BY <1>2 DEF CallsTrue, CallTrue, Lists, Saves, Made, Writes
<1> QED
  BY <1>1, <1>2, <1>3 DEF TrueInv, CacheTrue, LoadTrue, RowFits, NewestFits

(* What a page asks for first. *)
LEMMA FirstKey ==
    ASSUME NEW b \in BOOLEAN
    PROVE  [NoKey EXCEPT !.open = b] = [name |-> FALSE, open |-> b, from |-> 0]
<1> DEFINE k == [NoKey EXCEPT !.open = b]
           m == [name |-> FALSE, open |-> b, from |-> 0]
<1>1. \A x, y \in Key : x.name = y.name /\ x.open = y.open /\ x.from = y.from => x = y
  BY DEF Key
<1>2. 0 \in 0..(MaxRow - 1)
  OBVIOUS
<1>3. k \in Key /\ m \in Key
  BY <1>2 DEF NoKey, Key
<1>4. k.name = m.name /\ k.open = m.open /\ k.from = m.from
  BY DEF NoKey
<1> HIDE DEF k, m
<1>5. k = m
  BY <1>1, <1>3, <1>4
<1> QED
  BY <1>5 DEF k, m

(* A page that loads begins with its list asked for; what it shows is not  *)
(* promised before that list was shown.                                    *)
LEMMA OpenPageTruth ==
    ASSUME TrueInv, PanelInv', OpenPage
    PROVE  TrueInv'
<1>1. PICK name \in DOMAIN Pages \ {NoPage} :
        LET p == Pages[name] IN
         /\ page' = name
         /\ rows' \in Tables(p)
         /\ shown' = [list |-> Empty, loading |-> p.asks.error # "blank"]
         /\ calls' = [c \in Call |->
                         IF p.asks.error # "blank" /\ \A d \in Call : c <= d
                         THEN ListCall([NoKey EXCEPT !.open = p.filter.by = "fixed"], "none")
                         ELSE NoCall]
         /\ newest' = IF p.asks.error = "blank" THEN 0
                      ELSE CHOOSE c \in Call : \A d \in Call : c <= d
         /\ dialog' = IF \E o \in p.ops : o.via = "form"
                      THEN [Closed EXCEPT !.op = CHOOSE o \in p.ops : o.via = "form", !.row = 1]
                      ELSE Closed
  BY Zenon DEF OpenPage
<1> DEFINE p == Pages[name]
           first == ListCall([NoKey EXCEPT !.open = p.filter.by = "fixed"], "none")
<1>2. This' = p
  BY <1>1 DEF This
<1>3. page = NoPage /\ UNCHANGED <<cache, query, busy, used, crossed>>
  BY DEF OpenPage
<1>4. cache = {} /\ query = Blankly
  <2>1. ~This.asks.cached
    BY <1>3 DEF This, Pages, NoPage, Page, Blank, Asks
  <2> QED
    BY <1>3, <2>1, TrueFacts DEF TrueInv
<1>5. first # NoCall /\ first.kind = "list" /\ first.at = "sent"
  BY DEF ListCall, NoCall
<1> HIDE DEF first
<1>6. \A c \in Call : calls'[c] = first \/ calls'[c] = NoCall
  BY <1>1 DEF first
<1>7. \A c \in Call : calls'[c] # NoCall => \A d \in Call : c <= d
  BY <1>1
<1>8. \A c, d \in Call : calls'[c] # NoCall /\ calls'[d] # NoCall => c = d
  <2>1. \A c, d \in Call : c <= d /\ d <= c => c = d
    OBVIOUS
  <2> QED
    BY <1>7, <2>1
<1>9. CallsTrue(p, calls', rows', Told')
  BY <1>5, <1>6 DEF CallsTrue, CallTrue, Lists, Saves, Made, Writes, NoCall
<1>10. CacheTrue(p, cache', Told', calls')
  BY <1>3, <1>4 DEF CacheTrue
<1>11. LoadTrue(p, shown'.loading, calls')
  BY <1>1, <1>8 DEF LoadTrue, Loaded, Lists
<1>12. RowFits(p, rows')
  <2> DEFINE S == {Nothing, [there |-> TRUE, val |-> {}], [there |-> TRUE, val |-> {1}]}
  <2>1. rows' \in [Row -> S]
    BY <1>1 DEF Tables
  <2>2. 1 \in Row
    BY DEF Row
  <2>3. \A s \in S : s.there \/ s.val = {}
    BY DEF Nothing
  <2> HIDE DEF S
  <2> QED
    BY <2>1, <2>2, <2>3 DEF RowFits
<1>13. CASE ~Loaded(p)
  <2>1. newest' = 0
    BY <1>1, <1>13 DEF Loaded
  <2>2. page' # NoPage
    BY <1>1
  <2> HIDE DEF p
  <2> QED
    BY <1>2, <1>9, <1>10, <1>11, <1>12, <1>13, <2>1, <2>2 DEF TrueInv, NewestFits
<1>14. CASE Loaded(p)
  <2>1. newest' \in Call /\ \A d \in Call : newest' <= d
    BY <1>1, <1>14, FirstCall DEF Loaded
  <2>2. newest' # 0
    BY <2>1
  <2>3. calls'[newest'] = first
    BY <1>1, <1>14, <2>1 DEF Loaded, first
  <2>4. Lists(calls'[newest'])
    BY <1>5, <2>3 DEF Lists
  <2>5. page' # NoPage
    BY <1>1
  <2> HIDE DEF p
  <2> QED
    BY <1>2, <1>9, <1>10, <1>11, <1>12, <2>2, <2>4, <2>5 DEF TrueInv, NewestFits
<1> QED
  BY <1>13, <1>14

LEMMA TrueNext ==
    ASSUME TrueInv, Next
    PROVE  TrueInv'
<1>1. PanelInv'
  BY PanelNext DEF TrueInv
<1>2. CASE OpenPage
  BY <1>1, <1>2, OpenPageTruth
<1>3. CASE page # NoPage /\ Working
  <2>1. CASE Browser
    BY <1>1, <1>3, <2>1, TypeTruth, SelectFilterTruth, TurnPageTruth, PressTruth, ConfirmTruth,
       DialogsTruth DEF Browser
  <2>2. CASE Debounce
    BY <1>1, <1>3, <2>2, DebounceTruth
  <2>3. CASE \E c \in Call : Waits(c)
    BY <1>1, <1>3, <2>3, ServeCachedTruth, ReadRowsTruth, StoreListTruth, ShowListTruth,
       ListFailsTruth, CommitTruth, DropCacheTruth, RefuseTruth, FinishTruth, ReloadTruth,
       FailsTruth DEF Waits
  <2>4. CASE \E r \in Row : Other(r)
    BY <1>1, <1>3, <2>4, OtherTruth
  <2>5. CASE Expire
    BY <1>1, <1>3, <2>5, ExpireTruth
  <2> QED
    BY <1>3, <2>1, <2>2, <2>3, <2>4, <2>5 DEF Working
<1> QED
  BY <1>2, <1>3 DEF Next

LEMMA TrueSame ==
    ASSUME TrueInv, UNCHANGED vars
    PROVE  TrueInv'
<1>1. PanelInv'
  BY PanelSame DEF TrueInv
<1>2. page' = page /\ UNCHANGED <<rows, cache, query, shown, dialog, calls, newest, crossed>>
  BY DEF vars
<1>3. This' = This /\ Asked(query)' = Asked(query) /\ Told' = Told
  BY <1>2, SameTold
<1> QED
  BY <1>1, <1>2, <1>3 DEF TrueInv

(* When nothing is in flight, nothing is to be asked, patched or saved.    *)
LEMMA TruthIsShown ==
    TrueInv => ShownIsTrue
<1> SUFFICES ASSUME TrueInv, Quiet, ~crossed, Loaded(This)
             PROVE  /\ IF Patching
                       THEN \A r \in Row : shown.list.rows[r].there => shown.list.rows[r] = rows[r]
                       ELSE Forms = {} => shown.list = Answer(Asked(query))
                    /\ Forms # {} /\ ~dialog.edited => dialog.val = rows[1].val
  BY DEF ShownIsTrue, Loaded
<1>1. \A c \in Call : calls[c] = NoCall
  BY DEF Quiet, InFlight, Free
<1>2. newest = 0
  BY <1>1, TrueFacts DEF Lists
<1>3. PageTrue(This, rows, Told, Asked(query), shown.list, dialog, calls)
  BY <1>2, TrueFacts
<1>4. /\ ~Awaited(calls)
      /\ \A c \in Call : ~Saves(calls[c]) /\ \A r \in Row : ~Touches(calls[c], r)
  BY <1>1 DEF Awaited, Coming, Lists, Made, Saves, Touches, Writes
<1>5. (Patching <=> Patches(This)) /\ (Forms # {} <=> HasForm(This))
  BY DEF Patching, Patches, Forms, HasForm, Ops
<1>6. Told[Asked(query)] = Answer(Asked(query))
  BY TrueFacts, ToldIs
<1>7. Patching => \A r \in Row : shown.list.rows[r].there => shown.list.rows[r] = rows[r]
  BY <1>3, <1>4, <1>5 DEF PageTrue, PatchTrue
<1>8. ~Patching /\ Forms = {} => shown.list = Answer(Asked(query))
  BY <1>3, <1>4, <1>5, <1>6 DEF PageTrue, ListTrue
<1>9. Forms # {} /\ ~dialog.edited => dialog.val = rows[1].val
  BY <1>3, <1>4, <1>5 DEF PageTrue, FormTrue
<1> QED
  BY <1>7, <1>8, <1>9

LEMMA PanelsHold == PortalSpec => []TrueInv
<1>1. PortalInit => TrueInv
  BY TrueInit DEF PortalInit
<1>2. TrueInv /\ [PortalNext]_portalVars => TrueInv'
  <2>1. TrueInv /\ PortalNext => TrueInv'
    BY TrueNext, TrueSame DEF PortalNext, SigningIn, LeaveForms, OnPage
  <2>2. TrueInv /\ UNCHANGED portalVars => TrueInv'
    BY TrueSame DEF portalVars
  <2> QED
    BY <2>1, <2>2
<1> QED
  BY <1>1, <1>2, PTL DEF PortalSpec

(* The tab, its forms and its pages keep their types, with any number of   *)
(* rows and of requests in flight.                                         *)
THEOREM PortalTypes == PortalSpec => []PortalTypeOK
<1>1. CodeInv /\ TrueInv => PortalTypeOK
  BY DEF CodeInv, TrueInv, PanelInv, PortalTypeOK
<1> QED
  BY <1>1, CodeHolds, PanelsHold, PTL

(* However many requests overlap, in whatever order the answers come and   *)
(* whatever is searched, filtered, cached, patched or saved meanwhile: a   *)
(* page with nothing in flight shows what the API would answer to its      *)
(* filters, and its form what is stored, unless one of the races that      *)
(* ShownIsTrue names was lost since the last list was shown (the loaders   *)
(* and handlers of frontend/app, invalidate_admin_list_cache).             *)
THEOREM NothingStale == PortalSpec => []ShownIsTrue
<1> QED
  BY TruthIsShown, PanelsHold, PTL

(* However often a form or a dialog is opened, closed and confirmed, its   *)
(* flag lets one request of it out at a time, and no flag stays set after  *)
(* its request (setSubmitting, setSaving, setUpdatingId in frontend/app).  *)
THEOREM OneRequestOfAForm == PortalSpec => []FlagsFollowCalls
<1>1. TrueInv => FlagsFollowCalls
  BY OneHolder DEF TrueInv
<1> QED
  BY <1>1, PanelsHold, PTL

=============================================================================
