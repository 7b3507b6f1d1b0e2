------------------------------- MODULE Portal -------------------------------
(***************************************************************************)
(* One tab: the forms of SignIn until somebody is signed in, then one of   *)
(* the pages of Panels (router.push in frontend/hooks/use-auth.ts).        *)
(***************************************************************************)
EXTENDS Panels, SignIn

portalVars == <<vars, signInVars>>

PortalInit == SignInInit /\ Init

SigningIn == form.page # "in" /\ SignInNext /\ UNCHANGED vars

(* router.push leaves the forms: nothing of them matters any more. *)
LeaveForms ==
    /\ form.page = "in"
    /\ tries.tab # 0
    /\ otp' = [code |-> 0, failures |-> 0, pause |-> FALSE]
    /\ account' = [there |-> TRUE, password |-> FALSE, active |-> TRUE]
    /\ requests' = [s \in Slot |-> NoAsk]
    /\ inbox' = {}
    /\ tries' = [tab |-> 0, rival |-> 0, codes |-> 0]
    /\ admits' = [taken |-> [c \in Code |-> 0], wrong |-> 0, early |-> FALSE]
    /\ UNCHANGED <<form, vars>>

(* The tab opens a page of the dashboard, and works there. *)
OnPage == form.page = "in" /\ tries.tab = 0 /\ Next /\ UNCHANGED signInVars

PortalNext == SigningIn \/ LeaveForms \/ OnPage

PortalSpec == PortalInit /\ [][PortalNext]_portalVars

-----------------------------------------------------------------------------
(* The type invariant of the tab. *)
PortalTypeOK == TypeOK /\ SignInTypeOK

=============================================================================
