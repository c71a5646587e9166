------------------------------- MODULE Portal -------------------------------
(***************************************************************************)
(* The user's browser: the login page, the account page and the request     *)
(* page of the portal, one loaded at a time, over one session and one       *)
(* server.  portal/main.ts chooses the page by the path; going from one to  *)
(* another is a page load, which ends the first with whatever it still      *)
(* waits for, while its requests go on at the server.                       *)
(***************************************************************************)
EXTENDS RequestPage, AccountPage, AuthPage

vars == <<browserVars, serverVars, req, accountVars, auth>>

Pages == {"login", "account", "requests"}

(* The requests that the page p, opened on the section sec, starts with.    *)
OnMounted(p, sec) ==
    IF p = "account" THEN MountRequests(sec) ELSE <<Fetch("csrf", None)>>

(* portal/main.ts: the page p is loaded and everything of the last is gone. *)
Placed(n, starts) ==
    LET place == CHOOSE f \in [DOMAIN starts -> Free(n)] : IsInjective(f)
    IN  [s \in Slots |-> IF \E i \in DOMAIN starts : place[i] = s
                         THEN starts[CHOOSE i \in DOMAIN starts : place[i] = s]
                         ELSE n[s]]

Mount(p, sec) ==
    /\ Len(OnMounted(p, sec)) <= Cardinality(Free(Abandoned))
    /\ net' = Placed(Abandoned, OnMounted(p, sec))
    /\ page' = p
    /\ req' = FreshPage
    /\ acc' = IF p = "account" THEN FreshAccount(sec) ELSE NoAccount
    /\ auth' = FreshAuth

PortalInit ==
    /\ online = TRUE
    /\ session \in BOOLEAN
    /\ page = IF session THEN "requests" ELSE "login"
    /\ net = [[s \in Slots |-> Idle] EXCEPT ![1] = Fetch("csrf", None)]
    /\ events = 0
    /\ MediaInit
    /\ OwnInit
    /\ req = FreshPage
    /\ acc = NoAccount
    /\ auth = FreshAuth

(* A link, the address bar, the back button or a reload.  The service       *)
(* worker keeps no page, so that an offline browser cannot load one.        *)
Visit == /\ Event
         /\ online
         /\ \E p \in Pages, sec \in Sections :
               /\ p = "account" \/ sec = "overview"
               /\ Mount(p, sec)
         /\ UNCHANGED <<online, session, serverVars, serverOwn>>

(* AuthApp: the sign-in succeeded, the account page is loaded.              *)
SignedIn(s) ==
    /\ Ready(s, "login")
    /\ Succeeded(s)
    /\ Mount("account", "overview")
    /\ UNCHANGED <<online, session, events, serverVars, serverOwn>>

Deliver(s) ==
    \/ RequestDelivery(s) /\ UNCHANGED <<accountVars, auth>>
    \/ AccountDelivery(s) /\ UNCHANGED <<serverVars, req, auth>>
    \/ (AuthToken(s) \/ SignInFailed(s)) /\ UNCHANGED <<serverVars, req, accountVars>>
    \/ SignedIn(s)

Serve(s) ==
    \/ ServerStep(s) /\ UNCHANGED <<req, accountVars, auth>>
    \/ OwnServerStep(s) /\ UNCHANGED <<serverVars, req, auth>>
    \/ ServeSession(s) /\ UNCHANGED <<serverVars, req, accountVars>>

Click ==
    \/ RequestClick /\ UNCHANGED <<accountVars, auth>>
    \/ AccountClick /\ UNCHANGED <<serverVars, req, auth>>
    \/ SignIn /\ UNCHANGED <<serverVars, req, accountVars>>

(* What happens outside the user's control.                                 *)
Outside ==
    \/ AdminStep /\ UNCHANGED <<req, accountVars, auth>>
    \/ OtherDevice /\ UNCHANGED <<req, accountVars, auth>>
    \/ AdminChanges /\ UNCHANGED <<serverVars, req, auth>>
    \/ Tick /\ UNCHANGED <<serverVars, req, auth>>
    \/ (UpdateOnline \/ SessionEnds) /\ UNCHANGED <<serverVars, req, accountVars, auth>>
    \/ \E s \in Slots : (Denied(s) \/ Lost(s)) /\ UNCHANGED <<serverVars, req, accountVars, auth>>

PortalNext == \/ Visit \/ Click \/ Outside
              \/ \E s \in Slots : Serve(s) \/ Deliver(s)

PortalSpec == PortalInit /\ [][PortalNext]_vars

(***************************************************************************)
(* Properties.                                                              *)
(***************************************************************************)
PortalTypeOK ==
    /\ BrowserTypeOK
    /\ MediaTypeOK
    /\ RequestTypeOK
    /\ OwnTypeOK
    /\ page \in Pages
    /\ auth.loading <=> Owned({"login"}) # {}
=============================================================================
