------------------------------ MODULE AuthPage ------------------------------
(***************************************************************************)
(* The portal's login page (AuthApp.vue and the form in AuthCard.vue): a    *)
(* token first, then one sign-in at a time.  Registering takes the same     *)
(* path with another endpoint; the password fields are left out.            *)
(***************************************************************************)
EXTENDS Browser

VARIABLE auth

FreshAuth == [csrf |-> FALSE, loading |-> FALSE]

AuthToken(s) ==
    /\ Ready(s, "csrf")
    /\ page = "login"
    /\ auth' = [auth EXCEPT !.csrf = Succeeded(s)]
    /\ Settle(s)
    /\ UNCHANGED answerVars

SignIn ==
    /\ page = "login"
    /\ ~auth.loading
    /\ auth.csrf
    /\ Event
    /\ Send(Fetch("login", None))
    /\ auth' = [auth EXCEPT !.loading = TRUE]
    /\ UNCHANGED clickVars

(* Mutant: the form is not freed.                                           *)
SignInFailedStuck(s) ==
    /\ Ready(s, "login")
    /\ ~Succeeded(s)
    /\ Settle(s)
    /\ UNCHANGED <<answerVars, auth>>

(* A sign-in that did not succeed; the one that did loads the account page. *)
SignInFailed(s) ==
    /\ Ready(s, "login")
    /\ ~Succeeded(s)
    /\ auth' = [auth EXCEPT !.loading = FALSE]
    /\ Settle(s)
    /\ UNCHANGED answerVars

(* The session endpoints: a token is there for everybody, a sign-in replaces *)
(* the session, a sign-out with the token clears it; with the session's     *)
(* cookie the token may be gone.                                            *)
ServeSession(s) ==
    /\ net[s].status = "sent"
    /\ \/ /\ net[s].op = "csrf"
          /\ Answer(s, "ok", None)
          /\ UNCHANGED session
       \/ /\ net[s].op = "login"
          /\ \/ Answer(s, "ok", None) /\ session' = TRUE
             \/ Answer(s, "refused", None) /\ UNCHANGED session
       \/ /\ net[s].op = "logout"
          /\ \/ net[s].arg /\ Answer(s, "ok", None) /\ session' = FALSE
             \/ /\ ~net[s].arg \/ ~session
                /\ Answer(s, "refused", None)
                /\ UNCHANGED session
    /\ UNCHANGED <<online, page, events, auth>>
=============================================================================
