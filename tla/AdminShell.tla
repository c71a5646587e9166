----------------------------- MODULE AdminShell -----------------------------
(***************************************************************************)
(* What all pages of the admin console share (AdminApp.vue): loading the    *)
(* page's resource, refreshing it, running one action at a time, signing    *)
(* out.  The component keeps a dozen busy flags; `ui.on' is the set of      *)
(* those that are up, and every request carries the flags that its handler  *)
(* takes down again when it has finished.  Messages are left out.           *)
(***************************************************************************)
EXTENDS Browser

VARIABLE ui

shellVars == <<answerVars, ui>>

Resources == {"users", "requests", "settings"}

Task(op, x, flags) == Fetch(op, [x |-> x, flags |-> flags])

X(s) == net[s].arg.x

Flags(s) == net[s].arg.flags

(* data or pageData is there; cooling: the ten seconds after a refresh.     *)
FreshShell == [on |-> {"loading"}, loaded |-> FALSE, cooling |-> FALSE]

Up(u, flags) == [u EXCEPT !.on = @ \cup flags]

Down(u, flags) == [u EXCEPT !.on = @ \ flags]

Begin(op, x, flags) ==
    /\ Event
    /\ Send(Task(op, x, flags))
    /\ ui' = Up(ui, flags)
    /\ UNCHANGED clickVars

(* location.assign('/login').                                               *)
ToLogin == /\ page' = "login"
           /\ net' = Abandoned
           /\ UNCHANGED <<online, session, events, ui>>

Finish(s) == /\ ui' = Down(ui, Flags(s))
             /\ Settle(s)
             /\ UNCHANGED answerVars

(* Every write is followed by a silent reload of the page.                  *)
Reload(s) == /\ Follow(s, Task("resource", X(s), Flags(s)))
             /\ UNCHANGED <<answerVars, ui>>

(***************************************************************************)
(* load, loadCsrf, loadResource, refresh.                                   *)
(***************************************************************************)
DeliverToken(s) ==
    /\ Ready(s, "csrf")
    /\ page \in Resources
    /\ Follow(s, Task("resource", None, {"loading"}))
    /\ ui' = Up(ui, {"loading"})
    /\ UNCHANGED answerVars

(* The end of loadResource, with what the page does with the answer left    *)
(* to the page.                                                             *)
ResourceFailed(s) ==
    /\ Ready(s, "resource")
    /\ ~Succeeded(s)
    /\ IF net[s].status = "denied" THEN ToLogin ELSE Finish(s)

(* Mutant: the flags of the reload stay up.                                 *)
LoadedKeepingFlags(s) == [ui EXCEPT !.loaded = TRUE]

Loaded(s) == [Down(ui, Flags(s)) EXCEPT !.loaded = TRUE]

(* The filter of the requests, the level and the page of the logs, the      *)
(* button of the history.                                                   *)
ReloadResource ==
    /\ page = "requests"
    /\ ui.loaded
    /\ "loading" \notin ui.on
    /\ Begin("resource", None, {"loading"})

RefreshGuard == "refreshing" \notin ui.on /\ ~ui.cooling /\ online

Refresh ==
    /\ page \in Resources
    /\ RefreshGuard
    /\ Event
    /\ Send(Task("resource", None, {"refreshing"}))
    /\ ui' = [Up(ui, {"refreshing"}) EXCEPT !.cooling = TRUE]
    /\ UNCHANGED clickVars

CooledDown == /\ ui.cooling
              /\ ui' = [ui EXCEPT !.cooling = FALSE]
              /\ UNCHANGED browserVars

(* Mutant: the busy flag is not looked at.                                  *)
RunAnyway(op, x) == online /\ Begin(op, x, {"busy"})

(***************************************************************************)
(* run: one action at a time.  Managing stands for the many of them whose   *)
(* effect is not on the data modelled here: servers, codes, the buttons of  *)
(* a user's card.                                                           *)
(***************************************************************************)
Run(op, x) == "busy" \notin ui.on /\ online /\ Begin(op, x, {"busy"})

Manage == page = "users" /\ ui.loaded /\ "loading" \notin ui.on /\ Run("manage", None)

Logout == page # "login" /\ Run("logout", None)

(* A failed action is a message, and a 401 ends the page.                   *)
RunFailed(s) ==
    /\ ~Succeeded(s)
    /\ IF net[s].status = "denied" THEN ToLogin ELSE Finish(s)

DeliverManage(s) ==
    /\ Ready(s, "manage")
    /\ \/ Succeeded(s) /\ Reload(s)
       \/ RunFailed(s)

DeliverLogout(s) ==
    /\ Ready(s, "logout")
    /\ \/ Succeeded(s) /\ ToLogin
       \/ RunFailed(s)

(* The server's part of it.  A sign-out needs the token, which may be gone  *)
(* with the session's cookie.                                               *)
ServeShell(s) ==
    /\ \/ /\ net[s].op = "csrf" /\ net[s].status = "sent"
          /\ Answer(s, "ok", None)
          /\ UNCHANGED session
       \/ /\ Arrived(s, "manage")
          /\ Answer(s, "ok", None) \/ Answer(s, "refused", None)
          /\ UNCHANGED session
       \/ /\ net[s].op = "logout" /\ net[s].status = "sent"
          /\ \/ Answer(s, "ok", None) /\ session' = FALSE
             \/ ~session /\ Answer(s, "refused", None) /\ UNCHANGED session
    /\ UNCHANGED <<online, page, events, ui>>

(* updateOnline: a page that has nothing yet starts to load again.          *)
BackOnline ==
    /\ page # "login"
    /\ Event
    /\ online' = ~online
    /\ IF online' /\ ~ui.loaded THEN Send(Fetch("csrf", None)) ELSE UNCHANGED net
    /\ UNCHANGED <<page, session, ui>>

(***************************************************************************)
(* Every flag belongs to exactly one request on its way, the one whose      *)
(* handler will take it down, and no second handler of its kind runs; the   *)
(* loading flags may be shared, but never turn with nobody to stop them.    *)
(***************************************************************************)
Carrying(f) == {s \in Slots : /\ InFlight(s)
                              /\ net[s].owner = "page"
                              /\ net[s].op # "csrf"
                              /\ f \in Flags(s)}

OneHandlerPerFlag(flags) ==
    page # "login" =>
        \A f \in flags : Cardinality(Carrying(f)) = (IF f \in ui.on THEN 1 ELSE 0)
=============================================================================
