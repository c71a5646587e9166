------------------------------- MODULE Admin -------------------------------
(***************************************************************************)
(* The admin console: the document is loaded on one of its pages and stays  *)
(* there until the next page load, with which everything of it but the      *)
(* session ends.                                                            *)
(***************************************************************************)
EXTENDS AdminDashboard, AdminDesk, AdminSettings

vars == <<browserVars, ui, dash, deskVars, confVars>>

AdminInit ==
    /\ online = TRUE
    /\ session = TRUE
    /\ page \in Resources \cup {"dashboard"}
    /\ net = [[s \in Slots |-> Idle] EXCEPT ![1] = Fetch("csrf", None)]
    /\ events = 0
    /\ ui = FreshShell
    /\ dash = FreshDash
    /\ DeskInit
    /\ ConfInit

ShellStep ==
    \/ ReloadResource \/ Refresh \/ CooledDown \/ Manage \/ Logout \/ BackOnline
    \/ \E s \in Slots : DeliverToken(s) \/ DeliverManage(s) \/ DeliverLogout(s) \/ ServeShell(s)

DashboardStep ==
    DashboardClick \/ \E s \in Slots : DashboardDelivery(s) \/ ServeDashboard(s)

DeskStep ==
    DeskClick \/ DeskElsewhere \/ \E s \in Slots : DeskDelivery(s) \/ ServeDesk(s)

SettingsStep ==
    SettingsClick \/ \E s \in Slots : SettingsDelivery(s) \/ ServeSettings(s)

AdminNext ==
    \/ ShellStep     /\ UNCHANGED <<dash, deskVars, confVars>>
    \/ DashboardStep /\ UNCHANGED <<deskVars, confVars>>
    \/ DeskStep      /\ UNCHANGED <<dash, confVars>>
    \/ SettingsStep  /\ UNCHANGED <<dash, deskVars>>
    \/ /\ page # "login"
       /\ SessionEnds \/ \E s \in Slots : Denied(s) \/ Lost(s)
       /\ UNCHANGED <<ui, dash, deskVars, confVars>>

AdminSpec == AdminInit /\ [][AdminNext]_vars

(***************************************************************************)
(* Properties.                                                              *)
(***************************************************************************)
BusyFlags == {"refreshing", "busy", "userDialog", "requestDetail", "settingsTest",
              "notificationDialog", "menu", "imageLoading", "imageBusy"}

AdminTypeOK ==
    /\ BrowserTypeOK
    /\ page \in Resources \cup {"dashboard", "login"}
    /\ ui.on \subseteq BusyFlags \cup {"loading", "watchTime"}
    /\ dash.shown \in 0..dash.asked
    /\ dash.date \in Days \cup {None}
    /\ DOMAIN people \subseteq People
    /\ cfg.secret \in {"old", "new", ""}

(* openRequestDetails and uploadActivationImage do not look at their flag.  *)
Unguarded == {"requestDetail", "imageBusy"}

(* Of every kind of action that looks at its flag exactly one handler runs  *)
(* while the flag is up: a second click, an action that fails in its        *)
(* middle, and an overlap of the page's own action with a dialog's neither  *)
(* lock the page up nor free it early.  The flags of the other two may fall *)
(* early, when their handlers overlap, but never stay up for nobody.        *)
OneHandler ==
    /\ OneHandlerPerFlag(BusyFlags \ Unguarded)
    /\ page # "login" => \A f \in Unguarded \cap ui.on : Carrying(f) # {}

(* The page's spinner always has an answer to come that stops it.           *)
NoStuckSpinner ==
    /\ SpinnersStop
    /\ page \in Resources /\ "loading" \in ui.on =>
          Owned({"csrf"}) # {} \/ Carrying("loading") # {}
=============================================================================
