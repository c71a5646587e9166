--------------------------- MODULE AdminDashboard ---------------------------
(***************************************************************************)
(* The dashboard of the admin console: it loads itself again at every tick  *)
(* of its poll timer, at a refresh, after a session was stopped and when    *)
(* another day is chosen for the viewing times.  Each load takes a number;  *)
(* only the answer of the newest is used.                                   *)
(***************************************************************************)
EXTENDS AdminShell

CONSTANTS Days, Today

ASSUME DaysAssumption == Today \in Days

VARIABLE dash

(* asked: dashboardRequestId; shown: the number of the answer in `data';    *)
(* chosen: watchDate; date: data.watch_time.date.                           *)
FreshDash == [asked |-> 0, shown |-> 0, chosen |-> None, date |-> None,
              watchError |-> FALSE]

(* loadDashboard up to its await, for the day that is chosen.               *)
Question(day, flags) == Task("dashboard", [id |-> dash.asked + 1, day |-> day], flags)

Asked(day) == [dash EXCEPT !.asked = @ + 1, !.chosen = day]

LoadFirst(s) ==
    /\ Ready(s, "csrf")
    /\ page = "dashboard"
    /\ Follow(s, Question(dash.chosen, {}))
    /\ dash' = Asked(dash.chosen)
    /\ ui' = Up(ui, {"loading"})
    /\ UNCHANGED answerVars

(* Mutant: any answer that is newer than the one on the screen counts.      *)
NewerThanShown(s) == X(s).id > dash.shown

(* ... and after it.                                                        *)
Newest(s) == X(s).id = dash.asked

DeliverDashboard(s) ==
    /\ Ready(s, "dashboard")
    /\ LET rest == Down(ui, Flags(s))
           done == Down(rest, {"loading", "watchTime"})
       IN  \/ /\ ~Newest(s)
              /\ ui' = rest
              /\ UNCHANGED <<dash, page>>
              /\ Settle(s)
           \/ /\ Newest(s) /\ Succeeded(s)
              /\ ui' = [done EXCEPT !.loaded = TRUE]
              /\ dash' = [dash EXCEPT !.shown = X(s).id, !.date = net[s].data,
                                      !.watchError = FALSE]
              /\ UNCHANGED page
              /\ Settle(s)
           \/ /\ Newest(s) /\ ~Succeeded(s)
              /\ ui' = done
              /\ dash' = [dash EXCEPT !.watchError = @ \/ "watchTime" \in ui.on]
              /\ IF net[s].status = "denied" /\ "watchTime" \notin ui.on
                 THEN page' = "login" /\ net' = Abandoned
                 ELSE Settle(s) /\ UNCHANGED page
    /\ UNCHANGED <<online, session, events>>

Quiet == "loading" \notin ui.on /\ "watchTime" \notin ui.on

(* The poll timer: loadDashboardSilently.                                   *)
Poll ==
    /\ page = "dashboard"
    /\ dash.date # None
    /\ Quiet
    /\ Event
    /\ Send(Question(dash.chosen, {}))
    /\ dash' = Asked(dash.chosen)
    /\ UNCHANGED <<clickVars, ui>>

RefreshDashboard ==
    /\ page = "dashboard"
    /\ RefreshGuard
    /\ Event
    /\ Send(Question(dash.chosen, {"refreshing"}))
    /\ dash' = Asked(dash.chosen)
    /\ ui' = [Up(ui, {"refreshing"}) EXCEPT !.cooling = TRUE]
    /\ UNCHANGED clickVars

OnScreen == page = "dashboard" /\ dash.date # None /\ "loading" \notin ui.on

ChangeWatchDate(day) ==
    /\ Event
    /\ Send(Question(day, {}))
    /\ dash' = [Asked(day) EXCEPT !.watchError = FALSE]
    /\ ui' = Up(ui, {"watchTime"})
    /\ UNCHANGED clickVars

SelectWatchDate == OnScreen /\ \E day \in Days : ChangeWatchDate(day)

ReturnToToday == /\ OnScreen
                 /\ "watchTime" \notin ui.on
                 /\ dash.date # Today
                 /\ ChangeWatchDate(Today)

StopSession == OnScreen /\ Run("stop", None) /\ UNCHANGED dash

DeliverStop(s) ==
    /\ Ready(s, "stop")
    /\ \/ /\ Succeeded(s) /\ Quiet
          /\ Follow(s, Question(dash.chosen, Flags(s)))
          /\ dash' = Asked(dash.chosen)
          /\ UNCHANGED <<answerVars, ui>>
       \/ Succeeded(s) /\ ~Quiet /\ Finish(s) /\ UNCHANGED dash
       \/ RunFailed(s) /\ UNCHANGED dash

ServeDashboard(s) ==
    /\ \/ /\ Arrived(s, "dashboard")
          /\ \/ Answer(s, "ok", IF X(s).day = None THEN Today ELSE X(s).day)
             \/ Answer(s, "refused", None)
       \/ /\ Arrived(s, "stop")
          /\ Answer(s, "ok", None) \/ Answer(s, "refused", None)
    /\ UNCHANGED <<answerVars, ui, dash>>

DashboardClick ==
    \/ RefreshDashboard \/ SelectWatchDate \/ ReturnToToday \/ StopSession \/ Poll

DashboardDelivery(s) == LoadFirst(s) \/ DeliverDashboard(s) \/ DeliverStop(s)

(***************************************************************************)
(* Properties.                                                              *)
(***************************************************************************)
Wish(day) == IF day = None THEN Today ELSE day

View == INSTANCE LatestView WITH
            Default <- Today,
            Nothing <- None,
            asked   <- dash.asked,
            shown   <- dash.shown,
            wish    <- Wish(dash.chosen),
            view    <- dash.date

(* However the answers of polls, refreshes and changes of the day overtake  *)
(* each other, the dashboard only moves on to the newest question's answer, *)
(* and that one is for the day chosen last.                                 *)
ShowsLatest == View!ViewSpec

(* A dashboard that turns no spinner and reports no error for the viewing   *)
(* times shows the day that was chosen, also when loads fail in between.    *)
ShownDateIsChosen ==
    OnScreen /\ "watchTime" \notin ui.on /\ ~dash.watchError
        => dash.date = Wish(dash.chosen)

(* While one of its two spinners turns, the newest question, whose answer   *)
(* alone stops them, is on its way (or the token before the first one).     *)
SpinnersStop ==
    page = "dashboard" /\ ~Quiet =>
        \/ Owned({"csrf"}) # {}
        \/ \E s \in Owned({"dashboard"}) : X(s).id = dash.asked
=============================================================================
