----------------------------- MODULE AdminDesk -----------------------------
(***************************************************************************)
(* The two pages of the admin console with a detail dialog over a list: the *)
(* users, whose dialog is a form, and the media requests.  `people' and     *)
(* `works' are what the server holds; of a user's fields only the mark      *)
(* is_friend is told apart, the one the dialog loads a second time; the     *)
(* rest of the form is the user it was filled from.                         *)
(***************************************************************************)
EXTENDS AdminShell

CONSTANTS People,       \* users of the server
          Groups        \* works that somebody has requested

ASSUME DeskAssumption == None \notin People \cup Groups

VARIABLES people,       \* [friend |-> ...] of every user that exists
          works,        \* the statuses of the rows of every group of requests
          verdicts,     \* history: the verdicts that were ever given
          dialog,       \* the user page: the list and the dialog
          detail        \* the request page: the list and the dialog

serverDesk == <<people, works, verdicts>>

deskVars == <<serverDesk, dialog, detail>>

Statuses == {"pending", "rejected", "in_library"}

(* admin_media_request_groups: one open row makes the group pending, then   *)
(* the newest row decides, which is younger than a confirmation unless the  *)
(* confirmation took it along.                                              *)
GroupStatus(rows) == IF "pending" \in rows THEN "pending"
                     ELSE IF "rejected" \in rows THEN "rejected" ELSE "in_library"

(* crossed is a history: the form was filled while a save of another user   *)
(* was under way.                                                           *)
FreshDialog == [list |-> <<>>, open |-> FALSE, user |-> None,
                form |-> [of |-> None, friend |-> FALSE, crossed |-> FALSE]]

FreshDetail == [list |-> <<>>, group |-> None, status |-> "none", work |-> None]

DeskInit == /\ people = [u \in People |-> FALSE]
            /\ works = [g \in Groups |-> {"pending"}]
            /\ verdicts = {}
            /\ dialog = FreshDialog
            /\ detail = FreshDetail

ListShown(p) == page = p /\ ui.loaded /\ "loading" \notin ui.on

(***************************************************************************)
(* The users.                                                               *)
(***************************************************************************)
(* A save of the dialog, up to the end of the reload that follows it.       *)
Saving(s) == "userDialog" \in Flags(s) /\ X(s).form # None

SavesOther(u) == \E s \in Owned({"patch", "resource"}) : Saving(s) /\ X(s).user # u

(* openUserDetails: the form is filled from the row at once, the details    *)
(* follow; they may find another user's dialog open.  The dialog is not     *)
(* modal: the cards behind it are still there to open it for another user.  *)
OpenUserDetails(u) ==
    /\ ListShown("users")
    /\ u \in DOMAIN dialog.list
    /\ Begin("user", u, {})
    /\ dialog' = [dialog EXCEPT !.open = TRUE, !.user = u,
                                !.form = [of |-> u, friend |-> dialog.list[u],
                                          crossed |-> SavesOther(u)]]
    /\ UNCHANGED <<serverDesk, detail>>

(* Mutant: any open dialog takes the details.                               *)
DetailsAlwaysWanted(u) == dialog.open

(* The answer is for the user it was asked for: the whole of it becomes the *)
(* user that a save writes to.                                              *)
DetailsWanted(u) == dialog.open /\ dialog.user = u

DeliverUser(s) ==
    /\ Ready(s, "user")
    /\ dialog' = IF Succeeded(s) /\ DetailsWanted(X(s))
                 THEN [dialog EXCEPT !.user = X(s), !.form.friend = net[s].data]
                 ELSE dialog
    /\ Finish(s)
    /\ UNCHANGED <<serverDesk, detail>>

EditUser == /\ page = "users" /\ dialog.open
            /\ dialog' = [dialog EXCEPT !.form.friend = ~@]
            /\ UNCHANGED <<browserVars, ui, serverDesk, detail>>

CloseUserDetails == /\ page = "users" /\ dialog.open
                    /\ "userDialog" \notin ui.on
                    /\ dialog' = [dialog EXCEPT !.open = FALSE]
                    /\ UNCHANGED <<browserVars, ui, serverDesk, detail>>

(* saveUserDetails sends the whole form.                                    *)
SaveUserDetails ==
    /\ page = "users" /\ dialog.open
    /\ "userDialog" \notin ui.on
    /\ online
    /\ Begin("patch", [user |-> dialog.user, form |-> dialog.form], {"userDialog"})
    /\ UNCHANGED deskVars

Deleting(u) == [user |-> u, form |-> None]

DeleteSelectedUser ==
    /\ page = "users" /\ dialog.open
    /\ "userDialog" \notin ui.on
    /\ Begin("delete", Deleting(dialog.user), {"userDialog"})
    /\ UNCHANGED deskVars

DeleteUser(u) ==
    /\ ListShown("users") /\ u \in DOMAIN dialog.list
    /\ Run("delete", Deleting(u))
    /\ UNCHANGED deskVars

DeliverPatch(s) ==
    /\ Ready(s, "patch")
    /\ IF Succeeded(s) THEN Reload(s) ELSE Finish(s)
    /\ UNCHANGED deskVars

(* ... which ends with the saved user's row, if the list has one, as the    *)
(* user that the next save writes to, whomever the dialog is for by now.    *)
Reselected(s, d) == IF Saving(s) /\ X(s).user \in DOMAIN d.list
                    THEN [d EXCEPT !.user = X(s).user] ELSE d

DeliverDelete(s) ==
    /\ Ready(s, "delete")
    /\ \/ /\ Succeeded(s)
          /\ Reload(s)
          /\ dialog' = IF "userDialog" \in Flags(s) THEN [dialog EXCEPT !.open = FALSE]
                       ELSE dialog
       \/ "userDialog" \in Flags(s) /\ ~Succeeded(s) /\ Finish(s) /\ UNCHANGED dialog
       \/ "busy" \in Flags(s) /\ RunFailed(s) /\ UNCHANGED dialog
    /\ UNCHANGED <<serverDesk, detail>>

(***************************************************************************)
(* The requests.                                                            *)
(***************************************************************************)
(* openRequestDetails, also over a work that is already shown or loading.   *)
OpenRequestDetails(g) ==
    /\ ListShown("requests")
    /\ g \in DOMAIN detail.list
    /\ Begin("tmdb", g, {"requestDetail"})
    /\ detail' = [detail EXCEPT !.group = g, !.status = detail.list[g], !.work = None]
    /\ UNCHANGED <<serverDesk, dialog>>

(* Whichever work is shown by now, and whoever still loads.                 *)
DeliverTmdb(s) ==
    /\ Ready(s, "tmdb")
    /\ detail' = IF Succeeded(s) THEN [detail EXCEPT !.work = X(s)] ELSE detail
    /\ Finish(s)
    /\ UNCHANGED <<serverDesk, dialog>>

CloseRequestDetails ==
    /\ page = "requests" /\ detail.group # None
    /\ "requestDetail" \notin ui.on
    /\ detail' = [detail EXCEPT !.group = None, !.status = "none", !.work = None]
    /\ UNCHANGED <<browserVars, ui, serverDesk, dialog>>

(* confirmRequest and rejectRequest, from the dialog or from a card.        *)
Decide(g, verdict) ==
    /\ page = "requests"
    /\ \/ /\ g = detail.group /\ detail.work # None /\ detail.status = "pending"
          /\ "requestDetail" \notin ui.on
       \/ /\ ListShown("requests")
          /\ g \in DOMAIN detail.list
          /\ detail.list[g] = "pending"
    /\ Run("decide", [group |-> g, verdict |-> verdict])
    /\ UNCHANGED deskVars

DeliverDecision(s) ==
    /\ Ready(s, "decide")
    /\ (Succeeded(s) /\ Reload(s)) \/ RunFailed(s)
    /\ UNCHANGED deskVars

(* Mutant: whichever work the dialog shows by now.                          *)
DecidedShown(d, x) == IF d.group # None THEN [d EXCEPT !.status = x.verdict] ELSE d

(* ... and after the reload: the dialog, if it still shows this work.       *)
Decided(d, x) == IF d.group = x.group THEN [d EXCEPT !.status = x.verdict] ELSE d

AfterRun(s, d) == IF "busy" \in Flags(s) THEN Decided(d, X(s)) ELSE d

(***************************************************************************)
(* The reload of either page.                                               *)
(***************************************************************************)
DeliverLists(s) ==
    /\ page \in {"users", "requests"}
    /\ Ready(s, "resource")
    /\ \/ /\ Succeeded(s)
          /\ ui' = Loaded(s)
          /\ Settle(s)
          /\ IF page = "users"
             THEN /\ dialog' = Reselected(s, [dialog EXCEPT !.list = net[s].data])
                  /\ UNCHANGED detail
             ELSE /\ detail' = AfterRun(s, [detail EXCEPT !.list = net[s].data])
                  /\ UNCHANGED dialog
          /\ UNCHANGED answerVars
       \/ /\ ResourceFailed(s)
          /\ IF page = "users"
             THEN dialog' = Reselected(s, dialog) /\ UNCHANGED detail
             ELSE detail' = AfterRun(s, detail) /\ UNCHANGED dialog
    /\ UNCHANGED serverDesk

(***************************************************************************)
(* The server.                                                              *)
(***************************************************************************)
Exists(u) == u \in DOMAIN people

(* A confirmation takes every row of the work along, a rejection the open   *)
(* ones.                                                                    *)
Verdict(rows, verdict) == IF verdict = "in_library" THEN {"in_library"}
                          ELSE (rows \ {"pending"}) \cup {"rejected"}

Without(u) == [v \in DOMAIN people \ {u} |-> people[v]]

(* confirm_media_request_group, reject_media_request_group.                 *)
VerdictGiven(g, verdict) ==
    /\ "pending" \in works[g]
    /\ works' = [works EXCEPT ![g] = Verdict(@, verdict)]
    /\ verdicts' = verdicts \cup {<<g, verdict>>}
    /\ UNCHANGED people

(* The groups that still have a row.                                        *)
WorkList == [g \in {h \in Groups : works[h] # {}} |-> GroupStatus(works[g])]

ServeDesk(s) ==
    /\ \/ /\ Arrived(s, "resource") /\ page \in {"users", "requests"}
          /\ Answer(s, "ok", IF page = "users" THEN people ELSE WorkList)
          /\ UNCHANGED serverDesk
       \/ /\ Arrived(s, "user")
          /\ IF Exists(X(s)) THEN Answer(s, "ok", people[X(s)])
             ELSE Answer(s, "refused", None)
          /\ UNCHANGED serverDesk
       \/ /\ Arrived(s, "patch")
          /\ IF Exists(X(s).user)
             THEN /\ people' = [people EXCEPT ![X(s).user] = X(s).form.friend]
                  /\ Answer(s, "ok", None)
             ELSE Answer(s, "refused", None) /\ UNCHANGED people
          /\ UNCHANGED <<works, verdicts>>
       \/ /\ Arrived(s, "delete")
          /\ IF Exists(X(s).user)
             THEN people' = Without(X(s).user) /\ Answer(s, "ok", None)
             ELSE Answer(s, "refused", None) /\ UNCHANGED people
          /\ UNCHANGED <<works, verdicts>>
       \/ /\ Arrived(s, "tmdb")
          /\ Answer(s, "ok", None) \/ Answer(s, "refused", None)
          /\ UNCHANGED serverDesk
       \/ /\ Arrived(s, "decide")
          /\ \/ VerdictGiven(X(s).group, X(s).verdict) /\ Answer(s, "ok", None)
             \/ /\ "pending" \notin works[X(s).group]
                /\ Answer(s, "refused", None)
                /\ UNCHANGED serverDesk
    /\ UNCHANGED <<answerVars, ui, dialog, detail>>

(* Another administrator decides on a work, deletes a user or changes a     *)
(* user's mark; somebody submits a work (one submission that waited for     *)
(* MoviePilot may come after a confirmation); requests leave, with the user *)
(* they were of or by their age.  No page looks at the data of the other,   *)
(* so that only what happens to those of the open one is of interest.       *)
DeskElsewhere ==
    /\ Event
    /\ \/ /\ page = "users"
          /\ \E u \in DOMAIN people :
                people' = Without(u) \/ people' = [people EXCEPT ![u] = ~@]
          /\ UNCHANGED <<works, verdicts>>
       \/ /\ page = "requests"
          /\ \E g \in Groups, v \in {"in_library", "rejected"} : VerdictGiven(g, v)
       \/ /\ page = "requests"
          /\ \E g \in Groups :
                \/ works' = [works EXCEPT ![g] = @ \cup {"pending"}]
                \/ \E left \in SUBSET works[g] : works' = [works EXCEPT ![g] = left]
          /\ UNCHANGED <<people, verdicts>>
    /\ UNCHANGED <<clickVars, net, ui, dialog, detail>>

DeskClick ==
    \/ EditUser \/ CloseUserDetails \/ SaveUserDetails \/ DeleteSelectedUser
    \/ CloseRequestDetails
    \/ \E u \in People : OpenUserDetails(u) \/ DeleteUser(u)
    \/ \E g \in Groups : \/ OpenRequestDetails(g)
                         \/ \E v \in {"in_library", "rejected"} : Decide(g, v)

DeskDelivery(s) ==
    \/ DeliverUser(s) \/ DeliverPatch(s)    \/ DeliverDelete(s)
    \/ DeliverTmdb(s) \/ DeliverDecision(s) \/ DeliverLists(s)

(***************************************************************************)
(* Properties.                                                              *)
(***************************************************************************)
(* A form is only ever written to the user it was filled from, although the *)
(* details that change the target arrive late, when the dialog may have     *)
(* been closed and opened for somebody else - unless it was opened while a  *)
(* save of another user was under way: that one takes the target with it.   *)
FormIsOfItsUser ==
    /\ dialog.open /\ ~dialog.form.crossed => dialog.form.of = dialog.user
    /\ \A s \in Owned({"patch"}) : ~X(s).form.crossed => X(s).form.of = X(s).user

(* The dialog of a work never shows a verdict that nobody gave: verdicts    *)
(* that come back after the dialog was opened for another work, and those   *)
(* that failed or lost against another administrator's, are not shown.      *)
VerdictShownWasGiven ==
    detail.group # None /\ detail.status \in {"in_library", "rejected"} =>
        <<detail.group, detail.status>> \in verdicts
=============================================================================
