---------------------------- MODULE AdminProofs ----------------------------
(***************************************************************************)
(* Proofs about the dashboard of the admin console, for any number of       *)
(* requests in flight, any days and any number of events: it implements     *)
(* LatestView, and without a spinner or an error it shows the day that was  *)
(* chosen.  The preview of the settings page is proved to be alive.         *)
(***************************************************************************)
EXTENDS Admin, TLAPS, FiniteSetTheorems

(***************************************************************************)
(* The inductive invariant.                                                 *)
(***************************************************************************)
DashType == [asked : Nat, shown : Nat, chosen : Days \cup {None},
             date : Days \cup {None}, watchError : BOOLEAN]

(* The flags that a request on its way may take down: never "watchTime".    *)
Flagged == BusyFlags \cup {"loading"}

ShellType == [on : SUBSET (Flagged \cup {"watchTime"}), loaded : BOOLEAN, cooling : BOOLEAN]

Request(r) == /\ DOMAIN r = {"op", "owner", "arg", "status", "data"}
              /\ r.op \notin {"none", "csrf"} => r.arg.flags \in SUBSET Flagged

IsNet(n) == DOMAIN n = Slots /\ \A s \in Slots : Request(n[s])

(* A load of the dashboard whose answer the page will see.                  *)
Mine(r) == r.op = "dashboard" /\ r.owner = "page"

Number(r) == r.arg.x.id

Day(r) == r.arg.x.day

(* The loads on their way are numbered up to dash.asked; the one with that  *)
(* number asks for the chosen day, and its answer has not been shown.       *)
Questions(n, d) ==
    /\ \A s \in Slots : Mine(n[s]) =>
          /\ Number(n[s]) \in Nat
          /\ Number(n[s]) <= d.asked
          /\ Number(n[s]) = d.asked => Day(n[s]) = d.chosen /\ d.shown < d.asked
          /\ n[s].status = "ok" => n[s].data = Wish(Day(n[s]))
    /\ \A s, t \in Slots :
          Mine(n[s]) /\ Mine(n[t]) /\ Number(n[s]) = d.asked /\ Number(n[t]) = d.asked
             => s = t

DateInv(d, u) == \/ d.date \in {None, Wish(d.chosen)}
                 \/ "watchTime" \in u.on
                 \/ d.watchError

Inv == /\ dash \in DashType
       /\ dash.shown <= dash.asked
       /\ ui \in ShellType
       /\ IsNet(net)
       /\ Questions(net, dash)
       /\ DateInv(dash, ui)

(***************************************************************************)
(* What most steps do to the network: they ask no new question and answer   *)
(* none but truthfully.                                                     *)
(***************************************************************************)
Tame(n, m) ==
    \A s \in Slots : Mine(m[s]) =>
        /\ Mine(n[s])
        /\ m[s].arg = n[s].arg
        /\ m[s].status = "ok" => \/ m[s].data = Wish(Day(m[s]))
                                 \/ n[s].status = "ok" /\ m[s].data = n[s].data

Quietly == /\ dash' = dash
           /\ IsNet(net')
           /\ Tame(net, net')
           /\ ui' \in ShellType
           /\ "watchTime" \in ui.on => "watchTime" \in ui'.on

LEMMA QuestionsKept ==
    ASSUME Inv, Tame(net, net'),
           UNCHANGED <<dash.asked, dash.chosen, dash.shown>>
    PROVE  Questions(net', dash')
<1>1. \A s \in Slots : Mine(net'[s]) =>
          /\ Mine(net[s])
          /\ Number(net'[s]) = Number(net[s])
          /\ Day(net'[s]) = Day(net[s])
  BY DEF Tame, Number, Day
<1>2. ASSUME NEW s \in Slots, Mine(net'[s])
      PROVE  /\ Number(net'[s]) \in Nat
             /\ Number(net'[s]) <= dash'.asked
             /\ Number(net'[s]) = dash'.asked
                   => Day(net'[s]) = dash'.chosen /\ dash'.shown < dash'.asked
             /\ net'[s].status = "ok" => net'[s].data = Wish(Day(net'[s]))
  <2>1. Mine(net[s]) /\ Number(net'[s]) = Number(net[s]) /\ Day(net'[s]) = Day(net[s])
    BY <1>1, <1>2
  <2>2. net'[s].status = "ok" => net'[s].data = Wish(Day(net'[s]))
    BY <1>2, <2>1 DEF Inv, Tame, Questions
  <2> QED BY <2>1, <2>2 DEF Inv, Questions
<1>3. ASSUME NEW s \in Slots, NEW t \in Slots, Mine(net'[s]), Mine(net'[t]),
             Number(net'[s]) = dash'.asked, Number(net'[t]) = dash'.asked
      PROVE  s = t
  BY <1>1, <1>3 DEF Inv, Questions
<1> QED BY <1>2, <1>3 DEF Questions

(* A step that is quiet in this sense keeps the invariant, and the view.    *)
LEMMA QuietStep == ASSUME Inv, Quietly PROVE Inv' /\ UNCHANGED View!viewVars
<1>1. Questions(net', dash')
  BY QuestionsKept DEF Quietly
<1>2. UNCHANGED View!viewVars
  BY DEF View!viewVars, Quietly, Wish
<1> QED BY <1>1, <1>2 DEF Inv, Quietly, DateInv

LEMMA TameSame == ASSUME NEW n PROVE Tame(n, n)
BY DEF Tame

LEMMA TameTwice ==
    ASSUME NEW n, NEW m, NEW k, Tame(n, m), Tame(m, k)
    PROVE  Tame(n, k)
BY DEF Tame, Day

(* One slot is given another request: a new one that is no question, or the *)
(* old one with another status.                                             *)
LEMMA Replaced ==
    ASSUME NEW n, IsNet(n), NEW s \in Slots, NEW r, Request(r),
           Mine(r) => /\ Mine(n[s])
                      /\ r.arg = n[s].arg
                      /\ r.status = "ok" => r.data = Wish(Day(r))
    PROVE  IsNet([n EXCEPT ![s] = r]) /\ Tame(n, [n EXCEPT ![s] = r])
BY DEF IsNet, Tame

LEMMA IdleRequest == Request(Idle) /\ ~Mine(Idle)
BY DEF Request, Idle, Mine

LEMMA TaskRequest ==
    ASSUME NEW op, NEW x, NEW flags \in SUBSET Flagged
    PROVE  Request(Task(op, x, flags)) /\ (Mine(Task(op, x, flags)) <=> op = "dashboard")
BY DEF Request, Task, Fetch, Mine

LEMMA CsrfRequest == Request(Fetch("csrf", None)) /\ ~Mine(Fetch("csrf", None))
BY DEF Request, Fetch, Mine

LEMMA Sent ==
    ASSUME NEW n, IsNet(n), Free(n) # {}, NEW r, Request(r), ~Mine(r)
    PROVE  IsNet(With(n, r)) /\ Tame(n, With(n, r))
<1>1. PICK s \in Slots : With(n, r) = [n EXCEPT ![s] = r]
  BY DEF With, Free
<1>2. IsNet([n EXCEPT ![s] = r]) /\ Tame(n, [n EXCEPT ![s] = r])
  BY Replaced
<1> QED BY <1>1, <1>2

(***************************************************************************)
(* The operations on the network, when they are not about the dashboard.    *)
(***************************************************************************)
LEMMA Begun ==
    ASSUME Inv, NEW op, op # "dashboard", NEW x, NEW flags \in SUBSET Flagged,
           Begin(op, x, flags), UNCHANGED dash
    PROVE  Quietly
<1>1. IsNet(net') /\ Tame(net, net')
  <2>1. Request(Task(op, x, flags)) /\ ~Mine(Task(op, x, flags))
    BY TaskRequest
  <2>2. Free(net) # {} /\ net' = With(net, Task(op, x, flags))
    BY DEF Begin, Send
  <2> QED BY <2>1, <2>2, Sent DEF Inv
<1>2. ui' \in ShellType /\ ("watchTime" \in ui.on => "watchTime" \in ui'.on)
  BY DEF Begin, Up, Inv, ShellType
<1> QED BY <1>1, <1>2 DEF Quietly

LEMMA SettledNet ==
    ASSUME Inv, NEW s \in Slots
    PROVE  IsNet(Settled(s)) /\ Tame(net, Settled(s))
<1>1. IsNet([net EXCEPT ![s] = Idle]) /\ Tame(net, [net EXCEPT ![s] = Idle])
  BY IdleRequest, Replaced DEF Inv
<1> QED BY <1>1 DEF Settled

LEMMA FollowedNet ==
    ASSUME Inv, NEW s \in Slots, NEW r, Request(r), ~Mine(r), Follow(s, r)
    PROVE  IsNet(net') /\ Tame(net, net')
<1>1. IsNet([net EXCEPT ![s] = r]) /\ Tame(net, [net EXCEPT ![s] = r])
  BY Replaced DEF Inv
<1> QED BY <1>1 DEF Follow

LEMMA AbandonedNet ==
    ASSUME Inv
    PROVE  IsNet(Abandoned) /\ Tame(net, Abandoned)
<1>1. \A s \in Slots : /\ Request(Abandoned[s])
                       /\ ~Mine(Abandoned[s])
  BY IdleRequest DEF Inv, IsNet, Abandoned, Request, Mine, InFlight, Idle
<1> QED BY <1>1 DEF IsNet, Tame, Abandoned

(* An answer to a question that is not the dashboard's, or that is the day  *)
(* it asked for, or a failure.                                              *)
LEMMA AnsweredNet ==
    ASSUME Inv, NEW s \in Slots, NEW status, NEW value,
           status = "ok" /\ Mine(net[s]) => value = Wish(Day(net[s])),
           Answer(s, status, value)
    PROVE  IsNet(net') /\ Tame(net, net')
<1>1. CASE net[s].owner = "page"
  <2> DEFINE r == [net[s] EXCEPT !.status = status, !.data = value]
  <2>1. /\ DOMAIN r = {"op", "owner", "arg", "status", "data"}
        /\ r.op = net[s].op /\ r.owner = net[s].owner /\ r.arg = net[s].arg
        /\ r.status = status /\ r.data = value
    BY DEF Inv, IsNet, Request
  <2>2. net' = [net EXCEPT ![s] = r]
    BY <1>1 DEF Answer, Answered, Inv, IsNet
  <2>3. Request(r)
    BY <2>1 DEF Inv, IsNet, Request
  <2>4. Mine(r) => /\ Mine(net[s])
                   /\ r.arg = net[s].arg
                   /\ r.status = "ok" => r.data = Wish(Day(r))
    BY <2>1 DEF Mine, Day
  <2>5. IsNet([net EXCEPT ![s] = r]) /\ Tame(net, [net EXCEPT ![s] = r])
    <3> HIDE DEF r
    <3> QED BY <2>3, <2>4, Replaced DEF Inv
  <2> QED BY <2>2, <2>5
<1>2. CASE net[s].owner # "page"
  BY <1>2, SettledNet DEF Answer, Answered, Settled
<1> QED BY <1>1, <1>2

LEMMA Finished ==
    ASSUME Inv, NEW s \in Slots, net[s].op \notin {"none", "csrf"}, Finish(s), UNCHANGED dash
    PROVE  Quietly
<1>1. IsNet(net') /\ Tame(net, net')
  BY SettledNet DEF Finish, Settle
<1>2. Flags(s) \in SUBSET Flagged /\ "watchTime" \notin Flags(s)
  BY DEF Inv, IsNet, Request, Flags, Flagged, BusyFlags
<1>3. ui' \in ShellType /\ ("watchTime" \in ui.on => "watchTime" \in ui'.on)
  BY <1>2 DEF Finish, Down, Inv, ShellType
<1> QED BY <1>1, <1>3 DEF Quietly

LEMMA LoadedQuiet ==
    ASSUME Inv, NEW s \in Slots, net[s].op \notin {"none", "csrf"},
           Settle(s), ui' = Loaded(s), UNCHANGED dash
    PROVE  Quietly
<1>1. IsNet(net') /\ Tame(net, net')
  BY SettledNet DEF Settle
<1>2. "watchTime" \notin Flags(s)
  BY DEF Inv, IsNet, Request, Flags, Flagged, BusyFlags
<1>3. ui' \in ShellType /\ ("watchTime" \in ui.on => "watchTime" \in ui'.on)
  BY <1>2 DEF Loaded, Down, Inv, ShellType
<1> QED BY <1>1, <1>3 DEF Quietly

LEMMA SentAway ==
    ASSUME Inv, ToLogin, UNCHANGED dash
    PROVE  Quietly
BY AbandonedNet DEF ToLogin, Quietly, Inv

LEMMA Reloaded ==
    ASSUME Inv, NEW s \in Slots, net[s].op \notin {"none", "csrf"}, Reload(s), UNCHANGED dash
    PROVE  Quietly
<1>1. Flags(s) \in SUBSET Flagged
  BY DEF Inv, IsNet, Request, Flags
<1>2. Request(Task("resource", X(s), Flags(s))) /\ ~Mine(Task("resource", X(s), Flags(s)))
  BY <1>1, TaskRequest
<1>3. IsNet(net') /\ Tame(net, net')
  BY <1>2, FollowedNet DEF Reload
<1> QED BY <1>3 DEF Quietly, Reload, Inv

LEMMA RanInVain ==
    ASSUME Inv, NEW s \in Slots, net[s].op \notin {"none", "csrf"}, RunFailed(s), UNCHANGED dash
    PROVE  Quietly
BY Finished, SentAway DEF RunFailed

LEMMA Served ==
    ASSUME Inv, NEW s \in Slots, NEW status, NEW value,
           status = "ok" /\ Mine(net[s]) => value = Wish(Day(net[s])),
           Answer(s, status, value), UNCHANGED <<ui, dash>>
    PROVE  Quietly
BY AnsweredNet DEF Quietly, Inv

(***************************************************************************)
(* The steps that are not the dashboard's.                                  *)
(***************************************************************************)
LEMMA ShellQuiet == ASSUME Inv, ShellStep, UNCHANGED dash PROVE Quietly
<1> USE DEF Flagged, BusyFlags
<1>1. CASE ReloadResource
  BY <1>1, Begun DEF ReloadResource
<1>2. CASE Refresh
  <2>1. Request(Task("resource", None, {"refreshing"}))
        /\ ~Mine(Task("resource", None, {"refreshing"}))
    BY TaskRequest
  <2>2. IsNet(net') /\ Tame(net, net')
    BY <1>2, <2>1, Sent DEF Refresh, Send, Inv
  <2>3. ui' \in ShellType /\ ("watchTime" \in ui.on => "watchTime" \in ui'.on)
    BY <1>2 DEF Refresh, Up, Inv, ShellType
  <2> QED BY <2>2, <2>3 DEF Quietly
<1>3. CASE CooledDown
  BY <1>3, TameSame DEF CooledDown, browserVars, Inv, ShellType, Quietly
<1>4. CASE Manage \/ Logout
  BY <1>4, Begun DEF Manage, Logout, Run
<1>5. CASE BackOnline
  <2>1. IsNet(net') /\ Tame(net, net')
    BY <1>5, CsrfRequest, Sent, TameSame DEF BackOnline, Send, Inv
  <2> QED BY <1>5, <2>1 DEF BackOnline, Quietly, Inv
<1>6. ASSUME NEW s \in Slots, DeliverToken(s)
      PROVE  Quietly
  <2>1. Request(Task("resource", None, {"loading"}))
        /\ ~Mine(Task("resource", None, {"loading"}))
    BY TaskRequest
  <2>2. IsNet(net') /\ Tame(net, net')
    BY <1>6, <2>1, FollowedNet DEF DeliverToken
  <2>3. ui' \in ShellType /\ ("watchTime" \in ui.on => "watchTime" \in ui'.on)
    BY <1>6 DEF DeliverToken, Up, Inv, ShellType
  <2> QED BY <2>2, <2>3 DEF Quietly
<1>7. ASSUME NEW s \in Slots, DeliverManage(s)
      PROVE  Quietly
  BY <1>7, Reloaded, RanInVain DEF DeliverManage, Ready
<1>8. ASSUME NEW s \in Slots, DeliverLogout(s)
      PROVE  Quietly
  BY <1>8, SentAway, RanInVain DEF DeliverLogout, Ready
<1>9. ASSUME NEW s \in Slots, ServeShell(s)
      PROVE  Quietly
  <2>1. ~Mine(net[s])
    BY <1>9 DEF ServeShell, Arrived, Mine
  <2> QED BY <1>9, <2>1, Served DEF ServeShell
<1> QED BY <1>1, <1>2, <1>3, <1>4, <1>5, <1>6, <1>7, <1>8, <1>9 DEF ShellStep

LEMMA DeskQuiet == ASSUME Inv, DeskStep, UNCHANGED dash PROVE Quietly
<1> USE DEF Flagged, BusyFlags
<1>1. CASE \E u \in People : OpenUserDetails(u) \/ DeleteUser(u)
  BY <1>1, Begun DEF OpenUserDetails, DeleteUser, Run
<1>2. CASE EditUser \/ CloseUserDetails \/ CloseRequestDetails
  BY <1>2, TameSame DEF EditUser, CloseUserDetails, CloseRequestDetails, browserVars, Quietly, Inv
<1>3. CASE SaveUserDetails \/ DeleteSelectedUser
  BY <1>3, Begun DEF SaveUserDetails, DeleteSelectedUser
<1>4. CASE \E g \in Groups : \/ OpenRequestDetails(g)
                             \/ \E v \in {"in_library", "rejected"} : Decide(g, v)
  BY <1>4, Begun DEF OpenRequestDetails, Decide, Run
<1>5. CASE DeskElsewhere
  BY <1>5, TameSame DEF DeskElsewhere, Quietly, Inv
<1>6. ASSUME NEW s \in Slots, DeliverUser(s) \/ DeliverTmdb(s)
      PROVE  Quietly
  BY <1>6, Finished DEF DeliverUser, DeliverTmdb, Ready
<1>7. ASSUME NEW s \in Slots, DeliverPatch(s)
      PROVE  Quietly
  BY <1>7, Finished, Reloaded DEF DeliverPatch, Ready
<1>8. ASSUME NEW s \in Slots, DeliverDelete(s)
      PROVE  Quietly
  BY <1>8, Finished, Reloaded, RanInVain DEF DeliverDelete, Ready
<1>9. ASSUME NEW s \in Slots, DeliverDecision(s)
      PROVE  Quietly
  BY <1>9, Reloaded, RanInVain DEF DeliverDecision, Ready
<1>10. ASSUME NEW s \in Slots, DeliverLists(s)
       PROVE  Quietly
  <2>1. net[s].op \notin {"none", "csrf"}
    BY <1>10 DEF DeliverLists, Ready
  <2>2. CASE ResourceFailed(s)
    BY <2>1, <2>2, Finished, SentAway DEF ResourceFailed
  <2>3. CASE Settle(s) /\ ui' = Loaded(s)
    BY <2>1, <2>3, LoadedQuiet
  <2> QED BY <1>10, <2>2, <2>3 DEF DeliverLists
<1>11. ASSUME NEW s \in Slots, ServeDesk(s)
       PROVE  Quietly
  <2>1. ~Mine(net[s])
    BY <1>11 DEF ServeDesk, Arrived, Mine
  <2> QED BY <1>11, <2>1, Served DEF ServeDesk
<1> QED BY <1>1, <1>2, <1>3, <1>4, <1>5, <1>6, <1>7, <1>8, <1>9, <1>10, <1>11
        DEF DeskStep, DeskClick, DeskDelivery

LEMMA SettingsQuiet == ASSUME Inv, SettingsStep, UNCHANGED dash PROVE Quietly
<1> USE DEF Flagged, BusyFlags
<1>1. CASE TypeSecret \/ SetNotificationToggle
  BY <1>1, TameSame DEF TypeSecret, SetNotificationToggle, Typed, Quietly, Inv
<1>2. CASE CloseNotificationDialog \/ \E c \in {"telegram", "wecom"} : OpenNotificationDialog(c)
  BY <1>2, TameSame
     DEF CloseNotificationDialog, OpenNotificationDialog, Local, browserVars, Quietly, Inv
<1>3. CASE SaveSettings \/ SaveNotificationChannel
  BY <1>3, Begun DEF SaveSettings, SaveNotificationChannel
<1>4. CASE ClearNotificationChannel
  BY <1>4, Begun DEF ClearNotificationChannel
<1>5. CASE TestSetting \/ WecomMenu
  BY <1>5, Begun DEF TestSetting, WecomMenu
<1>6. CASE UploadActivationImage \/ ClearActivationImage
  BY <1>6, Begun DEF UploadActivationImage, ClearActivationImage
<1>7. ASSUME NEW s \in Slots, DeliverSettings(s)
      PROVE  Quietly
  BY <1>7, Finished, Reloaded DEF DeliverSettings, Ready
<1>8. ASSUME NEW s \in Slots, DeliverTask(s) \/ DeliverMeta(s) \/ DeliverUpload(s) \/ DeliverClear(s)
      PROVE  Quietly
  BY <1>8, Finished DEF DeliverTask, DeliverMeta, DeliverUpload, DeliverClear, Ready
<1>9. ASSUME NEW s \in Slots, DeliverForm(s)
      PROVE  Quietly
  <2>1. net[s].op \notin {"none", "csrf"}
    BY <1>9 DEF DeliverForm, Ready
  <2>2. CASE ResourceFailed(s)
    BY <2>1, <2>2, Finished, SentAway DEF ResourceFailed
  <2>3. CASE ui' = Loaded(s) /\ Settle(s)
    BY <2>1, <2>3, LoadedQuiet
  <2>4. CASE /\ ui' = Up(Loaded(s), {"imageLoading"})
             /\ Follow(s, Task("meta", None, {"imageLoading"}))
    <3>1. Request(Task("meta", None, {"imageLoading"}))
          /\ ~Mine(Task("meta", None, {"imageLoading"}))
      BY TaskRequest
    <3>2. IsNet(net') /\ Tame(net, net')
      BY <2>4, <3>1, FollowedNet
    <3>3. "watchTime" \notin Flags(s)
      BY <2>1 DEF Inv, IsNet, Request, Flags
    <3>4. ui' \in ShellType /\ ("watchTime" \in ui.on => "watchTime" \in ui'.on)
      BY <2>4, <3>3 DEF Up, Loaded, Down, Inv, ShellType
    <3> QED BY <3>2, <3>4 DEF Quietly
  <2> QED BY <1>9, <2>2, <2>3, <2>4 DEF DeliverForm
<1>10. ASSUME NEW s \in Slots, ServeSettings(s)
       PROVE  Quietly
  <2>1. ~Mine(net[s])
    BY <1>10 DEF ServeSettings, Arrived, Mine
  <2> QED BY <1>10, <2>1, Served DEF ServeSettings
<1> QED BY <1>1, <1>2, <1>3, <1>4, <1>5, <1>6, <1>7, <1>8, <1>9, <1>10
        DEF SettingsStep, SettingsClick, SettingsDelivery

(* The end of the session and what the network does.                        *)
LEMMA OutsideQuiet ==
    ASSUME Inv, UNCHANGED <<ui, dash>>,
           SessionEnds \/ \E s \in Slots : Denied(s) \/ Lost(s)
    PROVE  Quietly
<1>1. CASE SessionEnds
  BY <1>1, TameSame DEF SessionEnds, Quietly, Inv
<1>2. ASSUME NEW s \in Slots, Denied(s)
      PROVE  Quietly
  BY <1>2, Served DEF Denied
<1>3. ASSUME NEW s \in Slots, Lost(s)
      PROVE  Quietly
  <2> DEFINE r == [net[s] EXCEPT !.status = "failed", !.data = None]
             gone == [net[s] EXCEPT !.owner = "gone"]
             failed == [net EXCEPT ![s] = r]
  <2>1. /\ DOMAIN r = {"op", "owner", "arg", "status", "data"}
        /\ r.op = net[s].op /\ r.owner = net[s].owner /\ r.arg = net[s].arg
        /\ r.status = "failed"
    BY DEF Inv, IsNet, Request
  <2>2. /\ DOMAIN gone = {"op", "owner", "arg", "status", "data"}
        /\ gone.op = net[s].op /\ gone.owner = "gone" /\ gone.arg = net[s].arg
    BY DEF Inv, IsNet, Request
  <2>3. Request(r) /\ (Mine(r) => Mine(net[s]))
    BY <2>1 DEF Inv, IsNet, Request, Mine
  <2>4. Request(gone) /\ ~Mine(gone)
    BY <2>2 DEF Inv, IsNet, Request, Mine
  <2>5. IsNet(failed) /\ Tame(net, failed)
    <3> HIDE DEF r
    <3> QED BY <2>1, <2>3, Replaced DEF Inv
  <2>6. [net EXCEPT ![s].status = "failed", ![s].data = None] = failed
    BY DEF Inv, IsNet, Request
  <2>7. Free(failed) = Free(net)
    BY <2>1 DEF Free, Inv, IsNet
  <2> HIDE DEF r, gone, failed
  <2>8. net' = failed \/ (Free(net) # {} /\ net' = With(failed, gone))
    BY <1>3, <2>6 DEF Lost, gone
  <2>9. IsNet(net') /\ Tame(net, net')
    <3>1. CASE net' = failed
      BY <2>5, <3>1
    <3>2. CASE Free(net) # {} /\ net' = With(failed, gone)
      BY <2>4, <2>5, <2>7, <3>2, Sent, TameTwice
    <3> QED BY <2>8, <3>1, <3>2
  <2> QED BY <2>9 DEF Quietly, Inv
<1> QED BY <1>1, <1>2, <1>3

(***************************************************************************)
(* The dashboard.                                                           *)
(***************************************************************************)
LEMMA WishIsDay == ASSUME NEW day \in Days \cup {None} PROVE Wish(day) \in Days
BY DaysAssumption DEF Wish

LEMMA AskedType ==
    ASSUME dash \in DashType, NEW day \in Days \cup {None}
    PROVE  /\ Asked(day) \in DashType
           /\ Asked(day).asked = dash.asked + 1 /\ Asked(day).chosen = day
           /\ Asked(day).shown = dash.shown /\ Asked(day).date = dash.date
<1> DEFINE e == [dash EXCEPT !.asked = dash.asked + 1]
<1>1. e \in DashType /\ e.asked = dash.asked + 1 /\ e.shown = dash.shown /\ e.date = dash.date
  BY DEF DashType
<1>2. Asked(day) = [e EXCEPT !.chosen = day]
  BY DEF Asked
<1> HIDE DEF e
<1> QED BY <1>1, <1>2 DEF DashType

(* A new question, in any slot.                                             *)
LEMMA AskedAnew ==
    ASSUME Inv, NEW day \in Days \cup {None}, NEW flags \in SUBSET Flagged,
           NEW s \in Slots, net' = [net EXCEPT ![s] = Question(day, flags)],
           NEW w \in BOOLEAN, dash' = [Asked(day) EXCEPT !.watchError = w],
           ui' \in ShellType, DateInv(dash', ui')
    PROVE  Inv' /\ View!ViewNext
<1> DEFINE r == Question(day, flags)
<1>1. /\ Request(r) /\ Mine(r)
      /\ Number(r) = dash.asked + 1 /\ Day(r) = day /\ r.status = "sent"
  BY DEF Request, Mine, Number, Day, Question, Task, Fetch
<1>2. /\ dash' \in DashType
      /\ dash'.asked = dash.asked + 1 /\ dash'.chosen = day
      /\ dash'.shown = dash.shown /\ dash'.date = dash.date
  <2> DEFINE d == Asked(day)
  <2>1. /\ d \in DashType
        /\ d.asked = dash.asked + 1 /\ d.chosen = day
        /\ d.shown = dash.shown /\ d.date = dash.date
    BY AskedType DEF Inv
  <2>2. dash' = [d EXCEPT !.watchError = w]
    OBVIOUS
  <2> HIDE DEF d
  <2> QED BY <2>1, <2>2 DEF DashType
<1> HIDE DEF r
<1>3. net' = [net EXCEPT ![s] = r]
  BY DEF r
<1>4. IsNet(net')
  BY <1>1, <1>3 DEF Inv, IsNet
<1>5. \A t \in Slots : net'[t] = IF t = s THEN r ELSE net[t]
  BY <1>3 DEF Inv, IsNet
<1>6. dash.asked \in Nat /\ dash.shown \in Nat /\ dash.shown <= dash.asked
  BY DEF Inv, DashType
<1>7. Questions(net', dash')
  BY <1>1, <1>2, <1>5, <1>6 DEF Inv, Questions
<1>8. View!Ask(Wish(day))
  BY <1>2 DEF View!Ask
<1> QED BY <1>2, <1>4, <1>6, <1>7, <1>8, WishIsDay DEF Inv, View!ViewNext

LEMMA LoadFirstStep == ASSUME Inv, NEW s \in Slots, LoadFirst(s) PROVE Inv' /\ View!ViewNext
<1>1. dash' = [Asked(dash.chosen) EXCEPT !.watchError = dash.watchError]
  BY DEF LoadFirst, Asked, Inv, DashType
<1>2. ui' \in ShellType /\ DateInv(dash', ui')
  BY DEF LoadFirst, Up, Inv, ShellType, DashType, DateInv, Asked, Flagged
<1>3. dash.chosen \in Days \cup {None} /\ dash.watchError \in BOOLEAN
  BY DEF Inv, DashType
<1>4. net' = [net EXCEPT ![s] = Question(dash.chosen, {})]
  BY DEF LoadFirst, Follow
<1> QED BY <1>1, <1>2, <1>3, <1>4, AskedAnew

(* A question in a free slot.                                               *)
LEMMA SentAnew ==
    ASSUME Inv, NEW day \in Days \cup {None}, NEW flags \in SUBSET Flagged,
           Send(Question(day, flags)),
           NEW w \in BOOLEAN, dash' = [Asked(day) EXCEPT !.watchError = w],
           ui' \in ShellType, DateInv(dash', ui')
    PROVE  Inv' /\ View!ViewNext
<1>1. PICK s \in Slots : net' = [net EXCEPT ![s] = Question(day, flags)]
  BY DEF Send, With, Free
<1> QED BY <1>1, AskedAnew

LEMMA PollStep == ASSUME Inv, Poll PROVE Inv' /\ View!ViewNext
<1>1. dash' = [Asked(dash.chosen) EXCEPT !.watchError = dash.watchError]
  BY DEF Poll, Asked, Inv, DashType
<1>2. ui' \in ShellType /\ DateInv(dash', ui')
  BY DEF Poll, Inv, DashType, DateInv, Asked
<1>3. dash.chosen \in Days \cup {None} /\ dash.watchError \in BOOLEAN
  BY DEF Inv, DashType
<1> QED BY <1>1, <1>2, <1>3, SentAnew DEF Poll

LEMMA RefreshStep == ASSUME Inv, RefreshDashboard PROVE Inv' /\ View!ViewNext
<1>1. dash' = [Asked(dash.chosen) EXCEPT !.watchError = dash.watchError]
  BY DEF RefreshDashboard, Asked, Inv, DashType
<1>2. {"refreshing"} \in SUBSET Flagged
  BY DEF Flagged, BusyFlags
<1>3. ui' \in ShellType /\ DateInv(dash', ui')
  BY <1>2 DEF RefreshDashboard, Up, Inv, ShellType, DashType, DateInv, Asked
<1>4. dash.chosen \in Days \cup {None} /\ dash.watchError \in BOOLEAN
  BY DEF Inv, DashType
<1> QED BY <1>1, <1>2, <1>3, <1>4, SentAnew DEF RefreshDashboard

LEMMA ChangeDateStep ==
    ASSUME Inv, SelectWatchDate \/ ReturnToToday PROVE Inv' /\ View!ViewNext
<1>1. PICK day \in Days : ChangeWatchDate(day)
  BY DaysAssumption DEF SelectWatchDate, ReturnToToday
<1>2. ui' \in ShellType /\ DateInv(dash', ui')
  BY <1>1 DEF ChangeWatchDate, Up, Inv, ShellType, DateInv
<1> QED BY <1>1, <1>2, SentAnew DEF ChangeWatchDate

LEMMA StopStep ==
    ASSUME Inv, NEW s \in Slots, DeliverStop(s) PROVE Inv' /\ (View!ViewNext \/ UNCHANGED View!viewVars)
<1>1. net[s].op = "stop"
  BY DEF DeliverStop, Ready
<1>2. CASE Follow(s, Question(dash.chosen, Flags(s))) /\ dash' = Asked(dash.chosen)
           /\ UNCHANGED ui
  <2>1. dash' = [Asked(dash.chosen) EXCEPT !.watchError = dash.watchError]
    BY <1>2 DEF Asked, Inv, DashType
  <2>2. ui' \in ShellType /\ DateInv(dash', ui')
    BY <1>2 DEF Inv, DashType, DateInv, Asked
  <2>3. dash.chosen \in Days \cup {None} /\ dash.watchError \in BOOLEAN
    BY DEF Inv, DashType
  <2>4. Flags(s) \in SUBSET Flagged
    BY <1>1 DEF Inv, IsNet, Request, Flags
  <2>5. net' = [net EXCEPT ![s] = Question(dash.chosen, Flags(s))]
    BY <1>2 DEF Follow
  <2> QED BY <2>1, <2>2, <2>3, <2>4, <2>5, AskedAnew
<1>3. CASE UNCHANGED dash /\ (Finish(s) \/ RunFailed(s))
  BY <1>1, <1>3, Finished, RanInVain, QuietStep
<1> QED BY <1>2, <1>3 DEF DeliverStop

(* The answer of a load.                                                    *)
LEMMA DeliverStep ==
    ASSUME Inv, NEW s \in Slots, DeliverDashboard(s)
    PROVE  Inv' /\ (View!ViewNext \/ UNCHANGED View!viewVars)
<1>1. /\ net[s].op = "dashboard" /\ Mine(net[s])
      /\ Number(net[s]) = X(s).id
  BY DEF DeliverDashboard, Ready, Mine, Number, X
<1>2. Flags(s) \in SUBSET Flagged /\ "watchTime" \notin Flags(s)
  BY <1>1 DEF Inv, IsNet, Request, Flags, Flagged, BusyFlags
<1>3. ui' \in ShellType
  BY <1>2 DEF DeliverDashboard, Down, Inv, ShellType
<1>4. CASE ~Newest(s)
  <2>1. IsNet(net') /\ Tame(net, net')
    BY <1>4, SettledNet DEF DeliverDashboard, Settle
  <2>2. "watchTime" \in ui.on => "watchTime" \in ui'.on
    BY <1>2, <1>4 DEF DeliverDashboard, Down, Inv, ShellType
  <2>3. dash' = dash
    BY <1>4 DEF DeliverDashboard
  <2> QED BY <1>3, <2>1, <2>2, <2>3, QuietStep DEF Quietly
<1>5. CASE Newest(s) /\ Succeeded(s)
  <2>1. Number(net[s]) = dash.asked
    BY <1>1, <1>5 DEF Newest
  <2>2. /\ Day(net[s]) = dash.chosen /\ dash.shown < dash.asked
        /\ net[s].data = Wish(dash.chosen)
    BY <1>1, <1>5, <2>1 DEF Inv, Questions, Succeeded
  <2>3. Wish(dash.chosen) \in Days
    BY WishIsDay DEF Inv, DashType
  <2>4. /\ dash' \in DashType
        /\ dash'.asked = dash.asked /\ dash'.shown = dash.asked
        /\ dash'.chosen = dash.chosen /\ dash'.date = Wish(dash.chosen)
    BY <1>1, <1>5, <2>1, <2>2, <2>3 DEF DeliverDashboard, Inv, DashType
  <2>5. net' = Settled(s)
    BY <1>5 DEF DeliverDashboard, Settle
  <2>6. IsNet(net') /\ Tame(net, net')
    BY <2>5, SettledNet
  <2>7. \A t \in Slots : Mine(net'[t]) => t # s /\ net'[t] = net[t]
    BY <2>5, IdleRequest DEF Settled, Inv, IsNet
  <2>8. \A t \in Slots : Mine(net'[t]) => Number(net'[t]) # dash.asked
    BY <1>1, <2>1, <2>7 DEF Inv, Questions
  <2>9. Questions(net', dash')
    <3>1. \A t \in Slots : Mine(net'[t]) =>
             /\ Number(net'[t]) \in Nat
             /\ Number(net'[t]) <= dash.asked
             /\ net'[t].status = "ok" => net'[t].data = Wish(Day(net'[t]))
      BY <2>7 DEF Inv, Questions
    <3> QED BY <2>4, <2>8, <3>1 DEF Questions
  <2>10. Inv'
    BY <1>3, <2>4, <2>6, <2>9 DEF Inv, DateInv, DashType
  <2>11. View!Show
    BY <2>2, <2>4 DEF View!Show
  <2> QED BY <2>10, <2>11 DEF View!ViewNext
<1>6. CASE Newest(s) /\ ~Succeeded(s)
  <2>1. /\ dash' \in DashType
        /\ dash'.asked = dash.asked /\ dash'.shown = dash.shown
        /\ dash'.chosen = dash.chosen /\ dash'.date = dash.date
        /\ dash'.watchError = (dash.watchError \/ "watchTime" \in ui.on)
    BY <1>6 DEF DeliverDashboard, Inv, DashType
  <2>2. IsNet(net') /\ Tame(net, net')
    BY <1>6, SettledNet, AbandonedNet DEF DeliverDashboard, Settle
  <2>3. Questions(net', dash')
    BY <2>1, <2>2, QuestionsKept
  <2>4. Inv'
    BY <1>3, <2>1, <2>2, <2>3 DEF Inv, DateInv
  <2>5. UNCHANGED View!viewVars
    BY <2>1 DEF View!viewVars, Wish
  <2> QED BY <2>4, <2>5
<1> QED BY <1>4, <1>5, <1>6

LEMMA DashboardStepInv ==
    ASSUME Inv, DashboardStep PROVE Inv' /\ (View!ViewNext \/ UNCHANGED View!viewVars)
<1>1. CASE StopSession
  <2>1. {"busy"} \in SUBSET Flagged
    BY DEF Flagged, BusyFlags
  <2> QED BY <1>1, <2>1, Begun, QuietStep DEF StopSession, Run
<1>2. ASSUME NEW s \in Slots, ServeDashboard(s)
      PROVE  Inv' /\ UNCHANGED View!viewVars
  <2>1. \A status, value :
           /\ status = "ok" /\ Mine(net[s]) => value = Wish(Day(net[s]))
           /\ Answer(s, status, value)
           => Inv' /\ UNCHANGED View!viewVars
    BY <1>2, Served, QuietStep DEF ServeDashboard
  <2>2. (IF X(s).day = None THEN Today ELSE X(s).day) = Wish(Day(net[s]))
    BY DEF X, Day, Wish
  <2>3. CASE net[s].op = "dashboard"
    BY <1>2, <2>1, <2>2, <2>3 DEF ServeDashboard, Arrived
  <2>4. CASE net[s].op = "stop"
    BY <1>2, <2>1, <2>4 DEF ServeDashboard, Arrived, Mine
  <2> QED BY <1>2, <2>3, <2>4 DEF ServeDashboard, Arrived
<1> QED BY <1>1, <1>2, LoadFirstStep, PollStep, RefreshStep, ChangeDateStep, StopStep, DeliverStep
        DEF DashboardStep, DashboardClick, DashboardDelivery

(***************************************************************************)
(* The theorems.                                                            *)
(***************************************************************************)
LEMMA InitInv == AdminInit => Inv /\ View!ViewInit
<1> SUFFICES ASSUME AdminInit PROVE Inv /\ View!ViewInit
  OBVIOUS
<1>1. dash \in DashType /\ dash.shown <= dash.asked /\ dash.date = None /\ dash.asked = 0
  BY DEF AdminInit, FreshDash, DashType
<1>2. ui \in ShellType
  BY DEF AdminInit, FreshShell, ShellType, Flagged
<1>3. \A s \in Slots : Request(net[s]) /\ ~Mine(net[s])
  BY IdleRequest, CsrfRequest DEF AdminInit
<1>4. IsNet(net) /\ Questions(net, dash)
  BY <1>3 DEF IsNet, Questions, AdminInit
<1>5. View!ViewInit
  BY DEF View!ViewInit, AdminInit, FreshDash, Wish
<1> QED BY <1>1, <1>2, <1>4, <1>5 DEF Inv, DateInv

LEMMA NextInv ==
    ASSUME Inv, [AdminNext]_vars
    PROVE  Inv' /\ (View!ViewNext \/ UNCHANGED View!viewVars)
<1>1. CASE ShellStep /\ UNCHANGED <<dash, deskVars, confVars>>
  BY <1>1, ShellQuiet, QuietStep
<1>2. CASE DashboardStep
  BY <1>2, DashboardStepInv
<1>3. CASE DeskStep /\ UNCHANGED <<dash, confVars>>
  BY <1>3, DeskQuiet, QuietStep
<1>4. CASE SettingsStep /\ UNCHANGED <<dash, deskVars>>
  BY <1>4, SettingsQuiet, QuietStep
<1>5. CASE /\ SessionEnds \/ \E s \in Slots : Denied(s) \/ Lost(s)
           /\ UNCHANGED <<ui, dash, deskVars, confVars>>
  BY <1>5, OutsideQuiet, QuietStep
<1>6. CASE UNCHANGED vars
  <2>1. UNCHANGED <<net, ui, dash>>
    BY <1>6 DEF vars, browserVars
  <2>2. Quietly
    BY <2>1, TameSame DEF Quietly, Inv
  <2> QED BY <2>2, QuietStep
<1> QED BY <1>1, <1>2, <1>3, <1>4, <1>5, <1>6 DEF AdminNext

(* Every reachable state of the console has the inductive invariant: of the *)
(* dashboard's loads on their way (AdminApp.vue, loadDashboard) at most one *)
(* has the newest number, it asks for the chosen day, and every answer is   *)
(* for the day of its question.                                             *)
THEOREM Invariance == AdminSpec => []Inv
BY InitInv, NextInv, PTL DEF AdminSpec

(* The dashboard implements LatestView (AdminApp.vue, loadDashboard): every *)
(* step of the console asks a question, shows the newest one's answer, or   *)
(* leaves the view alone.                                                   *)
THEOREM DashboardRefines == AdminSpec => ShowsLatest
<1>1. AdminInit => View!ViewInit
  BY InitInv
<1>2. Inv /\ [AdminNext]_vars => [View!ViewNext]_(View!viewVars)
  BY NextInv
<1> QED BY <1>1, <1>2, Invariance, PTL DEF AdminSpec, ShowsLatest, View!ViewSpec

(* Without a spinner and an error the date on the dashboard is the chosen   *)
(* one (AdminApp.vue, selectWatchDate, returnToToday and loadDashboard).    *)
THEOREM DateShown == AdminSpec => []ShownDateIsChosen
<1>1. Inv => ShownDateIsChosen
  BY DEF Inv, DateInv, ShownDateIsChosen, OnScreen
<1> QED BY <1>1, Invariance, PTL

(***************************************************************************)
(* The preview of the scan image: its invariant is inductive once it is     *)
(* known of which fields `conf' consists.                                   *)
(***************************************************************************)
Fields(c) == DOMAIN c = {"secret", "toggle", "configured", "channel",
                         "meta", "src", "preview", "alive"}

Sound(c) == /\ Fields(c)
            /\ c.alive = {c.preview} \ {None}
            /\ c.src \in {None, ServerUrl, c.preview}

(* No preview is left.                                                      *)
Bare(c) == Fields(c) /\ c.alive = {} /\ c.preview = None

LEMMA Released == ASSUME NEW c, Sound(c) PROVE Bare(ReleasePreview(c))
<1> DEFINE e == [c EXCEPT !.alive = c.alive \ {c.preview}]
<1>1. Fields(e) /\ e.alive = {}
  BY DEF Sound, Fields
<1>2. ReleasePreview(c) = [e EXCEPT !.preview = None]
  BY DEF ReleasePreview
<1> HIDE DEF e
<1> QED BY <1>1, <1>2 DEF Bare, Fields

LEMMA SourceSet ==
    ASSUME NEW c, Fields(c), c.alive = {c.preview} \ {None}, NEW v \in {None, ServerUrl, c.preview}
    PROVE  Sound([c EXCEPT !.src = v])
BY DEF Sound, Fields

LEMMA MetaSet ==
    ASSUME NEW c, Bare(c) \/ Sound(c), NEW meta
    PROVE  Sound(SetMeta(c, meta))
<1> DEFINE e == [c EXCEPT !.meta = meta]
<1>1. Fields(e) /\ e.alive = {e.preview} \ {None}
  BY DEF Bare, Sound, Fields
<1>2. SetMeta(c, meta) = [e EXCEPT !.src = ServerImage(meta)]
  BY DEF SetMeta
<1>3. ServerImage(meta) \in {None, ServerUrl, e.preview}
  BY DEF ServerImage
<1> HIDE DEF e
<1> QED BY <1>1, <1>2, <1>3, SourceSet

LEMMA Previewed == ASSUME NEW c, Bare(c) PROVE Sound(WithPreview(c))
<1> DEFINE u == CHOOSE n \in 1..(Cardinality(c.alive) + 1) : n \notin c.alive
           e == [c EXCEPT !.alive = c.alive \cup {u}]
           f == [e EXCEPT !.preview = u]
<1>1. u # None
  <2>1. Cardinality({}) = 0
    BY FS_EmptySet
  <2>2. \E n \in 1..(0 + 1) : n \notin {}
    OBVIOUS
  <2>3. u \in 1..(0 + 1)
    BY <2>1, <2>2 DEF Bare
  <2> HIDE DEF u
  <2> QED BY <2>3, BrowserAssumption
<1> HIDE DEF u
<1>2. Fields(e) /\ e.alive = {u}
  BY DEF Bare, Fields
<1>3. WithPreview(c) = [f EXCEPT !.src = u]
  BY DEF WithPreview, u
<1> HIDE DEF e
<1>4. Fields(f) /\ f.alive = {f.preview} \ {None} /\ f.preview = u
  BY <1>1, <1>2 DEF Fields
<1> HIDE DEF f
<1> QED BY <1>3, <1>4, SourceSet

LEMMA PreviewInit == AdminInit => Sound(conf)
<1>1. AdminInit => conf = FreshConf
  BY DEF AdminInit, ConfInit
<1>2. Fields(FreshConf)
  BY DEF FreshConf, Fields
<1>3. FreshConf.alive = {} /\ FreshConf.preview = None /\ FreshConf.src = None
  BY DEF FreshConf
<1> QED BY <1>1, <1>2, <1>3 DEF Sound

(* What does not touch the image.                                           *)
LEMMA ImageKept ==
    ASSUME Sound(conf), Fields(conf'),
           conf'.alive = conf.alive, conf'.preview = conf.preview, conf'.src = conf.src
    PROVE  Sound(conf')
BY DEF Sound

LEMMA PreviewStep == ASSUME Sound(conf), [AdminNext]_vars PROVE Sound(conf')
<1>1. CASE conf' = conf
  BY <1>1
<1>2. CASE TypeSecret \/ SetNotificationToggle \/ CloseNotificationDialog
           \/ \E c \in {"telegram", "wecom"} : OpenNotificationDialog(c)
  BY <1>2, ImageKept
     DEF TypeSecret, SetNotificationToggle, CloseNotificationDialog, OpenNotificationDialog,
         Sound, Fields
<1>3. CASE UploadActivationImage
  BY <1>3, Released, Previewed DEF UploadActivationImage
<1>4. ASSUME NEW s \in Slots, DeliverMeta(s)
      PROVE  Sound(conf')
  BY <1>4, MetaSet DEF DeliverMeta
<1>5. ASSUME NEW s \in Slots, DeliverUpload(s)
      PROVE  Sound(conf')
  <2>1. CASE Succeeded(s)
    BY <1>5, <2>1, Released, MetaSet DEF DeliverUpload
  <2>2. CASE ~Succeeded(s)
    <3>1. conf' = [ReleasePreview(conf) EXCEPT !.src = ServerImage(conf.meta)]
      BY <1>5, <2>2 DEF DeliverUpload
    <3>2. Bare(ReleasePreview(conf))
      BY Released
    <3>3. ServerImage(conf.meta) \in {None, ServerUrl, ReleasePreview(conf).preview}
      BY DEF ServerImage
    <3> QED BY <3>1, <3>2, <3>3, SourceSet DEF Bare
  <2> QED BY <2>1, <2>2
<1>6. ASSUME NEW s \in Slots, DeliverClear(s)
      PROVE  Sound(conf')
  BY <1>6, Released, MetaSet DEF DeliverClear
<1>7. ASSUME NEW s \in Slots, DeliverForm(s)
      PROVE  Sound(conf')
  <2>1. CASE conf' = conf
    BY <2>1
  <2>2. CASE conf' = [conf EXCEPT !.secret = "", !.toggle = net[s].data.toggle,
                                  !.configured = net[s].data.configured]
    <3> DEFINE a == [conf EXCEPT !.secret = ""]
               b == [a EXCEPT !.toggle = net[s].data.toggle]
    <3>1. Fields(a) /\ a.alive = conf.alive /\ a.preview = conf.preview /\ a.src = conf.src
      BY DEF Sound, Fields
    <3>2. conf' = [b EXCEPT !.configured = net[s].data.configured]
      BY <2>2
    <3> HIDE DEF a
    <3>3. Fields(b) /\ b.alive = conf.alive /\ b.preview = conf.preview /\ b.src = conf.src
      BY <3>1 DEF Fields
    <3> HIDE DEF b
    <3>4. Fields(conf') /\ conf'.alive = conf.alive /\ conf'.preview = conf.preview
          /\ conf'.src = conf.src
      BY <3>2, <3>3 DEF Fields
    <3> QED BY <3>4, ImageKept
  <2> QED BY <1>7, <2>1, <2>2 DEF DeliverForm
<1> USE <1>1, <1>2, <1>3, <1>4, <1>5, <1>6, <1>7
<1>8. CASE SettingsClick
  BY <1>8 DEF SettingsClick, SaveSettings, SaveNotificationChannel, ClearNotificationChannel,
              TestSetting, WecomMenu, ClearActivationImage, confVars
<1>9. ASSUME NEW s \in Slots, SettingsDelivery(s) \/ ServeSettings(s)
      PROVE  Sound(conf')
  BY <1>9 DEF SettingsDelivery, DeliverSettings, DeliverTask, ServeSettings, confVars
<1>10. CASE UNCHANGED confVars
  BY <1>10 DEF confVars
<1>11. CASE UNCHANGED vars
  BY <1>11, <1>10 DEF vars
<1> QED BY <1>8, <1>9, <1>10, <1>11 DEF AdminNext, SettingsStep

(* The preview that the settings page shows has never been revoked, and no  *)
(* other one is alive (AdminApp.vue, releaseActivationPreview and its       *)
(* callers), for any number of requests whose answers overlap.              *)
THEOREM PreviewAlive == AdminSpec => []NoRevokedPreview
<1>1. AdminInit => Sound(conf)
  BY PreviewInit
<1>2. Sound(conf) /\ [AdminNext]_vars => Sound(conf)'
  BY PreviewStep
<1>3. Sound(conf) => NoRevokedPreview
  BY DEF Sound, NoRevokedPreview
<1> QED BY <1>1, <1>2, <1>3, PTL DEF AdminSpec
=============================================================================
