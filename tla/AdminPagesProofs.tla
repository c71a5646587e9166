-------------------------- MODULE AdminPagesProofs --------------------------
(***************************************************************************)
(* Proofs about the pages of the admin console, for any number of requests  *)
(* in flight: every busy flag that is looked at has exactly one handler     *)
(* that will take it down, no spinner turns without an answer to come, a    *)
(* form is written to the user it is of, verdicts that are shown were given, *)
(* only the clearing of a channel erases its credential, and every variable *)
(* keeps its type.                                                          *)
(***************************************************************************)
EXTENDS AdminProofs

(***************************************************************************)
(* Of which fields the records of the pages consist.                        *)
(***************************************************************************)
Shapes == /\ DOMAIN dialog = {"list", "open", "user", "form"}
          /\ DOMAIN dialog.form = {"of", "friend", "crossed"}
          /\ DOMAIN detail = {"list", "group", "status", "work"}
          /\ DOMAIN cfg = {"secret", "toggle", "image"}
          /\ Fields(conf)

LEMMA ShapesInit == AdminInit => Shapes
BY PreviewInit DEF Sound, AdminInit, DeskInit, ConfInit, FreshDialog, FreshDetail, Shapes

LEMMA DialogShape ==
    ASSUME Shapes, DeskStep
    PROVE  DOMAIN dialog' = DOMAIN dialog /\ DOMAIN dialog'.form = DOMAIN dialog.form
<1>1. CASE UNCHANGED dialog
  BY <1>1
<1>2. ASSUME NEW u \in People, OpenUserDetails(u)
      PROVE  DOMAIN dialog' = DOMAIN dialog /\ DOMAIN dialog'.form = DOMAIN dialog.form
  BY <1>2 DEF OpenUserDetails, Shapes
<1>3. CASE EditUser \/ CloseUserDetails
  BY <1>3 DEF EditUser, CloseUserDetails, Shapes
<1>4. ASSUME NEW s \in Slots, DeskDelivery(s)
      PROVE  DOMAIN dialog' = DOMAIN dialog /\ DOMAIN dialog'.form = DOMAIN dialog.form
  BY <1>4 DEF DeskDelivery, DeliverUser, DeliverPatch, DeliverDelete, DeliverTmdb,
              DeliverDecision, DeliverLists, Reselected, deskVars, Shapes
<1> QED BY <1>1, <1>2, <1>3, <1>4
        DEF DeskStep, DeskClick, SaveUserDetails, DeleteSelectedUser, CloseRequestDetails,
            DeleteUser, OpenRequestDetails, Decide, deskVars, DeskElsewhere, ServeDesk

LEMMA DecidedShape == ASSUME NEW d, NEW x PROVE DOMAIN Decided(d, x) = DOMAIN d
BY DEF Decided

LEMMA DetailShape == ASSUME Shapes, DeskStep PROVE DOMAIN detail' = DOMAIN detail
<1>1. CASE UNCHANGED detail
  BY <1>1
<1>2. CASE \/ CloseRequestDetails
           \/ \E g \in Groups : OpenRequestDetails(g)
           \/ \E s \in Slots : DeliverTmdb(s)
  BY <1>2 DEF CloseRequestDetails, OpenRequestDetails, DeliverTmdb
<1>3. ASSUME NEW s \in Slots, DeliverLists(s)
      PROVE  DOMAIN detail' = DOMAIN detail
  <2>1. \A d : DOMAIN AfterRun(s, d) = DOMAIN d
    BY DecidedShape DEF AfterRun
  <2>2. DOMAIN [detail EXCEPT !.list = net[s].data] = DOMAIN detail
    OBVIOUS
  <2> QED BY <1>3, <2>1, <2>2 DEF DeliverLists
<1> QED BY <1>1, <1>2, <1>3
        DEF DeskStep, DeskClick, DeskDelivery, EditUser, CloseUserDetails, SaveUserDetails,
            DeleteSelectedUser, OpenUserDetails, DeleteUser, Decide, deskVars, DeskElsewhere,
            ServeDesk, DeliverUser, DeliverPatch, DeliverDelete, DeliverDecision

LEMMA CfgShape == ASSUME SettingsStep PROVE DOMAIN cfg' = DOMAIN cfg
<1>1. CASE UNCHANGED cfg
  BY <1>1
<1>2. ASSUME NEW s \in Slots, ServeSettings(s)
      PROVE  DOMAIN cfg' = DOMAIN cfg
  BY <1>2 DEF ServeSettings, Saved
<1> QED BY <1>1, <1>2
        DEF SettingsStep, SettingsClick, SettingsDelivery, TypeSecret, SetNotificationToggle,
            Typed, SaveSettings, CloseNotificationDialog, SaveNotificationChannel, Local,
            ClearNotificationChannel, TestSetting, WecomMenu, UploadActivationImage,
            ClearActivationImage, OpenNotificationDialog, confVars, DeliverSettings,
            DeliverTask, DeliverForm, DeliverMeta, DeliverUpload, DeliverClear

(* Soundness of the preview says of which fields `conf' consists.           *)
LEMMA ShapesNext == ASSUME Shapes, Sound(conf), [AdminNext]_vars PROVE Shapes'
<1>1. Fields(conf')
  BY PreviewStep DEF Sound
<1>2. UNCHANGED dialog \/ DeskStep
  BY DEF AdminNext, vars, deskVars
<1>3. UNCHANGED detail \/ DeskStep
  BY DEF AdminNext, vars, deskVars
<1>4. UNCHANGED cfg \/ SettingsStep
  BY DEF AdminNext, vars, confVars
<1> QED BY <1>1, <1>2, <1>3, <1>4, DialogShape, DetailShape, CfgShape DEF Shapes

(***************************************************************************)
(* The inductive invariant of the flags.                                    *)
(***************************************************************************)
(* The flags that the page takes down when it has the request's answer.     *)
Borne(r) == IF r.op \notin {"none", "csrf"} /\ r.owner = "page" THEN r.arg.flags ELSE {}

(* A busy flag that is up has a bearer, a guarded one has exactly one, and  *)
(* none when it is down.                                                    *)
OneBearer(n, u, f) ==
    IF f \in u.on THEN \E s \in Slots : \A t \in Slots : f \in Borne(n[t]) <=> t = s
    ELSE \A t \in Slots : f \notin Borne(n[t])

SomeBearer(n, u, f) == f \in u.on => \E s \in Slots : f \in Borne(n[s])

Held(n, u, f) == IF f \in Unguarded THEN SomeBearer(n, u, f) ELSE OneBearer(n, u, f)

Turning(p, u) == \/ p \in Resources \cup {"dashboard"} /\ "loading" \in u.on
                 \/ p = "dashboard" /\ "watchTime" \in u.on

(* The answer that ends with the spinner's stop.                            *)
Stopping(p, d, r) ==
    /\ r.owner = "page"
    /\ \/ r.op = "csrf"
       \/ p = "dashboard" /\ Mine(r) /\ Number(r) = d.asked
       \/ p # "dashboard" /\ "loading" \in Borne(r)

Spinner == Turning(page, ui) => \E s \in Slots : Stopping(page, dash, net[s])

FlagInv == /\ page # "login" => \A f \in BusyFlags : Held(net, ui, f)
           /\ Spinner

(***************************************************************************)
(* One slot's request is exchanged for another one.                         *)
(***************************************************************************)
LEMMA BearerExchanged ==
    ASSUME Inv, NEW s \in Slots, NEW r, net' = [net EXCEPT ![s] = r],
           NEW f, OneBearer(net, ui, f),
           f \in ui'.on <=> f \in Borne(r) \/ (f \in ui.on /\ f \notin Borne(net[s])),
           f \in Borne(r) => f \in Borne(net[s]) \/ f \notin ui.on
    PROVE  OneBearer(net', ui', f)
<1>1. \A t \in Slots : net'[t] = IF t = s THEN r ELSE net[t]
  BY DEF Inv, IsNet
<1>2. CASE f \in Borne(r)
  <2>1. \A t \in Slots : f \in Borne(net'[t]) <=> t = s
    BY <1>1, <1>2 DEF OneBearer
  <2> QED BY <1>2, <2>1 DEF OneBearer
<1>3. CASE f \notin Borne(r) /\ f \in ui.on /\ f \notin Borne(net[s])
  <2>1. PICK a \in Slots : \A t \in Slots : f \in Borne(net[t]) <=> t = a
    BY <1>3 DEF OneBearer
  <2>2. \A t \in Slots : f \in Borne(net'[t]) <=> t = a
    BY <1>1, <1>3, <2>1
  <2> QED BY <1>3, <2>2 DEF OneBearer
<1>4. CASE f \notin Borne(r) /\ (f \notin ui.on \/ f \in Borne(net[s]))
  <2>1. \A t \in Slots : f \notin Borne(net'[t])
    BY <1>1, <1>4 DEF OneBearer
  <2> QED BY <1>4, <2>1 DEF OneBearer
<1> QED BY <1>2, <1>3, <1>4

LEMMA FlagsExchanged ==
    ASSUME Inv, NEW s \in Slots, NEW r, net' = [net EXCEPT ![s] = r],
           NEW f, Held(net, ui, f),
           f \in ui'.on <=> f \in Borne(r) \/ (f \in ui.on /\ f \notin Borne(net[s])),
           f \in Borne(r) /\ f \notin Unguarded => f \in Borne(net[s]) \/ f \notin ui.on
    PROVE  Held(net', ui', f)
<1>1. CASE f \in Unguarded
  <2>1. SomeBearer(net, ui, f)
    BY <1>1 DEF Held
  <2>2. \A t \in Slots : net'[t] = IF t = s THEN r ELSE net[t]
    BY DEF Inv, IsNet
  <2>3. SomeBearer(net', ui', f)
    BY <2>1, <2>2 DEF SomeBearer
  <2> QED BY <1>1, <2>3 DEF Held
<1>2. CASE f \notin Unguarded
  <2>1. OneBearer(net, ui, f)
    BY <1>2 DEF Held
  <2>2. OneBearer(net', ui', f)
    BY <1>2, <2>1, BearerExchanged
  <2> QED BY <1>2, <2>2 DEF Held
<1> QED BY <1>1, <1>2

(* The page goes on with the requests that it had; a token may be new.      *)
Same(r, q) == /\ r.owner = "page" /\ r.op # "none" =>
                    q.owner = "page" /\ q.op = r.op /\ q.arg = r.arg
              /\ q.owner = "page" /\ q.op # "none" =>
                    q.op = "csrf" \/ (r.owner = "page" /\ r.op # "none")

LEMMA FlagsKept ==
    ASSUME FlagInv, \A s \in Slots : Same(net[s], net'[s]),
           UNCHANGED <<page, ui.on, dash.asked>>
    PROVE  FlagInv'
<1>1. \A s \in Slots : Borne(net'[s]) = Borne(net[s])
  BY DEF Same, Borne
<1>2. \A s \in Slots : Stopping(page, dash, net[s]) => Stopping(page', dash', net'[s])
  BY DEF Same, Stopping, Mine, Number, Borne
<1>3. ASSUME NEW f, Held(net, ui, f)
      PROVE  Held(net', ui', f)
  BY <1>1, <1>3 DEF Held, OneBearer, SomeBearer
<1>4. Spinner'
  BY <1>2 DEF FlagInv, Spinner, Turning
<1> QED BY <1>3, <1>4 DEF FlagInv

LEMMA AwayFlags == ASSUME FlagInv, page' = "login", UNCHANGED <<ui>> PROVE FlagInv'
BY DEF FlagInv, Spinner, Turning, Resources

(***************************************************************************)
(* The operations of a handler.                                             *)
(***************************************************************************)
(* A request in a slot that bears no flag brings its own, which were down.  *)
LEMMA RaisedFlags ==
    ASSUME Inv, FlagInv, NEW s \in Slots, Borne(net[s]) = {},
           NEW r, net' = [net EXCEPT ![s] = r], page' = page,
           \A f \in BusyFlags : f \in ui'.on <=> f \in ui.on \/ f \in Borne(r),
           \A f \in BusyFlags \ Unguarded : f \in Borne(r) => f \notin ui.on,
           Spinner'
    PROVE  FlagInv'
<1>1. ASSUME page # "login", NEW f \in BusyFlags
      PROVE  Held(net', ui', f)
  <2>1. Held(net, ui, f)
    BY <1>1 DEF FlagInv
  <2> QED BY <1>1, <2>1, FlagsExchanged
<1> QED BY <1>1 DEF FlagInv

LEMMA TaskBears ==
    ASSUME NEW op, op \notin {"none", "csrf"}, NEW x, NEW flags
    PROVE  Borne(Task(op, x, flags)) = flags /\ Task(op, x, flags).owner = "page"
BY DEF Borne, Task, Fetch

(* ... and it is in nobody's way, unless it brings the spinner and stops it. *)
LEMMA SpinnerKept ==
    ASSUME Inv, FlagInv, NEW s \in Slots, net[s].op = "none",
           NEW op, op \notin {"none", "csrf"}, NEW x, NEW flags \in SUBSET Flagged,
           net' = [net EXCEPT ![s] = Task(op, x, flags)],
           ui'.on = ui.on \cup flags, UNCHANGED <<page, dash>>,
           "loading" \in flags => page # "dashboard"
    PROVE  Spinner'
<1> DEFINE r == Task(op, x, flags)
<1>1. Borne(r) = flags /\ r.owner = "page"
  BY DEF Borne, Task, Fetch
<1>2. net'[s] = r /\ \A t \in Slots : t # s => net'[t] = net[t]
  BY DEF Inv, IsNet
<1> HIDE DEF r
<1>3. ~Stopping(page, dash, net[s])
  BY DEF Stopping, Mine, Borne
<1>4. CASE Turning(page, ui)
  BY <1>2, <1>3, <1>4 DEF FlagInv, Spinner
<1>5. CASE ~Turning(page, ui) /\ Turning(page', ui')
  <2>1. "watchTime" \notin flags
    BY DEF Flagged, BusyFlags
  <2>2. "loading" \in flags
    BY <1>5, <2>1 DEF Turning
  <2> QED BY <1>1, <1>2, <2>2 DEF Spinner, Stopping
<1> QED BY <1>4, <1>5 DEF Spinner

LEMMA SentFlags ==
    ASSUME Inv, FlagInv,
           NEW op, op \notin {"none", "csrf"}, NEW x, NEW flags \in SUBSET Flagged,
           Send(Task(op, x, flags)), ui'.on = ui.on \cup flags, UNCHANGED <<page, dash>>,
           \A f \in BusyFlags \ Unguarded : f \in flags => f \notin ui.on,
           "loading" \in flags => page # "dashboard"
    PROVE  FlagInv'
<1>1. PICK s \in Slots : net[s].op = "none" /\ net' = [net EXCEPT ![s] = Task(op, x, flags)]
  BY DEF Send, With, Free
<1>2. Borne(net[s]) = {}
  BY <1>1 DEF Borne
<1>3. Spinner'
  BY <1>1, SpinnerKept
<1> DEFINE r == Task(op, x, flags)
<1>4. Borne(r) = flags /\ net' = [net EXCEPT ![s] = r]
  BY <1>1, TaskBears
<1> HIDE DEF r
<1> QED BY <1>2, <1>3, <1>4, RaisedFlags

LEMMA BegunFlags ==
    ASSUME Inv, FlagInv,
           NEW op, op \notin {"none", "csrf"}, NEW x, NEW flags \in SUBSET Flagged,
           Begin(op, x, flags), dash' = dash,
           \A f \in BusyFlags \ Unguarded : f \in flags => f \notin ui.on,
           "loading" \in flags => page # "dashboard"
    PROVE  FlagInv'
<1>1. ui'.on = ui.on \cup flags
  BY DEF Begin, Up, Inv, ShellType
<1> QED BY <1>1, SentFlags DEF Begin, clickVars

(* The handler takes its flags down.                                        *)
LEMMA FinishedFlags ==
    ASSUME Inv, FlagInv, NEW s \in Slots,
           net[s].op \notin {"none", "csrf", "dashboard"}, net[s].owner = "page",
           Settle(s), ui'.on = ui.on \ Flags(s), UNCHANGED <<page, dash>>
    PROVE  FlagInv'
<1>1. net' = [net EXCEPT ![s] = Idle] /\ DOMAIN net = Slots
  BY DEF Settle, Settled, Inv, IsNet
<1>2. Borne(net[s]) = Flags(s) /\ Borne(Idle) = {}
  BY DEF Borne, Flags, Idle
<1>3. ASSUME page # "login", NEW f \in BusyFlags
      PROVE  Held(net', ui', f)
  <2>1. Held(net, ui, f)
    BY <1>3 DEF FlagInv
  <2> QED BY <1>1, <1>2, <1>3, <2>1, FlagsExchanged
<1>4. \A t \in Slots : t # s => net'[t] = net[t]
  BY <1>1
<1>5. Spinner'
  <2>1. CASE Turning(page', ui')
    <3>1. PICK t \in Slots : Stopping(page, dash, net[t])
      BY <2>1 DEF FlagInv, Spinner, Turning
    <3>2. t # s
      <4>1. CASE page = "dashboard"
        BY <3>1, <4>1 DEF Stopping, Mine
      <4>2. CASE page # "dashboard"
        <5>1. "loading" \notin Flags(s)
          BY <2>1, <4>2 DEF Turning
        <5> QED BY <1>2, <3>1, <4>2, <5>1 DEF Stopping
      <4> QED BY <4>1, <4>2
    <3> QED BY <1>4, <3>1, <3>2 DEF Spinner
  <2>2. CASE ~Turning(page', ui')
    BY <2>2 DEF Spinner
  <2> QED BY <2>1, <2>2
<1> QED BY <1>3, <1>5 DEF FlagInv

(* The handler goes on with another request, and hands its flags over.      *)
LEMMA FollowedFlags ==
    ASSUME Inv, FlagInv, NEW s \in Slots,
           net[s].op \notin {"none", "csrf", "dashboard"}, net[s].owner = "page",
           NEW op, op \notin {"none", "csrf"}, NEW x,
           Follow(s, Task(op, x, Flags(s))), UNCHANGED <<page, ui, dash>>
    PROVE  FlagInv'
<1> DEFINE r == Task(op, x, Flags(s))
<1>1. net' = [net EXCEPT ![s] = r] /\ DOMAIN net = Slots
  BY DEF Follow, Inv, IsNet
<1>2. Borne(net[s]) = Flags(s) /\ Borne(r) = Flags(s) /\ r.owner = "page"
  BY DEF Borne, Flags, Task, Fetch
<1> HIDE DEF r
<1>3. \A t \in Slots : Borne(net'[t]) = Borne(net[t])
  BY <1>1, <1>2
<1>4. ASSUME NEW f, Held(net, ui, f)
      PROVE  Held(net', ui', f)
  BY <1>3, <1>4 DEF Held, OneBearer, SomeBearer
<1>5. \A t \in Slots : Stopping(page, dash, net[t]) => Stopping(page', dash', net'[t])
  BY <1>1, <1>2 DEF Stopping, Mine
<1>6. Spinner'
  BY <1>5 DEF FlagInv, Spinner
<1> QED BY <1>4, <1>6 DEF FlagInv

LEMMA FinishFlags ==
    ASSUME Inv, FlagInv, NEW s \in Slots,
           net[s].op \notin {"none", "csrf", "dashboard"}, net[s].owner = "page",
           Finish(s), UNCHANGED <<dash>>
    PROVE  FlagInv'
<1>1. ui'.on = ui.on \ Flags(s)
  BY DEF Finish, Down, Inv, ShellType
<1> QED BY <1>1, FinishedFlags DEF Finish, answerVars, clickVars

LEMMA ReloadFlags ==
    ASSUME Inv, FlagInv, NEW s \in Slots,
           net[s].op \notin {"none", "csrf", "dashboard"}, net[s].owner = "page",
           Reload(s), UNCHANGED <<dash>>
    PROVE  FlagInv'
BY FollowedFlags DEF Reload, answerVars, clickVars

LEMMA RunFailedFlags ==
    ASSUME Inv, FlagInv, NEW s \in Slots,
           net[s].op \notin {"none", "csrf", "dashboard"}, net[s].owner = "page",
           RunFailed(s), UNCHANGED <<dash>>
    PROVE  FlagInv'
BY FinishFlags, AwayFlags DEF RunFailed, ToLogin

(* An answer of the server, a connection that breaks, and a free slot that  *)
(* gets another request for the token.                                      *)
LEMMA AnswerFlags ==
    ASSUME Inv, FlagInv, NEW s \in Slots, NEW status, NEW value,
           Answer(s, status, value), UNCHANGED <<page, ui, dash>>
    PROVE  FlagInv'
<1>1. \A t \in Slots : t # s => net'[t] = net[t]
  BY DEF Answer, Answered, Inv, IsNet
<1>2. CASE net[s].owner = "page"
  <2>1. net'[s].op = net[s].op /\ net'[s].owner = net[s].owner /\ net'[s].arg = net[s].arg
    BY <1>2 DEF Answer, Answered, Inv, IsNet, Request
  <2> QED BY <1>1, <2>1, FlagsKept DEF Same
<1>3. CASE net[s].owner # "page"
  <2>1. net'[s] = Idle
    BY <1>3 DEF Answer, Answered, Inv, IsNet
  <2> QED BY <1>1, <1>3, <2>1, FlagsKept DEF Same, Idle
<1> QED BY <1>2, <1>3

(***************************************************************************)
(* The steps.                                                               *)
(***************************************************************************)
LEMMA ShellFlags ==
    ASSUME Inv, FlagInv, ShellStep, UNCHANGED dash
    PROVE  FlagInv'
<1>1. CASE ReloadResource
  BY <1>1, BegunFlags DEF ReloadResource, Flagged, BusyFlags, FlagInv
<1>2. CASE Refresh
  <2>1. ui'.on = ui.on \cup {"refreshing"}
    BY <1>2 DEF Refresh, Up, Inv, ShellType
  <2>2. {"refreshing"} \in SUBSET Flagged
    BY DEF Flagged, BusyFlags
  <2> QED BY <1>2, <2>1, <2>2, SentFlags DEF Refresh, RefreshGuard, clickVars
<1>3. CASE CooledDown
  <2>1. ui'.on = ui.on /\ net' = net /\ page' = page
    BY <1>3 DEF CooledDown, Inv, ShellType, browserVars, answerVars, clickVars
  <2> QED BY <2>1, FlagsKept DEF Same
<1>4. CASE Manage \/ Logout
  BY <1>4, BegunFlags DEF Manage, Logout, Run, Flagged, BusyFlags
<1>5. CASE BackOnline
  <2>1. \A s \in Slots : Same(net[s], net'[s])
    <3>1. CASE UNCHANGED net
      BY <3>1 DEF Same
    <3>2. CASE Send(Fetch("csrf", None))
      <4>1. PICK s \in Slots : net[s].op = "none" /\ net' = [net EXCEPT ![s] = Fetch("csrf", None)]
        BY <3>2 DEF Send, With, Free
      <4> QED BY <4>1 DEF Same, Fetch, Inv, IsNet
    <3> QED BY <1>5, <3>1, <3>2 DEF BackOnline
  <2> QED BY <1>5, <2>1, FlagsKept DEF BackOnline
<1>6. ASSUME NEW s \in Slots, DeliverToken(s)
      PROVE  FlagInv'
  <2> DEFINE r == Task("resource", None, {"loading"})
  <2>1. net[s].op = "csrf" /\ Borne(net[s]) = {} /\ page # "dashboard"
    BY <1>6 DEF DeliverToken, Ready, Borne, Resources
  <2>2. net' = [net EXCEPT ![s] = r] /\ page' = page /\ ui'.on = ui.on \cup {"loading"}
    BY <1>6 DEF DeliverToken, Follow, answerVars, clickVars, Up, Inv, ShellType
  <2>3. net'[s] = r
    BY <2>2 DEF Inv, IsNet
  <2>4. "loading" \in Borne(r) /\ r.owner = "page"
    BY DEF Borne, Task, Fetch
  <2>5. Spinner'
    BY <2>1, <2>2, <2>3, <2>4 DEF Spinner, Stopping
  <2>6. Borne(r) = {"loading"}
    BY TaskBears
  <2> HIDE DEF r
  <2> QED BY <2>1, <2>2, <2>5, <2>6, RaisedFlags DEF BusyFlags
<1>7. ASSUME NEW s \in Slots, DeliverManage(s)
      PROVE  FlagInv'
  BY <1>7, ReloadFlags, RunFailedFlags DEF DeliverManage, Ready
<1>8. ASSUME NEW s \in Slots, DeliverLogout(s)
      PROVE  FlagInv'
  BY <1>8, AwayFlags, RunFailedFlags DEF DeliverLogout, Ready, ToLogin
<1>9. ASSUME NEW s \in Slots, ServeShell(s)
      PROVE  FlagInv'
  BY <1>9, AnswerFlags DEF ServeShell
<1> QED BY <1>1, <1>2, <1>3, <1>4, <1>5, <1>6, <1>7, <1>8, <1>9 DEF ShellStep

LEMMA DeskFlags ==
    ASSUME Inv, Shapes, FlagInv, DeskStep, UNCHANGED dash
    PROVE  FlagInv'
<1>1. ASSUME NEW u \in People, OpenUserDetails(u) \/ DeleteUser(u)
      PROVE  FlagInv'
  BY <1>1, BegunFlags DEF OpenUserDetails, DeleteUser, deskVars, Run, Flagged, BusyFlags
<1>2. CASE EditUser \/ CloseUserDetails
  BY <1>2, FlagsKept DEF EditUser, CloseUserDetails, browserVars, answerVars, clickVars, Same
<1>3. CASE SaveUserDetails \/ DeleteSelectedUser
  BY <1>3, BegunFlags DEF SaveUserDetails, DeleteSelectedUser, deskVars, Flagged, BusyFlags
<1>4. ASSUME NEW g \in Groups, OpenRequestDetails(g)
      PROVE  FlagInv'
  <2>1. {"requestDetail"} \in SUBSET Flagged
    BY DEF Flagged, BusyFlags
  <2>2. \A f \in BusyFlags \ Unguarded : f \notin {"requestDetail"}
    BY DEF Unguarded
  <2> QED BY <1>4, <2>1, <2>2, BegunFlags DEF OpenRequestDetails
<1>5. ASSUME NEW g \in Groups, NEW v, Decide(g, v)
      PROVE  FlagInv'
  BY <1>5, BegunFlags DEF Decide, deskVars, Run, Flagged, BusyFlags
<1>6. CASE CloseRequestDetails
  BY <1>6, FlagsKept DEF CloseRequestDetails, browserVars, answerVars, clickVars, Same
<1>7. ASSUME NEW s \in Slots, DeliverUser(s)
      PROVE  FlagInv'
  BY <1>7, FinishFlags DEF DeliverUser, Ready
<1>8. ASSUME NEW s \in Slots, DeliverTmdb(s)
      PROVE  FlagInv'
  BY <1>8, FinishFlags DEF DeliverTmdb, Ready
<1>9. ASSUME NEW s \in Slots, DeliverPatch(s)
      PROVE  FlagInv'
  BY <1>9, FinishFlags, ReloadFlags DEF DeliverPatch, Ready, deskVars
<1>10. ASSUME NEW s \in Slots, DeliverDelete(s)
       PROVE  FlagInv'
  BY <1>10, FinishFlags, ReloadFlags, RunFailedFlags DEF DeliverDelete, Ready
<1>11. ASSUME NEW s \in Slots, DeliverDecision(s)
       PROVE  FlagInv'
  BY <1>11, ReloadFlags, RunFailedFlags DEF DeliverDecision, Ready, deskVars
<1>12. ASSUME NEW s \in Slots, DeliverLists(s)
       PROVE  FlagInv'
  <2>1. net[s].op = "resource" /\ net[s].owner = "page"
    BY <1>12 DEF DeliverLists, Ready
  <2>2. CASE ResourceFailed(s)
    BY <2>1, <2>2, FinishFlags, AwayFlags DEF ResourceFailed, ToLogin
  <2>3. CASE ui' = Loaded(s) /\ Settle(s) /\ UNCHANGED answerVars
    <3>1. ui'.on = ui.on \ Flags(s)
      BY <2>3 DEF Loaded, Down, Inv, ShellType
    <3> QED BY <2>1, <2>3, <3>1, FinishedFlags DEF answerVars, clickVars
  <2> QED BY <1>12, <2>2, <2>3 DEF DeliverLists
<1>13. ASSUME NEW s \in Slots, ServeDesk(s)
       PROVE  FlagInv'
  BY <1>13, AnswerFlags DEF ServeDesk, answerVars, clickVars
<1>14. CASE DeskElsewhere
  BY <1>14, FlagsKept DEF DeskElsewhere, clickVars, Same
<1> QED BY <1>1, <1>2, <1>3, <1>4, <1>5, <1>6, <1>7, <1>8, <1>9, <1>10, <1>11, <1>12, <1>13,
           <1>14
        DEF DeskStep, DeskClick, DeskDelivery

(* A new question of the dashboard is the one that stops its spinners.      *)
LEMMA QuestionFlags ==
    ASSUME Inv, FlagInv, NEW s \in Slots, Borne(net[s]) = {}, NEW day, NEW flags,
           net' = [net EXCEPT ![s] = Question(day, flags)],
           \A f \in BusyFlags : f \in ui'.on <=> f \in ui.on \cup flags,
           page = "dashboard", page' = page, dash'.asked = dash.asked + 1,
           \A f \in BusyFlags \ Unguarded : f \in flags => f \notin ui.on
    PROVE  FlagInv'
<1> DEFINE x == [id |-> dash.asked + 1, day |-> day]
           r == Task("dashboard", x, flags)
<1>1. net' = [net EXCEPT ![s] = r]
  BY DEF Question
<1>2. Mine(r) /\ Number(r) = dash'.asked
  BY DEF Mine, Number, Task, Fetch
<1>3. Borne(r) = flags
  BY TaskBears
<1> HIDE DEF r
<1>4. net'[s] = r
  BY <1>1 DEF Inv, IsNet
<1>5. Spinner'
  BY <1>2, <1>4 DEF Spinner, Stopping, Mine
<1> QED BY <1>1, <1>3, <1>5, RaisedFlags

LEMMA DownOn ==
    ASSUME NEW u \in ShellType, NEW flags
    PROVE  Down(u, flags) \in ShellType /\ Down(u, flags).on = u.on \ flags
BY DEF ShellType, Down

LEMMA AskedNumber == ASSUME Inv, NEW day PROVE Asked(day).asked = dash.asked + 1
BY DEF Inv, DashType, Asked

LEMMA DashboardFlags ==
    ASSUME Inv, FlagInv, DashboardStep
    PROVE  FlagInv'
<1>1. CASE Poll
  <2>1. PICK s \in Slots : net[s].op = "none" /\ net' = [net EXCEPT ![s] = Question(dash.chosen, {})]
    BY <1>1 DEF Poll, Send, With, Free
  <2>2. Borne(net[s]) = {}
    BY <2>1 DEF Borne
  <2> QED BY <1>1, <2>1, <2>2, QuestionFlags, AskedNumber DEF Poll, clickVars
<1>2. CASE RefreshDashboard
  <2>1. PICK s \in Slots :
           net[s].op = "none" /\ net' = [net EXCEPT ![s] = Question(dash.chosen, {"refreshing"})]
    BY <1>2 DEF RefreshDashboard, Send, With, Free
  <2>2. Borne(net[s]) = {}
    BY <2>1 DEF Borne
  <2>3. ui'.on = ui.on \cup {"refreshing"} /\ "refreshing" \notin ui.on
    BY <1>2 DEF RefreshDashboard, RefreshGuard, Up, Inv, ShellType
  <2> QED BY <1>2, <2>1, <2>2, <2>3, QuestionFlags, AskedNumber
          DEF RefreshDashboard, clickVars
<1>3. CASE SelectWatchDate \/ ReturnToToday
  <2>1. PICK day : ChangeWatchDate(day) /\ page = "dashboard"
    BY <1>3 DEF SelectWatchDate, ReturnToToday, OnScreen
  <2>2. PICK s \in Slots : net[s].op = "none" /\ net' = [net EXCEPT ![s] = Question(day, {})]
    BY <2>1 DEF ChangeWatchDate, Send, With, Free
  <2>3. Borne(net[s]) = {}
    BY <2>2 DEF Borne
  <2>4. \A f \in BusyFlags : f \in ui'.on <=> f \in ui.on
    BY <2>1 DEF ChangeWatchDate, Up, Inv, ShellType, BusyFlags
  <2>5. dash'.asked = dash.asked + 1
    BY <2>1 DEF ChangeWatchDate, Asked, Inv, DashType
  <2> QED BY <2>1, <2>2, <2>3, <2>4, <2>5, QuestionFlags DEF ChangeWatchDate, clickVars
<1>4. CASE StopSession
  BY <1>4, BegunFlags DEF StopSession, Run, Flagged, BusyFlags
<1>5. ASSUME NEW s \in Slots, LoadFirst(s)
      PROVE  FlagInv'
  <2>1. Borne(net[s]) = {} /\ net' = [net EXCEPT ![s] = Question(dash.chosen, {})]
    BY <1>5 DEF LoadFirst, Ready, Borne, Follow
  <2>2. \A f \in BusyFlags : f \in ui'.on <=> f \in ui.on
    BY <1>5 DEF LoadFirst, Up, Inv, ShellType, BusyFlags
  <2> QED BY <1>5, <2>1, <2>2, QuestionFlags, AskedNumber
          DEF LoadFirst, answerVars, clickVars
<1>6. ASSUME NEW s \in Slots, DeliverStop(s)
      PROVE  FlagInv'
  <2>1. net[s].op = "stop" /\ net[s].owner = "page"
    BY <1>6 DEF DeliverStop, Ready
  <2>2. CASE Quiet /\ Follow(s, Question(dash.chosen, Flags(s))) /\ UNCHANGED <<answerVars, ui>>
    <3> DEFINE r == Question(dash.chosen, Flags(s))
    <3>1. net' = [net EXCEPT ![s] = r] /\ DOMAIN net = Slots /\ page' = page /\ ui' = ui
      BY <2>2 DEF Follow, Inv, IsNet, answerVars, clickVars
    <3>2. Borne(net[s]) = Flags(s) /\ Borne(r) = Flags(s) /\ r.owner = "page"
      BY <2>1 DEF Borne, Flags, Question, Task, Fetch
    <3> HIDE DEF r
    <3>3. \A t \in Slots : Borne(net'[t]) = Borne(net[t])
      BY <3>1, <3>2
    <3>4. ASSUME NEW f, Held(net, ui, f)
          PROVE  Held(net', ui', f)
      BY <3>1, <3>3, <3>4 DEF Held, OneBearer, SomeBearer
    <3>5. Spinner'
      <4>1. CASE page = "dashboard"
        BY <2>2, <3>1, <4>1 DEF Spinner, Turning, Quiet
      <4>2. CASE page # "dashboard"
        <5>1. \A t \in Slots : Stopping(page, dash, net[t]) => Stopping(page', dash', net'[t])
          BY <2>1, <3>1, <3>2, <4>2 DEF Stopping
        <5> QED BY <3>1, <5>1 DEF FlagInv, Spinner
      <4> QED BY <4>1, <4>2
    <3> QED BY <3>1, <3>4, <3>5 DEF FlagInv
  <2>3. CASE UNCHANGED dash /\ (Finish(s) \/ RunFailed(s))
    BY <2>1, <2>3, FinishFlags, RunFailedFlags
  <2> QED BY <1>6, <2>2, <2>3 DEF DeliverStop
<1>7. ASSUME NEW s \in Slots, ServeDashboard(s)
      PROVE  FlagInv'
  BY <1>7, AnswerFlags DEF ServeDashboard, answerVars, clickVars
<1>8. ASSUME NEW s \in Slots, DeliverDashboard(s)
      PROVE  FlagInv'
  <2>1. net[s].op = "dashboard" /\ net[s].owner = "page" /\ DOMAIN net = Slots
    BY <1>8 DEF DeliverDashboard, Ready, Inv, IsNet
  <2>2. CASE page' = "login"
    BY <2>2 DEF FlagInv, Spinner, Turning, Resources
  <2>3. CASE page' = page /\ Settle(s)
    <3>1. net' = [net EXCEPT ![s] = Idle]
      BY <2>3 DEF Settle, Settled
    <3>2. Borne(net[s]) = Flags(s) /\ Borne(Idle) = {}
      BY <2>1 DEF Borne, Flags, Idle
    <3>3. \A f \in BusyFlags : f \in ui'.on <=> f \in ui.on /\ f \notin Flags(s)
      <4> DEFINE rest == Down(ui, Flags(s))
                 done == Down(rest, {"loading", "watchTime"})
      <4>1. rest \in ShellType /\ rest.on = ui.on \ Flags(s)
        BY DownOn DEF Inv
      <4>2. done \in ShellType /\ done.on = rest.on \ {"loading", "watchTime"}
        <5> HIDE DEF rest
        <5> QED BY <4>1, DownOn
      <4>3. ui' = rest \/ ui' = done \/ ui' = [done EXCEPT !.loaded = TRUE]
        BY <1>8 DEF DeliverDashboard
      <4> HIDE DEF rest, done
      <4>4. ui'.on = rest.on \/ ui'.on = done.on
        BY <4>2, <4>3 DEF ShellType
      <4> QED BY <4>1, <4>2, <4>4 DEF BusyFlags
    <3>4. ASSUME page # "login", NEW f \in BusyFlags
          PROVE  Held(net', ui', f)
      <4>1. Held(net, ui, f)
        BY <3>4 DEF FlagInv
      <4> QED BY <3>1, <3>2, <3>3, <4>1, FlagsExchanged
    <3>5. Spinner'
      <4>1. CASE Newest(s)
        <5>1. "loading" \notin ui'.on /\ "watchTime" \notin ui'.on
          BY <1>8, <4>1 DEF DeliverDashboard, Down, Inv, ShellType
        <5> QED BY <5>1 DEF Spinner, Turning
      <4>2. CASE ~Newest(s)
        <5>1. ui'.on = ui.on \ Flags(s) /\ dash' = dash
          BY <1>8, <4>2 DEF DeliverDashboard, Down, Inv, ShellType
        <5>2. CASE Turning(page', ui')
          <6>1. PICK t \in Slots : Stopping(page, dash, net[t])
            BY <2>3, <5>1, <5>2 DEF FlagInv, Spinner, Turning
          <6>2. t # s
            <7>1. CASE page = "dashboard"
              BY <2>1, <4>2, <6>1, <7>1 DEF Stopping, Newest, Number, X
            <7>2. CASE page # "dashboard"
              <8>1. "loading" \notin Flags(s)
                BY <2>3, <5>1, <5>2, <7>2 DEF Turning
              <8> QED BY <2>1, <3>2, <6>1, <7>2, <8>1 DEF Stopping
            <7> QED BY <7>1, <7>2
          <6>3. net'[t] = net[t]
            BY <2>1, <3>1, <6>2
          <6> QED BY <2>3, <5>1, <6>1, <6>3 DEF Spinner
        <5>3. CASE ~Turning(page', ui')
          BY <5>3 DEF Spinner
        <5> QED BY <5>2, <5>3
      <4> QED BY <4>1, <4>2
    <3> QED BY <2>3, <3>4, <3>5 DEF FlagInv
  <2> QED BY <1>8, <2>2, <2>3 DEF DeliverDashboard
<1> QED BY <1>1, <1>2, <1>3, <1>4, <1>5, <1>6, <1>7, <1>8
        DEF DashboardStep, DashboardClick, DashboardDelivery

LEMMA SettingsFlags ==
    ASSUME Inv, FlagInv, SettingsStep, UNCHANGED dash
    PROVE  FlagInv'
<1>1. CASE \/ TypeSecret \/ SetNotificationToggle \/ CloseNotificationDialog
           \/ \E c \in {"telegram", "wecom"} : OpenNotificationDialog(c)
  <2>1. UNCHANGED <<page, net, ui>>
    BY <1>1 DEF TypeSecret, SetNotificationToggle, CloseNotificationDialog,
                OpenNotificationDialog, Typed, Local, browserVars, answerVars, clickVars
  <2> QED BY <2>1, FlagsKept DEF Same
<1>2. CASE SaveSettings \/ SaveNotificationChannel \/ ClearNotificationChannel
  <2>1. CASE SaveSettings
    BY <2>1, BegunFlags DEF SaveSettings, Flagged, BusyFlags
  <2>2. CASE SaveNotificationChannel
    <3> DEFINE flags == {"busy", "notificationDialog"}
    <3>1. Begin("settings", Values, flags) /\ dash' = dash
      BY <2>2 DEF SaveNotificationChannel
    <3>2. flags \in SUBSET Flagged /\ "loading" \notin flags
      BY DEF Flagged, BusyFlags
    <3>3. \A f \in BusyFlags \ Unguarded : f \in flags => f \notin ui.on
      BY <2>2 DEF SaveNotificationChannel, InDialog
    <3>4. "settings" \notin {"none", "csrf"}
      OBVIOUS
    <3> HIDE DEF flags
    <3> QED BY <3>1, <3>2, <3>3, <3>4, BegunFlags
  <2>3. CASE ClearNotificationChannel
    <3>1. PICK x : Begin("settings", x, {"notificationDialog"})
      BY <2>3 DEF ClearNotificationChannel
    <3>2. "notificationDialog" \notin ui.on
      BY <2>3 DEF ClearNotificationChannel, InDialog
    <3> QED BY <3>1, <3>2, BegunFlags DEF Flagged, BusyFlags
  <2> QED BY <1>2, <2>1, <2>2, <2>3
<1>3. CASE TestSetting \/ WecomMenu
  BY <1>3, BegunFlags DEF TestSetting, WecomMenu, InDialog, Flagged, BusyFlags
<1>4. CASE UploadActivationImage \/ ClearActivationImage
  BY <1>4, BegunFlags
     DEF UploadActivationImage, ClearActivationImage, Unguarded, Flagged, BusyFlags
<1>5. ASSUME NEW s \in Slots, DeliverSettings(s)
      PROVE  FlagInv'
  BY <1>5, FinishFlags, ReloadFlags DEF DeliverSettings, Ready
<1>6. ASSUME NEW s \in Slots,
             DeliverTask(s) \/ DeliverMeta(s) \/ DeliverUpload(s) \/ DeliverClear(s)
      PROVE  FlagInv'
  BY <1>6, FinishFlags DEF DeliverTask, DeliverMeta, DeliverUpload, DeliverClear, Ready
<1>7. ASSUME NEW s \in Slots, DeliverForm(s)
      PROVE  FlagInv'
  <2>1. net[s].op = "resource" /\ net[s].owner = "page" /\ page = "settings"
    BY <1>7 DEF DeliverForm, Ready, OnSettings
  <2>2. CASE ResourceFailed(s)
    BY <2>1, <2>2, FinishFlags, AwayFlags DEF ResourceFailed, ToLogin
  <2>3. CASE ui' = Loaded(s) /\ Settle(s) /\ UNCHANGED answerVars
    <3>1. ui'.on = ui.on \ Flags(s)
      BY <2>3 DEF Loaded, Down, Inv, ShellType
    <3> QED BY <2>1, <2>3, <3>1, FinishedFlags DEF answerVars, clickVars
  <2>4. CASE /\ ui' = Up(Loaded(s), {"imageLoading"})
             /\ Follow(s, Task("meta", None, {"imageLoading"}))
             /\ "imageLoading" \notin ui.on /\ UNCHANGED answerVars
    <3> DEFINE r == Task("meta", None, {"imageLoading"})
    <3>1. net' = [net EXCEPT ![s] = r] /\ DOMAIN net = Slots /\ page' = page
      BY <2>4 DEF Follow, Inv, IsNet, answerVars, clickVars
    <3>2. Borne(net[s]) = Flags(s) /\ Borne(r) = {"imageLoading"}
      BY <2>1 DEF Borne, Flags, Task, Fetch
    <3>3. ui'.on = (ui.on \ Flags(s)) \cup {"imageLoading"}
      BY <2>4 DEF Up, Loaded, Down, Inv, ShellType
    <3> HIDE DEF r
    <3>4. ASSUME NEW f \in BusyFlags
          PROVE  Held(net', ui', f)
      <4>1. Held(net, ui, f)
        BY <2>1 DEF FlagInv
      <4> QED BY <2>4, <3>1, <3>2, <3>3, <4>1, FlagsExchanged
    <3>5. Spinner'
      <4>1. CASE Turning(page', ui')
        <5>1. "loading" \in ui.on /\ "loading" \notin Flags(s)
          BY <2>1, <3>1, <3>3, <4>1 DEF Turning
        <5>2. PICK t \in Slots : Stopping(page, dash, net[t])
          BY <2>1, <5>1 DEF FlagInv, Spinner, Turning, Resources
        <5>3. t # s
          BY <2>1, <3>2, <5>1, <5>2 DEF Stopping
        <5> QED BY <3>1, <5>2, <5>3 DEF Spinner
      <4>2. CASE ~Turning(page', ui')
        BY <4>2 DEF Spinner
      <4> QED BY <4>1, <4>2
    <3> QED BY <3>3, <3>4, <3>5 DEF FlagInv
  <2> QED BY <1>7, <2>2, <2>3, <2>4 DEF DeliverForm
<1>8. ASSUME NEW s \in Slots, ServeSettings(s)
      PROVE  FlagInv'
  BY <1>8, AnswerFlags DEF ServeSettings, answerVars, clickVars
<1> QED BY <1>1, <1>2, <1>3, <1>4, <1>5, <1>6, <1>7, <1>8
        DEF SettingsStep, SettingsClick, SettingsDelivery

(* The connection breaks: the request is the page's no more, or failed.     *)
LEMMA LostFlags ==
    ASSUME Inv, FlagInv, NEW s \in Slots, Lost(s), UNCHANGED <<ui, dash>>
    PROVE  FlagInv'
<1> DEFINE failed == [net EXCEPT ![s].status = "failed", ![s].data = None]
           gone == [net[s] EXCEPT !.owner = "gone"]
<1>1. \A t \in Slots : Same(net[t], failed[t]) /\ (failed[t].op = "none" <=> net[t].op = "none")
  BY DEF Same, Inv, IsNet, Request
<1>2. gone.owner = "gone"
  BY DEF Inv, IsNet, Request
<1>3. DOMAIN failed = Slots
  BY DEF Inv, IsNet
<1>4. \/ net' = failed
      \/ Free(net) # {} /\ net' = With(failed, gone)
  BY DEF Lost
<1>5. page' = page
  BY DEF Lost, answerVars, clickVars
<1> HIDE DEF failed, gone
<1>6. CASE net' = failed
  BY <1>1, <1>5, <1>6, FlagsKept
<1>7. CASE Free(net) # {} /\ net' = With(failed, gone)
  <2>1. PICK t \in Slots : net[t].op = "none" /\ net' = [failed EXCEPT ![t] = gone]
    BY <1>1, <1>7 DEF With, Free
  <2>2. net'[t] = gone /\ \A q \in Slots : q # t => net'[q] = failed[q]
    BY <1>3, <2>1
  <2>3. \A q \in Slots : Same(net[q], net'[q])
    BY <1>1, <1>2, <2>1, <2>2 DEF Same
  <2> QED BY <1>5, <2>3, FlagsKept
<1> QED BY <1>4, <1>6, <1>7

LEMMA FlagsInit == AdminInit => FlagInv
<1> SUFFICES ASSUME AdminInit PROVE FlagInv
  OBVIOUS
<1>1. 1 \in Slots
  BY BrowserAssumption DEF Slots
<1>2. net[1] = Fetch("csrf", None) /\ \A s \in Slots : net[s] \in {Idle, Fetch("csrf", None)}
  BY <1>1 DEF AdminInit
<1>3. \A s \in Slots : Borne(net[s]) = {}
  BY <1>2 DEF Borne, Idle, Fetch
<1>4. ui.on = {"loading"}
  BY DEF AdminInit, FreshShell
<1>5. \A f \in BusyFlags : Held(net, ui, f)
  BY <1>3, <1>4 DEF Held, OneBearer, SomeBearer, BusyFlags
<1>6. Spinner
  BY <1>1, <1>2 DEF Spinner, Stopping, Fetch
<1> QED BY <1>4, <1>5, <1>6 DEF FlagInv

LEMMA FlagsNext == ASSUME Inv, Shapes, FlagInv, [AdminNext]_vars PROVE FlagInv'
<1>1. CASE ShellStep /\ UNCHANGED <<dash, deskVars, confVars>>
  BY <1>1, ShellFlags
<1>2. CASE DashboardStep /\ UNCHANGED <<deskVars, confVars>>
  BY <1>2, DashboardFlags
<1>3. CASE DeskStep /\ UNCHANGED <<dash, confVars>>
  BY <1>3, DeskFlags
<1>4. CASE SettingsStep /\ UNCHANGED <<dash, deskVars>>
  BY <1>4, SettingsFlags
<1>5. CASE SessionEnds /\ UNCHANGED <<ui, dash, deskVars, confVars>>
  BY <1>5, FlagsKept DEF SessionEnds, Same
<1>6. ASSUME NEW s \in Slots, Denied(s), UNCHANGED <<ui, dash, deskVars, confVars>>
      PROVE  FlagInv'
  BY <1>6, AnswerFlags DEF Denied, answerVars, clickVars
<1>7. ASSUME NEW s \in Slots, Lost(s), UNCHANGED <<ui, dash, deskVars, confVars>>
      PROVE  FlagInv'
  BY <1>7, LostFlags
<1>8. CASE UNCHANGED vars
  BY <1>8, FlagsKept DEF vars, browserVars, answerVars, clickVars, Same
<1> QED BY <1>1, <1>2, <1>3, <1>4, <1>5, <1>6, <1>7, <1>8 DEF AdminNext

(* Everything that has been proved of the reachable states so far.          *)
Known == Inv /\ Shapes /\ FlagInv

LEMMA AlwaysKnown == AdminSpec => []Known
<1>1. AdminInit => Shapes /\ Sound(conf) /\ FlagInv
  BY ShapesInit, PreviewInit, FlagsInit
<1>2. Inv /\ Shapes /\ Sound(conf) /\ FlagInv /\ [AdminNext]_vars
         => (Shapes /\ Sound(conf) /\ FlagInv)'
  BY ShapesNext, PreviewStep, FlagsNext
<1> QED BY <1>1, <1>2, Invariance, PTL DEF AdminSpec, Known

(***************************************************************************)
(* The theorems about the flags.                                            *)
(***************************************************************************)
LEMMA CarryingBorne ==
    ASSUME NEW f
    PROVE  Carrying(f) = {s \in Slots : f \in Borne(net[s])}
BY DEF Carrying, Borne, InFlight, Flags

(* Of every kind of action of the console that looks at its flag            *)
(* (AdminApp.vue: run, refresh, saveUserDetails, testSetting, the           *)
(* notification dialog, the menu, loadActivationImage) exactly one handler  *)
(* is at work while the flag is up and none while it is down, for any       *)
(* number of requests in flight; openRequestDetails and the uploads, which  *)
(* do not look, leave no flag up for nobody.                                *)
THEOREM OneHandlerAtWork == AdminSpec => []OneHandler
<1>1. ASSUME FlagInv, page # "login", NEW f \in BusyFlags \ Unguarded
      PROVE  Cardinality(Carrying(f)) = (IF f \in ui.on THEN 1 ELSE 0)
  <2>1. OneBearer(net, ui, f)
    BY <1>1 DEF FlagInv, Held
  <2>2. CASE f \in ui.on
    <3>1. PICK s \in Slots : \A t \in Slots : f \in Borne(net[t]) <=> t = s
      BY <2>1, <2>2 DEF OneBearer
    <3>2. Carrying(f) = {s}
      BY <3>1, CarryingBorne
    <3> QED BY <2>2, <3>2, FS_Singleton
  <2>3. CASE f \notin ui.on
    <3>1. Carrying(f) = {}
      BY <2>1, <2>3, CarryingBorne DEF OneBearer
    <3> QED BY <2>3, <3>1, FS_EmptySet
  <2> QED BY <2>2, <2>3
<1>2. ASSUME FlagInv, page # "login", NEW f \in Unguarded, f \in ui.on
      PROVE  Carrying(f) # {}
  <2>1. f \in BusyFlags
    BY <1>2 DEF Unguarded, BusyFlags
  <2>2. SomeBearer(net, ui, f)
    BY <1>2, <2>1 DEF FlagInv, Held
  <2> QED BY <1>2, <2>2, CarryingBorne DEF SomeBearer
<1>3. FlagInv => OneHandler
  BY <1>1, <1>2 DEF OneHandler, OneHandlerPerFlag
<1> QED BY <1>3, AlwaysKnown, PTL DEF Known

(* No spinner of the console turns for ever (AdminApp.vue, load,            *)
(* loadResource, loadDashboard): the answer that stops it is on its way,    *)
(* or the token is after which it is asked for.                             *)
THEOREM SpinnersWillStop == AdminSpec => []NoStuckSpinner
<1>1. FlagInv => NoStuckSpinner
  <2> SUFFICES ASSUME FlagInv PROVE NoStuckSpinner
    OBVIOUS
  <2>1. SpinnersStop
    <3> SUFFICES ASSUME page = "dashboard", ~Quiet
                 PROVE  \/ Owned({"csrf"}) # {}
                        \/ \E s \in Owned({"dashboard"}) : X(s).id = dash.asked
      BY DEF SpinnersStop
    <3>1. PICK s \in Slots : Stopping(page, dash, net[s])
      BY DEF FlagInv, Spinner, Turning, Quiet
    <3> QED BY <3>1 DEF Stopping, Owned, Mine, Number, X
  <2>2. ASSUME page \in Resources, "loading" \in ui.on
        PROVE  Owned({"csrf"}) # {} \/ Carrying("loading") # {}
    <3>1. PICK s \in Slots : Stopping(page, dash, net[s])
      BY <2>2 DEF FlagInv, Spinner, Turning
    <3> QED BY <2>2, <3>1, CarryingBorne DEF Stopping, Owned, Resources
  <2> QED BY <2>1, <2>2 DEF NoStuckSpinner
<1> QED BY <1>1, AlwaysKnown, PTL DEF Known

(***************************************************************************)
(* The dialogs over the lists.                                              *)
(***************************************************************************)
Decisions == {"in_library", "rejected"}

(* Every row that is decided has a verdict that was given.                  *)
Founded(w, v) == /\ w \in [Groups -> SUBSET Statuses]
                 /\ \A g \in Groups, u \in Decisions : u \in w[g] => <<g, u>> \in v

(* What a list says of a work was decided.                                  *)
Listed(list, v) ==
    \A g \in Groups \cap DOMAIN list : list[g] \in Decisions => <<g, list[g]>> \in v

(* A verdict that has been carried out.                                     *)
Honest(x, v) == <<x.group, x.verdict>> \in v

(* What the page of the requests asks for: nothing else is on its way       *)
(* there, and a reload under the flag of its action follows a verdict.      *)
OfRequestPage(r, v) ==
    /\ r.op \in {"resource", "tmdb", "decide", "logout"}
    /\ r.op = "decide" /\ r.status = "ok" => Honest(r.arg.x, v)
    /\ r.op = "resource" => /\ "busy" \in r.arg.flags => Honest(r.arg.x, v)
                            /\ r.status = "ok" => Listed(r.data, v)

(* A save, up to the end of its reload.                                     *)
Saves(r) == "userDialog" \in r.arg.flags /\ r.arg.x.form # None

Clear(d) == d.open /\ ~d.form.crossed

Good(r, p, d, v) ==
    /\ r.op = "decide" => r.arg.x.group \in Groups /\ r.arg.x.verdict \in Decisions
    /\ r.owner = "page" /\ r.op \notin {"none", "csrf"} =>
          /\ r.op = "patch" /\ ~r.arg.x.form.crossed => r.arg.x.form.of = r.arg.x.user
          /\ "userDialog" \in r.arg.flags => r.op \in {"patch", "delete", "resource"}
          /\ r.op = "delete" => r.arg.x.form = None
          /\ Saves(r) /\ Clear(d) => r.arg.x.user = d.user
          /\ p = "requests" => OfRequestPage(r, v)

(* What the page of the requests shows.                                     *)
Shown(d, v) ==
    /\ Listed(d.list, v)
    /\ d.group # None /\ d.status \in Decisions => <<d.group, d.status>> \in v

(* While the dialog is clear, the form in it and every save on its way are  *)
(* of its user.                                                             *)
DeskInv == /\ Founded(works, verdicts)
           /\ Clear(dialog) => dialog.form.of = dialog.user
           /\ Shown(detail, verdicts)
           /\ \A s \in Slots : Good(net[s], page, dialog, verdicts)

AllGood(n) == \A s \in Slots : Good(n[s], page, dialog, verdicts)

(* A page is only left for the login page.                                  *)
Stays == page' = page \/ page' = "login"

LEMMA DeskCalm ==
    ASSUME DeskInv, AllGood(net'), Stays, UNCHANGED deskVars
    PROVE  DeskInv'
<1>1. \A s \in Slots : Good(net'[s], page', dialog', verdicts')
  BY DEF AllGood, Stays, Good, deskVars, serverDesk
<1> QED BY <1>1 DEF DeskInv, deskVars, serverDesk

(* What the operations of a handler do to the network.                      *)
LEMMA PutGood ==
    ASSUME Inv, DeskInv, NEW s \in Slots, NEW r, Good(r, page, dialog, verdicts),
           net' = [net EXCEPT ![s] = r]
    PROVE  AllGood(net')
BY DEF AllGood, DeskInv, Inv, IsNet

LEMMA SendGood ==
    ASSUME Inv, DeskInv, NEW r, Good(r, page, dialog, verdicts), Send(r)
    PROVE  AllGood(net')
<1>1. PICK s \in Slots : net' = [net EXCEPT ![s] = r]
  BY DEF Send, With, Free
<1> QED BY <1>1, PutGood

LEMMA SettleGood == ASSUME Inv, DeskInv, NEW s \in Slots, Settle(s) PROVE AllGood(net')
<1>1. Good(Idle, page, dialog, verdicts)
  BY DEF Good, Idle
<1> QED BY <1>1, PutGood DEF Settle, Settled

LEMMA AbandonGood == ASSUME Inv, DeskInv PROVE AllGood(Abandoned)
<1>1. ASSUME NEW s \in Slots
      PROVE  /\ Abandoned[s].owner = "page" => Abandoned[s].op = "none"
             /\ Abandoned[s].op = "decide" => net[s].op = "decide" /\ Abandoned[s].arg = net[s].arg
  BY DEF Abandoned, InFlight, Idle, Inv, IsNet, Request
<1>2. \A s \in Slots : Good(net[s], page, dialog, verdicts)
  BY DEF DeskInv
<1> QED BY <1>1, <1>2 DEF AllGood, Good

LEMMA ReloadGood ==
    ASSUME Inv, DeskInv, NEW s \in Slots, Reload(s), net[s].owner = "page",
           net[s].op \in {"manage", "patch", "delete", "settings", "decide"},
           net[s].op = "decide" => net[s].status = "ok"
    PROVE  AllGood(net') /\ page' = page
<1> DEFINE r == Task("resource", X(s), Flags(s))
<1>1. r.op = "resource" /\ r.arg.x = X(s) /\ r.arg.flags = Flags(s) /\ r.status = "sent"
  BY DEF Task, Fetch
<1>2. Good(net[s], page, dialog, verdicts)
  BY DEF DeskInv
<1>3. page = "requests" => Honest(X(s), verdicts)
  BY <1>2 DEF Good, OfRequestPage, X
<1>4. net' = [net EXCEPT ![s] = r] /\ page' = page
  BY DEF Reload, Follow, answerVars, clickVars
<1> HIDE DEF r
<1>5. Saves(r) /\ Clear(dialog) => r.arg.x.user = dialog.user
  BY <1>1, <1>2 DEF Good, Saves, X, Flags
<1>6. Good(r, page, dialog, verdicts)
  BY <1>1, <1>3, <1>5 DEF Good, OfRequestPage
<1> QED BY <1>4, <1>6, PutGood

LEMMA AnswerGood ==
    ASSUME Inv, DeskInv, NEW s \in Slots, NEW status, NEW value, Answer(s, status, value),
           status = "ok" /\ net[s].op = "decide" /\ net[s].owner = "page" /\ page = "requests"
              => Honest(X(s), verdicts),
           status = "ok" /\ net[s].op = "resource" /\ page = "requests"
              => Listed(value, verdicts)
    PROVE  AllGood(net')
<1>1. CASE net[s].owner = "page"
  <2> DEFINE r == [net[s] EXCEPT !.status = status, !.data = value]
  <2>1. /\ r.op = net[s].op /\ r.owner = net[s].owner /\ r.arg = net[s].arg
        /\ r.status = status /\ r.data = value
    BY DEF Inv, IsNet, Request
  <2>2. net' = [net EXCEPT ![s] = r]
    BY <1>1 DEF Answer, Answered, Inv, IsNet
  <2> HIDE DEF r
  <2>3. Good(net[s], page, dialog, verdicts)
    BY DEF DeskInv
  <2>4. Good(r, page, dialog, verdicts)
    BY <1>1, <2>1, <2>3 DEF Good, OfRequestPage, Saves, X
  <2> QED BY <2>2, <2>4, PutGood
<1>2. CASE net[s].owner # "page"
  BY <1>2, SettleGood DEF Answer, Answered, Settle, Settled
<1> QED BY <1>1, <1>2

LEMMA LostGood == ASSUME Inv, DeskInv, NEW s \in Slots, Lost(s) PROVE AllGood(net')
<1> DEFINE r == [net[s] EXCEPT !.status = "failed", !.data = None]
           gone == [net[s] EXCEPT !.owner = "gone"]
           failed == [net EXCEPT ![s] = r]
<1>1. /\ r.op = net[s].op /\ r.owner = net[s].owner /\ r.arg = net[s].arg
      /\ r.status = "failed"
      /\ gone.op = net[s].op /\ gone.owner = "gone" /\ gone.arg = net[s].arg
  BY DEF Inv, IsNet, Request
<1>2. [net EXCEPT ![s].status = "failed", ![s].data = None] = failed
  BY DEF Inv, IsNet, Request
<1>3. DOMAIN failed = Slots
  BY DEF Inv, IsNet
<1>4. Good(net[s], page, dialog, verdicts)
  BY DEF DeskInv
<1>5. AllGood(failed)
  <2> HIDE DEF r
  <2>1. Good(r, page, dialog, verdicts)
    BY <1>1, <1>4 DEF Good, OfRequestPage, Saves
  <2> QED BY <2>1 DEF AllGood, DeskInv, Inv, IsNet
<1> HIDE DEF r, gone, failed
<1>6. Good(gone, page, dialog, verdicts)
  BY <1>1, <1>4 DEF Good
<1>7. \/ net' = failed
      \/ Free(net) # {} /\ net' = With(failed, gone)
  BY <1>2 DEF Lost, gone
<1>8. CASE net' = failed
  BY <1>5, <1>8
<1>9. CASE Free(net) # {} /\ net' = With(failed, gone)
  <2> DEFINE t == CHOOSE q \in Free(failed) : TRUE
  <2>1. net' = [failed EXCEPT ![t] = gone]
    BY <1>9 DEF With
  <2> HIDE DEF t
  <2> QED BY <1>3, <1>5, <1>6, <2>1 DEF AllGood
<1> QED BY <1>7, <1>8, <1>9

LEMMA FailedGood ==
    ASSUME Inv, DeskInv, NEW s \in Slots, Finish(s) \/ RunFailed(s) \/ ResourceFailed(s)
    PROVE  AllGood(net') /\ Stays
BY SettleGood, AbandonGood
   DEF Finish, RunFailed, ResourceFailed, ToLogin, Stays, answerVars, clickVars

(* A new request that is none of the desk's own.                            *)
LEMMA OtherGood ==
    ASSUME NEW op, NEW x, NEW flags, op \notin {"patch", "delete", "decide"},
           "userDialog" \notin flags,
           op = "resource" => "busy" \notin flags,
           page = "requests" => op \in {"resource", "logout", "tmdb"}
    PROVE  Good(Task(op, x, flags), page, dialog, verdicts)
BY DEF Good, OfRequestPage, Saves, Task, Fetch

LEMMA ShellDesk == ASSUME Inv, DeskInv, ShellStep, UNCHANGED deskVars PROVE DeskInv'
<1>1. CASE ReloadResource \/ Refresh
  <2>1. PICK flags \in {{"loading"}, {"refreshing"}} :
           Send(Task("resource", None, flags)) /\ page' = page
    BY <1>1 DEF ReloadResource, Refresh, Begin, clickVars
  <2>2. Good(Task("resource", None, flags), page, dialog, verdicts)
    BY OtherGood
  <2> QED BY <2>1, <2>2, SendGood, DeskCalm DEF Stays
<1>2. CASE CooledDown
  BY <1>2, DeskCalm DEF CooledDown, browserVars, answerVars, clickVars, AllGood, DeskInv, Stays
<1>3. CASE Manage \/ Logout
  <2>1. PICK op \in {"manage", "logout"} :
           /\ Send(Task(op, None, {"busy"})) /\ page' = page
           /\ page = "requests" => op = "logout"
    BY <1>3 DEF Manage, Logout, Run, Begin, clickVars
  <2>2. Good(Task(op, None, {"busy"}), page, dialog, verdicts)
    BY <2>1, OtherGood
  <2> QED BY <2>1, <2>2, SendGood, DeskCalm DEF Stays
<1>4. CASE BackOnline
  <2>1. AllGood(net')
    <3>1. Good(Fetch("csrf", None), page, dialog, verdicts)
      BY DEF Good, Fetch
    <3>2. CASE UNCHANGED net
      BY <3>2 DEF AllGood, DeskInv
    <3> QED BY <1>4, <3>1, <3>2, SendGood DEF BackOnline
  <2> QED BY <1>4, <2>1, DeskCalm DEF BackOnline, Stays
<1>5. ASSUME NEW s \in Slots, DeliverToken(s)
      PROVE  DeskInv'
  <2>1. Good(Task("resource", None, {"loading"}), page, dialog, verdicts)
    BY OtherGood
  <2> QED BY <1>5, <2>1, PutGood, DeskCalm
          DEF DeliverToken, Follow, answerVars, clickVars, Stays
<1>6. ASSUME NEW s \in Slots, DeliverManage(s)
      PROVE  DeskInv'
  <2>1. CASE Reload(s)
    BY <1>6, <2>1, ReloadGood, DeskCalm DEF DeliverManage, Ready, Stays
  <2>2. CASE RunFailed(s)
    BY <2>2, FailedGood, DeskCalm
  <2> QED BY <1>6, <2>1, <2>2 DEF DeliverManage
<1>7. ASSUME NEW s \in Slots, DeliverLogout(s)
      PROVE  DeskInv'
  BY <1>7, FailedGood, AbandonGood, DeskCalm DEF DeliverLogout, ToLogin, Stays
<1>8. ASSUME NEW s \in Slots, ServeShell(s)
      PROVE  DeskInv'
  <2>1. net[s].op \notin {"decide", "resource"} /\ page' = page
    BY <1>8 DEF ServeShell, Arrived
  <2>2. AllGood(net')
    BY <1>8, <2>1, AnswerGood DEF ServeShell
  <2> QED BY <2>1, <2>2, DeskCalm DEF Stays
<1> QED BY <1>1, <1>2, <1>3, <1>4, <1>5, <1>6, <1>7, <1>8 DEF ShellStep

LEMMA DashboardDesk ==
    ASSUME Inv, DeskInv, DashboardStep, UNCHANGED deskVars
    PROVE  DeskInv'
<1>1. \A day, flags : page # "requests" /\ "userDialog" \notin flags
                         => Good(Question(day, flags), page, dialog, verdicts)
  BY OtherGood DEF Question
<1>2. CASE Poll \/ RefreshDashboard \/ SelectWatchDate \/ ReturnToToday
  <2>1. page = "dashboard" /\ page' = page
    BY <1>2 DEF Poll, RefreshDashboard, SelectWatchDate, ReturnToToday, OnScreen,
                ChangeWatchDate, clickVars
  <2>2. PICK day, flags : Send(Question(day, flags)) /\ "userDialog" \notin flags
    BY <1>2 DEF Poll, RefreshDashboard, SelectWatchDate, ReturnToToday, ChangeWatchDate
  <2> QED BY <1>1, <2>1, <2>2, SendGood, DeskCalm DEF Stays
<1>3. CASE StopSession
  <2>1. Send(Task("stop", None, {"busy"})) /\ page' = page /\ page = "dashboard"
    BY <1>3 DEF StopSession, OnScreen, Run, Begin, clickVars
  <2>2. Good(Task("stop", None, {"busy"}), page, dialog, verdicts)
    BY <2>1, OtherGood
  <2> QED BY <2>1, <2>2, SendGood, DeskCalm DEF Stays
<1>4. ASSUME NEW s \in Slots, LoadFirst(s)
      PROVE  DeskInv'
  <2>1. /\ page = "dashboard" /\ page' = page
        /\ net' = [net EXCEPT ![s] = Question(dash.chosen, {})]
    BY <1>4 DEF LoadFirst, Follow, answerVars, clickVars
  <2>2. Good(Question(dash.chosen, {}), page, dialog, verdicts)
    BY <1>1, <2>1
  <2> QED BY <2>1, <2>2, PutGood, DeskCalm DEF Stays
<1>5. ASSUME NEW s \in Slots, DeliverStop(s)
      PROVE  DeskInv'
  <2>1. CASE Follow(s, Question(dash.chosen, Flags(s))) /\ UNCHANGED answerVars
    <3>1. Good(net[s], page, dialog, verdicts)
      BY DEF DeskInv
    <3>2. page # "requests"
      BY <1>5, <3>1 DEF DeliverStop, Ready, Good, OfRequestPage
    <3>3. Good(Question(dash.chosen, Flags(s)), page, dialog, verdicts)
      BY <1>1, <1>5, <3>1, <3>2 DEF DeliverStop, Ready, Good, Flags
    <3> QED BY <2>1, <3>3, PutGood, DeskCalm DEF Follow, answerVars, clickVars, Stays
  <2>2. CASE Finish(s) \/ RunFailed(s)
    BY <2>2, FailedGood, DeskCalm
  <2> QED BY <1>5, <2>1, <2>2 DEF DeliverStop
<1>6. ASSUME NEW s \in Slots, DeliverDashboard(s)
      PROVE  DeskInv'
  BY <1>6, SettleGood, AbandonGood, DeskCalm DEF DeliverDashboard, Stays
<1>7. ASSUME NEW s \in Slots, ServeDashboard(s)
      PROVE  DeskInv'
  <2>1. net[s].op \notin {"decide", "resource"} /\ page' = page
    BY <1>7 DEF ServeDashboard, Arrived, answerVars, clickVars
  <2>2. AllGood(net')
    BY <1>7, <2>1, AnswerGood DEF ServeDashboard
  <2> QED BY <2>1, <2>2, DeskCalm DEF Stays
<1> QED BY <1>2, <1>3, <1>4, <1>5, <1>6, <1>7
        DEF DashboardStep, DashboardClick, DashboardDelivery

LEMMA SettingsDesk ==
    ASSUME Inv, DeskInv, SettingsStep, UNCHANGED deskVars
    PROVE  DeskInv'
<1>1. CASE \/ TypeSecret \/ SetNotificationToggle \/ CloseNotificationDialog
           \/ \E c \in {"telegram", "wecom"} : OpenNotificationDialog(c)
  <2>1. UNCHANGED <<page, net>>
    BY <1>1 DEF TypeSecret, SetNotificationToggle, CloseNotificationDialog,
                OpenNotificationDialog, Typed, Local, browserVars, answerVars, clickVars
  <2> QED BY <2>1, DeskCalm DEF AllGood, DeskInv, Stays
<1>2. CASE \/ SaveSettings \/ SaveNotificationChannel \/ ClearNotificationChannel
           \/ TestSetting \/ WecomMenu \/ UploadActivationImage \/ ClearActivationImage
  <2>1. page = "settings"
    BY <1>2 DEF SaveSettings, SaveNotificationChannel, ClearNotificationChannel, TestSetting,
                WecomMenu, UploadActivationImage, ClearActivationImage, InDialog,
                OnSettings
  <2>2. PICK op \in {"settings", "task", "upload", "unimage"} :
           \E x, flags : "userDialog" \notin flags /\ Begin(op, x, flags)
    BY <1>2 DEF SaveSettings, SaveNotificationChannel, ClearNotificationChannel, TestSetting,
                WecomMenu, UploadActivationImage, ClearActivationImage
  <2>3. PICK x, flags : "userDialog" \notin flags /\ Begin(op, x, flags)
    BY <2>2
  <2>4. Good(Task(op, x, flags), page, dialog, verdicts)
    BY <2>1, <2>3, OtherGood
  <2> QED BY <2>3, <2>4, SendGood, DeskCalm DEF Begin, clickVars, Stays
<1>3. ASSUME NEW s \in Slots, DeliverSettings(s)
      PROVE  DeskInv'
  <2>1. CASE Reload(s)
    BY <1>3, <2>1, ReloadGood, DeskCalm DEF DeliverSettings, Ready, Stays
  <2>2. CASE Finish(s)
    BY <2>2, FailedGood, DeskCalm
  <2> QED BY <1>3, <2>1, <2>2 DEF DeliverSettings
<1>4. ASSUME NEW s \in Slots,
             DeliverTask(s) \/ DeliverMeta(s) \/ DeliverUpload(s) \/ DeliverClear(s)
      PROVE  DeskInv'
  BY <1>4, FailedGood, DeskCalm DEF DeliverTask, DeliverMeta, DeliverUpload, DeliverClear
<1>5. ASSUME NEW s \in Slots, DeliverForm(s)
      PROVE  DeskInv'
  <2>1. CASE ResourceFailed(s)
    BY <2>1, FailedGood, DeskCalm
  <2>2. CASE Settle(s) /\ UNCHANGED answerVars
    BY <2>2, SettleGood, DeskCalm DEF answerVars, clickVars, Stays
  <2>3. CASE Follow(s, Task("meta", None, {"imageLoading"})) /\ UNCHANGED answerVars
    <3>1. Good(Task("meta", None, {"imageLoading"}), page, dialog, verdicts)
      BY <1>5, OtherGood DEF DeliverForm, OnSettings
    <3> QED BY <2>3, <3>1, PutGood, DeskCalm DEF Follow, answerVars, clickVars, Stays
  <2> QED BY <1>5, <2>1, <2>2, <2>3 DEF DeliverForm
<1>6. ASSUME NEW s \in Slots, ServeSettings(s)
      PROVE  DeskInv'
  <2>1. net[s].op # "decide" /\ page' = page
    BY <1>6 DEF ServeSettings, Arrived, answerVars, clickVars
  <2>2. net[s].op = "resource" => page = "settings"
    BY <1>6 DEF ServeSettings, Arrived, OnSettings
  <2>3. PICK status, value : Answer(s, status, value)
    BY <1>6 DEF ServeSettings
  <2>4. AllGood(net')
    BY <2>1, <2>2, <2>3, AnswerGood
  <2> QED BY <2>1, <2>4, DeskCalm DEF Stays
<1> QED BY <1>1, <1>2, <1>3, <1>4, <1>5, <1>6
        DEF SettingsStep, SettingsClick, SettingsDelivery

(***************************************************************************)
(* The desk's own steps.                                                    *)
(***************************************************************************)
(* Verdicts are never forgotten, and a dialog that is clear was so before,  *)
(* for the same user.                                                       *)
Grown == verdicts \subseteq verdicts'

Kept == Clear(dialog') => Clear(dialog) /\ dialog'.user = dialog.user

LEMMA GoodMoved ==
    ASSUME Grown, Kept, NEW r, Good(r, page, dialog, verdicts)
    PROVE  Good(r, page, dialog', verdicts')
<1>1. OfRequestPage(r, verdicts) => OfRequestPage(r, verdicts')
  BY DEF Grown, OfRequestPage, Honest, Listed
<1> QED BY <1>1 DEF Kept, Good

LEMMA ShownMoved ==
    ASSUME Grown, NEW d, Shown(d, verdicts)
    PROVE  Shown(d, verdicts')
BY DEF Grown, Shown, Listed

LEMMA VerdictRows ==
    ASSUME NEW rows \in SUBSET Statuses, NEW v \in Decisions
    PROVE  /\ Verdict(rows, v) \in SUBSET Statuses
           /\ \A u \in Decisions : u \in Verdict(rows, v) => u \in rows \/ u = v
BY DEF Verdict, Statuses, Decisions

LEMMA ListTrue ==
    ASSUME Founded(works, verdicts) PROVE Listed(WorkList, verdicts)
<1>1. ASSUME NEW rows \in SUBSET Statuses, rows # {}, GroupStatus(rows) \in Decisions
      PROVE  GroupStatus(rows) \in rows
  BY <1>1 DEF GroupStatus, Statuses, Decisions
<1>2. ASSUME NEW g \in Groups, g \in DOMAIN WorkList
      PROVE  WorkList[g] = GroupStatus(works[g]) /\ works[g] # {}
  BY <1>2 DEF WorkList
<1> QED BY <1>1, <1>2 DEF Founded, Listed

LEMMA GivenFounded ==
    ASSUME Founded(works, verdicts), NEW g \in Groups, NEW v \in Decisions, VerdictGiven(g, v)
    PROVE  Founded(works', verdicts') /\ Grown /\ <<g, v>> \in verdicts'
<1> DEFINE rows == Verdict(works[g], v)
<1>1. /\ rows \in SUBSET Statuses
      /\ \A u \in Decisions : u \in rows => u \in works[g] \/ u = v
  BY VerdictRows DEF Founded
<1>2. works' = [works EXCEPT ![g] = rows] /\ verdicts' = verdicts \cup {<<g, v>>}
  BY DEF VerdictGiven
<1> HIDE DEF rows
<1>3. works' \in [Groups -> SUBSET Statuses]
  BY <1>1, <1>2 DEF Founded
<1>4. ASSUME NEW h \in Groups, NEW u \in Decisions, u \in works'[h]
      PROVE  <<h, u>> \in verdicts'
  <2>1. CASE h = g
    BY <1>1, <1>2, <1>4, <2>1 DEF Founded
  <2>2. CASE h # g
    BY <1>2, <1>4, <2>2 DEF Founded
  <2> QED BY <2>1, <2>2
<1> QED BY <1>2, <1>3, <1>4 DEF Founded, Grown

(* Others decide, submit works and take them away.                          *)
LEMMA ElsewhereDesk == ASSUME Inv, DeskInv, DeskElsewhere PROVE DeskInv'
<1>1. UNCHANGED <<page, net, dialog, detail>>
  BY DEF DeskElsewhere, clickVars
<1>2. Founded(works', verdicts') /\ Grown
  <2>1. CASE UNCHANGED <<works, verdicts>>
    BY <2>1 DEF DeskInv, Grown
  <2>2. ASSUME NEW g \in Groups, NEW v \in {"in_library", "rejected"}, VerdictGiven(g, v)
        PROVE  Founded(works', verdicts') /\ Grown
    BY <2>2, GivenFounded DEF DeskInv, Decisions
  <2>3. ASSUME NEW g \in Groups, NEW rows, rows \in SUBSET (works[g] \cup {"pending"}),
               works' = [works EXCEPT ![g] = rows], UNCHANGED verdicts
        PROVE  Founded(works', verdicts') /\ Grown
    <3>1. works[g] \in SUBSET Statuses
      BY DEF DeskInv, Founded
    <3>2. rows \in SUBSET Statuses /\ \A u \in Decisions : u \in rows => u \in works[g]
      BY <2>3, <3>1 DEF Statuses, Decisions
    <3>3. works' \in [Groups -> SUBSET Statuses]
      BY <2>3, <3>2 DEF DeskInv, Founded
    <3>4. \A h \in Groups, u \in Decisions : u \in works'[h] => u \in works[h]
      BY <2>3, <3>2 DEF DeskInv, Founded
    <3> QED BY <2>3, <3>3, <3>4 DEF DeskInv, Founded, Grown
  <2>4. \/ UNCHANGED <<works, verdicts>>
        \/ \E g \in Groups, v \in {"in_library", "rejected"} : VerdictGiven(g, v)
        \/ \E g \in Groups : /\ UNCHANGED verdicts
                             /\ \E rows \in SUBSET (works[g] \cup {"pending"}) :
                                   works' = [works EXCEPT ![g] = rows]
    <3>1. ASSUME NEW g \in Groups, NEW left \in SUBSET works[g],
                 works' = [works EXCEPT ![g] = left]
          PROVE  \E rows \in SUBSET (works[g] \cup {"pending"}) :
                    works' = [works EXCEPT ![g] = rows]
      BY <3>1
    <3>2. ASSUME NEW g \in Groups, works' = [works EXCEPT ![g] = @ \cup {"pending"}]
          PROVE  \E rows \in SUBSET (works[g] \cup {"pending"}) :
                    works' = [works EXCEPT ![g] = rows]
      BY <3>2
    <3> QED BY <3>1, <3>2 DEF DeskElsewhere
  <2> QED BY <2>1, <2>2, <2>3, <2>4
<1>3. Kept
  BY <1>1 DEF Kept, Clear
<1>4. \A s \in Slots : Good(net'[s], page', dialog', verdicts')
  BY <1>1, <1>2, <1>3, GoodMoved DEF DeskInv
<1>5. Shown(detail', verdicts')
  BY <1>1, <1>2, ShownMoved DEF DeskInv
<1> QED BY <1>1, <1>2, <1>4, <1>5 DEF DeskInv, Clear

LEMMA DecideServed ==
    ASSUME Inv, DeskInv, NEW s \in Slots, net[s].op = "decide", Answer(s, "ok", None),
           VerdictGiven(X(s).group, X(s).verdict), UNCHANGED <<page, dialog, detail>>
    PROVE  DeskInv'
<1>1. X(s).group \in Groups /\ X(s).verdict \in Decisions
  BY DEF DeskInv, Good, X
<1>2. Founded(works', verdicts') /\ Grown /\ Honest(X(s), verdicts')
  BY <1>1, GivenFounded DEF DeskInv, Honest
<1>3. Kept
  BY DEF Kept, Clear
<1>4. \A t \in Slots : Good(net[t], page, dialog', verdicts')
  BY <1>2, <1>3, GoodMoved DEF DeskInv
<1>5. \A t \in Slots : t # s => net'[t] = net[t]
  BY DEF Answer, Answered, Inv, IsNet
<1>6. Good(net'[s], page, dialog', verdicts')
  <2>1. CASE net[s].owner = "page"
    <3>1. /\ net'[s].op = "decide" /\ net'[s].owner = "page" /\ net'[s].arg = net[s].arg
          /\ net'[s].status = "ok"
      BY <2>1 DEF Answer, Answered, Inv, IsNet, Request
    <3>2. Good(net[s], page, dialog', verdicts')
      BY <1>4
    <3> QED BY <1>2, <2>1, <3>1, <3>2 DEF Good, OfRequestPage, Saves, X
  <2>2. CASE net[s].owner # "page"
    BY <2>2 DEF Answer, Answered, Inv, IsNet, Good, Idle
  <2> QED BY <2>1, <2>2
<1>7. Shown(detail', verdicts')
  BY <1>2, ShownMoved DEF DeskInv
<1>8. \A t \in Slots : Good(net'[t], page', dialog', verdicts')
  BY <1>4, <1>5, <1>6
<1> QED BY <1>2, <1>7, <1>8 DEF DeskInv, Clear

LEMMA ServeDeskInv == ASSUME Inv, DeskInv, NEW s \in Slots, ServeDesk(s) PROVE DeskInv'
<1>1. UNCHANGED <<page, dialog, detail>>
  BY DEF ServeDesk, answerVars, clickVars
<1>2. CASE net[s].op = "decide" /\ VerdictGiven(X(s).group, X(s).verdict) /\ Answer(s, "ok", None)
  BY <1>1, <1>2, DecideServed
<1>3. CASE ~(/\ net[s].op = "decide" /\ VerdictGiven(X(s).group, X(s).verdict)
             /\ Answer(s, "ok", None))
  <2>1. UNCHANGED <<works, verdicts>>
    BY <1>3 DEF ServeDesk, Arrived, serverDesk
  <2>2. PICK status, value :
           /\ Answer(s, status, value)
           /\ status = "ok" => net[s].op # "decide"
           /\ net[s].op = "resource" /\ page = "requests" => value = WorkList
    <3>1. CASE net[s].op = "resource"
      BY <3>1 DEF ServeDesk, Arrived
    <3>2. CASE net[s].op = "decide"
      BY <1>3, <3>2 DEF ServeDesk, Arrived
    <3>3. CASE net[s].op \notin {"resource", "decide"}
      <4>1. PICK status, value : Answer(s, status, value)
        BY <3>3 DEF ServeDesk, Arrived
      <4> QED BY <3>3, <4>1
    <3> QED BY <3>1, <3>2, <3>3
  <2>3. Listed(WorkList, verdicts)
    BY ListTrue DEF DeskInv
  <2>4. AllGood(net')
    BY <2>2, <2>3, AnswerGood
  <2>5. \A t \in Slots : Good(net'[t], page', dialog', verdicts')
    BY <1>1, <2>1, <2>4 DEF AllGood
  <2> QED BY <1>1, <2>1, <2>5 DEF DeskInv
<1> QED BY <1>2, <1>3

(* Steps that at most change the dialog of a user.                          *)
LEMMA DialogStep ==
    ASSUME DeskInv, AllGood(net'), Stays, UNCHANGED <<works, verdicts, detail>>, Kept,
           Clear(dialog') => dialog'.form.of = dialog'.user
    PROVE  DeskInv'
<1>1. Grown
  BY DEF Grown
<1>2. \A s \in Slots : Good(net'[s], page, dialog', verdicts')
  BY <1>1, GoodMoved DEF AllGood
<1>3. \A s \in Slots : Good(net'[s], page', dialog', verdicts')
  BY <1>2 DEF Stays, Good
<1> QED BY <1>3 DEF DeskInv

LEMMA UserDesk ==
    ASSUME Inv, Shapes, DeskInv,
           \/ EditUser \/ CloseUserDetails \/ SaveUserDetails \/ DeleteSelectedUser
           \/ \E u \in People : DeleteUser(u)
    PROVE  DeskInv'
<1>1. CASE EditUser \/ CloseUserDetails
  <2>1. UNCHANGED <<page, net, works, verdicts, detail>>
    BY <1>1 DEF EditUser, CloseUserDetails, browserVars, answerVars, clickVars, serverDesk
  <2>2. /\ dialog'.user = dialog.user
        /\ dialog'.form.of = dialog.form.of /\ dialog'.form.crossed = dialog.form.crossed
        /\ dialog'.open => dialog.open
    BY <1>1 DEF EditUser, CloseUserDetails, Shapes
  <2>3. Kept /\ (Clear(dialog') => dialog'.form.of = dialog'.user)
    BY <2>2 DEF Kept, Clear, DeskInv
  <2> QED BY <2>1, <2>3, DialogStep DEF AllGood, DeskInv, Stays
<1>2. CASE SaveUserDetails
  <2> DEFINE r == Task("patch", [user |-> dialog.user, form |-> dialog.form], {"userDialog"})
  <2>1. Send(r) /\ page' = page /\ page = "users" /\ dialog.open /\ UNCHANGED deskVars
    BY <1>2 DEF SaveUserDetails, Begin, clickVars
  <2>2. /\ r.op = "patch" /\ r.arg.x.user = dialog.user /\ r.arg.x.form = dialog.form
    BY DEF Task, Fetch
  <2> HIDE DEF r
  <2>3. Good(r, page, dialog, verdicts)
    BY <2>1, <2>2 DEF Good, Clear, DeskInv
  <2> QED BY <2>1, <2>3, SendGood, DeskCalm DEF Stays
<1>3. CASE DeleteSelectedUser \/ \E u \in People : DeleteUser(u)
  <2>1. PICK u, flags : Send(Task("delete", Deleting(u), flags)) /\ page' = page /\ page = "users"
    BY <1>3 DEF DeleteSelectedUser, DeleteUser, ListShown, Run, Begin, clickVars
  <2>2. Good(Task("delete", Deleting(u), flags), page, dialog, verdicts)
    BY <2>1 DEF Good, Saves, Deleting, Task, Fetch
  <2>3. UNCHANGED deskVars
    BY <1>3 DEF DeleteSelectedUser, DeleteUser
  <2> QED BY <2>1, <2>2, <2>3, SendGood, DeskCalm DEF Stays
<1> QED BY <1>1, <1>2, <1>3

(* The dialog is opened, over a save of this user or none; over a save of   *)
(* another one it is not clear.                                             *)
LEMMA OpenDesk ==
    ASSUME Inv, Shapes, DeskInv, NEW u \in People, OpenUserDetails(u)
    PROVE  DeskInv'
<1> DEFINE r == Task("user", u, {})
<1>1. Send(r) /\ page' = page /\ page = "users" /\ UNCHANGED <<works, verdicts, detail>>
  BY DEF OpenUserDetails, ListShown, Begin, clickVars, serverDesk
<1>2. /\ dialog'.user = u /\ dialog'.form.of = u
      /\ dialog'.form.crossed = SavesOther(u)
  BY DEF OpenUserDetails, Shapes
<1>3. ASSUME NEW t \in Slots
      PROVE  Good(net[t], page, dialog', verdicts')
  <2>1. Good(net[t], page, dialog, verdicts)
    BY DEF DeskInv
  <2>2. ASSUME net[t].owner = "page", net[t].op \in {"patch", "resource"}, Saves(net[t]),
               Clear(dialog')
        PROVE  net[t].arg.x.user = dialog'.user
    <3>1. ~SavesOther(u)
      BY <1>2, <2>2 DEF Clear
    <3> QED BY <1>2, <2>2, <3>1 DEF SavesOther, Owned, Saving, Saves, X, Flags
  <2>3. net[t].owner = "page" /\ net[t].op \notin {"none", "csrf"} /\ Saves(net[t])
           => net[t].op \in {"patch", "resource"}
    BY <2>1 DEF Good, Saves
  <2> QED BY <1>1, <2>1, <2>2, <2>3 DEF Good
<1>4. Good(r, page, dialog', verdicts')
  BY <1>1 DEF Good, Saves, Task, Fetch
<1>5. PICK s \in Slots : net' = [net EXCEPT ![s] = r]
  BY <1>1 DEF Send, With, Free
<1> HIDE DEF r
<1>6. \A t \in Slots : Good(net'[t], page', dialog', verdicts')
  BY <1>1, <1>3, <1>4, <1>5 DEF Inv, IsNet
<1> QED BY <1>1, <1>2, <1>6 DEF DeskInv

LEMMA UserAnswered ==
    ASSUME Inv, Shapes, DeskInv, NEW s \in Slots,
           DeliverUser(s) \/ DeliverPatch(s) \/ DeliverDelete(s) \/ DeliverDecision(s)
    PROVE  DeskInv'
<1>1. CASE DeliverUser(s)
  <2>1. /\ dialog'.user = dialog.user /\ dialog'.open = dialog.open
        /\ dialog'.form.of = dialog.form.of /\ dialog'.form.crossed = dialog.form.crossed
    BY <1>1 DEF DeliverUser, DetailsWanted, Shapes
  <2>2. Kept /\ (Clear(dialog') => dialog'.form.of = dialog'.user)
    BY <2>1 DEF Kept, Clear, DeskInv
  <2>3. UNCHANGED <<works, verdicts, detail>>
    BY <1>1 DEF DeliverUser, serverDesk
  <2> QED BY <1>1, <2>2, <2>3, FailedGood, DialogStep DEF DeliverUser
<1>2. CASE DeliverPatch(s)
  <2>1. CASE Reload(s)
    BY <1>2, <2>1, ReloadGood, DeskCalm DEF DeliverPatch, Ready, Stays
  <2>2. CASE Finish(s)
    BY <1>2, <2>2, FailedGood, DeskCalm DEF DeliverPatch
  <2> QED BY <1>2, <2>1, <2>2 DEF DeliverPatch
<1>3. CASE DeliverDelete(s)
  <2>1. AllGood(net') /\ Stays
    <3>1. CASE Reload(s)
      BY <1>3, <3>1, ReloadGood DEF DeliverDelete, Ready, Stays
    <3>2. CASE Finish(s) \/ RunFailed(s)
      BY <3>2, FailedGood
    <3> QED BY <1>3, <3>1, <3>2 DEF DeliverDelete
  <2>2. dialog' = dialog \/ ~Clear(dialog')
    BY <1>3 DEF DeliverDelete, Shapes, Clear
  <2>3. Kept /\ (Clear(dialog') => dialog'.form.of = dialog'.user)
    BY <2>2 DEF Kept, DeskInv
  <2>4. UNCHANGED <<works, verdicts, detail>>
    BY <1>3 DEF DeliverDelete, serverDesk
  <2> QED BY <2>1, <2>3, <2>4, DialogStep
<1>4. CASE DeliverDecision(s)
  <2>1. CASE Succeeded(s) /\ Reload(s)
    BY <1>4, <2>1, ReloadGood, DeskCalm DEF DeliverDecision, Ready, Succeeded, Stays
  <2>2. CASE RunFailed(s)
    BY <1>4, <2>2, FailedGood, DeskCalm DEF DeliverDecision
  <2> QED BY <1>4, <2>1, <2>2 DEF DeliverDecision
<1> QED BY <1>1, <1>2, <1>3, <1>4

(* Steps that at most change what is shown of the requests.                 *)
LEMMA DetailStep ==
    ASSUME DeskInv, AllGood(net'), Stays, UNCHANGED <<serverDesk, dialog>>,
           Shown(detail', verdicts)
    PROVE  DeskInv'
<1>1. \A s \in Slots : Good(net'[s], page', dialog', verdicts')
  BY DEF AllGood, Stays, Good, serverDesk
<1> QED BY <1>1 DEF DeskInv, serverDesk

LEMMA RequestDesk ==
    ASSUME Inv, Shapes, DeskInv,
           \/ CloseRequestDetails
           \/ \E g \in Groups : \/ OpenRequestDetails(g)
                                \/ \E v \in {"in_library", "rejected"} : Decide(g, v)
    PROVE  DeskInv'
<1>1. CASE CloseRequestDetails
  <2>1. UNCHANGED <<page, net, serverDesk, dialog>>
    BY <1>1 DEF CloseRequestDetails, browserVars, answerVars, clickVars
  <2>2. detail'.group = None /\ detail'.list = detail.list
    BY <1>1 DEF CloseRequestDetails, Shapes
  <2>3. Shown(detail', verdicts)
    BY <2>2 DEF DeskInv, Shown
  <2> QED BY <2>1, <2>3, DetailStep DEF AllGood, DeskInv, Stays
<1>2. ASSUME NEW g \in Groups, OpenRequestDetails(g)
      PROVE  DeskInv'
  <2> DEFINE r == Task("tmdb", g, {"requestDetail"})
  <2>1. /\ UNCHANGED <<page, serverDesk, dialog>>
        /\ Send(r) /\ g \in DOMAIN detail.list
    BY <1>2 DEF OpenRequestDetails, Begin, clickVars
  <2>2. detail'.group = g /\ detail'.list = detail.list /\ detail'.status = detail.list[g]
    BY <1>2 DEF OpenRequestDetails, Shapes
  <2>3. Shown(detail', verdicts)
    BY <2>1, <2>2 DEF DeskInv, Shown, Listed
  <2>4. Good(r, page, dialog, verdicts)
    BY OtherGood
  <2> HIDE DEF r
  <2> QED BY <2>1, <2>3, <2>4, SendGood, DetailStep DEF Stays
<1>3. ASSUME NEW g \in Groups, NEW v \in {"in_library", "rejected"}, Decide(g, v)
      PROVE  DeskInv'
  <2> DEFINE r == Task("decide", [group |-> g, verdict |-> v], {"busy"})
  <2>1. Send(r) /\ page' = page /\ UNCHANGED deskVars
    BY <1>3 DEF Decide, Run, Begin, clickVars
  <2>2. Good(r, page, dialog, verdicts)
    BY DEF Good, OfRequestPage, Saves, Decisions, Task, Fetch
  <2> HIDE DEF r
  <2> QED BY <2>1, <2>2, SendGood, DeskCalm DEF Stays
<1> QED BY <1>1, <1>2, <1>3

LEMMA TmdbAnswered ==
    ASSUME Inv, Shapes, DeskInv, NEW s \in Slots, DeliverTmdb(s)
    PROVE  DeskInv'
<1>1. /\ detail'.group = detail.group /\ detail'.list = detail.list
      /\ detail'.status = detail.status
  BY DEF DeliverTmdb, Shapes
<1>2. Shown(detail', verdicts)
  BY <1>1 DEF DeskInv, Shown
<1> QED BY <1>2, FailedGood, DetailStep DEF DeliverTmdb

(* The verdict of an action that the reload followed.                       *)
LEMMA DecidedStillShown ==
    ASSUME NEW d, DOMAIN d = {"list", "group", "status", "work"}, Shown(d, verdicts),
           NEW x, Honest(x, verdicts)
    PROVE  Shown(Decided(d, x), verdicts)
BY DEF Decided, Shown, Honest

LEMMA ReselectedSame ==
    ASSUME Shapes, DeskInv, NEW s \in Slots, net[s].owner = "page", net[s].op = "resource",
           NEW d, d = dialog \/ \E list : d = [dialog EXCEPT !.list = list],
           dialog' = Reselected(s, d)
    PROVE  Kept /\ (Clear(dialog') => dialog'.form.of = dialog'.user)
<1>1. /\ d.open = dialog.open /\ d.form = dialog.form /\ d.user = dialog.user
      /\ DOMAIN d = {"list", "open", "user", "form"}
  BY DEF Shapes
<1>2. /\ dialog'.open = dialog.open /\ dialog'.form = dialog.form
      /\ dialog'.user = dialog.user \/ (Saving(s) /\ dialog'.user = X(s).user)
  BY <1>1 DEF Reselected
<1>3. Saving(s) /\ Clear(dialog) => X(s).user = dialog.user
  BY DEF DeskInv, Good, Saving, Saves, X, Flags
<1> QED BY <1>2, <1>3 DEF Kept, Clear, DeskInv

LEMMA ListsAnswered ==
    ASSUME Inv, Shapes, DeskInv, NEW s \in Slots, DeliverLists(s)
    PROVE  DeskInv'
<1>1. /\ net[s].op = "resource" /\ net[s].owner = "page" /\ UNCHANGED serverDesk
      /\ page \in {"users", "requests"}
  BY DEF DeliverLists, Ready
<1>2. AllGood(net') /\ Stays
  <2>1. CASE Settle(s) /\ UNCHANGED answerVars
    BY <2>1, SettleGood DEF answerVars, clickVars, Stays
  <2>2. CASE ResourceFailed(s)
    BY <2>2, FailedGood
  <2> QED BY <2>1, <2>2 DEF DeliverLists
<1>3. CASE page = "users"
  <2>1. PICK d : /\ dialog' = Reselected(s, d)
                 /\ d = dialog \/ \E list : d = [dialog EXCEPT !.list = list]
    BY <1>3 DEF DeliverLists
  <2>2. UNCHANGED <<works, verdicts, detail>>
    BY <1>1, <1>3 DEF DeliverLists, serverDesk
  <2> QED BY <1>1, <1>2, <2>1, <2>2, ReselectedSame, DialogStep
<1>4. CASE page = "requests"
  <2>1. OfRequestPage(net[s], verdicts)
    BY <1>1, <1>4 DEF DeskInv, Good
  <2>2. PICK d : /\ detail' = AfterRun(s, d)
                 /\ \/ d = detail
                    \/ Succeeded(s) /\ d = [detail EXCEPT !.list = net[s].data]
    BY <1>4 DEF DeliverLists
  <2>3. DOMAIN d = {"list", "group", "status", "work"} /\ Shown(d, verdicts)
    BY <1>1, <2>1, <2>2 DEF Shapes, DeskInv, Shown, OfRequestPage, Succeeded
  <2>4. Shown(detail', verdicts)
    <3>1. CASE "busy" \in Flags(s)
      <4>1. Honest(X(s), verdicts)
        BY <1>1, <2>1, <3>1 DEF OfRequestPage, Flags, X
      <4> QED BY <2>2, <2>3, <3>1, <4>1, DecidedStillShown DEF AfterRun
    <3>2. CASE "busy" \notin Flags(s)
      BY <2>2, <2>3, <3>2 DEF AfterRun
    <3> QED BY <3>1, <3>2
  <2>5. UNCHANGED dialog
    BY <1>4 DEF DeliverLists
  <2> QED BY <1>1, <1>2, <2>4, <2>5, DetailStep
<1> QED BY <1>1, <1>3, <1>4

LEMMA DeskOwn == ASSUME Inv, Shapes, DeskInv, DeskStep PROVE DeskInv'
BY ElsewhereDesk, ServeDeskInv, UserDesk, OpenDesk, UserAnswered, RequestDesk, TmdbAnswered,
   ListsAnswered
   DEF DeskStep, DeskClick, DeskDelivery

LEMMA DeskStart == AdminInit => DeskInv
<1> SUFFICES ASSUME AdminInit PROVE DeskInv
  OBVIOUS
<1>1. \A s \in Slots : net[s] \in {Idle, Fetch("csrf", None)}
  BY DEF AdminInit
<1>2. \A s \in Slots : Good(net[s], page, dialog, verdicts)
  BY <1>1 DEF Good, Idle, Fetch
<1>3. Founded(works, verdicts)
  BY DEF AdminInit, DeskInit, Founded, Statuses, Decisions
<1>4. detail.group = None /\ detail.list = <<>> /\ ~dialog.open
  BY DEF AdminInit, DeskInit, FreshDetail, FreshDialog
<1>5. \A g : g \notin DOMAIN detail.list
  BY <1>4
<1>6. Shown(detail, verdicts)
  BY <1>4, <1>5 DEF Shown, Listed
<1> QED BY <1>2, <1>3, <1>4, <1>6 DEF DeskInv, Clear

LEMMA DeskNext == ASSUME Inv, Shapes, DeskInv, [AdminNext]_vars PROVE DeskInv'
<1>1. CASE ShellStep /\ UNCHANGED <<dash, deskVars, confVars>>
  BY <1>1, ShellDesk
<1>2. CASE DashboardStep /\ UNCHANGED <<deskVars, confVars>>
  BY <1>2, DashboardDesk
<1>3. CASE DeskStep /\ UNCHANGED <<dash, confVars>>
  BY <1>3, DeskOwn
<1>4. CASE SettingsStep /\ UNCHANGED <<dash, deskVars>>
  BY <1>4, SettingsDesk
<1>5. CASE SessionEnds /\ UNCHANGED <<ui, dash, deskVars, confVars>>
  BY <1>5, DeskCalm DEF SessionEnds, AllGood, DeskInv, Stays
<1>6. ASSUME NEW s \in Slots, Denied(s), UNCHANGED <<ui, dash, deskVars, confVars>>
      PROVE  DeskInv'
  <2>1. AllGood(net')
    BY <1>6, AnswerGood DEF Denied
  <2> QED BY <1>6, <2>1, DeskCalm DEF Denied, answerVars, clickVars, Stays
<1>7. ASSUME NEW s \in Slots, Lost(s), UNCHANGED <<ui, dash, deskVars, confVars>>
      PROVE  DeskInv'
  BY <1>7, LostGood, DeskCalm DEF Lost, answerVars, clickVars, Stays
<1>8. CASE UNCHANGED vars
  BY <1>8, DeskCalm DEF vars, browserVars, answerVars, clickVars, AllGood, DeskInv, Stays
<1> QED BY <1>1, <1>2, <1>3, <1>4, <1>5, <1>6, <1>7, <1>8 DEF AdminNext

LEMMA AlwaysDesk == AdminSpec => []DeskInv
<1>1. Known /\ DeskInv /\ [AdminNext]_vars => DeskInv'
  BY DeskNext DEF Known
<1> QED BY <1>1, DeskStart, AlwaysKnown, PTL DEF AdminSpec

(* A form is only written to the user that it was filled from               *)
(* (AdminApp.vue, openUserDetails and saveUserDetails), for any users and   *)
(* however late the details arrive, unless the dialog was opened while a    *)
(* save of another user was under way, whose reload selects that one again. *)
THEOREM FormWrittenToItsUser == AdminSpec => []FormIsOfItsUser
<1>1. DeskInv => FormIsOfItsUser
  BY DEF DeskInv, FormIsOfItsUser, Clear, Owned, Good, X
<1> QED BY <1>1, AlwaysDesk, PTL

(* The dialog of a work says that it is in the library, or rejected, only   *)
(* if somebody has given this verdict on this work (AdminApp.vue,           *)
(* openRequestDetails, confirmRequest, rejectRequest), for any number of    *)
(* works and whatever is opened while a verdict is on its way: the server's *)
(* rows are decided by verdicts only, the lists that are answered or shown  *)
(* are some earlier state of the rows, and a verdict of this page is shown  *)
(* only after the server has carried it out, under the work it was for.     *)
THEOREM ShownVerdictWasGiven == AdminSpec => []VerdictShownWasGiven
<1>1. DeskInv => VerdictShownWasGiven
  BY DEF DeskInv, Shown, Decisions, VerdictShownWasGiven
<1> QED BY <1>1, AlwaysDesk, PTL

(***************************************************************************)
(* The credential of a channel, and the types.                              *)
(***************************************************************************)
(* What a save sends as the secret: nothing, one that was typed, or a blank *)
(* when the channel is cleared.                                             *)
Wanted(x) == \/ x.secret \in {None, "new"}
             \/ x.secret = "" /\ x.clear = "telegram"

Proper(r) == /\ r.owner \in {"none", "page", "gone"}
             /\ r.status \in {"none", "sent", "held"} \cup Answers
             /\ r.op # "none" <=> r.status # "none"
             /\ r.op = "settings" => Wanted(r.arg.x)

AllProper(n) == \A s \in Slots : Proper(n[s])

WorldOK == /\ online \in BOOLEAN
           /\ session \in BOOLEAN
           /\ events \in 0..MaxEvents
           /\ page \in Resources \cup {"dashboard", "login"}
           /\ DOMAIN people \subseteq People

SecretInv == /\ WorldOK
             /\ conf.secret \in {"", "new"}
             /\ conf.channel \in {None, "telegram", "wecom"}
             /\ cfg.secret \in {"old", "new", ""}
             /\ AllProper(net)

LEMMA PutProper ==
    ASSUME Inv, AllProper(net), NEW s \in Slots, NEW r, Proper(r), net' = [net EXCEPT ![s] = r]
    PROVE  AllProper(net')
BY DEF AllProper, Inv, IsNet

LEMMA SendProper ==
    ASSUME Inv, AllProper(net), NEW r, Proper(r), Send(r)
    PROVE  AllProper(net')
<1>1. PICK s \in Slots : net' = [net EXCEPT ![s] = r]
  BY DEF Send, With, Free
<1> QED BY <1>1, PutProper

LEMMA TaskProper ==
    ASSUME NEW op, op # "none", NEW x, NEW flags, op = "settings" => Wanted(x)
    PROVE  Proper(Task(op, x, flags))
BY DEF Proper, Task, Fetch, Answers

LEMMA CsrfProper == Proper(Fetch("csrf", None))
BY DEF Proper, Fetch, Answers

LEMMA SettleProper ==
    ASSUME Inv, AllProper(net), NEW s \in Slots, Settle(s)
    PROVE  AllProper(net')
<1>1. Proper(Idle)
  BY DEF Proper, Idle, Answers
<1> QED BY <1>1, PutProper DEF Settle, Settled

LEMMA AbandonProper == ASSUME Inv, AllProper(net) PROVE AllProper(Abandoned)
<1>1. ASSUME NEW s \in Slots
      PROVE  Proper(Abandoned[s])
  <2>1. Proper(net[s]) /\ Proper(Idle)
    BY DEF AllProper, Proper, Idle, Answers
  <2>2. CASE net[s].status \notin Answers /\ InFlight(s)
    <3> DEFINE r == [net[s] EXCEPT !.owner = "gone"]
    <3>1. /\ r.op = net[s].op /\ r.owner = "gone" /\ r.arg = net[s].arg
          /\ r.status = net[s].status
      BY DEF Inv, IsNet, Request
    <3>2. Abandoned[s] = r
      BY <2>2 DEF Abandoned
    <3> HIDE DEF r
    <3> QED BY <2>1, <3>1, <3>2 DEF Proper
  <2>3. CASE net[s].status \in Answers
    BY <2>1, <2>3 DEF Abandoned
  <2>4. CASE net[s].status \notin Answers /\ ~InFlight(s)
    BY <2>1, <2>4 DEF Abandoned
  <2> QED BY <2>2, <2>3, <2>4
<1> QED BY <1>1 DEF AllProper

LEMMA AnswerProper ==
    ASSUME Inv, AllProper(net), NEW s \in Slots, net[s].op # "none",
           NEW status \in Answers, NEW value, Answer(s, status, value)
    PROVE  AllProper(net')
<1>1. CASE net[s].owner = "page"
  <2> DEFINE r == [net[s] EXCEPT !.status = status, !.data = value]
  <2>1. /\ r.op = net[s].op /\ r.owner = net[s].owner /\ r.arg = net[s].arg
        /\ r.status = status
    BY DEF Inv, IsNet, Request
  <2>2. net' = [net EXCEPT ![s] = r]
    BY <1>1 DEF Answer, Answered, Inv, IsNet
  <2> HIDE DEF r
  <2>3. Proper(r)
    BY <2>1 DEF AllProper, Proper, Answers
  <2> QED BY <2>2, <2>3, PutProper
<1>2. CASE net[s].owner # "page"
  BY <1>2, SettleProper DEF Answer, Answered, Settle, Settled
<1> QED BY <1>1, <1>2

LEMMA LostProper ==
    ASSUME Inv, AllProper(net), NEW s \in Slots, Lost(s)
    PROVE  AllProper(net')
<1> DEFINE r == [net[s] EXCEPT !.status = "failed", !.data = None]
           gone == [net[s] EXCEPT !.owner = "gone"]
           failed == [net EXCEPT ![s] = r]
<1>1. /\ r.op = net[s].op /\ r.owner = net[s].owner /\ r.arg = net[s].arg
      /\ r.status = "failed"
      /\ gone.op = net[s].op /\ gone.owner = "gone" /\ gone.arg = net[s].arg
      /\ gone.status = net[s].status
  BY DEF Inv, IsNet, Request
<1>2. [net EXCEPT ![s].status = "failed", ![s].data = None] = failed
  BY DEF Inv, IsNet, Request
<1>3. DOMAIN failed = Slots
  BY DEF Inv, IsNet
<1>4. net[s].status # "none"
  BY DEF Lost
<1>5. Proper(net[s])
  BY DEF AllProper
<1>6. failed = [net EXCEPT ![s] = r]
  OBVIOUS
<1> HIDE DEF r, gone, failed
<1>7. Proper(gone) /\ Proper(r)
  BY <1>1, <1>4, <1>5 DEF Proper, Answers
<1>8. AllProper(failed)
  BY <1>6, <1>7 DEF AllProper, Inv, IsNet
<1>9. \/ net' = failed
      \/ Free(net) # {} /\ net' = With(failed, gone)
  BY <1>2 DEF Lost, gone
<1>10. CASE Free(net) # {} /\ net' = With(failed, gone)
  <2> DEFINE t == CHOOSE q \in Free(failed) : TRUE
  <2>1. net' = [failed EXCEPT ![t] = gone]
    BY <1>10 DEF With
  <2> HIDE DEF t
  <2> QED BY <1>3, <1>7, <1>8, <2>1 DEF AllProper
<1> QED BY <1>8, <1>9, <1>10

LEMMA ReloadProper ==
    ASSUME Inv, AllProper(net), NEW s \in Slots, Reload(s) PROVE AllProper(net')
<1>1. Proper(Task("resource", X(s), Flags(s)))
  BY TaskProper
<1> QED BY <1>1, PutProper DEF Reload, Follow

LEMMA FailedProper ==
    ASSUME Inv, AllProper(net), NEW s \in Slots, Finish(s) \/ RunFailed(s) \/ ResourceFailed(s)
    PROVE  AllProper(net')
BY SettleProper, AbandonProper DEF Finish, RunFailed, ResourceFailed, ToLogin

LEMMA BeginProper ==
    ASSUME Inv, AllProper(net), NEW op, op \notin {"none", "settings"}, NEW x, NEW flags,
           Begin(op, x, flags)
    PROVE  AllProper(net')
BY TaskProper, SendProper DEF Begin

(* Which requests are on their way after a step of each component.          *)
LEMMA ShellProper == ASSUME Inv, AllProper(net), ShellStep PROVE AllProper(net')
<1>1. CASE ReloadResource \/ Manage \/ Logout
  BY <1>1, BeginProper DEF ReloadResource, Manage, Logout, Run
<1>2. CASE Refresh
  BY <1>2, TaskProper, SendProper DEF Refresh
<1>3. CASE CooledDown
  BY <1>3 DEF CooledDown, browserVars
<1>4. CASE BackOnline
  BY <1>4, CsrfProper, SendProper DEF BackOnline
<1>5. ASSUME NEW s \in Slots, DeliverToken(s)
      PROVE  AllProper(net')
  BY <1>5, TaskProper, PutProper DEF DeliverToken, Follow
<1>6. ASSUME NEW s \in Slots, DeliverManage(s) \/ DeliverLogout(s)
      PROVE  AllProper(net')
  BY <1>6, ReloadProper, FailedProper, AbandonProper DEF DeliverManage, DeliverLogout, ToLogin
<1>7. ASSUME NEW s \in Slots, ServeShell(s)
      PROVE  AllProper(net')
  BY <1>7, AnswerProper DEF ServeShell, Arrived, Answers
<1> QED BY <1>1, <1>2, <1>3, <1>4, <1>5, <1>6, <1>7 DEF ShellStep

LEMMA DashboardProper == ASSUME Inv, AllProper(net), DashboardStep PROVE AllProper(net')
<1>1. \A day, flags : Proper(Question(day, flags))
  BY TaskProper DEF Question
<1>2. CASE Poll \/ RefreshDashboard \/ SelectWatchDate \/ ReturnToToday
  BY <1>1, <1>2, SendProper
     DEF Poll, RefreshDashboard, SelectWatchDate, ReturnToToday, ChangeWatchDate
<1>3. CASE StopSession
  BY <1>3, BeginProper DEF StopSession, Run
<1>4. ASSUME NEW s \in Slots, LoadFirst(s) \/ DeliverStop(s)
      PROVE  AllProper(net')
  BY <1>1, <1>4, PutProper, FailedProper DEF LoadFirst, DeliverStop, Follow
<1>5. ASSUME NEW s \in Slots, DeliverDashboard(s)
      PROVE  AllProper(net')
  BY <1>5, SettleProper, AbandonProper DEF DeliverDashboard
<1>6. ASSUME NEW s \in Slots, ServeDashboard(s)
      PROVE  AllProper(net')
  BY <1>6, AnswerProper DEF ServeDashboard, Arrived, Answers
<1> QED BY <1>2, <1>3, <1>4, <1>5, <1>6 DEF DashboardStep, DashboardClick, DashboardDelivery

LEMMA DeskProper == ASSUME Inv, AllProper(net), DeskStep PROVE AllProper(net')
<1>1. CASE EditUser \/ CloseUserDetails \/ CloseRequestDetails \/ DeskElsewhere
  BY <1>1 DEF EditUser, CloseUserDetails, CloseRequestDetails, DeskElsewhere, browserVars
<1>2. CASE \/ SaveUserDetails \/ DeleteSelectedUser
           \/ \E u \in People : OpenUserDetails(u) \/ DeleteUser(u)
  BY <1>2, BeginProper DEF SaveUserDetails, DeleteSelectedUser, OpenUserDetails, DeleteUser, Run
<1>3. CASE \E g \in Groups : \/ OpenRequestDetails(g)
                             \/ \E v \in {"in_library", "rejected"} : Decide(g, v)
  BY <1>3, BeginProper DEF OpenRequestDetails, Decide, Run
<1>4. ASSUME NEW s \in Slots, DeskDelivery(s)
      PROVE  AllProper(net')
  BY <1>4, ReloadProper, FailedProper, SettleProper
     DEF DeskDelivery, DeliverUser, DeliverPatch, DeliverDelete, DeliverTmdb, DeliverDecision,
         DeliverLists
<1>5. ASSUME NEW s \in Slots, ServeDesk(s)
      PROVE  AllProper(net')
  <2>1. PICK status \in {"ok", "refused"} : \E value : Answer(s, status, value)
    BY <1>5 DEF ServeDesk
  <2>2. net[s].op # "none"
    BY <1>5 DEF ServeDesk, Arrived
  <2> QED BY <2>1, <2>2, AnswerProper DEF Answers
<1> QED BY <1>1, <1>2, <1>3, <1>4, <1>5 DEF DeskStep, DeskClick

LEMMA SettingsProper == ASSUME Inv, SecretInv, SettingsStep PROVE AllProper(net')
<1>1. AllProper(net)
  BY DEF SecretInv
<1>2. CASE \/ TypeSecret \/ SetNotificationToggle \/ CloseNotificationDialog
           \/ \E c \in {"telegram", "wecom"} : OpenNotificationDialog(c)
  BY <1>1, <1>2
     DEF TypeSecret, SetNotificationToggle, CloseNotificationDialog, OpenNotificationDialog,
         Typed, Local, browserVars
<1>3. CASE SaveSettings \/ SaveNotificationChannel \/ ClearNotificationChannel
  <2>1. Wanted(Values)
    BY DEF Wanted, Values, SecretInv
  <2>2. CASE ClearNotificationChannel
    <3>1. Send(Task("settings", ClearedValues, {"notificationDialog"}))
      BY <2>2 DEF ClearNotificationChannel, Begin
    <3>2. Wanted(ClearedValues)
      BY DEF Wanted, ClearedValues
    <3> QED BY <1>1, <3>1, <3>2, TaskProper, SendProper
  <2>3. CASE SaveSettings \/ SaveNotificationChannel
    <3>1. PICK flags : Send(Task("settings", Values, flags))
      BY <2>3 DEF SaveSettings, SaveNotificationChannel, Begin
    <3>2. Proper(Task("settings", Values, flags))
      BY <2>1, TaskProper
    <3> QED BY <1>1, <3>1, <3>2, SendProper
  <2> QED BY <1>3, <2>2, <2>3
<1>4. CASE TestSetting \/ WecomMenu \/ UploadActivationImage \/ ClearActivationImage
  <2>1. PICK op \in {"task", "upload", "unimage"} : \E x, flags : Begin(op, x, flags)
    BY <1>4 DEF TestSetting, WecomMenu, UploadActivationImage, ClearActivationImage
  <2> QED BY <1>1, <2>1, BeginProper
<1>5. ASSUME NEW s \in Slots, SettingsDelivery(s)
      PROVE  AllProper(net')
  <2>1. Proper(Task("meta", None, {"imageLoading"}))
    BY TaskProper
  <2>2. \/ Reload(s) \/ Finish(s) \/ Settle(s) \/ ResourceFailed(s)
        \/ Follow(s, Task("meta", None, {"imageLoading"}))
    BY <1>5 DEF SettingsDelivery, DeliverSettings, DeliverTask, DeliverForm, DeliverMeta,
                DeliverUpload, DeliverClear
  <2> QED BY <1>1, <2>1, <2>2, ReloadProper, FailedProper, SettleProper, PutProper DEF Follow
<1>6. ASSUME NEW s \in Slots, ServeSettings(s)
      PROVE  AllProper(net')
  <2>1. PICK status \in {"ok", "refused"} : \E value : Answer(s, status, value)
    BY <1>6 DEF ServeSettings
  <2>2. net[s].op # "none"
    BY <1>6 DEF ServeSettings, Arrived
  <2> QED BY <1>1, <2>1, <2>2, AnswerProper DEF Answers
<1> QED BY <1>2, <1>3, <1>4, <1>5, <1>6 DEF SettingsStep, SettingsClick

(* What changes of the browser.                                             *)
World == /\ Stays
         /\ online' \in {online, ~online}
         /\ session' \in {session, FALSE}
         /\ UNCHANGED events \/ Event

LEMMA WorldCalm == ASSUME UNCHANGED answerVars PROVE World
BY DEF World, Stays, answerVars, clickVars

LEMMA WorldEvent == ASSUME Event, UNCHANGED clickVars PROVE World
BY DEF World, Stays, clickVars

LEMMA WorldFailed ==
    ASSUME NEW s, Finish(s) \/ RunFailed(s) \/ ResourceFailed(s) \/ Reload(s) \/ ToLogin
    PROVE  World
BY WorldCalm DEF Finish, RunFailed, ResourceFailed, Reload, ToLogin, World, Stays

LEMMA WorldStep == ASSUME [AdminNext]_vars PROVE World
<1>1. CASE ShellStep
  <2>1. CASE ReloadResource \/ Refresh \/ Manage \/ Logout
    BY <2>1, WorldEvent DEF ReloadResource, Refresh, Manage, Logout, Run, Begin
  <2>2. CASE CooledDown
    BY <2>2, WorldCalm DEF CooledDown, browserVars
  <2>3. CASE BackOnline
    BY <2>3 DEF BackOnline, World, Stays
  <2>4. ASSUME NEW s \in Slots, DeliverToken(s) \/ DeliverManage(s) \/ DeliverLogout(s)
        PROVE  World
    BY <2>4, WorldCalm, WorldFailed DEF DeliverToken, DeliverManage, DeliverLogout
  <2>5. ASSUME NEW s \in Slots, ServeShell(s)
        PROVE  World
    BY <2>5 DEF ServeShell, World, Stays
  <2> QED BY <1>1, <2>1, <2>2, <2>3, <2>4, <2>5 DEF ShellStep
<1>2. CASE DashboardStep
  <2>1. CASE Poll \/ RefreshDashboard \/ SelectWatchDate \/ ReturnToToday \/ StopSession
    BY <2>1, WorldEvent
       DEF Poll, RefreshDashboard, SelectWatchDate, ReturnToToday, StopSession, Run, Begin,
           ChangeWatchDate
  <2>2. ASSUME NEW s \in Slots, LoadFirst(s) \/ DeliverStop(s) \/ ServeDashboard(s)
        PROVE  World
    BY <2>2, WorldCalm, WorldFailed DEF LoadFirst, DeliverStop, ServeDashboard
  <2>3. ASSUME NEW s \in Slots, DeliverDashboard(s)
        PROVE  World
    BY <2>3 DEF DeliverDashboard, World, Stays
  <2> QED BY <1>2, <2>1, <2>2, <2>3 DEF DashboardStep, DashboardClick, DashboardDelivery
<1>3. CASE DeskStep
  <2>1. CASE EditUser \/ CloseUserDetails \/ CloseRequestDetails
    BY <2>1, WorldCalm DEF EditUser, CloseUserDetails, CloseRequestDetails, browserVars
  <2>2. CASE \/ SaveUserDetails \/ DeleteSelectedUser
             \/ \E u \in People : OpenUserDetails(u) \/ DeleteUser(u)
             \/ \E g \in Groups : \/ OpenRequestDetails(g)
                                  \/ \E v \in {"in_library", "rejected"} : Decide(g, v)
    BY <2>2, WorldEvent
       DEF SaveUserDetails, DeleteSelectedUser, OpenUserDetails, DeleteUser, OpenRequestDetails,
           Decide, Run, Begin
  <2>3. CASE DeskElsewhere
    BY <2>3, WorldEvent DEF DeskElsewhere
  <2>4. ASSUME NEW s \in Slots, DeskDelivery(s) \/ ServeDesk(s)
        PROVE  World
    BY <2>4, WorldCalm, WorldFailed
       DEF DeskDelivery, DeliverUser, DeliverPatch, DeliverDelete, DeliverTmdb, DeliverDecision,
           DeliverLists, ServeDesk
  <2> QED BY <1>3, <2>1, <2>2, <2>3, <2>4 DEF DeskStep, DeskClick
<1>4. CASE SettingsStep
  <2>1. CASE \/ TypeSecret \/ SetNotificationToggle \/ CloseNotificationDialog
             \/ \E c \in {"telegram", "wecom"} : OpenNotificationDialog(c)
    BY <2>1, WorldCalm, WorldEvent
       DEF TypeSecret, SetNotificationToggle, CloseNotificationDialog, OpenNotificationDialog,
           Typed, Local, browserVars
  <2>2. CASE \/ SaveSettings \/ SaveNotificationChannel \/ ClearNotificationChannel
             \/ TestSetting \/ WecomMenu \/ UploadActivationImage \/ ClearActivationImage
    BY <2>2, WorldEvent
       DEF SaveSettings, SaveNotificationChannel, ClearNotificationChannel, TestSetting,
           WecomMenu, UploadActivationImage, ClearActivationImage, Begin
  <2>3. ASSUME NEW s \in Slots, SettingsDelivery(s) \/ ServeSettings(s)
        PROVE  World
    BY <2>3, WorldCalm, WorldFailed
       DEF SettingsDelivery, DeliverSettings, DeliverTask, DeliverForm, DeliverMeta,
           DeliverUpload, DeliverClear, ServeSettings
  <2> QED BY <1>4, <2>1, <2>2, <2>3 DEF SettingsStep, SettingsClick
<1>5. CASE SessionEnds \/ \E s \in Slots : Denied(s) \/ Lost(s)
  BY <1>5, WorldCalm DEF SessionEnds, Denied, Lost, World, Stays
<1>6. CASE UNCHANGED vars
  BY <1>6, WorldCalm DEF vars, browserVars
<1> QED BY <1>1, <1>2, <1>3, <1>4, <1>5, <1>6 DEF AdminNext

(* What the server holds as the secret: only a save changes it.             *)
SecretStep ==
    /\ cfg'.secret \in {cfg.secret, "new", ""}
    /\ cfg'.secret = "" /\ cfg.secret # "" =>
          \E s \in Slots : net[s].op = "settings" /\ X(s).clear = "telegram"

LEMMA ServerSecret == ASSUME Inv, Shapes, SecretInv, SettingsStep PROVE SecretStep
<1>1. CASE UNCHANGED cfg
  BY <1>1 DEF SecretStep
<1>2. ASSUME NEW s \in Slots, ServeSettings(s)
      PROVE  SecretStep
  <2>1. CASE cfg' = [cfg EXCEPT !.image = TRUE] \/ cfg' = [cfg EXCEPT !.image = FALSE]
    BY <2>1 DEF SecretStep, Shapes
  <2>2. CASE Arrived(s, "settings") /\ X(s).clear # "wecom" /\ cfg' = Saved(X(s))
    <3>1. net[s].op = "settings" /\ Wanted(X(s))
      BY <2>2 DEF Arrived, SecretInv, AllProper, Proper, X
    <3>2. cfg'.secret = IF X(s).secret = None THEN cfg.secret ELSE X(s).secret
      BY <2>2 DEF Saved, Shapes
    <3> QED BY <2>2, <3>1, <3>2 DEF Wanted, SecretStep
  <2> QED BY <1>1, <1>2, <2>1, <2>2 DEF ServeSettings
<1> QED BY <1>1, <1>2
        DEF SettingsStep, SettingsClick, TypeSecret, SetNotificationToggle, OpenNotificationDialog,
            CloseNotificationDialog, SaveSettings, SaveNotificationChannel,
            ClearNotificationChannel, TestSetting, WecomMenu, UploadActivationImage,
            ClearActivationImage, Typed, Local, confVars, SettingsDelivery, DeliverSettings,
            DeliverTask, DeliverForm, DeliverMeta, DeliverUpload, DeliverClear

(* What is typed into the form, and the dialog that is open.                *)
LEMMA FormStep ==
    ASSUME Shapes, SecretInv, SettingsStep
    PROVE  conf'.secret \in {"", "new"} /\ conf'.channel \in {None, "telegram", "wecom"}
<1>1. DOMAIN conf = {"secret", "toggle", "configured", "channel", "meta", "src", "preview", "alive"}
  BY DEF Shapes, Fields
<1>2. CASE UNCHANGED conf
  BY <1>2 DEF SecretInv
<1>3. CASE \/ TypeSecret \/ SetNotificationToggle \/ CloseNotificationDialog
           \/ \E c \in {"telegram", "wecom"} : OpenNotificationDialog(c)
  BY <1>1, <1>3
     DEF TypeSecret, SetNotificationToggle, CloseNotificationDialog, OpenNotificationDialog,
         SecretInv
<1>4. CASE UploadActivationImage
  BY <1>1, <1>4 DEF UploadActivationImage, WithPreview, ReleasePreview, SecretInv
<1>5. ASSUME NEW s \in Slots, SettingsDelivery(s)
      PROVE  conf'.secret \in {"", "new"} /\ conf'.channel \in {None, "telegram", "wecom"}
  BY <1>1, <1>2, <1>5
     DEF SettingsDelivery, DeliverSettings, DeliverTask, DeliverForm, DeliverMeta, DeliverUpload,
         DeliverClear, SetMeta, ReleasePreview, confVars, SecretInv
<1> QED BY <1>2, <1>3, <1>4, <1>5
        DEF SettingsStep, SettingsClick, SaveSettings, SaveNotificationChannel,
            ClearNotificationChannel, TestSetting, WecomMenu, ClearActivationImage, confVars,
            ServeSettings

LEMMA PeopleStep ==
    ASSUME DOMAIN people \subseteq People, [AdminNext]_vars
    PROVE  DOMAIN people' \subseteq People
<1>1. CASE UNCHANGED people
  BY <1>1
<1>2. CASE DeskElsewhere
  BY <1>2 DEF DeskElsewhere, VerdictGiven, Without
<1>3. ASSUME NEW s \in Slots, ServeDesk(s)
      PROVE  DOMAIN people' \subseteq People
  BY <1>3 DEF ServeDesk, serverDesk, VerdictGiven, Without
<1> QED BY <1>1, <1>2, <1>3
        DEF AdminNext, vars, deskVars, serverDesk, DeskStep, DeskClick, EditUser, CloseUserDetails,
            SaveUserDetails, DeleteSelectedUser, CloseRequestDetails, OpenUserDetails, DeleteUser,
            OpenRequestDetails, Decide, DeskDelivery, DeliverUser, DeliverPatch, DeliverDelete,
            DeliverTmdb, DeliverDecision, DeliverLists

LEMMA SecretInit == AdminInit => SecretInv
<1> SUFFICES ASSUME AdminInit PROVE SecretInv
  OBVIOUS
<1>1. Proper(Idle)
  BY DEF Proper, Idle, Answers
<1>2. AllProper(net)
  BY <1>1, CsrfProper DEF AdminInit, AllProper
<1>3. WorldOK
  BY BrowserAssumption DEF AdminInit, DeskInit, WorldOK
<1> QED BY <1>2, <1>3 DEF AdminInit, ConfInit, FreshConf, SecretInv

LEMMA SecretNext == ASSUME Inv, Shapes, SecretInv, [AdminNext]_vars PROVE SecretInv'
<1>1. WorldOK'
  <2>1. World /\ DOMAIN people' \subseteq People
    BY WorldStep, PeopleStep DEF SecretInv, WorldOK
  <2>2. events \in 0..MaxEvents /\ MaxEvents \in Nat
    BY BrowserAssumption DEF SecretInv, WorldOK
  <2>3. events' = events \/ (events < MaxEvents /\ events' = events + 1)
    BY <2>1 DEF World, Event
  <2>4. events' \in 0..MaxEvents
    BY <2>2, <2>3
  <2> QED BY <2>1, <2>4 DEF World, Stays, SecretInv, WorldOK
<1>2. AllProper(net')
  <2>1. AllProper(net)
    BY DEF SecretInv
  <2>2. CASE ShellStep \/ DashboardStep \/ DeskStep \/ SettingsStep
    BY <2>1, <2>2, ShellProper, DashboardProper, DeskProper, SettingsProper
  <2>3. CASE SessionEnds \/ UNCHANGED vars
    BY <2>1, <2>3 DEF SessionEnds, vars, browserVars
  <2>4. ASSUME NEW s \in Slots, Denied(s)
        PROVE  AllProper(net')
    <3>1. net[s].op # "none"
      BY <2>1, <2>4 DEF Denied, AllProper, Proper
    <3> QED BY <2>1, <2>4, <3>1, AnswerProper DEF Denied, Answers
  <2>5. ASSUME NEW s \in Slots, Lost(s)
        PROVE  AllProper(net')
    BY <2>1, <2>5, LostProper
  <2> QED BY <2>2, <2>3, <2>4, <2>5 DEF AdminNext
<1>3. CASE SettingsStep
  <2>1. cfg'.secret \in {"old", "new", ""}
    BY <1>3, ServerSecret DEF SecretStep, SecretInv
  <2>2. AllProper(net)'
    BY <1>2 DEF AllProper
  <2> QED BY <1>1, <1>3, <2>1, <2>2, FormStep DEF SecretInv
<1>4. CASE UNCHANGED confVars
  <2>1. AllProper(net)'
    BY <1>2 DEF AllProper
  <2> QED BY <1>1, <1>4, <2>1 DEF confVars, SecretInv
<1> QED BY <1>3, <1>4 DEF AdminNext, vars

LEMMA AlwaysSecret == AdminSpec => []SecretInv
<1>1. ASSUME Known, Known', SecretInv, [AdminNext]_vars
      PROVE  SecretInv'
  BY <1>1, SecretNext DEF Known
<1> QED BY <1>1, SecretInit, AlwaysKnown, PTL DEF AdminSpec

(* BlankKeepsSecret of AdminSettings: a credential that is configured is    *)
(* erased only by a clearing of its channel, whatever the reloads leave in  *)
(* the form and whichever saves overlap.                                    *)
THEOREM OnlyClearingErases == AdminSpec => BlankKeepsSecret
<1>1. ASSUME Known, SecretInv, [AdminNext]_vars
      PROVE  [cfg'.secret # cfg.secret =>
                 /\ cfg'.secret \in {"new", ""}
                 /\ cfg'.secret = "" => \E s \in Slots : /\ net[s].op = "settings"
                                                         /\ X(s).clear = "telegram"]_confVars
  <2>1. CASE SettingsStep
    BY <1>1, <2>1, ServerSecret DEF SecretStep, Known
  <2>2. CASE UNCHANGED confVars
    BY <2>2
  <2> QED BY <1>1, <2>1, <2>2 DEF AdminNext, vars
<1> QED BY <1>1, AlwaysKnown, AlwaysSecret, PTL DEF AdminSpec, BlankKeepsSecret

(* AdminTypeOK of Admin: among the rest, a request is on its way exactly    *)
(* when it has a status, and the dashboard never shows an answer to a       *)
(* question it has not asked.                                               *)
THEOREM AdminTypesHold == AdminSpec => []AdminTypeOK
<1>1. Inv /\ SecretInv => AdminTypeOK
  <2> SUFFICES ASSUME Inv, SecretInv PROVE AdminTypeOK
    OBVIOUS
  <2>1. BrowserTypeOK
    BY DEF SecretInv, WorldOK, AllProper, Proper, BrowserTypeOK, InFlight
  <2>2. ui.on \subseteq BusyFlags \cup {"loading", "watchTime"}
    BY DEF Inv, ShellType, Flagged
  <2>3. dash.shown \in 0..dash.asked /\ dash.date \in Days \cup {None}
    BY DEF Inv, DashType
  <2> QED BY <2>1, <2>2, <2>3 DEF AdminTypeOK, SecretInv, WorldOK
<1> QED BY <1>1, AlwaysKnown, AlwaysSecret, PTL DEF Known

=============================================================================
