--------------------------- MODULE AdminSettings ---------------------------
(***************************************************************************)
(* The settings page of the admin console: the form, the dialog of a        *)
(* notification channel, the connection tests, the menu of the enterprise   *)
(* WeChat application and the scan image.  Two channels stand for the       *)
(* three: "telegram", whose credential is a secret, and "wecom", which has  *)
(* an integer among its fields.  `cfg' is what the server holds.            *)
(***************************************************************************)
EXTENDS AdminShell

VARIABLES conf, cfg

confVars == <<conf, cfg>>

(* secret: what is typed into the field, "" is blank; configured and toggle *)
(* come with the rows; src is None, the server's URL or a preview's number. *)
FreshConf == [secret |-> "", toggle |-> FALSE, configured |-> FALSE, channel |-> None,
              meta |-> FALSE, src |-> None, preview |-> None, alive |-> {}]

ConfInit == conf = FreshConf /\ cfg = [secret |-> "old", toggle |-> TRUE, image |-> FALSE]

OnSettings == page = "settings"

Typed == Event /\ UNCHANGED <<clickVars, net, ui, cfg>>

Local == UNCHANGED <<browserVars, ui, cfg>>

(***************************************************************************)
(* The form.                                                                *)
(***************************************************************************)
TypeSecret == /\ OnSettings /\ ui.loaded
              /\ conf' = [conf EXCEPT !.secret = IF @ = "" THEN "new" ELSE ""]
              /\ Typed

(* setNotificationToggle.                                                   *)
SetNotificationToggle == /\ OnSettings /\ ui.loaded
                         /\ conf' = [conf EXCEPT !.toggle = ~@ /\ conf.configured]
                         /\ Typed

(* Mutant: blank secrets are sent too.                                      *)
ValuesWithBlanks == [clear |-> None, toggle |-> conf.toggle, secret |-> conf.secret]

(* saveSettings: every row that is no secret, and the secrets typed anew;   *)
(* nothing before the rows have been loaded.                                *)
Values == [clear |-> None, toggle |-> IF ui.loaded THEN conf.toggle ELSE None,
           secret |-> IF conf.secret = "" THEN None ELSE conf.secret]

SaveSettings ==
    /\ OnSettings
    /\ "loading" \notin ui.on
    /\ "busy" \notin ui.on
    /\ online
    /\ Begin("settings", Values, {"busy"})
    /\ UNCHANGED confVars

OpenNotificationDialog(c) == /\ OnSettings
                             /\ conf' = [conf EXCEPT !.channel = c]
                             /\ Local

InDialog == OnSettings /\ conf.channel # None /\ "notificationDialog" \notin ui.on

CloseNotificationDialog == /\ InDialog
                           /\ conf' = [conf EXCEPT !.channel = None]
                           /\ Local

SaveNotificationChannel ==
    /\ InDialog
    /\ "busy" \notin ui.on
    /\ online
    /\ Begin("settings", Values, {"busy", "notificationDialog"})
    /\ UNCHANGED confVars

(* clearNotificationChannel: blanks for every field of the channel that has *)
(* been loaded, and its toggles off; the page may be saving at the time.    *)
ClearedValues ==
    [clear  |-> IF ui.loaded THEN conf.channel ELSE None,
     toggle |-> IF conf.channel = "telegram" THEN FALSE ELSE None,
     secret |-> IF conf.channel = "telegram" /\ ui.loaded THEN "" ELSE None]

ClearNotificationChannel ==
    /\ InDialog
    /\ online
    /\ Begin("settings", ClearedValues, {"notificationDialog"})
    /\ UNCHANGED confVars

DeliverSettings(s) ==
    /\ Ready(s, "settings")
    /\ IF Succeeded(s) THEN Reload(s) ELSE Finish(s)
    /\ UNCHANGED confVars

(* testSetting, alone and from the dialog; the three menu operations.       *)
TestSetting ==
    /\ OnSettings /\ "settingsTest" \notin ui.on /\ online
    /\ \/ Begin("task", None, {"settingsTest"})
       \/ InDialog /\ Begin("task", None, {"settingsTest", "notificationDialog"})
    /\ UNCHANGED confVars

WecomMenu ==
    /\ OnSettings /\ conf.channel = "wecom" /\ "menu" \notin ui.on /\ online
    /\ Begin("task", None, {"menu"})
    /\ UNCHANGED confVars

DeliverTask(s) == Ready(s, "task") /\ Finish(s) /\ UNCHANGED confVars

(***************************************************************************)
(* The scan image.                                                          *)
(***************************************************************************)
(* Mutant: the preview's URL is forgotten, not revoked.                     *)
ForgetPreview(c) == [c EXCEPT !.preview = None]

(* releaseActivationPreview, createObjectURL, setActivationImageMeta.       *)
ReleasePreview(c) == [c EXCEPT !.alive = @ \ {c.preview}, !.preview = None]

WithPreview(c) == LET u == CHOOSE n \in 1..(Cardinality(c.alive) + 1) : n \notin c.alive
                  IN  [c EXCEPT !.alive = @ \cup {u}, !.preview = u, !.src = u]

ServerUrl == 0

ServerImage(meta) == IF meta THEN ServerUrl ELSE None

SetMeta(c, meta) == [c EXCEPT !.meta = meta, !.src = ServerImage(meta)]

DeliverMeta(s) ==
    /\ Ready(s, "meta")
    /\ conf' = IF Succeeded(s) THEN SetMeta(conf, net[s].data) ELSE conf
    /\ Finish(s)
    /\ UNCHANGED cfg

(* uploadActivationImage looks at neither flag, and its file input is there *)
(* from the start.                                                          *)
UploadActivationImage ==
    /\ OnSettings /\ online
    /\ Begin("upload", None, {"imageBusy"})
    /\ conf' = WithPreview(ReleasePreview(conf))
    /\ UNCHANGED cfg

DeliverUpload(s) ==
    /\ Ready(s, "upload")
    /\ conf' = LET bare == ReleasePreview(conf)
               IN  IF Succeeded(s) THEN SetMeta(bare, TRUE)
                   ELSE [bare EXCEPT !.src = ServerImage(conf.meta)]
    /\ Finish(s)
    /\ UNCHANGED cfg

ClearActivationImage ==
    /\ OnSettings /\ online
    /\ "imageBusy" \notin ui.on /\ "imageLoading" \notin ui.on
    /\ conf.meta
    /\ Begin("unimage", None, {"imageBusy"})
    /\ UNCHANGED confVars

DeliverClear(s) ==
    /\ Ready(s, "unimage")
    /\ conf' = IF Succeeded(s) THEN SetMeta(ReleasePreview(conf), FALSE) ELSE conf
    /\ Finish(s)
    /\ UNCHANGED cfg

(* The reload replaces the form, what is typed into it by now included, and *)
(* goes on with loadActivationImage unless that one is on its way.          *)
DeliverForm(s) ==
    /\ OnSettings
    /\ Ready(s, "resource")
    /\ \/ /\ Succeeded(s)
          /\ conf' = [conf EXCEPT !.secret = "", !.toggle = net[s].data.toggle,
                                  !.configured = net[s].data.configured]
          /\ IF "imageLoading" \notin ui.on /\ online
             THEN /\ ui' = Up(Loaded(s), {"imageLoading"})
                  /\ Follow(s, Task("meta", None, {"imageLoading"}))
             ELSE ui' = Loaded(s) /\ Settle(s)
          /\ UNCHANGED answerVars
       \/ ResourceFailed(s) /\ UNCHANGED conf
    /\ UNCHANGED cfg

(***************************************************************************)
(* The server: settings_store.save refuses a batch with a blank integer,    *)
(* and form_rows shows a toggle as on only if its channel is configured.    *)
(***************************************************************************)
Configured == cfg.secret # ""

Rows == [configured |-> Configured, toggle |-> cfg.toggle /\ Configured]

(* Mutant: what is not among the values is stored as nothing.               *)
SavedAll(v) == [cfg EXCEPT !.secret = v.secret, !.toggle = v.toggle]

Saved(v) == [cfg EXCEPT !.secret = IF v.secret = None THEN @ ELSE v.secret,
                        !.toggle = IF v.toggle = None THEN @ ELSE v.toggle]

ServeSettings(s) ==
    /\ \/ /\ Arrived(s, "resource") /\ OnSettings
          /\ Answer(s, "ok", Rows)
          /\ UNCHANGED cfg
       \/ /\ Arrived(s, "settings")
          /\ \/ /\ X(s).clear # "wecom"
                /\ cfg' = Saved(X(s))
                /\ Answer(s, "ok", None)
             \/ Answer(s, "refused", None) /\ UNCHANGED cfg
       \/ /\ Arrived(s, "meta")
          /\ Answer(s, "ok", cfg.image)
          /\ UNCHANGED cfg
       \/ /\ Arrived(s, "upload")
          /\ \/ cfg' = [cfg EXCEPT !.image = TRUE] /\ Answer(s, "ok", None)
             \/ UNCHANGED cfg /\ Answer(s, "refused", None)
       \/ /\ Arrived(s, "unimage")
          /\ cfg' = [cfg EXCEPT !.image = FALSE]
          /\ Answer(s, "ok", None)
       \/ /\ Arrived(s, "task")
          /\ Answer(s, "ok", None) \/ Answer(s, "refused", None)
          /\ UNCHANGED cfg
    /\ UNCHANGED <<answerVars, ui, conf>>

SettingsClick ==
    \/ TypeSecret \/ SetNotificationToggle \/ SaveSettings \/ CloseNotificationDialog
    \/ SaveNotificationChannel \/ ClearNotificationChannel \/ TestSetting \/ WecomMenu
    \/ UploadActivationImage \/ ClearActivationImage
    \/ \E c \in {"telegram", "wecom"} : OpenNotificationDialog(c)

SettingsDelivery(s) ==
    \/ DeliverSettings(s) \/ DeliverTask(s) \/ DeliverForm(s)
    \/ DeliverMeta(s) \/ DeliverUpload(s) \/ DeliverClear(s)

(***************************************************************************)
(* Properties.                                                              *)
(***************************************************************************)
(* A configured credential changes only when somebody typed a new one or    *)
(* cleared its channel: a field that is blank because the form never shows  *)
(* secrets, or because a reload blanked it, does not erase it.              *)
BlankKeepsSecret ==
    [][cfg'.secret # cfg.secret =>
          /\ cfg'.secret \in {"new", ""}
          /\ cfg'.secret = "" => \E s \in Slots : /\ net[s].op = "settings"
                                                  /\ X(s).clear = "telegram"]_confVars

(* The preview on the screen is an object URL that has not been revoked,    *)
(* and there is never more than that one: uploads, clearings and the loads  *)
(* of the image that follow every save may overlap.                         *)
NoRevokedPreview ==
    /\ conf.alive = {conf.preview} \ {None}
    /\ conf.src \in {None, ServerUrl, conf.preview}
=============================================================================
