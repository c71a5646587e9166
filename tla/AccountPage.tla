---------------------------- MODULE AccountPage ----------------------------
(***************************************************************************)
(* The portal's account page (AccountApp.vue).  `acc' is its reactive       *)
(* state, `own' what the server holds for the user, `cooldown' the value    *)
(* the page keeps in localStorage: the ticks until the account may be       *)
(* refreshed again.  The rules for codes are in ActivationCodes; here the   *)
(* server only has to hold some.  Messages, the input fields and the        *)
(* history of used codes are left out.                                      *)
(***************************************************************************)
EXTENDS Browser, Sequences

CONSTANTS Codes,        \* redeem codes the server may issue
          DailyLimit,   \* BILL_CODE_DAILY_LIMIT
          Cooldown      \* the ten seconds between two refreshes, in ticks

ASSUME AccountAssumption == DailyLimit \in Nat /\ Cooldown \in Nat

VARIABLES acc, own, cooldown, rested

accountVars == <<acc, own, cooldown, rested>>

serverOwn == <<own, cooldown, rested>>

Sections == {"overview", "activation", "scan", "settings"}

(* rested counts the ticks since the last refresh was sent.                 *)
AccountData(f) == [friend |-> f]

ActivationData == [pending |-> own.order, used |-> own.used, image |-> own.image]

(* The page as it is mounted on a section, its first requests under way.    *)
FreshAccount(sec) ==
    [account |-> None,        section |-> sec,         loading |-> TRUE,
     codesLoading |-> sec = "activation",
     activationLoading |-> sec \in {"activation", "scan"},
     activation |-> None,     refreshing |-> FALSE,    busy |-> "",
     cooldownUntil |-> cooldown,
     image |-> "idle",        src |-> None,            tracked |-> None,
     alive |-> {}]

MountRequests(sec) ==
    IF sec = "activation" THEN <<Fetch("account", None), Fetch("activation", ""),
                                 Fetch("codes", "")>>
    ELSE IF sec = "scan"  THEN <<Fetch("account", None), Fetch("activation", "")>>
    ELSE                       <<Fetch("account", None)>>

(* What is left of the page while another one is loaded.                    *)
NoAccount == [FreshAccount("overview") EXCEPT !.cooldownUntil = 0]

(* location.assign('/login'): the document and its object URLs are gone.    *)
ToLogin ==
    /\ page' = "login"
    /\ net' = With(Abandoned, Fetch("csrf", None))
    /\ acc' = NoAccount

(* A failed request (operationError): a 401 sends an online page to the     *)
(* login page, everything else is a message.                                *)
Expired(s) == net[s].status = "denied" /\ online

(***************************************************************************)
(* Image object URLs.  A number stands for one; the next is not in use.     *)
(***************************************************************************)
Released(v) == [v EXCEPT !.alive = @ \ {v.tracked}, !.tracked = None, !.src = None]

NextUrl(v) == CHOOSE u \in 1..(Cardinality(v.alive) + 1) : u \notin v.alive

(* Mutant: an image that is shown stays when a newer one arrives.           *)
WithImageOnce(v) == LET u == NextUrl(v)
                    IN  [v EXCEPT !.alive = @ \cup {u}, !.tracked = u,
                                  !.src = IF @ = None THEN u ELSE @, !.image = "ready"]

WithImage(v) == LET u == NextUrl(v)
                IN  [v EXCEPT !.alive = @ \cup {u}, !.tracked = u, !.src = u,
                              !.image = "ready"]

(***************************************************************************)
(* Loading.                                                                 *)
(***************************************************************************)
ServeAccount(s) ==
    /\ \/ Arrived(s, "account") /\ Answer(s, "ok", AccountData(own.friend))
       \/ Arrived(s, "codes") /\ Answer(s, "ok", None)
       \/ /\ Arrived(s, "activation")
          /\ IF own.friend THEN Answer(s, "refused", None)
             ELSE Answer(s, "ok", ActivationData)
       \/ /\ Arrived(s, "image")
          /\ IF own.friend THEN Answer(s, "refused", None)
             ELSE IF own.image THEN Answer(s, "ok", None)
             ELSE Answer(s, "refused", "missing")
       \/ /\ Arrived(s, "status")
          /\ \/ Answer(s, "ok", AccountData(own.friend))
             \/ Answer(s, "refused", None)
    /\ UNCHANGED <<answerVars, accountVars>>

(* load: a friend account has no activation and no scan section.            *)
DeliverOwnAccount(s) ==
    /\ Ready(s, "account")
    /\ page = "account"
    /\ IF net[s].status = "denied" THEN ToLogin
       ELSE /\ Settle(s)
            /\ UNCHANGED page
            /\ acc' = IF ~Succeeded(s) THEN [acc EXCEPT !.loading = FALSE]
                      ELSE [acc EXCEPT !.loading = FALSE,
                                       !.account = net[s].data,
                                       !.section = IF /\ net[s].data.friend
                                                      /\ @ \in {"activation", "scan"}
                                                   THEN "overview" ELSE @]
    /\ UNCHANGED <<online, session, events, serverOwn>>

(* The end of loadActivation, and of redeeming when it was the last part.   *)
Done(v, chain) == [v EXCEPT !.activationLoading = FALSE,
                            !.busy = IF chain = "redeem" THEN "" ELSE @]

(* loadRedeemCodes; redeeming goes on with loadActivation.                  *)
DeliverCodes(s) ==
    /\ Ready(s, "codes")
    /\ LET redeeming == net[s].arg = "redeem"
           loaded    == [acc EXCEPT !.codesLoading = FALSE]
       IN  \/ /\ Expired(s)
              /\ ToLogin
           \/ /\ ~Expired(s)
              /\ redeeming /\ online
              /\ acc' = [loaded EXCEPT !.activationLoading = TRUE]
              /\ Follow(s, Fetch("activation", "redeem"))
              /\ UNCHANGED page
           \/ /\ ~Expired(s)
              /\ ~(redeeming /\ online)
              /\ acc' = IF redeeming THEN [loaded EXCEPT !.busy = ""] ELSE loaded
              /\ Settle(s)
              /\ UNCHANGED page
    /\ UNCHANGED <<online, session, events, serverOwn>>

(* loadActivation, and loadScanImage when the scan section is shown by now. *)
DeliverActivation(s) ==
    /\ Ready(s, "activation")
    /\ LET chain  == net[s].arg
           shown  == [acc EXCEPT !.activation = net[s].data]
           bare   == Released(shown)
       IN  \/ /\ Expired(s)
              /\ ToLogin
           \/ /\ ~Expired(s)
              /\ ~Succeeded(s)
              /\ acc' = Done(acc, chain)
              /\ Settle(s)
              /\ UNCHANGED page
           \/ /\ Succeeded(s)
              /\ acc.section # "scan"
              /\ acc' = Done(shown, chain)
              /\ Settle(s)
              /\ UNCHANGED page
           \/ /\ Succeeded(s)
              /\ acc.section = "scan"
              /\ IF net[s].data.image /\ online
                 THEN /\ acc' = [bare EXCEPT !.image = "loading"]
                      /\ Follow(s, Fetch("image", chain))
                 ELSE /\ acc' = Done([bare EXCEPT !.image = IF net[s].data.image
                                                            THEN "error" ELSE "empty"],
                                     chain)
                      /\ Settle(s)
              /\ UNCHANGED page
    /\ UNCHANGED <<online, session, events, serverOwn>>

DeliverImage(s) ==
    /\ Ready(s, "image")
    /\ IF net[s].status = "denied" THEN ToLogin
       ELSE /\ acc' = Done(IF Succeeded(s) THEN WithImage(acc)
                           ELSE [acc EXCEPT !.image = IF net[s].data = "missing"
                                                      THEN "empty" ELSE "error"],
                           net[s].arg)
            /\ Settle(s)
            /\ UNCHANGED page
    /\ UNCHANGED <<online, session, events, serverOwn>>

(* handleScanImageError: the image that is shown does not decode.           *)
ScanImageError ==
    /\ page = "account"
    /\ acc.section = "scan" /\ acc.image = "ready" /\ ~acc.activationLoading
    /\ acc' = [acc EXCEPT !.image = "error"]
    /\ UNCHANGED <<browserVars, serverOwn>>

(* syncHashSection and selectSection.                                       *)
SelectSection(next) ==
    /\ page = "account"
    /\ next # acc.section
    /\ Event
    /\ LET friend == acc.account # None /\ acc.account.friend
           sec    == IF friend /\ next \in {"activation", "scan"} THEN "overview" ELSE next
           there  == [acc EXCEPT !.section = sec]
       IN  \/ /\ sec \in {"overview", "settings"} \/ ~online
              /\ acc' = there
              /\ UNCHANGED net
           \/ /\ sec = "scan" /\ online
              /\ acc' = [there EXCEPT !.activationLoading = TRUE]
              /\ Send(Fetch("activation", ""))
           \/ /\ sec = "activation" /\ online
              /\ acc' = [there EXCEPT !.activationLoading = TRUE, !.codesLoading = TRUE]
              /\ SendTwo(Fetch("activation", ""), Fetch("codes", ""))
    /\ UNCHANGED <<clickVars, serverOwn>>

(* The refresh buttons of the two sections.                                 *)
ReloadActivation ==
    /\ page = "account"
    /\ acc.account # None /\ ~acc.loading /\ online
    /\ \/ acc.section = "activation" /\ ~acc.activationLoading
       \/ acc.section = "scan" /\ ~acc.activationLoading /\ acc.image = "error"
    /\ Event
    /\ Send(Fetch("activation", ""))
    /\ acc' = [acc EXCEPT !.activationLoading = TRUE]
    /\ UNCHANGED <<clickVars, serverOwn>>

(* The tab of the redeem codes, and the refresh button in it.               *)
ReloadCodes ==
    /\ page = "account"
    /\ acc.account # None /\ ~acc.loading /\ acc.section = "activation" /\ online
    /\ Event
    /\ Send(Fetch("codes", ""))
    /\ acc' = [acc EXCEPT !.codesLoading = TRUE]
    /\ UNCHANGED <<clickVars, serverOwn>>

(***************************************************************************)
(* Refreshing, with the cooldown that outlives the page in localStorage.    *)
(***************************************************************************)
(* Mutant: the cooldown is not kept beyond the page.                        *)
RefreshUnsaved ==
    /\ page = "account"
    /\ acc.account # None /\ ~acc.refreshing /\ acc.cooldownUntil = 0 /\ online
    /\ Event
    /\ Send(Fetch("status", None))
    /\ acc' = [acc EXCEPT !.refreshing = TRUE, !.cooldownUntil = Cooldown]
    /\ rested' = 0
    /\ UNCHANGED <<clickVars, own, cooldown>>

Refresh ==
    /\ page = "account"
    /\ acc.account # None /\ ~acc.refreshing /\ acc.cooldownUntil = 0 /\ online
    /\ Event
    /\ Send(Fetch("status", None))
    /\ acc' = [acc EXCEPT !.refreshing = TRUE, !.cooldownUntil = Cooldown]
    /\ cooldown' = Cooldown
    /\ rested' = 0
    /\ UNCHANGED <<clickVars, own>>

DeliverStatus(s) ==
    /\ Ready(s, "status")
    /\ IF Expired(s) THEN ToLogin
       ELSE /\ acc' = [acc EXCEPT !.refreshing = FALSE,
                                  !.account = IF Succeeded(s) THEN net[s].data ELSE @]
            /\ Settle(s)
            /\ UNCHANGED page
    /\ UNCHANGED <<online, session, events, serverOwn>>

Less(n) == IF n = 0 THEN 0 ELSE n - 1

Tick == /\ rested < Cooldown
        /\ rested' = rested + 1
        /\ cooldown' = Less(cooldown)
        /\ acc' = [acc EXCEPT !.cooldownUntil = Less(@)]
        /\ UNCHANGED <<browserVars, own>>

(***************************************************************************)
(* Writing: one action at a time, whichever form it comes from.             *)
(***************************************************************************)
(* Mutant: the other actions are not looked at.                             *)
ActWhileBusy(name, r) ==
    /\ page = "account"
    /\ acc.account # None /\ ~acc.loading /\ online
    /\ Event
    /\ Send(r)
    /\ acc' = [acc EXCEPT !.busy = name]
    /\ UNCHANGED <<clickVars, serverOwn>>

Act(name, r) ==
    /\ page = "account"
    /\ acc.account # None /\ ~acc.loading /\ acc.busy = "" /\ online
    /\ Event
    /\ Send(r)
    /\ acc' = [acc EXCEPT !.busy = name]
    /\ UNCHANGED <<clickVars, serverOwn>>

ChangeSettings == acc.section = "settings" /\ Act("settings", Fetch("settings", None))

Redeem == /\ acc.section = "activation"
          /\ \E c \in Codes : Act("redeem", Fetch("redeem", c))

Remaining == IF acc.activation = None THEN DailyLimit ELSE DailyLimit - acc.activation.used

ActivateBillCode ==
    /\ acc.section = "activation"
    /\ Remaining > 0
    /\ ~acc.activationLoading
    /\ Act("bill-code", Fetch("bill", None))

(* The two buttons of the page differ only in the guard on being online.    *)
Logout ==
    /\ page = "account"
    /\ acc.account # None /\ acc.busy = ""
    /\ Event
    /\ Send(Fetch("logout", TRUE))
    /\ acc' = [acc EXCEPT !.busy = "logout"]
    /\ UNCHANGED <<clickVars, serverOwn>>

(* Mutant: the code is not taken out of the list before it joins it.        *)
WithoutNothing(list, c) == list

(* filter, from the front of the list on.                                   *)
Without(list, c) ==
    LET kept[i \in 0..Len(list)] ==
            IF i = 0 THEN <<>>
            ELSE IF list[i] = c THEN kept[i - 1] ELSE Append(kept[i - 1], list[i])
    IN  kept[Len(list)]

Held == {own.order[i] : i \in DOMAIN own.order}

ServeAction(s) ==
    /\ \/ /\ Arrived(s, "settings")
          /\ \/ Answer(s, "ok", None)
             \/ Answer(s, "refused", None)
          /\ UNCHANGED own
       \/ /\ Arrived(s, "redeem")
          /\ IF net[s].arg \in Held /\ ~own.friend
             THEN /\ own' = [own EXCEPT !.order = Without(@, net[s].arg)]
                  /\ Answer(s, "ok", AccountData(own.friend))
             ELSE Answer(s, "refused", None) /\ UNCHANGED own
       \/ /\ Arrived(s, "bill")
          /\ IF own.friend \/ own.used >= DailyLimit \/ own.unissued = {}
             THEN Answer(s, "refused", None) /\ UNCHANGED own
             ELSE LET c == CHOOSE x \in own.unissued : TRUE
                  IN  /\ own' = [own EXCEPT !.order = <<c>> \o @, !.used = @ + 1,
                                            !.unissued = @ \ {c}]
                      /\ Answer(s, "ok", [code |-> c, used |-> own.used + 1])
    /\ UNCHANGED <<answerVars, acc, cooldown, rested>>

(* submit and logout.                                                       *)
DeliverAction(s) ==
    /\ Ready(s, "settings") \/ Ready(s, "redeem") \/ Ready(s, "logout")
    /\ page = "account"
    /\ LET merged == IF Succeeded(s) /\ net[s].op = "redeem"
                     THEN [acc EXCEPT !.account = net[s].data] ELSE acc
           goesOn == Succeeded(s) /\ net[s].op = "redeem" /\ online
       IN  \/ /\ Expired(s) \/ (Succeeded(s) /\ net[s].op = "logout")
              /\ ToLogin
           \/ /\ goesOn
              /\ acc' = [merged EXCEPT !.codesLoading = TRUE]
              /\ Follow(s, Fetch("codes", "redeem"))
              /\ UNCHANGED page
           \/ /\ ~goesOn /\ ~Expired(s) /\ ~(Succeeded(s) /\ net[s].op = "logout")
              /\ acc' = [merged EXCEPT !.busy = ""]
              /\ Settle(s)
              /\ UNCHANGED page
    /\ UNCHANGED <<online, session, events, serverOwn>>

(* activateBillCode: the new code joins the list the page has by now.       *)
DeliverBillCode(s) ==
    /\ Ready(s, "bill")
    /\ LET old == IF acc.activation # None THEN acc.activation
                  ELSE [pending |-> <<>>, used |-> 0, image |-> FALSE]
           new == net[s].data
       IN  IF Expired(s) THEN ToLogin
           ELSE /\ acc' = [acc EXCEPT
                     !.busy = "",
                     !.activation =
                        IF ~Succeeded(s) THEN @
                        ELSE [old EXCEPT !.used = new.used,
                                         !.pending = Append(Without(@, new.code), new.code)]]
                /\ Settle(s)
                /\ UNCHANGED page
    /\ UNCHANGED <<online, session, events, serverOwn>>

(* An administrator marks the account as a friend's, or back, or removes or *)
(* uploads the scan image.                                                  *)
AdminChanges ==
    /\ Event
    /\ \/ own' = [own EXCEPT !.friend = ~@]
       \/ own' = [own EXCEPT !.image = ~@]
    /\ UNCHANGED <<clickVars, net, acc, cooldown, rested>>

(***************************************************************************)
(* The steps of the page, and of the server for it.                         *)
(***************************************************************************)
OwnServerStep(s) == ServeAccount(s) \/ ServeAction(s)

AccountDelivery(s) ==
    \/ DeliverOwnAccount(s) \/ DeliverCodes(s)  \/ DeliverActivation(s)
    \/ DeliverImage(s)      \/ DeliverStatus(s) \/ DeliverAction(s)
    \/ DeliverBillCode(s)

AccountClick ==
    \/ ScanImageError \/ ReloadActivation \/ ReloadCodes \/ Refresh \/ Logout
    \/ ChangeSettings \/ Redeem \/ ActivateBillCode
    \/ \E next \in Sections : SelectSection(next)

OwnInit == /\ own = [order |-> <<>>, used |-> 0, friend |-> FALSE, image |-> TRUE,
                     unissued |-> Codes]
           /\ cooldown = 0
           /\ rested = Cooldown

(***************************************************************************)
(* Properties.                                                              *)
(***************************************************************************)
OwnTypeOK ==
    /\ Held \cap own.unissued = {}
    /\ own.used \in 0..DailyLimit
    /\ cooldown \in 0..Cooldown /\ rested \in 0..Cooldown
    /\ acc.section \in Sections
    /\ acc.image \in {"idle", "loading", "ready", "empty", "error"}

(* No code is listed twice: the answer of activateBillCode and a reload of  *)
(* the activation data that was on its way at the same time both bring the  *)
(* new code, in either order.                                               *)
NoDuplicateCode ==
    acc.activation # None =>
        \A i, j \in DOMAIN acc.activation.pending :
            acc.activation.pending[i] = acc.activation.pending[j] => i = j

(* The scan image on the screen is an object URL that has not been revoked, *)
(* and is the one the next release will revoke: two loads of the image may  *)
(* overlap, since changing the section does not wait for the first.         *)
ReadyImageIsAlive ==
    acc.image = "ready" => acc.src # None /\ acc.src \in acc.alive /\ acc.tracked = acc.src

(* Two refreshes of the account are ten seconds apart, a reload of the page *)
(* or a visit to another one in between does not shorten that.              *)
StatusRequests == {s \in Slots : net[s].op = "status"}

RefreshSpaced == [][StatusRequests' \subseteq StatusRequests \/ rested = Cooldown]_accountVars

(* The page is busy exactly while the one action that made it busy, or the  *)
(* reloads that follow a redemption, are under way; each spinner of it      *)
(* turns only while an answer that stops it is still to come.               *)
ActionChain == Owned({"settings", "redeem", "bill", "logout"})
               \cup {s \in Owned({"codes", "activation", "image"}) : net[s].arg = "redeem"}

AccountBusy ==
    page = "account" =>
        /\ Cardinality(ActionChain) = (IF acc.busy # "" THEN 1 ELSE 0)
        /\ Cardinality(Owned({"status"})) = (IF acc.refreshing THEN 1 ELSE 0)
        /\ acc.loading => Owned({"account"}) # {}
        /\ acc.codesLoading => Owned({"codes"}) # {}
        /\ acc.activationLoading => Owned({"activation", "image"}) # {}
        /\ acc.image = "loading" => Owned({"image"}) # {}
=============================================================================
