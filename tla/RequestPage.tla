---------------------------- MODULE RequestPage ----------------------------
(***************************************************************************)
(* The portal's request page: RequestApp.vue with the detail view it opens  *)
(* over the lists (MediaDetailView.vue), talking to MediaRequests.          *)
(*                                                                          *)
(* `req' is the page's reactive state.  Objects the code keeps by reference *)
(* are values here; the one place where identity matters - the detail of a  *)
(* list entry is also written into that entry - is the flag `live' of the   *)
(* request, which a reload of the lists clears.  Messages are left out.     *)
(*                                                                          *)
(* The detail view lies over the page but is no modal dialog: what is       *)
(* behind it keeps its place in the tab order and answers to Enter.         *)
(***************************************************************************)
EXTENDS MediaRequests

VARIABLE req

reqVars == <<browserVars, serverVars, req>>

Tabs == {"search", "pending", "library"}

NoLists == [pending |-> {}, rejected |-> {}, in_library |-> {}]

(* The page as it is mounted: portal/main.ts passes an empty bootstrap.     *)
FreshPage ==
    [tab |-> "search",         results |-> {},        selected |-> None,
     visible |-> FALSE,        picked |-> {},         chosen |-> {},
     lists |-> NoLists,        csrf |-> FALSE,        requestKey |-> None,
     loading |-> FALSE,        listsLoading |-> FALSE, detailLoading |-> FALSE,
     submitting |-> FALSE,     logoutBusy |-> FALSE]

(***************************************************************************)
(* What the page derives from its state.                                    *)
(***************************************************************************)
KeysIn(list) == {x.key : x \in list}

(* itemRequestState: the lists decide, the library before the open ones     *)
(* before the rejected ones; without an entry the item's own status does.   *)
StateOf(x) ==
    IF x.key \in KeysIn(req.lists.in_library) THEN "in_library"
    ELSE IF x.key \in KeysIn(req.lists.pending) THEN "pending"
    ELSE IF x.key \in KeysIn(req.lists.rejected) THEN "rejected"
    ELSE x.status

ActiveList == IF req.tab = "pending" THEN req.lists.pending
              ELSE IF req.tab = "library" THEN req.lists.in_library
              ELSE req.results

SeasonsListed(x) == IF x.info THEN SeasonsOf[x.key] ELSE {}

(* A new media item in the detail view: its watcher ticks every season of   *)
(* a show whose list it has, and otherwise leaves the ticks as they were;   *)
(* the page has a choice of its own, filled while it is empty.              *)
Ticks(x, old) == IF SeasonsListed(x) # {} THEN SeasonsListed(x) ELSE old

Shown(view, x) ==
    [view EXCEPT !.selected = x,
                 !.picked = IF view.visible THEN Ticks(x, @) ELSE {},
                 !.chosen = IF @ = {} THEN SeasonsListed(x) ELSE @]

(* closeDetailDialog: the view is unmounted, and its ticks with it.         *)
Closed(view) == [view EXCEPT !.visible = FALSE, !.picked = {}]

(***************************************************************************)
(* Loading: the mount sequence, the lists, the search, the details.         *)
(***************************************************************************)
DeliverCsrf(s) ==
    /\ Ready(s, "csrf")
    /\ page = "requests"
    /\ req' = [req EXCEPT !.csrf = Succeeded(s)]
    /\ Follow(s, Fetch("account", None))
    /\ UNCHANGED <<answerVars, serverVars>>

DeliverAccount(s) ==
    /\ Ready(s, "account")
    /\ page = "requests"
    /\ req' = [req EXCEPT !.listsLoading = TRUE]
    /\ Follow(s, Fetch("lists", "load"))
    /\ UNCHANGED <<answerVars, serverVars>>

(* Mutant: a reload that fails leaves the spinner on.                       *)
DeliverListsOnSuccess(s) ==
    /\ Ready(s, "lists")
    /\ req' = IF Succeeded(s)
              THEN [req EXCEPT !.lists = net[s].data, !.listsLoading = FALSE]
              ELSE req
    /\ Settle(s)
    /\ UNCHANGED <<answerVars, serverVars>>

(* loadLists.  After a submission the page stays busy until this answer.    *)
StaleEntries(n) ==
    [s \in Slots |-> IF n[s].op = "row" THEN [n[s] EXCEPT !.arg.live = FALSE] ELSE n[s]]

DeliverLists(s) ==
    /\ Ready(s, "lists")
    /\ req' = [req EXCEPT !.lists = IF Succeeded(s) THEN net[s].data ELSE @,
                          !.listsLoading = FALSE,
                          !.submitting = IF net[s].arg = "submit" THEN FALSE ELSE @]
    /\ net' = [(IF Succeeded(s) THEN StaleEntries(net) ELSE net) EXCEPT ![s] = Idle]
    /\ UNCHANGED <<answerVars, serverVars>>

RefreshLists ==
    /\ ~req.listsLoading
    /\ online \/ req.tab # "search"
    /\ Event
    /\ Send(Fetch("lists", "load"))
    /\ req' = [req EXCEPT !.listsLoading = TRUE]
    /\ UNCHANGED <<clickVars, serverVars>>

(* changeTab: the tab that is open loads its list again.                    *)
ChangeTab(t) ==
    /\ \/ /\ t = "search"
          /\ req' = [req EXCEPT !.tab = t]
          /\ UNCHANGED <<net, events>>
       \/ /\ t # "search"
          /\ Event
          /\ Send(Fetch("lists", "load"))
          /\ req' = [req EXCEPT !.tab = t, !.listsLoading = TRUE]
    /\ UNCHANGED <<clickVars, serverVars>>

(* search, without and with a text to search for; it closes the detail view. *)
Search ==
    /\ req.tab = "search"
    /\ ~req.loading
    /\ \/ /\ req' = [Closed(req) EXCEPT !.selected = None, !.results = {}]
          /\ UNCHANGED <<net, events>>
       \/ /\ Event
          /\ Send(Fetch("search", None))
          /\ req' = [Closed(req) EXCEPT !.selected = None, !.loading = TRUE]
    /\ UNCHANGED <<clickVars, serverVars>>

(* library_state decides where there is no status of the request itself.    *)
LibraryState(there) == IF there THEN "in_library" ELSE "none"

SearchResult(k, found) ==
    Item(k, 0, LibraryState(k \in found.there), {}, found.info /\ IsShow(k))

DeliverSearch(s) ==
    /\ Ready(s, "search")
    /\ req' = [req EXCEPT !.loading = FALSE,
                          !.results = IF Succeeded(s)
                                      THEN {SearchResult(k, net[s].data) : k \in Items}
                                      ELSE {}]
    /\ Settle(s)
    /\ UNCHANGED <<answerVars, serverVars>>

(* select: the detail view opens on a copy of the card; the details come    *)
(* later and carry the card they were asked for, not the one then shown.  A *)
(* view that is open already keeps its ticks as far as the watcher does.    *)
Select(x) ==
    /\ x \in ActiveList
    /\ req.tab = "search" => ~req.loading
    /\ Event
    /\ IF req.tab = "search"
       THEN Send(Fetch("work", x))
       ELSE Send(Fetch("row", [key |-> x.key, id |-> x.id, live |-> TRUE]))
    /\ req' = Shown([req EXCEPT !.visible = TRUE, !.chosen = {}, !.detailLoading = TRUE], x)
    /\ UNCHANGED <<clickVars, serverVars>>

(* The details of a list entry are written into the entry and shown.        *)
Refreshed(list, d) == {IF x.key = d.key /\ x.id = d.id THEN d ELSE x : x \in list}

RefreshedLists(d) == [l \in DOMAIN req.lists |-> Refreshed(req.lists[l], d)]

(* Mutant: the details are written over what is shown by now.               *)
DeliverRowIntoShown(s) ==
    /\ Ready(s, "row")
    /\ LET d == net[s].data
       IN  req' = IF ~Succeeded(s) \/ ~req.visible THEN req
                  ELSE [req EXCEPT !.selected = [d EXCEPT !.key = req.selected.key]]
    /\ Settle(s)
    /\ UNCHANGED <<answerVars, serverVars>>

DeliverRow(s) ==
    /\ Ready(s, "row")
    /\ LET d    == net[s].data
           view == [req EXCEPT !.detailLoading = FALSE]
       IN  req' = IF ~Succeeded(s) THEN view
                  ELSE Shown([view EXCEPT !.lists = IF net[s].arg.live
                                                    THEN RefreshedLists(d) ELSE @], d)
    /\ Settle(s)
    /\ UNCHANGED <<answerVars, serverVars>>

(* The details of a search result are merged with the result itself, whose  *)
(* library_state they replace.                                              *)
Merged(x, d) == [x EXCEPT !.status = LibraryState(d.there), !.info = d.info \/ @]

DeliverWork(s) ==
    /\ Ready(s, "work")
    /\ LET view == [req EXCEPT !.detailLoading = FALSE]
       IN  req' = IF Succeeded(s) THEN Shown(view, Merged(net[s].arg, net[s].data)) ELSE view
    /\ Settle(s)
    /\ UNCHANGED <<answerVars, serverVars>>

CloseDetailDialog ==
    /\ req.visible
    /\ req' = Closed(req)
    /\ UNCHANGED <<browserVars, serverVars>>

(***************************************************************************)
(* Writing.                                                                 *)
(***************************************************************************)
CanWrite == req.visible /\ ~req.submitting

(* submitRequest.  One season of an open request is added to it; a work     *)
(* without an open request is submitted, once.  Without seasons to submit   *)
(* the page falls back on its own choice, which a choice of seasons has     *)
(* replaced even where nothing can be sent.                                 *)
SubmitRequest(override) ==
    LET x        == req.selected
        choice   == IF override = {} THEN req.chosen ELSE override
        there    == [req EXCEPT !.chosen = choice]
        able     == online /\ req.csrf
        addition == able /\ Cardinality(override) = 1 /\ x.id # 0 /\ StateOf(x) = "pending"
        wanted   == able /\ StateOf(x) \notin {"pending", "in_library"}
                         /\ req.requestKey # x.key
    IN  \/ /\ addition
           /\ Event
           /\ \E n \in override :
                 Send(Fetch("season", [id |-> x.id, season |-> n, merge |-> FALSE]))
           /\ req' = [there EXCEPT !.submitting = TRUE]
        \/ /\ ~addition /\ wanted
           /\ Event
           /\ Send(Fetch("create", [x EXCEPT !.seasons =
                                         IF IsShow(x.key) THEN choice ELSE {}]))
           /\ req' = [there EXCEPT !.submitting = TRUE, !.requestKey = x.key]
        \/ /\ ~addition /\ ~wanted
           /\ req' = there
           /\ UNCHANGED <<net, events>>

(* Mutant: the page is not busy while it submits.                           *)
SubscribeIdle ==
    /\ CanWrite /\ online /\ req.csrf
    /\ Event
    /\ req.requestKey # req.selected.key
    /\ Send(Fetch("create", req.selected))
    /\ req' = [req EXCEPT !.requestKey = req.selected.key]
    /\ UNCHANGED <<clickVars, serverVars>>

(* handleSubscribe: the ticked seasons of a show, nothing for a movie.      *)
Subscribe ==
    /\ CanWrite
    /\ SubmitRequest(IF IsShow(req.selected.key) THEN req.picked ELSE {})
    /\ UNCHANGED <<clickVars, serverVars>>

(* handleSeasonSubscribe and subscribeSeason.                               *)
SubscribeSeason(n) ==
    /\ CanWrite /\ online /\ req.csrf
    /\ n \in SeasonsListed(req.selected) \ req.selected.seasons
    /\ LET x == req.selected
       IN  IF StateOf(x) = "pending" /\ x.id # 0
           THEN /\ Event
                /\ Send(Fetch("season", [id |-> x.id, season |-> n, merge |-> TRUE]))
                /\ req' = [req EXCEPT !.submitting = TRUE]
           ELSE SubmitRequest({n})
    /\ UNCHANGED <<clickVars, serverVars>>

(* A write that succeeded reloads the lists before the page is free again;  *)
(* one that failed frees it, and a submission may then be tried again.      *)
DeliverCreate(s) ==
    /\ Ready(s, "create")
    /\ IF Succeeded(s)
       THEN /\ req' = [req EXCEPT !.listsLoading = TRUE]
            /\ Follow(s, Fetch("lists", "submit"))
       ELSE /\ req' = [req EXCEPT !.submitting = FALSE, !.requestKey = None]
            /\ Settle(s)
    /\ UNCHANGED <<answerVars, serverVars>>

DeliverSeason(s) ==
    /\ Ready(s, "season")
    /\ IF Succeeded(s)
       THEN /\ LET view == [req EXCEPT !.listsLoading = TRUE]
               IN  req' = IF net[s].arg.merge
                          THEN [Shown(view, net[s].data) EXCEPT !.chosen = req.chosen]
                          ELSE view
            /\ Follow(s, Fetch("lists", "submit"))
       ELSE /\ req' = [req EXCEPT !.submitting = FALSE]
            /\ Settle(s)
    /\ UNCHANGED <<answerVars, serverVars>>

LogoutHere ==
    /\ ~req.logoutBusy
    /\ online
    /\ Event
    /\ Send(Fetch("logout", req.csrf))
    /\ req' = [req EXCEPT !.logoutBusy = TRUE]
    /\ UNCHANGED <<clickVars, serverVars>>

(* The login page is loaded instead of this one.                            *)
DeliverLogout(s) ==
    /\ Ready(s, "logout")
    /\ page = "requests"
    /\ IF Succeeded(s)
       THEN /\ page' = "login"
            /\ net' = With(Abandoned, Fetch("csrf", None))
            /\ req' = FreshPage
       ELSE /\ Settle(s)
            /\ req' = [req EXCEPT !.logoutBusy = FALSE]
            /\ UNCHANGED page
    /\ UNCHANGED <<online, session, events, serverVars>>

(***************************************************************************)
(* The page's steps.                                                        *)
(***************************************************************************)
RequestDelivery(s) ==
    \/ DeliverCsrf(s)   \/ DeliverAccount(s) \/ DeliverLists(s)
    \/ DeliverSearch(s) \/ DeliverRow(s)     \/ DeliverWork(s)
    \/ DeliverCreate(s) \/ DeliverSeason(s)  \/ DeliverLogout(s)

RequestClick ==
    /\ page = "requests"
    /\ \/ RefreshLists \/ Search \/ CloseDetailDialog \/ Subscribe \/ LogoutHere
       \/ \E t \in Tabs : ChangeTab(t)
       \/ \E x \in ActiveList : Select(x)
       \/ \E n \in UNION {SeasonsOf[k] : k \in Items} : SubscribeSeason(n)

(***************************************************************************)
(* Properties.                                                              *)
(***************************************************************************)
RequestTypeOK ==
    /\ req.tab \in Tabs
    /\ req.visible => req.selected # None
    /\ req.requestKey \in Items \cup {None}

(* The object in the detail view is one work: the row id it carries is a    *)
(* row of the work whose title is on the screen, and a season on its way is *)
(* added to a row of a show that has this season.  Answers of an earlier    *)
(* selection arrive at any time, after the tab has changed too.             *)
RowOfShownWork ==
    /\ req.selected # None /\ req.selected.id \in RowId
          => rows[req.selected.id].key = req.selected.key
    /\ \A s \in Owned({"season"}) :
          net[s].arg.id \in RowId
             => net[s].arg.season \in SeasonsOf[rows[net[s].arg.id].key]

(* The page is busy submitting exactly while one of its writes, or the      *)
(* reload of the lists that ends it, is under way: never two at once, and   *)
(* no path through an error leaves the button dead.                         *)
WriteChain == Owned({"create", "season"})
              \cup {s \in Owned({"lists"}) : net[s].arg = "submit"}

BusyWhileWriting ==
    Cardinality(WriteChain) = (IF req.submitting THEN 1 ELSE 0)

(* A spinner turns only while an answer that stops it is still to come.     *)
NoDeadSpinner ==
    /\ req.listsLoading => Owned({"lists"}) # {}
    /\ req.detailLoading => Owned({"row", "work"}) # {}
    /\ req.loading => Owned({"search"}) # {}
    /\ req.logoutBusy => Owned({"logout"}) # {}
=============================================================================
