---------------------------- MODULE PortalProofs ----------------------------
(***************************************************************************)
(* Proofs about the media requests of the portal, for any works and         *)
(* seasons, any number of requests in flight and any number of events: no   *)
(* work has two open requests, and the detail view never mixes one work     *)
(* with the row of another.                                                 *)
(***************************************************************************)
EXTENDS Portal, TLAPS

(***************************************************************************)
(* The inductive invariant.                                                 *)
(***************************************************************************)
(* A description of a work is consistent with the rows r: the row it names  *)
(* is one of this work, and a show that is more than a search result has    *)
(* its list of seasons.                                                     *)
ItemOK(x, r) == /\ x \in ItemType
                /\ x.id \in DOMAIN r \cup {0, -1}
                /\ x.id \in DOMAIN r => r[x.id].key = x.key
                /\ x.id # 0 /\ IsShow(x.key) => x.info

ListedOK(x, r) == ItemOK(x, r) /\ x.id # 0

ListsType == [pending : SUBSET ItemType, rejected : SUBSET ItemType,
              in_library : SUBSET ItemType]

ListsOK(l, r) == /\ l \in ListsType
                 /\ \A x \in l.pending \cup l.rejected \cup l.in_library : ListedOK(x, r)

(* A season on its way belongs to the show of its row.                      *)
AdditionOK(a, r) == /\ a.id \in DOMAIN r \cup {-1}
                    /\ a.season \in Season
                    /\ a.id \in DOMAIN r => a.season \in SeasonsOf[r[a.id].key]

RowQuestion == [key : Items, id : Int, live : BOOLEAN]

WorkAnswer == [there : BOOLEAN, info : BOOLEAN]

Fields == {"op", "owner", "arg", "status", "data"}

MessageOK(m, r) ==
    /\ DOMAIN m = Fields
    /\ m.op = "create" => m.arg \in ItemType
    /\ m.op = "season" => /\ AdditionOK(m.arg, r)
                          /\ m.status = "held" => /\ m.arg.id \in DOMAIN r
                                                  /\ m.data \in SUBSET Season
                          /\ m.status = "ok" => ItemOK(m.data, r)
    /\ m.op = "row" => /\ m.arg \in RowQuestion
                       /\ m.arg.id \in DOMAIN r \cup {-1}
                       /\ m.status = "ok" => ListedOK(m.data, r)
    /\ m.op = "work" => /\ ItemOK(m.arg, r) /\ m.arg.id = 0
                        /\ m.status = "ok" => m.data \in WorkAnswer
    /\ m.op = "lists" /\ m.status = "ok" => ListsOK(m.data, r)

NetOK(n, r) == DOMAIN n = Slots /\ \A s \in Slots : MessageOK(n[s], r)

PageType ==
    [tab : Tabs,               results : SUBSET ItemType,
     selected : ItemType \cup {None},
     visible : BOOLEAN,        picked : SUBSET Season,  chosen : SUBSET Season,
     lists : ListsType,        csrf : BOOLEAN,          requestKey : Items \cup {None},
     loading : BOOLEAN,        listsLoading : BOOLEAN,  detailLoading : BOOLEAN,
     submitting : BOOLEAN,     logoutBusy : BOOLEAN]

(* The ticks in an open view are seasons of the work it shows, as far as    *)
(* they could be added to a row of it.                                      *)
TicksOK(v) == v.visible /\ v.selected.id # 0 /\ IsShow(v.selected.key)
                 => v.picked \subseteq SeasonsOf[v.selected.key]

CardsOK(v, r) == /\ v \in PageType
                 /\ \A x \in v.results : ItemOK(x, r) /\ x.id = 0
                 /\ ListsOK(v.lists, r)

PageOK(v, r) == /\ CardsOK(v, r)
                /\ v.visible \/ v.selected # None => ItemOK(v.selected, r)
                /\ TicksOK(v)

OneOpen(r) == \A i, j \in DOMAIN r :
                  r[i].key = r[j].key /\ r[i].status = "pending" /\ r[j].status = "pending"
                     => i = j

RowsOK(r) == r \in Seq(Row) /\ OneOpen(r)

Inv == /\ RowsOK(rows)
       /\ library \subseteq Items
       /\ NetOK(net, rows)
       /\ PageOK(req, rows)

(***************************************************************************)
(* Rows are added, decided and removed, and never become another work's.    *)
(***************************************************************************)
Kept(r, q) == /\ DOMAIN r \subseteq DOMAIN q
              /\ \A i \in DOMAIN r : q[i].key = r[i].key

LEMMA SeasonsAreSeasons ==
    /\ \A k \in Items : SeasonsOf[k] \subseteq Season
    /\ Season \subseteq Nat
BY MediaAssumption DEF Season

LEMMA RowDomain == ASSUME NEW r \in Seq(Row)
                   PROVE  /\ DOMAIN r = 1..Len(r) /\ Len(r) \in Nat
                          /\ 0 \notin DOMAIN r /\ -1 \notin DOMAIN r
                          /\ \A i \in DOMAIN r : r[i] \in Row
OBVIOUS

LEMMA ItemKept ==
    ASSUME NEW r \in Seq(Row), NEW q \in Seq(Row), Kept(r, q), NEW x, ItemOK(x, r)
    PROVE  ItemOK(x, q)
BY RowDomain DEF ItemOK, Kept

LEMMA ListsKept ==
    ASSUME NEW r \in Seq(Row), NEW q \in Seq(Row), Kept(r, q), NEW l, ListsOK(l, r)
    PROVE  ListsOK(l, q)
BY ItemKept DEF ListsOK, ListedOK

LEMMA AdditionKept ==
    ASSUME NEW r \in Seq(Row), NEW q \in Seq(Row), Kept(r, q), NEW a, AdditionOK(a, r)
    PROVE  AdditionOK(a, q)
BY RowDomain DEF AdditionOK, Kept

LEMMA MessageKept ==
    ASSUME NEW r \in Seq(Row), NEW q \in Seq(Row), Kept(r, q), NEW m, MessageOK(m, r)
    PROVE  MessageOK(m, q)
<1>1. m.op = "season" => /\ AdditionOK(m.arg, q)
                         /\ m.status = "held" => /\ m.arg.id \in DOMAIN q
                                                 /\ m.data \in SUBSET Season
                         /\ m.status = "ok" => ItemOK(m.data, q)
  BY AdditionKept, ItemKept DEF MessageOK, Kept
<1>2. m.op = "row" => /\ m.arg \in RowQuestion
                      /\ m.arg.id \in DOMAIN q \cup {-1}
                      /\ m.status = "ok" => ListedOK(m.data, q)
  BY ItemKept DEF MessageOK, ListedOK, Kept
<1>3. m.op = "work" => /\ ItemOK(m.arg, q) /\ m.arg.id = 0
                       /\ m.status = "ok" => m.data \in WorkAnswer
  BY ItemKept DEF MessageOK
<1>4. m.op = "lists" /\ m.status = "ok" => ListsOK(m.data, q)
  BY ListsKept DEF MessageOK
<1> QED BY <1>1, <1>2, <1>3, <1>4 DEF MessageOK

LEMMA NetKept ==
    ASSUME NEW r \in Seq(Row), NEW q \in Seq(Row), Kept(r, q), NEW n, NetOK(n, r)
    PROVE  NetOK(n, q)
BY MessageKept DEF NetOK

LEMMA PageKept ==
    ASSUME NEW r \in Seq(Row), NEW q \in Seq(Row), Kept(r, q), NEW v, PageOK(v, r)
    PROVE  PageOK(v, q)
BY ItemKept, ListsKept DEF PageOK, CardsOK

(***************************************************************************)
(* The operations on the network.                                           *)
(***************************************************************************)
MediaOps == {"create", "season", "row", "work", "lists"}

LEMMA PlainMessage ==
    ASSUME NEW m, NEW r, DOMAIN m = Fields, m.op \notin MediaOps
    PROVE  MessageOK(m, r)
BY DEF MessageOK, MediaOps

LEMMA IdleMessage == ASSUME NEW r PROVE MessageOK(Idle, r)
BY PlainMessage DEF Idle, Fields, MediaOps

LEMMA PlainFetch ==
    ASSUME NEW op, NEW arg, NEW r, op \notin MediaOps
    PROVE  MessageOK(Fetch(op, arg), r)
BY PlainMessage DEF Fetch, Fields

LEMMA ListsFetch == ASSUME NEW arg, NEW r PROVE MessageOK(Fetch("lists", arg), r)
BY DEF MessageOK, Fetch, Fields

LEMMA Replaced ==
    ASSUME NEW n, NEW r, NetOK(n, r), NEW s \in Slots, NEW m, MessageOK(m, r)
    PROVE  NetOK([n EXCEPT ![s] = m], r)
BY DEF NetOK

LEMMA Sent ==
    ASSUME NEW n, NEW r, NetOK(n, r), NEW m, MessageOK(m, r)
    PROVE  NetOK(With(n, m), r)
<1>1. PICK s : With(n, m) = [n EXCEPT ![s] = m]
  BY DEF With
<1>2. CASE s \in Slots
  <2>1. NetOK([n EXCEPT ![s] = m], r)
    BY <1>2, Replaced
  <2> QED BY <1>1, <2>1
<1>3. CASE s \notin Slots
  BY <1>1, <1>3 DEF NetOK
<1> QED BY <1>2, <1>3

LEMMA SettledNet == ASSUME Inv, NEW s \in Slots PROVE NetOK(Settled(s), rows)
<1>1. NetOK([net EXCEPT ![s] = Idle], rows)
  BY IdleMessage, Replaced DEF Inv
<1> QED BY <1>1 DEF Settled

LEMMA FollowedNet ==
    ASSUME Inv, NEW s \in Slots, NEW m, MessageOK(m, rows), Follow(s, m)
    PROVE  NetOK(net', rows)
<1>1. NetOK([net EXCEPT ![s] = m], rows)
  BY Replaced DEF Inv
<1> QED BY <1>1 DEF Follow

(* A request whose status has changed, and whose owner may have gone.       *)
LEMMA Restated ==
    ASSUME NEW m, NEW r, MessageOK(m, r), NEW k, DOMAIN k = Fields,
           k.op = m.op, k.arg = m.arg,
           \/ k.status \notin {"ok", "held"}
           \/ k.status = m.status /\ k.data = m.data
    PROVE  MessageOK(k, r)
BY DEF MessageOK

LEMMA AbandonedNet == ASSUME Inv PROVE NetOK(Abandoned, rows)
<1>1. ASSUME NEW s \in Slots PROVE MessageOK(Abandoned[s], rows)
  <2>1. MessageOK(net[s], rows)
    BY DEF Inv, NetOK
  <2> DEFINE k == [net[s] EXCEPT !.owner = "gone"]
  <2>2. /\ DOMAIN k = Fields /\ k.op = net[s].op /\ k.arg = net[s].arg
        /\ k.status = net[s].status /\ k.data = net[s].data
    BY <2>1 DEF MessageOK, Fields
  <2>3. MessageOK(k, rows)
    <3> HIDE DEF k
    <3> QED BY <2>1, <2>2, Restated
  <2>4. Abandoned[s] \in {Idle, k, net[s]}
    BY DEF Abandoned
  <2> QED BY <2>1, <2>3, <2>4, IdleMessage
<1>2. DOMAIN Abandoned = Slots
  BY DEF Abandoned
<1> QED BY <1>1, <1>2 DEF NetOK

(* An answer is right for what was asked.                                   *)
AnswerOK(m, status, value, r) ==
    /\ m.op = "season" /\ status = "held" => m.arg.id \in DOMAIN r /\ value \in SUBSET Season
    /\ status = "ok" =>
          /\ m.op = "season" => ItemOK(value, r)
          /\ m.op = "row" => ListedOK(value, r)
          /\ m.op = "work" => value \in WorkAnswer
          /\ m.op = "lists" => ListsOK(value, r)

LEMMA Updated ==
    ASSUME NEW r, NEW n, NetOK(n, r), NEW s \in Slots, NEW status, NEW value,
           AnswerOK(n[s], status, value, r)
    PROVE  NetOK([n EXCEPT ![s].status = status, ![s].data = value], r)
<1> DEFINE k == [n[s] EXCEPT !.status = status, !.data = value]
<1>1. MessageOK(n[s], r)
  BY DEF NetOK
<1>2. /\ DOMAIN k = Fields /\ k.op = n[s].op /\ k.arg = n[s].arg
      /\ k.status = status /\ k.data = value
  BY <1>1 DEF MessageOK, Fields
<1>3. MessageOK(k, r)
  <2> HIDE DEF k
  <2> QED BY <1>1, <1>2 DEF MessageOK, AnswerOK
<1>4. [n EXCEPT ![s].status = status, ![s].data = value] = [n EXCEPT ![s] = k]
  BY DEF NetOK
<1>5. NetOK([n EXCEPT ![s] = k], r)
  <2> HIDE DEF k
  <2> QED BY <1>3, Replaced
<1> QED BY <1>4, <1>5

LEMMA AnsweredThen ==
    ASSUME NEW r, NetOK(net, r), NEW s \in Slots, NEW status, NEW value,
           AnswerOK(net[s], status, value, r)
    PROVE  NetOK(Answered(s, status, value), r)
<1>1. NetOK([net EXCEPT ![s].status = status, ![s].data = value], r)
  BY Updated
<1>2. NetOK([net EXCEPT ![s] = Idle], r)
  BY IdleMessage, Replaced
<1> QED BY <1>1, <1>2 DEF Answered

LEMMA AnsweredNet ==
    ASSUME Inv, NEW s \in Slots, NEW status, NEW value,
           AnswerOK(net[s], status, value, rows)
    PROVE  NetOK(Answered(s, status, value), rows)
BY AnsweredThen DEF Inv

(* A step that leaves the media rows and the request page alone.            *)
LEMMA NetStep ==
    ASSUME Inv, NetOK(net', rows), UNCHANGED <<rows, library, req>>
    PROVE  Inv'
BY DEF Inv

LEMMA PlainAnswer ==
    ASSUME NEW m, NEW status, NEW value, NEW r, m.op \notin MediaOps
    PROVE  AnswerOK(m, status, value, r)
BY DEF AnswerOK, MediaOps

LEMMA FailedAnswer ==
    ASSUME NEW m, NEW status, NEW value, NEW r, status \notin {"ok", "held"}
    PROVE  AnswerOK(m, status, value, r)
BY DEF AnswerOK

(***************************************************************************)
(* Page loads.                                                              *)
(***************************************************************************)
LEMMA FreshPageOK == ASSUME NEW r \in Seq(Row) PROVE PageOK(FreshPage, r)
<1>1. FreshPage \in PageType
  BY DEF FreshPage, PageType, ListsType, NoLists, Tabs
<1>2. ListsOK(NoLists, r)
  BY DEF ListsOK, ListsType, NoLists
<1> QED BY <1>1, <1>2 DEF PageOK, CardsOK, FreshPage, TicksOK

LEMMA StartsPlain ==
    ASSUME NEW p, NEW sec, NEW r
    PROVE  \A i \in DOMAIN OnMounted(p, sec) : MessageOK(OnMounted(p, sec)[i], r)
<1> DEFINE one   == Fetch("account", None)
           two   == Fetch("activation", "")
           three == Fetch("codes", "")
           token == Fetch("csrf", None)
<1>1. MessageOK(one, r) /\ MessageOK(two, r) /\ MessageOK(three, r) /\ MessageOK(token, r)
  <2>1. \A op \in {"account", "activation", "codes", "csrf"} : op \notin MediaOps
    BY DEF MediaOps
  <2> QED BY <2>1, PlainFetch, Zenon
<1>2. \/ OnMounted(p, sec) = <<token>>
      \/ OnMounted(p, sec) = <<one>>
      \/ OnMounted(p, sec) = <<one, two>>
      \/ OnMounted(p, sec) = <<one, two, three>>
  BY Zenon DEF OnMounted, MountRequests
<1> HIDE DEF one, two, three, token
<1> QED BY <1>1, <1>2

LEMMA PlacedNet ==
    ASSUME NEW n, NEW r, NetOK(n, r), NEW starts,
           \A i \in DOMAIN starts : MessageOK(starts[i], r)
    PROVE  NetOK(Placed(n, starts), r)
BY DEF Placed, NetOK

LEMMA MountStep ==
    ASSUME Inv, NEW p, NEW sec, Mount(p, sec), UNCHANGED serverVars
    PROVE  Inv'
<1>1. NetOK(net', rows)
  BY AbandonedNet, StartsPlain, PlacedNet DEF Mount
<1>2. PageOK(req', rows)
  BY FreshPageOK DEF Mount, Inv, RowsOK
<1> QED BY <1>1, <1>2 DEF Inv, serverVars

(***************************************************************************)
(* The account page, the login page and the session.                        *)
(***************************************************************************)
LEMMA CsrfFetch == ASSUME NEW arg, NEW r PROVE MessageOK(Fetch("csrf", arg), r)
BY PlainFetch DEF MediaOps

LEMMA ToLoginNet == ASSUME Inv, ToLogin PROVE NetOK(net', rows)
<1>1. NetOK(With(Abandoned, Fetch("csrf", None)), rows)
  BY AbandonedNet, CsrfFetch, Sent
<1> QED BY <1>1 DEF ToLogin

LEMMA SettleNet == ASSUME Inv, NEW s \in Slots, Settle(s) PROVE NetOK(net', rows)
BY SettledNet DEF Settle

LEMMA FetchedNet ==
    ASSUME Inv, NEW s \in Slots, NEW op, NEW arg, op \notin MediaOps,
           Follow(s, Fetch(op, arg))
    PROVE  NetOK(net', rows)
BY PlainFetch, FollowedNet

LEMMA SentNet ==
    ASSUME Inv, NEW op, NEW arg, op \notin MediaOps, Send(Fetch(op, arg))
    PROVE  NetOK(net', rows)
BY PlainFetch, Sent DEF Send, Inv

LEMMA AnswerNet ==
    ASSUME Inv, NEW s \in Slots, NEW status, NEW value, net[s].op \notin MediaOps,
           Answer(s, status, value)
    PROVE  NetOK(net', rows)
BY PlainAnswer, AnsweredNet DEF Answer

LEMMA AccountDeliveryStep ==
    ASSUME Inv, NEW s \in Slots, AccountDelivery(s)
    PROVE  NetOK(net', rows)
<1>0. \A op \in {"codes", "activation", "image"} : op \notin MediaOps
  BY DEF MediaOps
<1>1. CASE DeliverOwnAccount(s)
  BY <1>1, ToLoginNet, SettleNet DEF DeliverOwnAccount
<1>2. CASE DeliverCodes(s)
  BY <1>0, <1>2, ToLoginNet, SettleNet, FetchedNet DEF DeliverCodes
<1>3. CASE DeliverActivation(s)
  BY <1>0, <1>3, ToLoginNet, SettleNet, FetchedNet DEF DeliverActivation
<1>4. CASE DeliverImage(s)
  BY <1>4, ToLoginNet, SettleNet DEF DeliverImage
<1>5. CASE DeliverStatus(s)
  BY <1>5, ToLoginNet, SettleNet DEF DeliverStatus
<1>6. CASE DeliverAction(s)
  BY <1>0, <1>6, ToLoginNet, SettleNet, FetchedNet DEF DeliverAction
<1>7. CASE DeliverBillCode(s)
  BY <1>7, ToLoginNet, SettleNet DEF DeliverBillCode
<1> QED BY <1>1, <1>2, <1>3, <1>4, <1>5, <1>6, <1>7 DEF AccountDelivery

LEMMA AccountClickStep == ASSUME Inv, AccountClick PROVE NetOK(net', rows)
<1>0. \A op \in {"activation", "codes", "status", "logout", "settings", "redeem", "bill"} :
         op \notin MediaOps
  BY DEF MediaOps
<1>1. CASE ScanImageError
  BY <1>1 DEF ScanImageError, browserVars, Inv
<1>2. CASE ReloadActivation
  BY <1>0, <1>2, SentNet DEF ReloadActivation
<1>3. CASE Refresh
  BY <1>0, <1>3, SentNet DEF Refresh
<1>4. CASE Logout
  BY <1>0, <1>4, SentNet DEF Logout
<1>5. CASE ChangeSettings
  BY <1>0, <1>5, SentNet DEF ChangeSettings, Act
<1>6. CASE Redeem
  BY <1>0, <1>6, SentNet DEF Redeem, Act
<1>7. CASE ActivateBillCode
  BY <1>0, <1>7, SentNet DEF ActivateBillCode, Act
<1>8. ASSUME NEW next \in Sections, SelectSection(next)
      PROVE  NetOK(net', rows)
  <2>1. CASE UNCHANGED net
    BY <2>1 DEF Inv
  <2>2. CASE Send(Fetch("activation", ""))
    BY <1>0, <2>2, SentNet
  <2>3. CASE SendTwo(Fetch("activation", ""), Fetch("codes", ""))
    <3> DEFINE one == Fetch("activation", "")
               two == Fetch("codes", "")
    <3>1. MessageOK(one, rows) /\ MessageOK(two, rows)
      BY <1>0, PlainFetch
    <3>2. net' = With(With(net, one), two)
      BY <2>3 DEF SendTwo
    <3> HIDE DEF one, two
    <3>3. NetOK(With(net, one), rows)
      BY <3>1, Sent DEF Inv
    <3> QED BY <3>1, <3>2, <3>3, Sent
  <2> QED BY <1>8, <2>1, <2>2, <2>3 DEF SelectSection
<1>9. CASE ReloadCodes
  BY <1>0, <1>9, SentNet DEF ReloadCodes
<1> QED BY <1>1, <1>2, <1>3, <1>4, <1>5, <1>6, <1>7, <1>8, <1>9 DEF AccountClick

LEMMA OwnServerStepNet ==
    ASSUME Inv, NEW s \in Slots, OwnServerStep(s)
    PROVE  NetOK(net', rows)
<1>1. net[s].op \notin MediaOps
  BY DEF OwnServerStep, ServeAccount, ServeAction, Arrived, MediaOps
<1>2. CASE ServeAccount(s)
  BY <1>1, <1>2, AnswerNet DEF ServeAccount
<1>3. CASE ServeAction(s)
  BY <1>1, <1>3, AnswerNet DEF ServeAction
<1> QED BY <1>2, <1>3 DEF OwnServerStep

LEMMA SessionNet ==
    ASSUME Inv, NEW s \in Slots, ServeSession(s) \/ AuthToken(s) \/ SignInFailed(s)
    PROVE  NetOK(net', rows)
<1>1. CASE ServeSession(s)
  <2>1. net[s].op \notin MediaOps
    BY <1>1 DEF ServeSession, Arrived, MediaOps
  <2> QED BY <1>1, <2>1, AnswerNet DEF ServeSession
<1>2. CASE AuthToken(s)
  BY <1>2, SettleNet DEF AuthToken
<1>3. CASE SignInFailed(s)
  BY <1>3, SettleNet DEF SignInFailed
<1> QED BY <1>1, <1>2, <1>3

(***************************************************************************)
(* The network and the server.                                              *)
(***************************************************************************)
LEMMA DeniedNet == ASSUME Inv, NEW s \in Slots, Denied(s) PROVE NetOK(net', rows)
BY FailedAnswer, AnsweredNet DEF Denied, Answer

LEMMA LostNet == ASSUME Inv, NEW s \in Slots, Lost(s) PROVE NetOK(net', rows)
<1> DEFINE failed == [net EXCEPT ![s].status = "failed", ![s].data = None]
           orphan == [net[s] EXCEPT !.owner = "gone"]
<1>1. NetOK(failed, rows)
  BY FailedAnswer, Updated DEF Inv
<1>2. MessageOK(orphan, rows)
  <2>1. MessageOK(net[s], rows)
    BY DEF Inv, NetOK
  <2>2. /\ DOMAIN orphan = Fields /\ orphan.op = net[s].op /\ orphan.arg = net[s].arg
        /\ orphan.status = net[s].status /\ orphan.data = net[s].data
    BY <2>1 DEF MessageOK, Fields
  <2> HIDE DEF orphan
  <2> QED BY <2>1, <2>2, Restated
<1>3. net' = failed \/ net' = With(failed, orphan)
  BY DEF Lost
<1> HIDE DEF failed, orphan
<1> QED BY <1>1, <1>2, <1>3, Sent

LEMMA SnapshotOK ==
    ASSUME Inv, NEW i \in RowId, rows[i].status # "removed"
    PROVE  ListedOK(Snapshot(i), rows) /\ Snapshot(i).key = rows[i].key
<1>1. rows[i] \in Row /\ i \in Int /\ i # 0
  BY RowDomain DEF Inv, RowsOK, RowId
<1>2. Snapshot(i) \in ItemType
  BY <1>1 DEF Snapshot, Item, ItemType, Row, IsShow
<1> QED BY <1>1, <1>2 DEF Snapshot, Item, ListedOK, ItemOK, RowId

LEMMA SharedEntryOK ==
    ASSUME Inv, NEW k \in Items, NEW status \in {"in_library", "rejected"}
    PROVE  ListedOK(SharedEntry(k, status), rows)
<1> DEFINE x == SharedEntry(k, status)
<1>1. x \in ItemType
  BY DEF SharedEntry, Item, ItemType, IsShow
<1>2. x.id = -1 /\ x.info = IsShow(k) /\ x.key = k
  BY DEF SharedEntry, Item
<1> HIDE DEF x
<1>3. ListedOK(x, rows)
  BY <1>1, <1>2, RowDomain DEF ListedOK, ItemOK, Inv, RowsOK
<1> QED BY <1>3 DEF x

LEMMA LibraryEntryOK ==
    ASSUME Inv, NEW k \in Items
    PROVE  ListedOK(LibraryEntry(k), rows)
BY SnapshotOK, SharedEntryOK DEF LibraryEntry

LEMMA ServedListsOK == ASSUME Inv PROVE ListsOK(Lists, rows)
<1>1. \A x \in Lists.pending \cup Lists.rejected \cup Lists.in_library : ListedOK(x, rows)
  BY SnapshotOK, LibraryEntryOK DEF Lists, Inv
<1>2. Lists \in ListsType
  <2>1. Lists = [pending |-> Lists.pending, rejected |-> Lists.rejected,
                 in_library |-> Lists.in_library]
    BY DEF Lists
  <2> QED BY <1>1, <2>1 DEF ListsType, ListedOK, ItemOK
<1> QED BY <1>1, <1>2 DEF ListsOK

LEMMA ServeRowStep ==
    ASSUME Inv, NEW s \in Slots, net[s].op = "row", NEW k \in Items, NEW i,
           ServeRow(s, k, i)
    PROVE  NetOK(net', rows)
<1>1. ASSUME NEW x, ListedOK(x, rows), Answer(s, "ok", x) PROVE NetOK(net', rows)
  BY <1>1, AnsweredNet DEF Answer, AnswerOK
<1>2. CASE Answer(s, "refused", None)
  BY <1>2, FailedAnswer, AnsweredNet DEF Answer
<1>3. CASE i \in RowId /\ rows[i].status # "removed" /\ Answer(s, "ok", Snapshot(i))
  BY <1>1, <1>3, SnapshotOK
<1>4. CASE Answer(s, "ok", SharedEntry(k, "in_library"))
  BY <1>1, <1>4, SharedEntryOK
<1>5. CASE Answer(s, "ok", SharedEntry(k, "rejected"))
  BY <1>1, <1>5, SharedEntryOK
<1> QED BY <1>2, <1>3, <1>4, <1>5 DEF ServeRow

LEMMA ServeReadStep ==
    ASSUME Inv, NEW s \in Slots, ServeRead(s)
    PROVE  NetOK(net', rows)
<1> USE DEF Arrived
<1>1. MessageOK(net[s], rows)
  BY DEF Inv, NetOK
<1>2. CASE net[s].op = "lists" /\ Answer(s, "ok", Lists)
  BY <1>2, ServedListsOK, AnsweredNet DEF Answer, AnswerOK
<1>3. ASSUME NEW found, net[s].op = "search", Answer(s, "ok", found)
      PROVE  NetOK(net', rows)
  BY <1>3, AnswerNet DEF MediaOps
<1>4. CASE net[s].op = "row" /\ ServeRow(s, net[s].arg.key, net[s].arg.id)
  BY <1>1, <1>4, ServeRowStep DEF MessageOK, RowQuestion
<1>5. ASSUME NEW there \in BOOLEAN, NEW info \in BOOLEAN, net[s].op = "work",
             Answer(s, "ok", [there |-> there, info |-> info])
      PROVE  NetOK(net', rows)
  <2> DEFINE value == [there |-> there, info |-> info]
  <2>1. value \in WorkAnswer
    BY DEF WorkAnswer
  <2> HIDE DEF value
  <2>2. Answer(s, "ok", value)
    BY <1>5 DEF value
  <2> QED BY <1>5, <2>1, <2>2, AnsweredNet DEF Answer, AnswerOK
<1> QED BY <1>2, <1>3, <1>4, <1>5 DEF ServeRead

LEMMA CreateBeginStep ==
    ASSUME Inv, NEW s \in Slots, CreateBegin(s)
    PROVE  NetOK(net', rows)
<1>1. CASE Answer(s, "refused", None)
  BY <1>1, FailedAnswer, AnsweredNet DEF Answer
<1>2. CASE Hold(s, None)
  BY <1>2, Updated DEF Hold, CreateBegin, Arrived, AnswerOK, Inv
<1> QED BY <1>1, <1>2 DEF CreateBegin

LEMMA AddSeasonBeginStep ==
    ASSUME Inv, NEW s \in Slots, AddSeasonBegin(s)
    PROVE  NetOK(net', rows)
<1>1. CASE Answer(s, "refused", None)
  BY <1>1, FailedAnswer, AnsweredNet DEF Answer
<1>2. CASE /\ net[s].arg.id \in RowId /\ rows[net[s].arg.id].status # "removed"
           /\ Answer(s, "ok", Snapshot(net[s].arg.id))
  BY <1>2, SnapshotOK, AnsweredNet
     DEF Answer, AnswerOK, AddSeasonBegin, Arrived, ListedOK
<1>3. CASE net[s].arg.id \in RowId /\ Hold(s, rows[net[s].arg.id].seasons)
  <2>1. rows[net[s].arg.id].seasons \in SUBSET Season
    BY <1>3, RowDomain DEF Inv, RowsOK, RowId, Row
  <2> QED BY <1>3, <2>1, Updated DEF Hold, AddSeasonBegin, Arrived, AnswerOK, Inv, RowId
<1> QED BY <1>1, <1>2, <1>3 DEF AddSeasonBegin

(***************************************************************************)
(* The steps that change the rows.                                          *)
(***************************************************************************)
LEMMA RowsStep ==
    ASSUME Inv, NEW q, RowsOK(q), Kept(rows, q)
    PROVE  NetOK(net, q) /\ PageOK(req, q)
BY NetKept, PageKept DEF Inv, RowsOK

LEMMA AppendedRow ==
    ASSUME NEW r, RowsOK(r), NEW x \in Row, x.status = "pending",
           \A i \in DOMAIN r : ~(r[i].key = x.key /\ r[i].status = "pending")
    PROVE  RowsOK(Append(r, x)) /\ Kept(r, Append(r, x))
<1> DEFINE q == Append(r, x)
<1>1. r \in Seq(Row) /\ Len(r) \in Nat
  BY DEF RowsOK
<1>2. /\ q \in Seq(Row) /\ DOMAIN q = 1..(Len(r) + 1)
      /\ \A i \in 1..Len(r) : q[i] = r[i]
      /\ q[Len(r) + 1] = x
      /\ DOMAIN r = 1..Len(r)
  BY <1>1
<1>3. \A i \in DOMAIN q : i \in DOMAIN r \/ i = Len(r) + 1
  BY <1>1, <1>2
<1>4. DOMAIN r \subseteq DOMAIN q
  BY <1>1, <1>2
<1> HIDE DEF q
<1>5. OneOpen(q)
  BY <1>2, <1>3 DEF OneOpen, RowsOK
<1>6. RowsOK(q) /\ Kept(r, q)
  BY <1>2, <1>4, <1>5 DEF RowsOK, Kept
<1> QED BY <1>6 DEF q

LEMMA CreateEndStep ==
    ASSUME Inv, NEW s \in Slots, CreateEnd(s), UNCHANGED req
    PROVE  Inv'
<1> DEFINE k == net[s].arg.key
           x == [key |-> k, status |-> "pending", seasons |-> net[s].arg.seasons]
<1>1. CASE Answer(s, "refused", None) /\ UNCHANGED rows
  <2>1. NetOK(net', rows)
    BY <1>1, FailedAnswer, AnsweredNet DEF Answer
  <2> QED BY <1>1, <2>1 DEF CreateEnd, Inv
<1>2. CASE InsertAllowed(k) /\ rows' = Append(rows, x) /\ Answer(s, "ok", None)
  <2>1. MessageOK(net[s], rows) /\ net[s].op = "create"
    BY DEF Inv, NetOK, CreateEnd
  <2>2. x \in Row /\ x.key = k /\ x.status = "pending"
    BY <2>1 DEF MessageOK, ItemType, Row
  <2>3. \A i \in DOMAIN rows : ~(rows[i].key = k /\ rows[i].status = "pending")
    BY <1>2 DEF InsertAllowed, PendingRows, RowId
  <2>4. rows' = Append(rows, x) /\ Answer(s, "ok", None)
    BY <1>2
  <2> HIDE DEF x, k
  <2>5. RowsOK(rows') /\ Kept(rows, rows')
    BY <2>2, <2>3, <2>4, AppendedRow DEF Inv
  <2>6. NetOK(net, rows') /\ PageOK(req, rows')
    BY <2>5, RowsStep
  <2>7. AnswerOK(net[s], "ok", None, rows')
    BY <2>1 DEF AnswerOK
  <2>8. NetOK(net', rows')
    BY <2>4, <2>6, <2>7, AnsweredThen DEF Answer
  <2> QED BY <2>5, <2>6, <2>8 DEF Inv, CreateEnd
<1> QED BY <1>1, <1>2 DEF CreateEnd

(* Rows that are rewritten in place: the works stay, nothing is opened.     *)
LEMMA RewrittenRows ==
    ASSUME Inv, NEW q \in [DOMAIN rows -> Row],
           \A i \in DOMAIN rows :
               /\ q[i].key = rows[i].key
               /\ q[i].status = "pending" => rows[i].status = "pending"
    PROVE  RowsOK(q) /\ Kept(rows, q)
<1>1. rows \in Seq(Row) /\ DOMAIN rows = 1..Len(rows) /\ Len(rows) \in Nat
  BY DEF Inv, RowsOK
<1>2. Kept(rows, q)
  BY DEF Kept
<1>3. OneOpen(q)
  BY DEF OneOpen, Inv, RowsOK
<1>4. q \in Seq(Row)
  BY <1>1
<1> QED BY <1>2, <1>3, <1>4 DEF RowsOK

LEMMA AddSeasonEndStep ==
    ASSUME Inv, NEW s \in Slots, AddSeasonEnd(s), UNCHANGED req
    PROVE  Inv'
<1> DEFINE i == net[s].arg.id
           list == net[s].data \cup {net[s].arg.season}
           d == Item(rows[i].key, i, "pending", list, TRUE)
<1>1. CASE Answer(s, "refused", None) /\ UNCHANGED rows
  <2>1. NetOK(net', rows)
    BY <1>1, FailedAnswer, AnsweredNet DEF Answer
  <2> QED BY <1>1, <2>1 DEF AddSeasonEnd, Inv
<1>2. CASE rows' = [rows EXCEPT ![i].seasons = list] /\ Answer(s, "ok", d)
  <2>1. MessageOK(net[s], rows) /\ net[s].op = "season" /\ net[s].status = "held"
    BY DEF Inv, NetOK, AddSeasonEnd
  <2>2. i \in DOMAIN rows /\ list \in SUBSET Season
    BY <2>1 DEF MessageOK, AdditionOK
  <2>3. rows' = [rows EXCEPT ![i].seasons = list] /\ Answer(s, "ok", d)
    BY <1>2
  <2>4. /\ \A j \in DOMAIN rows : rows[j] \in Row
        /\ DOMAIN rows \subseteq Int /\ rows \in Seq(Row)
    BY RowDomain DEF Inv, RowsOK
  <2>5. d \in ItemType /\ d.id = i /\ d.key = rows[i].key /\ d.info
    BY <2>2, <2>4 DEF Item, ItemType, Row
  <2> HIDE DEF d, list, i
  <2>6. rows' \in [DOMAIN rows -> Row]
    BY <2>2, <2>3, <2>4 DEF Row
  <2>7. \A j \in DOMAIN rows : /\ rows'[j].key = rows[j].key
                               /\ rows'[j].status = rows[j].status
    BY <2>2, <2>3, <2>4 DEF Row
  <2>8. RowsOK(rows') /\ Kept(rows, rows')
    BY <2>6, <2>7, RewrittenRows
  <2>9. NetOK(net, rows') /\ PageOK(req, rows')
    BY <2>8, RowsStep
  <2>10. ItemOK(d, rows')
    BY <2>2, <2>5, <2>8 DEF ItemOK, Kept
  <2>11. AnswerOK(net[s], "ok", d, rows')
    BY <2>1, <2>10 DEF AnswerOK
  <2>12. NetOK(net', rows')
    BY <2>3, <2>9, <2>11, AnsweredThen DEF Answer
  <2> QED BY <2>8, <2>9, <2>12 DEF Inv, AddSeasonEnd
<1> QED BY <1>1, <1>2 DEF AddSeasonEnd

LEMMA StatusWritten ==
    ASSUME Inv, NEW ids, NEW status \in {"in_library", "rejected", "removed"},
           rows' = WithStatus(ids, status), library' \subseteq Items,
           UNCHANGED <<net, req>>
    PROVE  Inv'
<1>1. \A i \in DOMAIN rows : rows[i] \in Row
  BY RowDomain DEF Inv, RowsOK
<1>2. /\ rows' \in [DOMAIN rows -> Row]
      /\ \A i \in DOMAIN rows :
            /\ rows'[i].key = rows[i].key
            /\ rows'[i].status = "pending" => rows[i].status = "pending"
  BY <1>1 DEF WithStatus, RowId, Row
<1>3. RowsOK(rows') /\ Kept(rows, rows')
  BY <1>2, RewrittenRows
<1>4. NetOK(net, rows') /\ PageOK(req, rows')
  BY <1>3, RowsStep
<1> QED BY <1>3, <1>4 DEF Inv

LEMMA AdminStepStep == ASSUME Inv, AdminStep, UNCHANGED req PROVE Inv'
<1>1. ASSUME NEW k \in Items, Confirm(k)
      PROVE  Inv'
  BY <1>1, StatusWritten DEF Confirm, Inv
<1>2. ASSUME NEW works, NEW left, LibraryMayLose(works, left)
      PROVE  library' \subseteq Items
  BY <1>2 DEF LibraryMayLose, Inv
<1>3. ASSUME NEW k \in Items, Reject(k)
      PROVE  Inv'
  BY <1>2, <1>3, StatusWritten DEF Reject
<1>4. CASE Purge
  <2>1. PICK old : /\ rows' = WithStatus(old, "removed")
                   /\ LibraryMayLose({rows[i].key : i \in {j \in old : rows[j].status = "rejected"}},
                                     rows')
    BY <1>4 DEF Purge
  <2>2. library' \subseteq Items
    BY <1>2, <2>1
  <2> QED BY <1>4, <2>1, <2>2, StatusWritten DEF Purge
<1> QED BY <1>1, <1>3, <1>4 DEF AdminStep

LEMMA OtherDeviceStep == ASSUME Inv, OtherDevice PROVE NetOK(net', rows)
<1>1. ASSUME NEW k \in Items, NEW some \in {{}, SeasonsOf[k]},
             Send(Elsewhere("create", Item(k, 0, "none", some, TRUE)))
      PROVE  NetOK(net', rows)
  <2> DEFINE m == Elsewhere("create", Item(k, 0, "none", some, TRUE))
  <2>1. MessageOK(m, rows)
    BY SeasonsAreSeasons DEF MessageOK, Elsewhere, Fetch, Fields, Item, ItemType
  <2> HIDE DEF m
  <2>2. net' = With(net, m)
    BY <1>1 DEF m, Send
  <2> QED BY <2>1, <2>2, Sent DEF Inv
<1>2. ASSUME NEW k \in Items, NEW i \in PendingRows(k), NEW n \in SeasonsOf[k],
             Send(Elsewhere("season", [id |-> i, season |-> n]))
      PROVE  NetOK(net', rows)
  <2> DEFINE m == Elsewhere("season", [id |-> i, season |-> n])
  <2>1. AdditionOK([id |-> i, season |-> n], rows)
    BY SeasonsAreSeasons DEF AdditionOK, PendingRows, RowId
  <2>2. MessageOK(m, rows)
    BY <2>1 DEF MessageOK, Elsewhere, Fetch, Fields
  <2> HIDE DEF m
  <2>3. net' = With(net, m)
    BY <1>2 DEF m, Send
  <2> QED BY <2>2, <2>3, Sent DEF Inv
<1> QED BY <1>1, <1>2 DEF OtherDevice

(***************************************************************************)
(* What the request page does with its state.                               *)
(***************************************************************************)
SameView(w, v) == /\ w \in PageType
                  /\ w.selected = v.selected /\ w.visible = v.visible
                  /\ w.picked = v.picked /\ w.results = v.results /\ w.lists = v.lists

LEMMA Restyled ==
    ASSUME NEW v, NEW r, PageOK(v, r), NEW w, SameView(w, v)
    PROVE  PageOK(w, r)
BY DEF PageOK, CardsOK, TicksOK, SameView

LEMMA ShownOK ==
    ASSUME NEW v, NEW r, CardsOK(v, r), NEW x, ItemOK(x, r)
    PROVE  PageOK(Shown(v, x), r)
<1> DEFINE w == Shown(v, x)
<1>1. x \in ItemType /\ SeasonsOf[x.key] \subseteq Season
  BY SeasonsAreSeasons DEF ItemOK, ItemType
<1>2. SeasonsListed(x) \subseteq Season
  BY <1>1 DEF SeasonsListed
<1>3. v \in PageType
  BY DEF CardsOK
<1>4. /\ w.selected = x /\ w.visible = v.visible
      /\ w.results = v.results /\ w.lists = v.lists
      /\ w.picked = IF v.visible THEN Ticks(x, v.picked) ELSE {}
  BY <1>3 DEF Shown, PageType
<1>5. Ticks(x, v.picked) \subseteq Season
  BY <1>2, <1>3 DEF Ticks, PageType
<1>6. w \in PageType
  BY <1>1, <1>2, <1>3, <1>5 DEF Shown, PageType
<1>7. v.visible /\ x.id # 0 /\ IsShow(x.key) => Ticks(x, v.picked) = SeasonsOf[x.key]
  BY DEF ItemOK, IsShow, Ticks, SeasonsListed
<1> HIDE DEF w
<1>8. TicksOK(w)
  BY <1>4, <1>7 DEF TicksOK
<1>9. CardsOK(w, r)
  BY <1>4, <1>6 DEF CardsOK
<1> QED BY <1>4, <1>8, <1>9 DEF PageOK, w

(* A step that changes the network and the page alone.                      *)
LEMMA PageStep ==
    ASSUME Inv, UNCHANGED serverVars, NetOK(net', rows), PageOK(req', rows)
    PROVE  Inv'
BY DEF Inv, serverVars

(* ... and of the page nothing that the proof looks at.                     *)
LEMMA FlagStep ==
    ASSUME Inv, UNCHANGED serverVars, NetOK(net', rows), SameView(req', req)
    PROVE  Inv'
BY Restyled, PageStep DEF Inv

LEMMA DeliverCsrfStep == ASSUME Inv, NEW s \in Slots, DeliverCsrf(s) PROVE Inv'
<1>1. NetOK(net', rows)
  BY FetchedNet DEF DeliverCsrf, MediaOps
<1>2. req' = [req EXCEPT !.csrf = Succeeded(s)] /\ req \in PageType
  BY DEF DeliverCsrf, Inv, PageOK, CardsOK
<1>3. Succeeded(s) \in BOOLEAN
  BY DEF Succeeded
<1>4. SameView(req', req)
  BY <1>2, <1>3 DEF PageType, SameView
<1> QED BY <1>1, <1>4, FlagStep DEF DeliverCsrf

LEMMA DeliverAccountStep == ASSUME Inv, NEW s \in Slots, DeliverAccount(s) PROVE Inv'
<1>1. NetOK(net', rows)
  BY ListsFetch, FollowedNet DEF DeliverAccount
<1>2. req' = [req EXCEPT !.listsLoading = TRUE] /\ req \in PageType
  BY DEF DeliverAccount, Inv, PageOK, CardsOK
<1>3. SameView(req', req)
  BY <1>2 DEF PageType, SameView
<1> QED BY <1>1, <1>3, FlagStep DEF DeliverAccount

LEMMA StaleEntriesOK == ASSUME Inv PROVE NetOK(StaleEntries(net), rows)
<1>1. ASSUME NEW s \in Slots PROVE MessageOK(StaleEntries(net)[s], rows)
  <2> DEFINE k == [net[s] EXCEPT !.arg.live = FALSE]
  <2>1. MessageOK(net[s], rows)
    BY DEF Inv, NetOK
  <2>2. CASE net[s].op = "row"
    <3>1. net[s].arg \in RowQuestion
      BY <2>1, <2>2 DEF MessageOK
    <3>2. /\ DOMAIN k = Fields /\ k.op = "row" /\ k.status = net[s].status
          /\ k.data = net[s].data /\ k.arg = [net[s].arg EXCEPT !.live = FALSE]
      BY <2>1, <2>2 DEF MessageOK, Fields
    <3>3. k.arg \in RowQuestion /\ k.arg.id = net[s].arg.id
      BY <3>1, <3>2 DEF RowQuestion
    <3>4. StaleEntries(net)[s] = k
      BY <2>2 DEF StaleEntries, Inv, NetOK
    <3> HIDE DEF k
    <3> QED BY <2>1, <2>2, <3>2, <3>3, <3>4 DEF MessageOK
  <2>3. CASE net[s].op # "row"
    BY <2>1, <2>3 DEF StaleEntries, Inv, NetOK
  <2> QED BY <2>2, <2>3
<1>2. DOMAIN StaleEntries(net) = Slots
  BY DEF StaleEntries
<1> QED BY <1>1, <1>2 DEF NetOK

LEMMA DeliverListsStep == ASSUME Inv, NEW s \in Slots, DeliverLists(s) PROVE Inv'
<1> DEFINE n == IF Succeeded(s) THEN StaleEntries(net) ELSE net
           l == IF Succeeded(s) THEN net[s].data ELSE req.lists
           b == IF net[s].arg = "submit" THEN FALSE ELSE req.submitting
<1>1. NetOK(n, rows)
  BY StaleEntriesOK DEF Inv
<1>2. net' = [n EXCEPT ![s] = Idle]
  BY DEF DeliverLists
<1>3. req \in PageType /\ PageOK(req, rows) /\ ListsOK(req.lists, rows)
  BY DEF Inv, PageOK, CardsOK
<1>4. ListsOK(l, rows)
  BY <1>3 DEF DeliverLists, Ready, Succeeded, Inv, NetOK, MessageOK
<1>5. b \in BOOLEAN
  BY <1>3 DEF PageType
<1>6. req' = [req EXCEPT !.lists = l, !.listsLoading = FALSE, !.submitting = b]
  BY DEF DeliverLists
<1> HIDE DEF n, l, b
<1>7. /\ req' \in PageType /\ req'.lists = l
      /\ req'.selected = req.selected /\ req'.visible = req.visible
      /\ req'.picked = req.picked /\ req'.results = req.results
  BY <1>3, <1>4, <1>5, <1>6 DEF PageType, ListsOK
<1>8. PageOK(req', rows)
  BY <1>3, <1>4, <1>7 DEF PageOK, CardsOK, TicksOK
<1>9. NetOK(net', rows)
  BY <1>1, <1>2, IdleMessage, Replaced
<1> QED BY <1>8, <1>9, PageStep DEF DeliverLists

LEMMA RefreshListsStep == ASSUME Inv, RefreshLists PROVE Inv'
<1>1. NetOK(net', rows)
  BY ListsFetch, Sent DEF RefreshLists, Send, Inv
<1>2. req' = [req EXCEPT !.listsLoading = TRUE] /\ req \in PageType
  BY DEF RefreshLists, Inv, PageOK, CardsOK
<1>3. SameView(req', req)
  BY <1>2 DEF PageType, SameView
<1> QED BY <1>1, <1>3, FlagStep DEF RefreshLists

LEMMA ChangeTabStep == ASSUME Inv, NEW t \in Tabs, ChangeTab(t) PROVE Inv'
<1>1. req \in PageType
  BY DEF Inv, PageOK, CardsOK
<1>2. CASE UNCHANGED net /\ req' = [req EXCEPT !.tab = t]
  <2>1. SameView(req', req)
    BY <1>1, <1>2 DEF PageType, SameView
  <2> QED BY <1>2, <2>1, FlagStep DEF ChangeTab, Inv
<1>3. CASE /\ Send(Fetch("lists", "load"))
           /\ req' = [req EXCEPT !.tab = t, !.listsLoading = TRUE]
  <2>1. SameView(req', req)
    BY <1>1, <1>3 DEF PageType, SameView
  <2>2. NetOK(net', rows)
    BY <1>3, ListsFetch, Sent DEF Send, Inv
  <2> QED BY <2>1, <2>2, FlagStep DEF ChangeTab
<1> QED BY <1>2, <1>3 DEF ChangeTab

LEMMA SearchStep == ASSUME Inv, Search PROVE Inv'
<1> DEFINE v == Closed(req)
<1>1. req \in PageType /\ CardsOK(req, rows)
  BY DEF Inv, PageOK, CardsOK
<1>2. /\ v \in PageType /\ ~v.visible
      /\ v.results = req.results /\ v.lists = req.lists
  BY <1>1 DEF Closed, PageType
<1> HIDE DEF v
<1>3. CASE UNCHANGED net /\ req' = [v EXCEPT !.selected = None, !.results = {}]
  <2>1. /\ req' \in PageType /\ req'.results = {} /\ req'.lists = req.lists
        /\ ~req'.visible /\ req'.selected = None
    BY <1>2, <1>3 DEF PageType
  <2>2. PageOK(req', rows)
    BY <1>1, <2>1 DEF PageOK, CardsOK, TicksOK
  <2> QED BY <1>3, <2>2, PageStep DEF Search, Inv
<1>4. CASE /\ Send(Fetch("search", None))
           /\ req' = [v EXCEPT !.selected = None, !.loading = TRUE]
  <2>1. /\ req' \in PageType /\ req'.results = req.results /\ req'.lists = req.lists
        /\ ~req'.visible /\ req'.selected = None
    BY <1>2, <1>4 DEF PageType
  <2>2. PageOK(req', rows)
    BY <1>1, <2>1 DEF PageOK, CardsOK, TicksOK
  <2>3. NetOK(net', rows)
    BY <1>4, SentNet DEF MediaOps
  <2> QED BY <2>2, <2>3, PageStep DEF Search
<1> QED BY <1>3, <1>4 DEF Search, v

LEMMA DeliverSearchStep == ASSUME Inv, NEW s \in Slots, DeliverSearch(s) PROVE Inv'
<1> DEFINE found == IF Succeeded(s) THEN {SearchResult(k, net[s].data) : k \in Items}
                    ELSE {}
<1>1. \A x \in found : ItemOK(x, rows) /\ x.id = 0
  <2>1. 0 \notin DOMAIN rows
    BY RowDomain DEF Inv, RowsOK
  <2>2. ASSUME NEW k \in Items, NEW d
        PROVE  ItemOK(SearchResult(k, d), rows) /\ SearchResult(k, d).id = 0
    <3>1. (d.info /\ IsShow(k)) \in BOOLEAN
      OBVIOUS
    <3>2. LibraryState(k \in d.there) \in {"in_library", "none"}
      BY DEF LibraryState
    <3> QED BY <2>1, <3>1, <3>2 DEF SearchResult, Item, ItemType, ItemOK
  <2> QED BY <2>2
<1>2. found \subseteq ItemType
  BY <1>1 DEF ItemOK
<1>3. req \in PageType /\ PageOK(req, rows)
  BY DEF Inv, PageOK, CardsOK
<1>4. req' = [req EXCEPT !.loading = FALSE, !.results = found]
  BY DEF DeliverSearch
<1> HIDE DEF found
<1>5. /\ req' \in PageType /\ req'.results = found /\ req'.lists = req.lists
      /\ req'.visible = req.visible /\ req'.selected = req.selected
      /\ req'.picked = req.picked
  BY <1>2, <1>3, <1>4 DEF PageType
<1>6. PageOK(req', rows)
  BY <1>1, <1>3, <1>5 DEF PageOK, CardsOK, TicksOK
<1>7. NetOK(net', rows)
  BY SettleNet DEF DeliverSearch
<1> QED BY <1>6, <1>7, PageStep DEF DeliverSearch

LEMMA SelectStep == ASSUME Inv, NEW x \in ActiveList, Select(x) PROVE Inv'
<1> DEFINE v == [req EXCEPT !.visible = TRUE, !.chosen = {}, !.detailLoading = TRUE]
           q == [key |-> x.key, id |-> x.id, live |-> TRUE]
<1>1. req \in PageType /\ CardsOK(req, rows)
  BY DEF Inv, PageOK, CardsOK
<1>2. v \in PageType /\ v.results = req.results /\ v.lists = req.lists
  BY <1>1 DEF PageType
<1>3. CardsOK(v, rows)
  <2> HIDE DEF v
  <2> QED BY <1>1, <1>2 DEF CardsOK
<1>4. /\ ItemOK(x, rows)
      /\ req.tab = "search" => x.id = 0
      /\ req.tab # "search" => x.id # 0
  BY <1>1 DEF ActiveList, CardsOK, ListsOK, ListedOK, PageType, Tabs
<1>5. req' = Shown(v, x)
  BY DEF Select
<1>6. MessageOK(Fetch("work", x), rows) \/ req.tab # "search"
  BY <1>4 DEF MessageOK, Fetch, Fields
<1>7. MessageOK(Fetch("row", q), rows) \/ req.tab = "search"
  <2>1. x \in ItemType /\ x.id \in DOMAIN rows \cup {0, -1}
    BY <1>4 DEF ItemOK
  <2> QED BY <1>4, <2>1 DEF MessageOK, Fetch, Fields, RowQuestion, ItemType
<1>8. NetOK(net', rows)
  <2>1. CASE req.tab = "search"
    <3>1. Send(Fetch("work", x))
      BY <2>1 DEF Select
    <3> QED BY <1>6, <2>1, <3>1, Sent DEF Send, Inv
  <2>2. CASE req.tab # "search"
    <3>1. Send(Fetch("row", q))
      BY <2>2 DEF Select
    <3> HIDE DEF q
    <3> QED BY <1>7, <2>2, <3>1, Sent DEF Send, Inv
  <2> QED BY <2>1, <2>2
<1> HIDE DEF v, q
<1>9. PageOK(req', rows)
  BY <1>3, <1>4, <1>5, ShownOK
<1> QED BY <1>8, <1>9, PageStep DEF Select

LEMMA RefreshedOK ==
    ASSUME NEW list, NEW r, \A x \in list : ListedOK(x, r), NEW d, ListedOK(d, r)
    PROVE  \A x \in Refreshed(list, d) : ListedOK(x, r)
BY DEF Refreshed

LEMMA DeliverRowStep == ASSUME Inv, NEW s \in Slots, DeliverRow(s) PROVE Inv'
<1> DEFINE d == net[s].data
           l == IF net[s].arg.live THEN RefreshedLists(d) ELSE req.lists
           view == [req EXCEPT !.detailLoading = FALSE]
           v == [view EXCEPT !.lists = l]
<1>1. req \in PageType /\ PageOK(req, rows) /\ CardsOK(req, rows)
  BY DEF Inv, PageOK, CardsOK
<1>2. NetOK(net', rows)
  BY SettleNet DEF DeliverRow
<1>3. CASE ~Succeeded(s)
  <2>1. req' = view
    BY <1>3 DEF DeliverRow
  <2>2. SameView(req', req)
    BY <1>1, <2>1 DEF PageType, SameView
  <2> QED BY <1>2, <2>2, FlagStep DEF DeliverRow
<1>4. CASE Succeeded(s)
  <2>1. ListedOK(d, rows)
    BY <1>4 DEF DeliverRow, Ready, Succeeded, Inv, NetOK, MessageOK
  <2>2. ListsOK(RefreshedLists(d), rows)
    <3> DEFINE n == RefreshedLists(d)
    <3>1. req.lists \in ListsType /\ ListsOK(req.lists, rows)
      BY <1>1 DEF CardsOK, ListsOK
    <3>2. n = [pending |-> Refreshed(req.lists.pending, d),
               rejected |-> Refreshed(req.lists.rejected, d),
               in_library |-> Refreshed(req.lists.in_library, d)]
      BY <3>1 DEF RefreshedLists, ListsType
    <3>3. \A x \in n.pending \cup n.rejected \cup n.in_library : ListedOK(x, rows)
      BY <2>1, <3>1, <3>2, RefreshedOK DEF ListsOK
    <3>4. n \in ListsType
      <4>1. n.pending \subseteq ItemType /\ n.rejected \subseteq ItemType
            /\ n.in_library \subseteq ItemType
        BY <3>3 DEF ListedOK, ItemOK
      <4> QED BY <3>2, <4>1 DEF ListsType
    <3> QED BY <3>3, <3>4 DEF ListsOK
  <2>3. ListsOK(l, rows)
    BY <1>1, <2>2 DEF CardsOK
  <2>4. req' = Shown(v, d)
    BY <1>4 DEF DeliverRow
  <2> HIDE DEF l, d
  <2>5. v \in PageType /\ v.results = req.results /\ v.lists = l
    BY <1>1, <2>3 DEF PageType, ListsOK
  <2> HIDE DEF v
  <2>6. CardsOK(v, rows)
    BY <1>1, <2>3, <2>5 DEF CardsOK
  <2>7. PageOK(req', rows)
    BY <2>1, <2>4, <2>6, ShownOK DEF ListedOK
  <2> QED BY <1>2, <2>7, PageStep DEF DeliverRow
<1> QED BY <1>3, <1>4

LEMMA DeliverWorkStep == ASSUME Inv, NEW s \in Slots, DeliverWork(s) PROVE Inv'
<1> DEFINE d == Merged(net[s].arg, net[s].data)
           v == [req EXCEPT !.detailLoading = FALSE]
<1>1. req \in PageType /\ PageOK(req, rows) /\ CardsOK(req, rows)
  BY DEF Inv, PageOK, CardsOK
<1>2. NetOK(net', rows)
  BY SettleNet DEF DeliverWork
<1>3. SameView(v, req)
  BY <1>1 DEF PageType, SameView
<1>4. CASE ~Succeeded(s)
  <2>1. req' = v
    BY <1>4 DEF DeliverWork
  <2> HIDE DEF v
  <2> QED BY <1>2, <1>3, <2>1, FlagStep DEF DeliverWork
<1>5. CASE Succeeded(s)
  <2>1. ItemOK(net[s].arg, rows) /\ net[s].arg.id = 0 /\ net[s].data \in WorkAnswer
    BY <1>5 DEF DeliverWork, Ready, Succeeded, Inv, NetOK, MessageOK
  <2>2. ItemOK(d, rows)
    <3>1. LibraryState(net[s].data.there) \in {"in_library", "none"}
      BY DEF LibraryState
    <3>2. net[s].data.info \in BOOLEAN
      BY <2>1 DEF WorkAnswer
    <3> QED BY <2>1, <3>1, <3>2 DEF Merged, ItemOK, ItemType
  <2>3. req' = Shown(v, d)
    BY <1>5 DEF DeliverWork
  <2> HIDE DEF v, d
  <2>4. CardsOK(v, rows)
    BY <1>1, <1>3 DEF CardsOK, SameView
  <2>5. PageOK(req', rows)
    BY <2>2, <2>3, <2>4, ShownOK
  <2> QED BY <1>2, <2>5, PageStep DEF DeliverWork
<1> QED BY <1>4, <1>5

LEMMA CloseStep == ASSUME Inv, CloseDetailDialog PROVE Inv'
<1>1. req \in PageType /\ PageOK(req, rows) /\ req.visible
  BY DEF Inv, PageOK, CardsOK, CloseDetailDialog
<1>2. req' = [req EXCEPT !.visible = FALSE, !.picked = {}]
  BY DEF CloseDetailDialog, Closed
<1>3. /\ req' \in PageType /\ req'.results = req.results /\ req'.lists = req.lists
      /\ ~req'.visible /\ req'.selected = req.selected
  BY <1>1, <1>2 DEF PageType
<1>4. PageOK(req', rows)
  BY <1>1, <1>3 DEF PageOK, CardsOK, TicksOK
<1>5. NetOK(net', rows)
  BY DEF CloseDetailDialog, browserVars, Inv
<1> QED BY <1>4, <1>5, PageStep DEF CloseDetailDialog

(***************************************************************************)
(* Writing.                                                                 *)
(***************************************************************************)
(* What may be sent for the work that is shown: itself, and a season of it  *)
(* for the row it carries.                                                  *)
LEMMA ShownWork ==
    ASSUME Inv, CanWrite
    PROVE  /\ req \in PageType /\ req.visible
           /\ ItemOK(req.selected, rows) /\ TicksOK(req)
BY DEF Inv, PageOK, CardsOK, CanWrite

LEMMA SeasonFetch ==
    ASSUME Inv, CanWrite, req.selected.id # 0, NEW n \in SeasonsOf[req.selected.key],
           NEW merge
    PROVE  MessageOK(Fetch("season", [id |-> req.selected.id, season |-> n,
                                      merge |-> merge]), rows)
<1> DEFINE x == req.selected
           a == [id |-> x.id, season |-> n, merge |-> merge]
<1>1. ItemOK(x, rows)
  BY ShownWork
<1>2. n \in Season
  BY <1>1, SeasonsAreSeasons DEF ItemOK, ItemType
<1>3. AdditionOK(a, rows)
  BY <1>1, <1>2 DEF AdditionOK, ItemOK
<1> HIDE DEF a
<1>4. MessageOK(Fetch("season", a), rows)
  BY <1>3 DEF MessageOK, Fetch, Fields
<1> QED BY <1>4 DEF a

LEMMA SubmitRequestStep ==
    ASSUME Inv, CanWrite, NEW override \in SUBSET Season, SubmitRequest(override),
           UNCHANGED serverVars,
           req.selected.id # 0 => override \subseteq SeasonsOf[req.selected.key]
    PROVE  Inv'
<1> DEFINE x      == req.selected
           choice == IF override = {} THEN req.chosen ELSE override
           there  == [req EXCEPT !.chosen = choice]
           wish   == [x EXCEPT !.seasons = IF IsShow(x.key) THEN choice ELSE {}]
<1>1. req \in PageType /\ ItemOK(x, rows) /\ x \in ItemType
  BY ShownWork DEF ItemOK
<1>2. choice \subseteq Season
  BY <1>1 DEF PageType
<1>3. SameView(there, req)
  BY <1>1, <1>2 DEF PageType, SameView
<1>4. ASSUME NEW n \in override, x.id # 0,
             Send(Fetch("season", [id |-> x.id, season |-> n, merge |-> FALSE])),
             req' = [there EXCEPT !.submitting = TRUE]
      PROVE  Inv'
  <2> DEFINE m == Fetch("season", [id |-> x.id, season |-> n, merge |-> FALSE])
  <2>1. MessageOK(m, rows)
    BY <1>4, SeasonFetch
  <2>2. net' = With(net, m)
    BY <1>4 DEF Send
  <2> HIDE DEF m
  <2>3. NetOK(net', rows)
    BY <2>1, <2>2, Sent DEF Inv
  <2>4. SameView(req', req)
    BY <1>1, <1>2, <1>4 DEF PageType, SameView
  <2> QED BY <2>3, <2>4, FlagStep
<1>5. CASE /\ Send(Fetch("create", wish))
           /\ req' = [there EXCEPT !.submitting = TRUE, !.requestKey = x.key]
  <2>1. wish \in ItemType
    BY <1>1, <1>2 DEF ItemType
  <2>2. x.key \in Items
    BY <1>1 DEF ItemType
  <2> HIDE DEF wish
  <2>3. MessageOK(Fetch("create", wish), rows)
    BY <2>1 DEF MessageOK, Fetch, Fields
  <2>4. NetOK(net', rows)
    BY <1>5, <2>3, Sent DEF Send, Inv
  <2>5. SameView(req', req)
    BY <1>1, <1>2, <1>5, <2>2 DEF PageType, SameView
  <2> QED BY <2>4, <2>5, FlagStep
<1>6. CASE req' = there /\ UNCHANGED net
  <2> HIDE DEF there
  <2> QED BY <1>3, <1>6, FlagStep DEF Inv
<1>7. \/ /\ x.id # 0 /\ req' = [there EXCEPT !.submitting = TRUE]
         /\ \E n \in override :
               Send(Fetch("season", [id |-> x.id, season |-> n, merge |-> FALSE]))
      \/ /\ Send(Fetch("create", wish))
         /\ req' = [there EXCEPT !.submitting = TRUE, !.requestKey = x.key]
      \/ req' = there /\ UNCHANGED net
  BY DEF SubmitRequest
<1> QED BY <1>4, <1>5, <1>6, <1>7

LEMMA SubscribeStep == ASSUME Inv, Subscribe PROVE Inv'
<1>1. /\ req.picked \in SUBSET Season /\ {} \in SUBSET Season
      /\ req.selected.id # 0 /\ IsShow(req.selected.key)
            => req.picked \subseteq SeasonsOf[req.selected.key]
  BY ShownWork DEF Subscribe, PageType, TicksOK
<1>2. CanWrite /\ UNCHANGED serverVars
  BY DEF Subscribe
<1>3. CASE IsShow(req.selected.key) /\ SubmitRequest(req.picked)
  BY <1>1, <1>2, <1>3, SubmitRequestStep
<1>4. CASE SubmitRequest({})
  BY <1>1, <1>2, <1>4, SubmitRequestStep
<1> QED BY <1>3, <1>4 DEF Subscribe

LEMMA SubscribeSeasonStep ==
    ASSUME Inv, NEW n \in Season, SubscribeSeason(n)
    PROVE  Inv'
<1>1. CanWrite /\ UNCHANGED serverVars /\ req \in PageType
  BY ShownWork DEF SubscribeSeason
<1>2. n \in SeasonsOf[req.selected.key]
  BY DEF SubscribeSeason, SeasonsListed
<1>3. CASE SubmitRequest({n})
  BY <1>1, <1>2, <1>3, SubmitRequestStep
<1>4. CASE /\ req.selected.id # 0
           /\ Send(Fetch("season", [id |-> req.selected.id, season |-> n, merge |-> TRUE]))
           /\ req' = [req EXCEPT !.submitting = TRUE]
  <2> DEFINE m == Fetch("season", [id |-> req.selected.id, season |-> n, merge |-> TRUE])
  <2>1. MessageOK(m, rows)
    BY <1>1, <1>2, <1>4, SeasonFetch
  <2>2. net' = With(net, m)
    BY <1>4 DEF Send
  <2> HIDE DEF m
  <2>3. NetOK(net', rows)
    BY <2>1, <2>2, Sent DEF Inv
  <2>4. SameView(req', req)
    BY <1>1, <1>4 DEF PageType, SameView
  <2> QED BY <1>1, <2>3, <2>4, FlagStep
<1> QED BY <1>3, <1>4 DEF SubscribeSeason

LEMMA DeliverCreateStep == ASSUME Inv, NEW s \in Slots, DeliverCreate(s) PROVE Inv'
<1>1. req \in PageType
  BY DEF Inv, PageOK, CardsOK
<1>2. CASE req' = [req EXCEPT !.listsLoading = TRUE] /\ Follow(s, Fetch("lists", "submit"))
  <2>1. SameView(req', req)
    BY <1>1, <1>2 DEF PageType, SameView
  <2>2. NetOK(net', rows)
    BY <1>2, ListsFetch, FollowedNet
  <2> QED BY <2>1, <2>2, FlagStep DEF DeliverCreate
<1>3. CASE req' = [req EXCEPT !.submitting = FALSE, !.requestKey = None] /\ Settle(s)
  <2>1. SameView(req', req)
    BY <1>1, <1>3 DEF PageType, SameView
  <2>2. NetOK(net', rows)
    BY <1>3, SettleNet
  <2> QED BY <2>1, <2>2, FlagStep DEF DeliverCreate
<1> QED BY <1>2, <1>3 DEF DeliverCreate

LEMMA DeliverSeasonStep == ASSUME Inv, NEW s \in Slots, DeliverSeason(s) PROVE Inv'
<1> DEFINE view == [req EXCEPT !.listsLoading = TRUE]
           d == net[s].data
<1>1. req \in PageType /\ CardsOK(req, rows)
  BY DEF Inv, PageOK, CardsOK
<1>2. SameView(view, req)
  BY <1>1 DEF PageType, SameView
<1>3. CASE Succeeded(s)
  <2>1. NetOK(net', rows)
    BY <1>3, ListsFetch, FollowedNet DEF DeliverSeason
  <2>2. ItemOK(d, rows)
    BY <1>3 DEF DeliverSeason, Ready, Succeeded, Inv, NetOK, MessageOK
  <2>3. CASE req' = [Shown(view, d) EXCEPT !.chosen = req.chosen]
    <3> DEFINE v == Shown(view, d)
    <3> HIDE DEF view, d
    <3>1. CardsOK(view, rows)
      BY <1>1, <1>2 DEF CardsOK, SameView
    <3>2. PageOK(v, rows) /\ v \in PageType
      BY <2>2, <3>1, ShownOK DEF PageOK, CardsOK
    <3>3. req' = [v EXCEPT !.chosen = req.chosen]
      BY <2>3
    <3> HIDE DEF v
    <3>4. SameView(req', v)
      BY <1>1, <3>2, <3>3 DEF PageType, SameView
    <3>5. PageOK(req', rows)
      BY <3>2, <3>4, Restyled
    <3> QED BY <2>1, <3>5, PageStep DEF DeliverSeason
  <2>4. CASE req' = view
    <3> HIDE DEF view
    <3> QED BY <1>2, <2>1, <2>4, FlagStep DEF DeliverSeason
  <2> QED BY <1>3, <2>3, <2>4 DEF DeliverSeason
<1>4. CASE ~Succeeded(s)
  <2>1. req' = [req EXCEPT !.submitting = FALSE] /\ Settle(s)
    BY <1>4 DEF DeliverSeason
  <2>2. SameView(req', req)
    BY <1>1, <2>1 DEF PageType, SameView
  <2>3. NetOK(net', rows)
    BY <2>1, SettleNet
  <2> QED BY <2>2, <2>3, FlagStep DEF DeliverSeason
<1> QED BY <1>3, <1>4

LEMMA LogoutHereStep == ASSUME Inv, LogoutHere PROVE Inv'
<1>1. req' = [req EXCEPT !.logoutBusy = TRUE] /\ req \in PageType
  BY DEF LogoutHere, Inv, PageOK, CardsOK
<1>2. SameView(req', req)
  BY <1>1 DEF PageType, SameView
<1>3. NetOK(net', rows)
  BY SentNet DEF LogoutHere, MediaOps
<1> QED BY <1>2, <1>3, FlagStep DEF LogoutHere

LEMMA DeliverLogoutStep == ASSUME Inv, NEW s \in Slots, DeliverLogout(s) PROVE Inv'
<1>1. CASE net' = With(Abandoned, Fetch("csrf", None)) /\ req' = FreshPage
  <2>1. NetOK(net', rows)
    BY <1>1, AbandonedNet, CsrfFetch, Sent
  <2>2. PageOK(req', rows)
    BY <1>1, FreshPageOK DEF Inv, RowsOK
  <2> QED BY <2>1, <2>2, PageStep DEF DeliverLogout
<1>2. CASE Settle(s) /\ req' = [req EXCEPT !.logoutBusy = FALSE]
  <2>1. SameView(req', req)
    BY <1>2 DEF PageType, SameView, Inv, PageOK, CardsOK
  <2>2. NetOK(net', rows)
    BY <1>2, SettleNet
  <2> QED BY <2>1, <2>2, FlagStep DEF DeliverLogout
<1> QED BY <1>1, <1>2 DEF DeliverLogout

(***************************************************************************)
(* The theorems.                                                            *)
(***************************************************************************)
LEMMA InitInv == PortalInit => Inv
<1> SUFFICES ASSUME PortalInit PROVE Inv
  OBVIOUS
<1>1. RowsOK(rows)
  BY MediaAssumption DEF PortalInit, MediaInit, RowsOK, OneOpen
<1>2. library \subseteq Items
  BY <1>1, RowDomain DEF PortalInit, MediaInit, RowsOK, RowId, Row
<1>3. NetOK(net, rows)
  <2> DEFINE n == [s \in Slots |-> Idle]
  <2>1. NetOK(n, rows)
    BY IdleMessage DEF NetOK
  <2>2. 1 \in Slots
    BY BrowserAssumption DEF Slots
  <2>3. net = [n EXCEPT ![1] = Fetch("csrf", None)]
    BY DEF PortalInit
  <2> HIDE DEF n
  <2> QED BY <2>1, <2>2, <2>3, CsrfFetch, Replaced
<1>4. PageOK(req, rows)
  BY <1>1, FreshPageOK DEF PortalInit, RowsOK
<1> QED BY <1>1, <1>2, <1>3, <1>4 DEF Inv

LEMMA RequestDeliveryStep ==
    ASSUME Inv, NEW s \in Slots, RequestDelivery(s)
    PROVE  Inv'
BY DeliverCsrfStep, DeliverAccountStep, DeliverListsStep, DeliverSearchStep,
   DeliverRowStep, DeliverWorkStep, DeliverCreateStep, DeliverSeasonStep,
   DeliverLogoutStep DEF RequestDelivery

LEMMA RequestClickStep == ASSUME Inv, RequestClick PROVE Inv'
<1>1. Season = UNION {SeasonsOf[k] : k \in Items}
  BY DEF Season
<1> QED BY <1>1, RefreshListsStep, SearchStep, CloseStep, SubscribeStep, LogoutHereStep,
           ChangeTabStep, SelectStep, SubscribeSeasonStep DEF RequestClick

LEMMA ServerStepStep ==
    ASSUME Inv, NEW s \in Slots, ServerStep(s), UNCHANGED req
    PROVE  Inv'
<1>1. CASE CreateBegin(s)
  BY <1>1, CreateBeginStep, NetStep DEF CreateBegin, serverVars
<1>2. CASE CreateEnd(s)
  BY <1>2, CreateEndStep
<1>3. CASE AddSeasonBegin(s)
  BY <1>3, AddSeasonBeginStep, NetStep DEF AddSeasonBegin, serverVars
<1>4. CASE AddSeasonEnd(s)
  BY <1>4, AddSeasonEndStep
<1>5. CASE ServeRead(s)
  BY <1>5, ServeReadStep, NetStep DEF ServeRead, serverVars
<1> QED BY <1>1, <1>2, <1>3, <1>4, <1>5 DEF ServerStep

LEMMA DeliverStep == ASSUME Inv, NEW s \in Slots, Deliver(s) PROVE Inv'
<1>1. CASE RequestDelivery(s)
  BY <1>1, RequestDeliveryStep
<1>2. CASE AccountDelivery(s) /\ UNCHANGED <<serverVars, req, auth>>
  BY <1>2, AccountDeliveryStep, NetStep DEF serverVars
<1>3. CASE (AuthToken(s) \/ SignInFailed(s)) /\ UNCHANGED <<serverVars, req, accountVars>>
  BY <1>3, SessionNet, NetStep DEF serverVars
<1>4. CASE SignedIn(s)
  BY <1>4, MountStep DEF SignedIn
<1> QED BY <1>1, <1>2, <1>3, <1>4 DEF Deliver

LEMMA ServeStep == ASSUME Inv, NEW s \in Slots, Serve(s) PROVE Inv'
<1>1. CASE ServerStep(s) /\ UNCHANGED <<req, accountVars, auth>>
  BY <1>1, ServerStepStep
<1>2. CASE OwnServerStep(s) /\ UNCHANGED <<serverVars, req, auth>>
  BY <1>2, OwnServerStepNet, NetStep DEF serverVars
<1>3. CASE ServeSession(s) /\ UNCHANGED <<serverVars, req, accountVars>>
  BY <1>3, SessionNet, NetStep DEF serverVars
<1> QED BY <1>1, <1>2, <1>3 DEF Serve

LEMMA ClickStep == ASSUME Inv, Click PROVE Inv'
<1>1. CASE RequestClick
  BY <1>1, RequestClickStep
<1>2. CASE AccountClick /\ UNCHANGED <<serverVars, req, auth>>
  BY <1>2, AccountClickStep, NetStep DEF serverVars
<1>3. CASE SignIn /\ UNCHANGED <<serverVars, req, accountVars>>
  <2>1. NetOK(net', rows)
    BY <1>3, SentNet DEF SignIn, MediaOps
  <2> QED BY <1>3, <2>1, NetStep DEF serverVars
<1> QED BY <1>1, <1>2, <1>3 DEF Click

LEMMA OutsideStep == ASSUME Inv, Outside PROVE Inv'
<1>1. CASE AdminStep /\ UNCHANGED <<req, accountVars, auth>>
  BY <1>1, AdminStepStep
<1>2. CASE OtherDevice /\ UNCHANGED <<req, accountVars, auth>>
  BY <1>2, OtherDeviceStep, NetStep DEF OtherDevice, serverVars
<1>3. CASE (AdminChanges \/ Tick) /\ UNCHANGED <<serverVars, req, auth>>
  BY <1>3, NetStep DEF AdminChanges, Tick, browserVars, serverVars, Inv
<1>4. CASE (UpdateOnline \/ SessionEnds) /\ UNCHANGED <<serverVars, req, accountVars, auth>>
  BY <1>4, NetStep DEF UpdateOnline, SessionEnds, serverVars, Inv
<1>5. ASSUME NEW s \in Slots, Denied(s) \/ Lost(s),
             UNCHANGED <<serverVars, req, accountVars, auth>>
      PROVE  Inv'
  BY <1>5, DeniedNet, LostNet, NetStep DEF serverVars
<1> QED BY <1>1, <1>2, <1>3, <1>4, <1>5 DEF Outside

LEMMA NextInv == Inv /\ [PortalNext]_vars => Inv'
<1> SUFFICES ASSUME Inv, [PortalNext]_vars PROVE Inv'
  OBVIOUS
<1>1. CASE Visit
  BY <1>1, MountStep DEF Visit
<1>2. CASE UNCHANGED vars
  BY <1>2 DEF vars, browserVars, serverVars, Inv
<1> QED BY <1>1, <1>2, ClickStep, OutsideStep, ServeStep, DeliverStep DEF PortalNext

(* Whatever the pages, the other devices, the administrators and the        *)
(* network do: every description of a work on the request page, in its      *)
(* lists or on its way to it names a row of that work, or none, and every   *)
(* season on its way belongs to the show of its row.                        *)
THEOREM PortalInvariance == PortalSpec => []Inv
<1>1. PortalInit => Inv
  BY InitInv
<1>2. Inv /\ [PortalNext]_vars => Inv'
  BY NextInv
<1> QED BY <1>1, <1>2, PTL DEF PortalSpec

(* A user never has two open requests of one work: the partial unique index *)
(* of media_requests holds up every submission that passed the first check  *)
(* before another one was written.                                          *)
THEOREM OneOpenRequestSafe == PortalSpec => []OneOpenRequest
<1>1. Inv => OneOpenRequest
  BY DEF Inv, RowsOK, OneOpen, OneOpenRequest, PendingRows, RowId
<1> QED BY <1>1, PortalInvariance, PTL

(* The detail view never carries the row of another work than the one it    *)
(* shows, and never adds a season to a show that does not have it, in       *)
(* whatever order the answers of earlier selections arrive.                 *)
THEOREM RowOfShownWorkSafe == PortalSpec => []RowOfShownWork
<1>1. ASSUME Inv PROVE RowOfShownWork
  <2>1. req.selected # None /\ req.selected.id \in RowId
           => rows[req.selected.id].key = req.selected.key
    BY <1>1 DEF Inv, PageOK, ItemOK, RowId
  <2>2. ASSUME NEW s \in Owned({"season"}), net[s].arg.id \in RowId
        PROVE  net[s].arg.season \in SeasonsOf[rows[net[s].arg.id].key]
    BY <1>1, <2>2 DEF Inv, NetOK, MessageOK, AdditionOK, Owned, RowId
  <2> QED BY <2>1, <2>2 DEF RowOfShownWork
<1> QED BY <1>1, PortalInvariance, PTL
=============================================================================
