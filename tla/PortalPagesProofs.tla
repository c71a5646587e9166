------------------------- MODULE PortalPagesProofs -------------------------
(***************************************************************************)
(* Proofs about the pages of the portal, for any number of requests in      *)
(* flight and any number of events: each page is busy exactly while a       *)
(* request of its own is under way, every spinner has an answer to come, no *)
(* code is listed twice, the scan image that is shown is alive, two         *)
(* refreshes are a cooldown apart, and every variable keeps its type.       *)
(***************************************************************************)
EXTENDS PortalProofs, FiniteSetTheorems

(***************************************************************************)
(* Whose requests are on their way.                                         *)
(***************************************************************************)
OpsOf(p) == IF p = "requests" THEN {"csrf", "account", "lists", "search", "work", "row",
                                    "create", "season", "logout"}
            ELSE IF p = "account" THEN {"account", "activation", "codes", "image", "status",
                                        "settings", "redeem", "bill", "logout"}
            ELSE {"csrf", "login"}

Proper(r, p) == /\ r.owner \in {"none", "page", "gone"}
                /\ r.status \in {"none", "sent", "held"} \cup Answers
                /\ r.op # "none" <=> r.status # "none"
                /\ r.owner = "page" => r.op \in OpsOf(p)

AllProper(n, p) == \A s \in Slots : Proper(n[s], p)

NetInv == page \in Pages /\ AllProper(net, page)

(***************************************************************************)
(* The busy flags and the spinners of the three pages.                      *)
(***************************************************************************)
Mine(n, ops) == {s \in Slots : n[s].op \in ops /\ n[s].owner = "page"}

Tagged(n, ops, tag) == {s \in Mine(n, ops) : n[s].arg = tag}

(* S has one element if b, and none otherwise.                              *)
OneIf(S, b) == IF b THEN \E s \in S : S = {s} ELSE S = {}

Writing(n) == Mine(n, {"create", "season"}) \cup Tagged(n, {"lists"}, "submit")

RequestFlags(n, v) ==
    /\ OneIf(Writing(n), v.submitting)
    /\ v.listsLoading => Mine(n, {"lists"}) # {}
    /\ v.detailLoading => Mine(n, {"row", "work"}) # {}
    /\ v.loading => Mine(n, {"search"}) # {}
    /\ v.logoutBusy => Mine(n, {"logout"}) # {}

(* A request page that is not loaded, or not any more.                      *)
AtRest(v) == /\ ~v.submitting /\ ~v.listsLoading /\ ~v.detailLoading
             /\ ~v.loading /\ ~v.logoutBusy

RequestInv == IF page = "requests" THEN RequestFlags(net, req) ELSE AtRest(req)

Acting(n) == Mine(n, {"settings", "redeem", "bill", "logout"})
             \cup Tagged(n, {"codes", "activation", "image"}, "redeem")

AccountFlags(n, v) ==
    /\ OneIf(Acting(n), v.busy # "")
    /\ OneIf(Mine(n, {"status"}), v.refreshing)
    /\ v.loading => Mine(n, {"account"}) # {}
    /\ v.codesLoading => Mine(n, {"codes"}) # {}
    /\ v.activationLoading => Mine(n, {"activation", "image"}) # {}
    /\ v.image = "loading" => Mine(n, {"image"}) # {}

AccFields == {"account", "section", "loading", "codesLoading", "activationLoading", "activation",
              "refreshing", "busy", "cooldownUntil", "image", "src", "tracked", "alive"}

AccountInv == /\ DOMAIN acc = AccFields
              /\ page = "account" => AccountFlags(net, acc)

AuthInv == /\ DOMAIN auth = {"csrf", "loading"}
           /\ IF page = "login" THEN OneIf(Mine(net, {"login"}), auth.loading)
              ELSE ~auth.loading

FlagInv == NetInv /\ RequestInv /\ AccountInv /\ AuthInv

(***************************************************************************)
(* The cooldown and the codes of the account page.                          *)
(***************************************************************************)
RestInv == /\ cooldown \in 0..Cooldown
           /\ rested = Cooldown - cooldown
           /\ page = "account" => acc.cooldownUntil = cooldown

Distinct(list) == \A i, j \in DOMAIN list : list[i] = list[j] => i = j

(* The list of codes and the ones that are not issued yet.                  *)
OwnOK(o) == /\ DOMAIN o = {"order", "used", "friend", "image", "unissued"}
            /\ o.order \in Seq(Codes) /\ Distinct(o.order)
            /\ o.unissued \subseteq Codes
            /\ \A i \in DOMAIN o.order : o.order[i] \notin o.unissued
            /\ o.used \in 0..DailyLimit

Listing(d) == /\ DOMAIN d = {"pending", "used", "image"}
              /\ d.pending \in Seq(Codes)
              /\ Distinct(d.pending)

(* What the server has answered about the codes.                            *)
TellsCodes(m) == m.status = "ok" => /\ m.op = "activation" => Listing(m.data)
                                    /\ m.op = "bill" => m.data.code \in Codes

CodesInv == /\ OwnOK(own)
            /\ acc.activation # None => Listing(acc.activation)
            /\ \A s \in Slots : TellsCodes(net[s])

(***************************************************************************)
(* The operations on the network.                                           *)
(***************************************************************************)
LEMMA IdleProper == ASSUME NEW p PROVE Proper(Idle, p)
BY DEF Proper, Idle, Answers

LEMMA FetchProper ==
    ASSUME NEW p \in Pages, NEW op \in OpsOf(p), NEW arg PROVE Proper(Fetch(op, arg), p)
BY DEF Proper, Fetch, OpsOf, Answers

(* A slot is given the request r.                                           *)
LEMMA PutProper ==
    ASSUME NEW n, DOMAIN n = Slots, NEW p, AllProper(n, p), NEW s \in Slots,
           NEW r, Proper(r, p)
    PROVE  AllProper([n EXCEPT ![s] = r], p)
BY DEF AllProper

LEMMA PutMine ==
    ASSUME NEW n, DOMAIN n = Slots, NEW s \in Slots, NEW r, NEW ops
    PROVE  Mine([n EXCEPT ![s] = r], ops) =
              IF r.op \in ops /\ r.owner = "page" THEN Mine(n, ops) \cup {s}
              ELSE Mine(n, ops) \ {s}
BY DEF Mine

LEMMA PutTagged ==
    ASSUME NEW n, DOMAIN n = Slots, NEW s \in Slots, NEW r, NEW ops, NEW tag
    PROVE  Tagged([n EXCEPT ![s] = r], ops, tag) =
              IF r.op \in ops /\ r.owner = "page" /\ r.arg = tag THEN Tagged(n, ops, tag) \cup {s}
              ELSE Tagged(n, ops, tag) \ {s}
BY DEF Mine, Tagged

(* The page's requests are the same, whatever has become of them.           *)
Kin(n, m) == /\ DOMAIN m = Slots
             /\ \A s \in Slots : /\ n[s].owner = "page" <=> m[s].owner = "page"
                                 /\ m[s].owner = "page" => /\ m[s].op = n[s].op
                                                           /\ m[s].arg = n[s].arg

LEMMA KinMine ==
    ASSUME NEW n, NEW m, Kin(n, m)
    PROVE  /\ \A ops : Mine(m, ops) = Mine(n, ops)
           /\ \A ops, tag : Tagged(m, ops, tag) = Tagged(n, ops, tag)
BY DEF Mine, Tagged, Kin

(* The invariant after a step, with the primes moved to the variables.      *)
LEMMA NextFlags ==
    ASSUME page' \in Pages, AllProper(net', page'),
           IF page' = "requests" THEN RequestFlags(net', req') ELSE AtRest(req'),
           DOMAIN acc' = AccFields, page' = "account" => AccountFlags(net', acc'),
           DOMAIN auth' = {"csrf", "loading"},
           IF page' = "login" THEN OneIf(Mine(net', {"login"}), auth'.loading) ELSE ~auth'.loading
    PROVE  FlagInv'
<1>1. NetInv'
  BY DEF NetInv, AllProper
<1>2. RequestInv'
  BY DEF RequestInv, RequestFlags, AtRest, OneIf, Writing, Mine, Tagged
<1>3. AccountInv'
  BY DEF AccountInv, AccountFlags, OneIf, Acting, Mine, Tagged
<1>4. AuthInv'
  BY DEF AuthInv, OneIf, Mine
<1> QED BY <1>1, <1>2, <1>3, <1>4 DEF FlagInv

LEMMA KinFlags ==
    ASSUME FlagInv, Kin(net, net'), AllProper(net', page'), UNCHANGED <<page, req, acc, auth>>
    PROVE  FlagInv'
<1>1. /\ \A ops : Mine(net', ops) = Mine(net, ops)
      /\ \A ops, tag : Tagged(net', ops, tag) = Tagged(net, ops, tag)
  BY KinMine
<1>2. Writing(net') = Writing(net) /\ Acting(net') = Acting(net)
  BY <1>1 DEF Writing, Acting
<1>3. IF page' = "requests" THEN RequestFlags(net', req') ELSE AtRest(req')
  BY <1>1, <1>2 DEF FlagInv, RequestInv, RequestFlags
<1>4. page' = "account" => AccountFlags(net', acc')
  BY <1>1, <1>2 DEF FlagInv, AccountInv, AccountFlags
<1>5. IF page' = "login" THEN OneIf(Mine(net', {"login"}), auth'.loading) ELSE ~auth'.loading
  BY <1>1 DEF FlagInv, AuthInv
<1> QED BY <1>3, <1>4, <1>5, NextFlags DEF FlagInv, NetInv, AccountInv, AuthInv

LEMMA NetShape == ASSUME Inv PROVE DOMAIN net = Slots /\ \A s \in Slots : DOMAIN net[s] = Fields
BY DEF Inv, NetOK, MessageOK

LEMMA FreeNotMine ==
    ASSUME FlagInv, NEW s \in Free(net) PROVE net[s].owner # "page"
BY DEF FlagInv, NetInv, AllProper, Proper, OpsOf, Free

(* The same request in the same slot, with another status.                  *)
LEMMA ProperAgain ==
    ASSUME NEW q, NEW p, Proper(q, p), q.op # "none", NEW r, r.op = q.op, r.owner = q.owner,
           r.status # "none", r.status \in {"none", "sent", "held"} \cup Answers
    PROVE  Proper(r, p)
BY DEF Proper

LEMMA RestatedKin ==
    ASSUME Inv, FlagInv, NEW s \in Slots, net[s].op # "none", NEW status \in {"held"} \cup Answers,
           NEW value
    PROVE  LET m == [net EXCEPT ![s].status = status, ![s].data = value]
           IN  Kin(net, m) /\ AllProper(m, page)
<1> DEFINE m == [net EXCEPT ![s].status = status, ![s].data = value]
<1> DEFINE r == [net[s] EXCEPT !.status = status, !.data = value]
<1>1. /\ r.op = net[s].op /\ r.owner = net[s].owner /\ r.arg = net[s].arg
      /\ r.status = status
  BY NetShape DEF Fields
<1>2. m = [net EXCEPT ![s] = r]
  BY NetShape
<1> HIDE DEF r, m
<1>3. Proper(net[s], page)
  BY DEF FlagInv, NetInv, AllProper
<1>4. status # "none" /\ status \in {"none", "sent", "held"} \cup Answers
  BY DEF Answers
<1>5. Proper(r, page)
  BY <1>1, <1>3, <1>4, ProperAgain
<1>6. AllProper(m, page)
  BY <1>2, <1>5, NetShape, PutProper DEF FlagInv, NetInv
<1>7. Kin(net, m)
  BY <1>1, <1>2, NetShape DEF Kin
<1> QED BY <1>6, <1>7 DEF m

LEMMA AnswerKin ==
    ASSUME Inv, FlagInv, NEW s \in Slots, net[s].op # "none", NEW status \in Answers,
           NEW value, Answer(s, status, value)
    PROVE  Kin(net, net') /\ AllProper(net', page)
<1>1. CASE net[s].owner = "page"
  BY <1>1, RestatedKin DEF Answer, Answered
<1>2. CASE net[s].owner # "page"
  <2>1. net' = [net EXCEPT ![s] = Idle]
    BY <1>2 DEF Answer, Answered
  <2>2. AllProper(net', page)
    BY <2>1, IdleProper, NetShape, PutProper DEF FlagInv, NetInv
  <2>3. Idle.owner # "page"
    BY DEF Idle
  <2> QED BY <1>2, <2>1, <2>2, <2>3, NetShape DEF Kin
<1> QED BY <1>1, <1>2

(* A request of nobody in a free slot of n.                                 *)
LEMMA OrphanKin ==
    ASSUME Inv, FlagInv, Free(net) # {}, NEW n, Kin(net, n), AllProper(n, page),
           Free(n) # {}, \A s \in Free(n) : n[s].owner # "page",
           NEW r, Proper(r, page), r.owner = "gone"
    PROVE  Kin(net, With(n, r)) /\ AllProper(With(n, r), page)
<1>1. PICK s \in Free(n) : With(n, r) = [n EXCEPT ![s] = r]
  BY DEF With
<1>2. s \in Slots /\ n[s].owner # "page" /\ DOMAIN n = Slots
  BY DEF Free, Kin
<1>3. AllProper([n EXCEPT ![s] = r], page)
  BY <1>2, PutProper
<1> QED BY <1>1, <1>2, <1>3 DEF Kin

LEMMA LostKin ==
    ASSUME Inv, FlagInv, NEW s \in Slots, Lost(s)
    PROVE  Kin(net, net') /\ AllProper(net', page)
<1> DEFINE failed == [net EXCEPT ![s].status = "failed", ![s].data = None]
           gone == [net[s] EXCEPT !.owner = "gone"]
           r == [net[s] EXCEPT !.status = "failed", !.data = None]
<1>1. /\ r.op = net[s].op /\ r.owner = net[s].owner /\ r.arg = net[s].arg
      /\ r.status = "failed"
      /\ gone.op = net[s].op /\ gone.owner = "gone" /\ gone.status = net[s].status
  BY NetShape DEF Fields
<1>2. failed = [net EXCEPT ![s] = r]
  BY NetShape
<1>3. Proper(net[s], page) /\ net[s].status # "none"
  BY DEF FlagInv, NetInv, AllProper, Lost
<1>4. \/ net' = failed
      \/ Free(net) # {} /\ net' = With(failed, gone)
  BY DEF Lost
<1> HIDE DEF failed, gone, r
<1>5. Proper(r, page) /\ Proper(gone, page)
  BY <1>1, <1>3 DEF Proper, Answers
<1>6. Kin(net, failed) /\ AllProper(failed, page)
  <2>1. AllProper(failed, page)
    BY <1>2, <1>5, NetShape, PutProper DEF FlagInv, NetInv
  <2> QED BY <1>1, <1>2, <2>1, NetShape DEF Kin
<1>7. CASE Free(net) # {} /\ net' = With(failed, gone)
  <2>1. Free(failed) = Free(net)
    BY <1>1, <1>2, <1>3, NetShape DEF Free, Proper
  <2>2. \A q \in Free(failed) : failed[q].owner # "page"
    BY <1>6, <2>1, FreeNotMine DEF Kin, Free
  <2> QED BY <1>1, <1>5, <1>6, <1>7, <2>1, <2>2, OrphanKin
<1> QED BY <1>4, <1>6, <1>7

LEMMA OtherDeviceKin ==
    ASSUME Inv, FlagInv, OtherDevice
    PROVE  Kin(net, net') /\ AllProper(net', page)
<1>1. PICK op \in {"create", "season"} : \E arg : Send(Elsewhere(op, arg))
  BY DEF OtherDevice
<1>2. PICK arg : Send(Elsewhere(op, arg))
  BY <1>1
<1> DEFINE r == Elsewhere(op, arg)
<1>3. Proper(r, page) /\ r.owner = "gone"
  BY DEF Elsewhere, Fetch, Proper, Answers
<1>4. Free(net) # {} /\ net' = With(net, r)
  BY <1>2 DEF Send
<1> HIDE DEF r
<1>5. Kin(net, net) /\ AllProper(net, page) /\ \A s \in Free(net) : net[s].owner # "page"
  BY NetShape, FreeNotMine DEF Kin, FlagInv, NetInv
<1> QED BY <1>3, <1>4, <1>5, OrphanKin

LEMMA ServeKin ==
    ASSUME Inv, FlagInv, NEW s \in Slots, Serve(s)
    PROVE  Kin(net, net') /\ AllProper(net', page)
<1>1. {"ok", "refused"} \subseteq Answers
  BY DEF Answers
<1>2. CASE ServerStep(s)
  <2>1. net[s].op # "none"
    BY <1>2 DEF ServerStep, CreateBegin, CreateEnd, AddSeasonBegin, AddSeasonEnd, ServeRead, Arrived
  <2>2. CASE \E value : Answer(s, "ok", value) \/ Answer(s, "refused", value)
    BY <1>1, <2>1, <2>2, AnswerKin
  <2>3. ASSUME NEW value, Hold(s, value)
        PROVE  Kin(net, net') /\ AllProper(net', page)
    <3>1. "held" \in {"held"} \cup Answers
      OBVIOUS
    <3> QED BY <2>1, <2>3, <3>1, RestatedKin, Zenon DEF Hold
  <2>4. \/ \E value : Answer(s, "ok", value) \/ Answer(s, "refused", value)
        \/ \E value : Hold(s, value)
    <3>1. CASE CreateBegin(s) \/ AddSeasonBegin(s)
      BY <3>1 DEF CreateBegin, AddSeasonBegin
    <3>2. CASE CreateEnd(s) \/ AddSeasonEnd(s)
      BY <3>2 DEF CreateEnd, AddSeasonEnd
    <3>3. CASE ServeRead(s)
      BY <3>3 DEF ServeRead, ServeRow
    <3> QED BY <1>2, <3>1, <3>2, <3>3 DEF ServerStep
  <2> QED BY <2>2, <2>3, <2>4
<1>3. CASE OwnServerStep(s)
  <2>1. net[s].op # "none"
    BY <1>3 DEF OwnServerStep, ServeAccount, ServeAction, Arrived
  <2>2. PICK status \in {"ok", "refused"} : \E value : Answer(s, status, value)
    BY <1>3 DEF OwnServerStep, ServeAccount, ServeAction
  <2> QED BY <1>1, <2>1, <2>2, AnswerKin
<1>4. CASE ServeSession(s)
  BY <1>1, <1>4, AnswerKin DEF ServeSession, Arrived
<1> QED BY <1>2, <1>3, <1>4 DEF Serve

(***************************************************************************)
(* Page loads.                                                              *)
(***************************************************************************)
LEMMA AbandonedGone ==
    ASSUME Inv, FlagInv, NEW p
    PROVE  /\ DOMAIN Abandoned = Slots
           /\ AllProper(Abandoned, p)
           /\ \A s \in Slots : Abandoned[s].owner # "page"
<1>1. ASSUME NEW s \in Slots
      PROVE  Proper(Abandoned[s], p) /\ Abandoned[s].owner # "page"
  <2>1. Proper(net[s], page)
    BY DEF FlagInv, NetInv, AllProper
  <2>2. CASE net[s].status \notin Answers /\ InFlight(s)
    <3> DEFINE r == [net[s] EXCEPT !.owner = "gone"]
    <3>1. r.op = net[s].op /\ r.owner = "gone" /\ r.status = net[s].status
      BY NetShape DEF Fields
    <3>2. Abandoned[s] = r
      BY <2>2 DEF Abandoned
    <3> HIDE DEF r
    <3> QED BY <2>1, <3>1, <3>2 DEF Proper
  <2>3. CASE net[s].status \in Answers
    <3>1. Abandoned[s] = Idle
      BY <2>3 DEF Abandoned
    <3> QED BY <3>1, IdleProper DEF Idle
  <2>4. CASE net[s].status \notin Answers /\ ~InFlight(s)
    <3>1. Abandoned[s] = net[s] /\ net[s].op = "none"
      BY <2>4 DEF Abandoned, InFlight
    <3>2. net[s].owner # "page"
      BY <2>1, <3>1 DEF Proper, OpsOf
    <3> QED BY <2>1, <3>1, <3>2 DEF Proper
  <2> QED BY <2>2, <2>3, <2>4
<1> QED BY <1>1 DEF AllProper, Abandoned

(* A page whose first and only request is r, on a network with no other.    *)
LEMMA OnlyRequest ==
    ASSUME NEW n, DOMAIN n = Slots, NEW p, AllProper(n, p), \A q \in Slots : n[q].owner # "page",
           NEW s \in Free(n), NEW r, Proper(r, p)
    PROVE  /\ AllProper(With(n, r), p)
           /\ \A ops : r.op \notin ops => Mine(With(n, r), ops) = {}
<1>1. PICK t \in Slots : With(n, r) = [n EXCEPT ![t] = r]
  BY DEF With, Free
<1>2. AllProper(With(n, r), p)
  BY <1>1 DEF AllProper
<1>3. ASSUME NEW ops, r.op \notin ops PROVE Mine(With(n, r), ops) = {}
  BY <1>1, <1>3 DEF Mine
<1> QED BY <1>2, <1>3

(* The login page is loaded from the slot s of another one.                 *)
LEMMA LoginLoaded ==
    ASSUME Inv, FlagInv, NEW s \in Slots, net[s].status \in Answers,
           page' = "login", net' = With(Abandoned, Fetch("csrf", None)), AtRest(req'),
           DOMAIN acc' = AccFields, UNCHANGED auth, ~auth.loading
    PROVE  FlagInv'
<1> DEFINE r == Fetch("csrf", None)
           n == Abandoned
<1>1. s \in Free(n)
  BY DEF Free, Abandoned, Idle
<1>2. Proper(r, "login") /\ r.op = "csrf"
  BY DEF Proper, Fetch, OpsOf, Answers
<1>3. DOMAIN n = Slots /\ AllProper(n, "login") /\ \A q \in Slots : n[q].owner # "page"
  BY AbandonedGone
<1>4. net' = With(n, r)
  OBVIOUS
<1> HIDE DEF r, n
<1>5. AllProper(With(n, r), "login") /\ \A ops : r.op \notin ops => Mine(With(n, r), ops) = {}
  BY <1>1, <1>2, <1>3, OnlyRequest
<1>6. AllProper(net', page') /\ Mine(net', {"login"}) = {}
  BY <1>2, <1>4, <1>5
<1>7. DOMAIN auth' = {"csrf", "loading"} /\ ~auth'.loading
  BY DEF FlagInv, AuthInv
<1> QED BY <1>6, <1>7, NextFlags DEF OneIf, Pages

LEMMA PlaceExists ==
    ASSUME NEW F, IsFiniteSet(F), NEW k \in Nat, k <= Cardinality(F)
    PROVE  \E f \in [1..k -> F] : IsInjective(f)
<1>1. PICK g \in [1..Cardinality(F) -> F] : IsInjective(g)
  BY FS_CardinalityType DEF ExistsBijection, Bijection, Injection
<1>2. Cardinality(F) \in Nat
  BY FS_CardinalityType
<1>3. [i \in 1..k |-> g[i]] \in [1..k -> F]
  BY <1>1, <1>2
<1>4. IsInjective([i \in 1..k |-> g[i]])
  BY <1>1, <1>2 DEF IsInjective
<1> QED BY <1>3, <1>4

(* The first requests of a page are each in a slot that was free.           *)
LEMMA PlacedSlots ==
    ASSUME NEW n, DOMAIN n = Slots, NEW k \in Nat, NEW starts, DOMAIN starts = 1..k,
           k <= Cardinality(Free(n))
    PROVE  /\ DOMAIN Placed(n, starts) = Slots
           /\ \A i \in 1..k : \E s \in Free(n) : Placed(n, starts)[s] = starts[i]
           /\ \A s \in Slots : \/ Placed(n, starts)[s] = n[s]
                               \/ \E i \in 1..k : Placed(n, starts)[s] = starts[i]
<1> DEFINE place == CHOOSE f \in [1..k -> Free(n)] : IsInjective(f)
<1>1. IsFiniteSet(Free(n)) /\ Free(n) \subseteq Slots
  <2>1. IsFiniteSet(Slots)
    BY FS_Interval, BrowserAssumption DEF Slots
  <2> QED BY <2>1, FS_Subset DEF Free
<1>2. place \in [1..k -> Free(n)] /\ IsInjective(place)
  BY <1>1, PlaceExists
<1>3. Placed(n, starts) =
         [s \in Slots |-> IF \E i \in 1..k : place[i] = s
                          THEN starts[CHOOSE i \in 1..k : place[i] = s] ELSE n[s]]
  BY DEF Placed
<1> HIDE DEF place
<1>4. ASSUME NEW i \in 1..k
      PROVE  Placed(n, starts)[place[i]] = starts[i] /\ place[i] \in Free(n)
  <2>1. place[i] \in Slots /\ place[i] \in Free(n)
    BY <1>1, <1>2
  <2>2. (CHOOSE j \in 1..k : place[j] = place[i]) = i
    BY <1>2 DEF IsInjective
  <2> QED BY <1>3, <2>1, <2>2
<1>5. ASSUME NEW s \in Slots, NEW i \in 1..k, place[i] = s
      PROVE  Placed(n, starts)[s] = starts[i]
  BY <1>4, <1>5
<1> QED BY <1>3, <1>4, <1>5

LEMMA NoAccountFields ==
    ASSUME NEW sec
    PROVE  DOMAIN FreshAccount(sec) = AccFields /\ DOMAIN NoAccount = AccFields
BY DEF FreshAccount, NoAccount, AccFields

(* A page is loaded, from a link or after the sign-in.                      *)
LEMMA MountFlags ==
    ASSUME Inv, FlagInv, NEW p \in Pages, NEW sec \in Sections, Mount(p, sec)
    PROVE  FlagInv'
<1> DEFINE one    == Fetch("account", None)
           two    == Fetch("activation", "")
           three  == Fetch("codes", "")
           token  == Fetch("csrf", None)
           starts == OnMounted(p, sec)
           n      == Abandoned
<1>1. /\ one.op = "account" /\ one.owner = "page"
      /\ two.op = "activation" /\ two.owner = "page" /\ two.arg = ""
      /\ three.op = "codes" /\ three.owner = "page" /\ three.arg = ""
      /\ token.op = "csrf" /\ token.owner = "page"
  BY DEF Fetch
<1>2. /\ p = "account" => Proper(one, p) /\ Proper(two, p) /\ Proper(three, p)
      /\ p # "account" => Proper(token, p)
  BY FetchProper DEF OpsOf, Pages
<1>3. IF p = "account"
      THEN IF sec = "activation" THEN starts = <<one, two, three>>
           ELSE IF sec = "scan" THEN starts = <<one, two>> ELSE starts = <<one>>
      ELSE starts = <<token>>
  BY DEF OnMounted, MountRequests
<1>4. /\ DOMAIN n = Slots /\ AllProper(n, p)
      /\ \A s \in Slots : n[s].owner # "page"
  BY AbandonedGone
<1>5. net' = Placed(n, starts) /\ Len(starts) <= Cardinality(Free(n))
  BY DEF Mount
<1> HIDE DEF one, two, three, token, starts, n
<1>6. PICK k \in 1..3 : DOMAIN starts = 1..k /\ k <= Cardinality(Free(n))
  <2>1. /\ starts = <<one>> \/ starts = <<token>> => DOMAIN starts = 1..1 /\ Len(starts) = 1
        /\ starts = <<one, two>> => DOMAIN starts = 1..2 /\ Len(starts) = 2
        /\ starts = <<one, two, three>> => DOMAIN starts = 1..3 /\ Len(starts) = 3
    OBVIOUS
  <2>2. 1 \in 1..3 /\ 2 \in 1..3 /\ 3 \in 1..3
    OBVIOUS
  <2> QED BY <1>3, <1>5, <2>1, <2>2, Zenon
<1>7. /\ DOMAIN net' = Slots
      /\ \A i \in 1..k : \E s \in Slots : net'[s] = starts[i]
      /\ \A s \in Slots : net'[s] = n[s] \/ \E i \in 1..k : net'[s] = starts[i]
  BY <1>4, <1>5, <1>6, PlacedSlots DEF Free
<1>8. \A i \in 1..k : Proper(starts[i], p)
  BY <1>2, <1>3, <1>6
<1>9. AllProper(net', p)
  BY <1>4, <1>7, <1>8 DEF AllProper
<1>10. page' = p /\ req' = FreshPage /\ auth' = FreshAuth
       /\ acc' = IF p = "account" THEN FreshAccount(sec) ELSE NoAccount
  BY DEF Mount
<1>11. AtRest(req')
  BY <1>10 DEF AtRest, FreshPage
<1>12. ASSUME NEW s \in Slots, net'[s].owner = "page"
       PROVE  \E i \in 1..k : net'[s] = starts[i]
  BY <1>4, <1>7, <1>12
<1>13. CASE p = "account"
  <2>1. \A s \in Slots : net'[s].owner = "page" => net'[s] \in {one, two, three}
    BY <1>3, <1>6, <1>12, <1>13
  <2>2. Acting(net') = {} /\ Mine(net', {"status"}) = {}
    BY <2>1, <1>1 DEF Acting, Mine, Tagged
  <2>3. Mine(net', {"account"}) # {}
    <3>1. \E s \in Slots : net'[s] = one
      BY <1>3, <1>6, <1>7, <1>13
    <3> QED BY <3>1, <1>1 DEF Mine
  <2>4. sec \in {"activation", "scan"} => Mine(net', {"activation", "image"}) # {}
    <3>1. sec \in {"activation", "scan"} => \E s \in Slots : net'[s] = two
      BY <1>3, <1>6, <1>7, <1>13
    <3> QED BY <3>1, <1>1 DEF Mine
  <2>5. sec = "activation" => Mine(net', {"codes"}) # {}
    <3>1. sec = "activation" => \E s \in Slots : net'[s] = three
      BY <1>3, <1>6, <1>7, <1>13
    <3> QED BY <3>1, <1>1 DEF Mine
  <2>6. AccountFlags(net', FreshAccount(sec))
    <3> DEFINE v == FreshAccount(sec)
    <3>1. /\ v.busy = "" /\ v.refreshing = FALSE /\ v.image = "idle"
          /\ v.codesLoading <=> sec = "activation"
          /\ v.activationLoading <=> sec \in {"activation", "scan"}
      BY DEF FreshAccount
    <3> HIDE DEF v
    <3>2. AccountFlags(net', v)
      BY <2>2, <2>3, <2>4, <2>5, <3>1 DEF AccountFlags, OneIf
    <3> QED BY <3>2 DEF v
  <2>7. page' # "requests" /\ page' # "login"
    BY <1>10, <1>13
  <2> QED BY <1>9, <1>10, <1>11, <1>13, <2>6, <2>7, NoAccountFields, NextFlags DEF FreshAuth
<1>14. CASE p # "account"
  <2>1. \A s \in Slots : net'[s].owner = "page" => net'[s] = token
    BY <1>3, <1>6, <1>12, <1>14
  <2>2. \A ops : "csrf" \notin ops => Mine(net', ops) = {}
    BY <2>1, <1>1 DEF Mine
  <2>3. Writing(net') = {} /\ Mine(net', {"login"}) = {}
    BY <2>2 DEF Writing, Tagged
  <2>4. RequestFlags(net', req')
    BY <1>11, <2>3 DEF RequestFlags, AtRest, OneIf
  <2>5. OneIf(Mine(net', {"login"}), auth'.loading) /\ ~auth'.loading
    BY <1>10, <2>3 DEF OneIf, FreshAuth
  <2> QED BY <1>9, <1>10, <1>11, <1>14, <2>4, <2>5, NoAccountFields, NextFlags DEF FreshAuth
<1> QED BY <1>13, <1>14

(***************************************************************************)
(* The request page.                                                        *)
(***************************************************************************)
Asks(r, ops) == r.owner = "page" /\ r.op \in ops

Writes(r) == Asks(r, {"create", "season"}) \/ (Asks(r, {"lists"}) /\ r.arg = "submit")

(* What becomes of the flags when the request q in a slot gives way to r.   *)
RequestTurn(q, r, v, w) ==
    /\ w.submitting <=> Writes(r) \/ (v.submitting /\ ~Writes(q))
    /\ Writes(r) => Writes(q) \/ ~v.submitting
    /\ w.listsLoading => Asks(r, {"lists"}) \/ (v.listsLoading /\ ~Asks(q, {"lists"}))
    /\ w.detailLoading => Asks(r, {"row", "work"})
                          \/ (v.detailLoading /\ ~Asks(q, {"row", "work"}))
    /\ w.loading => Asks(r, {"search"}) \/ (v.loading /\ ~Asks(q, {"search"}))
    /\ w.logoutBusy => Asks(r, {"logout"}) \/ (v.logoutBusy /\ ~Asks(q, {"logout"}))

LEMMA SpinnerTurn ==
    ASSUME NEW n, DOMAIN n = Slots, NEW t \in Slots, NEW r, NEW ops,
           Asks(r, ops) \/ (Mine(n, ops) # {} /\ ~Asks(n[t], ops))
    PROVE  Mine([n EXCEPT ![t] = r], ops) # {}
BY DEF Mine, Asks

LEMMA WritingTurn ==
    ASSUME NEW n, DOMAIN n = Slots, NEW t \in Slots, NEW r
    PROVE  Writing([n EXCEPT ![t] = r]) =
              IF Writes(r) THEN Writing(n) \cup {t} ELSE Writing(n) \ {t}
BY DEF Writing, Writes, Asks, Mine, Tagged

LEMMA WritingMember ==
    ASSUME NEW n, NEW t \in Slots PROVE t \in Writing(n) <=> Writes(n[t])
BY DEF Writing, Writes, Asks, Mine, Tagged

(* One slot joins or leaves a set of at most one.                           *)
LEMMA OneTurn ==
    ASSUME NEW S, NEW t
    PROVE  /\ S = {} => \E x \in S \cup {t} : S \cup {t} = {x}
           /\ (\E x \in S : S = {x}) /\ t \in S => S \ {t} = {} /\ S \cup {t} = S
           /\ t \notin S => S \ {t} = S
OBVIOUS

LEMMA RequestTurns ==
    ASSUME NEW n, DOMAIN n = Slots, NEW v, RequestFlags(n, v), NEW t \in Slots, NEW r, NEW w,
           RequestTurn(n[t], r, v, w)
    PROVE  RequestFlags([n EXCEPT ![t] = r], w)
<1> DEFINE m == [n EXCEPT ![t] = r]
<1>1. OneIf(Writing(m), w.submitting)
  <2>1. t \in Writing(n) <=> Writes(n[t])
    BY WritingMember
  <2>2. Writing(m) = IF Writes(r) THEN Writing(n) \cup {t} ELSE Writing(n) \ {t}
    BY WritingTurn
  <2>3. /\ IF v.submitting THEN \E x \in Writing(n) : Writing(n) = {x} ELSE Writing(n) = {}
        /\ w.submitting <=> Writes(r) \/ (v.submitting /\ t \notin Writing(n))
        /\ Writes(r) => t \in Writing(n) \/ ~v.submitting
    BY <2>1 DEF RequestFlags, RequestTurn, OneIf
  <2> HIDE DEF m
  <2>4. CASE Writes(r)
    <3>1. v.submitting => Writing(m) = Writing(n)
      BY <2>2, <2>3, <2>4, OneTurn
    <3> QED BY <2>2, <2>3, <2>4, <3>1, OneTurn DEF OneIf
  <2>5. CASE ~Writes(r) /\ t \in Writing(n)
    BY <2>2, <2>3, <2>5, OneTurn DEF OneIf
  <2>6. CASE ~Writes(r) /\ t \notin Writing(n)
    <3>1. Writing(m) = Writing(n)
      BY <2>2, <2>6, OneTurn
    <3> QED BY <2>3, <2>6, <3>1 DEF OneIf
  <2> QED BY <2>4, <2>5, <2>6
<1>2. /\ w.listsLoading => Mine(m, {"lists"}) # {}
      /\ w.detailLoading => Mine(m, {"row", "work"}) # {}
      /\ w.loading => Mine(m, {"search"}) # {}
      /\ w.logoutBusy => Mine(m, {"logout"}) # {}
  BY SpinnerTurn DEF RequestFlags, RequestTurn
<1> QED BY <1>1, <1>2 DEF RequestFlags

ViewFields == {"tab", "results", "selected", "visible", "picked", "chosen", "lists", "csrf",
               "requestKey", "loading", "listsLoading", "detailLoading", "submitting",
               "logoutBusy"}

LEMMA ViewShape == ASSUME Inv PROVE DOMAIN req = ViewFields
BY DEF Inv, PageOK, CardsOK, PageType, ViewFields

SameFlags(v, w) == /\ w.submitting = v.submitting /\ w.listsLoading = v.listsLoading
                   /\ w.detailLoading = v.detailLoading /\ w.loading = v.loading
                   /\ w.logoutBusy = v.logoutBusy

LEMMA ShownFlags ==
    ASSUME NEW v, DOMAIN v = ViewFields, NEW x
    PROVE  SameFlags(v, Shown(v, x)) /\ DOMAIN Shown(v, x) = ViewFields
BY DEF SameFlags, Shown, ViewFields

(* A step of the request page that gives the slot t the request r, ...      *)
LEMMA RequestPut ==
    ASSUME Inv, FlagInv, page = "requests", UNCHANGED <<page, acc, auth>>,
           NEW t \in Slots, NEW r, Proper(r, page), net' = [net EXCEPT ![t] = r],
           RequestTurn(net[t], r, req, req')
    PROVE  FlagInv'
<1> DEFINE m == [net EXCEPT ![t] = r]
<1>1. RequestFlags(m, req')
  BY NetShape, RequestTurns DEF FlagInv, RequestInv
<1>2. AllProper(m, page)
  BY NetShape, PutProper DEF FlagInv, NetInv
<1>3. net' = m
  OBVIOUS
<1> HIDE DEF m
<1>4. page' = "requests" /\ page' \in Pages /\ AllProper(net', page') /\ RequestFlags(net', req')
  BY <1>1, <1>2, <1>3 DEF Pages
<1>5. DOMAIN acc' = AccFields /\ DOMAIN auth' = {"csrf", "loading"} /\ ~auth'.loading
  BY DEF FlagInv, AccountInv, AuthInv
<1> QED BY <1>4, <1>5, NextFlags

(* ... and one that sends nothing.                                          *)
LEMMA RequestStill ==
    ASSUME FlagInv, page = "requests", UNCHANGED <<page, net, acc, auth>>, SameFlags(req, req')
    PROVE  FlagInv'
<1>1. RequestFlags(net', req')
  BY DEF FlagInv, RequestInv, RequestFlags, SameFlags
<1> QED BY <1>1, NextFlags DEF FlagInv, NetInv, AccountInv, AuthInv

LEMMA SentSlot ==
    ASSUME FlagInv, NEW r, Send(r)
    PROVE  \E t \in Slots : /\ net' = [net EXCEPT ![t] = r]
                            /\ net[t].op = "none" /\ net[t].owner # "page"
BY FreeNotMine DEF Send, With, Free

(* A click: nothing is lost, and r is new.                                  *)
LEMMA RequestSent ==
    ASSUME Inv, FlagInv, page = "requests", UNCHANGED <<page, acc, auth>>,
           NEW op \in OpsOf("requests"), NEW arg, Send(Fetch(op, arg)),
           op \in {"create", "season"} =>  ~req.submitting,
           op = "lists" => arg = "load",
           req'.submitting <=> req.submitting \/ op \in {"create", "season"},
           req'.listsLoading => op = "lists" \/ req.listsLoading,
           req'.detailLoading => op \in {"row", "work"} \/ req.detailLoading,
           req'.loading => op = "search" \/ req.loading,
           req'.logoutBusy => op = "logout" \/ req.logoutBusy
    PROVE  FlagInv'
<1> DEFINE r == Fetch(op, arg)
<1>1. r.op = op /\ r.owner = "page" /\ r.arg = arg
  BY DEF Fetch
<1>2. Proper(r, page)
  BY FetchProper DEF Pages
<1> HIDE DEF r
<1>3. PICK t \in Slots : net' = [net EXCEPT ![t] = r] /\ net[t].owner # "page"
  BY SentSlot DEF r
<1>4. RequestTurn(net[t], r, req, req')
  BY <1>1, <1>3 DEF RequestTurn, Writes, Asks
<1> QED BY <1>2, <1>3, <1>4, RequestPut

LEMMA RequestClickFlags ==
    ASSUME Inv, FlagInv, RequestClick, UNCHANGED <<accountVars, auth>> PROVE FlagInv'
<1>0. page = "requests" /\ UNCHANGED <<page, acc, auth>> /\ DOMAIN req = ViewFields
  BY ViewShape DEF RequestClick, RefreshLists, Search, CloseDetailDialog, Subscribe, LogoutHere,
        ChangeTab, Select, SubscribeSeason, clickVars, browserVars, answerVars, accountVars
<1>1. CASE RefreshLists
  BY <1>0, <1>1, RequestSent DEF RefreshLists, OpsOf, ViewFields
<1>2. CASE Search
  <2> DEFINE v == Closed(req)
  <2>0. DOMAIN v = ViewFields /\ SameFlags(req, v)
    BY <1>0 DEF Closed, SameFlags, ViewFields
  <2>1. \/ UNCHANGED net /\ req' = [v EXCEPT !.selected = None, !.results = {}]
        \/ Send(Fetch("search", None)) /\ req' = [v EXCEPT !.selected = None, !.loading = TRUE]
    BY <1>2 DEF Search
  <2> HIDE DEF v
  <2>2. CASE UNCHANGED net /\ req' = [v EXCEPT !.selected = None, !.results = {}]
    BY <1>0, <2>0, <2>2, RequestStill DEF SameFlags, ViewFields
  <2>3. CASE Send(Fetch("search", None)) /\ req' = [v EXCEPT !.selected = None, !.loading = TRUE]
    BY <1>0, <2>0, <2>3, RequestSent DEF OpsOf, SameFlags, ViewFields
  <2> QED BY <2>1, <2>2, <2>3
<1>3. CASE CloseDetailDialog
  BY <1>0, <1>3, RequestStill DEF CloseDetailDialog, Closed, browserVars, SameFlags, ViewFields
<1>4. CASE LogoutHere
  BY <1>0, <1>4, RequestSent DEF LogoutHere, OpsOf, ViewFields
<1>5. ASSUME NEW t \in Tabs, ChangeTab(t) PROVE FlagInv'
  <2>1. CASE UNCHANGED net /\ req' = [req EXCEPT !.tab = t]
    BY <1>0, <2>1, RequestStill DEF SameFlags, ViewFields
  <2>2. CASE Send(Fetch("lists", "load")) /\ req' = [req EXCEPT !.tab = t, !.listsLoading = TRUE]
    BY <1>0, <2>2, RequestSent DEF OpsOf, ViewFields
  <2> QED BY <1>5, <2>1, <2>2 DEF ChangeTab
<1>6. ASSUME NEW x \in ActiveList, Select(x) PROVE FlagInv'
  <2> DEFINE v == [req EXCEPT !.visible = TRUE, !.chosen = {}, !.detailLoading = TRUE]
  <2>1. DOMAIN v = ViewFields /\ v.submitting = req.submitting /\ v.detailLoading = TRUE
        /\ v.listsLoading = req.listsLoading /\ v.loading = req.loading
        /\ v.logoutBusy = req.logoutBusy
    BY <1>0 DEF ViewFields
  <2>2. req' = Shown(v, x)
    BY <1>6 DEF Select
  <2>3. PICK op \in {"work", "row"} : \E arg : Send(Fetch(op, arg))
    BY <1>6 DEF Select
  <2> HIDE DEF v
  <2>4. SameFlags(v, req')
    BY <2>1, <2>2, ShownFlags
  <2>5. op \in OpsOf("requests")
    BY DEF OpsOf
  <2> QED BY <1>0, <2>1, <2>3, <2>4, <2>5, RequestSent DEF SameFlags
<1>7. ASSUME NEW override, SubmitRequest(override), ~req.submitting PROVE FlagInv'
  <2> DEFINE there == [req EXCEPT !.chosen = IF override = {} THEN req.chosen ELSE override]
  <2>1. \/ req' = there /\ UNCHANGED net
        \/ req' = [there EXCEPT !.submitting = TRUE] /\ \E arg : Send(Fetch("season", arg))
        \/ /\ req' = [there EXCEPT !.submitting = TRUE, !.requestKey = req.selected.key]
           /\ \E arg : Send(Fetch("create", arg))
    BY <1>7 DEF SubmitRequest
  <2>2. SameFlags(req, there) /\ DOMAIN there = ViewFields
    BY <1>0 DEF SameFlags, ViewFields
  <2> HIDE DEF there
  <2>3. CASE req' = there /\ UNCHANGED net
    BY <1>0, <2>2, <2>3, RequestStill
  <2>4. CASE req' # there \/ ~UNCHANGED net
    <3>1. PICK op \in {"season", "create"} : \E arg : Send(Fetch(op, arg))
      BY <2>1, <2>4
    <3>2. /\ req'.submitting /\ req'.listsLoading = there.listsLoading
          /\ req'.detailLoading = there.detailLoading /\ req'.loading = there.loading
          /\ req'.logoutBusy = there.logoutBusy
      BY <2>1, <2>2, <2>4 DEF ViewFields
    <3>3. op \in OpsOf("requests")
      BY DEF OpsOf
    <3> QED BY <1>0, <1>7, <2>2, <3>1, <3>2, <3>3, RequestSent DEF SameFlags
  <2> QED BY <2>3, <2>4
<1>8. CASE Subscribe
  BY <1>7, <1>8 DEF Subscribe, CanWrite
<1>9. ASSUME NEW n, SubscribeSeason(n) PROVE FlagInv'
  <2>1. CASE SubmitRequest({n})
    BY <1>7, <1>9, <2>1 DEF SubscribeSeason, CanWrite
  <2>2. CASE ~SubmitRequest({n})
    <3>1. PICK arg : Send(Fetch("season", arg))
      BY <1>9, <2>2 DEF SubscribeSeason
    <3>2. req' = [req EXCEPT !.submitting = TRUE] /\ ~req.submitting
      BY <1>9, <2>2 DEF SubscribeSeason, CanWrite
    <3> QED BY <1>0, <3>1, <3>2, RequestSent DEF OpsOf, ViewFields
  <2> QED BY <2>1, <2>2
<1> QED BY <1>1, <1>2, <1>3, <1>4, <1>5, <1>6, <1>8, <1>9 DEF RequestClick

(* An answer that the request page takes, and what it sends then.           *)
LEMMA RequestReady ==
    ASSUME FlagInv, NEW s \in Slots, NEW op, Ready(s, op),
           op \in {"lists", "search", "row", "work", "create", "season"}
    PROVE  page = "requests"
BY DEF FlagInv, NetInv, AllProper, Proper, OpsOf, Pages, Ready

LEMMA RequestSettled ==
    ASSUME Inv, FlagInv, page = "requests", UNCHANGED <<page, acc, auth>>,
           NEW s \in Slots, Settle(s), RequestTurn(net[s], Idle, req, req')
    PROVE  FlagInv'
BY IdleProper, RequestPut DEF Settle, Settled

LEMMA RequestFollowed ==
    ASSUME Inv, FlagInv, page = "requests", UNCHANGED <<page, acc, auth>>,
           NEW s \in Slots, NEW op \in OpsOf("requests"), NEW arg, Follow(s, Fetch(op, arg)),
           RequestTurn(net[s], Fetch(op, arg), req, req')
    PROVE  FlagInv'
<1> DEFINE r == Fetch(op, arg)
<1>1. Proper(r, page)
  BY FetchProper DEF Pages
<1>2. net' = [net EXCEPT ![s] = r]
  BY DEF Follow
<1>3. RequestTurn(net[s], r, req, req')
  OBVIOUS
<1> HIDE DEF r
<1> QED BY <1>1, <1>2, <1>3, RequestPut

(* A write that is under way keeps the page busy.                           *)
LEMMA WriterBusy ==
    ASSUME FlagInv, page = "requests", NEW s \in Slots, Writes(net[s])
    PROVE  req.submitting
<1>1. s \in Writing(net)
  BY WritingMember
<1> QED BY <1>1 DEF FlagInv, RequestInv, RequestFlags, OneIf

LEMMA StaleFlags ==
    ASSUME Inv, FlagInv
    PROVE  LET n == StaleEntries(net)
           IN  /\ DOMAIN n = Slots /\ AllProper(n, page)
               /\ \A s \in Slots : net[s].op # "row" => n[s] = net[s]
               /\ RequestFlags(net, req) => RequestFlags(n, req)
<1> DEFINE n == StaleEntries(net)
<1>1. DOMAIN n = Slots /\ \A s \in Slots : net[s].op # "row" => n[s] = net[s]
  BY DEF StaleEntries
<1>2. ASSUME NEW s \in Slots
      PROVE  n[s].op = net[s].op /\ n[s].owner = net[s].owner /\ n[s].status = net[s].status
  BY NetShape DEF StaleEntries, Fields
<1>3. AllProper(n, page)
  <2> HIDE DEF n
  <2> QED BY <1>2 DEF FlagInv, NetInv, AllProper, Proper
<1>4. \A ops : Mine(n, ops) = Mine(net, ops)
  <2> HIDE DEF n
  <2> QED BY <1>2 DEF Mine
<1>5. Writing(n) = Writing(net)
  <2> HIDE DEF n
  <2> QED BY <1>1, <1>2 DEF Writing, Mine, Tagged
<1> HIDE DEF n
<1>6. RequestFlags(net, req) => RequestFlags(n, req)
  BY <1>4, <1>5 DEF RequestFlags
<1> QED BY <1>1, <1>3, <1>6 DEF n

LEMMA ListsFlags ==
    ASSUME Inv, FlagInv, NEW s \in Slots, DeliverLists(s), UNCHANGED <<accountVars, auth>>
    PROVE  FlagInv'
<1> DEFINE n == IF Succeeded(s) THEN StaleEntries(net) ELSE net
<1>1. /\ page = "requests" /\ UNCHANGED <<page, acc, auth>> /\ DOMAIN req = ViewFields
      /\ net[s].op = "lists" /\ net[s].owner = "page"
  BY RequestReady, ViewShape DEF DeliverLists, Ready, accountVars, answerVars, clickVars
<1>2. /\ DOMAIN n = Slots /\ AllProper(n, page) /\ n[s] = net[s] /\ RequestFlags(n, req)
  <2>1. CASE Succeeded(s)
    BY <1>1, <2>1, StaleFlags DEF FlagInv, RequestInv
  <2>2. CASE ~Succeeded(s)
    BY <1>1, <2>2, NetShape DEF FlagInv, NetInv, RequestInv
  <2> QED BY <2>1, <2>2
<1>3. net' = [n EXCEPT ![s] = Idle]
  BY DEF DeliverLists
<1> HIDE DEF n
<1>4. /\ req'.listsLoading = FALSE /\ req'.detailLoading = req.detailLoading
      /\ req'.loading = req.loading /\ req'.logoutBusy = req.logoutBusy
      /\ req'.submitting = IF net[s].arg = "submit" THEN FALSE ELSE req.submitting
  BY <1>1 DEF DeliverLists, ViewFields
<1>5. RequestTurn(n[s], Idle, req, req')
  BY <1>1, <1>2, <1>4 DEF RequestTurn, Writes, Asks, Idle
<1>6. RequestFlags(net', req')
  BY <1>2, <1>3, <1>5, RequestTurns
<1>7. AllProper(net', page')
  BY <1>1, <1>2, <1>3, IdleProper, PutProper
<1>8. DOMAIN acc' = AccFields /\ DOMAIN auth' = {"csrf", "loading"} /\ ~auth'.loading
  BY <1>1 DEF FlagInv, AccountInv, AuthInv
<1> QED BY <1>1, <1>6, <1>7, <1>8, NextFlags DEF Pages

LEMMA LogoutFlags ==
    ASSUME Inv, FlagInv, NEW s \in Slots, DeliverLogout(s), UNCHANGED <<accountVars, auth>>
    PROVE  FlagInv'
<1>1. /\ page = "requests" /\ UNCHANGED <<acc, auth>> /\ DOMAIN req = ViewFields
      /\ net[s].op = "logout" /\ net[s].owner = "page" /\ net[s].status \in Answers
  BY ViewShape DEF DeliverLogout, Ready, accountVars
<1>2. CASE Succeeded(s)
  <2>1. page' = "login" /\ net' = With(Abandoned, Fetch("csrf", None)) /\ req' = FreshPage
    BY <1>2 DEF DeliverLogout
  <2>2. AtRest(req') /\ DOMAIN acc' = AccFields /\ ~auth.loading
    BY <1>1, <2>1 DEF AtRest, FreshPage, FlagInv, AccountInv, AuthInv
  <2> QED BY <1>1, <2>1, <2>2, LoginLoaded
<1>3. CASE ~Succeeded(s)
  <2>1. Settle(s) /\ req' = [req EXCEPT !.logoutBusy = FALSE] /\ UNCHANGED page
    BY <1>3 DEF DeliverLogout
  <2>2. RequestTurn(net[s], Idle, req, req')
    BY <1>1, <2>1 DEF RequestTurn, Writes, Asks, Idle, ViewFields
  <2> QED BY <1>1, <2>1, <2>2, RequestSettled
<1> QED BY <1>2, <1>3

(* The details of a work arrive.                                            *)
LEMMA DetailFlags ==
    ASSUME Inv, FlagInv, NEW s \in Slots, DeliverRow(s) \/ DeliverWork(s),
           UNCHANGED <<accountVars, auth>>
    PROVE  FlagInv'
<1> DEFINE view == [req EXCEPT !.detailLoading = FALSE]
<1>1. /\ page = "requests" /\ UNCHANGED <<page, acc, auth>> /\ DOMAIN req = ViewFields
      /\ net[s].op \in {"row", "work"} /\ net[s].owner = "page" /\ Settle(s)
  BY RequestReady, ViewShape
     DEF DeliverRow, DeliverWork, Ready, accountVars, answerVars, clickVars
<1>2. /\ DOMAIN view = ViewFields /\ view.detailLoading = FALSE
      /\ view.submitting = req.submitting /\ view.listsLoading = req.listsLoading
      /\ view.loading = req.loading /\ view.logoutBusy = req.logoutBusy
  BY <1>1 DEF ViewFields
<1>3. \A l : DOMAIN [view EXCEPT !.lists = l] = ViewFields
             /\ SameFlags(view, [view EXCEPT !.lists = l])
  BY <1>2 DEF ViewFields, SameFlags
<1>4. \/ req' = view
      \/ \E x : req' = Shown(view, x)
      \/ \E l, x : req' = Shown([view EXCEPT !.lists = l], x)
  <2>1. CASE DeliverRow(s)
    BY <2>1 DEF DeliverRow
  <2>2. CASE DeliverWork(s)
    BY <2>2 DEF DeliverWork
  <2> QED BY <2>1, <2>2
<1> HIDE DEF view
<1>5. SameFlags(view, req')
  <2>1. CASE req' = view
    BY <2>1 DEF SameFlags
  <2>2. CASE \E x : req' = Shown(view, x)
    BY <1>2, <2>2, ShownFlags
  <2>3. ASSUME NEW l, NEW x, req' = Shown([view EXCEPT !.lists = l], x)
        PROVE  SameFlags(view, req')
    <3> DEFINE v == [view EXCEPT !.lists = l]
    <3>1. DOMAIN v = ViewFields /\ SameFlags(view, v) /\ req' = Shown(v, x)
      BY <1>3, <2>3
    <3> HIDE DEF v
    <3> QED BY <3>1, ShownFlags DEF SameFlags
  <2> QED BY <1>4, <2>1, <2>2, <2>3
<1>6. RequestTurn(net[s], Idle, req, req')
  BY <1>1, <1>2, <1>5 DEF RequestTurn, Writes, Asks, Idle, SameFlags
<1> QED BY <1>1, <1>6, RequestSettled

(* A write that succeeded goes on with the lists, one that failed ends.     *)
LEMMA WriteFlags ==
    ASSUME Inv, FlagInv, NEW s \in Slots, DeliverCreate(s) \/ DeliverSeason(s),
           UNCHANGED <<accountVars, auth>>
    PROVE  FlagInv'
<1>1. /\ page = "requests" /\ UNCHANGED <<page, acc, auth>> /\ DOMAIN req = ViewFields
      /\ net[s].op \in {"create", "season"} /\ net[s].owner = "page"
  BY RequestReady, ViewShape
     DEF DeliverCreate, DeliverSeason, Ready, accountVars, answerVars, clickVars
<1>2. Writes(net[s]) /\ req.submitting
  BY <1>1, WriterBusy DEF Writes, Asks
<1>3. CASE Succeeded(s)
  <2> DEFINE view == [req EXCEPT !.listsLoading = TRUE]
  <2>1. /\ DOMAIN view = ViewFields /\ view.listsLoading = TRUE
        /\ view.submitting = req.submitting /\ view.detailLoading = req.detailLoading
        /\ view.loading = req.loading /\ view.logoutBusy = req.logoutBusy
    BY <1>1 DEF ViewFields
  <2>2. Follow(s, Fetch("lists", "submit"))
    BY <1>3 DEF DeliverCreate, DeliverSeason
  <2>3. req' = view \/ \E x : req' = [Shown(view, x) EXCEPT !.chosen = req.chosen]
    BY <1>3 DEF DeliverCreate, DeliverSeason
  <2> HIDE DEF view
  <2>4. SameFlags(view, req')
    <3>1. ASSUME NEW x, req' = [Shown(view, x) EXCEPT !.chosen = req.chosen]
          PROVE  SameFlags(view, req')
      <4> DEFINE v == Shown(view, x)
      <4>1. DOMAIN v = ViewFields /\ SameFlags(view, v) /\ req' = [v EXCEPT !.chosen = req.chosen]
        BY <2>1, <3>1, ShownFlags
      <4> HIDE DEF v
      <4> QED BY <4>1 DEF SameFlags, ViewFields
    <3>2. CASE req' = view
      BY <3>2 DEF SameFlags
    <3> QED BY <2>3, <3>1, <3>2
  <2>5. RequestTurn(net[s], Fetch("lists", "submit"), req, req')
    BY <1>1, <1>2, <2>1, <2>4 DEF RequestTurn, Writes, Asks, Fetch, SameFlags
  <2>6. "lists" \in OpsOf("requests")
    BY DEF OpsOf
  <2> QED BY <1>1, <2>2, <2>5, <2>6, RequestFollowed
<1>4. CASE ~Succeeded(s)
  <2>1. Settle(s)
    BY <1>4 DEF DeliverCreate, DeliverSeason
  <2>2. /\ req'.submitting = FALSE /\ req'.listsLoading = req.listsLoading
        /\ req'.detailLoading = req.detailLoading /\ req'.loading = req.loading
        /\ req'.logoutBusy = req.logoutBusy
    BY <1>1, <1>4 DEF DeliverCreate, DeliverSeason, ViewFields
  <2>3. RequestTurn(net[s], Idle, req, req')
    BY <1>1, <1>2, <2>2 DEF RequestTurn, Writes, Asks, Idle
  <2> QED BY <1>1, <2>1, <2>3, RequestSettled
<1> QED BY <1>3, <1>4

LEMMA RequestDeliveryFlags ==
    ASSUME Inv, FlagInv, NEW s \in Slots, RequestDelivery(s), UNCHANGED <<accountVars, auth>>
    PROVE  FlagInv'
<1>0. DOMAIN req = ViewFields /\ {"account", "lists"} \subseteq OpsOf("requests")
  BY ViewShape DEF OpsOf
<1>1. CASE DeliverCsrf(s)
  <2>1. /\ page = "requests" /\ UNCHANGED <<page, acc, auth>>
        /\ Follow(s, Fetch("account", None)) /\ net[s].op = "csrf"
        /\ SameFlags(req, req')
    BY <1>0, <1>1 DEF DeliverCsrf, Ready, answerVars, clickVars, accountVars, SameFlags, ViewFields
  <2>2. RequestTurn(net[s], Fetch("account", None), req, req')
    BY <2>1 DEF RequestTurn, Writes, Asks, Fetch, SameFlags
  <2> QED BY <1>0, <2>1, <2>2, RequestFollowed
<1>2. CASE DeliverAccount(s)
  <2>1. /\ page = "requests" /\ UNCHANGED <<page, acc, auth>>
        /\ Follow(s, Fetch("lists", "load")) /\ net[s].op = "account"
        /\ req' = [req EXCEPT !.listsLoading = TRUE]
    BY <1>2 DEF DeliverAccount, Ready, answerVars, clickVars, accountVars
  <2>2. RequestTurn(net[s], Fetch("lists", "load"), req, req')
    BY <1>0, <2>1 DEF RequestTurn, Writes, Asks, Fetch, ViewFields
  <2> QED BY <1>0, <2>1, <2>2, RequestFollowed
<1>3. CASE DeliverSearch(s)
  <2>1. /\ page = "requests" /\ UNCHANGED <<page, acc, auth>> /\ Settle(s)
        /\ net[s].op = "search"
        /\ req'.loading = FALSE /\ req'.submitting = req.submitting
        /\ req'.listsLoading = req.listsLoading /\ req'.detailLoading = req.detailLoading
        /\ req'.logoutBusy = req.logoutBusy
    BY <1>0, <1>3, RequestReady
       DEF DeliverSearch, Ready, answerVars, clickVars, accountVars, ViewFields
  <2>2. RequestTurn(net[s], Idle, req, req')
    BY <2>1 DEF RequestTurn, Writes, Asks, Idle
  <2> QED BY <2>1, <2>2, RequestSettled
<1> QED BY <1>1, <1>2, <1>3, ListsFlags, DetailFlags, WriteFlags, LogoutFlags DEF RequestDelivery

(***************************************************************************)
(* The account page.                                                        *)
(***************************************************************************)
Acts(r) == \/ Asks(r, {"settings", "redeem", "bill", "logout"})
           \/ Asks(r, {"codes", "activation", "image"}) /\ r.arg = "redeem"

AccountTurn(q, r, v, w) ==
    /\ w.busy # "" <=> Acts(r) \/ (v.busy # "" /\ ~Acts(q))
    /\ Acts(r) => Acts(q) \/ v.busy = ""
    /\ w.refreshing <=> Asks(r, {"status"}) \/ (v.refreshing /\ ~Asks(q, {"status"}))
    /\ Asks(r, {"status"}) => ~v.refreshing
    /\ w.loading => Asks(r, {"account"}) \/ (v.loading /\ ~Asks(q, {"account"}))
    /\ w.codesLoading => Asks(r, {"codes"}) \/ (v.codesLoading /\ ~Asks(q, {"codes"}))
    /\ w.activationLoading => Asks(r, {"activation", "image"})
                              \/ (v.activationLoading /\ ~Asks(q, {"activation", "image"}))
    /\ w.image = "loading" => Asks(r, {"image"}) \/ (v.image = "loading" /\ ~Asks(q, {"image"}))

LEMMA ActingTurn ==
    ASSUME NEW n, DOMAIN n = Slots, NEW t \in Slots, NEW r
    PROVE  /\ Acting([n EXCEPT ![t] = r]) =
                 IF Acts(r) THEN Acting(n) \cup {t} ELSE Acting(n) \ {t}
           /\ t \in Acting(n) <=> Acts(n[t])
BY DEF Acting, Acts, Asks, Mine, Tagged

LEMMA StatusTurn ==
    ASSUME NEW n, DOMAIN n = Slots, NEW t \in Slots, NEW r
    PROVE  /\ Mine([n EXCEPT ![t] = r], {"status"}) =
                 IF Asks(r, {"status"}) THEN Mine(n, {"status"}) \cup {t}
                 ELSE Mine(n, {"status"}) \ {t}
           /\ t \in Mine(n, {"status"}) <=> Asks(n[t], {"status"})
BY DEF Asks, Mine

LEMMA AccountTurns ==
    ASSUME NEW n, DOMAIN n = Slots, NEW v, AccountFlags(n, v), NEW t \in Slots, NEW r, NEW w,
           AccountTurn(n[t], r, v, w)
    PROVE  AccountFlags([n EXCEPT ![t] = r], w)
<1> DEFINE m == [n EXCEPT ![t] = r]
<1>1. OneIf(Acting(m), w.busy # "")
  <2> DEFINE S == Acting(n)
             T == Acting(m)
  <2>1. /\ T = IF Acts(r) THEN S \cup {t} ELSE S \ {t}
        /\ t \in S <=> Acts(n[t])
    BY ActingTurn
  <2>2. /\ IF v.busy # "" THEN \E x \in S : S = {x} ELSE S = {}
        /\ w.busy # "" <=> Acts(r) \/ (v.busy # "" /\ t \notin S)
        /\ Acts(r) => t \in S \/ v.busy = ""
    BY <2>1 DEF AccountFlags, AccountTurn, OneIf
  <2> HIDE DEF m, S, T
  <2>3. CASE Acts(r) /\ v.busy = ""
    <3>1. w.busy # "" /\ S = {} /\ T = S \cup {t}
      BY <2>1, <2>2, <2>3
    <3>2. t \in T /\ T = {t}
      BY <3>1
    <3> QED BY <3>1, <3>2 DEF OneIf, T
  <2>4. CASE Acts(r) /\ v.busy # ""
    <3>1. T = S /\ w.busy # ""
      BY <2>1, <2>2, <2>4, OneTurn
    <3> QED BY <2>2, <2>4, <3>1 DEF OneIf, T
  <2>5. CASE ~Acts(r) /\ t \in S
    <3>1. w.busy = "" /\ T = {}
      BY <2>1, <2>2, <2>5, OneTurn
    <3> QED BY <3>1 DEF OneIf, T
  <2>6. CASE ~Acts(r) /\ t \notin S
    <3>1. T = S
      BY <2>1, <2>6, OneTurn
    <3> QED BY <2>2, <2>6, <3>1 DEF OneIf, T
  <2> QED BY <2>3, <2>4, <2>5, <2>6
<1>2. OneIf(Mine(m, {"status"}), w.refreshing)
  <2> DEFINE S == Mine(n, {"status"})
             T == Mine(m, {"status"})
  <2>1. /\ T = IF Asks(r, {"status"}) THEN S \cup {t} ELSE S \ {t}
        /\ t \in S <=> Asks(n[t], {"status"})
    BY StatusTurn
  <2>2. /\ IF v.refreshing THEN \E x \in S : S = {x} ELSE S = {}
        /\ w.refreshing <=> Asks(r, {"status"}) \/ (v.refreshing /\ t \notin S)
        /\ Asks(r, {"status"}) => ~v.refreshing
    BY <2>1 DEF AccountFlags, AccountTurn, OneIf
  <2> HIDE DEF m, S, T
  <2>3. CASE Asks(r, {"status"})
    BY <2>1, <2>2, <2>3, OneTurn DEF OneIf, T
  <2>4. CASE ~Asks(r, {"status"}) /\ t \in S
    BY <2>1, <2>2, <2>4, OneTurn DEF OneIf, T
  <2>5. CASE ~Asks(r, {"status"}) /\ t \notin S
    <3>1. T = S
      BY <2>1, <2>5, OneTurn
    <3> QED BY <2>2, <2>5, <3>1 DEF OneIf, T
  <2> QED BY <2>3, <2>4, <2>5
<1>3. /\ w.loading => Mine(m, {"account"}) # {}
      /\ w.codesLoading => Mine(m, {"codes"}) # {}
      /\ w.activationLoading => Mine(m, {"activation", "image"}) # {}
      /\ w.image = "loading" => Mine(m, {"image"}) # {}
  BY SpinnerTurn DEF AccountFlags, AccountTurn
<1> QED BY <1>1, <1>2, <1>3 DEF AccountFlags

(* A step of the account page, when the network is m after it.              *)
LEMMA AccountMoves ==
    ASSUME FlagInv, page = "account", UNCHANGED <<page, req, auth>>,
           AllProper(net', "account"), DOMAIN acc' = AccFields, AccountFlags(net', acc')
    PROVE  FlagInv'
<1>1. AtRest(req') /\ DOMAIN auth' = {"csrf", "loading"} /\ ~auth'.loading
  BY DEF FlagInv, RequestInv, AuthInv
<1> QED BY <1>1, NextFlags DEF Pages

LEMMA AccountPut ==
    ASSUME Inv, FlagInv, page = "account", UNCHANGED <<page, req, auth>>,
           NEW t \in Slots, NEW r, Proper(r, "account"), net' = [net EXCEPT ![t] = r],
           DOMAIN acc' = AccFields, AccountTurn(net[t], r, acc, acc')
    PROVE  FlagInv'
<1> DEFINE m == [net EXCEPT ![t] = r]
<1>1. AccountFlags(m, acc') /\ AllProper(m, "account")
  BY NetShape, AccountTurns, PutProper DEF FlagInv, NetInv, AccountInv
<1>2. net' = m
  OBVIOUS
<1> HIDE DEF m
<1> QED BY <1>1, <1>2, AccountMoves

LEMMA AccountSettled ==
    ASSUME Inv, FlagInv, page = "account", UNCHANGED <<page, req, auth>>,
           NEW s \in Slots, Settle(s), DOMAIN acc' = AccFields, AccountTurn(net[s], Idle, acc, acc')
    PROVE  FlagInv'
BY IdleProper, AccountPut DEF Settle, Settled

LEMMA AccountFollowed ==
    ASSUME Inv, FlagInv, page = "account", UNCHANGED <<page, req, auth>>,
           NEW s \in Slots, NEW op \in OpsOf("account"), NEW arg, Follow(s, Fetch(op, arg)),
           DOMAIN acc' = AccFields, AccountTurn(net[s], Fetch(op, arg), acc, acc')
    PROVE  FlagInv'
<1> DEFINE r == Fetch(op, arg)
<1>1. Proper(r, "account")
  BY FetchProper DEF Pages
<1>2. net' = [net EXCEPT ![s] = r] /\ AccountTurn(net[s], r, acc, acc')
  BY DEF Follow
<1> HIDE DEF r
<1> QED BY <1>1, <1>2, AccountPut

LEMMA AccountSent ==
    ASSUME Inv, FlagInv, page = "account", UNCHANGED <<page, req, auth>>,
           NEW op \in OpsOf("account"), NEW arg, Send(Fetch(op, arg)),
           DOMAIN acc' = AccFields,
           \A q : q.owner # "page" => AccountTurn(q, Fetch(op, arg), acc, acc')
    PROVE  FlagInv'
<1> DEFINE r == Fetch(op, arg)
<1>1. Proper(r, "account")
  BY FetchProper DEF Pages
<1>2. PICK t \in Slots : net' = [net EXCEPT ![t] = r] /\ net[t].owner # "page"
  BY SentSlot
<1>3. AccountTurn(net[t], r, acc, acc')
  BY <1>2
<1> HIDE DEF r
<1> QED BY <1>1, <1>2, <1>3, AccountPut

LEMMA AccountLeft ==
    ASSUME Inv, FlagInv, page = "account", UNCHANGED <<req, auth>>, ToLogin,
           NEW s \in Slots, net[s].status \in Answers
    PROVE  FlagInv'
<1>1. AtRest(req') /\ ~auth.loading
  BY DEF FlagInv, RequestInv, AuthInv
<1>2. page' = "login" /\ net' = With(Abandoned, Fetch("csrf", None)) /\ acc' = NoAccount
  BY DEF ToLogin
<1> QED BY <1>1, <1>2, NoAccountFields, LoginLoaded

LEMMA AccountStill ==
    ASSUME FlagInv, page = "account", UNCHANGED <<page, net, req, auth>>,
           DOMAIN acc' = AccFields, acc'.busy = acc.busy, acc'.refreshing = acc.refreshing,
           acc'.loading = acc.loading, acc'.codesLoading = acc.codesLoading,
           acc'.activationLoading = acc.activationLoading,
           acc'.image \in {acc.image, "error"}
    PROVE  FlagInv'
<1>1. AccountFlags(net', acc') /\ AllProper(net', "account")
  BY DEF FlagInv, NetInv, AccountInv, AccountFlags
<1> QED BY <1>1, AccountMoves

(* Two requests are sent at once.                                           *)
LEMMA TwoSlots ==
    ASSUME Inv, FlagInv, NEW r1, r1.op # "none", NEW r2, SendTwo(r1, r2)
    PROVE  \E t \in Slots, u \in Slots :
              /\ t # u /\ net[t].owner # "page" /\ net[u].owner # "page"
              /\ net' = [[net EXCEPT ![t] = r1] EXCEPT ![u] = r2]
<1> DEFINE t == CHOOSE q \in Free(net) : TRUE
           n == [net EXCEPT ![t] = r1]
           u == CHOOSE q \in Free(n) : TRUE
<1>1. Cardinality(Free(net)) >= 2 /\ net' = [n EXCEPT ![u] = r2]
  BY DEF SendTwo, With
<1>2. Free(net) # {}
  BY <1>1, FS_EmptySet
<1>3. t \in Free(net)
  BY <1>2
<1>4. Free(n) = Free(net) \ {t}
  BY <1>3, NetShape DEF Free
<1>5. Free(net) # {t}
  <2>1. Cardinality({t}) = 1
    BY FS_Singleton
  <2> QED BY <1>1, <2>1
<1>6. u \in Free(net) \ {t}
  <2>1. Free(n) # {}
    BY <1>3, <1>4, <1>5
  <2> QED BY <1>4, <2>1
<1>7. /\ net[t].owner # "page" /\ net[u].owner # "page"
      /\ t \in Slots /\ u \in Slots /\ t # u
  BY <1>3, <1>6, FreeNotMine DEF Free
<1> HIDE DEF t, u
<1> QED BY <1>1, <1>7

LEMMA SelectFlags ==
    ASSUME Inv, FlagInv, NEW next, SelectSection(next), UNCHANGED <<serverVars, req, auth>>
    PROVE  FlagInv'
<1>0. page = "account" /\ UNCHANGED <<page, req, auth>> /\ DOMAIN acc = AccFields
  BY DEF SelectSection, clickVars, FlagInv, AccountInv
<1>1. PICK sec : LET there == [acc EXCEPT !.section = sec]
                 IN  \/ acc' = there /\ UNCHANGED net
                     \/ /\ acc' = [there EXCEPT !.activationLoading = TRUE]
                        /\ Send(Fetch("activation", ""))
                     \/ /\ acc' = [there EXCEPT !.activationLoading = TRUE, !.codesLoading = TRUE]
                        /\ SendTwo(Fetch("activation", ""), Fetch("codes", ""))
  BY DEF SelectSection
<1> DEFINE there == [acc EXCEPT !.section = sec]
<1>2. CASE acc' = there /\ UNCHANGED net
  BY <1>0, <1>2, AccountStill DEF AccFields
<1>3. CASE acc' = [there EXCEPT !.activationLoading = TRUE] /\ Send(Fetch("activation", ""))
  <2>1. /\ DOMAIN acc' = AccFields
        /\ \A q : q.owner # "page" => AccountTurn(q, Fetch("activation", ""), acc, acc')
    BY <1>0, <1>3 DEF AccountTurn, Acts, Asks, Fetch, AccFields
  <2>2. "activation" \in OpsOf("account")
    BY DEF OpsOf
  <2> QED BY <1>0, <1>3, <2>1, <2>2, AccountSent
<1>4. CASE /\ acc' = [there EXCEPT !.activationLoading = TRUE, !.codesLoading = TRUE]
           /\ SendTwo(Fetch("activation", ""), Fetch("codes", ""))
  <2> DEFINE r1 == Fetch("activation", "")
             r2 == Fetch("codes", "")
             v  == [there EXCEPT !.activationLoading = TRUE]
  <2>1. /\ r1.op = "activation" /\ r1.owner = "page" /\ r1.arg = ""
        /\ r2.op = "codes" /\ r2.owner = "page" /\ r2.arg = ""
    BY DEF Fetch
  <2>2. Proper(r1, "account") /\ Proper(r2, "account")
    BY FetchProper DEF Pages, OpsOf
  <2>3. SendTwo(r1, r2)
    BY <1>4
  <2>4. /\ DOMAIN acc' = AccFields
        /\ \A q : q.owner # "page" => AccountTurn(q, r1, acc, v)
        /\ \A q : q.owner # "page" => AccountTurn(q, r2, v, acc')
    BY <1>0, <1>4 DEF AccountTurn, Acts, Asks, Fetch, AccFields
  <2> HIDE DEF r1, r2, v
  <2>5. PICK t \in Slots, u \in Slots :
              /\ t # u /\ net[t].owner # "page" /\ net[u].owner # "page"
              /\ net' = [[net EXCEPT ![t] = r1] EXCEPT ![u] = r2]
    <3>1. r1.op # "none"
      BY <2>1
    <3> QED BY <2>3, <3>1, TwoSlots, Zenon
  <2> DEFINE n == [net EXCEPT ![t] = r1]
  <2>6. AccountFlags(net, acc) /\ AllProper(net, "account") /\ DOMAIN net = Slots
    BY <1>0, NetShape DEF FlagInv, NetInv, AccountInv
  <2>7. /\ AccountFlags(n, v) /\ AllProper(n, "account")
        /\ DOMAIN n = Slots /\ n[u] = net[u]
    BY <2>2, <2>4, <2>5, <2>6, AccountTurns, PutProper
  <2>8. net' = [n EXCEPT ![u] = r2]
    BY <2>5
  <2> HIDE DEF n
  <2>9. AccountFlags([n EXCEPT ![u] = r2], acc') /\ AllProper([n EXCEPT ![u] = r2], "account")
    BY <2>2, <2>4, <2>5, <2>7, AccountTurns, PutProper
  <2> QED BY <1>0, <2>4, <2>8, <2>9, AccountMoves
<1> QED BY <1>1, <1>2, <1>3, <1>4

LEMMA ActFlags ==
    ASSUME Inv, FlagInv, NEW name \in {"settings", "redeem", "bill-code", "logout"},
           NEW op \in {"settings", "redeem", "bill", "logout"}, NEW arg,
           page = "account", UNCHANGED <<page, req, auth>>,
           Send(Fetch(op, arg)), acc.busy = "", acc' = [acc EXCEPT !.busy = name]
    PROVE  FlagInv'
<1>1. DOMAIN acc = AccFields
  BY DEF FlagInv, AccountInv
<1>2. /\ DOMAIN acc' = AccFields
      /\ \A q : q.owner # "page" => AccountTurn(q, Fetch(op, arg), acc, acc')
  BY <1>1 DEF AccountTurn, Acts, Asks, Fetch, AccFields
<1>3. op \in OpsOf("account")
  BY DEF OpsOf
<1> QED BY <1>2, <1>3, AccountSent

LEMMA AccountClickFlags ==
    ASSUME Inv, FlagInv, AccountClick, UNCHANGED <<serverVars, req, auth>> PROVE FlagInv'
<1>0. DOMAIN acc = AccFields /\ UNCHANGED <<req, auth>>
  BY DEF FlagInv, AccountInv
<1>1. CASE ScanImageError
  BY <1>0, <1>1, AccountStill DEF ScanImageError, browserVars, answerVars, clickVars, AccFields
<1>2. CASE ReloadActivation
  <2>1. /\ page = "account" /\ UNCHANGED page /\ Send(Fetch("activation", ""))
        /\ acc' = [acc EXCEPT !.activationLoading = TRUE]
    BY <1>2 DEF ReloadActivation, clickVars
  <2>2. /\ DOMAIN acc' = AccFields
        /\ \A q : q.owner # "page" => AccountTurn(q, Fetch("activation", ""), acc, acc')
    BY <1>0, <2>1 DEF AccountTurn, Acts, Asks, Fetch, AccFields
  <2>3. "activation" \in OpsOf("account")
    BY DEF OpsOf
  <2> QED BY <1>0, <2>1, <2>2, <2>3, AccountSent
<1>3. CASE Refresh
  <2>1. /\ page = "account" /\ UNCHANGED page /\ Send(Fetch("status", None)) /\ ~acc.refreshing
        /\ acc' = [acc EXCEPT !.refreshing = TRUE, !.cooldownUntil = Cooldown]
    BY <1>3 DEF Refresh, clickVars
  <2>2. /\ DOMAIN acc' = AccFields
        /\ \A q : q.owner # "page" => AccountTurn(q, Fetch("status", None), acc, acc')
    BY <1>0, <2>1 DEF AccountTurn, Acts, Asks, Fetch, AccFields
  <2>3. "status" \in OpsOf("account")
    BY DEF OpsOf
  <2> QED BY <1>0, <2>1, <2>2, <2>3, AccountSent
<1>4. CASE Logout
  BY <1>0, <1>4, ActFlags DEF Logout, clickVars
<1>5. CASE ChangeSettings
  BY <1>0, <1>5, ActFlags DEF ChangeSettings, Act, clickVars
<1>6. CASE Redeem
  BY <1>0, <1>6, ActFlags DEF Redeem, Act, clickVars
<1>7. CASE ActivateBillCode
  BY <1>0, <1>7, ActFlags DEF ActivateBillCode, Act, clickVars
<1>8. CASE ReloadCodes
  <2>1. /\ page = "account" /\ UNCHANGED page /\ Send(Fetch("codes", ""))
        /\ acc' = [acc EXCEPT !.codesLoading = TRUE]
    BY <1>8 DEF ReloadCodes, clickVars
  <2>2. /\ DOMAIN acc' = AccFields
        /\ \A q : q.owner # "page" => AccountTurn(q, Fetch("codes", ""), acc, acc')
    BY <1>0, <2>1 DEF AccountTurn, Acts, Asks, Fetch, AccFields
  <2>3. "codes" \in OpsOf("account")
    BY DEF OpsOf
  <2> QED BY <1>0, <2>1, <2>2, <2>3, AccountSent
<1> QED BY <1>1, <1>2, <1>3, <1>4, <1>5, <1>6, <1>7, <1>8, SelectFlags DEF AccountClick

LEMMA AccountReady ==
    ASSUME FlagInv, NEW s \in Slots, NEW op, Ready(s, op),
           op \in {"codes", "activation", "image", "status", "settings", "redeem", "bill"}
    PROVE  page = "account"
BY DEF FlagInv, NetInv, AllProper, Proper, OpsOf, Pages, Ready

(* An action that is under way keeps the page busy.                         *)
LEMMA ActorBusy ==
    ASSUME FlagInv, page = "account", NEW s \in Slots, Acts(net[s]) PROVE acc.busy # ""
<1>1. s \in Acting(net)
  BY DEF Acting, Acts, Asks, Mine, Tagged
<1> QED BY <1>1 DEF FlagInv, AccountInv, AccountFlags, OneIf

LEMMA OwnAccountFlags ==
    ASSUME Inv, FlagInv, NEW s \in Slots, DeliverOwnAccount(s), UNCHANGED <<req, auth>>
    PROVE  FlagInv'
<1>1. /\ page = "account" /\ net[s].op = "account" /\ net[s].owner = "page"
      /\ net[s].status \in Answers /\ DOMAIN acc = AccFields
  BY DEF DeliverOwnAccount, Ready, FlagInv, AccountInv
<1>2. CASE net[s].status = "denied"
  BY <1>1, <1>2, AccountLeft DEF DeliverOwnAccount
<1>3. CASE net[s].status # "denied"
  <2>1. /\ Settle(s) /\ UNCHANGED page
        /\ DOMAIN acc' = AccFields /\ acc'.loading = FALSE /\ acc'.busy = acc.busy
        /\ acc'.refreshing = acc.refreshing /\ acc'.codesLoading = acc.codesLoading
        /\ acc'.activationLoading = acc.activationLoading /\ acc'.image = acc.image
    BY <1>1, <1>3 DEF DeliverOwnAccount, AccFields
  <2>2. AccountTurn(net[s], Idle, acc, acc')
    BY <1>1, <2>1 DEF AccountTurn, Acts, Asks, Idle
  <2> QED BY <1>1, <2>1, <2>2, AccountSettled
<1> QED BY <1>2, <1>3

LEMMA CodesFlags ==
    ASSUME Inv, FlagInv, NEW s \in Slots, DeliverCodes(s), UNCHANGED <<req, auth>>
    PROVE  FlagInv'
<1>1. /\ page = "account" /\ net[s].op = "codes" /\ net[s].owner = "page"
      /\ net[s].status \in Answers /\ DOMAIN acc = AccFields
  BY AccountReady DEF DeliverCodes, Ready, FlagInv, AccountInv
<1>2. CASE Expired(s) /\ ToLogin
  BY <1>1, <1>2, AccountLeft
<1>3. CASE net[s].arg = "redeem" /\ UNCHANGED page /\ Follow(s, Fetch("activation", "redeem"))
           /\ acc' = [[acc EXCEPT !.codesLoading = FALSE] EXCEPT !.activationLoading = TRUE]
  <2>1. Acts(net[s]) /\ acc.busy # ""
    BY <1>1, <1>3, ActorBusy DEF Acts, Asks
  <2>2. /\ DOMAIN acc' = AccFields
        /\ AccountTurn(net[s], Fetch("activation", "redeem"), acc, acc')
    BY <1>1, <1>3, <2>1 DEF AccountTurn, Acts, Asks, Fetch, AccFields
  <2>3. "activation" \in OpsOf("account")
    BY DEF OpsOf
  <2> QED BY <1>1, <1>3, <2>2, <2>3, AccountFollowed
<1>4. CASE /\ UNCHANGED page /\ Settle(s)
           /\ acc' = IF net[s].arg = "redeem"
                     THEN [[acc EXCEPT !.codesLoading = FALSE] EXCEPT !.busy = ""]
                     ELSE [acc EXCEPT !.codesLoading = FALSE]
  <2>1. /\ DOMAIN acc' = AccFields
        /\ AccountTurn(net[s], Idle, acc, acc')
    BY <1>1, <1>4 DEF AccountTurn, Acts, Asks, Idle, AccFields
  <2> QED BY <1>1, <1>4, <2>1, AccountSettled
<1> QED BY <1>2, <1>3, <1>4 DEF DeliverCodes

(* What an answer may leave of the page when it ends the loading of the     *)
(* activation, and the redemption it was part of.                           *)
Over(chain, v, w) ==
    /\ w.busy = IF chain = "redeem" THEN "" ELSE v.busy
    /\ w.refreshing = v.refreshing /\ w.loading = v.loading
    /\ w.codesLoading = v.codesLoading /\ w.activationLoading = FALSE

LEMMA DoneOver ==
    ASSUME NEW v, DOMAIN v = AccFields, NEW chain
    PROVE  /\ DOMAIN Done(v, chain) = AccFields /\ Over(chain, v, Done(v, chain))
           /\ Done(v, chain).image = v.image
BY DEF Done, Over, AccFields

SameBut(v, w) ==
    /\ w.busy = v.busy /\ w.refreshing = v.refreshing /\ w.loading = v.loading
    /\ w.codesLoading = v.codesLoading /\ w.activationLoading = v.activationLoading

LEMMA OverFlags ==
    ASSUME Inv, FlagInv, page = "account", UNCHANGED <<page, req, auth>>,
           NEW s \in Slots, net[s].owner = "page", Settle(s),
           net[s].op \in {"activation", "image"},
           NEW v, DOMAIN v = AccFields, SameBut(acc, v), acc' = Done(v, net[s].arg),
           v.image = "loading" => acc.image = "loading" /\ net[s].op # "image"
    PROVE  FlagInv'
<1>1. DOMAIN acc' = AccFields /\ Over(net[s].arg, v, acc') /\ acc'.image = v.image
  BY DoneOver
<1>2. AccountTurn(net[s], Idle, acc, acc')
  BY <1>1 DEF AccountTurn, Acts, Asks, Idle, Over, SameBut
<1> QED BY <1>1, <1>2, AccountSettled

LEMMA ActivationFlags ==
    ASSUME Inv, FlagInv, NEW s \in Slots, DeliverActivation(s), UNCHANGED <<req, auth>>
    PROVE  FlagInv'
<1>1. /\ page = "account" /\ net[s].op = "activation" /\ net[s].owner = "page"
      /\ net[s].status \in Answers /\ DOMAIN acc = AccFields
  BY AccountReady DEF DeliverActivation, Ready, FlagInv, AccountInv
<1> DEFINE chain == net[s].arg
           shown == [acc EXCEPT !.activation = net[s].data]
           bare  == Released(shown)
<1>2. /\ DOMAIN shown = AccFields /\ SameBut(acc, shown) /\ shown.image = acc.image
      /\ DOMAIN bare = AccFields /\ SameBut(acc, bare)
  BY <1>1 DEF Released, SameBut, AccFields
<1>3. \/ Expired(s) /\ ToLogin
      \/ UNCHANGED page /\ Settle(s) /\ acc' = Done(acc, chain)
      \/ UNCHANGED page /\ Settle(s) /\ acc' = Done(shown, chain)
      \/ /\ UNCHANGED page /\ Follow(s, Fetch("image", chain))
         /\ acc' = [bare EXCEPT !.image = "loading"]
      \/ /\ UNCHANGED page /\ Settle(s)
         /\ acc' = Done([bare EXCEPT !.image = IF net[s].data.image THEN "error" ELSE "empty"],
                        chain)
  BY DEF DeliverActivation
<1> HIDE DEF shown, bare
<1>4. CASE Expired(s) /\ ToLogin
  BY <1>1, <1>4, AccountLeft
<1>5. CASE UNCHANGED page /\ Settle(s) /\ acc' = Done(acc, chain)
  <2>1. SameBut(acc, acc)
    BY DEF SameBut
  <2> QED BY <1>1, <1>5, <2>1, OverFlags
<1>6. CASE UNCHANGED page /\ Settle(s) /\ acc' = Done(shown, chain)
  BY <1>1, <1>2, <1>6, OverFlags
<1>7. CASE /\ UNCHANGED page /\ Follow(s, Fetch("image", chain))
           /\ acc' = [bare EXCEPT !.image = "loading"]
  <2>1. Acts(net[s]) => acc.busy # ""
    BY <1>1, ActorBusy
  <2>2. DOMAIN acc' = AccFields /\ SameBut(acc, acc') /\ acc'.image = "loading"
    BY <1>2, <1>7 DEF SameBut, AccFields
  <2>3. AccountTurn(net[s], Fetch("image", chain), acc, acc')
    BY <1>1, <2>1, <2>2 DEF AccountTurn, Acts, Asks, Fetch, SameBut
  <2>4. "image" \in OpsOf("account")
    BY DEF OpsOf
  <2> QED BY <1>1, <1>7, <2>2, <2>3, <2>4, AccountFollowed
<1>8. CASE /\ UNCHANGED page /\ Settle(s)
           /\ acc' = Done([bare EXCEPT !.image = IF net[s].data.image THEN "error" ELSE "empty"],
                          chain)
  <2> DEFINE v == [bare EXCEPT !.image = IF net[s].data.image THEN "error" ELSE "empty"]
  <2>1. DOMAIN v = AccFields /\ SameBut(acc, v) /\ v.image \in {"error", "empty"}
    BY <1>2 DEF SameBut, AccFields
  <2>2. acc' = Done(v, chain)
    BY <1>8
  <2> HIDE DEF v
  <2> QED BY <1>1, <1>8, <2>1, <2>2, OverFlags
<1> QED BY <1>3, <1>4, <1>5, <1>6, <1>7, <1>8

LEMMA ImageFlags ==
    ASSUME Inv, FlagInv, NEW s \in Slots, DeliverImage(s), UNCHANGED <<req, auth>>
    PROVE  FlagInv'
<1>1. /\ page = "account" /\ net[s].op = "image" /\ net[s].owner = "page"
      /\ net[s].status \in Answers /\ DOMAIN acc = AccFields
  BY AccountReady DEF DeliverImage, Ready, FlagInv, AccountInv
<1>2. CASE net[s].status = "denied"
  BY <1>1, <1>2, AccountLeft DEF DeliverImage
<1>3. CASE net[s].status # "denied"
  <2> DEFINE v == IF Succeeded(s) THEN WithImage(acc)
                  ELSE [acc EXCEPT !.image = IF net[s].data = "missing" THEN "empty" ELSE "error"]
  <2>1. UNCHANGED page /\ Settle(s) /\ acc' = Done(v, net[s].arg)
    BY <1>3 DEF DeliverImage
  <2>2. DOMAIN v = AccFields /\ SameBut(acc, v) /\ v.image # "loading"
    BY <1>1 DEF WithImage, SameBut, AccFields
  <2> HIDE DEF v
  <2> QED BY <1>1, <2>1, <2>2, OverFlags
<1> QED BY <1>2, <1>3

LEMMA StatusFlags ==
    ASSUME Inv, FlagInv, NEW s \in Slots, DeliverStatus(s), UNCHANGED <<req, auth>>
    PROVE  FlagInv'
<1>1. /\ page = "account" /\ net[s].op = "status" /\ net[s].owner = "page"
      /\ net[s].status \in Answers /\ DOMAIN acc = AccFields
  BY AccountReady DEF DeliverStatus, Ready, FlagInv, AccountInv
<1>2. CASE Expired(s)
  BY <1>1, <1>2, AccountLeft DEF DeliverStatus
<1>3. CASE ~Expired(s)
  <2>1. /\ UNCHANGED page /\ Settle(s) /\ DOMAIN acc' = AccFields
        /\ acc'.refreshing = FALSE /\ acc'.busy = acc.busy /\ acc'.loading = acc.loading
        /\ acc'.codesLoading = acc.codesLoading /\ acc'.image = acc.image
        /\ acc'.activationLoading = acc.activationLoading
    BY <1>1, <1>3 DEF DeliverStatus, AccFields
  <2>2. AccountTurn(net[s], Idle, acc, acc')
    BY <1>1, <2>1 DEF AccountTurn, Acts, Asks, Idle
  <2> QED BY <1>1, <2>1, <2>2, AccountSettled
<1> QED BY <1>2, <1>3

(* The action that made the page busy ends.                                 *)
LEMMA ActionOver ==
    ASSUME Inv, FlagInv, page = "account", UNCHANGED <<page, req, auth>>,
           NEW s \in Slots, net[s].owner = "page", Settle(s),
           net[s].op \in {"settings", "redeem", "bill", "logout"},
           DOMAIN acc' = AccFields, acc'.busy = "", acc'.refreshing = acc.refreshing,
           acc'.loading = acc.loading, acc'.codesLoading = acc.codesLoading,
           acc'.image = acc.image, acc'.activationLoading = acc.activationLoading
    PROVE  FlagInv'
<1>1. AccountTurn(net[s], Idle, acc, acc')
  BY DEF AccountTurn, Acts, Asks, Idle
<1> QED BY <1>1, AccountSettled

LEMMA ActionFlags ==
    ASSUME Inv, FlagInv, NEW s \in Slots, DeliverAction(s), UNCHANGED <<req, auth>>
    PROVE  FlagInv'
<1>1. /\ page = "account" /\ net[s].op \in {"settings", "redeem", "logout"}
      /\ net[s].owner = "page" /\ net[s].status \in Answers /\ DOMAIN acc = AccFields
  BY DEF DeliverAction, Ready, FlagInv, AccountInv
<1> DEFINE merged == IF Succeeded(s) /\ net[s].op = "redeem"
                     THEN [acc EXCEPT !.account = net[s].data] ELSE acc
<1>2. DOMAIN merged = AccFields /\ SameBut(acc, merged) /\ merged.image = acc.image
  BY <1>1 DEF SameBut, AccFields
<1>3. \/ ToLogin
      \/ /\ UNCHANGED page /\ net[s].op = "redeem" /\ Follow(s, Fetch("codes", "redeem"))
         /\ acc' = [merged EXCEPT !.codesLoading = TRUE]
      \/ UNCHANGED page /\ Settle(s) /\ acc' = [merged EXCEPT !.busy = ""]
  BY DEF DeliverAction
<1> HIDE DEF merged
<1>4. CASE ToLogin
  BY <1>1, <1>4, AccountLeft
<1>5. CASE /\ UNCHANGED page /\ net[s].op = "redeem" /\ Follow(s, Fetch("codes", "redeem"))
           /\ acc' = [merged EXCEPT !.codesLoading = TRUE]
  <2>1. Acts(net[s]) /\ acc.busy # ""
    BY <1>1, <1>5, ActorBusy DEF Acts, Asks
  <2>2. /\ DOMAIN acc' = AccFields
        /\ AccountTurn(net[s], Fetch("codes", "redeem"), acc, acc')
    BY <1>1, <1>2, <1>5, <2>1 DEF AccountTurn, Acts, Asks, Fetch, AccFields, SameBut
  <2>3. "codes" \in OpsOf("account")
    BY DEF OpsOf
  <2> QED BY <1>1, <1>5, <2>2, <2>3, AccountFollowed
<1>6. CASE UNCHANGED page /\ Settle(s) /\ acc' = [merged EXCEPT !.busy = ""]
  <2>1. /\ DOMAIN acc' = AccFields /\ acc'.busy = "" /\ acc'.refreshing = acc.refreshing
        /\ acc'.loading = acc.loading /\ acc'.codesLoading = acc.codesLoading
        /\ acc'.image = acc.image /\ acc'.activationLoading = acc.activationLoading
    BY <1>2, <1>6 DEF SameBut, AccFields
  <2> QED BY <1>1, <1>6, <2>1, ActionOver
<1> QED BY <1>3, <1>4, <1>5, <1>6

LEMMA BillFlags ==
    ASSUME Inv, FlagInv, NEW s \in Slots, DeliverBillCode(s), UNCHANGED <<req, auth>>
    PROVE  FlagInv'
<1>1. /\ page = "account" /\ net[s].op = "bill" /\ net[s].owner = "page"
      /\ net[s].status \in Answers /\ DOMAIN acc = AccFields
  BY AccountReady DEF DeliverBillCode, Ready, FlagInv, AccountInv
<1>2. CASE Expired(s)
  BY <1>1, <1>2, AccountLeft DEF DeliverBillCode
<1>3. CASE ~Expired(s)
  <2>1. PICK a : acc' = [acc EXCEPT !.busy = "", !.activation = a]
    BY <1>3 DEF DeliverBillCode
  <2>2. UNCHANGED page /\ Settle(s)
    BY <1>3 DEF DeliverBillCode
  <2>3. /\ DOMAIN acc' = AccFields /\ acc'.busy = "" /\ acc'.refreshing = acc.refreshing
        /\ acc'.loading = acc.loading /\ acc'.codesLoading = acc.codesLoading
        /\ acc'.image = acc.image /\ acc'.activationLoading = acc.activationLoading
    BY <1>1, <2>1 DEF AccFields
  <2> QED BY <1>1, <2>2, <2>3, ActionOver
<1> QED BY <1>2, <1>3

LEMMA AccountDeliveryFlags ==
    ASSUME Inv, FlagInv, NEW s \in Slots, AccountDelivery(s), UNCHANGED <<serverVars, req, auth>>
    PROVE  FlagInv'
BY OwnAccountFlags, CodesFlags, ActivationFlags, ImageFlags, StatusFlags, ActionFlags, BillFlags
   DEF AccountDelivery

(***************************************************************************)
(* The login page.                                                          *)
(***************************************************************************)
LEMMA LoginMoves ==
    ASSUME FlagInv, page = "login", UNCHANGED <<page, req, acc>>,
           AllProper(net', "login"), DOMAIN auth' = {"csrf", "loading"},
           OneIf(Mine(net', {"login"}), auth'.loading)
    PROVE  FlagInv'
<1>1. AtRest(req') /\ DOMAIN acc' = AccFields
  BY DEF FlagInv, RequestInv, AccountInv
<1> QED BY <1>1, NextFlags DEF Pages

LEMMA LoginTurn ==
    ASSUME NEW n, DOMAIN n = Slots, NEW t \in Slots, NEW r
    PROVE  /\ Mine([n EXCEPT ![t] = r], {"login"}) =
                 IF Asks(r, {"login"}) THEN Mine(n, {"login"}) \cup {t}
                 ELSE Mine(n, {"login"}) \ {t}
           /\ t \in Mine(n, {"login"}) <=> Asks(n[t], {"login"})
BY DEF Asks, Mine

LEMMA SignInFlags ==
    ASSUME Inv, FlagInv, SignIn, UNCHANGED <<serverVars, req, accountVars>> PROVE FlagInv'
<1> DEFINE r == Fetch("login", None)
<1>1. /\ page = "login" /\ UNCHANGED <<page, req, acc>> /\ ~auth.loading
      /\ auth' = [auth EXCEPT !.loading = TRUE] /\ Send(r)
      /\ DOMAIN auth = {"csrf", "loading"}
  BY DEF SignIn, clickVars, accountVars, FlagInv, AuthInv
<1>2. Proper(r, "login") /\ Asks(r, {"login"})
  BY FetchProper DEF Pages, OpsOf, Asks, Fetch
<1> HIDE DEF r
<1>3. PICK t \in Slots : net' = [net EXCEPT ![t] = r]
  BY <1>1, SentSlot
<1>4. AllProper(net', "login")
  BY <1>1, <1>2, <1>3, NetShape, PutProper DEF FlagInv, NetInv
<1>5. Mine(net, {"login"}) = {}
  BY <1>1 DEF FlagInv, AuthInv, OneIf
<1>6. Mine(net', {"login"}) = {t}
  BY <1>2, <1>3, <1>5, NetShape, LoginTurn
<1>7. DOMAIN auth' = {"csrf", "loading"} /\ auth'.loading
  BY <1>1
<1>8. OneIf(Mine(net', {"login"}), auth'.loading)
  BY <1>6, <1>7 DEF OneIf
<1> QED BY <1>1, <1>4, <1>7, <1>8, LoginMoves

LEMMA LoginDeliveryFlags ==
    ASSUME Inv, FlagInv, NEW s \in Slots, AuthToken(s) \/ SignInFailed(s),
           UNCHANGED <<serverVars, req, accountVars>>
    PROVE  FlagInv'
<1>1. UNCHANGED <<page, req, acc>> /\ net' = [net EXCEPT ![s] = Idle] /\ net[s].owner = "page"
  BY DEF AuthToken, SignInFailed, answerVars, clickVars, accountVars, Settle, Settled, Ready
<1>2. page = "login" /\ DOMAIN auth = {"csrf", "loading"}
  BY DEF AuthToken, SignInFailed, Ready, FlagInv, NetInv, AllProper, Proper, OpsOf, Pages, AuthInv
<1>3. AllProper(net', "login")
  BY <1>1, <1>2, IdleProper, NetShape, PutProper DEF FlagInv, NetInv
<1>4. Mine(net', {"login"}) = Mine(net, {"login"}) \ {s}
  <2>1. ~Asks(Idle, {"login"})
    BY DEF Asks, Idle
  <2> QED BY <1>1, <2>1, NetShape, LoginTurn
<1>5. OneIf(Mine(net, {"login"}), auth.loading)
  BY <1>2 DEF FlagInv, AuthInv
<1>6. CASE AuthToken(s)
  <2>1. auth' = [auth EXCEPT !.csrf = Succeeded(s)] /\ net[s].op = "csrf"
    BY <1>6 DEF AuthToken, Ready
  <2>2. s \notin Mine(net, {"login"})
    BY <2>1 DEF Mine
  <2>3. Mine(net', {"login"}) = Mine(net, {"login"})
    BY <1>4, <2>2
  <2>4. DOMAIN auth' = {"csrf", "loading"} /\ auth'.loading = auth.loading
    BY <1>2, <2>1
  <2> QED BY <1>1, <1>2, <1>3, <1>5, <2>3, <2>4, LoginMoves
<1>7. CASE SignInFailed(s)
  <2>1. auth' = [auth EXCEPT !.loading = FALSE] /\ net[s].op = "login"
    BY <1>7 DEF SignInFailed, Ready
  <2>2. s \in Mine(net, {"login"})
    BY <1>1, <2>1 DEF Mine
  <2>3. Mine(net', {"login"}) = {}
    BY <1>4, <1>5, <2>2 DEF OneIf
  <2>4. DOMAIN auth' = {"csrf", "loading"} /\ ~auth'.loading
    BY <1>2, <2>1
  <2>5. OneIf(Mine(net', {"login"}), auth'.loading)
    BY <2>3, <2>4 DEF OneIf
  <2> QED BY <1>1, <1>2, <1>3, <2>4, <2>5, LoginMoves
<1> QED BY <1>6, <1>7

(***************************************************************************)
(* The invariant.                                                           *)
(***************************************************************************)
LEMMA QuietStep ==
    ASSUME Inv, FlagInv, UNCHANGED <<page, net, req, auth>>,
           acc' = acc \/ \E u : acc' = [acc EXCEPT !.cooldownUntil = u]
    PROVE  FlagInv'
<1>1. /\ DOMAIN acc' = AccFields /\ acc'.busy = acc.busy /\ acc'.refreshing = acc.refreshing
      /\ acc'.loading = acc.loading /\ acc'.codesLoading = acc.codesLoading
      /\ acc'.image = acc.image /\ acc'.activationLoading = acc.activationLoading
  BY DEF FlagInv, AccountInv, AccFields
<1>2. page' = "account" => AccountFlags(net', acc')
  BY <1>1 DEF FlagInv, AccountInv, AccountFlags
<1> QED BY <1>1, <1>2, NextFlags DEF FlagInv, NetInv, RequestInv, AuthInv

LEMMA OutsideFlags == ASSUME Inv, FlagInv, Outside PROVE FlagInv'
<1>1. CASE AdminStep /\ UNCHANGED <<req, accountVars, auth>>
  BY <1>1, QuietStep DEF AdminStep, Confirm, Reject, Purge, clickVars, accountVars
<1>2. CASE OtherDevice /\ UNCHANGED <<req, accountVars, auth>>
  BY <1>2, OtherDeviceKin, KinFlags DEF OtherDevice, clickVars, accountVars
<1>3. CASE AdminChanges /\ UNCHANGED <<serverVars, req, auth>>
  BY <1>3, QuietStep DEF AdminChanges, clickVars
<1>4. CASE Tick /\ UNCHANGED <<serverVars, req, auth>>
  BY <1>4, QuietStep DEF Tick, browserVars, answerVars, clickVars
<1>5. CASE (UpdateOnline \/ SessionEnds) /\ UNCHANGED <<serverVars, req, accountVars, auth>>
  BY <1>5, QuietStep DEF UpdateOnline, SessionEnds, accountVars
<1>6. ASSUME NEW s \in Slots, Denied(s) \/ Lost(s),
             UNCHANGED <<serverVars, req, accountVars, auth>>
      PROVE  FlagInv'
  <2>1. UNCHANGED <<page, req, acc, auth>>
    BY <1>6 DEF Denied, Lost, answerVars, clickVars, accountVars
  <2>2. CASE Denied(s)
    <3>1. net[s].op # "none" /\ "denied" \in Answers /\ Answer(s, "denied", None)
      BY <2>2 DEF Denied, FlagInv, NetInv, AllProper, Proper, Answers
    <3> QED BY <2>1, <3>1, AnswerKin, KinFlags
  <2>3. CASE Lost(s)
    BY <2>1, <2>3, LostKin, KinFlags
  <2> QED BY <1>6, <2>2, <2>3
<1> QED BY <1>1, <1>2, <1>3, <1>4, <1>5, <1>6 DEF Outside

LEMMA ServeFlags == ASSUME Inv, FlagInv, NEW s \in Slots, Serve(s) PROVE FlagInv'
<1>1. UNCHANGED <<page, req, acc, auth>>
  <2>1. CASE ServerStep(s) /\ UNCHANGED <<req, accountVars, auth>>
    BY <2>1 DEF ServerStep, CreateBegin, CreateEnd, AddSeasonBegin, AddSeasonEnd, ServeRead,
                answerVars, clickVars, accountVars
  <2>2. CASE OwnServerStep(s) /\ UNCHANGED <<serverVars, req, auth>>
    BY <2>2 DEF OwnServerStep, ServeAccount, ServeAction, answerVars, clickVars, accountVars
  <2>3. CASE ServeSession(s) /\ UNCHANGED <<serverVars, req, accountVars>>
    BY <2>3 DEF ServeSession, accountVars
  <2> QED BY <2>1, <2>2, <2>3 DEF Serve
<1> QED BY <1>1, ServeKin, KinFlags

LEMMA DeliverFlags == ASSUME Inv, FlagInv, NEW s \in Slots, Deliver(s) PROVE FlagInv'
<1>1. CASE SignedIn(s)
  BY <1>1, MountFlags DEF SignedIn, Pages, Sections
<1> QED BY <1>1, RequestDeliveryFlags, AccountDeliveryFlags, LoginDeliveryFlags DEF Deliver

LEMMA FlagNext == Inv /\ FlagInv /\ [PortalNext]_vars => FlagInv'
<1> SUFFICES ASSUME Inv, FlagInv, [PortalNext]_vars PROVE FlagInv'
  OBVIOUS
<1>1. CASE Visit
  BY <1>1, MountFlags DEF Visit
<1>2. CASE Click
  BY <1>2, RequestClickFlags, AccountClickFlags, SignInFlags DEF Click
<1>3. CASE UNCHANGED vars
  BY <1>3, QuietStep DEF vars, browserVars, answerVars, clickVars, accountVars
<1> QED BY <1>1, <1>2, <1>3, OutsideFlags, ServeFlags, DeliverFlags DEF PortalNext

LEMMA FlagInit == PortalInit => FlagInv
<1> SUFFICES ASSUME PortalInit PROVE FlagInv
  OBVIOUS
<1> DEFINE r == Fetch("csrf", None)
<1>1. /\ net = [[s \in Slots |-> Idle] EXCEPT ![1] = r] /\ page \in {"requests", "login"}
      /\ req = FreshPage /\ acc = NoAccount /\ auth = FreshAuth
  BY DEF PortalInit
<1>2. r.op = "csrf" /\ \A p \in {"requests", "login"} : Proper(r, p)
  BY FetchProper DEF Fetch, Pages, OpsOf
<1> HIDE DEF r
<1>3. \A s \in Slots : net[s] = Idle \/ net[s] = r
  BY <1>1
<1>4. NetInv
  BY <1>1, <1>2, <1>3, IdleProper DEF NetInv, AllProper, Pages
<1>5. \A ops : "csrf" \notin ops => Mine(net, ops) = {}
  <2>1. Idle.owner # "page"
    BY DEF Idle
  <2> QED BY <1>2, <1>3, <2>1 DEF Mine
<1>6. Writing(net) = {} /\ Mine(net, {"login"}) = {}
  BY <1>5 DEF Writing, Tagged
<1>7. RequestInv
  BY <1>1, <1>6 DEF RequestInv, RequestFlags, AtRest, OneIf, FreshPage
<1>8. AccountInv
  BY <1>1, NoAccountFields DEF AccountInv
<1>9. AuthInv
  BY <1>1, <1>6 DEF AuthInv, OneIf, FreshAuth
<1> QED BY <1>4, <1>7, <1>8, <1>9 DEF FlagInv

LEMMA AlwaysFlag == PortalSpec => []FlagInv
BY FlagInit, FlagNext, PortalInvariance, PTL DEF PortalSpec

LEMMA OneCounted ==
    ASSUME NEW S, NEW b, OneIf(S, b) PROVE Cardinality(S) = (IF b THEN 1 ELSE 0)
<1>1. CASE b
  BY <1>1, FS_Singleton DEF OneIf
<1>2. CASE ~b
  BY <1>2, FS_EmptySet DEF OneIf
<1> QED BY <1>1, <1>2

(* The request page is busy submitting exactly while one of its writes, or  *)
(* the reload of the lists that ends it, is under way: never two at once,   *)
(* and no answer, lost or refused, leaves the button dead.                  *)
THEOREM BusyExactlyWhileWriting == PortalSpec => []BusyWhileWriting
<1>1. ASSUME FlagInv PROVE BusyWhileWriting
  <2>1. WriteChain = Writing(net)
    BY DEF WriteChain, Writing, Owned, Mine, Tagged
  <2>2. OneIf(Writing(net), req.submitting)
    <3>1. CASE page = "requests"
      BY <1>1, <3>1 DEF FlagInv, RequestInv, RequestFlags
    <3>2. CASE page # "requests"
      <4>1. Writing(net) = {}
        BY <1>1, <3>2 DEF FlagInv, NetInv, AllProper, Proper, OpsOf, Pages, Writing, Mine, Tagged
      <4> QED BY <1>1, <3>2, <4>1 DEF FlagInv, RequestInv, AtRest, OneIf
    <3> QED BY <3>1, <3>2
  <2> QED BY <2>1, <2>2, OneCounted DEF BusyWhileWriting
<1> QED BY <1>1, AlwaysFlag, PTL

(* A spinner of the request page turns only while an answer that stops it   *)
(* is still to come.                                                        *)
THEOREM SpinnersHaveAnswers == PortalSpec => []NoDeadSpinner
<1>1. ASSUME FlagInv PROVE NoDeadSpinner
  BY <1>1 DEF FlagInv, RequestInv, RequestFlags, AtRest, NoDeadSpinner, Owned, Mine
<1> QED BY <1>1, AlwaysFlag, PTL

(* The account page is busy exactly while the one action that made it busy, *)
(* or the reloads that follow a redemption, are under way, it refreshes     *)
(* exactly while one refresh is, and each of its spinners has an answer to  *)
(* come.                                                                    *)
THEOREM AccountBusyWithItsOwn == PortalSpec => []AccountBusy
<1>1. ASSUME FlagInv, page = "account" PROVE AccountFlags(net, acc)
  BY <1>1 DEF FlagInv, AccountInv
<1>2. ActionChain = Acting(net) /\ \A ops : Owned(ops) = Mine(net, ops)
  BY DEF ActionChain, Acting, Owned, Mine, Tagged
<1>3. ASSUME FlagInv PROVE AccountBusy
  <2> SUFFICES ASSUME page = "account" PROVE AccountBusy
    BY DEF AccountBusy
  <2>1. OneIf(ActionChain, acc.busy # "") /\ OneIf(Owned({"status"}), acc.refreshing)
    BY <1>1, <1>2, <1>3 DEF AccountFlags
  <2>2. /\ Cardinality(ActionChain) = (IF acc.busy # "" THEN 1 ELSE 0)
        /\ Cardinality(Owned({"status"})) = (IF acc.refreshing THEN 1 ELSE 0)
    BY <2>1, OneCounted, Zenon
  <2> QED BY <1>1, <1>2, <1>3, <2>2 DEF AccountBusy, AccountFlags
<1> QED BY <1>3, AlwaysFlag, PTL

(***************************************************************************)
(* The scan image and the sections.                                         *)
(***************************************************************************)
Images == {"idle", "loading", "ready", "empty", "error"}

Panel(v) == /\ v.section \in Sections
            /\ v.image \in Images
            /\ IsFiniteSet(v.alive)
            /\ v.image = "ready" => v.src # None /\ v.src \in v.alive /\ v.tracked = v.src

(* There is always a number that is not in use.                             *)
LEMMA FreshUrl == ASSUME NEW v, IsFiniteSet(v.alive) PROVE NextUrl(v) \in Nat
<1> DEFINE c == Cardinality(v.alive)
<1>1. c \in Nat
  BY FS_CardinalityType
<1>2. IsFiniteSet(1..(c + 1)) /\ Cardinality(1..(c + 1)) = c + 1
  BY <1>1, FS_Interval
<1>3. ~(1..(c + 1) \subseteq v.alive)
  <2>1. 1..(c + 1) \subseteq v.alive => Cardinality(1..(c + 1)) <= c
    BY FS_Subset
  <2> QED BY <1>1, <1>2, <2>1
<1>4. \E u \in 1..(c + 1) : u \notin v.alive
  BY <1>3
<1>5. NextUrl(v) \in 1..(c + 1)
  BY <1>4 DEF NextUrl
<1> QED BY <1>1, <1>5

LEMMA PanelSame ==
    ASSUME NEW v, Panel(v), NEW w, w.section \in Sections, w.image = v.image,
           w.alive = v.alive, w.src = v.src, w.tracked = v.tracked
    PROVE  Panel(w)
BY DEF Panel

LEMMA PanelDark ==
    ASSUME NEW v, Panel(v), NEW w, w.section \in Sections, w.image \in Images \ {"ready"},
           w.alive \subseteq v.alive
    PROVE  Panel(w)
BY FS_Subset DEF Panel

LEMMA PanelShown ==
    ASSUME NEW v, DOMAIN v = AccFields, Panel(v) PROVE Panel(WithImage(v))
<1> DEFINE u == NextUrl(v)
           w == [v EXCEPT !.alive = @ \cup {u}, !.tracked = u, !.src = u, !.image = "ready"]
<1>1. u \in Nat /\ u # None
  BY FreshUrl, BrowserAssumption DEF Panel
<1>2. WithImage(v) = w
  BY DEF WithImage
<1>3. IsFiniteSet(v.alive \cup {u})
  BY FS_AddElement DEF Panel
<1> HIDE DEF u
<1>4. Panel(w)
  BY <1>1, <1>3 DEF Panel, AccFields, Images
<1> QED BY <1>2, <1>4

LEMMA PanelFresh ==
    ASSUME NEW sec \in Sections
    PROVE  Panel(FreshAccount(sec)) /\ Panel(NoAccount)
BY FS_EmptySet DEF Panel, FreshAccount, NoAccount, Sections, Images

LEMMA PanelDone ==
    ASSUME NEW v, DOMAIN v = AccFields, Panel(v), NEW chain
    PROVE  Panel(Done(v, chain)) /\ Done(v, chain).cooldownUntil = v.cooldownUntil
<1> DEFINE w == Done(v, chain)
<1>1. /\ w.section = v.section /\ w.image = v.image /\ w.alive = v.alive /\ w.src = v.src
      /\ w.tracked = v.tracked /\ w.cooldownUntil = v.cooldownUntil
  BY DEF Done, AccFields
<1> HIDE DEF w
<1>2. Panel(w)
  BY <1>1, PanelSame DEF Panel
<1> QED BY <1>1, <1>2 DEF w

(* An answer on the account page: the login page is loaded, or the panel is *)
(* sound again and the cooldown is left alone.                              *)
Goes == \/ page' = "login" /\ acc' = NoAccount
        \/ UNCHANGED page /\ Panel(acc') /\ acc'.cooldownUntil = acc.cooldownUntil

SamePanel(v, w) ==
    /\ w.section \in Sections
    /\ w.image = v.image /\ w.alive = v.alive /\ w.src = v.src /\ w.tracked = v.tracked
    /\ w.cooldownUntil = v.cooldownUntil

LEMMA PanelDelivery ==
    ASSUME FlagInv, Panel(acc), NEW s \in Slots, AccountDelivery(s) PROVE Goes
<1>0. DOMAIN acc = AccFields
  BY DEF FlagInv, AccountInv
<1>1. ToLogin => Goes
  BY DEF ToLogin, Goes
<1>2. ASSUME SamePanel(acc, acc'), UNCHANGED page PROVE Goes
  BY <1>2, PanelSame DEF Goes, SamePanel
<1>3. CASE DeliverOwnAccount(s)
  <2>1. CASE net[s].status = "denied"
    BY <1>1, <1>3, <2>1 DEF DeliverOwnAccount
  <2>2. CASE net[s].status # "denied"
    <3>1. SamePanel(acc, acc') /\ UNCHANGED page
      BY <1>0, <1>3, <2>2 DEF SamePanel, DeliverOwnAccount, AccFields, Panel, Sections
    <3> QED BY <1>2, <3>1
  <2> QED BY <2>1, <2>2
<1>4. CASE DeliverCodes(s)
  <2>1. CASE ToLogin
    BY <1>1, <2>1
  <2>2. CASE ~ToLogin
    <3>1. SamePanel(acc, acc') /\ UNCHANGED page
      BY <1>0, <1>4, <2>2 DEF SamePanel, DeliverCodes, AccFields, Panel
    <3> QED BY <1>2, <3>1
  <2> QED BY <2>1, <2>2
<1>5. CASE DeliverActivation(s)
  <2> DEFINE chain == net[s].arg
             shown == [acc EXCEPT !.activation = net[s].data]
             bare  == Released(shown)
  <2>1. /\ DOMAIN shown = AccFields /\ shown.section \in Sections /\ shown.image = acc.image
        /\ shown.alive = acc.alive /\ shown.src = acc.src /\ shown.tracked = acc.tracked
        /\ shown.cooldownUntil = acc.cooldownUntil
        /\ DOMAIN bare = AccFields /\ bare.section \in Sections
        /\ bare.alive \subseteq acc.alive /\ bare.cooldownUntil = acc.cooldownUntil
    BY <1>0 DEF Released, AccFields, Panel
  <2>2. \/ ToLogin
        \/ UNCHANGED page /\ acc' = Done(acc, chain)
        \/ UNCHANGED page /\ acc' = Done(shown, chain)
        \/ UNCHANGED page /\ acc' = [bare EXCEPT !.image = "loading"]
        \/ UNCHANGED page /\ \E i \in {"error", "empty"} :
                                 acc' = Done([bare EXCEPT !.image = i], chain)
    BY <1>5 DEF DeliverActivation
  <2> HIDE DEF chain, shown, bare
  <2>3. Panel(shown)
    BY <2>1, PanelSame
  <2>4. ASSUME NEW i \in {"loading", "error", "empty"}
        PROVE  LET w == [bare EXCEPT !.image = i]
               IN  Panel(w) /\ DOMAIN w = AccFields /\ w.cooldownUntil = acc.cooldownUntil
    <3> DEFINE w == [bare EXCEPT !.image = i]
    <3>1. /\ DOMAIN w = AccFields /\ w.section \in Sections /\ w.image \in Images \ {"ready"}
          /\ w.alive \subseteq acc.alive /\ w.cooldownUntil = acc.cooldownUntil
      BY <2>1 DEF AccFields, Images
    <3> HIDE DEF w
    <3>2. Panel(w)
      BY <3>1, PanelDark
    <3> QED BY <3>1, <3>2 DEF w
  <2>5. CASE UNCHANGED page /\ (acc' = Done(acc, chain) \/ acc' = Done(shown, chain))
    BY <1>0, <2>1, <2>3, <2>5, PanelDone DEF Goes
  <2>6. CASE UNCHANGED page /\ acc' = [bare EXCEPT !.image = "loading"]
    BY <2>4, <2>6 DEF Goes
  <2>7. ASSUME UNCHANGED page, NEW i \in {"error", "empty"},
               acc' = Done([bare EXCEPT !.image = i], chain)
        PROVE  Goes
    <3> DEFINE w == [bare EXCEPT !.image = i]
    <3>1. Panel(w) /\ DOMAIN w = AccFields /\ w.cooldownUntil = acc.cooldownUntil
      BY <2>4
    <3>2. acc' = Done(w, chain)
      BY <2>7
    <3> HIDE DEF w
    <3> QED BY <2>7, <3>1, <3>2, PanelDone DEF Goes
  <2> QED BY <1>1, <2>2, <2>5, <2>6, <2>7
<1>6. CASE DeliverImage(s)
  <2>1. CASE net[s].status = "denied"
    BY <1>1, <1>6, <2>1 DEF DeliverImage
  <2>2. CASE net[s].status # "denied"
    <3> DEFINE w == IF Succeeded(s) THEN WithImage(acc)
                    ELSE [acc EXCEPT !.image = IF net[s].data = "missing" THEN "empty"
                                               ELSE "error"]
    <3>1. UNCHANGED page /\ acc' = Done(w, net[s].arg)
      BY <1>6, <2>2 DEF DeliverImage
    <3>2. DOMAIN w = AccFields /\ w.cooldownUntil = acc.cooldownUntil
      BY <1>0 DEF WithImage, AccFields
    <3>3. Panel(w)
      <4>1. CASE Succeeded(s)
        BY <1>0, <4>1, PanelShown
      <4>2. CASE ~Succeeded(s)
        <5>1. /\ w.section \in Sections /\ w.image \in Images \ {"ready"}
              /\ w.alive \subseteq acc.alive
          BY <1>0, <4>2 DEF AccFields, Images, Panel
        <5> HIDE DEF w
        <5> QED BY <5>1, PanelDark
      <4> QED BY <4>1, <4>2
    <3> HIDE DEF w
    <3> QED BY <3>1, <3>2, <3>3, PanelDone DEF Goes
  <2> QED BY <2>1, <2>2
<1>7. CASE DeliverStatus(s)
  <2>1. CASE Expired(s)
    BY <1>1, <1>7, <2>1 DEF DeliverStatus
  <2>2. CASE ~Expired(s)
    <3>1. SamePanel(acc, acc') /\ UNCHANGED page
      BY <1>0, <1>7, <2>2 DEF SamePanel, DeliverStatus, AccFields, Panel
    <3> QED BY <1>2, <3>1
  <2> QED BY <2>1, <2>2
<1>8. CASE DeliverAction(s)
  <2>1. CASE ToLogin
    BY <1>1, <2>1
  <2>2. CASE ~ToLogin
    <3>1. SamePanel(acc, acc') /\ UNCHANGED page
      BY <1>0, <1>8, <2>2 DEF SamePanel, DeliverAction, AccFields, Panel
    <3> QED BY <1>2, <3>1
  <2> QED BY <2>1, <2>2
<1>9. CASE DeliverBillCode(s)
  <2>1. CASE Expired(s)
    BY <1>1, <1>9, <2>1 DEF DeliverBillCode
  <2>2. CASE ~Expired(s)
    <3>1. PICK a : acc' = [acc EXCEPT !.busy = "", !.activation = a]
      BY <1>9, <2>2 DEF DeliverBillCode
    <3>2. UNCHANGED page
      BY <1>9, <2>2 DEF DeliverBillCode
    <3>3. SamePanel(acc, acc')
      BY <1>0, <3>1 DEF SamePanel, AccFields, Panel
    <3> QED BY <1>2, <3>2, <3>3
  <2> QED BY <2>1, <2>2
<1> QED BY <1>3, <1>4, <1>5, <1>6, <1>7, <1>8, <1>9 DEF AccountDelivery

LEMMA PanelClick ==
    ASSUME FlagInv, Panel(acc), AccountClick
    PROVE  /\ Panel(acc') /\ UNCHANGED page
           /\ \/ acc'.cooldownUntil = acc.cooldownUntil /\ UNCHANGED <<cooldown, rested>>
              \/ Refresh
<1>0. DOMAIN acc = AccFields
  BY DEF FlagInv, AccountInv
<1>1. ASSUME SamePanel(acc, acc') PROVE Panel(acc') /\ acc'.cooldownUntil = acc.cooldownUntil
  BY <1>1, PanelSame DEF SamePanel
<1>2. CASE ScanImageError
  <2>1. /\ acc'.section \in Sections /\ acc'.image \in Images \ {"ready"}
        /\ acc'.alive \subseteq acc.alive /\ acc'.cooldownUntil = acc.cooldownUntil
        /\ UNCHANGED <<page, cooldown, rested>>
    BY <1>0, <1>2 DEF ScanImageError, AccFields, Panel, Images, serverOwn, browserVars,
                      answerVars, clickVars
  <2> QED BY <2>1, PanelDark
<1>3. CASE ReloadActivation \/ ReloadCodes \/ Logout
  <2>1. SamePanel(acc, acc') /\ UNCHANGED <<page, cooldown, rested>>
    BY <1>0, <1>3 DEF ReloadActivation, ReloadCodes, Logout, SamePanel, AccFields, Panel, serverOwn, clickVars
  <2> QED BY <1>1, <2>1
<1>4. CASE Refresh
  <2>1. /\ acc'.section \in Sections /\ acc'.image = acc.image /\ acc'.alive = acc.alive
        /\ acc'.src = acc.src /\ acc'.tracked = acc.tracked /\ UNCHANGED page
    BY <1>0, <1>4 DEF Refresh, AccFields, Panel, clickVars
  <2> QED BY <1>4, <2>1, PanelSame
<1>5. ASSUME NEW name, NEW r, Act(name, r)
      PROVE  SamePanel(acc, acc') /\ UNCHANGED <<page, cooldown, rested>>
  BY <1>0, <1>5 DEF Act, SamePanel, AccFields, Panel, serverOwn, clickVars
<1>6. CASE ChangeSettings \/ Redeem \/ ActivateBillCode
  <2>1. PICK name, r : Act(name, r)
    BY <1>6 DEF ChangeSettings, Redeem, ActivateBillCode
  <2> QED BY <1>1, <1>5, <2>1
<1>7. ASSUME NEW next \in Sections, SelectSection(next)
      PROVE  SamePanel(acc, acc') /\ UNCHANGED <<page, cooldown, rested>>
  <2>1. PICK sec \in Sections :
               LET there == [acc EXCEPT !.section = sec]
               IN  \/ acc' = there
                   \/ acc' = [there EXCEPT !.activationLoading = TRUE]
                   \/ acc' = [there EXCEPT !.activationLoading = TRUE, !.codesLoading = TRUE]
    BY <1>7 DEF SelectSection, Sections
  <2>2. UNCHANGED <<page, cooldown, rested>>
    BY <1>7 DEF SelectSection, clickVars, serverOwn
  <2> QED BY <1>0, <2>1, <2>2 DEF SamePanel, AccFields, Panel
<1> QED BY <1>1, <1>2, <1>3, <1>4, <1>6, <1>7 DEF AccountClick

(***************************************************************************)
(* The cooldown.                                                            *)
(***************************************************************************)
PanelInv == Panel(acc) /\ RestInv

(* A step that leaves the cooldown alone, unless the page is left.          *)
LEMMA RestKept ==
    ASSUME RestInv, UNCHANGED <<cooldown, rested>>,
           \/ page' # "account"
           \/ UNCHANGED page /\ acc'.cooldownUntil = acc.cooldownUntil
    PROVE  RestInv'
BY DEF RestInv

LEMMA MountPanel ==
    ASSUME PanelInv, NEW p \in Pages, NEW sec \in Sections, Mount(p, sec),
           UNCHANGED <<cooldown, rested>>
    PROVE  PanelInv'
<1>1. Panel(acc')
  BY PanelFresh DEF Mount
<1>2. page' = "account" => acc'.cooldownUntil = cooldown
  BY DEF Mount, FreshAccount
<1>3. RestInv'
  BY <1>2 DEF PanelInv, RestInv
<1> QED BY <1>1, <1>3 DEF PanelInv, Panel

LEMMA PanelNext == FlagInv /\ PanelInv /\ [PortalNext]_vars => PanelInv'
<1> SUFFICES ASSUME FlagInv, PanelInv, [PortalNext]_vars PROVE PanelInv'
  OBVIOUS
<1>0. Panel(acc) /\ RestInv /\ DOMAIN acc = AccFields
  BY DEF PanelInv, FlagInv, AccountInv
<1>1. ASSUME UNCHANGED <<acc, cooldown, rested>>, page' # "account" \/ UNCHANGED page
      PROVE  PanelInv'
  BY <1>0, <1>1, RestKept DEF PanelInv, Panel
<1>2. ASSUME Panel(acc'), RestInv' PROVE PanelInv'
  BY <1>2 DEF PanelInv, Panel
<1>3. CASE Visit
  BY <1>3, MountPanel DEF Visit, serverOwn
<1>4. CASE Click
  <2>1. CASE RequestClick /\ UNCHANGED <<accountVars, auth>>
    <3>1. UNCHANGED page
      BY <2>1 DEF RequestClick, RefreshLists, Search, CloseDetailDialog, Subscribe, LogoutHere,
        ChangeTab, Select, SubscribeSeason, clickVars, browserVars, answerVars
    <3> QED BY <1>1, <2>1, <3>1 DEF accountVars
  <2>2. CASE AccountClick
    <3>1. Panel(acc') /\ UNCHANGED page
      BY <1>0, <2>2, PanelClick
    <3>2. CASE Refresh
      BY <1>0, <1>2, <3>1, <3>2, AccountAssumption DEF Refresh, RestInv, AccFields
    <3>3. CASE ~Refresh
      BY <1>0, <1>2, <2>2, <3>1, <3>3, PanelClick, RestKept
    <3> QED BY <3>2, <3>3
  <2>3. CASE SignIn /\ UNCHANGED <<serverVars, req, accountVars>>
    BY <1>1, <2>3 DEF SignIn, clickVars, accountVars
  <2> QED BY <1>4, <2>1, <2>2, <2>3 DEF Click
<1>5. CASE Outside
  <2>1. CASE Tick
    <3>1. /\ UNCHANGED page /\ acc'.section = acc.section /\ acc'.image = acc.image
          /\ acc'.alive = acc.alive /\ acc'.src = acc.src /\ acc'.tracked = acc.tracked
          /\ acc'.cooldownUntil = Less(acc.cooldownUntil)
      BY <1>0, <2>1 DEF Tick, AccFields, browserVars, answerVars, clickVars
    <3>2. Panel(acc')
      BY <1>0, <3>1, PanelSame DEF Panel
    <3>3. RestInv'
      BY <1>0, <2>1, <3>1, AccountAssumption DEF Tick, RestInv, Less
    <3> QED BY <1>2, <3>2, <3>3
  <2>2. CASE ~Tick
    BY <1>1, <1>5, <2>2 DEF Outside, AdminStep, Confirm, Reject, Purge, OtherDevice, AdminChanges,
       UpdateOnline, SessionEnds, Denied, Lost, clickVars, answerVars, accountVars
  <2> QED BY <2>1, <2>2
<1>6. ASSUME NEW s \in Slots, Serve(s) PROVE PanelInv'
  <2>1. CASE ServerStep(s) /\ UNCHANGED <<req, accountVars, auth>>
    BY <1>1, <2>1 DEF ServerStep, CreateBegin, CreateEnd, AddSeasonBegin, AddSeasonEnd, ServeRead,
                answerVars, clickVars, accountVars
  <2>2. CASE OwnServerStep(s)
    BY <1>1, <2>2 DEF OwnServerStep, ServeAccount, ServeAction, answerVars, clickVars, accountVars
  <2>3. CASE ServeSession(s) /\ UNCHANGED <<serverVars, req, accountVars>>
    BY <1>1, <2>3 DEF ServeSession, accountVars
  <2> QED BY <1>6, <2>1, <2>2, <2>3 DEF Serve
<1>7. ASSUME NEW s \in Slots, Deliver(s) PROVE PanelInv'
  <2>1. CASE RequestDelivery(s) /\ UNCHANGED <<accountVars, auth>>
    <3>1. UNCHANGED page \/ page' = "login"
      BY <2>1 DEF RequestDelivery, DeliverCsrf, DeliverAccount, DeliverLists, DeliverSearch,
         DeliverRow, DeliverWork, DeliverCreate, DeliverSeason, DeliverLogout, answerVars, clickVars
    <3> QED BY <1>1, <2>1, <3>1 DEF accountVars
  <2>2. CASE AccountDelivery(s)
    <3>1. Goes
      BY <1>0, <2>2, PanelDelivery
    <3>2. UNCHANGED <<cooldown, rested>>
      BY <2>2 DEF AccountDelivery, DeliverOwnAccount, DeliverCodes, DeliverActivation, DeliverImage,
         DeliverStatus, DeliverAction, DeliverBillCode, serverOwn
    <3>3. Panel(acc')
      BY <3>1, PanelFresh DEF Goes, Sections
    <3>4. RestInv'
      BY <1>0, <3>1, <3>2, RestKept DEF Goes
    <3> QED BY <1>2, <3>3, <3>4
  <2>3. CASE (AuthToken(s) \/ SignInFailed(s)) /\ UNCHANGED <<serverVars, req, accountVars>>
    BY <1>1, <2>3 DEF AuthToken, SignInFailed, answerVars, clickVars, accountVars
  <2>4. CASE SignedIn(s)
    BY <2>4, MountPanel DEF SignedIn, Pages, Sections, serverOwn
  <2> QED BY <1>7, <2>1, <2>2, <2>3, <2>4 DEF Deliver
<1>8. CASE UNCHANGED vars
  BY <1>1, <1>8 DEF vars, browserVars, answerVars, clickVars, accountVars
<1> QED BY <1>3, <1>4, <1>5, <1>6, <1>7, <1>8 DEF PortalNext

LEMMA PanelInit == PortalInit => PanelInv
<1> SUFFICES ASSUME PortalInit PROVE PanelInv
  OBVIOUS
<1>1. acc = NoAccount /\ page # "account" /\ cooldown = 0 /\ rested = Cooldown
  BY DEF PortalInit, OwnInit
<1>2. Panel(NoAccount)
  BY PanelFresh DEF Sections
<1> QED BY <1>1, <1>2, AccountAssumption DEF PanelInv, RestInv

LEMMA AlwaysPanel == PortalSpec => []PanelInv
BY PanelInit, PanelNext, AlwaysFlag, PTL DEF PortalSpec

(* The scan image on the screen is an object URL that has not been revoked, *)
(* and the one that the next release revokes, however many loads of the     *)
(* image and of the activation overlap.                                     *)
THEOREM ShownImageIsAlive == PortalSpec => []ReadyImageIsAlive
<1>1. PanelInv => ReadyImageIsAlive
  BY DEF PanelInv, Panel, ReadyImageIsAlive
<1> QED BY <1>1, AlwaysPanel, PTL

(* No request for the status of the account is new.                         *)
NoneNew(n, m) == \A s \in Slots : m[s].op = "status" => n[s].op = "status"

LEMMA AskedOther ==
    ASSUME NEW n, DOMAIN n = Slots, NEW t, NEW r, r.op # "status"
    PROVE  NoneNew(n, [n EXCEPT ![t] = r])
BY DEF NoneNew

LEMMA LeftNone == ASSUME Inv PROVE NoneNew(net, Abandoned) /\ DOMAIN Abandoned = Slots
<1>1. ASSUME NEW s \in Slots, Abandoned[s].op = "status" PROVE net[s].op = "status"
  <2>1. Idle.op # "status"
    BY DEF Idle
  <2>2. Abandoned[s] = Idle \/ Abandoned[s] = [net[s] EXCEPT !.owner = "gone"]
        \/ Abandoned[s] = net[s]
    BY DEF Abandoned
  <2>3. [net[s] EXCEPT !.owner = "gone"].op = net[s].op
    BY NetShape DEF Fields
  <2> QED BY <1>1, <2>1, <2>2, <2>3
<1> QED BY <1>1 DEF NoneNew, Abandoned

LEMMA MountNone == ASSUME Inv, FlagInv, NEW p, NEW sec, Mount(p, sec) PROVE NoneNew(net, net')
<1> DEFINE starts == OnMounted(p, sec)
<1>1. \A i \in DOMAIN starts : starts[i].op # "status"
  <2> DEFINE one   == Fetch("account", None)
             two   == Fetch("activation", "")
             three == Fetch("codes", "")
             token == Fetch("csrf", None)
  <2>1. one.op # "status" /\ two.op # "status" /\ three.op # "status" /\ token.op # "status"
    BY DEF Fetch
  <2>2. \/ starts = <<token>> \/ starts = <<one>> \/ starts = <<one, two>>
        \/ starts = <<one, two, three>>
    BY Zenon DEF OnMounted, MountRequests
  <2> HIDE DEF one, two, three, token, starts
  <2> QED BY <2>1, <2>2
<1> DEFINE n == Abandoned
<1>2. net' = Placed(n, starts)
  BY DEF Mount
<1>3. NoneNew(net, n)
  BY LeftNone
<1> HIDE DEF starts, n
<1>4. \A s \in Slots : net'[s] = n[s] \/ \E i \in DOMAIN starts : net'[s] = starts[i]
  BY <1>2 DEF Placed
<1> QED BY <1>1, <1>3, <1>4 DEF NoneNew

LEMMA ToLoginNone == ASSUME Inv, ToLogin PROVE NoneNew(net, net')
<1> DEFINE n == Abandoned
           r == Fetch("csrf", None)
<1>1. NoneNew(net, n) /\ DOMAIN n = Slots /\ net' = With(n, r) /\ r.op # "status"
  BY LeftNone DEF ToLogin, Fetch
<1> HIDE DEF n, r
<1> QED BY <1>1 DEF With, NoneNew

LEMMA SettleNone == ASSUME Inv, NEW s \in Slots, Settle(s) PROVE NoneNew(net, net')
BY NetShape, AskedOther DEF Settle, Settled, Idle

LEMMA FollowNone ==
    ASSUME Inv, NEW s \in Slots, NEW op, NEW arg, op # "status", Follow(s, Fetch(op, arg))
    PROVE  NoneNew(net, net')
BY NetShape, AskedOther DEF Follow, Fetch

LEMMA SendNone ==
    ASSUME Inv, NEW op, NEW arg, op # "status", Send(Fetch(op, arg)) PROVE NoneNew(net, net')
BY NetShape, AskedOther DEF Send, With, Fetch

LEMMA AnswerNone ==
    ASSUME Inv, NEW s \in Slots, NEW status, NEW value, Answer(s, status, value)
    PROVE  NoneNew(net, net')
<1> DEFINE r == [net[s] EXCEPT !.status = status, !.data = value]
<1>1. r.op = net[s].op
  BY NetShape DEF Fields
<1>2. net' = [net EXCEPT ![s] = Idle] \/ net' = [net EXCEPT ![s] = r]
  BY NetShape DEF Answer, Answered
<1>3. Idle.op # "status"
  BY DEF Idle
<1> HIDE DEF r
<1> QED BY <1>1, <1>2, <1>3, NetShape DEF NoneNew

LEMMA SendTwoNone ==
    ASSUME Inv, NEW r1, NEW r2, r1.op # "status", r2.op # "status", SendTwo(r1, r2)
    PROVE  NoneNew(net, net')
<1> DEFINE n == With(net, r1)
<1>1. DOMAIN n = Slots /\ NoneNew(net, n)
  BY NetShape, AskedOther DEF With
<1>2. net' = With(n, r2)
  BY DEF SendTwo
<1> HIDE DEF n
<1>3. NoneNew(n, net')
  BY <1>1, <1>2, AskedOther DEF With
<1> QED BY <1>1, <1>3 DEF NoneNew

(* Two refreshes of the account are a cooldown apart, and neither a reload  *)
(* of the page nor a visit to another one in between shortens that.         *)
THEOREM RefreshesAreSpaced == PortalSpec => RefreshSpaced
<1>1. ASSUME Inv, FlagInv, PanelInv, [PortalNext]_vars
      PROVE  [StatusRequests' \subseteq StatusRequests \/ rested = Cooldown]_accountVars
  <2>1. NoneNew(net, net') => StatusRequests' \subseteq StatusRequests
    BY DEF NoneNew, StatusRequests
  <2>2. UNCHANGED net => NoneNew(net, net')
    BY DEF NoneNew
  <2>3. CASE Visit
    BY <1>1, <2>1, <2>3, MountNone DEF Visit
  <2>4. CASE Click
    <3>1. CASE AccountClick
      <4>0. \A op \in {"activation", "codes", "settings", "redeem", "bill", "logout"} : op # "status"
        OBVIOUS
      <4>1. CASE Refresh
        BY <1>1, <4>1, AccountAssumption DEF Refresh, PanelInv, RestInv
      <4>2. ASSUME NEW next, SelectSection(next) PROVE NoneNew(net, net')
        <5>1. Fetch("activation", "").op # "status" /\ Fetch("codes", "").op # "status"
          BY DEF Fetch
        <5>2. \/ UNCHANGED net
              \/ Send(Fetch("activation", ""))
              \/ SendTwo(Fetch("activation", ""), Fetch("codes", ""))
          BY <4>2 DEF SelectSection
        <5> QED BY <1>1, <2>2, <5>1, <5>2, SendNone, SendTwoNone
      <4>3. CASE ScanImageError
        BY <2>1, <2>2, <4>3 DEF ScanImageError, browserVars
      <4>4. CASE \/ ReloadActivation \/ ReloadCodes \/ Logout
                 \/ ChangeSettings \/ Redeem \/ ActivateBillCode
        <5>1. PICK op \in {"activation", "codes", "settings", "redeem", "bill", "logout"} :
                     \E arg : Send(Fetch(op, arg))
          BY <4>4 DEF ReloadActivation, ReloadCodes, Logout, ChangeSettings, Redeem,
             ActivateBillCode, Act
        <5> QED BY <1>1, <2>1, <4>0, <5>1, SendNone
      <4> QED BY <2>1, <3>1, <4>1, <4>2, <4>3, <4>4 DEF AccountClick
    <3>2. CASE UNCHANGED accountVars
      BY <3>2
    <3> QED BY <2>4, <3>1, <3>2 DEF Click
  <2>5. CASE Outside
    <3>1. CASE AdminChanges \/ Tick
      BY <2>1, <2>2, <3>1 DEF AdminChanges, Tick, browserVars
    <3>2. CASE UNCHANGED accountVars
      BY <3>2
    <3> QED BY <2>5, <3>1, <3>2 DEF Outside
  <2>6. ASSUME NEW s \in Slots, Serve(s)
        PROVE  NoneNew(net, net') \/ UNCHANGED accountVars
    <3>1. CASE OwnServerStep(s)
      <4>1. \E status, value : Answer(s, status, value)
        BY <3>1 DEF OwnServerStep, ServeAccount, ServeAction
      <4> QED BY <1>1, <4>1, AnswerNone
    <3> QED BY <2>6, <3>1 DEF Serve
  <2>7. ASSUME NEW s \in Slots, Deliver(s)
        PROVE  NoneNew(net, net') \/ UNCHANGED accountVars
    <3>1. CASE AccountDelivery(s)
      <4>1. \/ ToLogin \/ Settle(s)
            \/ \E op \in {"activation", "image", "codes"} : \E arg : Follow(s, Fetch(op, arg))
        BY <3>1 DEF AccountDelivery, DeliverOwnAccount, DeliverCodes, DeliverActivation,
           DeliverImage, DeliverStatus, DeliverAction, DeliverBillCode
      <4>2. \A op \in {"activation", "image", "codes"} : op # "status"
        OBVIOUS
      <4> QED BY <1>1, <4>1, <4>2, ToLoginNone, SettleNone, FollowNone
    <3>2. CASE SignedIn(s)
      BY <1>1, <3>2, MountNone DEF SignedIn
    <3> QED BY <2>7, <3>1, <3>2 DEF Deliver
  <2>8. CASE UNCHANGED vars
    BY <2>8 DEF vars
  <2> QED BY <1>1, <2>1, <2>3, <2>4, <2>5, <2>6, <2>7, <2>8 DEF PortalNext
<1> QED BY <1>1, PortalInvariance, AlwaysFlag, AlwaysPanel, PTL DEF PortalSpec, RefreshSpaced

(***************************************************************************)
(* Lists of codes.                                                          *)
(***************************************************************************)
(* Induction over the numbers, for a set of them.                           *)
LEMMA LeastNumber ==
    ASSUME NEW S \in SUBSET Nat, S # {} PROVE \E x \in S : \A y \in S : x <= y
<1>1. PICK x \in S : \A y \in S : ~(<<y, x>> \in OpToRel(<, Nat))
  BY NatLessThanWellFounded, WFMin
<1>2. \A y, z \in Nat : <<y, z>> \in OpToRel(<, Nat) <=> y < z
  BY DEF OpToRel
<1>3. ASSUME NEW y \in S PROVE x <= y
  <2>1. x \in Nat /\ y \in Nat /\ ~(y < x)
    BY <1>1, <1>2
  <2> QED BY <2>1
<1> QED BY <1>3

LEMMA AllNumbers ==
    ASSUME NEW S, 0 \in S, \A n \in S \cap Nat : n + 1 \in S PROVE Nat \subseteq S
<1> DEFINE R == Nat \ S
<1>1. SUFFICES ASSUME R # {} PROVE FALSE
  OBVIOUS
<1>2. PICK x \in R : \A y \in R : x <= y
  <2>1. R \in SUBSET Nat
    OBVIOUS
  <2> HIDE DEF R
  <2> QED BY <1>1, <2>1, LeastNumber
<1>3. x \in Nat /\ x # 0 /\ x \notin S
  BY <1>2
<1>4. x - 1 \in Nat /\ x - 1 \notin R
  BY <1>2, <1>3
<1>5. (x - 1) + 1 = x
  BY <1>3
<1> QED BY <1>3, <1>4, <1>5

(* filter, one element after the other: the function of Without exists.     *)
Filters(f, list, c, n) ==
    f = [i \in 0..n |-> IF i = 0 THEN <<>>
                        ELSE IF list[i] = c THEN f[i - 1] ELSE Append(f[i - 1], list[i])]

LEMMA FilterExists == ASSUME NEW list, NEW c PROVE \A n \in Nat : \E f : Filters(f, list, c, n)
<1> DEFINE S == {n \in Nat : \E f : Filters(f, list, c, n)}
<1>1. 0 \in S
  <2>1. Filters([i \in 0..0 |-> <<>>], list, c, 0)
    BY DEF Filters
  <2> QED BY <2>1
<1>2. ASSUME NEW n \in S \cap Nat PROVE n + 1 \in S
  <2>1. PICK f : Filters(f, list, c, n)
    OBVIOUS
  <2> DEFINE g == [i \in 0..(n + 1) |->
                     IF i = n + 1 THEN IF list[i] = c THEN f[n] ELSE Append(f[n], list[i])
                     ELSE f[i]]
  <2>2. ASSUME NEW i \in 0..(n + 1)
        PROVE  g[i] = IF i = 0 THEN <<>>
                      ELSE IF list[i] = c THEN g[i - 1] ELSE Append(g[i - 1], list[i])
    <3>1. CASE i = n + 1
      <4>1. i # 0 /\ i - 1 = n /\ n \in 0..(n + 1) /\ n # n + 1
        BY <3>1
      <4>2. g[i - 1] = f[n]
        BY <4>1
      <4> QED BY <3>1, <4>1, <4>2
    <3>2. CASE i \in 0..n /\ i # 0
      <4>1. i - 1 \in 0..n /\ i # n + 1 /\ i - 1 # n + 1 /\ i - 1 \in 0..(n + 1)
        BY <3>2
      <4>2. g[i] = f[i] /\ g[i - 1] = f[i - 1]
        BY <4>1
      <4>3. f[i] = IF list[i] = c THEN f[i - 1] ELSE Append(f[i - 1], list[i])
        BY <2>1, <3>2 DEF Filters
      <4> HIDE DEF g
      <4> QED BY <3>2, <4>2, <4>3
    <3>3. CASE i = 0
      <4>1. f[0] = <<>> /\ 0 # n + 1
        BY <2>1 DEF Filters
      <4> QED BY <3>3, <4>1
    <3> QED BY <3>1, <3>2, <3>3
  <2>3. DOMAIN g = 0..(n + 1)
    OBVIOUS
  <2>4. g = [i \in 0..(n + 1) |-> g[i]]
    BY <2>3
  <2> HIDE DEF g
  <2>5. Filters(g, list, c, n + 1)
    BY <2>2, <2>4 DEF Filters
  <2> QED BY <2>5
<1> HIDE DEF S
<1>3. Nat \subseteq S
  BY <1>1, <1>2, AllNumbers
<1> QED BY <1>3 DEF S

LEMMA WithoutFilters ==
    ASSUME NEW list, NEW c, Len(list) \in Nat
    PROVE  \E f : Filters(f, list, c, Len(list)) /\ Without(list, c) = f[Len(list)]
<1> DEFINE f == CHOOSE g : Filters(g, list, c, Len(list))
<1>1. Filters(f, list, c, Len(list))
  BY FilterExists
<1>2. Without(list, c) = f[Len(list)]
  BY DEF Without, Filters
<1> QED BY <1>1, <1>2

(* What is left of the first n elements of a list without repetitions.      *)
Left(q, list, c, n) ==
    /\ q \in Seq(Codes) /\ Distinct(q)
    /\ \A i \in DOMAIN q : q[i] # c /\ \E j \in 1..n : q[i] = list[j]

LEMMA LeftMore ==
    ASSUME NEW list \in Seq(Codes), Distinct(list), NEW c, NEW n \in Nat, n + 1 <= Len(list),
           NEW q, Left(q, list, c, n), list[n + 1] # c
    PROVE  Left(Append(q, list[n + 1]), list, c, n + 1)
<1> DEFINE x == list[n + 1]
           p == Append(q, x)
<1>1. x \in Codes /\ x # c /\ n + 1 \in 1..(n + 1)
  OBVIOUS
<1>2. q \in Seq(Codes) /\ Len(q) \in Nat /\ DOMAIN q = 1..Len(q)
  BY DEF Left
<1>3. /\ p \in Seq(Codes) /\ DOMAIN p = 1..(Len(q) + 1)
      /\ \A i \in 1..Len(q) : p[i] = q[i]
      /\ p[Len(q) + 1] = x
  BY <1>1, <1>2
<1>4. \A i \in 1..Len(q) : q[i] # c /\ \E j \in 1..n : q[i] = list[j]
  BY <1>2 DEF Left
<1>5. \A j \in 1..n : list[j] # x
  BY DEF Distinct
<1>6. \A i \in 1..Len(q) : q[i] # x
  BY <1>4, <1>5
<1>7. \A i, j \in 1..Len(q) : q[i] = q[j] => i = j
  BY <1>2 DEF Left, Distinct
<1> HIDE DEF x, p
<1>8. Distinct(p)
  BY <1>2, <1>3, <1>6, <1>7 DEF Distinct
<1>9. \A i \in DOMAIN p : p[i] # c /\ \E j \in 1..(n + 1) : p[i] = list[j]
  <2>1. ASSUME NEW i \in 1..Len(q) PROVE p[i] # c /\ \E j \in 1..(n + 1) : p[i] = list[j]
    <3>1. PICK j \in 1..n : q[i] = list[j]
      BY <1>4
    <3>2. j \in 1..(n + 1) /\ p[i] = list[j]
      BY <1>3, <3>1
    <3> QED BY <1>3, <1>4, <3>2
  <2>2. x = list[n + 1]
    BY DEF x
  <2>3. p[Len(q) + 1] # c /\ \E j \in 1..(n + 1) : p[Len(q) + 1] = list[j]
    BY <1>1, <1>3, <2>2
  <2> QED BY <1>2, <1>3, <2>1, <2>3
<1>10. Left(p, list, c, n + 1)
  BY <1>3, <1>8, <1>9 DEF Left
<1> QED BY <1>10 DEF x, p

(* Without takes the code c out of a list without repetitions, adds nothing *)
(* and repeats nothing.                                                     *)
LEMMA WithoutLeft ==
    ASSUME NEW list \in Seq(Codes), Distinct(list), NEW c
    PROVE  Left(Without(list, c), list, c, Len(list))
<1>1. PICK f : Filters(f, list, c, Len(list)) /\ Without(list, c) = f[Len(list)]
  BY WithoutFilters
<1> DEFINE S == {n \in Nat : n <= Len(list) => Left(f[n], list, c, n)}
<1>2. \A i \in 0..Len(list) :
          f[i] = IF i = 0 THEN <<>>
                 ELSE IF list[i] = c THEN f[i - 1] ELSE Append(f[i - 1], list[i])
  BY <1>1 DEF Filters
<1>3. 0 \in S
  <2>1. f[0] = <<>>
    BY <1>2
  <2>2. Left(<<>>, list, c, 0)
    BY DEF Left, Distinct
  <2> QED BY <2>1, <2>2
<1>4. ASSUME NEW n \in S \cap Nat PROVE n + 1 \in S
  <2> SUFFICES ASSUME n + 1 <= Len(list) PROVE Left(f[n + 1], list, c, n + 1)
    OBVIOUS
  <2>1. Left(f[n], list, c, n)
    OBVIOUS
  <2>2. f[n + 1] = IF list[n + 1] = c THEN f[n] ELSE Append(f[n], list[n + 1])
    <3>1. n + 1 \in 0..Len(list) /\ n + 1 # 0 /\ (n + 1) - 1 = n
      OBVIOUS
    <3> QED BY <1>2, <3>1
  <2>3. CASE list[n + 1] = c
    <3>1. f[n + 1] = f[n]
      BY <2>2, <2>3
    <3>2. Left(f[n], list, c, n + 1)
      BY <2>1 DEF Left
    <3> QED BY <3>1, <3>2
  <2>4. CASE list[n + 1] # c
    <3>1. f[n + 1] = Append(f[n], list[n + 1])
      BY <2>2, <2>4
    <3>2. Left(Append(f[n], list[n + 1]), list, c, n + 1)
      BY <2>1, <2>4, LeftMore
    <3> QED BY <3>1, <3>2
  <2> QED BY <2>3, <2>4
<1> HIDE DEF S
<1>5. Nat \subseteq S
  BY <1>3, <1>4, AllNumbers
<1>6. Len(list) \in S /\ Len(list) <= Len(list)
  BY <1>5
<1> QED BY <1>1, <1>6 DEF S

(***************************************************************************)
(* What the browser is told about the codes.                                *)
(***************************************************************************)
(* Nothing new has been answered between the networks n and m.              *)
NoNews(n, m) ==
    \A s \in Slots : \/ m[s].status # "ok"
                     \/ m[s].op = n[s].op /\ m[s].status = n[s].status /\ m[s].data = n[s].data

LEMMA NewsPut ==
    ASSUME NEW n, DOMAIN n = Slots, NEW t, NEW r, r.status # "ok"
    PROVE  NoNews(n, [n EXCEPT ![t] = r]) /\ DOMAIN [n EXCEPT ![t] = r] = Slots
BY DEF NoNews

LEMMA NewsWith ==
    ASSUME NEW n, DOMAIN n = Slots, NEW r, r.status # "ok"
    PROVE  NoNews(n, With(n, r)) /\ DOMAIN With(n, r) = Slots
BY NewsPut DEF With

LEMMA NewsAgain ==
    ASSUME NEW n, NEW m, NEW k, NoNews(n, m), NoNews(m, k) PROVE NoNews(n, k)
BY DEF NoNews

LEMMA NewsAbandoned == ASSUME Inv PROVE NoNews(net, Abandoned) /\ DOMAIN Abandoned = Slots
<1>1. ASSUME NEW s \in Slots, Abandoned[s].status = "ok"
      PROVE  /\ Abandoned[s].op = net[s].op /\ Abandoned[s].status = net[s].status
             /\ Abandoned[s].data = net[s].data
  <2>1. Idle.status # "ok"
    BY DEF Idle
  <2>2. Abandoned[s] = Idle \/ Abandoned[s] = [net[s] EXCEPT !.owner = "gone"]
        \/ Abandoned[s] = net[s]
    BY DEF Abandoned
  <2> DEFINE r == [net[s] EXCEPT !.owner = "gone"]
  <2>3. r.op = net[s].op /\ r.status = net[s].status /\ r.data = net[s].data
    BY NetShape DEF Fields
  <2> HIDE DEF r
  <2>4. Abandoned[s] = net[s] \/ Abandoned[s] = r
    BY <1>1, <2>1, <2>2 DEF r
  <2> QED BY <2>3, <2>4
<1> QED BY <1>1 DEF NoNews, Abandoned

LEMMA NewsMount == ASSUME Inv, NEW p, NEW sec, Mount(p, sec) PROVE NoNews(net, net')
<1> DEFINE starts == OnMounted(p, sec)
           n == Abandoned
<1>1. \A i \in DOMAIN starts : starts[i].status # "ok"
  <2> DEFINE one   == Fetch("account", None)
             two   == Fetch("activation", "")
             three == Fetch("codes", "")
             token == Fetch("csrf", None)
  <2>1. /\ one.status # "ok" /\ two.status # "ok" /\ three.status # "ok"
        /\ token.status # "ok"
    BY DEF Fetch
  <2>2. \/ starts = <<token>> \/ starts = <<one>> \/ starts = <<one, two>>
        \/ starts = <<one, two, three>>
    BY Zenon DEF OnMounted, MountRequests
  <2> HIDE DEF one, two, three, token, starts
  <2> QED BY <2>1, <2>2
<1>2. net' = Placed(n, starts)
  BY DEF Mount
<1>3. NoNews(net, n)
  BY NewsAbandoned
<1> HIDE DEF starts, n
<1>4. \A s \in Slots : net'[s] = n[s] \/ \E i \in DOMAIN starts : net'[s] = starts[i]
  BY <1>2 DEF Placed
<1>5. NoNews(n, net')
  BY <1>1, <1>4 DEF NoNews
<1> QED BY <1>3, <1>5, NewsAgain

LEMMA FetchNoNews == ASSUME NEW op, NEW arg PROVE Fetch(op, arg).status # "ok"
BY DEF Fetch

LEMMA NewsLogin ==
    ASSUME Inv, net' = With(Abandoned, Fetch("csrf", None)) PROVE NoNews(net, net')
<1> DEFINE n == Abandoned
           r == Fetch("csrf", None)
<1>1. NoNews(net, n) /\ DOMAIN n = Slots /\ net' = With(n, r) /\ r.status # "ok"
  BY NewsAbandoned, FetchNoNews
<1> HIDE DEF n, r
<1>2. NoNews(n, net')
  BY <1>1, NewsWith
<1> QED BY <1>1, <1>2, NewsAgain

LEMMA NewsSettle == ASSUME Inv, NEW s \in Slots, Settle(s) PROVE NoNews(net, net')
BY NetShape, NewsPut DEF Settle, Settled, Idle

LEMMA NewsFollow ==
    ASSUME Inv, NEW s \in Slots, NEW op, NEW arg, Follow(s, Fetch(op, arg))
    PROVE  NoNews(net, net')
BY NetShape, NewsPut, FetchNoNews DEF Follow

LEMMA NewsSend ==
    ASSUME Inv, NEW r, r.status # "ok", Send(r) PROVE NoNews(net, net')
BY NetShape, NewsWith DEF Send

LEMMA NewsSendTwo ==
    ASSUME Inv, NEW r1, NEW r2, r1.status # "ok", r2.status # "ok", SendTwo(r1, r2)
    PROVE  NoNews(net, net')
<1> DEFINE n == With(net, r1)
<1>1. DOMAIN n = Slots /\ NoNews(net, n)
  BY NetShape, NewsWith
<1>2. net' = With(n, r2)
  BY DEF SendTwo
<1> HIDE DEF n
<1>3. NoNews(n, net')
  BY <1>1, <1>2, NewsWith
<1> QED BY <1>1, <1>3, NewsAgain

LEMMA NewsStale == ASSUME Inv PROVE NoNews(net, StaleEntries(net)) /\ DOMAIN StaleEntries(net) = Slots
<1> DEFINE n == StaleEntries(net)
<1>1. DOMAIN n = Slots
  BY DEF StaleEntries
<1>2. ASSUME NEW s \in Slots
      PROVE  n[s].op = net[s].op /\ n[s].data = net[s].data /\ n[s].status = net[s].status
  BY NetShape DEF StaleEntries, Fields
<1> HIDE DEF n
<1>3. NoNews(net, n)
  BY <1>2 DEF NoNews
<1> QED BY <1>1, <1>3 DEF n

LEMMA NewsLost == ASSUME Inv, FlagInv, NEW s \in Slots, Lost(s) PROVE NoNews(net, net')
<1> DEFINE failed == [net EXCEPT ![s].status = "failed", ![s].data = None]
           gone == [net[s] EXCEPT !.owner = "gone"]
           r == [net[s] EXCEPT !.status = "failed", !.data = None]
<1>1. r.status = "failed" /\ gone.status = net[s].status
  BY NetShape DEF Fields
<1>2. failed = [net EXCEPT ![s] = r]
  BY NetShape
<1>3. \/ net' = failed
      \/ net[s].status = "held" /\ net' = With(failed, gone)
  BY DEF Lost
<1> HIDE DEF failed, gone, r
<1>4. NoNews(net, failed) /\ DOMAIN failed = Slots
  BY <1>1, <1>2, NetShape, NewsPut
<1>5. net[s].status = "held" => NoNews(failed, With(failed, gone))
  BY <1>1, <1>4, NewsWith
<1> QED BY <1>3, <1>4, <1>5, NewsAgain

(* The news that a server's answer brings.                                  *)
LEMMA NewsAnswer ==
    ASSUME Inv, \A s \in Slots : TellsCodes(net[s]), NEW s \in Slots, NEW status, NEW value,
           Answer(s, status, value) \/ (status = "held" /\ Hold(s, value)),
           status = "ok" => /\ net[s].op = "activation" => Listing(value)
                            /\ net[s].op = "bill" => value.code \in Codes
    PROVE  \A q \in Slots : TellsCodes(net'[q])
<1> DEFINE r == [net[s] EXCEPT !.status = status, !.data = value]
<1>1. r.op = net[s].op /\ r.status = status /\ r.data = value
  BY NetShape DEF Fields
<1>2. net' = [net EXCEPT ![s] = Idle] \/ net' = [net EXCEPT ![s] = r]
  BY NetShape DEF Answer, Answered, Hold
<1>3. Idle.status # "ok"
  BY DEF Idle
<1> HIDE DEF r
<1>4. TellsCodes(r) /\ TellsCodes(Idle)
  BY <1>1, <1>3 DEF TellsCodes
<1> QED BY <1>2, <1>4, NetShape

LEMMA NewsNone ==
    ASSUME \A s \in Slots : TellsCodes(net[s]), NoNews(net, net')
    PROVE  \A s \in Slots : TellsCodes(net'[s])
BY DEF NoNews, TellsCodes

LEMMA RequestNews ==
    ASSUME Inv, NEW s \in Slots, RequestDelivery(s) PROVE NoNews(net, net')
<1>1. CASE DeliverLists(s)
  <2> DEFINE n == IF Succeeded(s) THEN StaleEntries(net) ELSE net
  <2>1. net' = [n EXCEPT ![s] = Idle]
    BY <1>1 DEF DeliverLists
  <2>2. NoNews(net, n) /\ DOMAIN n = Slots
    BY NewsStale, NetShape DEF NoNews
  <2> HIDE DEF n
  <2>3. NoNews(n, net')
    BY <2>1, <2>2, NewsPut DEF Idle
  <2> QED BY <2>2, <2>3, NewsAgain
<1>2. CASE DeliverLogout(s)
  BY <1>2, NewsLogin, NewsSettle DEF DeliverLogout
<1>3. CASE ~DeliverLists(s) /\ ~DeliverLogout(s)
  <2>1. Settle(s) \/ \E op, arg : Follow(s, Fetch(op, arg))
    BY <1>3 DEF RequestDelivery, DeliverCsrf, DeliverAccount, DeliverSearch, DeliverRow,
       DeliverWork, DeliverCreate, DeliverSeason
  <2> QED BY <2>1, NewsSettle, NewsFollow
<1> QED BY <1>1, <1>2, <1>3

LEMMA ClickNews == ASSUME Inv, RequestClick \/ AccountClick \/ SignIn PROVE NoNews(net, net')
<1>1. ASSUME NEW op, NEW arg, Send(Fetch(op, arg)) PROVE NoNews(net, net')
  BY <1>1, FetchNoNews, NewsSend
<1>2. UNCHANGED net => NoNews(net, net')
  BY DEF NoNews
<1>3. CASE RequestClick
  <2>1. UNCHANGED net \/ \E op, arg : Send(Fetch(op, arg))
    <3>1. CASE RefreshLists \/ Search \/ CloseDetailDialog \/ LogoutHere
      BY <3>1 DEF RefreshLists, Search, CloseDetailDialog, LogoutHere, browserVars
    <3>2. ASSUME NEW override, SubmitRequest(override)
          PROVE  UNCHANGED net \/ \E op, arg : Send(Fetch(op, arg))
      BY <3>2 DEF SubmitRequest
    <3>3. CASE Subscribe
      BY <3>2, <3>3 DEF Subscribe
    <3>4. ASSUME NEW t, ChangeTab(t) PROVE UNCHANGED net \/ \E op, arg : Send(Fetch(op, arg))
      BY <3>4 DEF ChangeTab
    <3>5. ASSUME NEW x, Select(x) PROVE UNCHANGED net \/ \E op, arg : Send(Fetch(op, arg))
      BY <3>5 DEF Select
    <3>6. ASSUME NEW n, SubscribeSeason(n)
          PROVE  UNCHANGED net \/ \E op, arg : Send(Fetch(op, arg))
      BY <3>2, <3>6 DEF SubscribeSeason
    <3> QED BY <1>3, <3>1, <3>3, <3>4, <3>5, <3>6 DEF RequestClick
  <2> QED BY <1>1, <1>2, <2>1
<1>4. CASE AccountClick
  <2>1. \/ UNCHANGED net \/ \E op, arg : Send(Fetch(op, arg))
        \/ SendTwo(Fetch("activation", ""), Fetch("codes", ""))
    <3>1. CASE ScanImageError
      BY <3>1 DEF ScanImageError, browserVars
    <3>2. ASSUME NEW next, SelectSection(next)
          PROVE  \/ UNCHANGED net \/ \E op, arg : Send(Fetch(op, arg))
                 \/ SendTwo(Fetch("activation", ""), Fetch("codes", ""))
      BY <3>2 DEF SelectSection
    <3>3. CASE ReloadActivation \/ ReloadCodes \/ Refresh \/ Logout
      BY <3>3 DEF ReloadActivation, ReloadCodes, Refresh, Logout
    <3>4. CASE ChangeSettings \/ Redeem \/ ActivateBillCode
      BY <3>4 DEF ChangeSettings, Redeem, ActivateBillCode, Act
    <3> QED BY <1>4, <3>1, <3>2, <3>3, <3>4 DEF AccountClick
  <2>2. CASE SendTwo(Fetch("activation", ""), Fetch("codes", ""))
    <3> DEFINE r1 == Fetch("activation", "")
               r2 == Fetch("codes", "")
    <3>1. r1.status # "ok" /\ r2.status # "ok" /\ SendTwo(r1, r2)
      BY <2>2, FetchNoNews
    <3> HIDE DEF r1, r2
    <3> QED BY <3>1, NewsSendTwo
  <2> QED BY <1>1, <1>2, <2>1, <2>2
<1>5. CASE SignIn
  BY <1>1, <1>5 DEF SignIn
<1> QED BY <1>3, <1>4, <1>5

LEMMA AccountNews ==
    ASSUME Inv, NEW s \in Slots, AccountDelivery(s) PROVE NoNews(net, net')
<1>1. ToLogin \/ Settle(s) \/ \E op, arg : Follow(s, Fetch(op, arg))
  BY DEF AccountDelivery, DeliverOwnAccount, DeliverCodes, DeliverActivation, DeliverImage,
     DeliverStatus, DeliverAction, DeliverBillCode
<1> QED BY <1>1, NewsLogin, NewsSettle, NewsFollow DEF ToLogin

(***************************************************************************)
(* The codes the account page lists.                                        *)
(***************************************************************************)
LEMMA CodesKept ==
    ASSUME CodesInv, UNCHANGED own, NoNews(net, net'),
           acc'.activation \in {acc.activation, None}
    PROVE  CodesInv'
BY NewsNone DEF CodesInv, OwnOK, TellsCodes, Listing, Distinct

(* The codes that are left, and the new one behind them.                    *)
LEMMA ListingMore ==
    ASSUME NEW d, Listing(d), NEW c \in Codes, NEW n
    PROVE  Listing([d EXCEPT !.used = n, !.pending = Append(Without(@, c), c)])
<1> DEFINE q == Without(d.pending, c)
           p == Append(q, c)
<1>1. Left(q, d.pending, c, Len(d.pending))
  BY WithoutLeft DEF Listing
<1> HIDE DEF q
<1>2. q \in Seq(Codes) /\ Distinct(q) /\ \A i \in DOMAIN q : q[i] # c
  BY <1>1 DEF Left
<1>3. /\ p \in Seq(Codes) /\ Len(q) \in Nat /\ DOMAIN q = 1..Len(q)
      /\ DOMAIN p = 1..(Len(q) + 1)
      /\ \A i \in 1..Len(q) : p[i] = q[i]
      /\ p[Len(q) + 1] = c
  BY <1>2
<1> HIDE DEF p
<1>4. Distinct(p)
  BY <1>2, <1>3 DEF Distinct
<1>5. [d EXCEPT !.used = n, !.pending = Append(Without(@, c), c)]
         = [d EXCEPT !.used = n, !.pending = p]
  BY DEF p, q, Listing
<1> QED BY <1>3, <1>4, <1>5 DEF Listing

(* The account page takes an answer: what it lists comes from the server,   *)
(* or from its own list and a new code.                                     *)
LEMMA ListingDelivery ==
    ASSUME Inv, FlagInv, CodesInv, NEW s \in Slots, AccountDelivery(s)
    PROVE  acc'.activation # None => Listing(acc'.activation)
<1>0. DOMAIN acc = AccFields /\ TellsCodes(net[s])
  BY DEF FlagInv, AccountInv, CodesInv
<1>1. ASSUME acc'.activation = acc.activation \/ ToLogin
      PROVE  acc'.activation # None => Listing(acc'.activation)
  BY <1>1 DEF CodesInv, ToLogin, NoAccount, FreshAccount
<1>2. \A v, chain : DOMAIN v = AccFields => Done(v, chain).activation = v.activation
  BY DEF Done, AccFields
<1>3. CASE DeliverOwnAccount(s) \/ DeliverCodes(s) \/ DeliverStatus(s) \/ DeliverAction(s)
  <2>1. CASE DeliverOwnAccount(s)
    BY <1>0, <1>1, <2>1 DEF DeliverOwnAccount, AccFields
  <2>2. CASE DeliverCodes(s)
    BY <1>0, <1>1, <2>2 DEF DeliverCodes, AccFields
  <2>3. CASE DeliverStatus(s)
    BY <1>0, <1>1, <2>3 DEF DeliverStatus, AccFields
  <2>4. CASE DeliverAction(s)
    BY <1>0, <1>1, <2>4 DEF DeliverAction, AccFields
  <2> QED BY <1>3, <2>1, <2>2, <2>3, <2>4
<1>4. CASE DeliverActivation(s)
  <2> DEFINE chain == net[s].arg
             shown == [acc EXCEPT !.activation = net[s].data]
             bare  == Released(shown)
  <2>1. /\ DOMAIN shown = AccFields /\ shown.activation = net[s].data
        /\ DOMAIN bare = AccFields /\ bare.activation = net[s].data
        /\ \A i : /\ DOMAIN [bare EXCEPT !.image = i] = AccFields
                  /\ [bare EXCEPT !.image = i].activation = net[s].data
    BY <1>0 DEF Released, AccFields
  <2>2. \/ ToLogin
        \/ acc' = Done(acc, chain)
        \/ Succeeded(s) /\ acc' = Done(shown, chain)
        \/ Succeeded(s) /\ acc' = [bare EXCEPT !.image = "loading"]
        \/ Succeeded(s) /\ \E i : acc' = Done([bare EXCEPT !.image = i], chain)
    BY <1>4 DEF DeliverActivation
  <2> HIDE DEF shown, bare, chain
  <2>3. \/ ToLogin \/ acc'.activation = acc.activation
        \/ Succeeded(s) /\ acc'.activation = net[s].data
    <3>1. ASSUME NEW v, DOMAIN v = AccFields, acc' = Done(v, chain)
          PROVE  acc'.activation = v.activation
      BY <1>2, <3>1
    <3>2. acc' = Done(acc, chain) => acc'.activation = acc.activation
      BY <1>0, <3>1
    <3>3. acc' = Done(shown, chain) => acc'.activation = net[s].data
      BY <2>1, <3>1
    <3>4. ASSUME NEW i, acc' = Done([bare EXCEPT !.image = i], chain)
          PROVE  acc'.activation = net[s].data
      BY <2>1, <3>1, <3>4
    <3> QED BY <2>1, <2>2, <3>2, <3>3, <3>4
  <2>4. Succeeded(s) => Listing(net[s].data)
    BY <1>0, <1>4 DEF DeliverActivation, Ready, Succeeded, TellsCodes
  <2> QED BY <1>1, <2>3, <2>4
<1>5. CASE DeliverImage(s)
  <2> DEFINE w == IF Succeeded(s) THEN WithImage(acc)
                  ELSE [acc EXCEPT !.image = IF net[s].data = "missing" THEN "empty"
                                             ELSE "error"]
  <2>1. ToLogin \/ acc' = Done(w, net[s].arg)
    BY <1>5 DEF DeliverImage
  <2>2. DOMAIN w = AccFields /\ w.activation = acc.activation
    BY <1>0 DEF WithImage, AccFields
  <2> HIDE DEF w
  <2> QED BY <1>1, <1>2, <2>1, <2>2
<1>6. CASE DeliverBillCode(s)
  <2> DEFINE old == IF acc.activation # None THEN acc.activation
                    ELSE [pending |-> <<>>, used |-> 0, image |-> FALSE]
             new == net[s].data
             d   == [old EXCEPT !.used = new.used,
                                !.pending = Append(Without(@, new.code), new.code)]
  <2>1. CASE Expired(s)
    BY <1>1, <1>6, <2>1 DEF DeliverBillCode
  <2>2. CASE ~Expired(s)
    <3>1. acc' = [acc EXCEPT !.busy = "",
                             !.activation = IF ~Succeeded(s) THEN @ ELSE d]
      BY <1>6, <2>2 DEF DeliverBillCode
    <3>2. Listing(old)
      BY DEF CodesInv, Listing, Distinct
    <3>3. Succeeded(s) => new.code \in Codes
      BY <1>0, <1>6 DEF DeliverBillCode, Ready, Succeeded, TellsCodes
    <3> HIDE DEF old, new
    <3>4. Succeeded(s) => Listing(d)
      BY <3>2, <3>3, ListingMore
    <3> HIDE DEF d
    <3>5. acc'.activation = IF ~Succeeded(s) THEN acc.activation ELSE d
      BY <1>0, <3>1 DEF AccFields
    <3> QED BY <1>1, <3>4, <3>5
  <2> QED BY <2>1, <2>2
<1> QED BY <1>3, <1>4, <1>5, <1>6 DEF AccountDelivery

(* A code is redeemed, ...                                                  *)
LEMMA Redeemed ==
    ASSUME OwnOK(own), NEW c, own' = [own EXCEPT !.order = Without(@, c)] PROVE OwnOK(own')
<1> DEFINE q == Without(own.order, c)
<1>1. Left(q, own.order, c, Len(own.order))
  BY WithoutLeft DEF OwnOK
<1>2. own' = [own EXCEPT !.order = q]
  OBVIOUS
<1> HIDE DEF q
<1>3. /\ DOMAIN own' = {"order", "used", "friend", "image", "unissued"}
      /\ own'.order = q /\ own'.unissued = own.unissued /\ own'.used = own.used
  BY <1>2 DEF OwnOK
<1>4. \A i \in DOMAIN q : q[i] \notin own.unissued
  <2>1. ASSUME NEW i \in DOMAIN q PROVE q[i] \notin own.unissued
    <3>1. PICK j \in 1..Len(own.order) : q[i] = own.order[j]
      BY <1>1 DEF Left
    <3> QED BY <3>1 DEF OwnOK
  <2> QED BY <2>1
<1> QED BY <1>1, <1>3, <1>4 DEF OwnOK, Left

(* ... or a new one is issued.                                              *)
LEMMA Issued ==
    ASSUME OwnOK(own), own.used < DailyLimit, NEW c \in own.unissued,
           own' = [own EXCEPT !.order = <<c>> \o @, !.used = @ + 1, !.unissued = @ \ {c}]
    PROVE  OwnOK(own')
<1> DEFINE q == own.order
           p == <<c>> \o q
<1>1. q \in Seq(Codes) /\ Len(q) \in Nat /\ DOMAIN q = 1..Len(q) /\ c \in Codes
  BY DEF OwnOK
<1>2. /\ p \in Seq(Codes) /\ DOMAIN p = 1..(Len(q) + 1) /\ p[1] = c
      /\ \A i \in 2..(Len(q) + 1) : p[i] = q[i - 1] /\ i - 1 \in DOMAIN q
  BY <1>1
<1>3. /\ DOMAIN own' = {"order", "used", "friend", "image", "unissued"}
      /\ own'.order = p /\ own'.unissued = own.unissued \ {c} /\ own'.used = own.used + 1
  BY DEF OwnOK
<1>4. \A i \in DOMAIN q : q[i] \notin own.unissued /\ q[i] # c
  BY DEF OwnOK
<1>5. \A i, j \in DOMAIN q : q[i] = q[j] => i = j
  BY DEF OwnOK, Distinct
<1> HIDE DEF q, p
<1>6. \A i \in DOMAIN p : p[i] \notin own.unissued \ {c}
  BY <1>1, <1>2, <1>4
<1>7. Distinct(p)
  <2>1. ASSUME NEW i \in DOMAIN p, NEW j \in DOMAIN p, p[i] = p[j] PROVE i = j
    <3>1. CASE i = 1 /\ j = 1
      BY <3>1
    <3>2. CASE i # 1 /\ j # 1
      <4>1. q[i - 1] = q[j - 1] /\ i - 1 \in DOMAIN q /\ j - 1 \in DOMAIN q
        BY <1>1, <1>2, <2>1, <3>2
      <4>2. i - 1 = j - 1
        BY <1>5, <4>1
      <4> QED BY <1>1, <1>2, <4>2
    <3>3. CASE i = 1 /\ j # 1
      BY <1>1, <1>2, <1>4, <2>1, <3>3
    <3>4. CASE i # 1 /\ j = 1
      BY <1>1, <1>2, <1>4, <2>1, <3>4
    <3> QED BY <3>1, <3>2, <3>3, <3>4
  <2> QED BY <2>1 DEF Distinct
<1>8. own.used + 1 \in 0..DailyLimit /\ own.unissued \ {c} \subseteq Codes
  BY AccountAssumption DEF OwnOK
<1> QED BY <1>2, <1>3, <1>6, <1>7, <1>8 DEF OwnOK

LEMMA CodesAgain ==
    ASSUME OwnOK(own'), acc'.activation # None => Listing(acc'.activation),
           \A s \in Slots : TellsCodes(net'[s])
    PROVE  CodesInv'
BY DEF CodesInv, OwnOK, TellsCodes, Listing, Distinct

LEMMA OwnServerCodes ==
    ASSUME Inv, CodesInv, NEW s \in Slots, OwnServerStep(s) PROVE CodesInv'
<1>0. OwnOK(own) /\ \A q \in Slots : TellsCodes(net[q])
  BY DEF CodesInv
<1>1. acc'.activation # None => Listing(acc'.activation)
  BY DEF CodesInv, OwnServerStep, ServeAccount, ServeAction, accountVars
<1>2. ASSUME NEW status, NEW value, Answer(s, status, value),
             status = "ok" => net[s].op \notin {"activation", "bill"}
      PROVE  \A q \in Slots : TellsCodes(net'[q])
  BY <1>0, <1>2, NewsAnswer
<1>3. CASE ServeAccount(s)
  <2>1. OwnOK(own')
    BY <1>0, <1>3 DEF ServeAccount, accountVars
  <2>2. CASE Arrived(s, "activation") /\ Answer(s, "ok", ActivationData)
    <3>1. Listing(ActivationData)
      BY <1>0 DEF Listing, ActivationData, OwnOK
    <3>2. net[s].op # "bill"
      BY <2>2 DEF Arrived
    <3>3. \A q \in Slots : TellsCodes(net'[q])
      BY <1>0, <2>2, <3>1, <3>2, NewsAnswer
    <3> QED BY <1>1, <2>1, <3>3, CodesAgain
  <2>3. CASE ~(Arrived(s, "activation") /\ Answer(s, "ok", ActivationData))
    <3>1. CASE Arrived(s, "activation")
      <4>1. Answer(s, "refused", None)
        BY <1>3, <2>3, <3>1 DEF ServeAccount, Arrived
      <4> QED BY <1>1, <1>2, <2>1, <4>1, CodesAgain
    <3>2. CASE ~Arrived(s, "activation")
      <4>1. net[s].op \notin {"activation", "bill"}
        BY <1>3, <3>2 DEF ServeAccount, Arrived
      <4>2. \E status, value : Answer(s, status, value)
        BY <1>3, <3>2, Zenon DEF ServeAccount
      <4>3. \A q \in Slots : TellsCodes(net'[q])
        BY <1>2, <4>1, <4>2
      <4> QED BY <1>1, <2>1, <4>3, CodesAgain
    <3> QED BY <3>1, <3>2
  <2> QED BY <2>2, <2>3
<1>4. CASE ServeAction(s)
  <2>1. CASE Arrived(s, "settings") \/ Arrived(s, "redeem")
    <3>1. \E status, value : Answer(s, status, value)
      BY <1>4, <2>1 DEF ServeAction, Arrived
    <3>2. net[s].op \notin {"activation", "bill"}
      BY <2>1 DEF Arrived
    <3>3. \A q \in Slots : TellsCodes(net'[q])
      BY <1>2, <3>1, <3>2
    <3>4. UNCHANGED own \/ \E c : own' = [own EXCEPT !.order = Without(@, c)]
      BY <1>4, <2>1 DEF ServeAction, Arrived
    <3>5. OwnOK(own')
      BY <1>0, <3>4, Redeemed
    <3> QED BY <1>1, <3>3, <3>5, CodesAgain
  <2>2. CASE Arrived(s, "bill")
    <3>1. CASE own.friend \/ own.used >= DailyLimit \/ own.unissued = {}
      <4>1. Answer(s, "refused", None) /\ UNCHANGED own
        BY <1>4, <2>2, <3>1 DEF ServeAction, Arrived
      <4>2. OwnOK(own') /\ \A q \in Slots : TellsCodes(net'[q])
        BY <1>0, <1>2, <4>1
      <4> QED BY <1>1, <4>2, CodesAgain
    <3>2. CASE ~(own.friend \/ own.used >= DailyLimit \/ own.unissued = {})
      <4> DEFINE c == CHOOSE x \in own.unissued : TRUE
                 value == [code |-> c, used |-> own.used + 1]
      <4>1. /\ own' = [own EXCEPT !.order = <<c>> \o @, !.used = @ + 1, !.unissued = @ \ {c}]
            /\ Answer(s, "ok", value)
        BY <1>4, <2>2, <3>2 DEF ServeAction, Arrived
      <4>2. c \in own.unissued /\ own.used < DailyLimit
        BY <1>0, <3>2, AccountAssumption DEF OwnOK
      <4>3. value.code \in Codes
        BY <1>0, <4>2 DEF OwnOK
      <4> HIDE DEF c, value
      <4>4. OwnOK(own')
        BY <1>0, <4>1, <4>2, Issued
      <4>5. net[s].op # "activation"
        BY <2>2 DEF Arrived
      <4>6. \A q \in Slots : TellsCodes(net'[q])
        BY <1>0, <4>1, <4>3, <4>5, NewsAnswer
      <4> QED BY <1>1, <4>4, <4>6, CodesAgain
    <3> QED BY <3>1, <3>2
  <2> QED BY <1>4, <2>1, <2>2 DEF ServeAction
<1> QED BY <1>3, <1>4 DEF OwnServerStep

LEMMA CodesNext == Inv /\ FlagInv /\ CodesInv /\ [PortalNext]_vars => CodesInv'
<1> SUFFICES ASSUME Inv, FlagInv, CodesInv, [PortalNext]_vars PROVE CodesInv'
  OBVIOUS
<1>0. DOMAIN acc = AccFields
  BY DEF FlagInv, AccountInv
<1>1. UNCHANGED net => NoNews(net, net')
  BY DEF NoNews
<1>2. ASSUME NEW p, NEW sec, Mount(p, sec), UNCHANGED own PROVE CodesInv'
  BY <1>2, NewsMount, CodesKept DEF Mount, FreshAccount, NoAccount
<1>3. CASE Visit
  BY <1>2, <1>3 DEF Visit, serverOwn
<1>4. CASE Click
  <2>1. NoNews(net, net')
    BY <1>4, ClickNews DEF Click
  <2>2. CASE AccountClick
    <3>1. acc'.activation = acc.activation /\ UNCHANGED own
      BY <1>0, <2>2 DEF AccountClick, ScanImageError, ReloadActivation, ReloadCodes, Refresh, Logout,
         ChangeSettings, Redeem, ActivateBillCode, SelectSection, Act, serverOwn, AccFields
    <3> QED BY <2>1, <3>1, CodesKept
  <2>3. CASE UNCHANGED accountVars
    BY <2>1, <2>3, CodesKept DEF accountVars
  <2> QED BY <1>4, <2>2, <2>3 DEF Click
<1>5. CASE Outside
  <2>1. CASE OtherDevice /\ UNCHANGED <<req, accountVars, auth>>
    <3>1. \E op, arg : Send(Elsewhere(op, arg))
      BY <2>1 DEF OtherDevice
    <3>2. \A op, arg : Elsewhere(op, arg).status # "ok"
      BY DEF Elsewhere, Fetch
    <3> QED BY <2>1, <3>1, <3>2, NewsSend, CodesKept DEF accountVars
  <2>2. CASE AdminChanges
    <3>1. OwnOK(own')
      BY <2>2 DEF AdminChanges, CodesInv, OwnOK
    <3> QED BY <2>2, <3>1, CodesAgain DEF AdminChanges, CodesInv
  <2>3. CASE Tick
    <3>1. acc'.activation = acc.activation /\ UNCHANGED <<own, net>>
      BY <1>0, <2>3 DEF Tick, AccFields, browserVars
    <3> QED BY <1>1, <3>1, CodesKept
  <2>4. CASE AdminStep /\ UNCHANGED <<req, accountVars, auth>>
    BY <1>1, <2>4, CodesKept DEF AdminStep, Confirm, Reject, Purge, accountVars
  <2>5. CASE (UpdateOnline \/ SessionEnds) /\ UNCHANGED <<serverVars, req, accountVars, auth>>
    BY <1>1, <2>5, CodesKept DEF UpdateOnline, SessionEnds, accountVars
  <2>6. ASSUME NEW s \in Slots, Denied(s), UNCHANGED accountVars PROVE CodesInv'
    <3>1. Answer(s, "denied", None) /\ OwnOK(own')
      BY <2>6 DEF Denied, accountVars, CodesInv
    <3>2. \A q \in Slots : TellsCodes(net'[q])
      BY <3>1, NewsAnswer DEF CodesInv
    <3> QED BY <2>6, <3>1, <3>2, CodesAgain DEF accountVars, CodesInv
  <2>7. ASSUME NEW s \in Slots, Lost(s), UNCHANGED accountVars PROVE CodesInv'
    BY <2>7, NewsLost, CodesKept DEF accountVars
  <2> QED BY <1>5, <2>1, <2>2, <2>3, <2>4, <2>5, <2>6, <2>7 DEF Outside
<1>6. ASSUME NEW s \in Slots, Serve(s) PROVE CodesInv'
  <2>1. CASE OwnServerStep(s)
    BY <2>1, OwnServerCodes
  <2>2. CASE (ServerStep(s) \/ ServeSession(s)) /\ UNCHANGED accountVars
    <3>1. \E status, value : Answer(s, status, value) \/ (status = "held" /\ Hold(s, value))
      <4>1. CASE ServerStep(s)
        BY <4>1 DEF ServerStep, CreateBegin, CreateEnd, AddSeasonBegin, AddSeasonEnd, ServeRead,
           ServeRow
      <4>2. CASE ServeSession(s)
        BY <4>2 DEF ServeSession
      <4> QED BY <2>2, <4>1, <4>2
    <3>2. net[s].op \notin {"activation", "bill"}
      BY <2>2 DEF ServerStep, CreateBegin, CreateEnd, AddSeasonBegin, AddSeasonEnd, ServeRead,
         ServeSession, Arrived
    <3>3. \A q \in Slots : TellsCodes(net'[q])
      BY <3>1, <3>2, NewsAnswer DEF CodesInv
    <3> QED BY <2>2, <3>3, CodesAgain DEF accountVars, CodesInv
  <2> QED BY <1>6, <2>1, <2>2 DEF Serve
<1>7. ASSUME NEW s \in Slots, Deliver(s) PROVE CodesInv'
  <2>1. CASE RequestDelivery(s) /\ UNCHANGED <<accountVars, auth>>
    BY <2>1, RequestNews, CodesKept DEF accountVars
  <2>2. CASE AccountDelivery(s)
    <3>1. acc'.activation # None => Listing(acc'.activation)
      BY <2>2, ListingDelivery
    <3>2. UNCHANGED own
      BY <2>2 DEF AccountDelivery, DeliverOwnAccount, DeliverCodes, DeliverActivation, DeliverImage,
         DeliverStatus, DeliverAction, DeliverBillCode, serverOwn
    <3>3. \A q \in Slots : TellsCodes(net'[q])
      BY <2>2, AccountNews, NewsNone DEF CodesInv
    <3> QED BY <3>1, <3>2, <3>3, CodesAgain DEF CodesInv
  <2>3. CASE (AuthToken(s) \/ SignInFailed(s)) /\ UNCHANGED <<serverVars, req, accountVars>>
    <3>1. Settle(s)
      BY <2>3 DEF AuthToken, SignInFailed
    <3> QED BY <2>3, <3>1, NewsSettle, CodesKept DEF accountVars
  <2>4. CASE SignedIn(s)
    BY <1>2, <2>4 DEF SignedIn, serverOwn
  <2> QED BY <1>7, <2>1, <2>2, <2>3, <2>4 DEF Deliver
<1>8. CASE UNCHANGED vars
  BY <1>1, <1>8, CodesKept DEF vars, browserVars, accountVars
<1> QED BY <1>3, <1>4, <1>5, <1>6, <1>7, <1>8 DEF PortalNext

LEMMA CodesInit == PortalInit => CodesInv
<1> SUFFICES ASSUME PortalInit PROVE CodesInv
  OBVIOUS
<1>1. OwnOK(own)
  BY AccountAssumption DEF PortalInit, OwnInit, OwnOK, Distinct
<1>2. acc.activation = None
  BY DEF PortalInit, NoAccount, FreshAccount
<1>3. \A s \in Slots : net[s].status # "ok"
  BY DEF PortalInit, Idle, Fetch
<1> QED BY <1>1, <1>2, <1>3 DEF CodesInv, TellsCodes

LEMMA AlwaysCodes == PortalSpec => []CodesInv
BY CodesInit, CodesNext, PortalInvariance, AlwaysFlag, PTL DEF PortalSpec

(* No code is listed twice on the account page: the answer that brings a    *)
(* new code and a reload that was on its way at the same time both bring    *)
(* it, in either order, and neither adds it to a list that has it.          *)
THEOREM CodesListedOnce == PortalSpec => []NoDuplicateCode
<1>1. CodesInv => NoDuplicateCode
  BY DEF CodesInv, Listing, Distinct, NoDuplicateCode
<1> QED BY <1>1, AlwaysCodes, PTL


(***************************************************************************)
(* What the line and the session do, and the types.                         *)
(***************************************************************************)
LineInv == online \in BOOLEAN /\ session \in BOOLEAN /\ events \in 0..MaxEvents

LEMMA LineKept ==
    ASSUME LineInv, Event \/ UNCHANGED events, UNCHANGED online \/ online' = ~online,
           UNCHANGED session \/ session' = TRUE \/ session' = FALSE
    PROVE  LineInv'
<1>1. events' \in 0..MaxEvents
  BY BrowserAssumption DEF LineInv, Event
<1>2. online' \in BOOLEAN
  BY DEF LineInv
<1>3. session' \in BOOLEAN
  BY DEF LineInv
<1> QED BY <1>1, <1>2, <1>3 DEF LineInv

LEMMA LineClick ==
    ASSUME Click PROVE (Event \/ UNCHANGED events) /\ UNCHANGED <<online, session>>
<1>1. CASE RequestClick
  <2>1. ASSUME NEW t, ChangeTab(t) PROVE (Event \/ UNCHANGED events) /\ UNCHANGED <<online, session>>
    BY <2>1 DEF ChangeTab, clickVars
  <2>2. ASSUME NEW x, Select(x) PROVE (Event \/ UNCHANGED events) /\ UNCHANGED <<online, session>>
    BY <2>2 DEF Select, clickVars
  <2>3. ASSUME NEW n, SubmitRequest(n) PROVE Event \/ UNCHANGED events
    BY <2>3, Zenon DEF SubmitRequest
  <2>4. ASSUME NEW n, SubscribeSeason(n)
        PROVE  (Event \/ UNCHANGED events) /\ UNCHANGED <<online, session>>
    <3>1. Event \/ SubmitRequest({n})
      BY <2>4 DEF SubscribeSeason
    <3>2. UNCHANGED <<online, session>>
      BY <2>4 DEF SubscribeSeason, clickVars
    <3> QED BY <2>3, <3>1, <3>2
  <2>5. CASE Subscribe
    <3>1. \E n : SubmitRequest(n)
      BY <2>5 DEF Subscribe
    <3>2. UNCHANGED <<online, session>>
      BY <2>5 DEF Subscribe, clickVars
    <3> QED BY <2>3, <3>1, <3>2
  <2>6. CASE RefreshLists \/ Search \/ CloseDetailDialog \/ LogoutHere
    BY <2>6 DEF RefreshLists, Search, CloseDetailDialog, LogoutHere, clickVars, browserVars,
       answerVars
  <2> QED BY <1>1, <2>1, <2>2, <2>4, <2>5, <2>6 DEF RequestClick
<1>2. CASE AccountClick
  <2>1. ASSUME NEW sec, SelectSection(sec)
        PROVE  (Event \/ UNCHANGED events) /\ UNCHANGED <<online, session>>
    BY <2>1 DEF SelectSection, clickVars
  <2>2. CASE ScanImageError \/ ReloadActivation \/ ReloadCodes \/ Refresh \/ Logout
    BY <2>2 DEF ScanImageError, ReloadActivation, ReloadCodes, Refresh, Logout, clickVars, browserVars,
       answerVars
  <2>3. CASE ChangeSettings \/ Redeem \/ ActivateBillCode
    BY <2>3 DEF ChangeSettings, Redeem, ActivateBillCode, Act, clickVars
  <2> QED BY <1>2, <2>1, <2>2, <2>3 DEF AccountClick
<1>3. CASE SignIn
  BY <1>3 DEF SignIn, clickVars
<1> QED BY <1>1, <1>2, <1>3 DEF Click

LEMMA LineDeliver ==
    ASSUME NEW s \in Slots, Deliver(s) PROVE UNCHANGED <<online, session, events>>
<1>1. CASE RequestDelivery(s)
  BY <1>1 DEF RequestDelivery, DeliverCsrf, DeliverAccount, DeliverLists, DeliverSearch, DeliverRow,
     DeliverWork, DeliverCreate, DeliverSeason, DeliverLogout, clickVars, answerVars
<1>2. CASE AccountDelivery(s)
  BY <1>2 DEF AccountDelivery, DeliverOwnAccount, DeliverCodes, DeliverActivation, DeliverImage,
     DeliverStatus, DeliverAction, DeliverBillCode, clickVars, answerVars
<1>3. CASE AuthToken(s) \/ SignInFailed(s) \/ SignedIn(s)
  BY <1>3 DEF AuthToken, SignInFailed, SignedIn, clickVars, answerVars
<1> QED BY <1>1, <1>2, <1>3 DEF Deliver

LEMMA LineNext == LineInv /\ [PortalNext]_vars => LineInv'
<1> SUFFICES ASSUME LineInv, [PortalNext]_vars PROVE LineInv'
  OBVIOUS
<1>1. CASE Visit
  BY <1>1, LineKept DEF Visit
<1>2. CASE Click
  BY <1>2, LineClick, LineKept
<1>3. CASE Outside
  <2>1. CASE AdminStep \/ OtherDevice \/ AdminChanges
    <3>1. Event /\ UNCHANGED <<online, session>>
      BY <2>1 DEF AdminStep, Confirm, Reject, Purge, OtherDevice, AdminChanges, clickVars
    <3> QED BY <3>1, LineKept
  <2>2. CASE Tick
    BY <2>2, LineKept DEF Tick, browserVars, answerVars, clickVars
  <2>3. CASE UpdateOnline
    BY <2>3, LineKept DEF UpdateOnline
  <2>4. CASE SessionEnds
    BY <2>4, LineKept DEF SessionEnds
  <2>5. ASSUME NEW s \in Slots, Denied(s) \/ Lost(s) PROVE LineInv'
    <3>1. UNCHANGED <<online, session, events>>
      BY <2>5 DEF Denied, Lost, answerVars, clickVars
    <3> QED BY <3>1, LineKept
  <2> QED BY <1>3, <2>1, <2>2, <2>3, <2>4, <2>5 DEF Outside
<1>4. ASSUME NEW s \in Slots, Serve(s) PROVE LineInv'
  <2>1. CASE ServerStep(s) \/ OwnServerStep(s)
    <3>1. UNCHANGED <<online, session, events>>
      BY <2>1 DEF ServerStep, CreateBegin, CreateEnd, AddSeasonBegin, AddSeasonEnd, ServeRead,
         OwnServerStep, ServeAccount, ServeAction, answerVars, clickVars
    <3> QED BY <3>1, LineKept
  <2>2. CASE ServeSession(s)
    BY <2>2, LineKept DEF ServeSession
  <2> QED BY <1>4, <2>1, <2>2 DEF Serve
<1>5. ASSUME NEW s \in Slots, Deliver(s) PROVE LineInv'
  BY <1>5, LineDeliver, LineKept
<1>6. CASE UNCHANGED vars
  BY <1>6, LineKept DEF vars, browserVars, answerVars, clickVars
<1> QED BY <1>1, <1>2, <1>3, <1>4, <1>5, <1>6 DEF PortalNext

LEMMA AlwaysLine == PortalSpec => []LineInv
<1>1. PortalInit => LineInv
  BY BrowserAssumption DEF PortalInit, LineInv
<1> QED BY <1>1, LineNext, PTL DEF PortalSpec

LEMMA OwnHolds == ASSUME CodesInv, PanelInv PROVE OwnTypeOK
<1>1. Held \cap own.unissued = {}
  BY DEF CodesInv, OwnOK, Held
<1>2. rested \in 0..Cooldown
  BY AccountAssumption DEF PanelInv, RestInv
<1> QED BY <1>1, <1>2 DEF OwnTypeOK, CodesInv, OwnOK, PanelInv, RestInv, Panel, Images

LEMMA PageHolds == ASSUME Inv PROVE RequestTypeOK /\ MediaTypeOK
<1>1. req \in PageType /\ (req.visible => ItemOK(req.selected, rows))
  BY DEF Inv, PageOK, CardsOK
<1>2. req.visible => req.selected # None
  BY <1>1, MediaAssumption DEF ItemOK
<1>3. req.tab \in Tabs /\ req.requestKey \in Items \cup {None}
  BY <1>1 DEF PageType
<1> QED BY <1>2, <1>3 DEF RequestTypeOK, MediaTypeOK, Inv, RowsOK

LEMMA NetHolds == ASSUME FlagInv, LineInv PROVE BrowserTypeOK
BY DEF FlagInv, NetInv, AllProper, Proper, LineInv, BrowserTypeOK, InFlight

(* The portal's state keeps its shape: requests are answered as they were   *)
(* asked, rows and codes are of the sets they come from, no code is both    *)
(* issued and unissued, the daily limit and the cooldown are kept, and the  *)
(* sign-in form is disabled exactly while a sign-in is under way.           *)
THEOREM PortalTypesHold == PortalSpec => []PortalTypeOK
<1>1. Inv /\ FlagInv /\ PanelInv /\ CodesInv /\ LineInv => PortalTypeOK
  <2> SUFFICES ASSUME Inv, FlagInv, PanelInv, CodesInv, LineInv PROVE PortalTypeOK
    OBVIOUS
  <2>1. page \in Pages
    BY DEF FlagInv, NetInv
  <2>2. Owned({"login"}) = Mine(net, {"login"})
    BY DEF Owned, Mine
  <2>3. auth.loading <=> Owned({"login"}) # {}
    <3>1. CASE page = "login"
      BY <2>2, <3>1 DEF FlagInv, AuthInv, OneIf
    <3>2. CASE page # "login"
      <4>1. Mine(net, {"login"}) = {}
        BY <3>2 DEF FlagInv, NetInv, AllProper, Proper, OpsOf, Pages, Mine
      <4> QED BY <2>2, <3>2, <4>1 DEF FlagInv, AuthInv
    <3> QED BY <3>1, <3>2
  <2> QED BY <2>1, <2>3, OwnHolds, PageHolds, NetHolds DEF PortalTypeOK
<1> QED BY <1>1, PortalInvariance, AlwaysFlag, AlwaysPanel, AlwaysCodes, AlwaysLine, PTL

=============================================================================
