------------------------------ MODULE Browser ------------------------------
(***************************************************************************)
(* What every page of the portal and of the admin console runs on: one      *)
(* JavaScript thread, the network between it and the application, and the   *)
(* fetch helpers of shared/api.ts.  A handler runs without interruption up  *)
(* to its `await getApi(...)'; the rest of it runs when the answer is       *)
(* delivered, and any number of other handlers may have run in between.     *)
(*                                                                          *)
(* A request goes through "sent", possibly "held" (the server's own handler *)
(* awaits a third system), and ends "ok", "denied" (401), "refused" (any    *)
(* other error envelope) or "failed" (no answer reached the browser).  Two  *)
(* requests in flight are served and delivered in any order.                *)
(***************************************************************************)
EXTENDS Naturals, FiniteSets

CONSTANTS MaxFlight,    \* bound: requests that travel at the same time
          MaxEvents,    \* bound: clicks that send a request, and what
                        \* administrators, other devices and the line do
          None          \* the value null

ASSUME BrowserAssumption ==
    MaxFlight \in Nat \ {0} /\ MaxEvents \in Nat /\ None \notin Nat

VARIABLES online,       \* navigator.onLine, as the page last saw it
          page,         \* the page that is loaded, by its path
          session,      \* does the server accept the browser's session?
          net,          \* the requests in flight, one per slot
          events        \* how many clicks and outside events there have been

clickVars == <<online, page, session>>

answerVars == <<clickVars, events>>

browserVars == <<answerVars, net>>

Slots == 1..MaxFlight

Answers == {"ok", "denied", "refused", "failed"}

Idle == [op |-> "none", owner |-> "none", arg |-> None,
         status |-> "none", data |-> None]

(* getApi, postApi, patchApi and deleteApi: the same exchange.              *)
Fetch(op, arg) == [op |-> op, owner |-> "page", arg |-> arg,
                   status |-> "sent", data |-> None]

InFlight(s) == net[s].op # "none"

(* The requests whose continuation still belongs to the page on the screen. *)
Owned(ops) == {s \in Slots : net[s].op \in ops /\ net[s].owner = "page"}

(* The network n with one more request, in a free slot.                     *)
Free(n) == {s \in Slots : n[s].op = "none"}

With(n, r) == [n EXCEPT ![CHOOSE s \in Free(n) : TRUE] = r]

Send(r) == Free(net) # {} /\ net' = With(net, r)

SendTwo(r1, r2) == Cardinality(Free(net)) >= 2 /\ net' = With(With(net, r1), r2)

Event == events < MaxEvents /\ events' = events + 1

(***************************************************************************)
(* The server's side of a request.                                          *)
(***************************************************************************)
Arrived(s, op) == /\ net[s].op = op
                  /\ net[s].status = "sent"
                  /\ session \/ net[s].owner = "gone"

(* Nobody waits for the answer of a request whose page is gone.             *)
Answered(s, status, data) ==
    IF net[s].owner = "page"
    THEN [net EXCEPT ![s].status = status, ![s].data = data]
    ELSE [net EXCEPT ![s] = Idle]

Answer(s, status, data) == net' = Answered(s, status, data)

Hold(s, data) == net' = [net EXCEPT ![s].status = "held", ![s].data = data]

(* The session has ended: the APIs of a signed-in user answer 401, those of *)
(* the session itself do not.                                               *)
Public == {"csrf", "login", "logout"}

Denied(s) ==
    /\ net[s].owner = "page"
    /\ net[s].status = "sent"
    /\ net[s].op \notin Public
    /\ ~session
    /\ Answer(s, "denied", None)
    /\ UNCHANGED answerVars

(* What the network does to a request of the page: it never arrives, its    *)
(* answer is lost, or the connection breaks while the server's handler is   *)
(* still at work, which then goes on for nobody.                            *)
Lost(s) ==
    /\ net[s].owner = "page"
    /\ LET failed == [net EXCEPT ![s].status = "failed", ![s].data = None]
       IN  \/ /\ net[s].status \in {"sent", "ok"}
              /\ net' = failed
           \/ /\ net[s].status = "held"
              /\ Free(net) # {}
              /\ net' = With(failed, [net[s] EXCEPT !.owner = "gone"])
    /\ UNCHANGED answerVars

(***************************************************************************)
(* readPayload and assertApi: the answer as the awaiting code sees it.      *)
(***************************************************************************)
Ready(s, op) == /\ net[s].op = op
                /\ net[s].owner = "page"
                /\ net[s].status \in Answers

Succeeded(s) == net[s].status = "ok"

Settled(s) == [net EXCEPT ![s] = Idle]

Settle(s) == net' = Settled(s)

(* The continuation sends the handler's next request.                       *)
Follow(s, r) == net' = [net EXCEPT ![s] = r]

(* Leaving or reloading a page: what has reached the server goes on there,  *)
(* an unread answer is dropped.                                             *)
Abandoned ==
    [s \in Slots |-> IF net[s].status \in Answers THEN Idle
                     ELSE IF InFlight(s) THEN [net[s] EXCEPT !.owner = "gone"]
                     ELSE net[s]]

UpdateOnline == /\ Event
                /\ online' = ~online
                /\ UNCHANGED <<page, session, net>>

(* The cookie expires, or the account may no longer sign in.                *)
SessionEnds == /\ Event
               /\ session
               /\ session' = FALSE
               /\ UNCHANGED <<online, page, net>>

BrowserTypeOK ==
    /\ online \in BOOLEAN
    /\ session \in BOOLEAN
    /\ events \in 0..MaxEvents
    /\ \A s \in Slots :
          /\ net[s].owner \in {"none", "page", "gone"}
          /\ net[s].status \in {"none", "sent", "held"} \cup Answers
          /\ InFlight(s) <=> net[s].status # "none"
=============================================================================
