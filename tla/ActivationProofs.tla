--------------------------- MODULE ActivationProofs ---------------------------
(***************************************************************************)
(* Proofs about ActivationCodes, for any accounts, codes, bill codes,       *)
(* request slots and administrators, any number of days and any limits.     *)
(***************************************************************************)
EXTENDS ActivationCodes, FiniteSetTheorems, TLAPS

(***************************************************************************)
(* The inductive invariant.                                                 *)
(***************************************************************************)
\* What a suspended handler carries.  A code that is being redeemed was live when the
\* handler looked at it, and bought by the account or by nobody.
Sound(h, cd) ==
    h # None =>
      /\ h.stage = "delete" => h.code \in Codes
      /\ h.stage # "delete" => h.user \in Users /\ h.was \in Account
      /\ h.stage \in {"lookup", "issue", "duplicate"} => h.bill \in Bills
      /\ h.stage = "redeem" =>
           /\ h.code \in Codes
           /\ cd[h.code] # None
           /\ cd[h.code] # Gone => cd[h.code].owner \in {None, h.user}

HandlersSound == \A s \in Requests : Sound(handler[s], code)

\* A bill code has issued a code for every ledger row it has or had.
IssuesCounted == \A b \in Bills : issued[b] = removed[b] + (IF usage[b] = None THEN 0 ELSE 1)

Bought(u, d) == {c \in Codes : bought[c] = [user |-> u, day |-> d]}

QuotaInv == \A u \in Users, d \in Days : Cardinality(Bought(u, d)) <= daily[u][d]

\* An account that is not locked has failed no more often than its counter says.
StrikesInv ==
    \A u \in Users : account[u] # None /\ ~account[u].locked =>
                       strikes[u] <= account[u].failed /\ strikes[u] < MaxFailures

\* A text that was not drawn yet was not bought either.
DrawnIfBought == \A c \in Codes : bought[c] # None => code[c] # None

\* What a bill code bought has an owner.
OwnedIfBought == \A c \in Codes : Live(c) /\ code[c].bill # None => code[c].owner \in Users

LedgerInv == /\ LedgerMatchesCodes /\ OwnedIfBought /\ IssuesCounted /\ OwnerRedeems
             /\ QuotaInv /\ DrawnIfBought

IInv == TypeOK /\ HandlersSound /\ LedgerInv /\ StrikesInv

-----------------------------------------------------------------------------
\* The parts of the type invariant that an action may disturb.

LEMMA LiveCode ==
    ASSUME TypeOK, NEW c \in Codes
    PROVE  /\ Live(c) <=> code[c] \in Code
           /\ code[c] \in Code \cup {None, Gone}
BY NoneAssumption DEF TypeOK, Live

LEMMA SpendType == ASSUME TypeOK, Spend PROVE calls' \in 0 .. MaxCalls
BY BoundsAssumption DEF TypeOK, Spend

LEMMA BeginType ==
    ASSUME TypeOK, NEW s \in Requests, NEW stage \in Stages, NEW u \in Users \cup {None},
           NEW b \in Bills \cup {None}, NEW c \in Codes \cup {None}, Begin(s, stage, u, b, c)
    PROVE  \E h \in Handler :
             /\ handler' = [handler EXCEPT ![s] = h]
             /\ h.stage = stage /\ h.user = u /\ h.bill = b /\ h.code = c
             /\ h.was = IF u = None THEN None ELSE account[u]
<1> DEFINE h == [stage |-> stage, user |-> u, bill |-> b, code |-> c,
                 was |-> IF u = None THEN None ELSE account[u]]
<1>1. (IF u = None THEN None ELSE account[u]) \in Account \cup {None}
  BY DEF TypeOK
<1>2. h \in Handler
  BY <1>1 DEF Handler
<1>3. handler' = [handler EXCEPT ![s] = h]
  BY DEF Begin
<1> QED BY <1>2, <1>3

LEMMA AtHandler ==
    ASSUME IInv, NEW s \in Requests, NEW stage, At(s, stage)
    PROVE  /\ handler[s] \in Handler /\ handler[s] # None /\ handler[s].stage = stage
           /\ Sound(handler[s], code)
BY DEF IInv, TypeOK, HandlersSound, At

LEMMA GoType ==
    ASSUME IInv, NEW s \in Requests, NEW old, At(s, old), NEW stage \in Stages, Go(s, stage)
    PROVE  \E h \in Handler :
             /\ handler' = [handler EXCEPT ![s] = h]
             /\ h.stage = stage /\ h.user = handler[s].user /\ h.bill = handler[s].bill
             /\ h.code = handler[s].code /\ h.was = handler[s].was
<1> DEFINE h == [handler[s] EXCEPT !.stage = stage]
<1>1. handler[s] \in Handler /\ handler \in [Requests -> Handler \cup {None}]
  BY AtHandler DEF IInv, TypeOK
<1>2. /\ h \in Handler
      /\ h.stage = stage /\ h.user = handler[s].user /\ h.bill = handler[s].bill
      /\ h.code = handler[s].code /\ h.was = handler[s].was
  BY <1>1 DEF Handler
<1>3. handler' = [handler EXCEPT ![s] = h]
  BY DEF Go
<1> QED BY <1>2, <1>3

-----------------------------------------------------------------------------
\* Steps that leave the tables alone.

LEMMA HandlerStep ==
    ASSUME IInv, UNCHANGED <<people, ledger>>,
           today' \in Days, dialog' \in [Admins -> SUBSET Codes], calls' \in 0 .. MaxCalls,
           handler' \in [Requests -> Handler \cup {None}],
           \A s \in Requests : Sound(handler'[s], code)
    PROVE  IInv'
<1>1. TypeOK'
  BY DEF IInv, TypeOK, people, ledger
<1>2. HandlersSound'
  BY DEF HandlersSound, Sound, Live, ledger
<1>3. LedgerInv'
  BY DEF IInv, LedgerInv, LedgerMatchesCodes, OwnedIfBought, IssuesCounted, QuotaInv, Bought, OwnerRedeems,
         DrawnIfBought, Live, ledger
<1>4. StrikesInv'
  BY DEF IInv, StrikesInv, people
<1> QED BY <1>1, <1>2, <1>3, <1>4 DEF IInv

\* One slot gets another handler, or none.
LEMMA SlotStep ==
    ASSUME IInv, UNCHANGED <<people, ledger>>,
           today' \in Days, dialog' \in [Admins -> SUBSET Codes], calls' \in 0 .. MaxCalls,
           NEW s \in Requests, NEW h \in Handler \cup {None},
           handler' = [handler EXCEPT ![s] = h], Sound(h, code)
    PROVE  IInv'
<1>1. handler' \in [Requests -> Handler \cup {None}]
  BY DEF IInv, TypeOK
<1>2. \A r \in Requests : Sound(handler'[r], code)
  <2>1. \A r \in Requests : handler'[r] = h \/ handler'[r] = handler[r]
    BY DEF IInv, TypeOK
  <2> QED BY <2>1 DEF IInv, HandlersSound
<1> QED BY <1>1, <1>2, HandlerStep

LEMMA SoundNone == Sound(None, code)
BY DEF Sound

LEMMA EndStep ==
    ASSUME IInv, NEW s \in Requests, End(s), UNCHANGED <<today, people, ledger, dialog, calls>>
    PROVE  IInv'
<1>1. /\ today' \in Days /\ dialog' \in [Admins -> SUBSET Codes] /\ calls' \in 0 .. MaxCalls
      /\ handler' = [handler EXCEPT ![s] = None]
  BY DEF IInv, TypeOK, End
<1> QED BY <1>1, SoundNone, SlotStep

LEMMA SubmitStep ==
    ASSUME IInv, NEW s \in Requests, NEW u \in Users, NEW b \in Bills, Submit(s, u, b)
    PROVE  IInv'
<1> DEFINE stage == IF BillDay[b] = today THEN "lookup" ELSE "strike"
<1>1. TypeOK /\ stage \in {"lookup", "strike"} /\ stage \in Stages
  BY DEF IInv, Stages
<1>2. Begin(s, stage, u, b, None)
  BY DEF Submit
<1> HIDE DEF stage
<1>3. PICK h \in Handler :
             /\ handler' = [handler EXCEPT ![s] = h]
             /\ h.stage = stage /\ h.user = u /\ h.bill = b /\ h.code = None
             /\ h.was = IF u = None THEN None ELSE account[u]
  BY <1>1, <1>2, BeginType
<1>4. account[u] \in Account /\ u # None
  BY NoneAssumption DEF Submit, IInv, TypeOK
<1>5. Sound(h, code)
  BY <1>1, <1>3, <1>4 DEF Sound
<1>6. today' \in Days /\ dialog' \in [Admins -> SUBSET Codes] /\ calls' \in 0 .. MaxCalls
  BY <1>1 DEF TypeOK, Submit
<1> QED BY <1>3, <1>5, <1>6, SlotStep DEF Submit

LEMMA LookupBillStep ==
    ASSUME IInv, NEW s \in Requests, LookupBill(s)
    PROVE  IInv'
<1> DEFINE stage == IF usage[handler[s].bill] = None THEN "issue" ELSE "strike"
<1>1. stage \in {"issue", "strike"} /\ stage \in Stages
  BY DEF Stages
<1>2. Go(s, stage) /\ At(s, "lookup")
  BY DEF LookupBill
<1> HIDE DEF stage
<1>3. PICK h \in Handler :
             /\ handler' = [handler EXCEPT ![s] = h]
             /\ h.stage = stage /\ h.user = handler[s].user /\ h.bill = handler[s].bill
             /\ h.code = handler[s].code /\ h.was = handler[s].was
  BY <1>1, <1>2, GoType
<1>4. Sound(h, code)
  BY <1>1, <1>2, <1>3, AtHandler DEF Sound
<1>5. today' \in Days /\ dialog' \in [Admins -> SUBSET Codes] /\ calls' \in 0 .. MaxCalls
  BY DEF IInv, TypeOK, LookupBill
<1> QED BY <1>3, <1>4, <1>5, SlotStep DEF LookupBill

LEMMA IssueRefusedStep ==
    ASSUME IInv, NEW s \in Requests, IssueRefused(s)
    PROVE  IInv'
<1>1. CASE End(s)
  BY <1>1, EndStep DEF IssueRefused
<1>2. ASSUME NEW stage \in {"strike", "duplicate"}, Go(s, stage)
      PROVE  IInv'
  <2>1. At(s, "issue") /\ stage \in Stages
    BY <1>2 DEF IssueRefused, Stages
  <2>2. PICK h \in Handler :
             /\ handler' = [handler EXCEPT ![s] = h]
             /\ h.stage = stage /\ h.user = handler[s].user /\ h.bill = handler[s].bill
             /\ h.code = handler[s].code /\ h.was = handler[s].was
    BY <1>2, <2>1, GoType
  <2>3. Sound(h, code)
    BY <1>2, <2>1, <2>2, AtHandler DEF Sound
  <2>4. today' \in Days /\ dialog' \in [Admins -> SUBSET Codes] /\ calls' \in 0 .. MaxCalls
    BY DEF IInv, TypeOK, IssueRefused
  <2> QED BY <2>2, <2>3, <2>4, SlotStep DEF IssueRefused
<1> QED BY <1>1, <1>2 DEF IssueRefused

LEMMA LookupDuplicateStep ==
    ASSUME IInv, NEW s \in Requests, LookupDuplicate(s)
    PROVE  IInv'
<1>1. CASE End(s)
  BY <1>1, EndStep DEF LookupDuplicate
<1>2. CASE Go(s, "strike")
  <2>1. At(s, "duplicate") /\ "strike" \in Stages
    BY DEF LookupDuplicate, Stages
  <2>2. PICK h \in Handler :
             /\ handler' = [handler EXCEPT ![s] = h]
             /\ h.stage = "strike" /\ h.user = handler[s].user /\ h.bill = handler[s].bill
             /\ h.code = handler[s].code /\ h.was = handler[s].was
    BY <1>2, <2>1, GoType
  <2>3. Sound(h, code)
    BY <2>1, <2>2, AtHandler DEF Sound
  <2>4. today' \in Days /\ dialog' \in [Admins -> SUBSET Codes] /\ calls' \in 0 .. MaxCalls
    BY DEF IInv, TypeOK, LookupDuplicate
  <2> QED BY <2>2, <2>3, <2>4, SlotStep DEF LookupDuplicate
<1> QED BY <1>1, <1>2 DEF LookupDuplicate

LEMMA RedeemCodeStep ==
    ASSUME IInv, NEW s \in Requests, NEW u \in Users, NEW c \in Codes, RedeemCode(s, u, c)
    PROVE  IInv'
<1> DEFINE good == Unused(c) /\ code[c].owner \in {None, u}
<1>1. PICK stage \in {"redeem", "strike"} :
             (stage = "redeem" => good) /\ Begin(s, stage, u, None, c)
  BY DEF RedeemCode
<1>2. TypeOK /\ stage \in Stages
  BY <1>1 DEF IInv, Stages
<1>3. good => code[c] # None /\ code[c].owner \in {None, u}
  BY DEF Unused, Live
<1> HIDE DEF good
<1>4. PICK h \in Handler :
             /\ handler' = [handler EXCEPT ![s] = h]
             /\ h.stage = stage /\ h.user = u /\ h.bill = None /\ h.code = c
             /\ h.was = IF u = None THEN None ELSE account[u]
  BY <1>1, <1>2, BeginType
<1>5. account[u] \in Account /\ u # None
  BY NoneAssumption DEF RedeemCode, IInv, TypeOK
<1>6. Sound(h, code)
  BY <1>1, <1>3, <1>4, <1>5 DEF Sound
<1>7. today' \in Days /\ dialog' \in [Admins -> SUBSET Codes] /\ calls' \in 0 .. MaxCalls
  BY <1>2 DEF TypeOK, RedeemCode
<1> QED BY <1>4, <1>6, <1>7, SlotStep DEF RedeemCode

LEMMA EmbyAbortedStep == ASSUME IInv, NEW s \in Requests, EmbyAborted(s) PROVE IInv'
BY EndStep DEF EmbyAborted

LEMMA DeletionBegun ==
    ASSUME IInv, NEW s \in Requests, NEW c \in Codes, Begin(s, "delete", None, None, c),
           today' \in Days, dialog' \in [Admins -> SUBSET Codes], calls' \in 0 .. MaxCalls,
           UNCHANGED <<people, ledger>>
    PROVE  IInv'
<1>1. TypeOK /\ "delete" \in Stages
  BY DEF IInv, Stages
<1>2. PICK h \in Handler : /\ handler' = [handler EXCEPT ![s] = h]
                           /\ h.stage = "delete" /\ h.code = c
  BY <1>1, BeginType
<1>3. Sound(h, code)
  BY <1>2 DEF Sound
<1> QED BY <1>2, <1>3, SlotStep

LEMMA DeleteCodeStep ==
    ASSUME IInv, NEW s \in Requests, NEW c \in Codes, DeleteCode(s, c)
    PROVE  IInv'
<1>1. calls' \in 0 .. MaxCalls
  BY SpendType DEF DeleteCode, IInv
<1>2. today' \in Days /\ dialog' \in [Admins -> SUBSET Codes]
  BY DEF DeleteCode, IInv, TypeOK
<1> QED BY <1>1, <1>2, DeletionBegun DEF DeleteCode

LEMMA Resting ==
    ASSUME IInv, UNCHANGED <<people, ledger, handler>>,
           today' \in Days, dialog' \in [Admins -> SUBSET Codes], calls' \in 0 .. MaxCalls
    PROVE  IInv'
BY HandlerStep DEF IInv, HandlersSound, TypeOK

LEMMA BeginCodeDeleteStep == ASSUME IInv, NEW a \in Admins, BeginCodeDelete(a) PROVE IInv'
<1>1. calls' \in 0 .. MaxCalls
  BY SpendType DEF BeginCodeDelete, IInv
<1>2. today' \in Days /\ dialog' \in [Admins -> SUBSET Codes]
  BY DEF BeginCodeDelete, IInv, TypeOK
<1> QED BY <1>1, <1>2, Resting DEF BeginCodeDelete

LEMMA ChatCodeDeleteStep ==
    ASSUME IInv, NEW s \in Requests, NEW a \in Admins, NEW c \in Codes, ChatCodeDelete(s, a, c)
    PROVE  IInv'
<1>1. today' \in Days /\ dialog' \in [Admins -> SUBSET Codes] /\ calls' \in 0 .. MaxCalls
  BY DEF ChatCodeDelete, IInv, TypeOK
<1>2. CASE Begin(s, "delete", None, None, c)
  BY <1>1, <1>2, DeletionBegun DEF ChatCodeDelete
<1>3. CASE UNCHANGED handler
  BY <1>1, <1>3, Resting DEF ChatCodeDelete
<1> QED BY <1>2, <1>3 DEF ChatCodeDelete

LEMMA DialogExpiresStep == ASSUME IInv, NEW a \in Admins, DialogExpires(a) PROVE IInv'
<1>1. today' \in Days /\ dialog' \in [Admins -> SUBSET Codes] /\ calls' \in 0 .. MaxCalls
  BY DEF DialogExpires, IInv, TypeOK
<1> QED BY <1>1, Resting DEF DialogExpires

LEMMA SetUserStateStep ==
    ASSUME IInv, NEW s \in Requests, NEW u \in Users, NEW disabled \in BOOLEAN,
           SetUserState(s, u, disabled)
    PROVE  IInv'
<1> DEFINE stage == IF disabled THEN "disable" ELSE "enable"
<1>1. TypeOK /\ stage \in {"disable", "enable"} /\ stage \in Stages
  BY DEF IInv, Stages
<1>2. Begin(s, stage, u, None, None)
  BY DEF SetUserState
<1> HIDE DEF stage
<1>3. PICK h \in Handler :
             /\ handler' = [handler EXCEPT ![s] = h]
             /\ h.stage = stage /\ h.user = u /\ h.bill = None /\ h.code = None
             /\ h.was = IF u = None THEN None ELSE account[u]
  BY <1>1, <1>2, BeginType
<1>4. account[u] \in Account /\ u # None
  BY NoneAssumption DEF SetUserState, IInv, TypeOK
<1>5. Sound(h, code)
  BY <1>1, <1>3, <1>4 DEF Sound
<1>6. calls' \in 0 .. MaxCalls
  BY <1>1, SpendType DEF SetUserState
<1>7. today' \in Days /\ dialog' \in [Admins -> SUBSET Codes]
  BY <1>1 DEF TypeOK, SetUserState
<1> QED BY <1>3, <1>5, <1>6, <1>7, SlotStep DEF SetUserState

LEMMA NextDayStep == ASSUME IInv, NextDay PROVE IInv'
<1>1. today' \in Days
  BY BoundsAssumption DEF NextDay, IInv, TypeOK, Days
<1>2. dialog' \in [Admins -> SUBSET Codes] /\ calls' \in 0 .. MaxCalls
  BY DEF NextDay, IInv, TypeOK
<1> QED BY <1>1, <1>2, Resting DEF NextDay

LEMMA RestartStep == ASSUME IInv, Restart PROVE IInv'
<1>1. calls' \in 0 .. MaxCalls
  BY SpendType DEF Restart, IInv
<1>2. today' \in Days /\ dialog' \in [Admins -> SUBSET Codes]
  BY DEF Restart, IInv, TypeOK
<1>3. handler' = [s \in Requests |-> None]
  BY DEF Restart
<1>4. handler' \in [Requests -> Handler \cup {None}] /\ \A s \in Requests : Sound(handler'[s], code)
  BY <1>3, SoundNone
<1> QED BY <1>1, <1>2, <1>4, HandlerStep DEF Restart

-----------------------------------------------------------------------------
\* Steps that write.

\* A code that exists is not exchanged for another: it stays, with its owner, or goes.
CodesKept == \A c \in Codes : code[c] # None =>
                /\ code'[c] # None
                /\ code'[c] # Gone => code[c] # Gone /\ code'[c].owner = code[c].owner

LEMMA WriteStep ==
    ASSUME IInv, TypeOK', CodesKept, LedgerInv', StrikesInv',
           \A r \in Requests : handler'[r] \in {handler[r], None}
    PROVE  IInv'
<1>1. ASSUME NEW h, Sound(h, code)
      PROVE  Sound(h, code')
  BY <1>1 DEF Sound, CodesKept
<1>2. \A r \in Requests : Sound(handler'[r], code)
  BY SoundNone DEF IInv, HandlersSound
<1>3. HandlersSound'
  BY <1>1, <1>2 DEF HandlersSound
<1> QED BY <1>3 DEF IInv

LEMMA EndedHandlers ==
    ASSUME TypeOK, NEW s \in Requests, End(s)
    PROVE  /\ handler' \in [Requests -> Handler \cup {None}]
           /\ \A r \in Requests : handler'[r] \in {handler[r], None}
BY DEF TypeOK, End

\* A handler that ends with a write to one account.
LEMMA AccountStep ==
    ASSUME IInv, NEW s \in Requests, End(s), NEW u \in Users,
           UNCHANGED <<today, ledger, dialog, calls>>,
           NEW a \in Account, account' = [account EXCEPT ![u] = a],
           NEW n \in Nat, strikes' = [strikes EXCEPT ![u] = n],
           ~a.locked => n <= a.failed /\ n < MaxFailures
    PROVE  IInv'
<1>1. TypeOK
  BY DEF IInv
<1>2. TypeOK'
  BY <1>1, EndedHandlers DEF TypeOK, ledger
<1>3. CodesKept
  BY DEF CodesKept, ledger
<1>4. LedgerInv'
  BY DEF IInv, LedgerInv, LedgerMatchesCodes, OwnedIfBought, IssuesCounted, QuotaInv, Bought, OwnerRedeems,
         DrawnIfBought, Live, ledger
<1>5. StrikesInv'
  BY <1>1 DEF IInv, StrikesInv, TypeOK
<1> QED BY <1>1, <1>2, <1>3, <1>4, <1>5, EndedHandlers, WriteStep

LEMMA RecordActivationFailureStep ==
    ASSUME IInv, NEW s \in Requests, RecordActivationFailure(s)
    PROVE  IInv'
<1> DEFINE u == handler[s].user
           a == account[u]
           b == IF a.failed + 1 >= MaxFailures
                THEN [failed |-> MaxFailures, locked |-> TRUE, disabled |-> TRUE]
                ELSE [a EXCEPT !.failed = @ + 1]
<1>1. At(s, "strike") /\ End(s) /\ UNCHANGED <<today, ledger, dialog, calls>>
  BY DEF RecordActivationFailure
<1>2. u \in Users
  BY <1>1, AtHandler DEF Sound
<1>3. CASE a = None \/ (a # None /\ a.locked)
  <2>1. UNCHANGED people
    BY <1>3 DEF RecordActivationFailure, people
  <2> QED BY <1>1, <2>1, EndStep
<1>4. CASE ~(a = None \/ (a # None /\ a.locked))
  <2>1. a \in Account /\ ~a.locked /\ strikes[u] \in Nat
        /\ strikes[u] <= a.failed /\ strikes[u] < MaxFailures
    BY <1>2, <1>4 DEF IInv, TypeOK, StrikesInv
  <2>2. b \in Account
    BY <2>1, BoundsAssumption DEF Account
  <2>3. /\ ~b.locked => strikes[u] + 1 <= b.failed /\ strikes[u] + 1 < MaxFailures
        /\ strikes[u] + 1 \in Nat
    BY <2>1, BoundsAssumption DEF Account
  <2>4. account' = [account EXCEPT ![u] = b]
    BY <1>4 DEF RecordActivationFailure
  <2>5. strikes' = [strikes EXCEPT ![u] = strikes[u] + 1]
    BY <1>4 DEF RecordActivationFailure
  <2> HIDE DEF b, a, u
  <2> QED BY <1>1, <1>2, <2>1, <2>2, <2>3, <2>4, <2>5, AccountStep
<1> QED BY <1>3, <1>4

\* What an update leaves of an account.
LEMMA MergeType ==
    ASSUME NEW cur \in Account, NEW was \in Account, NEW new \in Account
    PROVE  /\ Merge(cur, was, new) \in Account
           /\ Merge(cur, was, new).locked = IF new.locked = was.locked THEN cur.locked
                                            ELSE new.locked
           /\ Merge(cur, was, new).failed = IF new.failed = was.failed THEN cur.failed
                                            ELSE new.failed
BY DEF Merge, Account

LEMMA DisableCommitStep == ASSUME IInv, NEW s \in Requests, DisableCommit(s) PROVE IInv'
<1> DEFINE u == handler[s].user
           w == handler[s].was
           n == [w EXCEPT !.disabled = TRUE]
           a == Merge(account[u], w, n)
<1>1. At(s, "disable") /\ End(s) /\ UNCHANGED <<today, ledger, dialog, calls>>
  BY DEF DisableCommit
<1>2. u \in Users /\ w \in Account
  BY <1>1, AtHandler DEF Sound
<1>3. account[u] \in Account /\ strikes[u] \in Nat /\ account[u] # None
  BY <1>2 DEF DisableCommit, IInv, TypeOK
<1>4. n \in Account /\ n.locked = w.locked /\ n.failed = w.failed
  BY <1>2 DEF Account
<1>5. a \in Account /\ a.locked = account[u].locked /\ a.failed = account[u].failed
  <2> HIDE DEF n, w, u
  <2> QED BY <1>2, <1>3, <1>4, MergeType
<1>6. account' = [account EXCEPT ![u] = a]
  BY DEF DisableCommit
<1>7. strikes' = [strikes EXCEPT ![u] = strikes[u]]
  BY DEF DisableCommit, IInv, TypeOK
<1>8. ~account[u].locked => strikes[u] <= account[u].failed /\ strikes[u] < MaxFailures
  BY <1>2, <1>3 DEF IInv, StrikesInv
<1> HIDE DEF a, u, w
<1> QED BY <1>1, <1>2, <1>3, <1>5, <1>6, <1>7, <1>8, AccountStep

LEMMA EnableCommitStep == ASSUME IInv, NEW s \in Requests, EnableCommit(s) PROVE IInv'
<1> DEFINE u == handler[s].user
           w == handler[s].was
           fresh == [failed |-> 0, locked |-> FALSE, disabled |-> FALSE]
           a == Merge(account[u], w, fresh)
<1>1. At(s, "enable") /\ End(s) /\ UNCHANGED <<today, ledger, dialog, calls>>
  BY DEF EnableCommit
<1>2. u \in Users /\ w \in Account /\ fresh \in Account
  BY <1>1, AtHandler, BoundsAssumption DEF Sound, Account
<1>3. account[u] \in Account
  BY <1>2 DEF EnableCommit, IInv, TypeOK
<1>4. a \in Account
  BY <1>2, <1>3, MergeType
<1>5. account' = [account EXCEPT ![u] = a] /\ strikes' = [strikes EXCEPT ![u] = 0]
  BY DEF EnableCommit
<1>6. 0 <= a.failed /\ 0 < MaxFailures /\ 0 \in Nat
  BY <1>4, BoundsAssumption DEF Account
<1> HIDE DEF a, u, w
<1> QED BY <1>1, <1>2, <1>4, <1>5, <1>6, AccountStep

-----------------------------------------------------------------------------
\* The ledger and the codes.

LEMMA BoughtFinite ==
    ASSUME NEW u, NEW d
    PROVE  IsFiniteSet(Bought(u, d)) /\ Cardinality(Bought(u, d)) \in Nat
<1>1. Bought(u, d) \in SUBSET Codes
  BY DEF Bought
<1> QED BY <1>1, BoundsAssumption, FS_Subset, FS_CardinalityType

LEMMA IssueCodeStep ==
    ASSUME IInv, NEW s \in Requests, NEW c \in Codes, IssueCode(s, c)
    PROVE  IInv'
<1> DEFINE u == handler[s].user
           b == handler[s].bill
           new == [owner |-> u, bill |-> b, used_by |-> None]
           row == [user |-> u, code |-> c]
           buy == [user |-> u, day |-> today]
<1>1. At(s, "issue") /\ End(s) /\ TypeOK
  BY DEF IssueCode, IInv
<1>2. u \in Users /\ b \in Bills /\ today \in Days
  BY <1>1, AtHandler DEF Sound, TypeOK
<1>3. /\ code[c] = None /\ usage[b] = None /\ account[u] # None /\ daily[u][today] < DailyLimit
      /\ code' = [code EXCEPT ![c] = new] /\ usage' = [usage EXCEPT ![b] = row]
      /\ daily' = [daily EXCEPT ![u][today] = daily[u][today] + 1]
      /\ issued' = [issued EXCEPT ![b] = issued[b] + 1]
      /\ bought' = [bought EXCEPT ![c] = buy]
      /\ UNCHANGED <<today, people, dialog, calls, removed>>
  BY DEF IssueCode, TypeOK
<1>4. /\ new \in Code /\ row \in Usage /\ new # None /\ new # Gone /\ row # None
      /\ new.owner = u /\ new.bill = b /\ new.used_by = None
      /\ buy \in Purchase /\ buy.user = u /\ buy.day = today /\ buy # None
      /\ row.user = u /\ row.code = c /\ u # None /\ b # None
  BY <1>2, NoneAssumption DEF Code, Usage, Purchase
<1>5. row = [user |-> new.owner, code |-> c]
  OBVIOUS
<1> HIDE DEF new, row, buy, u, b
<1>6. TypeOK'
  <2>1. daily' \in [Users -> [Days -> 0 .. DailyLimit]]
    BY <1>1, <1>2, <1>3, BoundsAssumption DEF TypeOK
  <2>2. issued' \in [Bills -> Nat] /\ code' \in [Codes -> Code \cup {None, Gone}]
        /\ usage' \in [Bills -> Usage \cup {None}]
        /\ bought' \in [Codes -> Purchase \cup {None}]
    BY <1>1, <1>2, <1>3, <1>4 DEF TypeOK
  <2> QED BY <1>1, <1>3, <2>1, <2>2, EndedHandlers DEF TypeOK, people
<1>7. CodesKept
  BY <1>1, <1>3, <1>4 DEF CodesKept, TypeOK
<1>8. LedgerMatchesCodes'
  <2>1. LedgerMatchesCodes
    BY DEF IInv, LedgerInv
  <2>2. ASSUME NEW e \in Bills, usage'[e] # None
        PROVE  /\ usage'[e].code \in Codes /\ Live(usage[e].code)'
               /\ code'[usage'[e].code].bill = e
               /\ code'[usage'[e].code].owner = usage'[e].user
    <3>1. CASE e = b
      BY <1>1, <1>2, <1>3, <1>4, <3>1 DEF TypeOK, Live
    <3>2. CASE e # b
      <4>1. usage'[e] = usage[e] /\ usage[e] \in Usage
        BY <1>1, <1>2, <1>3, <2>2, <3>2 DEF TypeOK
      <4>2. usage[e].code \in Codes /\ usage[e].code # c
        BY <1>3, <2>1, <2>2, <4>1 DEF LedgerMatchesCodes, Live, Usage
      <4> QED BY <1>1, <1>3, <2>1, <2>2, <4>1, <4>2 DEF LedgerMatchesCodes, Live, TypeOK
    <3> QED BY <3>1, <3>2
  <2>3. ASSUME NEW k \in Codes, Live(k)', code'[k].bill # None
        PROVE  usage'[code'[k].bill] = [user |-> code'[k].owner, code |-> k]
    <3>1. CASE k = c
      BY <1>1, <1>2, <1>3, <1>4, <1>5, <3>1 DEF TypeOK
    <3>2. CASE k # c
      <4>1. code'[k] = code[k] /\ code[k] \in Code /\ Live(k)
        BY <1>1, <1>3, <2>3, <3>2 DEF TypeOK, Live
      <4>2. usage[code[k].bill] = [user |-> code[k].owner, code |-> k] /\ code[k].bill \in Bills
        BY <2>1, <2>3, <4>1 DEF LedgerMatchesCodes, Code
      <4>3. [user |-> code[k].owner, code |-> k] \in Usage
        BY <2>3, <4>1 DEF Usage, IInv, LedgerInv, OwnedIfBought
      <4>4. code[k].bill # b
        BY <1>3, <4>2, <4>3, NoneAssumption
      <4> QED BY <1>1, <1>3, <4>1, <4>2, <4>4 DEF TypeOK
    <3> QED BY <3>1, <3>2
  <2> QED BY <2>2, <2>3 DEF LedgerMatchesCodes
<1>9. IssuesCounted'
  BY <1>1, <1>2, <1>3, <1>4 DEF IInv, LedgerInv, IssuesCounted, TypeOK
<1>10. QuotaInv'
  <2>1. bought[c] = None /\ bought \in [Codes -> Purchase \cup {None}]
    BY <1>1, <1>3 DEF IInv, LedgerInv, DrawnIfBought, TypeOK
  <2>2. ASSUME NEW v \in Users, NEW d \in Days
        PROVE  Cardinality(Bought(v, d)') <= daily'[v][d]
    <3>1. Cardinality(Bought(v, d)) <= daily[v][d] /\ daily[v][d] \in Nat
      BY <1>1, BoundsAssumption DEF IInv, LedgerInv, QuotaInv, TypeOK
    <3>2. [user |-> v, day |-> d] # None
      BY NoneAssumption DEF Purchase
    <3>3. CASE v = u /\ d = today
      <4>1. buy = [user |-> v, day |-> d]
        BY <3>3 DEF buy
      <4>2. Bought(v, d)' = Bought(v, d) \cup {c}
        BY <1>3, <2>1, <4>1 DEF Bought
      <4>3. c \notin Bought(v, d)
        BY <2>1, <3>2 DEF Bought
      <4>4. Cardinality(Bought(v, d)') = Cardinality(Bought(v, d)) + 1
        BY <4>2, <4>3, BoughtFinite, FS_AddElement
      <4>5. daily'[v][d] = daily[v][d] + 1
        BY <1>1, <1>2, <1>3, <3>3 DEF TypeOK
      <4> QED BY <3>1, <4>4, <4>5, BoughtFinite
    <3>4. CASE ~(v = u /\ d = today)
      <4>1. buy # [user |-> v, day |-> d]
        BY <1>4, <3>4
      <4>2. Bought(v, d)' = Bought(v, d)
        BY <1>3, <2>1, <3>2, <4>1 DEF Bought
      <4>3. daily'[v][d] = daily[v][d]
        BY <1>1, <1>2, <1>3, <3>4 DEF TypeOK
      <4> QED BY <3>1, <4>2, <4>3
    <3> QED BY <3>3, <3>4
  <2> QED BY <2>2 DEF QuotaInv
<1>11. OwnerRedeems'
  BY <1>1, <1>3, <1>4 DEF IInv, LedgerInv, OwnerRedeems, Live, TypeOK
<1>12. StrikesInv'
  BY <1>3 DEF IInv, StrikesInv, people
<1>13. OwnedIfBought'
  BY <1>1, <1>2, <1>3, <1>4 DEF IInv, LedgerInv, OwnedIfBought, Live, TypeOK
<1>14. DrawnIfBought'
  BY <1>1, <1>3, <1>4 DEF IInv, LedgerInv, DrawnIfBought, TypeOK
<1> QED BY <1>1, <1>6, <1>7, <1>8, <1>9, <1>10, <1>11, <1>12, <1>13, <1>14, EndedHandlers,
           WriteStep DEF LedgerInv

\* A deletion takes the ledger rows of its codes along and no others.
LEMMA DeletedCodes ==
    ASSUME IInv, NEW C \in SUBSET Codes, DeleteCodes(C), UNCHANGED issued
    PROVE  /\ code' \in [Codes -> Code \cup {None, Gone}]
           /\ usage' \in [Bills -> Usage \cup {None}]
           /\ removed' \in [Bills -> Nat]
           /\ CodesKept
           /\ LedgerMatchesCodes' /\ OwnedIfBought' /\ IssuesCounted' /\ OwnerRedeems'
<1>1. TypeOK /\ LedgerMatchesCodes
  BY DEF IInv, LedgerInv
<1>2. /\ code' = [c \in Codes |-> IF c \in C THEN Gone ELSE code[c]]
      /\ usage' = [b \in Bills |-> IF usage[b] # None /\ usage[b].code \in C THEN None
                                    ELSE usage[b]]
      /\ removed' = [b \in Bills |-> removed[b] +
                        (IF usage[b] # None /\ usage[b].code \in C THEN 1 ELSE 0)]
  BY DEF DeleteCodes
<1>3. \A c \in Codes : /\ Live(c)' => c \notin C /\ Live(c) /\ code'[c] = code[c]
                       /\ c \notin C => code'[c] = code[c]
  BY <1>2 DEF Live
<1>4. \A b \in Bills : usage'[b] # None => usage'[b] = usage[b] /\ usage[b].code \notin C
  BY <1>2
<1>5. \A b \in Bills : usage[b] # None /\ usage[b].code \notin C => usage'[b] = usage[b]
  BY <1>2
<1>6. /\ code' \in [Codes -> Code \cup {None, Gone}]
      /\ usage' \in [Bills -> Usage \cup {None}]
      /\ removed' \in [Bills -> Nat]
  BY <1>1, <1>2 DEF TypeOK
<1>7. CodesKept
  BY <1>2, NoneAssumption DEF CodesKept
<1>8. LedgerMatchesCodes'
  <2>1. ASSUME NEW b \in Bills, usage'[b] # None
        PROVE  /\ Live(usage[b].code)'
               /\ code'[usage'[b].code].bill = b
               /\ code'[usage'[b].code].owner = usage'[b].user
    <3>1. usage'[b] = usage[b] /\ usage[b].code \in Codes \ C
      BY <1>1, <1>4, <2>1 DEF TypeOK, Usage
    <3>2. Live(usage[b].code) /\ code[usage[b].code].bill = b
          /\ code[usage[b].code].owner = usage[b].user
      BY <1>1, <2>1, <3>1 DEF LedgerMatchesCodes
    <3>3. code'[usage[b].code] = code[usage[b].code]
      BY <1>3, <3>1
    <3> QED BY <3>1, <3>2, <3>3 DEF Live
  <2>2. ASSUME NEW c \in Codes, Live(c)', code'[c].bill # None
        PROVE  usage'[code'[c].bill] = [user |-> code'[c].owner, code |-> c]
    <3>1. c \notin C /\ Live(c) /\ code'[c] = code[c]
      BY <1>3, <2>2
    <3>2. /\ usage[code[c].bill] = [user |-> code[c].owner, code |-> c]
          /\ code[c].bill \in Bills /\ code[c].owner \in Users
      BY <1>1, <2>2, <3>1 DEF LedgerMatchesCodes, TypeOK, Live, Code, IInv, LedgerInv, OwnedIfBought
    <3>3. usage[code[c].bill] # None /\ usage[code[c].bill].code = c
      BY <3>2, NoneAssumption DEF Usage
    <3> QED BY <1>5, <3>1, <3>2, <3>3
  <2> QED BY <2>1, <2>2 DEF LedgerMatchesCodes
<1>9. OwnedIfBought' /\ OwnerRedeems'
  BY <1>3 DEF IInv, LedgerInv, OwnedIfBought, OwnerRedeems
<1>10. IssuesCounted'
  BY <1>1, <1>2 DEF IInv, LedgerInv, IssuesCounted, TypeOK
<1> QED BY <1>6, <1>7, <1>8, <1>9, <1>10

\* No code is bought in a step, and the quota is left alone.
LEMMA QuotaKept ==
    ASSUME IInv, CodesKept, UNCHANGED <<bought, daily>>
    PROVE  QuotaInv' /\ DrawnIfBought'
BY DEF IInv, LedgerInv, QuotaInv, Bought, DrawnIfBought, CodesKept

LEMMA DeleteCommitStep == ASSUME IInv, NEW s \in Requests, DeleteCommit(s) PROVE IInv'
<1> DEFINE c == handler[s].code
<1>1. At(s, "delete") /\ End(s) /\ UNCHANGED <<today, people, daily, issued, bought, dialog, calls>>
  BY DEF DeleteCommit
<1>2. c \in Codes
  BY <1>1, AtHandler DEF Sound
<1>3. CASE DeleteCodes({c})
  <2> HIDE DEF c
  <2>1. {c} \in SUBSET Codes /\ TypeOK
    BY <1>2 DEF IInv
  <2>2. TypeOK'
    BY <1>1, <1>3, <2>1, DeletedCodes, EndedHandlers DEF TypeOK, people
  <2>3. QuotaInv' /\ DrawnIfBought'
    BY <1>1, <1>3, <2>1, DeletedCodes, QuotaKept
  <2>4. StrikesInv'
    BY <1>1 DEF IInv, StrikesInv, people
  <2> QED BY <1>1, <1>3, <2>1, <2>2, <2>3, <2>4, DeletedCodes, EndedHandlers, WriteStep
          DEF LedgerInv
<1>4. CASE UNCHANGED <<code, usage, removed>>
  BY <1>1, <1>4, EndStep DEF ledger
<1> QED BY <1>3, <1>4 DEF DeleteCommit

LEMMA DeleteUserStep == ASSUME IInv, NEW u \in Users, DeleteUser(u) PROVE IInv'
<1> DEFINE C == {c \in Codes : Live(c) /\ u \in {code[c].owner, code[c].used_by}}
<1>1. /\ account' = [account EXCEPT ![u] = None] /\ DeleteCodes(C)
      /\ daily' = [daily EXCEPT ![u] = [d \in Days |-> 0]]
      /\ bought' = [c \in Codes |-> IF bought[c] # None /\ bought[c].user = u THEN None
                                    ELSE bought[c]]
      /\ strikes' = [strikes EXCEPT ![u] = 0]
      /\ UNCHANGED <<today, issued, handler, dialog>> /\ TypeOK
  BY DEF DeleteUser, IInv
<1>2. C \in SUBSET Codes
  OBVIOUS
<1>3. bought' \in [Codes -> Purchase \cup {None}]
  BY <1>1 DEF TypeOK
<1> HIDE DEF C
<1>4. calls' \in 0 .. MaxCalls
  BY <1>1, SpendType DEF DeleteUser
<1>5. daily' \in [Users -> [Days -> 0 .. DailyLimit]]
  BY <1>1, BoundsAssumption DEF TypeOK
<1>6. TypeOK'
  BY <1>1, <1>2, <1>3, <1>4, <1>5, DeletedCodes DEF TypeOK
<1>7. QuotaInv'
  <2>1. ASSUME NEW v \in Users, NEW d \in Days
        PROVE  Cardinality(Bought(v, d)') <= daily'[v][d]
    <3>0. [user |-> v, day |-> d] # None
      BY NoneAssumption DEF Purchase
    <3>1. CASE v = u
      <4>1. \A c \in Codes : bought'[c] # [user |-> v, day |-> d]
        BY <1>1, <3>0, <3>1
      <4>2. Bought(v, d)' = {}
        BY <4>1 DEF Bought
      <4>3. daily'[v][d] = 0
        BY <1>1, <3>1 DEF TypeOK
      <4> QED BY <4>2, <4>3, FS_EmptySet
    <3>2. CASE v # u
      <4>1. daily'[v][d] = daily[v][d] /\ Bought(v, d)' = Bought(v, d)
        BY <1>1, <3>0, <3>2 DEF TypeOK, Bought
      <4> QED BY <4>1 DEF IInv, LedgerInv, QuotaInv
    <3> QED BY <3>1, <3>2
  <2> QED BY <2>1 DEF QuotaInv
<1>8. StrikesInv'
  BY <1>1 DEF IInv, StrikesInv, TypeOK
<1>9. DrawnIfBought'
  BY <1>1, <1>2, DeletedCodes DEF IInv, LedgerInv, DrawnIfBought, CodesKept
<1> QED BY <1>1, <1>2, <1>6, <1>7, <1>8, <1>9, DeletedCodes, WriteStep DEF LedgerInv

LEMMA GenerateCodeStep == ASSUME IInv, NEW c \in Codes, GenerateCode(c) PROVE IInv'
<1> DEFINE new == [owner |-> None, bill |-> None, used_by |-> None]
<1>1. /\ code[c] = None /\ code' = [code EXCEPT ![c] = new] /\ TypeOK
      /\ UNCHANGED <<today, people, usage, daily, issued, removed, bought, handler, dialog>>
  BY DEF GenerateCode, IInv
<1>2. new \in Code /\ new # None /\ new.bill = None /\ new.owner = None /\ new.used_by = None
  BY <1>1, NoneAssumption DEF Code, TypeOK
<1> HIDE DEF new
<1>3. calls' \in 0 .. MaxCalls
  BY <1>1, SpendType DEF GenerateCode
<1>4. TypeOK'
  BY <1>1, <1>2, <1>3 DEF TypeOK, people
<1>5. CodesKept
  BY <1>1, <1>2 DEF CodesKept, TypeOK
<1>6. \A k \in Codes : k # c => code'[k] = code[k]
  BY <1>1 DEF TypeOK
<1>7. code'[c] = new /\ ~Live(c)
  BY <1>1 DEF TypeOK, Live
<1>8. LedgerMatchesCodes'
  <2>1. LedgerMatchesCodes
    BY DEF IInv, LedgerInv
  <2>2. ASSUME NEW b \in Bills, usage'[b] # None
        PROVE  /\ Live(usage[b].code)'
               /\ code'[usage'[b].code].bill = b
               /\ code'[usage'[b].code].owner = usage'[b].user
    <3>1. usage'[b] = usage[b] /\ usage[b].code \in Codes
      BY <1>1, <2>2 DEF TypeOK, Usage
    <3>2. Live(usage[b].code) /\ code[usage[b].code].bill = b
          /\ code[usage[b].code].owner = usage[b].user
      BY <2>1, <2>2, <3>1 DEF LedgerMatchesCodes
    <3>3. code'[usage[b].code] = code[usage[b].code]
      BY <1>6, <1>7, <3>1, <3>2
    <3> QED BY <3>1, <3>2, <3>3 DEF Live
  <2>3. ASSUME NEW k \in Codes, Live(k)', code'[k].bill # None
        PROVE  usage'[code'[k].bill] = [user |-> code'[k].owner, code |-> k]
    <3>1. code'[k] = code[k] /\ Live(k)
      BY <1>2, <1>6, <1>7, <2>3 DEF Live
    <3> QED BY <1>1, <2>1, <2>3, <3>1 DEF LedgerMatchesCodes
  <2> QED BY <2>2, <2>3 DEF LedgerMatchesCodes
<1>9. OwnedIfBought' /\ OwnerRedeems'
  BY <1>2, <1>6, <1>7 DEF IInv, LedgerInv, OwnedIfBought, OwnerRedeems, Live
<1>10. IssuesCounted'
  BY <1>1 DEF IInv, LedgerInv, IssuesCounted
<1>11. QuotaInv' /\ DrawnIfBought'
  BY <1>1, <1>5, QuotaKept
<1>12. StrikesInv'
  BY <1>1 DEF IInv, StrikesInv, people
<1> QED BY <1>1, <1>4, <1>5, <1>8, <1>9, <1>10, <1>11, <1>12, WriteStep DEF LedgerInv

\* A redemption changes who used the code, and the code is the account's own or nobody's.
LEMMA RedeemCommitStep == ASSUME IInv, NEW s \in Requests, RedeemCommit(s) PROVE IInv'
<1> DEFINE u == handler[s].user
           w == handler[s].was
           k == handler[s].code
           used == [code[k] EXCEPT !.used_by = u]
           n == [w EXCEPT !.failed = 0, !.disabled = FALSE]
           a == Merge(account[u], w, n)
<1>1. At(s, "redeem") /\ End(s) /\ TypeOK /\ Live(k) /\ account[u] # None
      /\ UNCHANGED <<today, usage, daily, issued, removed, bought, dialog, calls>>
  BY DEF RedeemCommit, IInv
<1>2. u \in Users /\ w \in Account /\ k \in Codes /\ code[k].owner \in {None, u}
  BY <1>1, AtHandler DEF Sound, Live
<1>3. code[k] \in Code /\ account[u] \in Account
  BY <1>1, <1>2 DEF TypeOK, Live
<1>4. /\ used \in Code /\ used.owner = code[k].owner /\ used.bill = code[k].bill
      /\ used.used_by = u
  BY <1>2, <1>3 DEF Code
<1>5. n \in Account
  <2>1. 0 \in 0 .. MaxFailures
    BY BoundsAssumption
  <2> HIDE DEF w
  <2> QED BY <1>2, <2>1 DEF Account
<1>6. a \in Account
  <2> HIDE DEF n, w, u
  <2> QED BY <1>2, <1>3, <1>5, MergeType
<1>7. /\ code' = [code EXCEPT ![k] = used]
      /\ account' = [account EXCEPT ![u] = a] /\ strikes' = [strikes EXCEPT ![u] = 0]
  BY DEF RedeemCommit
<1>8. used # None /\ used # Gone
  BY <1>4, NoneAssumption
<1> HIDE DEF used, n, a, u, w, k
<1>9. TypeOK'
  BY <1>1, <1>2, <1>4, <1>6, <1>7, EndedHandlers DEF TypeOK
<1>10. \A c \in Codes : /\ Live(c)' <=> Live(c)
                        /\ Live(c) => /\ code'[c].owner = code[c].owner
                                      /\ code'[c].bill = code[c].bill
                        /\ code[c] # None => code'[c] # None
                        /\ c # k => code'[c] = code[c]
  BY <1>1, <1>2, <1>4, <1>7, <1>8 DEF TypeOK, Live
<1>11. CodesKept
  BY <1>10 DEF CodesKept, Live
<1>12. LedgerMatchesCodes'
  <2>1. LedgerMatchesCodes
    BY DEF IInv, LedgerInv
  <2>2. ASSUME NEW b \in Bills, usage'[b] # None
        PROVE  /\ Live(usage[b].code)'
               /\ code'[usage'[b].code].bill = b
               /\ code'[usage'[b].code].owner = usage'[b].user
    <3>1. usage'[b] = usage[b] /\ usage[b].code \in Codes
      BY <1>1, <2>2 DEF TypeOK, Usage
    <3>2. Live(usage[b].code) /\ code[usage[b].code].bill = b
          /\ code[usage[b].code].owner = usage[b].user
      BY <2>1, <2>2, <3>1 DEF LedgerMatchesCodes
    <3>3. Live(usage[b].code)' <=> code'[usage[b].code] \notin {None, Gone}
      BY <1>1 DEF Live
    <3> QED BY <1>1, <1>10, <3>1, <3>2 DEF Live
  <2>3. ASSUME NEW c \in Codes, Live(c)', code'[c].bill # None
        PROVE  usage'[code'[c].bill] = [user |-> code'[c].owner, code |-> c]
    BY <1>1, <1>10, <2>1, <2>3 DEF LedgerMatchesCodes
  <2> QED BY <2>2, <2>3 DEF LedgerMatchesCodes
<1>13. OwnedIfBought'
  BY <1>10 DEF IInv, LedgerInv, OwnedIfBought
<1>14. OwnerRedeems'
  <2>1. ASSUME NEW c \in Codes, Live(c)', code'[c].owner # None
        PROVE  code'[c].used_by \in {None, code'[c].owner}
    <3>1. CASE c = k
      BY <1>1, <1>2, <1>4, <1>7, <2>1, <3>1 DEF TypeOK
    <3>2. CASE c # k
      BY <1>10, <2>1, <3>2 DEF IInv, LedgerInv, OwnerRedeems
    <3> QED BY <3>1, <3>2
  <2> QED BY <2>1 DEF OwnerRedeems
<1>15. IssuesCounted'
  BY <1>1 DEF IInv, LedgerInv, IssuesCounted
<1>16. QuotaInv' /\ DrawnIfBought'
  BY <1>1, <1>11, QuotaKept
<1>17. StrikesInv'
  <2>1. 0 <= a.failed /\ 0 < MaxFailures
    BY <1>6, BoundsAssumption DEF Account
  <2> QED BY <1>1, <1>2, <1>7, <2>1 DEF IInv, StrikesInv, TypeOK
<1> QED BY <1>1, <1>9, <1>11, <1>12, <1>13, <1>14, <1>15, <1>16, <1>17, EndedHandlers, WriteStep
        DEF LedgerInv

-----------------------------------------------------------------------------
\* The theorems.

LEMMA InitInv == Init => IInv
<1> SUFFICES ASSUME Init PROVE IInv
  OBVIOUS
<1>1. TypeOK
  BY BoundsAssumption DEF Init, TypeOK, Account, Days
<1>2. HandlersSound
  BY SoundNone DEF Init, HandlersSound
<1>3. \A c \in Codes : ~Live(c)
  BY DEF Init, Live
<1>4. LedgerMatchesCodes /\ OwnedIfBought /\ IssuesCounted /\ OwnerRedeems
  BY <1>3 DEF Init, LedgerMatchesCodes, OwnedIfBought, IssuesCounted, OwnerRedeems
<1>5. QuotaInv /\ DrawnIfBought
  <2>1. \A u \in Users, d \in Days : Bought(u, d) = {} /\ daily[u][d] = 0
    BY NoneAssumption DEF Init, Bought, Purchase
  <2>2. QuotaInv
    BY <2>1, FS_EmptySet DEF QuotaInv
  <2>3. DrawnIfBought
    BY DEF DrawnIfBought, Init
  <2> QED BY <2>2, <2>3
<1>6. StrikesInv
  BY BoundsAssumption DEF Init, StrikesInv
<1> QED BY <1>1, <1>2, <1>4, <1>5, <1>6 DEF IInv, LedgerInv

LEMMA NextInv == IInv /\ [Next]_vars => IInv'
<1> SUFFICES ASSUME IInv, [Next]_vars PROVE IInv'
  OBVIOUS
<1>1. CASE \E s \in Requests, u \in Users, b \in Bills : Submit(s, u, b)
  BY <1>1, SubmitStep
<1>2. CASE \E s \in Requests :
             \/ LookupBill(s) \/ IssueRefused(s) \/ LookupDuplicate(s)
             \/ RecordActivationFailure(s)
             \/ RedeemCommit(s) \/ EmbyAborted(s) \/ DeleteCommit(s)
             \/ DisableCommit(s) \/ EnableCommit(s)
  BY <1>2, LookupBillStep, IssueRefusedStep, LookupDuplicateStep,
     RecordActivationFailureStep, RedeemCommitStep, EmbyAbortedStep, DeleteCommitStep, DisableCommitStep, EnableCommitStep
<1>3. CASE \E s \in Requests, c \in Codes : IssueCode(s, c) \/ DeleteCode(s, c)
  BY <1>3, IssueCodeStep, DeleteCodeStep
<1>4. CASE \E s \in Requests, u \in Users, c \in Codes : RedeemCode(s, u, c)
  BY <1>4, RedeemCodeStep
<1>5. CASE \E s \in Requests, u \in Users, b \in BOOLEAN : SetUserState(s, u, b)
  BY <1>5, SetUserStateStep
<1>6. CASE \E s \in Requests, a \in Admins, c \in Codes : ChatCodeDelete(s, a, c)
  BY <1>6, ChatCodeDeleteStep
<1>7. CASE \E a \in Admins : BeginCodeDelete(a) \/ DialogExpires(a)
  BY <1>7, BeginCodeDeleteStep, DialogExpiresStep
<1>8. CASE \/ \E c \in Codes : GenerateCode(c)
           \/ \E u \in Users : DeleteUser(u)
           \/ NextDay
           \/ Restart
  BY <1>8, GenerateCodeStep, DeleteUserStep, NextDayStep, RestartStep
<1>9. CASE UNCHANGED vars
  <2>1. UNCHANGED <<people, ledger, handler, today, dialog, calls>>
    BY <1>9 DEF vars, people, ledger
  <2> QED BY <2>1, Resting DEF IInv, TypeOK
<1> QED BY <1>1, <1>2, <1>3, <1>4, <1>5, <1>6, <1>7, <1>8, <1>9 DEF Next

\* Handlers carry what they looked up, the ledger and the codes describe each other, the
\* quota covers what was bought and the failure counters lag behind nothing.
THEOREM Invariance == Spec => []IInv
<1> QED BY InitInv, NextInv, PTL DEF Spec

\* Every table and every suspended handler keeps its type; the counter of a day never
\* passes the limit and the failure counter never passes its own.
THEOREM TypeCorrect == Spec => []TypeOK
<1>1. IInv => TypeOK
  BY DEF IInv
<1> QED BY <1>1, Invariance, PTL

\* The ledger of bill codes and the redeem codes always describe each other, whatever
\* submissions, deletions by page or chat and removals of accounts overlap.
THEOREM LedgerSafe == Spec => []LedgerMatchesCodes
<1>1. IInv => LedgerMatchesCodes
  BY DEF IInv, LedgerInv
<1> QED BY <1>1, Invariance, PTL

\* The day's quota covers every code the account bought that day, those that were deleted
\* since included, also when a request validated before midnight is booked after it.
THEOREM QuotaSafe == Spec => []QuotaCoversCodes
<1>1. ASSUME IInv PROVE QuotaCoversCodes
  <2>1. \A u \in Users, d \in Days : daily[u][d] <= DailyLimit
    BY <1>1, BoundsAssumption DEF IInv, TypeOK
  <2>2. \A u \in Users, d \in Days : Cardinality(Bought(u, d)) <= daily[u][d]
    BY <1>1 DEF IInv, LedgerInv, QuotaInv
  <2> QED BY <2>1, <2>2 DEF QuotaCoversCodes, Bought
<1> QED BY <1>1, Invariance, PTL

\* A bill code issues a second code only after its ledger row was removed.
THEOREM ReissueSafe == Spec => []ReissuedOnlyAfterRemoval
<1>1. IInv => ReissuedOnlyAfterRemoval
  BY DEF IInv, LedgerInv, IssuesCounted, ReissuedOnlyAfterRemoval, TypeOK
<1> QED BY <1>1, Invariance, PTL

\* A code that a bill code bought is redeemed by its owner or by nobody.
THEOREM OwnerSafe == Spec => []OwnerRedeems
<1>1. IInv => OwnerRedeems
  BY DEF IInv, LedgerInv
<1> QED BY <1>1, Invariance, PTL

\* An account with the allowed number of failures since its last success is locked, also
\* when the failing requests overlap each other and redemptions and re-enablings that
\* loaded the account before.
THEOREM LockSafe == Spec => []LockedAfterLimit
<1>1. IInv => LockedAfterLimit
  BY BoundsAssumption DEF IInv, StrikesInv, LockedAfterLimit, TypeOK
<1> QED BY <1>1, Invariance, PTL
=============================================================================
