--------------------------- MODULE ActivationCodes ---------------------------
(***************************************************************************)
(* Redeem codes and the bill codes that buy them: the ledger that makes a  *)
(* bill code single-use, the daily quota, the failure counter that locks   *)
(* an account, redemption by owner, and the two ways an administrator      *)
(* deletes a code (web page and chat dialog).                              *)
(*                                                                         *)
(* A handler is suspended between any two of its database statements;      *)
(* everything between its first write and its commit is one step, because  *)
(* SQLite admits one writer and an aborted transaction leaves no trace.    *)
(***************************************************************************)
EXTENDS Integers, FiniteSets

CONSTANTS
    Users,        \* portal accounts (neither administrators nor friends)
    Codes,        \* texts _new_code may draw; a text is never drawn twice
    Bills,        \* well-formed bill codes
    Requests,     \* slots for HTTP requests and background chat commands
    Admins,       \* chat administrators
    None,         \* SQL NULL, an absent row, an idle slot
    Gone,         \* the row of a deleted code
    Ops,          \* the operations a run enables
    BillDay,      \* the date written in a bill code
    DailyLimit,   \* BILL_CODE_DAILY_LIMIT
    MaxFailures,  \* ACTIVATION_CODE_MAX_FAILURES
    MaxDay,       \* bound: last calendar day
    MaxCalls      \* bound: administrator operations and restarts

Days == 0 .. MaxDay

Account == [failed : 0 .. MaxFailures, locked : BOOLEAN, disabled : BOOLEAN]
Code    == [owner : Users \cup {None}, bill : Bills \cup {None},
            used_by : Users \cup {None}]
Usage   == [user : Users, code : Codes]
Purchase == [user : Users, day : Days]

Stages == {"lookup", "issue", "duplicate", "strike", "redeem", "enable", "disable", "delete"}

Handler == [stage : Stages, user : Users \cup {None}, bill : Bills \cup {None},
            code : Codes \cup {None}, was : Account \cup {None}]

ASSUME NoneAssumption ==
    /\ None \notin Users \cup Codes \cup Bills \cup {Gone}
    /\ None \notin Account
    /\ None \notin Code
    /\ None \notin Usage \cup Purchase
    /\ None \notin Handler
    /\ Gone \notin Code \cup {None}
ASSUME BoundsAssumption ==
    /\ {DailyLimit, MaxFailures} \subseteq Nat \ {0}
    /\ {MaxDay, MaxCalls} \subseteq Nat
    /\ BillDay \in [Bills -> Days]
    /\ IsFiniteSet(Codes)

VARIABLES
    today,    \* bill_code_today(): the date in the configured time zone
    account,  \* managed_users: the activation columns of each account, or None
    code,     \* redeem_codes: None before a text is drawn, Gone once deleted
    usage,    \* bill_code_usages: who used a bill code for which redeem code
    daily,    \* bill_code_daily_usages.used_count
    handler,  \* the handler suspended in each slot, or None
    dialog,   \* _code_delete_sessions: the codes last listed to an administrator
    calls,    \* budget spent on what administrators may do
    issued,   \* history: codes ever issued for a bill code
    removed,  \* history: ledger rows of a bill code deleted again
    bought,   \* history: the account that bought a code with a bill code, and the day
    strikes   \* history: failures since the last redemption or re-enabling

vars == <<today, account, code, usage, daily, handler, dialog, calls, issued, removed,
          bought, strikes>>
ledger == <<code, usage, daily, issued, removed, bought>>
people == <<account, strikes>>

TypeOK ==
    /\ today \in Days
    /\ account \in [Users -> Account \cup {None}]
    /\ code \in [Codes -> Code \cup {None, Gone}]
    /\ usage \in [Bills -> Usage \cup {None}]
    /\ daily \in [Users -> [Days -> 0 .. DailyLimit]]
    /\ handler \in [Requests -> Handler \cup {None}]
    /\ dialog \in [Admins -> SUBSET Codes]
    /\ calls \in 0 .. MaxCalls
    /\ issued \in [Bills -> Nat] /\ removed \in [Bills -> Nat]
    /\ bought \in [Codes -> Purchase \cup {None}]
    /\ strikes \in [Users -> Nat]

Init ==
    /\ today = 0
    /\ account = [u \in Users |-> [failed |-> 0, locked |-> FALSE, disabled |-> FALSE]]
    /\ code = [c \in Codes |-> None]
    /\ usage = [b \in Bills |-> None]
    /\ daily = [u \in Users |-> [d \in Days |-> 0]]
    /\ handler = [s \in Requests |-> None]
    /\ dialog = [a \in Admins |-> {}]
    /\ calls = 0
    /\ issued = [b \in Bills |-> 0] /\ removed = [b \in Bills |-> 0]
    /\ bought = [c \in Codes |-> None]
    /\ strikes = [u \in Users |-> 0]

-----------------------------------------------------------------------------
\* Helpers.

Live(c)   == code[c] \notin {None, Gone}
Unused(c) == Live(c) /\ code[c].used_by = None

Spend == calls < MaxCalls /\ calls' = calls + 1

Begin(s, stage, u, b, c) ==
    /\ handler[s] = None
    /\ handler' = [handler EXCEPT ![s] =
                     [stage |-> stage, user |-> u, bill |-> b, code |-> c,
                      was |-> IF u = None THEN None ELSE account[u]]]

At(s, stage) == handler[s] # None /\ handler[s].stage = stage
Go(s, stage) == handler' = [handler EXCEPT ![s].stage = stage]
End(s)       == handler' = [handler EXCEPT ![s] = None]

\* An update writes the columns that differ from the values its session loaded.
Merge(cur, was, new) == [f \in DOMAIN cur |-> IF new[f] = was[f] THEN cur[f] ELSE new[f]]

\* Mutant: the ledger row of a deleted code stays.
DeleteCodesOnly(C) ==
    /\ code' = [c \in Codes |-> IF c \in C THEN Gone ELSE code[c]]
    /\ UNCHANGED <<usage, removed>>

\* DELETE FROM redeem_codes; the foreign key takes the ledger row along.
DeleteCodes(C) ==
    LET gone(b) == usage[b] # None /\ usage[b].code \in C IN
    /\ code' = [c \in Codes |-> IF c \in C THEN Gone ELSE code[c]]
    /\ usage' = [b \in Bills |-> IF gone(b) THEN None ELSE usage[b]]
    /\ removed' = [b \in Bills |-> removed[b] + (IF gone(b) THEN 1 ELSE 0)]

-----------------------------------------------------------------------------
\* create_redeem_code_from_bill.

\* A refused date is a failure, like every other invalid bill code.
Submit(s, u, b) ==
    /\ account[u] # None /\ ~account[u].locked /\ ~account[u].disabled
    /\ Begin(s, IF BillDay[b] = today THEN "lookup" ELSE "strike", u, b, None)
    /\ UNCHANGED <<today, people, ledger, dialog, calls>>

LookupBill(s) ==
    /\ At(s, "lookup")
    /\ Go(s, IF usage[handler[s].bill] = None THEN "issue" ELSE "strike")
    /\ UNCHANGED <<today, people, ledger, dialog, calls>>

\* Mutant: the upsert has no limit.
IssueCodeUnlimited(s, c) ==
    LET u == handler[s].user  b == handler[s].bill IN
    /\ At(s, "issue") /\ code[c] = None
    /\ account[u] # None /\ usage[b] = None
    /\ code' = [code EXCEPT ![c] = [owner |-> u, bill |-> b, used_by |-> None]]
    /\ usage' = [usage EXCEPT ![b] = [user |-> u, code |-> c]]
    /\ daily' = [daily EXCEPT ![u][today] = @ + 1]
    /\ issued' = [issued EXCEPT ![b] = @ + 1]
    /\ bought' = [bought EXCEPT ![c] = [user |-> u, day |-> today]]
    /\ End(s)
    /\ UNCHANGED <<today, people, dialog, calls, removed>>

\* Mutant: no unique key backs the lookup.
IssueCodeTrustingLookup(s, c) ==
    LET u == handler[s].user  b == handler[s].bill IN
    /\ At(s, "issue") /\ code[c] = None
    /\ account[u] # None /\ daily[u][today] < DailyLimit
    /\ code' = [code EXCEPT ![c] = [owner |-> u, bill |-> b, used_by |-> None]]
    /\ usage' = [usage EXCEPT ![b] = [user |-> u, code |-> c]]
    /\ daily' = [daily EXCEPT ![u][today] = @ + 1]
    /\ issued' = [issued EXCEPT ![b] = @ + 1]
    /\ bought' = [bought EXCEPT ![c] = [user |-> u, day |-> today]]
    /\ End(s)
    /\ UNCHANGED <<today, people, dialog, calls, removed>>

\* The upsert of the daily row, the code and its ledger row, in one transaction.
IssueCode(s, c) ==
    LET u == handler[s].user  b == handler[s].bill IN
    /\ At(s, "issue") /\ code[c] = None
    /\ account[u] # None /\ daily[u][today] < DailyLimit /\ usage[b] = None
    /\ code' = [code EXCEPT ![c] = [owner |-> u, bill |-> b, used_by |-> None]]
    /\ usage' = [usage EXCEPT ![b] = [user |-> u, code |-> c]]
    /\ daily' = [daily EXCEPT ![u][today] = @ + 1]
    /\ issued' = [issued EXCEPT ![b] = @ + 1]
    /\ bought' = [bought EXCEPT ![c] = [user |-> u, day |-> today]]
    /\ End(s)
    /\ UNCHANGED <<today, people, dialog, calls, removed>>

\* A deleted account is a database error, a full day a failure; the unique keys refuse a
\* bill code another request committed meanwhile, and the roll-back returns the quota.
IssueRefused(s) ==
    LET u == handler[s].user  b == handler[s].bill IN
    /\ At(s, "issue")
    /\ \/ account[u] = None /\ End(s)
       \/ account[u] # None /\ daily[u][today] >= DailyLimit /\ Go(s, "strike")
       \/ /\ account[u] # None /\ daily[u][today] < DailyLimit /\ usage[b] # None
          /\ Go(s, "duplicate")
    /\ UNCHANGED <<today, people, ledger, dialog, calls>>

\* The refused request looks for the row that stood in its way: a failure when it is
\* there, an error that costs nothing when it was deleted meanwhile.
LookupDuplicate(s) ==
    /\ At(s, "duplicate")
    /\ IF usage[handler[s].bill] # None THEN Go(s, "strike") ELSE End(s)
    /\ UNCHANGED <<today, people, ledger, dialog, calls>>

\* Mutant: the counter is raised from the value the request loaded.
RecordActivationFailureStale(s) ==
    LET u == handler[s].user  a == account[u]  n == handler[s].was.failed + 1 IN
    /\ At(s, "strike")
    /\ account' =
         IF a = None \/ (a # None /\ a.locked) THEN account
         ELSE [account EXCEPT ![u] =
                 IF n >= MaxFailures
                 THEN [failed |-> MaxFailures, locked |-> TRUE, disabled |-> TRUE]
                 ELSE [a EXCEPT !.failed = n]]
    /\ strikes' = IF a = None \/ (a # None /\ a.locked) THEN strikes
                  ELSE [strikes EXCEPT ![u] = @ + 1]
    /\ End(s)
    /\ UNCHANGED <<today, ledger, dialog, calls>>

\* One UPDATE that reads the counter it raises; a locked account is left as it is.
RecordActivationFailure(s) ==
    LET u == handler[s].user  a == account[u] IN
    /\ At(s, "strike")
    /\ account' =
         IF a = None \/ (a # None /\ a.locked) THEN account
         ELSE [account EXCEPT ![u] =
                 IF a.failed + 1 >= MaxFailures
                 THEN [failed |-> MaxFailures, locked |-> TRUE, disabled |-> TRUE]
                 ELSE [a EXCEPT !.failed = @ + 1]]
    /\ strikes' = IF a = None \/ (a # None /\ a.locked) THEN strikes
                  ELSE [strikes EXCEPT ![u] = @ + 1]
    /\ End(s)
    /\ UNCHANGED <<today, ledger, dialog, calls>>

-----------------------------------------------------------------------------
\* redeem_code.

\* Mutant: the owner of the code is not looked at.
RedeemCodeAnyOwner(s, u, c) ==
    /\ account[u] # None /\ ~account[u].locked
    /\ Begin(s, IF Unused(c) THEN "redeem" ELSE "strike", u, None, c)
    /\ UNCHANGED <<today, people, ledger, dialog, calls>>

\* A code of an administrator may have expired; one that a bill code bought never does.
RedeemCode(s, u, c) ==
    /\ account[u] # None /\ ~account[u].locked
    /\ \E stage \in {"redeem", "strike"} :
         /\ stage = "redeem" => Unused(c) /\ code[c].owner \in {None, u}
         /\ stage = "strike" => ~(Unused(c) /\ code[c].owner = u)
         /\ Begin(s, stage, u, None, c)
    /\ UNCHANGED <<today, people, ledger, dialog, calls>>

\* Emby opened playback.  The rows are written by primary key: a row that vanished
\* aborts the commit, a code another request used meanwhile is overwritten.
RedeemCommit(s) ==
    LET h == handler[s]  u == h.user IN
    /\ At(s, "redeem") /\ account[u] # None /\ Live(h.code)
    /\ code' = [code EXCEPT ![h.code].used_by = u]
    /\ account' = [account EXCEPT ![u] =
                     Merge(@, h.was, [h.was EXCEPT !.failed = 0, !.disabled = FALSE])]
    /\ strikes' = [strikes EXCEPT ![u] = 0]
    /\ End(s)
    /\ UNCHANGED <<today, usage, daily, issued, removed, bought, dialog, calls>>

\* EmbyError or a vanished row: the session of a handler that calls Emby is not written.
EmbyAborted(s) ==
    /\ At(s, "redeem") \/ At(s, "enable") \/ At(s, "disable")
    /\ End(s)
    /\ UNCHANGED <<today, people, ledger, dialog, calls>>

-----------------------------------------------------------------------------
\* Administrators.

GenerateCode(c) ==
    /\ "generate" \in Ops /\ code[c] = None /\ Spend
    /\ code' = [code EXCEPT ![c] = [owner |-> None, bill |-> None, used_by |-> None]]
    /\ UNCHANGED <<today, people, usage, daily, issued, removed, bought, handler, dialog>>

\* The web page: neither a used code nor one that a bill code bought.
DeleteCode(s, c) ==
    /\ "delete_code" \in Ops /\ Spend
    /\ Unused(c) /\ code[c].bill = None
    /\ Begin(s, "delete", None, None, c)
    /\ UNCHANGED <<today, people, ledger, dialog>>

BeginCodeDelete(a) ==
    /\ "chat_delete" \in Ops /\ Spend
    /\ dialog' = [dialog EXCEPT ![a] = {c \in Codes : Unused(c)}]
    /\ UNCHANGED <<today, people, ledger, handler>>

\* The reply ends the dialog; the command runs in the background and looks the text
\* up again, but asks only whether the code was used.
ChatCodeDelete(s, a, c) ==
    /\ c \in dialog[a]
    /\ dialog' = [dialog EXCEPT ![a] = {}]
    /\ IF Unused(c) THEN Begin(s, "delete", None, None, c) ELSE UNCHANGED handler
    /\ UNCHANGED <<today, people, ledger, calls>>

DialogExpires(a) ==
    /\ dialog[a] # {}
    /\ dialog' = [dialog EXCEPT ![a] = {}]
    /\ UNCHANGED <<today, people, ledger, handler, calls>>

\* Mutant: the deletion of a code gives its owner the attempt of the day back.
DeleteCommitRefund(s) ==
    LET c == handler[s].code IN
    /\ At(s, "delete")
    /\ IF Live(c) THEN DeleteCodes({c}) ELSE UNCHANGED <<code, usage, removed>>
    /\ daily' = [u \in Users |-> [d \in Days |->
                   IF bought[c] = [user |-> u, day |-> d] /\ Live(c) THEN daily[u][d] - 1
                   ELSE daily[u][d]]]
    /\ End(s)
    /\ UNCHANGED <<today, people, issued, bought, dialog, calls>>

DeleteCommit(s) ==
    LET c == handler[s].code IN
    /\ At(s, "delete")
    /\ IF Live(c) THEN DeleteCodes({c}) ELSE UNCHANGED <<code, usage, removed>>
    /\ End(s)
    /\ UNCHANGED <<today, people, daily, issued, bought, dialog, calls>>

SetUserState(s, u, disabled) ==
    /\ "set_state" \in Ops /\ account[u] # None /\ Spend
    /\ Begin(s, IF disabled THEN "disable" ELSE "enable", u, None, None)
    /\ UNCHANGED <<today, people, ledger, dialog>>

DisableCommit(s) ==
    LET u == handler[s].user  w == handler[s].was IN
    /\ At(s, "disable") /\ account[u] # None
    /\ account' = [account EXCEPT ![u] = Merge(@, w, [w EXCEPT !.disabled = TRUE])]
    /\ End(s)
    /\ UNCHANGED <<today, ledger, dialog, calls, strikes>>

EnableCommit(s) ==
    LET u == handler[s].user  w == handler[s].was IN
    /\ At(s, "enable") /\ account[u] # None
    /\ account' = [account EXCEPT ![u] =
                     Merge(@, w, [failed |-> 0, locked |-> FALSE, disabled |-> FALSE])]
    /\ strikes' = [strikes EXCEPT ![u] = 0]
    /\ End(s)
    /\ UNCHANGED <<today, ledger, dialog, calls>>

\* _delete_local_user_data: the account with its ledger, its quota and its codes.
DeleteUser(u) ==
    /\ "delete_user" \in Ops /\ account[u] # None /\ Spend
    /\ account' = [account EXCEPT ![u] = None]
    /\ DeleteCodes({c \in Codes : Live(c) /\ u \in {code[c].owner, code[c].used_by}})
    /\ daily' = [daily EXCEPT ![u] = [d \in Days |-> 0]]
    /\ bought' = [c \in Codes |-> IF bought[c] # None /\ bought[c].user = u THEN None
                                  ELSE bought[c]]
    /\ strikes' = [strikes EXCEPT ![u] = 0]
    /\ UNCHANGED <<today, issued, handler, dialog>>

NextDay ==
    /\ today < MaxDay
    /\ today' = today + 1
    /\ UNCHANGED <<people, ledger, handler, dialog, calls>>

\* The process restarts: suspended handlers and dialogs are gone, commits stay.
Restart ==
    /\ "restart" \in Ops /\ Spend
    /\ handler' = [s \in Requests |-> None]
    /\ dialog' = [a \in Admins |-> {}]
    /\ UNCHANGED <<today, people, ledger>>

-----------------------------------------------------------------------------
Next ==
    \/ \E s \in Requests, u \in Users, b \in Bills : Submit(s, u, b)
    \/ \E s \in Requests :
         \/ LookupBill(s) \/ IssueRefused(s) \/ LookupDuplicate(s)
         \/ RecordActivationFailure(s)
         \/ RedeemCommit(s) \/ EmbyAborted(s) \/ DeleteCommit(s)
         \/ DisableCommit(s) \/ EnableCommit(s)
    \/ \E s \in Requests, c \in Codes : IssueCode(s, c) \/ DeleteCode(s, c)
    \/ \E s \in Requests, u \in Users, c \in Codes : RedeemCode(s, u, c)
    \/ \E s \in Requests, u \in Users, b \in BOOLEAN : SetUserState(s, u, b)
    \/ \E s \in Requests, a \in Admins, c \in Codes : ChatCodeDelete(s, a, c)
    \/ \E a \in Admins : BeginCodeDelete(a) \/ DialogExpires(a)
    \/ \E c \in Codes : GenerateCode(c)
    \/ \E u \in Users : DeleteUser(u)
    \/ NextDay
    \/ Restart

Spec == Init /\ [][Next]_vars

-----------------------------------------------------------------------------
\* Properties.

\* The ledger and the issued codes describe each other: every ledger row points to a
\* live code of the same bill code and owner, and every code bought with a bill code
\* has its row.  Deleting a code or an account must keep both sides
\* (BillCodeUsage's foreign keys, _delete_local_user_data).
LedgerMatchesCodes ==
    /\ \A b \in Bills : usage[b] # None =>
         /\ Live(usage[b].code)
         /\ code[usage[b].code].bill = b
         /\ code[usage[b].code].owner = usage[b].user
    /\ \A c \in Codes : Live(c) /\ code[c].bill # None =>
         usage[code[c].bill] = [user |-> code[c].owner, code |-> c]

\* The day's quota covers every code the account bought that day: a code that was
\* deleted again still counts, whatever requests overlap and wherever midnight falls
\* (the upsert of BillCodeDailyUsage in create_redeem_code_from_bill).
QuotaCoversCodes ==
    \A u \in Users, d \in Days :
       /\ daily[u][d] <= DailyLimit
       /\ Cardinality({c \in Codes : bought[c] = [user |-> u, day |-> d]}) <= daily[u][d]

\* Overlapping submissions of one bill code issue one code; only the removal of its
\* ledger row lets it issue another (the unique keys in create_redeem_code_from_bill).
ReissuedOnlyAfterRemoval == \A b \in Bills : issued[b] <= 1 + removed[b]

\* A code bought with a bill code is redeemed by its owner (redeem_code's owner check).
OwnerRedeems ==
    \A c \in Codes : Live(c) /\ code[c].owner # None => code[c].used_by \in {None, code[c].owner}

\* No failure is lost between overlapping requests: an account that failed the allowed
\* number of times since it last redeemed a code or was re-enabled is locked
\* (the atomic counter of _record_activation_failure).
LockedAfterLimit ==
    \A u \in Users : account[u] # None /\ strikes[u] >= MaxFailures => account[u].locked

\* What BillCodeUsage and the deletion page say: a bill code never issues two codes.
BillIssuedOnce == \A b \in Bills : issued[b] <= 1
=============================================================================
