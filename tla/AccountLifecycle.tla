-------------------------- MODULE AccountLifecycle --------------------------
(***************************************************************************)
(* The life of a managed account once its row exists: redemption, expiry,  *)
(* revocation of playback, the two purges, administrator operations, the   *)
(* periodic sync and the activation lock.                                  *)
(*                                                                         *)
(* Every request handler and scheduler job is a coroutine on one event     *)
(* loop: it runs without interruption between two awaits, and other        *)
(* coroutines run while it waits for Emby or for _user_mutation_lock.      *)
(* task[s] is the handler suspended in slot s.  It keeps the row object    *)
(* its own database session loaded (was), the Emby calls it still has to   *)
(* make (todo), the half-finished Policy rewrite (policy) and the last     *)
(* Policy it fetched (remote).                                             *)
(***************************************************************************)
EXTENDS Integers, Sequences, FiniteSets

CONSTANTS
    Users,        \* managed accounts of one Emby server
    Codes,        \* redeem codes an administrator generated
    Requests,     \* slots for HTTP requests and for the jobs run at start-up
    None,         \* SQL NULL, an absent row, an absent Emby account, an idle slot
    Ops,          \* the operations a run enables
    Grace,        \* activation_grace_hours, in clock ticks
    Retain,       \* purge_after_expiry_days, in clock ticks
    Duration,     \* duration_seconds of a code, in clock ticks
    MaxFailures,  \* ACTIVATION_CODE_MAX_FAILURES
    MaxTime,      \* bound: last clock tick
    MaxCalls,     \* bound: administrator requests, failed codes, Emby faults
    MaxInFlight   \* bound: handlers suspended at the same time

Jobs  == {"expiry", "lifecycle", "sync"}
Slots == Requests \cup Jobs
Time  == Nat \cup {None}

Row == [self_registered : BOOLEAN, claimed : BOOLEAN, has_password : BOOLEAN,
        portal_enabled : BOOLEAN, playback_source : {"controller", "emby"},
        activated : BOOLEAN, registered_at : Time, expires_at : Time,
        playback_enabled : BOOLEAN, playback_revoked_at : Time,
        is_disabled : BOOLEAN, activation_failed_attempts : 0 .. MaxFailures,
        activation_locked : BOOLEAN, is_protected : BOOLEAN]

Policy == [IsDisabled : BOOLEAN, EnableMediaPlayback : BOOLEAN]

\* What a suspended handler still has to do before it writes to the database:
\* requests to Emby, waiting for the mutation lock, or the second SELECT of a sync.
Call == [verb : {"set_user_disabled", "set_playback_allowed", "get_user",
                 "delete_user", "acquire", "select"},
         to : BOOLEAN]

SetUserDisabled(b)    == [verb |-> "set_user_disabled", to |-> b]
SetPlaybackAllowed(b) == [verb |-> "set_playback_allowed", to |-> b]
GetUser               == [verb |-> "get_user", to |-> TRUE]
DeleteUser            == [verb |-> "delete_user", to |-> TRUE]
Acquire               == [verb |-> "acquire", to |-> TRUE]
Select                == [verb |-> "select", to |-> TRUE]

PatchVerbs == {"set_user_disabled", "set_playback_allowed"}
DeleteOps  == {"purge_inactive", "purge_expired", "admin_delete"}
TaskOps    == DeleteOps \cup {"redeem", "expire", "set_state", "set_policy", "refresh",
                              "enable_portal", "claim", "sync"}

Task == [op : TaskOps, user : Users, code : Codes \cup {None}, to : BOOLEAN,
         field : PatchVerbs, was : Row \cup {None}, at : Nat, todo : Seq(Call),
         policy : Policy \cup {None}, remote : Policy \cup {None}]

ASSUME NoneAssumption ==
    /\ None \notin Int
    /\ None \notin Row
    /\ None \notin Policy
    /\ None \notin Task
    /\ None \notin Users \cup Codes \cup Slots
    /\ {"gone", "used"} \cap (Users \cup {None}) = {}
ASSUME BoundsAssumption ==
    /\ {Grace, Retain, Duration, MaxTime, MaxCalls, MaxInFlight} \subseteq Nat
    /\ MaxFailures \in Nat \ {0}
    /\ Requests \cap Jobs = {}

VARIABLES
    now,     \* the clock
    row,     \* managed_users: the committed row of each user, or None
    emby,    \* the Policy Emby holds for the account, or None once deleted there
    codes,   \* redeem_codes: None while unused, then the redeemer; "used" once the redeemer's
             \* row went with the server (ON DELETE SET NULL); "gone" if deleted
    task,    \* the handler suspended in each slot, or None
    mutex,   \* _user_mutation_lock: the slot that holds it, or None
    calls,   \* budget spent on what the environment may do
    grants,  \* history: the accounts each code was credited to
    dated,   \* history: users whose expires_at was ever set
    server   \* servers: is the row of their server still there?

vars == <<now, row, emby, codes, task, mutex, calls, grants, dated, server>>
data == <<now, row, emby, codes, grants, dated, server>>

TypeOK ==
    /\ now \in Nat
    /\ row \in [Users -> Row \cup {None}]
    /\ emby \in [Users -> Policy \cup {None}]
    /\ codes \in [Codes -> Users \cup {None, "gone", "used"}]
    /\ task \in [Slots -> Task \cup {None}]
    /\ mutex \in Slots \cup {None}
    /\ calls \in Nat
    /\ grants \in [Codes -> SUBSET Users]
    /\ dated \in SUBSET Users
    /\ server \in BOOLEAN

-----------------------------------------------------------------------------
\* Accounts as the three creation paths leave them.

Blank == [self_registered |-> FALSE, claimed |-> FALSE, has_password |-> FALSE,
          portal_enabled |-> FALSE, playback_source |-> "emby", activated |-> FALSE,
          registered_at |-> None, expires_at |-> None, playback_enabled |-> TRUE,
          playback_revoked_at |-> None, is_disabled |-> FALSE,
          activation_failed_attempts |-> 0, activation_locked |-> FALSE,
          is_protected |-> FALSE]

SyncedRow     == Blank
RegisteredRow == [Blank EXCEPT !.self_registered = TRUE, !.has_password = TRUE,
                               !.playback_source = "controller", !.registered_at = 0,
                               !.playback_enabled = FALSE]

\* An administrator creates the account with a date ahead or none, playback open or closed.
CreatedRow(t, open) ==
    [Blank EXCEPT !.has_password = TRUE, !.portal_enabled = TRUE,
                  !.playback_source = "controller", !.activated = TRUE,
                  !.registered_at = 0, !.expires_at = t, !.playback_enabled = open]

NewRow == {SyncedRow, RegisteredRow, [RegisteredRow EXCEPT !.portal_enabled = TRUE]}
            \cup {CreatedRow(t, TRUE) : t \in 1 .. MaxTime \cup {None}}
            \cup {CreatedRow(t, FALSE) : t \in 1 .. MaxTime \cup {None}}

Init ==
    /\ now = 0
    /\ row \in [Users -> NewRow]
    /\ emby = [u \in Users |-> [IsDisabled |-> FALSE,
                                EnableMediaPlayback |-> row[u].playback_enabled]]
    /\ codes = [c \in Codes |-> None]
    /\ task = [s \in Slots |-> None]
    /\ mutex = None
    /\ calls = 0
    /\ grants = [c \in Codes |-> {}]
    /\ dated = {u \in Users : row[u].expires_at # None}
    /\ server = TRUE

-----------------------------------------------------------------------------
\* Helpers.

CanPortalLogin(r) == r.has_password /\ (r.self_registered \/ r.portal_enabled)
Past(t, at)       == t # None /\ t <= at

\* Mutant: a flush writes the whole row the handler loaded.
MergeWholeRow(cur, was, new) == new

\* A flush writes only the columns whose value differs from the one this session
\* loaded (expire_on_commit=False: the loaded values stay those of the first SELECT).
Merge(cur, was, new) == [f \in DOMAIN cur |-> IF new[f] = was[f] THEN cur[f] ELSE new[f]]

Free  == Cardinality({s \in Slots : task[s] # None}) < MaxInFlight
Spend == calls < MaxCalls /\ calls' = calls + 1

\* A job runs in its own slot (max_instances=1), and also as a start-up job or from an
\* administrator's request.
RunsJob(s, job) == s = job \/ (s \in Requests /\ "startup" \in Ops)

\* Suspend a handler of user u in the idle slot s; two kinds keep the time they read.
Begin(s, op, u, c, field, to, todo) ==
    /\ op \in Ops /\ task[s] = None /\ Free
    /\ task' = [task EXCEPT ![s] =
                  [op |-> op, user |-> u, code |-> c, to |-> to, field |-> field,
                   was |-> row[u], at |-> IF op \in {"redeem", "expire"} THEN now ELSE 0,
                   todo |-> todo, policy |-> None,
                   remote |-> None]]

\* Mutant: the lock is not released when its holder ends.
EndKeepingLock(s) ==
    /\ task' = [task EXCEPT ![s] = None]
    /\ mutex' = mutex

End(s) ==
    /\ task' = [task EXCEPT ![s] = None]
    /\ mutex' = IF mutex = s THEN None ELSE mutex

Waiting(s, verbs) == task[s] # None /\ task[s].todo # <<>> /\ Head(task[s].todo).verb \in verbs
Ready(s, op)      == task[s] # None /\ task[s].op = op /\ task[s].todo = <<>>

Patched(p, call) ==
    IF call.verb = "set_user_disabled" THEN [p EXCEPT !.IsDisabled = call.to]
                                       ELSE [p EXCEPT !.EnableMediaPlayback = call.to]

\* Mutant: a sync does not look at the activation lock.
LockDriftIgnored(r, p) == <<>>

\* Corrections a sync or a refresh sends after it has read the remote Policy.
LockDrift(r, p) == IF r.activation_locked /\ ~p.IsDisabled THEN <<SetUserDisabled(TRUE)>> ELSE <<>>
PlayDrift(r, p) ==
    IF r.playback_source = "controller" /\ p.EnableMediaPlayback # r.playback_enabled
    THEN <<SetPlaybackAllowed(r.playback_enabled)>> ELSE <<>>

\* The row a sync or a refresh writes.
Reconciled(r, p) ==
    [r EXCEPT !.is_disabled = r.activation_locked \/ p.IsDisabled,
              !.playback_enabled = IF r.playback_source = "controller"
                                   THEN @ ELSE p.EnableMediaPlayback]

-----------------------------------------------------------------------------
\* Starting a handler.

\* Mutant: the code's is_used flag is not looked at.
RedeemCodeUnchecked(s, u, c) ==
    /\ s \in Requests /\ row[u] # None
    /\ CanPortalLogin(row[u]) /\ ~row[u].activation_locked
    /\ Begin(s, "redeem", u, c, "set_playback_allowed", TRUE, <<SetPlaybackAllowed(TRUE)>>)
    /\ UNCHANGED <<data, mutex, calls>>

RedeemCode(s, u, c) ==
    /\ s \in Requests /\ row[u] # None
    /\ CanPortalLogin(row[u]) /\ ~row[u].activation_locked
    /\ codes[c] = None
    /\ Begin(s, "redeem", u, c, "set_playback_allowed", TRUE,
             (IF row[u].is_disabled THEN <<SetUserDisabled(FALSE)>> ELSE <<>>)
               \o <<SetPlaybackAllowed(TRUE)>>)
    /\ UNCHANGED <<data, mutex, calls>>

\* Mutant: every account with an expiry date counts as expired.
ProcessExpirationsEarly(s, u) ==
    /\ RunsJob(s, "expiry") /\ row[u] # None
    /\ row[u].expires_at # None /\ CanPortalLogin(row[u])
    /\ row[u].playback_revoked_at = None \/ row[u].playback_enabled
    /\ Begin(s, "expire", u, None, "set_playback_allowed", FALSE,
             IF row[u].playback_enabled THEN <<SetPlaybackAllowed(FALSE)>> ELSE <<>>)
    /\ UNCHANGED <<data, mutex, calls>>

\* Mutant: an account once revoked is not looked at again.
ProcessExpirationsOnce(s, u) ==
    /\ RunsJob(s, "expiry") /\ row[u] # None
    /\ Past(row[u].expires_at, now)
    /\ IF CanPortalLogin(row[u])
       THEN /\ row[u].playback_revoked_at = None
            /\ Begin(s, "expire", u, None, "set_playback_allowed", FALSE,
                     IF row[u].playback_enabled THEN <<SetPlaybackAllowed(FALSE)>> ELSE <<>>)
       ELSE /\ ~row[u].is_disabled
            /\ Begin(s, "expire", u, None, "set_user_disabled", TRUE, <<SetUserDisabled(TRUE)>>)
    /\ UNCHANGED <<data, mutex, calls>>

\* One candidate of process_expirations, decided on the row the job selected.
ProcessExpirations(s, u) ==
    /\ RunsJob(s, "expiry") /\ row[u] # None
    /\ Past(row[u].expires_at, now)
    /\ IF CanPortalLogin(row[u])
       THEN /\ row[u].playback_revoked_at = None \/ row[u].playback_enabled
            /\ Begin(s, "expire", u, None, "set_playback_allowed", FALSE,
                     IF row[u].playback_enabled THEN <<SetPlaybackAllowed(FALSE)>> ELSE <<>>)
       ELSE /\ ~row[u].is_disabled
            /\ Begin(s, "expire", u, None, "set_user_disabled", TRUE, <<SetUserDisabled(TRUE)>>)
    /\ UNCHANGED <<data, mutex, calls>>

PurgeInactive(s, u) ==
    /\ RunsJob(s, "lifecycle") /\ row[u] # None
    /\ row[u].self_registered /\ ~row[u].activated
    /\ row[u].registered_at # None /\ row[u].registered_at + Grace <= now
    /\ Begin(s, "purge_inactive", u, None, "set_user_disabled", TRUE, <<Acquire, DeleteUser>>)
    /\ UNCHANGED <<data, mutex, calls>>

\* Mutant: a closed playback switch is taken for a revocation.
PurgeExpiredBySwitch(s, u) ==
    /\ RunsJob(s, "lifecycle") /\ row[u] # None
    /\ row[u].self_registered \/ row[u].claimed
    /\ ~row[u].playback_enabled
    /\ Begin(s, "purge_expired", u, None, "set_user_disabled", TRUE, <<Acquire, DeleteUser>>)
    /\ UNCHANGED <<data, mutex, calls>>

PurgeExpired(s, u) ==
    /\ RunsJob(s, "lifecycle") /\ row[u] # None
    /\ row[u].self_registered \/ row[u].claimed
    /\ row[u].playback_revoked_at # None /\ row[u].playback_revoked_at + Retain <= now
    /\ Begin(s, "purge_expired", u, None, "set_user_disabled", TRUE, <<Acquire, DeleteUser>>)
    /\ UNCHANGED <<data, mutex, calls>>

AdminDeleteUser(s, u) ==
    /\ s \in Requests /\ row[u] # None /\ Spend
    /\ Begin(s, "admin_delete", u, None, "set_user_disabled", TRUE, <<Acquire, DeleteUser>>)
    /\ UNCHANGED <<data, mutex>>

SetUserState(s, u, disabled) ==
    /\ s \in Requests /\ row[u] # None /\ Spend
    /\ Begin(s, "set_state", u, None, "set_user_disabled", disabled, <<SetUserDisabled(disabled)>>)
    /\ UNCHANGED <<data, mutex>>

UpdateUserPolicy(s, u, field, b) ==
    /\ s \in Requests /\ row[u] # None /\ Spend
    /\ Begin(s, "set_policy", u, None, field, b, <<[verb |-> field, to |-> b], GetUser>>)
    /\ UNCHANGED <<data, mutex>>

RefreshUserFromEmby(s, u) ==
    /\ s \in Requests /\ row[u] # None /\ Spend
    /\ Begin(s, "refresh", u, None, "set_user_disabled", TRUE, <<GetUser>>)
    /\ UNCHANGED <<data, mutex>>

EnablePortalLogin(s, u) ==
    /\ s \in Requests /\ row[u] # None /\ Spend
    /\ Begin(s, "enable_portal", u, None, "set_user_disabled", TRUE, <<GetUser>>)
    /\ UNCHANGED <<data, mutex>>

ClaimExistingUser(s, u) ==
    /\ s \in Requests /\ row[u] # None /\ ~row[u].has_password /\ Spend
    /\ Begin(s, "claim", u, None, "set_user_disabled", TRUE, <<GetUser>>)
    /\ UNCHANGED <<data, mutex>>

\* sync_server_users takes the mutation lock and lists the Emby accounts; it selects
\* the rows only after a further request (list_virtual_folders).
SyncServerUsers(s, u) ==
    /\ RunsJob(s, "sync") /\ mutex = None /\ server
    /\ "sync" \in Ops /\ task[s] = None /\ Free
    /\ task' = [task EXCEPT ![s] =
                  [op |-> "sync", user |-> u, code |-> None, to |-> TRUE,
                   field |-> "set_user_disabled", was |-> None, at |-> 0,
                   todo |-> <<Select>>, policy |-> None, remote |-> emby[u]]]
    /\ mutex' = s
    /\ UNCHANGED <<data, calls>>

-----------------------------------------------------------------------------
\* The awaits of a suspended handler.

EmbyVerbs == PatchVerbs \cup {"get_user", "delete_user"}

\* _patch_policy reads the whole Policy and posts it back with the change merged in:
\* two requests, so a Policy written in between is overwritten.
PatchGet(s) ==
    /\ Waiting(s, PatchVerbs) /\ task[s].policy = None
    /\ emby[task[s].user] # None
    /\ task' = [task EXCEPT ![s].policy = emby[task[s].user]]
    /\ UNCHANGED <<data, mutex, calls>>

PolicyPosted(s) ==
    /\ task[s].policy # None /\ emby[task[s].user] # None
    /\ emby' = [emby EXCEPT ![task[s].user] = Patched(task[s].policy, Head(task[s].todo))]

PatchPost(s) ==
    /\ Waiting(s, PatchVerbs) /\ PolicyPosted(s)
    /\ task' = [task EXCEPT ![s].policy = None, ![s].todo = Tail(@)]
    /\ UNCHANGED <<now, row, codes, mutex, calls, grants, dated, server>>

\* A refresh decides after the answer which corrections to send.
ReadUser(s) ==
    LET t == task[s]  p == emby[task[s].user] IN
    /\ Waiting(s, {"get_user"}) /\ p # None
    /\ task' = [task EXCEPT ![s].remote = p,
                            ![s].todo = IF t.op = "refresh"
                                        THEN PlayDrift(t.was, p) \o LockDrift(t.was, p)
                                        ELSE Tail(t.todo)]
    /\ UNCHANGED <<data, mutex, calls>>

AccountDeleted(s) ==
    /\ emby[task[s].user] # None
    /\ emby' = [emby EXCEPT ![task[s].user] = None]

DeleteAtEmby(s) ==
    /\ Waiting(s, {"delete_user"}) /\ AccountDeleted(s)
    /\ task' = [task EXCEPT ![s].todo = Tail(@)]
    /\ UNCHANGED <<now, row, codes, mutex, calls, grants, dated, server>>

\* Mutant: a deletion goes on although Emby did not confirm it.
AfterErrorIgnored(s) ==
    IF task[s].op \in DeleteOps \cup {"sync"}
    THEN /\ task' = [task EXCEPT ![s].policy = None, ![s].todo = Tail(@)]
         /\ UNCHANGED mutex
    ELSE End(s)

\* EmbyError.  A sync keeps going without the failed correction, and so does a refresh
\* whose lock correction fails; every other handler gives up, its session unwritten.
AfterError(s) ==
    LET t == task[s] IN
    IF \/ t.op = "sync"
       \/ (t.op = "refresh" /\ Head(t.todo).verb = "set_user_disabled")
    THEN /\ task' = [task EXCEPT ![s].policy = None, ![s].todo = Tail(@)]
         /\ UNCHANGED mutex
    ELSE End(s)

AccountMissing(s) ==
    /\ Waiting(s, EmbyVerbs) /\ emby[task[s].user] = None
    /\ AfterError(s)
    /\ UNCHANGED <<data, calls>>

\* A refused request, a timeout, or an answer lost after Emby applied the request.
EmbyFault(s) ==
    /\ Waiting(s, EmbyVerbs) /\ Spend
    /\ \/ UNCHANGED emby
       \/ Waiting(s, PatchVerbs) /\ PolicyPosted(s)
       \/ Waiting(s, {"delete_user"}) /\ AccountDeleted(s)
    /\ AfterError(s)
    /\ UNCHANGED <<now, row, codes, grants, dated, server>>

\* Mutant: the mutation lock is not taken.
AcquireNothing(s) ==
    /\ Waiting(s, {"acquire"}) /\ ~task[s].was.is_protected
    /\ task' = [task EXCEPT ![s].todo = Tail(@)]
    /\ UNCHANGED <<data, mutex, calls>>

\* Mutant: an account whose expiry date was moved ahead is purged all the same.
AcquireWithoutRenewalCheck(s) ==
    /\ Waiting(s, {"acquire"}) /\ mutex = None /\ ~task[s].was.is_protected
    /\ task' = [task EXCEPT ![s].todo = Tail(@)]
    /\ mutex' = s
    /\ UNCHANGED <<data, calls>>

\* A deletion gets the mutation lock; the guards look at the row selected before, and at a
\* server which a round over several accounts may have loaded before it was deleted.
AcquireForDelete(s) ==
    LET t   == task[s]
        due == /\ ~t.was.is_protected
               /\ t.op = "purge_expired"
                    => (t.was.expires_at = None \/ Past(t.was.expires_at, now))
    IN
    /\ Waiting(s, {"acquire"}) /\ mutex = None
    /\ \/ /\ due
          /\ task' = [task EXCEPT ![s].todo = Tail(@)]
          /\ mutex' = s
       \/ ~(due /\ server) /\ End(s)
    /\ UNCHANGED <<data, calls>>

\* The sync selects the rows; a row whose account the list lacked is deleted, and the
\* corrections of the others follow.
SyncSelect(s) ==
    LET t == task[s]  r == row[task[s].user] IN
    /\ Waiting(s, {"select"}) /\ t.op = "sync"
    /\ IF r = None
       THEN End(s)
       ELSE /\ task' = [task EXCEPT ![s].was = r,
                          ![s].todo = IF t.remote = None THEN <<>>
                                      ELSE LockDrift(r, t.remote) \o PlayDrift(r, t.remote)]
            /\ UNCHANGED mutex
    /\ UNCHANGED <<data, calls>>

-----------------------------------------------------------------------------
\* The commit that ends a handler.

Save(s, new) ==
    LET t == task[s] IN
    /\ row[t.user] # None
    /\ row' = [row EXCEPT ![t.user] = Merge(row[t.user], t.was, new)]
    /\ End(s)

RedeemCommit(s) ==
    LET t    == task[s]
        base == IF t.was.expires_at = None \/ Past(t.was.expires_at, t.at)
                THEN t.at ELSE t.was.expires_at
    IN  /\ Ready(s, "redeem") /\ codes[t.code] # "gone"
        /\ Save(s, [t.was EXCEPT !.expires_at = base + Duration, !.playback_enabled = TRUE,
                                 !.playback_revoked_at = None, !.is_disabled = FALSE,
                                 !.activation_failed_attempts = 0, !.activated = TRUE])
        /\ codes' = [codes EXCEPT ![t.code] = t.user]
        /\ grants' = [grants EXCEPT ![t.code] = @ \cup {t.user}]
        /\ dated' = dated \cup {t.user}
        /\ UNCHANGED <<now, emby, calls, server>>

ExpireCommit(s) ==
    LET t == task[s] IN
    /\ Ready(s, "expire")
    /\ Save(s, IF t.field = "set_user_disabled"
               THEN [t.was EXCEPT !.is_disabled = TRUE]
               ELSE [t.was EXCEPT !.playback_enabled = FALSE,
                                  !.playback_revoked_at = IF @ = None THEN t.at ELSE @])
    /\ UNCHANGED <<now, emby, codes, calls, grants, dated, server>>

SetStateCommit(s) ==
    LET t == task[s] IN
    /\ Ready(s, "set_state")
    /\ Save(s, IF t.to THEN [t.was EXCEPT !.is_disabled = TRUE]
               ELSE [t.was EXCEPT !.is_disabled = FALSE, !.activation_failed_attempts = 0,
                                  !.activation_locked = FALSE])
    /\ UNCHANGED <<now, emby, codes, calls, grants, dated, server>>

UpdatePolicyCommit(s) ==
    LET t == task[s] IN
    /\ Ready(s, "set_policy")
    /\ Save(s, [t.was EXCEPT
                  !.is_disabled = t.remote.IsDisabled,
                  !.playback_enabled =
                      IF t.was.playback_source = "controller" /\ t.field = "set_playback_allowed"
                      THEN t.to ELSE t.remote.EnableMediaPlayback])
    /\ UNCHANGED <<now, emby, codes, calls, grants, dated, server>>

ReconcileCommit(s) ==
    LET t == task[s] IN
    /\ Ready(s, "refresh") \/ (Ready(s, "sync") /\ t.remote # None)
    /\ Save(s, Reconciled(t.was, t.remote))
    /\ UNCHANGED <<now, emby, codes, calls, grants, dated, server>>

EnablePortalCommit(s) ==
    LET t == task[s] IN
    /\ Ready(s, "enable_portal")
    /\ Save(s, [t.was EXCEPT !.has_password = TRUE, !.portal_enabled = TRUE,
                             !.playback_source = "emby", !.activated = TRUE,
                             !.is_protected = TRUE,
                             !.playback_enabled = t.remote.EnableMediaPlayback,
                             !.is_disabled = t.remote.IsDisabled])
    /\ UNCHANGED <<now, emby, codes, calls, grants, dated, server>>

\* A disabled account cannot be claimed; the password is verified after the Policy is read.
ClaimCommit(s) ==
    LET t == task[s] IN
    /\ Ready(s, "claim") /\ ~t.remote.IsDisabled
    /\ Save(s, [t.was EXCEPT !.has_password = TRUE, !.portal_enabled = TRUE, !.claimed = TRUE,
                             !.playback_source = "emby", !.activated = TRUE,
                             !.playback_enabled = t.remote.EnableMediaPlayback,
                             !.is_disabled = FALSE, !.playback_revoked_at = None])
    /\ UNCHANGED <<now, emby, codes, calls, grants, dated, server>>

ClaimRefused(s) ==
    /\ Ready(s, "claim")
    /\ End(s)
    /\ UNCHANGED <<data, calls>>

\* _delete_local_user_data, after Emby has deleted the account or no longer lists it.
DeleteLocalUserData(s) ==
    LET u == task[s].user IN
    /\ \/ \E op \in DeleteOps : Ready(s, op)
       \/ Ready(s, "sync") /\ task[s].remote = None
    /\ row' = [row EXCEPT ![u] = None]
    /\ codes' = [c \in Codes |-> IF codes[c] = u THEN "gone" ELSE codes[c]]
    /\ End(s)
    /\ UNCHANGED <<now, emby, calls, grants, dated, server>>

\* StaleDataError: the handler's UPDATE matches no row any more, and it rolls back.
CommitStale(s) ==
    LET t == task[s] IN
    /\ t # None /\ t.todo = <<>>
    /\ t.op \notin DeleteOps
    /\ \/ row[t.user] = None /\ ~(t.op = "sync" /\ t.remote = None)
       \/ t.op = "redeem" /\ codes[t.code] = "gone"
    /\ End(s)
    /\ UNCHANGED <<data, calls>>

-----------------------------------------------------------------------------
\* Requests that touch the database only: one atomic step.

\* Mutant: the failure counter is not capped.
RecordActivationFailureUncapped(u) ==
    /\ "activation_failure" \in Ops /\ Free /\ Spend
    /\ row[u] # None /\ CanPortalLogin(row[u]) /\ ~row[u].activation_locked
    /\ row' = [row EXCEPT ![u].activation_failed_attempts = @ + 1]
    /\ UNCHANGED <<now, emby, codes, task, mutex, grants, dated, server>>

\* _record_activation_failure: one UPDATE with its cap and its lock in SQL.
RecordActivationFailure(u) ==
    LET r == row[u]
        n == r.activation_failed_attempts + 1
    IN  /\ "activation_failure" \in Ops /\ Free /\ Spend
        /\ r # None /\ CanPortalLogin(r) /\ ~r.activation_locked
        /\ row' = [row EXCEPT ![u] =
             IF n < MaxFailures THEN [r EXCEPT !.activation_failed_attempts = n]
             ELSE [r EXCEPT !.activation_failed_attempts = MaxFailures,
                            !.activation_locked = TRUE, !.is_disabled = TRUE,
                            !.playback_enabled = FALSE]]
        /\ UNCHANGED <<now, emby, codes, task, mutex, grants, dated, server>>

\* PATCH /users/{id} with expires_at.
SetExpiresAt(u, t) ==
    /\ "set_expires" \in Ops /\ Free /\ Spend /\ row[u] # None
    /\ row' = [row EXCEPT ![u].expires_at = t]
    /\ dated' = IF t = None THEN dated ELSE dated \cup {u}
    /\ UNCHANGED <<now, emby, codes, task, mutex, grants, server>>

DisablePortalLogin(u) ==
    /\ "disable_portal" \in Ops /\ Free /\ Spend
    /\ row[u] # None /\ row[u].portal_enabled
    /\ row' = [row EXCEPT ![u].portal_enabled = FALSE, ![u].has_password = FALSE]
    /\ UNCHANGED <<now, emby, codes, task, mutex, grants, dated, server>>

SetUserProtected(u, b) ==
    /\ "protect" \in Ops /\ Free /\ Spend
    /\ row[u] # None
    /\ row' = [row EXCEPT ![u].is_protected = b]
    /\ UNCHANGED <<now, emby, codes, task, mutex, grants, dated, server>>

\* DELETE /servers/{id}: the cascade takes the rows of all its accounts, the accounts in Emby
\* live on, and a used code only forgets its redeemer.
DeleteServer ==
    /\ "delete_server" \in Ops /\ Free /\ Spend /\ server
    /\ server' = FALSE
    /\ row' = [u \in Users |-> None]
    /\ codes' = [c \in Codes |-> IF codes[c] \in Users THEN "used" ELSE codes[c]]
    /\ UNCHANGED <<now, emby, task, mutex, grants, dated>>

-----------------------------------------------------------------------------
\* The environment.

Tick ==
    /\ now < MaxTime
    /\ now' = now + 1
    /\ UNCHANGED <<row, emby, codes, task, mutex, calls, grants, dated, server>>

\* Somebody changes or deletes the account in Emby itself.
ChangedInEmby(u, p) ==
    /\ (IF p = None THEN "external_delete" ELSE "external") \in Ops /\ Spend
    /\ emby[u] \notin {None, p}
    /\ emby' = [emby EXCEPT ![u] = p]
    /\ UNCHANGED <<now, row, codes, task, mutex, grants, dated, server>>

\* The process dies and restarts: suspended handlers and the in-memory lock are lost,
\* the database and Emby keep what was committed.
Restart ==
    /\ "restart" \in Ops /\ Spend
    /\ task' = [s \in Slots |-> None]
    /\ mutex' = None
    /\ UNCHANGED data

-----------------------------------------------------------------------------
JobBegin(s) ==
    \E u \in Users : \/ ProcessExpirations(s, u)
                     \/ PurgeInactive(s, u)
                     \/ PurgeExpired(s, u)
                     \/ SyncServerUsers(s, u)

RequestBegin(s) ==
    \E u \in Users :
        \/ \E c \in Codes : RedeemCode(s, u, c)
        \/ AdminDeleteUser(s, u)
        \/ \E b \in BOOLEAN : SetUserState(s, u, b)
        \/ \E b \in BOOLEAN, f \in PatchVerbs : UpdateUserPolicy(s, u, f, b)
        \/ RefreshUserFromEmby(s, u)
        \/ EnablePortalLogin(s, u)
        \/ ClaimExistingUser(s, u)

Await(s) ==
    \/ PatchGet(s) \/ PatchPost(s) \/ ReadUser(s) \/ DeleteAtEmby(s)
    \/ AccountMissing(s) \/ AcquireForDelete(s) \/ SyncSelect(s)

Commit(s) ==
    \/ RedeemCommit(s) \/ ExpireCommit(s) \/ SetStateCommit(s) \/ UpdatePolicyCommit(s)
    \/ ReconcileCommit(s) \/ EnablePortalCommit(s) \/ ClaimCommit(s) \/ ClaimRefused(s)
    \/ DeleteLocalUserData(s) \/ CommitStale(s)

RowRequest ==
    \E u \in Users :
        \/ RecordActivationFailure(u)
        \/ \E t \in 0 .. MaxTime \cup {None} : SetExpiresAt(u, t)
        \/ DisablePortalLogin(u)
        \/ \E b \in BOOLEAN : SetUserProtected(u, b)

Environment ==
    \/ Tick
    \/ Restart
    \/ \E u \in Users, p \in Policy \cup {None} : ChangedInEmby(u, p)
    \/ \E s \in Slots : EmbyFault(s)

Next ==
    \/ \E s \in Slots : JobBegin(s) \/ RequestBegin(s) \/ Await(s) \/ Commit(s)
    \/ RowRequest
    \/ DeleteServer
    \/ Environment

Spec == Init /\ [][Next]_vars

-----------------------------------------------------------------------------
\* Fairness: the event loop resumes every suspended handler, asyncio.Lock serves its
\* waiters in order, the scheduler keeps firing its jobs (MaxInFlight is a bound of the
\* model and may not starve them) and time passes.  Emby faults are bounded by MaxCalls,
\* not fair.
Fairness ==
    /\ WF_vars(Tick)
    /\ \A s \in Slots : /\ WF_vars(Await(s) \/ Commit(s))
                         /\ SF_vars(AcquireForDelete(s))
    /\ \A u \in Users : /\ SF_vars(ProcessExpirations("expiry", u))
                        /\ SF_vars(PurgeInactive("lifecycle", u))
                        /\ SF_vars(SyncServerUsers("sync", u))

FairSpec == Spec /\ Fairness

-----------------------------------------------------------------------------
\* Safety.

\* No delete path may leave an account that still lives in Emby without its local row
\* ("never delete only the local shadow record", _admin_delete_user): the row goes only after
\* Emby's account, unless the whole server is given up.
NoUnmanagedAccount == server => \A u \in Users : row[u] = None => emby[u] = None

\* An account that never had an expiry date is permanent: process_expirations never
\* stamps it and purge_expired_users never takes it, whatever stale row a handler saves.
PermanentAccountKept ==
    /\ \A u \in Users : row[u] # None /\ row[u].playback_revoked_at # None => u \in dated
    /\ \A s \in Slots : task[s] # None /\ task[s].op = "purge_expired" => task[s].user \in dated

\* Only an administrator's re-enable releases the activation lock: no redemption, sync or
\* policy update that loaded the row before the lock writes it away.
LockReleasedByEnableOnly ==
    [][\A u \in Users :
         row[u] # None /\ row[u].activation_locked /\ row'[u] # None
           /\ ~row'[u].activation_locked
         => \E s \in Slots : /\ Ready(s, "set_state") /\ ~task[s].to
                             /\ task[s].user = u]_vars

\* At most one of sync, purge and administrator deletion is between its lock and its commit.
InMutex(s) ==
    /\ task[s] # None
    /\ \/ task[s].op = "sync"
       \/ task[s].op \in DeleteOps /\ ~Waiting(s, {"acquire"})
MutationExclusive == \A s \in Slots : InMutex(s) => mutex = s

\* "One code, one use" (RedeemCode, models.py): no code is credited to two accounts.
OneCodeOneUse == \A c \in Codes : \A u, v \in grants[c] : u = v

\* What redeem_code's test of is_used does give, whatever overlaps: once a code is used and
\* no redemption of it is under way, none ever is again and nobody else is credited, also
\* after its redeemer is deleted.
Spent(c) == /\ codes[c] # None
            /\ \A s \in Slots : task[s] # None /\ task[s].op = "redeem" => task[s].code # c
SpentForGood == [][\A c \in Codes : Spent(c) => Spent(c)' /\ grants'[c] = grants[c]]_vars

\* An expiry date moves only by an administrator's order or by a redemption, which leaves the
\* account at least the code's duration from its submission: no sync, claim, policy change,
\* revocation or portal switch that loaded the row before writes an old date back.
DateMovedByOrder ==
    [][\A u \in Users :
         row[u] # None /\ row'[u] # None /\ row'[u].expires_at # row[u].expires_at
         => \/ \E t \in 0 .. MaxTime \cup {None} : SetExpiresAt(u, t)
            \/ \E s \in Slots : /\ RedeemCommit(s) /\ task[s].user = u
                                /\ row'[u].expires_at >= task[s].at + Duration]_vars

\* "Renewing early neither gives time away nor swallows what is left" (redeem_code): a code
\* that is spent adds its duration to all the time the account has by then.  (One that an
\* overlapping request has spent already owes nothing more.)
RenewalKeepsTime ==
    [][\A s \in Slots :
         LET u == task[s].user IN
         /\ task[s] # None /\ codes[task[s].code] = None
         /\ RedeemCommit(s) /\ row[u].expires_at # None
         => row'[u].expires_at >= row[u].expires_at + Duration]_vars

\* process_expirations stamps a revocation only on an account that has expired, unless its
\* date was moved while a round that had found it expired waited for Emby.
Moved(s, u) == /\ task[s] # None /\ task[s].op = "expire" /\ task[s].user = u
               /\ Past(task[s].was.expires_at, now)
               /\ task[s].was.expires_at # row[u].expires_at
StampedOnlyWhenExpired ==
    [][\A u \in Users :
         row[u] # None /\ row'[u] # None /\ row[u].playback_revoked_at = None
           /\ row'[u].playback_revoked_at # None
         => Past(row[u].expires_at, now) \/ \E s \in Slots : Moved(s, u)]_vars

\* Playback is withdrawn after the account has expired (README.md:14): an account that can
\* play, in its row, is revoked there and in Emby only when its date has passed.
PlaybackTakenOnlyWhenExpired ==
    [][\A u \in Users :
         /\ row[u] # None /\ row[u].playback_enabled /\ row[u].playback_revoked_at = None
         /\ row'[u] # None /\ ~row'[u].playback_enabled /\ row'[u].playback_revoked_at # None
         /\ emby'[u] # None /\ ~emby'[u].EnableMediaPlayback
         => Past(row[u].expires_at, now)]_vars

\* The purges delete only accounts that still qualify when they are deleted, unless the row
\* changed while the deletion waited for the mutation lock and for Emby: never one that the
\* round had found activated, protected or renewed.
PurgedOnlyIfDue ==
    [][\A s \in Slots :
         LET t == task[s]  r == row[task[s].user] IN
         t # None /\ DeleteLocalUserData(s) /\ r # None
         => /\ t.op \in DeleteOps /\ r.is_protected = t.was.is_protected => ~r.is_protected
            /\ t.op = "purge_inactive" /\ r.activated = t.was.activated => ~r.activated
            /\ t.op = "purge_expired" /\ r.expires_at = t.was.expires_at
                 => r.expires_at = None \/ Past(r.expires_at, now)]_vars

\* purge_expired_users never takes a claimed account that has no expiry date ("an old
\* account without one is kept for ever", its docstring).
UndatedNeverPurged ==
    [][\A s \in Slots :
         LET r == row[task[s].user] IN
         task[s] # None /\ DeleteLocalUserData(s) /\ r # None /\ task[s].op = "purge_expired"
           /\ r.claimed
         => r.expires_at # None]_vars

-----------------------------------------------------------------------------
\* Liveness.

Overdue(u) == row[u] # None /\ Past(row[u].expires_at, now)
Blocked(u) == emby[u] = None \/ emby[u].IsDisabled \/ ~emby[u].EnableMediaPlayback

\* An account that stays expired eventually can no longer play in Emby: the expiry job and
\* the sync repair lost Policy writes, faults and changes made in Emby itself.
ExpiredEventuallyBlocked == \A u \in Users : <>[]Overdue(u) => <>[]Blocked(u)

\* A locked account is eventually disabled in Emby as well: the lock is a local write, and
\* the sync carries it over and keeps it.
LockEventuallyEnforced ==
    \A u \in Users :
        <>[](row[u] # None /\ row[u].activation_locked)
        => <>[](emby[u] = None \/ emby[u].IsDisabled)

\* A registration that stays unactivated past its grace period is eventually deleted,
\* unless it is protected.
InactiveEventuallyPurged ==
    \A u \in Users :
        []<>(\/ row[u] = None
             \/ ~row[u].self_registered \/ row[u].activated \/ row[u].is_protected
             \/ ~Past(row[u].registered_at, MaxTime - Grace))
=============================================================================
