------------------------------ MODULE Playback ------------------------------
(***************************************************************************)
(* Playback history: the poll that reads every Emby server's sessions,     *)
(* the in-memory aggregation of what is playing, the single write at the   *)
(* end of a session, the dashboard's cache, and the operations that race   *)
(* with a poll (account and server deletion, sync, shutdown, crash).       *)
(*                                                                         *)
(* A poll holds _playback_lock from its first request to its last commit   *)
(* and publishes its result after it has released the lock.                *)
(***************************************************************************)
EXTENDS Integers, FiniteSets, FiniteSetsExt

CONSTANTS
    Servers,     \* Emby servers
    Users,       \* Emby accounts, each on its Home server
    Sessions,    \* Emby sessions: one per device, each of one Viewer
    Items,       \* media items
    None,        \* an absent row, an absent cache entry, nothing playing
    Home,        \* the server of an account
    Viewer,      \* the account of a session
    Ops,         \* the operations a run enables
    MaxSeconds,  \* bound: seconds counted per account
    MaxCalls     \* bound: changes of what plays, faults, administrator operations

Keys     == Sessions \X Items
On(k)    == Home[Viewer[k[1]]]
KeysOf(u) == {k \in Keys : Viewer[k[1]] = u}

Entry  == [generation : Nat \ {0}, seconds : Nat]
Record == [process : Nat, session : Sessions, generation : Nat \ {0}, item : Items,
           seconds : Nat]
Poll   == [stage : {"wait", "run", "publish"}, todo : SUBSET Servers,
           enabled : SUBSET Servers, ok : SUBSET Servers, dirty : SUBSET Servers,
           live : SUBSET Keys]

ASSUME NoneAssumption ==
    /\ None \notin Nat \cup Items
    /\ None \notin Entry
    /\ None \notin Poll
    /\ None \notin [user : Users, sum : Nat]
ASSUME MapsAssumption ==
    /\ Home \in [Users -> Servers]
    /\ Viewer \in [Sessions -> Users]
    /\ {MaxSeconds, MaxCalls} \subseteq Nat
ASSUME FiniteAssumption == IsFiniteSet(Sessions) /\ IsFiniteSet(Items)

VARIABLES
    process,      \* _PLAYBACK_PROCESS_ID
    playing,      \* Emby: the NowPlayingItem of each session
    server,       \* servers: "on", "off" (not enabled) or None once deleted
    account,      \* managed_users.total_playback_seconds, None without a row
    records,      \* playback_records
    cache,        \* _playback_cache
    generations,  \* _playback_generations
    deleted,      \* _deleted_playback_users
    live,         \* scheduler.live_cache
    poll,         \* the poll under way, or None
    sync,         \* the account a sync is about to insert, or None
    calls,        \* budget spent
    watched,      \* history: seconds the cache ever counted for an account
    ended         \* history: entries a poll ended and was to write

vars   == <<process, playing, server, account, records, cache, generations, deleted, live,
            poll, sync, calls, watched, ended>>
memory == <<cache, generations, deleted, live>>
tables == <<server, account, records>>

TypeOK ==
    /\ process \in Nat /\ calls \in Nat
    /\ playing \in [Sessions -> Items \cup {None}]
    /\ server \in [Servers -> {"on", "off", None}]
    /\ account \in [Users -> Nat \cup {None}]
    /\ records \subseteq Record
    /\ cache \in [Keys -> Entry \cup {None}]
    /\ generations \in [Keys -> Nat]
    /\ deleted \subseteq Users
    /\ live \subseteq Keys
    /\ poll \in Poll \cup {None}
    /\ sync \in [user : Users, sum : Nat] \cup {None}
    /\ watched \in [Users -> Nat]
    /\ ended \subseteq Record

Init ==
    /\ process = 0 /\ calls = 0
    /\ playing = [s \in Sessions |-> None]
    /\ server = [v \in Servers |-> "on"]
    /\ account \in [Users -> {0, None}]
    /\ records = {} /\ ended = {}
    /\ cache = [k \in Keys |-> None]
    /\ generations = [k \in Keys |-> 0]
    /\ deleted = {} /\ live = {}
    /\ poll = None /\ sync = None
    /\ watched = [u \in Users |-> 0]

-----------------------------------------------------------------------------
\* Helpers.

Spend  == calls < MaxCalls /\ calls' = calls + 1
Locked == poll # None /\ poll.stage = "run"

Cached == {k \in Keys : cache[k] # None}

\* The row an entry becomes.
RecordOf(k, e) == [process |-> process, session |-> k[1], generation |-> e.generation,
                   item |-> k[2], seconds |-> e.seconds]

\* session_key names the process, the server, the session and the generation.
SessionKey(r) == <<r.process, r.session, r.generation>>

\* The transaction of a flush goes through: the servers exist and no two rows, old or
\* new, share (server_id, session_key).
Insertable(R) ==
    /\ \A r \in R : server[Home[Viewer[r.session]]] # None
    /\ \A r \in R, q \in records \cup R : SessionKey(q) = SessionKey(r) => q = r
    /\ R \cap records = {}

SecondsOf(R, u) == MapThenSumSet(LAMBDA r : r.seconds, {r \in R : Viewer[r.session] = u})

\* _flush_playback_entries, when it commits: rows and totals in one transaction.
Written(R) ==
    /\ records' = records \cup R
    /\ account' = [u \in Users |-> IF account[u] = None THEN None
                                   ELSE account[u] + SecondsOf(R, u)]

-----------------------------------------------------------------------------
\* Emby.

Play(s, i) ==
    /\ playing[s] # i /\ Spend
    /\ playing' = [playing EXCEPT ![s] = i]
    /\ UNCHANGED <<process, tables, memory, poll, sync, watched, ended>>

-----------------------------------------------------------------------------
\* _playback_job: poll_sessions_by_server, then replace_live_sessions.

PollStart ==
    LET on == {v \in Servers : server[v] = "on"} IN
    /\ poll = None
    /\ poll' = [stage |-> "wait", todo |-> on, enabled |-> on, ok |-> {}, dirty |-> {},
              live |-> {}]
    /\ UNCHANGED <<process, playing, tables, memory, sync, calls, watched, ended>>

PollLock ==
    /\ poll # None /\ poll.stage = "wait"
    /\ poll' = [poll EXCEPT !.stage = "run"]
    /\ UNCHANGED <<process, playing, tables, memory, sync, calls, watched, ended>>

\* What server v reports, less the sessions of deleted accounts.
Seen(v) == {k \in Keys : On(k) = v /\ playing[k[1]] = k[2] /\ Viewer[k[1]] \notin deleted}

\* Mutant: a new key opens an entry under the generation of the one before.
RecordedSameGeneration(v, active) ==
    [k \in Keys |->
        IF k \notin Seen(v) THEN cache[k]
        ELSE IF cache[k] = None THEN [generation |-> generations[k], seconds |-> 0]
        ELSE IF k \in active THEN [cache[k] EXCEPT !.seconds = @ + 1]
        ELSE cache[k]]

\* _record_playback: a new key opens an entry under the next generation, a known one
\* counts a second if its session advanced (active).
Recorded(v, active) ==
    [k \in Keys |->
        IF k \notin Seen(v) THEN cache[k]
        ELSE IF cache[k] = None THEN [generation |-> generations[k] + 1, seconds |-> 0]
        ELSE IF k \in active THEN [cache[k] EXCEPT !.seconds = @ + 1]
        ELSE cache[k]]

\* Entries of v whose session no longer plays that item: the end signal.
Ended(v) == {k \in Cached : On(k) = v /\ k \notin Seen(v)}

\* The first statement of the poll's session after v answered writes the servers whose
\* last_ok_at or last_error the poll changed: with the ended entries, or when the client
\* policy of a playing account is looked up.  The row of a deleted server is not found.
Flushes(v)      == Ended(v) \cup Seen(v) # {}
Found(D)        == \A w \in D : server[w] # None
Dirty(v, touch) == poll.dirty \cup (IF touch THEN {v} ELSE {})

Forget(C, K) == [k \in Keys |-> IF k \in K THEN None ELSE C[k]]

\* Mutant: entries leave the cache only after their rows are committed.
PollServerKeepsUntilCommit(v, active, touch) ==
    LET R == {RecordOf(k, cache[k]) : k \in Ended(v)}
        D == Dirty(v, touch) IN
    /\ Locked /\ v \in poll.todo
    /\ active \subseteq Seen(v) \cap Cached
    /\ \A u \in Users : watched[u] + Cardinality(active \cap KeysOf(u)) <= MaxSeconds
    /\ watched' = [u \in Users |-> watched[u] + Cardinality(active \cap KeysOf(u))]
    /\ generations' = [k \in Keys |-> IF k \in Seen(v) /\ cache[k] = None
                                      THEN generations[k] + 1 ELSE generations[k]]
    /\ ended' = ended \cup R
    /\ IF Insertable(R) /\ (Flushes(v) => Found(D))
       THEN /\ Written(R)
            /\ cache' = Forget(Recorded(v, active), Ended(v))
            /\ poll' = [poll EXCEPT !.todo = @ \ {v}, !.ok = @ \cup {v},
                                    !.dirty = IF Flushes(v) THEN {} ELSE D,
                                    !.live = @ \cup Seen(v)]
       ELSE /\ UNCHANGED <<records, account>>
            /\ cache' = Recorded(v, active)
            /\ poll' = None
    /\ UNCHANGED <<process, playing, server, deleted, live, sync, calls>>

\* One server answered.  Its ended entries leave the cache before they are written; a
\* database error is not among the errors the loop catches and ends the whole poll.
PollServer(v, active, touch) ==
    LET R == {RecordOf(k, cache[k]) : k \in Ended(v)}
        D == Dirty(v, touch) IN
    /\ Locked /\ v \in poll.todo
    /\ active \subseteq Seen(v) \cap Cached
    /\ \A u \in Users : watched[u] + Cardinality(active \cap KeysOf(u)) <= MaxSeconds
    /\ watched' = [u \in Users |-> watched[u] + Cardinality(active \cap KeysOf(u))]
    /\ generations' = [k \in Keys |-> IF k \in Seen(v) /\ cache[k] = None
                                      THEN generations[k] + 1 ELSE generations[k]]
    /\ cache' = Forget(Recorded(v, active), Ended(v))
    /\ ended' = ended \cup R
    /\ IF Insertable(R) /\ (Flushes(v) => Found(D))
       THEN /\ Written(R)
            /\ poll' = [poll EXCEPT !.todo = @ \ {v}, !.ok = @ \cup {v},
                                    !.dirty = IF Flushes(v) THEN {} ELSE D,
                                    !.live = @ \cup Seen(v)]
       ELSE /\ UNCHANGED <<records, account>>
            /\ poll' = None
    /\ UNCHANGED <<process, playing, server, deleted, live, sync, calls>>

\* EmbyError: the next server is asked.
PollServerFails(v, touch) ==
    /\ Locked /\ v \in poll.todo /\ Spend
    /\ poll' = [poll EXCEPT !.todo = @ \ {v}, !.dirty = Dirty(v, touch)]
    /\ UNCHANGED <<process, playing, tables, memory, sync, watched, ended>>

\* The last commit writes the servers that are still to be written.
PollEnd ==
    /\ Locked /\ poll.todo = {}
    /\ poll' = IF Found(poll.dirty) THEN [poll EXCEPT !.stage = "publish", !.dirty = {}]
               ELSE None
    /\ UNCHANGED <<process, playing, tables, memory, sync, calls, watched, ended>>

\* Mutant: the result of the poll is taken over as it is.
PublishUnfiltered ==
    /\ poll # None /\ poll.stage = "publish"
    /\ live' = {k \in live : On(k) \notin poll.ok /\ On(k) \in poll.enabled} \cup poll.live
    /\ poll' = None
    /\ UNCHANGED <<process, playing, tables, cache, generations, deleted, sync, calls,
                   watched, ended>>

\* replace_live_sessions.
Publish ==
    /\ poll # None /\ poll.stage = "publish"
    /\ live' = {k \in live : On(k) \notin poll.ok /\ On(k) \in poll.enabled}
                 \cup {k \in poll.live : Viewer[k[1]] \notin deleted}
    /\ poll' = None
    /\ UNCHANGED <<process, playing, tables, cache, generations, deleted, sync, calls,
                   watched, ended>>

-----------------------------------------------------------------------------
\* Accounts and servers.

\* Mutant: the open entries of a deleted account stay in the cache.
DeleteUserKeepingCache(u) ==
    /\ "delete_user" \in Ops /\ ~Locked /\ sync = None /\ account[u] # None /\ Spend
    /\ records' = {r \in records : Viewer[r.session] # u}
    /\ account' = [account EXCEPT ![u] = None]
    /\ deleted' = deleted \cup {u}
    /\ live' = live \ KeysOf(u)
    /\ watched' = [watched EXCEPT ![u] = 0]
    /\ UNCHANGED <<process, playing, server, cache, generations, poll, sync, ended>>

\* _delete_local_user_data, under the playback lock and the caller's mutation lock.
DeleteUser(u) ==
    /\ "delete_user" \in Ops /\ ~Locked /\ sync = None /\ account[u] # None /\ Spend
    /\ records' = {r \in records : Viewer[r.session] # u}
    /\ account' = [account EXCEPT ![u] = None]
    /\ deleted' = deleted \cup {u}
    /\ cache' = Forget(cache, KeysOf(u))
    /\ generations' = [k \in Keys |-> IF k \in KeysOf(u) \cap Cached THEN 0
                                      ELSE generations[k]]
    /\ live' = live \ KeysOf(u)
    /\ watched' = [watched EXCEPT ![u] = 0]
    /\ UNCHANGED <<process, playing, server, poll, sync, ended>>

\* A sync meets an account without a row: it lifts the tombstone and adds up the
\* history it finds, and inserts the row later.
SyncFinds(u) ==
    /\ "sync" \in Ops /\ sync = None /\ account[u] = None /\ server[Home[u]] = "on" /\ Spend
    /\ deleted' = deleted \ {u}
    /\ sync' = [user |-> u, sum |-> SecondsOf(records, u)]
    /\ UNCHANGED <<process, playing, tables, cache, generations, live, poll, watched, ended>>

SyncInserts ==
    /\ sync # None
    /\ account' = IF server[Home[sync.user]] = None THEN account
                  ELSE [account EXCEPT ![sync.user] = sync.sum]
    /\ sync' = None
    /\ UNCHANGED <<process, playing, server, records, memory, poll, calls, watched, ended>>

\* The foreign keys delete the server's rows; the caches are not told.
DeleteServer(v) ==
    /\ "delete_server" \in Ops /\ server[v] # None /\ Spend
    /\ server' = [server EXCEPT ![v] = None]
    /\ account' = [u \in Users |-> IF Home[u] = v THEN None ELSE account[u]]
    /\ records' = {r \in records : Home[Viewer[r.session]] # v}
    /\ UNCHANGED <<process, playing, memory, poll, sync, watched, ended>>

ToggleServer(v) ==
    /\ "toggle_server" \in Ops /\ server[v] # None /\ Spend
    /\ server' = [server EXCEPT ![v] = IF @ = "on" THEN "off" ELSE "on"]
    /\ UNCHANGED <<process, playing, account, records, memory, poll, sync, watched, ended>>

\* purge_old_history, on a row that got old enough.
PurgeOldHistory(r) ==
    /\ "purge" \in Ops
    /\ records' = records \ {r}
    /\ UNCHANGED <<process, playing, server, account, memory, poll, sync, calls, watched,
                   ended>>

-----------------------------------------------------------------------------
\* The process ends, in order or not, and another one starts.

NewProcess ==
    /\ process' = process + 1
    /\ cache' = [k \in Keys |-> None] /\ generations' = [k \in Keys |-> 0]
    /\ deleted' = {} /\ live' = {} /\ poll' = None /\ sync' = None
    /\ UNCHANGED <<playing, server>>

\* flush_playback_cache empties the cache and then writes all of it, or nothing.
Shutdown ==
    LET R == {RecordOf(k, cache[k]) : k \in {c \in Cached : Viewer[c[1]] \notin deleted}} IN
    /\ "restart" \in Ops /\ ~Locked /\ Spend
    /\ IF Insertable(R) THEN Written(R) ELSE UNCHANGED <<records, account>>
    /\ ended' = ended \cup R
    /\ NewProcess
    /\ UNCHANGED watched

Crash ==
    /\ "restart" \in Ops /\ Spend
    /\ NewProcess
    /\ UNCHANGED <<account, records, watched, ended>>

-----------------------------------------------------------------------------
PollStep == \/ PollStart \/ PollLock \/ PollEnd \/ Publish
            \/ \E v \in Servers, active \in SUBSET Keys, touch \in BOOLEAN :
                 PollServer(v, active, touch)

Next ==
    \/ \E s \in Sessions, i \in Items \cup {None} : Play(s, i)
    \/ PollStep
    \/ \E v \in Servers, touch \in BOOLEAN : PollServerFails(v, touch)
    \/ \E v \in Servers : DeleteServer(v) \/ ToggleServer(v)
    \/ \E u \in Users : DeleteUser(u) \/ SyncFinds(u)
    \/ SyncInserts
    \/ \E r \in records : PurgeOldHistory(r)
    \/ Shutdown
    \/ Crash

Spec == Init /\ [][Next]_vars

\* The scheduler starts a poll at every interval and a started one goes on.
FairSpec == Spec /\ WF_vars(PollStep)

-----------------------------------------------------------------------------
\* Properties.

\* A deleted account leaves no trace: no history, no open entry and nothing on the
\* dashboard, even when a poll that saw it playing publishes after the deletion
\* (the tombstones of _delete_local_user_data and replace_live_sessions).
NoTraceOfDeleted ==
    \A u \in deleted :
       /\ KeysOf(u) \cap (live \cup Cached) = {}
       /\ \A r \in records : Viewer[r.session] # u

\* A second of playback is counted at most once: an account's total and what its open
\* entries still hold never exceed what the polls counted since it was last deleted.
SecondsCountedOnce ==
    \A u \in Users :
       (IF account[u] = None THEN SecondsOf(records, u) ELSE account[u])
         + SecondsOf({RecordOf(k, cache[k]) : k \in Cached}, u) <= watched[u]

\* A session that plays on is shown: failed polls and lost rows never stop the
\* dashboard for good (poll_sessions_by_server, replace_live_sessions).
DashboardFollows ==
    \A k \in Keys :
       <>[](playing[k[1]] = k[2] /\ server[On(k)] = "on" /\ Viewer[k[1]] \notin deleted)
         => []<>(k \in live)

\* What PlaybackRecord says: a session is written once it ended.
EndedSessionRecorded == ended \subseteq records
=============================================================================
