----------------------- MODULE AccountLifecycleProofs -----------------------
(***************************************************************************)
(* Theorems about AccountLifecycle for every value of its constants: any   *)
(* number of users, codes and concurrent handlers, any clock and budget.   *)
(*                                                                         *)
(* IInv strengthens the invariants of the runs with what every suspended   *)
(* handler remembers: the calls it still has to make, the row it loaded    *)
(* and the Policy it read.                                                 *)
(***************************************************************************)
EXTENDS AccountLifecycle, TLAPS

\* The calls a handler of each kind still has to make, and what it has read by then.
Shape(t) ==
    /\ t.op # "sync" => t.was \in Row
    /\ t.op = "sync" => t.was \in Row \/ t.todo = <<Select>>
    /\ t.op \in DeleteOps => t.todo \in {<<Acquire, DeleteUser>>, <<DeleteUser>>, <<>>}
    /\ t.op = "redeem" => t.code \in Codes
    /\ t.op \in {"enable_portal", "claim"} => t.remote \in Policy \/ t.todo = <<GetUser>>
    /\ t.op = "set_policy" =>
         \/ t.remote \in Policy
         \/ t.todo \in {<<[verb |-> t.field, to |-> t.to], GetUser>>, <<GetUser>>}
    /\ t.op = "refresh" => t.remote \in Policy \/ t.todo = <<GetUser>>

\* A deletion that comes to its commit has seen the Emby account gone.
SeenGone(t) ==
    /\ t.op \in DeleteOps /\ t.todo = <<>> => emby[t.user] = None
    /\ t.op = "sync" /\ t.remote = None => emby[t.user] = None

\* Only a user whose expiry date was set is ever expired or purged for it.
Entitled(t) ==
    /\ t.was # None /\ (t.was.expires_at # None \/ t.was.playback_revoked_at # None)
         => t.user \in dated
    /\ t.op \in {"expire", "purge_expired"} => t.user \in dated

TaskInv  == \A s \in Slots : task[s] # None => /\ Shape(task[s])
                                               /\ SeenGone(task[s])
                                               /\ Entitled(task[s])
DatedInv == \A u \in Users :
                row[u] # None /\ (row[u].expires_at # None \/ row[u].playback_revoked_at # None)
                => u \in dated

IInv == TypeOK /\ MutationExclusive /\ NoUnmanagedAccount /\ TaskInv /\ DatedInv

-----------------------------------------------------------------------------
\* Lemmas about the helpers.

\* A flush of a row writes a row.
LEMMA MergeType ==
    ASSUME NEW cur \in Row, NEW was \in Row, NEW new \in Row
    PROVE  Merge(cur, was, new) \in Row
BY DEF Row, Merge

\* Each column of a flushed row is the committed one or the one the handler assigned.
LEMMA MergeDates ==
    ASSUME NEW cur \in Row, NEW was \in Row, NEW new \in Row
    PROVE  /\ Merge(cur, was, new).expires_at \in {cur.expires_at, new.expires_at}
           /\ Merge(cur, was, new).playback_revoked_at
                \in {cur.playback_revoked_at, new.playback_revoked_at}
BY DEF Row, Merge

\* The calls themselves.
LEMMA CallTypes ==
    /\ Acquire \in Call /\ DeleteUser \in Call /\ GetUser \in Call /\ Select \in Call
    /\ \A b \in BOOLEAN : SetUserDisabled(b) \in Call /\ SetPlaybackAllowed(b) \in Call
    /\ \A b \in BOOLEAN, f \in PatchVerbs : [verb |-> f, to |-> b] \in Call
BY DEF Call, Acquire, DeleteUser, GetUser, Select, SetUserDisabled, SetPlaybackAllowed, PatchVerbs

\* The corrections of a sync or a refresh are calls.
LEMMA DriftTypes ==
    ASSUME NEW r \in Row, NEW p \in Policy
    PROVE  /\ LockDrift(r, p) \in Seq(Call)
           /\ PlayDrift(r, p) \in Seq(Call)
           /\ PlayDrift(r, p) \o LockDrift(r, p) \in Seq(Call)
           /\ LockDrift(r, p) \o PlayDrift(r, p) \in Seq(Call)
<1>1. <<>> \in Seq(Call)
    OBVIOUS
<1>2. LockDrift(r, p) \in Seq(Call)
  <2>1. <<SetUserDisabled(TRUE)>> \in Seq(Call)
      BY DEF SetUserDisabled, Call
  <2>2. QED
      BY <1>1, <2>1, Zenon DEF LockDrift
<1>3. PlayDrift(r, p) \in Seq(Call)
  <2>1. <<SetPlaybackAllowed(r.playback_enabled)>> \in Seq(Call)
      BY DEF SetPlaybackAllowed, Call, Row
  <2>2. QED
      BY <1>1, <2>1, Zenon DEF PlayDrift
<1>4. QED
    BY <1>2, <1>3

\* Putting a Policy back with one field changed yields a Policy.
LEMMA PatchedType ==
    ASSUME NEW p \in Policy, NEW c \in Call
    PROVE  Patched(p, c) \in Policy
BY DEF Patched, Policy, Call

\* What a sync or a refresh writes keeps both dates.
LEMMA ReconciledType ==
    ASSUME NEW r \in Row, NEW p \in Policy
    PROVE  /\ Reconciled(r, p) \in Row
           /\ Reconciled(r, p).expires_at = r.expires_at
           /\ Reconciled(r, p).playback_revoked_at = r.playback_revoked_at
BY DEF Reconciled, Row, Policy

\* A task that takes its next call off its list stays a task.
LEMMA AdvanceType ==
    ASSUME NEW t \in Task, NEW q \in Seq(Call), NEW p \in Policy \cup {None},
           NEW m \in Policy \cup {None}, NEW w \in Row \cup {None}
    PROVE  /\ [t EXCEPT !.policy = p] \in Task
           /\ [t EXCEPT !.todo = q] \in Task
           /\ [t EXCEPT !.policy = p, !.todo = q] \in Task
           /\ [t EXCEPT !.remote = m, !.todo = q] \in Task
           /\ [t EXCEPT !.was = w, !.todo = q] \in Task
BY DEF Task

-----------------------------------------------------------------------------
\* The part of a task that decides whether its handler is inside the mutation lock.
Holds(t) == /\ t # None
            /\ \/ t.op = "sync"
               \/ t.op \in DeleteOps /\ ~(t.todo # <<>> /\ Head(t.todo).verb \in {"acquire"})

\* A step that replaces one task keeps IInv if the new task is well formed, Emby accounts
\* are never resurrected, rows go only after them, and no other slot loses the lock.
LEMMA Frame ==
    ASSUME IInv,
           NEW s \in Slots, NEW t \in Task \cup {None},
           task' = [task EXCEPT ![s] = t],
           now' \in Nat, calls' \in Nat, mutex' \in Slots \cup {None},
           row' \in [Users -> Row \cup {None}],
           emby' \in [Users -> Policy \cup {None}],
           codes' \in [Codes -> Users \cup {None, "gone", "used"}],
           grants' \in [Codes -> SUBSET Users],
           dated' \in SUBSET Users,
           dated \subseteq dated', server' = server,
           \A u \in Users : emby[u] = None => emby'[u] = None,
           \A u \in Users : row'[u] = None => row[u] = None \/ emby'[u] = None,
           DatedInv',
           t # None => Shape(t) /\ SeenGone(t)' /\ Entitled(t)',
           Holds(t) => mutex' = s,
           \A r \in Slots \ {s} : mutex = r => mutex' = r
    PROVE  IInv'
<1>1. TypeOK'
    BY DEF IInv, TypeOK
<1>2. \A r \in Slots : task'[r] = IF r = s THEN t ELSE task[r]
    BY DEF IInv, TypeOK
<1>3. MutationExclusive'
  <2> SUFFICES ASSUME NEW r \in Slots, InMutex(r)'
               PROVE  mutex' = r
      BY DEF MutationExclusive
  <2>1. CASE r = s
    <3>1. Holds(t)
        BY <1>2, <2>1 DEF Holds, InMutex, Waiting
    <3>2. QED
        BY <2>1, <3>1
  <2>2. CASE r # s
    <3>1. InMutex(r)
        BY <1>2, <2>2 DEF InMutex, Waiting
    <3>2. QED
        BY <2>2, <3>1 DEF IInv, MutationExclusive
  <2>3. QED
      BY <2>1, <2>2
<1>4. NoUnmanagedAccount'
    BY DEF IInv, NoUnmanagedAccount
<1>5. TaskInv'
  <2> SUFFICES ASSUME NEW r \in Slots, (task[r] # None)'
               PROVE  (Shape(task[r]) /\ SeenGone(task[r]) /\ Entitled(task[r]))'
      BY DEF TaskInv
  <2>1. CASE r = s
    <3>1. task'[r] = t
        BY <1>2, <2>1
    <3>2. QED
        BY <3>1 DEF Shape, SeenGone, Entitled
  <2>2. CASE r # s
    <3>1. task'[r] = task[r] /\ task[r] \in Task
        BY <1>2, <2>2 DEF IInv, TypeOK
    <3>2. Shape(task[r]) /\ SeenGone(task[r]) /\ Entitled(task[r])
        BY <3>1 DEF IInv, TaskInv
    <3>3. task[r].user \in Users
        BY <3>1 DEF Task
    <3>4. Shape(task[r])'
        BY <3>1, <3>2 DEF Shape
    <3>5. SeenGone(task[r])'
        BY <3>1, <3>2, <3>3 DEF SeenGone
    <3>6. Entitled(task[r])'
        BY <3>1, <3>2, <3>3 DEF Entitled
    <3>7. QED
        BY <3>4, <3>5, <3>6
  <2>3. QED
      BY <2>1, <2>2
<1>6. QED
    BY <1>1, <1>3, <1>4, <1>5 DEF IInv

\* A handler that ends gives the lock back and leaves no task behind.
LEMMA FrameEnd ==
    ASSUME IInv, NEW s \in Slots, End(s),
           now' = now, calls' \in Nat,
           row' \in [Users -> Row \cup {None}],
           emby' \in [Users -> Policy \cup {None}],
           codes' \in [Codes -> Users \cup {None, "gone", "used"}],
           grants' \in [Codes -> SUBSET Users],
           dated' \in SUBSET Users,
           dated \subseteq dated', server' = server,
           \A u \in Users : emby[u] = None => emby'[u] = None,
           \A u \in Users : row'[u] = None => row[u] = None \/ emby'[u] = None,
           DatedInv'
    PROVE  IInv'
<1>1. /\ task' = [task EXCEPT ![s] = None]
      /\ mutex' = IF mutex = s THEN None ELSE mutex
    BY DEF End
<1>2. ~Holds(None)
    BY DEF Holds
<1>3. mutex' \in Slots \cup {None} /\ now' \in Nat
    BY <1>1 DEF IInv, TypeOK
<1>4. \A r \in Slots \ {s} : mutex = r => mutex' = r
    BY <1>1
<1>5. QED
    BY <1>1, <1>2, <1>3, <1>4, Frame

\* A request that suspends nothing leaves every task and the lock alone.
LEMMA FrameIdle ==
    ASSUME IInv, UNCHANGED <<task, mutex>>,
           now' \in Nat, calls' \in Nat,
           row' \in [Users -> Row \cup {None}],
           emby' \in [Users -> Policy \cup {None}],
           codes' = codes, grants' = grants,
           dated' \in SUBSET Users,
           dated \subseteq dated', server' = server,
           \A u \in Users : emby[u] = None => emby'[u] = None,
           \A u \in Users : row'[u] = None => row[u] = None,
           DatedInv'
    PROVE  IInv'
<1>1. TypeOK'
    BY DEF IInv, TypeOK
<1>2. MutationExclusive'
    BY DEF IInv, MutationExclusive, InMutex, Waiting
<1>3. NoUnmanagedAccount'
    BY DEF IInv, NoUnmanagedAccount
<1>4. TaskInv'
  <2> SUFFICES ASSUME NEW r \in Slots, (task[r] # None)'
               PROVE  (Shape(task[r]) /\ SeenGone(task[r]) /\ Entitled(task[r]))'
      BY DEF TaskInv
  <2>1. task'[r] = task[r] /\ task[r] \in Task
      BY DEF IInv, TypeOK
  <2>2. Shape(task[r]) /\ SeenGone(task[r]) /\ Entitled(task[r])
      BY <2>1 DEF IInv, TaskInv
  <2>3. task[r].user \in Users
      BY <2>1 DEF Task
  <2>4. Shape(task[r])'
      BY <2>1, <2>2 DEF Shape
  <2>5. SeenGone(task[r])'
      BY <2>1, <2>2, <2>3 DEF SeenGone
  <2>6. Entitled(task[r])'
      BY <2>1, <2>2, <2>3 DEF Entitled
  <2>7. QED
      BY <2>4, <2>5, <2>6
<1>5. QED
    BY <1>1, <1>2, <1>3, <1>4 DEF IInv

\* Suspending a handler on a managed account.
LEMMA BeginInv ==
    ASSUME IInv, NEW s \in Slots, NEW op \in TaskOps, NEW u \in Users,
           NEW c \in Codes \cup {None}, NEW field \in PatchVerbs, NEW to \in BOOLEAN,
           NEW todo \in Seq(Call),
           Begin(s, op, u, c, field, to, todo),
           UNCHANGED <<data, mutex>>, calls' \in Nat,
           row[u] # None, op # "sync",
           op \in DeleteOps => todo = <<Acquire, DeleteUser>>,
           op = "redeem" => c \in Codes,
           op \in {"enable_portal", "claim", "refresh"} => todo = <<GetUser>>,
           op = "set_policy" => todo = <<[verb |-> field, to |-> to], GetUser>>,
           op \in {"expire", "purge_expired"} => u \in dated
    PROVE  IInv'
<1>0. PICK t : t = [op |-> op, user |-> u, code |-> c, to |-> to, field |-> field,
                    was |-> row[u], at |-> IF op \in {"redeem", "expire"} THEN now ELSE 0,
                    todo |-> todo, policy |-> None,
                    remote |-> None]
    OBVIOUS
<1>1. task' = [task EXCEPT ![s] = t]
    BY <1>0 DEF Begin
<1>2. row[u] \in Row
    BY DEF IInv, TypeOK
<1>3. t \in Task
    BY <1>0, <1>2 DEF IInv, TypeOK, Task
<1>4. Shape(t)
    BY <1>0, <1>2, NoneAssumption DEF Shape
<1>5. t.op \in DeleteOps => t.todo # <<>> /\ Head(t.todo).verb = "acquire"
  <2>1. /\ <<Acquire, DeleteUser>> # <<>>
        /\ Head(<<Acquire, DeleteUser>>).verb = "acquire"
      BY DEF Acquire
  <2>2. QED
      BY <1>0, <2>1
<1>6. SeenGone(t)'
    BY <1>0, <1>5 DEF SeenGone
<1>7. Entitled(t)'
    BY <1>0, <1>2 DEF Entitled, IInv, DatedInv, data
<1>8. ~Holds(t)
    BY <1>0, <1>5 DEF Holds
<1>9. DatedInv'
    BY DEF IInv, DatedInv, data
<1>10. QED
  <2>1. /\ now' \in Nat /\ mutex' \in Slots \cup {None}
        /\ row' \in [Users -> Row \cup {None}]
        /\ emby' \in [Users -> Policy \cup {None}]
        /\ codes' \in [Codes -> Users \cup {None, "gone", "used"}]
        /\ grants' \in [Codes -> SUBSET Users]
        /\ dated' \in SUBSET Users
      BY DEF IInv, TypeOK, data
  <2>2. /\ dated' = dated /\ emby' = emby /\ row' = row /\ mutex' = mutex /\ server' = server
      BY DEF data
  <2>3. QED
      BY <1>1, <1>3, <1>4, <1>6, <1>7, <1>8, <1>9, <2>1, <2>2, Frame

-----------------------------------------------------------------------------
\* Every way to start a handler keeps IInv.

LEMMA SpendType == ASSUME TypeOK, Spend PROVE calls' \in Nat
BY DEF TypeOK, Spend

LEMMA RunsJobSlot ==
    ASSUME NEW s, NEW job \in Jobs, RunsJob(s, job) PROVE s \in Slots
BY DEF RunsJob, Slots

LEMMA TwoCalls ==
    ASSUME NEW a \in Call, NEW b \in Call
    PROVE  <<a>> \in Seq(Call) /\ <<a, b>> \in Seq(Call) /\ <<>> \in Seq(Call)
OBVIOUS

LEMMA JobBeginInv ==
    ASSUME IInv, NEW s \in Slots, JobBegin(s) PROVE IInv'
<1> PICK u \in Users : \/ ProcessExpirations(s, u)
                       \/ PurgeInactive(s, u)
                       \/ PurgeExpired(s, u)
                       \/ SyncServerUsers(s, u)
    BY DEF JobBegin
<1>0. calls \in Nat
    BY DEF IInv, TypeOK
<1>1. CASE ProcessExpirations(s, u)
  <2>1. u \in dated
    <3>1. row[u] # None /\ row[u].expires_at # None
        BY <1>1 DEF ProcessExpirations, Past
    <3>2. QED
        BY <3>1 DEF IInv, DatedInv
  <2>2. /\ row[u] # None /\ UNCHANGED <<data, mutex>> /\ calls' \in Nat
        /\ "expire" \in TaskOps /\ "expire" \notin DeleteOps
      BY <1>0, <1>1 DEF ProcessExpirations, TaskOps, DeleteOps
  <2>3. CASE CanPortalLogin(row[u])
    <3>1. PICK q : q = IF row[u].playback_enabled THEN <<SetPlaybackAllowed(FALSE)>> ELSE <<>>
        OBVIOUS
    <3>2. q \in Seq(Call)
      <4>1. SetPlaybackAllowed(FALSE) \in Call
          BY DEF SetPlaybackAllowed, Call
      <4>2. QED
          BY <3>1, <4>1, TwoCalls
    <3>3. Begin(s, "expire", u, None, "set_playback_allowed", FALSE, q)
        BY <1>1, <2>3, <3>1 DEF ProcessExpirations
    <3>4. "set_playback_allowed" \in PatchVerbs
        BY DEF PatchVerbs
    <3>5. QED
        BY <2>1, <2>2, <3>2, <3>3, <3>4, BeginInv
  <2>4. CASE ~CanPortalLogin(row[u])
    <3>1. PICK q : q = <<SetUserDisabled(TRUE)>>
        OBVIOUS
    <3>2. q \in Seq(Call)
      <4>1. SetUserDisabled(TRUE) \in Call
          BY DEF SetUserDisabled, Call
      <4>2. QED
          BY <3>1, <4>1, TwoCalls
    <3>3. Begin(s, "expire", u, None, "set_user_disabled", TRUE, q)
        BY <1>1, <2>4, <3>1 DEF ProcessExpirations
    <3>4. "set_user_disabled" \in PatchVerbs
        BY DEF PatchVerbs
    <3>5. QED
        BY <2>1, <2>2, <3>2, <3>3, <3>4, BeginInv
  <2>5. QED
      BY <2>3, <2>4
<1> <<Acquire, DeleteUser>> \in Seq(Call) /\ "set_user_disabled" \in PatchVerbs
    BY CallTypes, TwoCalls DEF PatchVerbs
<1>2. CASE PurgeInactive(s, u)
  <2>1. /\ row[u] # None /\ UNCHANGED <<data, mutex>> /\ calls' \in Nat
        /\ Begin(s, "purge_inactive", u, None, "set_user_disabled", TRUE, <<Acquire, DeleteUser>>)
      BY <1>0, <1>2 DEF PurgeInactive
  <2>2. "purge_inactive" \in TaskOps
      BY DEF TaskOps, DeleteOps
  <2>3. QED
      BY <2>1, <2>2, BeginInv
<1>3. CASE PurgeExpired(s, u)
  <2>1. /\ row[u] # None /\ UNCHANGED <<data, mutex>> /\ calls' \in Nat
        /\ row[u].playback_revoked_at # None
        /\ Begin(s, "purge_expired", u, None, "set_user_disabled", TRUE, <<Acquire, DeleteUser>>)
      BY <1>0, <1>3 DEF PurgeExpired
  <2>2. u \in dated
      BY <2>1 DEF IInv, DatedInv
  <2>3. "purge_expired" \in TaskOps
      BY DEF TaskOps, DeleteOps
  <2>4. QED
      BY <2>1, <2>2, <2>3, BeginInv
<1>4. CASE SyncServerUsers(s, u)
  <2>0. PICK t : t = [op |-> "sync", user |-> u, code |-> None, to |-> TRUE,
                      field |-> "set_user_disabled", was |-> None, at |-> 0,
                      todo |-> <<Select>>, policy |-> None, remote |-> emby[u]]
      OBVIOUS
  <2>1. /\ task' = [task EXCEPT ![s] = t] /\ mutex = None /\ mutex' = s
        /\ UNCHANGED <<data, calls>>
      BY <1>4, <2>0 DEF SyncServerUsers
  <2>2. t \in Task
      BY <2>0, CallTypes, TwoCalls DEF IInv, TypeOK, Task, TaskOps
  <2>3. Shape(t)
      BY <2>0 DEF Shape, DeleteOps
  <2>4. SeenGone(t)'
      BY <2>0, <2>1 DEF SeenGone, DeleteOps, data
  <2>5. Entitled(t)'
      BY <2>0 DEF Entitled
  <2>6. DatedInv'
      BY <2>1 DEF IInv, DatedInv, data
  <2>7. QED
      BY <2>1, <2>2, <2>3, <2>4, <2>5, <2>6, NoneAssumption, Frame DEF IInv, TypeOK, data
<1>5. QED
    BY <1>1, <1>2, <1>3, <1>4

LEMMA RequestBeginInv ==
    ASSUME IInv, NEW s \in Slots, RequestBegin(s) PROVE IInv'
<1> PICK u \in Users : \/ \E c \in Codes : RedeemCode(s, u, c)
                       \/ AdminDeleteUser(s, u)
                       \/ \E b \in BOOLEAN : SetUserState(s, u, b)
                       \/ \E b \in BOOLEAN, f \in PatchVerbs : UpdateUserPolicy(s, u, f, b)
                       \/ RefreshUserFromEmby(s, u)
                       \/ EnablePortalLogin(s, u)
                       \/ ClaimExistingUser(s, u)
    BY DEF RequestBegin
<1> /\ <<Acquire, DeleteUser>> \in Seq(Call)
    /\ <<GetUser>> \in Seq(Call)
    BY CallTypes, TwoCalls
<1> "set_user_disabled" \in PatchVerbs /\ "set_playback_allowed" \in PatchVerbs
    BY DEF PatchVerbs
<1> TypeOK
    BY DEF IInv
<1>1. ASSUME NEW c \in Codes, RedeemCode(s, u, c) PROVE IInv'
  <2>1. PICK q : q = (IF row[u].is_disabled THEN <<SetUserDisabled(FALSE)>> ELSE <<>>)
                       \o <<SetPlaybackAllowed(TRUE)>>
      OBVIOUS
  <2>2. q \in Seq(Call)
    <3>1. PICK x : x = SetUserDisabled(FALSE)
        OBVIOUS
    <3>2. PICK y : y = SetPlaybackAllowed(TRUE)
        OBVIOUS
    <3>3. x \in Call /\ y \in Call
        BY <3>1, <3>2 DEF SetUserDisabled, SetPlaybackAllowed, Call
    <3>4. (IF row[u].is_disabled THEN <<x>> ELSE <<>>) \o <<y>> \in Seq(Call)
        BY <3>3
    <3>5. QED
        BY <2>1, <3>1, <3>2, <3>4, Zenon
  <2>3. /\ row[u] # None /\ UNCHANGED <<data, mutex>> /\ calls' \in Nat
        /\ Begin(s, "redeem", u, c, "set_playback_allowed", TRUE, q)
      BY <1>1, <2>1 DEF RedeemCode, TypeOK
  <2>4. "redeem" \in TaskOps /\ "redeem" \notin DeleteOps
      BY DEF TaskOps, DeleteOps
  <2>5. QED
      BY <2>2, <2>3, <2>4, BeginInv
<1>2. CASE AdminDeleteUser(s, u)
  <2>1. /\ row[u] # None /\ UNCHANGED <<data, mutex>> /\ calls' \in Nat
        /\ Begin(s, "admin_delete", u, None, "set_user_disabled", TRUE, <<Acquire, DeleteUser>>)
      BY <1>2, SpendType DEF AdminDeleteUser
  <2>2. "admin_delete" \in TaskOps
      BY DEF TaskOps, DeleteOps
  <2>3. QED
      BY <2>1, <2>2, BeginInv
<1>3. ASSUME NEW b \in BOOLEAN, SetUserState(s, u, b) PROVE IInv'
  <2>1. PICK q : q = <<SetUserDisabled(b)>>
      OBVIOUS
  <2>2. q \in Seq(Call)
    <3>1. PICK x : x = SetUserDisabled(b)
        OBVIOUS
    <3>2. x \in Call
        BY <3>1 DEF SetUserDisabled, Call
    <3>3. QED
        BY <2>1, <3>1, <3>2, TwoCalls
  <2>3. /\ row[u] # None /\ UNCHANGED <<data, mutex>> /\ calls' \in Nat
        /\ Begin(s, "set_state", u, None, "set_user_disabled", b, q)
      BY <1>3, <2>1, SpendType DEF SetUserState
  <2>4. "set_state" \in TaskOps /\ "set_state" \notin DeleteOps
      BY DEF TaskOps, DeleteOps
  <2>5. QED
      BY <2>2, <2>3, <2>4, BeginInv
<1>4. ASSUME NEW b \in BOOLEAN, NEW f \in PatchVerbs, UpdateUserPolicy(s, u, f, b) PROVE IInv'
  <2>1. PICK q : q = <<[verb |-> f, to |-> b], GetUser>>
      OBVIOUS
  <2>2. q \in Seq(Call)
    <3>1. [verb |-> f, to |-> b] \in Call /\ GetUser \in Call
        BY DEF PatchVerbs, Call, GetUser
    <3>2. QED
        BY <2>1, <3>1, TwoCalls
  <2>3. /\ row[u] # None /\ UNCHANGED <<data, mutex>> /\ calls' \in Nat
        /\ Begin(s, "set_policy", u, None, f, b, q)
      BY <1>4, <2>1, SpendType DEF UpdateUserPolicy
  <2>4. "set_policy" \in TaskOps /\ "set_policy" \notin DeleteOps
      BY DEF TaskOps, DeleteOps
  <2>5. QED
      BY <2>1, <2>2, <2>3, <2>4, BeginInv
<1>5. CASE RefreshUserFromEmby(s, u)
  <2>1. /\ row[u] # None /\ UNCHANGED <<data, mutex>> /\ calls' \in Nat
        /\ Begin(s, "refresh", u, None, "set_user_disabled", TRUE, <<GetUser>>)
      BY <1>5, SpendType DEF RefreshUserFromEmby
  <2>2. "refresh" \in TaskOps /\ "refresh" \notin DeleteOps
      BY DEF TaskOps, DeleteOps
  <2>3. QED
      BY <2>1, <2>2, BeginInv
<1>6. CASE EnablePortalLogin(s, u)
  <2>1. /\ row[u] # None /\ UNCHANGED <<data, mutex>> /\ calls' \in Nat
        /\ Begin(s, "enable_portal", u, None, "set_user_disabled", TRUE, <<GetUser>>)
      BY <1>6, SpendType DEF EnablePortalLogin
  <2>2. "enable_portal" \in TaskOps /\ "enable_portal" \notin DeleteOps
      BY DEF TaskOps, DeleteOps
  <2>3. QED
      BY <2>1, <2>2, BeginInv
<1>7. CASE ClaimExistingUser(s, u)
  <2>1. /\ row[u] # None /\ UNCHANGED <<data, mutex>> /\ calls' \in Nat
        /\ Begin(s, "claim", u, None, "set_user_disabled", TRUE, <<GetUser>>)
      BY <1>7, SpendType DEF ClaimExistingUser
  <2>2. "claim" \in TaskOps /\ "claim" \notin DeleteOps
      BY DEF TaskOps, DeleteOps
  <2>3. QED
      BY <2>1, <2>2, BeginInv
<1>8. QED
    BY <1>1, <1>2, <1>3, <1>4, <1>5, <1>6, <1>7

-----------------------------------------------------------------------------
\* Every await of a suspended handler keeps IInv.

\* What IInv says of the task in a busy slot.
LEMMA TaskFacts ==
    ASSUME IInv, NEW s \in Slots, task[s] # None
    PROVE  /\ task[s] \in Task /\ task[s].user \in Users /\ task[s].todo \in Seq(Call)
           /\ Shape(task[s]) /\ SeenGone(task[s]) /\ Entitled(task[s])
           /\ Holds(task[s]) => mutex = s
<1>1. task[s] \in Task
    BY DEF IInv, TypeOK
<1>2. Holds(task[s]) => mutex = s
    BY DEF IInv, MutationExclusive, InMutex, Waiting, Holds
<1>3. QED
    BY <1>1, <1>2 DEF IInv, TaskInv, Task

\* The verb of a call tells which call it is.
LEMMA Verbs ==
    /\ Acquire.verb = "acquire" /\ DeleteUser.verb = "delete_user"
    /\ GetUser.verb = "get_user" /\ Select.verb = "select"
    /\ {"get_user", "select", "acquire", "delete_user"} \cap PatchVerbs = {}
BY DEF Acquire, DeleteUser, GetUser, Select, PatchVerbs

LEMMA HeadTail ==
    ASSUME NEW a, NEW b
    PROVE  /\ <<a>> # <<>> /\ Head(<<a>>) = a /\ Tail(<<a>>) = <<>>
           /\ <<a, b>> # <<>> /\ Head(<<a, b>>) = a /\ Tail(<<a, b>>) = <<b>>
OBVIOUS

\* Dropping the first call of a well-formed task, unless it is a read, leaves one.
LEMMA TailShape ==
    ASSUME NEW t \in Task, Shape(t), t.todo # <<>>,
           Head(t.todo).verb \notin {"get_user", "select"},
           NEW t2 \in Task, t2.todo = Tail(t.todo),
           t2.op = t.op, t2.was = t.was, t2.code = t.code, t2.remote = t.remote,
           t2.field = t.field, t2.to = t.to
    PROVE  Shape(t2)
<1>1. t.todo # <<Select>> /\ t.todo # <<GetUser>>
    BY Verbs, HeadTail
<1>2. t2.op # "sync" => t2.was \in Row
    BY DEF Shape
<1>3. t2.op = "sync" => t2.was \in Row
    BY <1>1 DEF Shape
<1>4. ASSUME t2.op \in DeleteOps
      PROVE  t2.todo \in {<<Acquire, DeleteUser>>, <<DeleteUser>>, <<>>}
  <2>1. t.todo = <<Acquire, DeleteUser>> \/ t.todo = <<DeleteUser>>
      BY <1>4 DEF Shape
  <2>2. CASE t.todo = <<Acquire, DeleteUser>>
    <3>1. t2.todo = <<DeleteUser>>
        BY <2>2, HeadTail
    <3>2. QED
        BY <3>1
  <2>3. CASE t.todo = <<DeleteUser>>
    <3>1. t2.todo = <<>>
        BY <2>3, HeadTail
    <3>2. QED
        BY <3>1
  <2>4. QED
      BY <2>1, <2>2, <2>3
<1>5. ASSUME t2.op = "set_policy", t2.remote \notin Policy
      PROVE  t2.todo \in {<<[verb |-> t2.field, to |-> t2.to], GetUser>>, <<GetUser>>}
  <2>1. t.todo = <<[verb |-> t2.field, to |-> t2.to], GetUser>>
      BY <1>1, <1>5 DEF Shape
  <2>2. t2.todo = <<GetUser>>
      BY <2>1, HeadTail
  <2>3. QED
      BY <2>2
<1>6. QED
    BY <1>1, <1>2, <1>3, <1>4, <1>5 DEF Shape

\* A deletion is never waiting for a Policy request.
LEMMA NoPatchInDelete ==
    ASSUME NEW t \in Task, Shape(t), t.todo # <<>>, t.op \in DeleteOps
    PROVE  /\ t.todo = <<Acquire, DeleteUser>> \/ t.todo = <<DeleteUser>>
           /\ Head(t.todo).verb \in {"acquire", "delete_user"}
<1>1. t.todo = <<Acquire, DeleteUser>> \/ t.todo = <<DeleteUser>>
    BY DEF Shape
<1>2. QED
    BY <1>1, Verbs, HeadTail

LEMMA PatchGetInv ==
    ASSUME IInv, NEW s \in Slots, PatchGet(s) PROVE IInv'
<1>1. /\ task[s] # None /\ emby[task[s].user] # None
      /\ UNCHANGED <<data, mutex, calls>>
    BY DEF PatchGet, Waiting
<1>2. PICK t : t = [task[s] EXCEPT !.policy = emby[task[s].user]]
    OBVIOUS
<1>3. task' = [task EXCEPT ![s] = t]
    BY <1>2 DEF PatchGet
<1>4. /\ task[s] \in Task /\ task[s].user \in Users
      /\ Shape(task[s]) /\ SeenGone(task[s]) /\ Entitled(task[s])
      /\ Holds(task[s]) => mutex = s
    BY <1>1, TaskFacts
<1>5. emby[task[s].user] \in Policy
    BY <1>1, <1>4 DEF IInv, TypeOK
<1>6. t \in Task
    BY <1>2, <1>4, <1>5, AdvanceType DEF Task
<1>7. /\ t.op = task[s].op /\ t.user = task[s].user /\ t.was = task[s].was
      /\ t.code = task[s].code /\ t.remote = task[s].remote /\ t.todo = task[s].todo
      /\ t.field = task[s].field /\ t.to = task[s].to
    BY <1>2, <1>4 DEF Task
<1>8. Shape(t)
    BY <1>4, <1>7 DEF Shape
<1>9. SeenGone(t)'
    BY <1>1, <1>4, <1>7 DEF SeenGone, data
<1>10. Entitled(t)'
    BY <1>1, <1>4, <1>7 DEF Entitled, data
<1>11. Holds(t) => mutex' = s
    BY <1>1, <1>4, <1>7 DEF Holds
<1>12. DatedInv'
    BY <1>1 DEF IInv, DatedInv, data
<1>13. QED
    BY <1>1, <1>3, <1>6, <1>8, <1>9, <1>10, <1>11, <1>12, Frame DEF IInv, TypeOK, data

\* A step that takes the first call of a task off its list, or gives it its answer, with
\* the rows unchanged and the Emby accounts changed at most for the task's user.
LEMMA AdvanceInv ==
    ASSUME IInv, NEW s \in Slots, task[s] # None, task[s].todo # <<>>,
           NEW t \in Task, task' = [task EXCEPT ![s] = t],
           t.op = task[s].op, t.user = task[s].user, t.code = task[s].code,
           t.was \in {task[s].was, row[task[s].user]},
           Shape(t),
           t.op \in DeleteOps /\ t.todo = <<>> => emby'[t.user] = None,
           t.op = "sync" /\ t.remote = None => emby'[t.user] = None,
           Holds(t) => Holds(task[s]) \/ mutex' = s,
           mutex' = mutex \/ (mutex = None /\ mutex' = s),
           UNCHANGED <<now, row, codes, grants, dated, server>>,
           calls' \in Nat,
           emby' \in [Users -> Policy \cup {None}],
           \A u \in Users : emby[u] = None => emby'[u] = None
    PROVE  IInv'
<1>1. /\ task[s] \in Task /\ task[s].user \in Users
      /\ Entitled(task[s])
      /\ Holds(task[s]) => mutex = s
    BY TaskFacts
<1>2. SeenGone(t)'
    BY DEF SeenGone
<1>3. DatedInv'
    BY DEF IInv, DatedInv
<1>4. Entitled(t)'
    BY <1>1 DEF Entitled, IInv, DatedInv
<1>5. Holds(t) => mutex' = s
    BY <1>1, NoneAssumption
<1>6. \A r \in Slots \ {s} : mutex = r => mutex' = r
    BY NoneAssumption
<1>7. QED
    BY <1>2, <1>3, <1>4, <1>5, <1>6, Frame DEF IInv, TypeOK

LEMMA PolicyPostedType ==
    ASSUME IInv, NEW s \in Slots, task[s] # None, task[s].todo # <<>>, PolicyPosted(s)
    PROVE  /\ emby[task[s].user] # None
           /\ emby' \in [Users -> Policy \cup {None}]
           /\ \A u \in Users : emby[u] = None => emby'[u] = None
<1>1. /\ task[s] \in Task /\ task[s].user \in Users /\ task[s].todo \in Seq(Call)
    BY TaskFacts
<1>2. task[s].policy \in Policy /\ Head(task[s].todo) \in Call
    BY <1>1 DEF PolicyPosted, Task
<1>3. Patched(task[s].policy, Head(task[s].todo)) \in Policy
    BY <1>2, PatchedType
<1>4. QED
    BY <1>1, <1>3 DEF PolicyPosted, IInv, TypeOK

LEMMA PatchPostInv ==
    ASSUME IInv, NEW s \in Slots, PatchPost(s) PROVE IInv'
<1>1. /\ task[s] # None /\ task[s].todo # <<>> /\ Head(task[s].todo).verb \in PatchVerbs
      /\ PolicyPosted(s)
      /\ UNCHANGED <<now, row, codes, mutex, calls, grants, dated, server>>
    BY DEF PatchPost, Waiting
<1>2. PICK t : t = [task[s] EXCEPT !.policy = None, !.todo = Tail(task[s].todo)]
    OBVIOUS
<1>3. /\ task[s] \in Task /\ task[s].user \in Users /\ task[s].todo \in Seq(Call)
      /\ Shape(task[s]) /\ SeenGone(task[s])
    BY <1>1, TaskFacts
<1>4. task' = [task EXCEPT ![s] = t]
    BY <1>2 DEF PatchPost
<1>5. Tail(task[s].todo) \in Seq(Call)
    BY <1>1, <1>3
<1>6. t \in Task
    BY <1>2, <1>3, <1>5, AdvanceType
<1>7. /\ t.op = task[s].op /\ t.user = task[s].user /\ t.was = task[s].was
      /\ t.code = task[s].code /\ t.remote = task[s].remote /\ t.todo = Tail(task[s].todo)
      /\ t.field = task[s].field /\ t.to = task[s].to
    BY <1>2, <1>3 DEF Task
<1>8. Head(task[s].todo).verb \notin {"get_user", "select", "acquire", "delete_user"}
    BY <1>1, Verbs
<1>9. Shape(t)
    BY <1>1, <1>3, <1>6, <1>7, <1>8, TailShape
<1>10. t.op \notin DeleteOps
    BY <1>1, <1>3, <1>7, <1>8, NoPatchInDelete
<1>11. /\ emby[task[s].user] # None
       /\ emby' \in [Users -> Policy \cup {None}]
       /\ \A u \in Users : emby[u] = None => emby'[u] = None
    BY <1>1, PolicyPostedType
<1>12. t.op = "sync" => t.remote # None
    BY <1>3, <1>7, <1>11 DEF SeenGone
<1>13. Holds(t) => Holds(task[s])
    BY <1>1, <1>7, <1>10 DEF Holds
<1>14. calls' \in Nat
    BY <1>1 DEF IInv, TypeOK
<1>15. QED
    BY <1>1, <1>4, <1>6, <1>7, <1>9, <1>10, <1>11, <1>12, <1>13, <1>14, AdvanceInv

LEMMA ReadUserInv ==
    ASSUME IInv, NEW s \in Slots, ReadUser(s) PROVE IInv'
<1>1. /\ task[s] # None /\ task[s].todo # <<>> /\ Head(task[s].todo).verb = "get_user"
      /\ emby[task[s].user] # None
      /\ UNCHANGED <<data, mutex, calls>>
    BY DEF ReadUser, Waiting
<1>2. /\ task[s] \in Task /\ task[s].user \in Users /\ task[s].todo \in Seq(Call)
      /\ Shape(task[s]) /\ SeenGone(task[s])
    BY <1>1, TaskFacts
<1>3. PICK p : p = emby[task[s].user]
    OBVIOUS
<1>4. p \in Policy
    BY <1>1, <1>2, <1>3 DEF IInv, TypeOK
<1>5. PICK q : q = IF task[s].op = "refresh"
                   THEN PlayDrift(task[s].was, p) \o LockDrift(task[s].was, p)
                   ELSE Tail(task[s].todo)
    OBVIOUS
<1>6. q \in Seq(Call)
  <2>1. CASE task[s].op = "refresh"
    <3>1. task[s].was \in Row
        BY <1>2, <2>1 DEF Shape
    <3>2. QED
        BY <1>4, <1>5, <2>1, <3>1, DriftTypes
  <2>2. CASE task[s].op # "refresh"
      BY <1>1, <1>2, <1>5, <2>2
  <2>3. QED
      BY <2>1, <2>2
<1>7. PICK t : t = [task[s] EXCEPT !.remote = p, !.todo = q]
    OBVIOUS
<1>8. task' = [task EXCEPT ![s] = t]
    BY <1>3, <1>5, <1>7 DEF ReadUser
<1>9. t \in Task
    BY <1>2, <1>4, <1>6, <1>7, AdvanceType
<1>10. /\ t.op = task[s].op /\ t.user = task[s].user /\ t.was = task[s].was
       /\ t.code = task[s].code /\ t.remote = p /\ t.todo = q
    BY <1>2, <1>7 DEF Task
<1>11. t.op \notin DeleteOps
    BY <1>1, <1>2, <1>10, NoPatchInDelete
<1>12. Shape(t)
  <2>1. task[s].todo # <<Select>>
      BY <1>1, Verbs, HeadTail
  <2>2. QED
      BY <1>2, <1>4, <1>10, <1>11, <2>1 DEF Shape
<1>13. t.remote # None
    BY <1>4, <1>10, NoneAssumption
<1>14. Holds(t) => Holds(task[s])
    BY <1>1, <1>10, <1>11 DEF Holds
<1>15. calls' \in Nat /\ emby' \in [Users -> Policy \cup {None}]
    BY <1>1 DEF IInv, TypeOK, data
<1>16. UNCHANGED <<now, row, codes, grants, dated, server>> /\ emby' = emby /\ mutex' = mutex
    BY <1>1 DEF data
<1>17. QED
    BY <1>1, <1>8, <1>9, <1>10, <1>11, <1>12, <1>13, <1>14, <1>15, <1>16, AdvanceInv

LEMMA DeleteAtEmbyInv ==
    ASSUME IInv, NEW s \in Slots, DeleteAtEmby(s) PROVE IInv'
<1>1. /\ task[s] # None /\ task[s].todo # <<>> /\ Head(task[s].todo).verb = "delete_user"
      /\ emby' = [emby EXCEPT ![task[s].user] = None]
      /\ UNCHANGED <<now, row, codes, mutex, calls, grants, dated, server>>
    BY DEF DeleteAtEmby, Waiting, AccountDeleted
<1>2. PICK t : t = [task[s] EXCEPT !.todo = Tail(task[s].todo)]
    OBVIOUS
<1>3. /\ task[s] \in Task /\ task[s].user \in Users /\ task[s].todo \in Seq(Call)
      /\ Shape(task[s])
    BY <1>1, TaskFacts
<1>4. task' = [task EXCEPT ![s] = t]
    BY <1>2 DEF DeleteAtEmby
<1>5. Tail(task[s].todo) \in Seq(Call)
    BY <1>1, <1>3
<1>6. t \in Task
    BY <1>2, <1>3, <1>5, AdvanceType
<1>7. /\ t.op = task[s].op /\ t.user = task[s].user /\ t.was = task[s].was
      /\ t.code = task[s].code /\ t.remote = task[s].remote /\ t.todo = Tail(task[s].todo)
      /\ t.field = task[s].field /\ t.to = task[s].to
    BY <1>2, <1>3 DEF Task
<1>8. Shape(t)
    BY <1>1, <1>3, <1>6, <1>7, TailShape
<1>9. /\ emby'[t.user] = None
      /\ emby' \in [Users -> Policy \cup {None}]
      /\ \A u \in Users : emby[u] = None => emby'[u] = None
    BY <1>1, <1>3, <1>7 DEF IInv, TypeOK
<1>10. Holds(t) => Holds(task[s])
    BY <1>1, <1>7 DEF Holds
<1>11. calls' \in Nat
    BY <1>1 DEF IInv, TypeOK
<1>12. QED
    BY <1>1, <1>4, <1>6, <1>7, <1>8, <1>9, <1>10, <1>11, AdvanceInv

\* An Emby error ends the handler or skips one correction.
LEMMA AfterErrorInv ==
    ASSUME IInv, NEW s \in Slots, Waiting(s, EmbyVerbs), AfterError(s),
           UNCHANGED <<now, row, codes, grants, dated, server>>,
           calls' \in Nat,
           emby' \in [Users -> Policy \cup {None}],
           \A u \in Users : emby[u] = None => emby'[u] = None
    PROVE  IInv'
<1>1. /\ task[s] # None /\ task[s].todo # <<>> /\ Head(task[s].todo).verb \in EmbyVerbs
    BY DEF Waiting
<1>2. /\ task[s] \in Task /\ task[s].user \in Users /\ task[s].todo \in Seq(Call)
      /\ Shape(task[s]) /\ SeenGone(task[s])
    BY <1>1, TaskFacts
<1>3. CASE \/ task[s].op = "sync"
           \/ task[s].op = "refresh" /\ Head(task[s].todo).verb = "set_user_disabled"
  <2>1. PICK t : t = [task[s] EXCEPT !.policy = None, !.todo = Tail(task[s].todo)]
      OBVIOUS
  <2>2. task' = [task EXCEPT ![s] = t] /\ mutex' = mutex
      BY <1>3, <2>1 DEF AfterError
  <2>3. Tail(task[s].todo) \in Seq(Call)
      BY <1>1, <1>2
  <2>4. t \in Task
      BY <1>2, <2>1, <2>3, AdvanceType
  <2>5. /\ t.op = task[s].op /\ t.user = task[s].user /\ t.was = task[s].was
        /\ t.code = task[s].code /\ t.remote = task[s].remote
      BY <1>2, <2>1 DEF Task
  <2>6. t.op \notin DeleteOps
      BY <1>3, <2>5 DEF DeleteOps
  <2>7. Shape(t)
    <3>1. task[s].todo # <<Select>>
        BY <1>1, Verbs, HeadTail DEF EmbyVerbs, PatchVerbs
    <3>2. task[s].op = "refresh" => task[s].todo # <<GetUser>>
        BY <1>3, Verbs, HeadTail
    <3>3. t.was \in Row /\ (t.op = "refresh" => t.remote \in Policy)
        BY <1>2, <2>5, <3>1, <3>2 DEF Shape
    <3>4. QED
        BY <1>3, <2>5, <2>6, <3>3 DEF Shape
  <2>8. t.op = "sync" /\ t.remote = None => emby'[t.user] = None
      BY <1>2, <2>5 DEF SeenGone
  <2>9. Holds(t) => Holds(task[s])
      BY <1>1, <2>5, <2>6 DEF Holds
  <2>10. QED
      BY <1>1, <2>2, <2>4, <2>5, <2>6, <2>7, <2>8, <2>9, AdvanceInv
<1>4. CASE ~(\/ task[s].op = "sync"
             \/ task[s].op = "refresh" /\ Head(task[s].todo).verb = "set_user_disabled")
  <2>1. End(s)
      BY <1>4 DEF AfterError
  <2>2. DatedInv'
      BY DEF IInv, DatedInv
  <2>3. QED
      BY <2>1, <2>2, FrameEnd DEF IInv, TypeOK
<1>5. QED
    BY <1>3, <1>4

LEMMA AccountMissingInv ==
    ASSUME IInv, NEW s \in Slots, AccountMissing(s) PROVE IInv'
BY AfterErrorInv DEF AccountMissing, data, IInv, TypeOK

LEMMA EmbyFaultInv ==
    ASSUME IInv, NEW s \in Slots, EmbyFault(s) PROVE IInv'
<1>1. /\ Waiting(s, EmbyVerbs) /\ AfterError(s) /\ Spend
      /\ UNCHANGED <<now, row, codes, grants, dated, server>>
    BY DEF EmbyFault
<1>2. calls' \in Nat
    BY <1>1, SpendType DEF IInv
<1>3. /\ emby' \in [Users -> Policy \cup {None}]
      /\ \A u \in Users : emby[u] = None => emby'[u] = None
  <2>1. task[s] # None /\ task[s].todo # <<>>
      BY <1>1 DEF Waiting
  <2>2. CASE emby' = emby
      BY <2>2 DEF IInv, TypeOK
  <2>3. CASE PolicyPosted(s)
      BY <2>1, <2>3, PolicyPostedType
  <2>4. CASE AccountDeleted(s)
      BY <2>4 DEF AccountDeleted, IInv, TypeOK
  <2>5. QED
      BY <2>2, <2>3, <2>4 DEF EmbyFault
<1>4. QED
    BY <1>1, <1>2, <1>3, AfterErrorInv

LEMMA AcquireForDeleteInv ==
    ASSUME IInv, NEW s \in Slots, AcquireForDelete(s) PROVE IInv'
<1>1. /\ task[s] # None /\ task[s].todo # <<>> /\ Head(task[s].todo).verb = "acquire"
      /\ mutex = None /\ UNCHANGED <<data, calls>>
    BY DEF AcquireForDelete, Waiting
<1>2. CASE End(s)
  <2>1. DatedInv'
      BY <1>1 DEF IInv, DatedInv, data
  <2>2. QED
      BY <1>1, <1>2, <2>1, FrameEnd DEF IInv, TypeOK, data
<1>3. CASE ~End(s)
  <2>1. PICK t : t = [task[s] EXCEPT !.todo = Tail(task[s].todo)]
      OBVIOUS
  <2>2. /\ task[s] \in Task /\ task[s].user \in Users /\ task[s].todo \in Seq(Call)
        /\ Shape(task[s]) /\ SeenGone(task[s])
      BY <1>1, TaskFacts
  <2>3. task' = [task EXCEPT ![s] = t] /\ mutex' = s
      BY <1>3, <2>1 DEF AcquireForDelete
  <2>4. Tail(task[s].todo) \in Seq(Call)
      BY <1>1, <2>2
  <2>5. t \in Task
      BY <2>1, <2>2, <2>4, AdvanceType
  <2>6. /\ t.op = task[s].op /\ t.user = task[s].user /\ t.was = task[s].was
        /\ t.code = task[s].code /\ t.remote = task[s].remote /\ t.todo = Tail(task[s].todo)
        /\ t.field = task[s].field /\ t.to = task[s].to
      BY <2>1, <2>2 DEF Task
  <2>7. Shape(t)
      BY <1>1, <2>2, <2>5, <2>6, TailShape
  <2>8. t.op \in DeleteOps => t.todo # <<>>
    <3>1. ASSUME t.op \in DeleteOps PROVE task[s].todo = <<Acquire, DeleteUser>>
      <4>1. task[s].todo = <<Acquire, DeleteUser>> \/ task[s].todo = <<DeleteUser>>
          BY <1>1, <2>2, <2>6, <3>1, NoPatchInDelete
      <4>2. task[s].todo # <<DeleteUser>>
          BY <1>1, Verbs, HeadTail
      <4>3. QED
          BY <4>1, <4>2
    <3>2. Tail(<<Acquire, DeleteUser>>) # <<>>
        BY HeadTail
    <3>3. QED
        BY <2>6, <3>1, <3>2
  <2>9. t.op = "sync" /\ t.remote = None => emby'[t.user] = None
      BY <1>1, <2>2, <2>6 DEF SeenGone, data
  <2>10. UNCHANGED <<now, row, codes, grants, dated, server>> /\ emby' = emby
      BY <1>1 DEF data
  <2>11. calls' \in Nat /\ emby' \in [Users -> Policy \cup {None}]
      BY <1>1, <2>10 DEF IInv, TypeOK
  <2>12. QED
      BY <1>1, <2>3, <2>5, <2>6, <2>7, <2>8, <2>9, <2>10, <2>11, AdvanceInv
<1>4. QED
    BY <1>2, <1>3

LEMMA SyncSelectInv ==
    ASSUME IInv, NEW s \in Slots, SyncSelect(s) PROVE IInv'
<1>1. /\ task[s] # None /\ task[s].todo # <<>> /\ Head(task[s].todo).verb = "select"
      /\ UNCHANGED <<data, calls>>
    BY DEF SyncSelect, Waiting
<1>2. /\ task[s] \in Task /\ task[s].user \in Users /\ task[s].todo \in Seq(Call)
      /\ Shape(task[s]) /\ SeenGone(task[s])
    BY <1>1, TaskFacts
<1>3. UNCHANGED <<now, row, codes, grants, dated, server>> /\ emby' = emby
    BY <1>1 DEF data
<1>4. CASE row[task[s].user] = None
  <2>1. End(s)
      BY <1>4 DEF SyncSelect
  <2>2. DatedInv'
      BY <1>3 DEF IInv, DatedInv
  <2>3. QED
      BY <1>1, <1>3, <2>1, <2>2, FrameEnd DEF IInv, TypeOK
<1>5. CASE row[task[s].user] # None
  <2>1. PICK r : r = row[task[s].user]
      OBVIOUS
  <2>2. r \in Row
      BY <1>2, <1>5, <2>1 DEF IInv, TypeOK
  <2>3. PICK q : q = IF task[s].remote = None THEN <<>>
                     ELSE LockDrift(r, task[s].remote) \o PlayDrift(r, task[s].remote)
      OBVIOUS
  <2>4. q \in Seq(Call)
    <3>1. CASE task[s].remote = None
        BY <2>3, <3>1
    <3>2. CASE task[s].remote # None
      <4>1. task[s].remote \in Policy
          BY <1>2, <3>2 DEF Task
      <4>2. QED
          BY <2>2, <2>3, <3>2, <4>1, DriftTypes
    <3>3. QED
        BY <3>1, <3>2
  <2>5. PICK t : t = [task[s] EXCEPT !.was = r, !.todo = q]
      OBVIOUS
  <2>6. task' = [task EXCEPT ![s] = t] /\ mutex' = mutex
      BY <1>5, <2>1, <2>3, <2>5 DEF SyncSelect
  <2>7. t \in Task
      BY <1>2, <2>2, <2>4, <2>5, AdvanceType
  <2>8. /\ t.op = task[s].op /\ t.user = task[s].user /\ t.was = r
        /\ t.code = task[s].code /\ t.remote = task[s].remote /\ t.todo = q
      BY <1>2, <2>5 DEF Task
  <2>9. t.op \notin DeleteOps
      BY <1>1, <1>2, <2>8, NoPatchInDelete
  <2>10. task[s].todo # <<GetUser>>
      BY <1>1, Verbs, HeadTail
  <2>11. t.op = "set_policy" => t.remote \in Policy
    <3>1. task[s].todo # <<[verb |-> task[s].field, to |-> task[s].to], GetUser>>
      <4>1. task[s].field # "select"
          BY <1>2 DEF Task, PatchVerbs
      <4>2. QED
          BY <1>1, <4>1, HeadTail
    <3>2. QED
        BY <1>2, <2>8, <2>10, <3>1 DEF Shape
  <2>12. Shape(t)
      BY <1>2, <2>2, <2>8, <2>9, <2>10, <2>11 DEF Shape
  <2>13. t.op = "sync" /\ t.remote = None => emby'[t.user] = None
      BY <1>2, <1>3, <2>8 DEF SeenGone
  <2>14. Holds(t) => Holds(task[s])
      BY <1>1, <2>8, <2>9 DEF Holds
  <2>15. calls' \in Nat /\ emby' \in [Users -> Policy \cup {None}]
      BY <1>1, <1>3 DEF IInv, TypeOK
  <2>16. QED
      BY <1>1, <1>3, <2>1, <2>6, <2>7, <2>8, <2>9, <2>12, <2>13, <2>14, <2>15, AdvanceInv
<1>6. QED
    BY <1>4, <1>5

LEMMA AwaitInv ==
    ASSUME IInv, NEW s \in Slots, Await(s) PROVE IInv'
BY PatchGetInv, PatchPostInv, ReadUserInv, DeleteAtEmbyInv, AccountMissingInv,
   AcquireForDeleteInv, SyncSelectInv DEF Await

-----------------------------------------------------------------------------
\* Every commit keeps IInv.

\* A handler that flushes its row may assign a date only to a user who was given one.
LEMMA SaveInv ==
    ASSUME IInv, NEW s \in Slots, task[s] # None, task[s].was \in Row,
           NEW new \in Row, Save(s, new),
           UNCHANGED <<now, emby, calls, server>>,
           codes' \in [Codes -> Users \cup {None, "gone", "used"}],
           grants' \in [Codes -> SUBSET Users],
           dated' \in SUBSET Users, dated \subseteq dated',
           new.expires_at # None \/ new.playback_revoked_at # None => task[s].user \in dated'
    PROVE  IInv'
<1> PICK u \in Users : u = task[s].user
    BY TaskFacts
<1> PICK m : m = Merge(row[u], task[s].was, new)
    OBVIOUS
<1>1. row[u] # None /\ row' = [row EXCEPT ![u] = m] /\ End(s)
    BY DEF Save
<1>2. row[u] \in Row
    BY <1>1 DEF IInv, TypeOK
<1>3. /\ m \in Row
      /\ m.expires_at \in {row[u].expires_at, new.expires_at}
      /\ m.playback_revoked_at \in {row[u].playback_revoked_at, new.playback_revoked_at}
    BY <1>2, MergeType, MergeDates
<1>4. row' \in [Users -> Row \cup {None}]
    BY <1>1, <1>3 DEF IInv, TypeOK
<1>5. \A v \in Users : row'[v] = None => row[v] = None
    BY <1>1, <1>3, NoneAssumption DEF IInv, TypeOK
<1>6. DatedInv'
  <2> SUFFICES ASSUME NEW v \in Users, row'[v] # None,
                      row'[v].expires_at # None \/ row'[v].playback_revoked_at # None
               PROVE  v \in dated'
      BY DEF DatedInv
  <2>1. CASE v = u
    <3>1. row'[v] = m
        BY <1>1, <2>1 DEF IInv, TypeOK
    <3>2. QED
        BY <1>1, <1>3, <2>1, <3>1 DEF IInv, DatedInv
  <2>2. CASE v # u
    <3>1. row'[v] = row[v]
        BY <1>1, <2>2 DEF IInv, TypeOK
    <3>2. QED
        BY <3>1 DEF IInv, DatedInv
  <2>3. QED
      BY <2>1, <2>2
<1>7. QED
    BY <1>1, <1>4, <1>5, <1>6, FrameEnd DEF IInv, TypeOK

LEMMA ZeroFailures == 0 \in 0 .. MaxFailures
BY BoundsAssumption

\* The commit of a handler that assigns these dates.
SavesDates(s, until, revoked) ==
    /\ task[s] # None /\ task[s].was \in Row
    /\ \E new \in Row : /\ Save(s, new)
                         /\ new.expires_at = until /\ new.playback_revoked_at = revoked
    /\ UNCHANGED <<now, emby, calls, server>>

LEMMA RedeemSaves ==
    ASSUME IInv, NEW s \in Slots, RedeemCommit(s)
    PROVE  LET t == task[s]
               d == (IF t.was.expires_at = None \/ Past(t.was.expires_at, t.at)
                     THEN t.at ELSE t.was.expires_at) + Duration
           IN  d \in Nat /\ SavesDates(s, d, None)
<1>1. task[s] # None /\ task[s].op = "redeem"
    BY DEF RedeemCommit, Ready
<1>2. /\ task[s] \in Task /\ task[s].user \in Users /\ task[s].was \in Row
      /\ task[s].code \in Codes /\ task[s].at \in Nat
    BY <1>1, TaskFacts DEF Shape, Task
<1>3. PICK d : d = (IF task[s].was.expires_at = None \/ Past(task[s].was.expires_at, task[s].at)
                    THEN task[s].at ELSE task[s].was.expires_at) + Duration
    OBVIOUS
<1>4. d \in Nat
    BY <1>2, <1>3, BoundsAssumption DEF Row, Time
<1>5. PICK new : new = [task[s].was EXCEPT !.expires_at = d, !.playback_enabled = TRUE,
                              !.playback_revoked_at = None, !.is_disabled = FALSE,
                              !.activation_failed_attempts = 0, !.activated = TRUE]
    OBVIOUS
<1>6. new \in Row
    BY <1>2, <1>4, <1>5, ZeroFailures DEF Row, Time
<1>7. Save(s, new) /\ UNCHANGED <<now, emby, calls, server>>
    BY <1>3, <1>5 DEF RedeemCommit
<1>8. new.expires_at = d /\ new.playback_revoked_at = None
    BY <1>2, <1>5 DEF Row
<1>9. QED
    BY <1>1, <1>2, <1>3, <1>4, <1>6, <1>7, <1>8 DEF SavesDates

LEMMA RedeemCommitInv ==
    ASSUME IInv, NEW s \in Slots, RedeemCommit(s) PROVE IInv'
<1>1. /\ codes' = [codes EXCEPT ![task[s].code] = task[s].user]
      /\ grants' = [grants EXCEPT ![task[s].code] = @ \cup {task[s].user}]
      /\ dated' = dated \cup {task[s].user}
      /\ task[s] # None /\ task[s].op = "redeem"
    BY DEF RedeemCommit, Ready
<1>2. task[s].user \in Users /\ task[s].code \in Codes
    BY <1>1, TaskFacts DEF Shape
<1>3. /\ codes' \in [Codes -> Users \cup {None, "gone", "used"}]
      /\ grants' \in [Codes -> SUBSET Users]
      /\ dated' \in SUBSET Users
    BY <1>1, <1>2 DEF IInv, TypeOK
<1>4. PICK new \in Row : Save(s, new) /\ task[s].was \in Row
                        /\ UNCHANGED <<now, emby, calls, server>>
    BY RedeemSaves DEF SavesDates
<1>5. QED
    BY <1>1, <1>3, <1>4, SaveInv

LEMMA ExpireSaves ==
    ASSUME IInv, NEW s \in Slots, ExpireCommit(s)
    PROVE  LET t == task[s] IN
           /\ t.op = "expire" /\ UNCHANGED <<codes, grants, dated, server>>
           /\ \/ SavesDates(s, t.was.expires_at, t.was.playback_revoked_at)
              \/ /\ t.was.playback_revoked_at = None
                 /\ SavesDates(s, t.was.expires_at, t.at)
<1>1. task[s] # None /\ task[s].op = "expire"
    BY DEF ExpireCommit, Ready
<1>2. /\ task[s] \in Task /\ task[s].user \in Users /\ task[s].was \in Row
      /\ task[s].at \in Nat /\ task[s].user \in dated
    BY <1>1, TaskFacts DEF Shape, Entitled, Task
<1>3. PICK new : new = IF task[s].field = "set_user_disabled"
                       THEN [task[s].was EXCEPT !.is_disabled = TRUE]
                       ELSE [task[s].was EXCEPT !.playback_enabled = FALSE,
                               !.playback_revoked_at = IF @ = None THEN task[s].at ELSE @]
    OBVIOUS
<1>4. new \in Row
  <2>1. PICK x : x = IF task[s].was.playback_revoked_at = None
                     THEN task[s].at ELSE task[s].was.playback_revoked_at
      OBVIOUS
  <2>2. x \in Time
      BY <1>2, <2>1 DEF Row, Time
  <2>3. [task[s].was EXCEPT !.playback_enabled = FALSE, !.playback_revoked_at = x] \in Row
      BY <1>2, <2>2 DEF Row
  <2>4. [task[s].was EXCEPT !.is_disabled = TRUE] \in Row
      BY <1>2 DEF Row
  <2>5. CASE task[s].field = "set_user_disabled"
      BY <1>3, <2>4, <2>5
  <2>6. CASE task[s].field # "set_user_disabled"
    <3>1. new = [task[s].was EXCEPT !.playback_enabled = FALSE, !.playback_revoked_at = x]
        BY <1>3, <2>1, <2>6
    <3>2. QED
        BY <2>3, <3>1
  <2>7. QED
      BY <2>5, <2>6
<1>5. Save(s, new) /\ UNCHANGED <<now, emby, codes, calls, grants, dated, server>>
    BY <1>3 DEF ExpireCommit
<1>6. /\ new.expires_at = task[s].was.expires_at
      /\ \/ new.playback_revoked_at = task[s].was.playback_revoked_at
         \/ /\ task[s].was.playback_revoked_at = None
            /\ new.playback_revoked_at = task[s].at
  <2>1. PICK x : x = IF task[s].was.playback_revoked_at = None
                     THEN task[s].at ELSE task[s].was.playback_revoked_at
      OBVIOUS
  <2>2. CASE task[s].field = "set_user_disabled"
      BY <1>2, <1>3, <2>2 DEF Row
  <2>3. CASE task[s].field # "set_user_disabled"
    <3>1. new = [task[s].was EXCEPT !.playback_enabled = FALSE, !.playback_revoked_at = x]
        BY <1>3, <2>1, <2>3
    <3>2. new.expires_at = task[s].was.expires_at /\ new.playback_revoked_at = x
        BY <1>2, <3>1 DEF Row
    <3>3. QED
        BY <2>1, <3>2
  <2>4. QED
      BY <2>2, <2>3
<1>7. QED
    BY <1>1, <1>2, <1>4, <1>5, <1>6 DEF SavesDates

LEMMA ExpireCommitInv ==
    ASSUME IInv, NEW s \in Slots, ExpireCommit(s) PROVE IInv'
<1>1. /\ task[s].op = "expire" /\ task[s] # None /\ task[s].was \in Row
      /\ UNCHANGED <<codes, grants, dated, server>>
    BY ExpireSaves DEF SavesDates
<1>2. PICK new \in Row : Save(s, new) /\ UNCHANGED <<now, emby, calls, server>>
    BY ExpireSaves DEF SavesDates
<1>3. task[s].user \in dated
    BY <1>1, TaskFacts DEF Entitled
<1>4. QED
    BY <1>1, <1>2, <1>3, SaveInv DEF IInv, TypeOK

\* The other commits leave both dates as they loaded them, or clear one.
LEMMA PlainSaveInv ==
    ASSUME IInv, NEW s \in Slots,
           NEW revoked, revoked \in {task[s].was.playback_revoked_at, None},
           SavesDates(s, task[s].was.expires_at, revoked),
           UNCHANGED <<codes, grants, dated, server>>
    PROVE  IInv'
<1>1. PICK new \in Row : /\ Save(s, new)
                         /\ new.expires_at = task[s].was.expires_at
                         /\ new.playback_revoked_at = revoked
    BY DEF SavesDates
<1>2. task[s] # None /\ task[s].was \in Row
                        /\ UNCHANGED <<now, emby, calls, server>>
    BY DEF SavesDates
<1>3. Entitled(task[s])
    BY <1>2, TaskFacts
<1>4. new.expires_at # None \/ new.playback_revoked_at # None => task[s].user \in dated'
    BY <1>1, <1>2, <1>3, NoneAssumption DEF Entitled
<1>5. QED
    BY <1>1, <1>2, <1>4, SaveInv DEF IInv, TypeOK

LEMMA SetStateSaves ==
    ASSUME IInv, NEW s \in Slots, SetStateCommit(s)
    PROVE  /\ SavesDates(s, task[s].was.expires_at, task[s].was.playback_revoked_at)
           /\ UNCHANGED <<codes, grants, dated, server>>
<1>1. task[s] # None /\ task[s].op = "set_state"
    BY DEF SetStateCommit, Ready
<1>2. task[s].was \in Row
    BY <1>1, TaskFacts DEF Shape
<1>3. PICK new : new = IF task[s].to THEN [task[s].was EXCEPT !.is_disabled = TRUE]
                       ELSE [task[s].was EXCEPT !.is_disabled = FALSE,
                               !.activation_failed_attempts = 0, !.activation_locked = FALSE]
    OBVIOUS
<1>4. /\ new \in Row /\ new.expires_at = task[s].was.expires_at
      /\ new.playback_revoked_at = task[s].was.playback_revoked_at
    BY <1>2, <1>3, ZeroFailures DEF Row
<1>5. Save(s, new) /\ UNCHANGED <<now, emby, codes, calls, grants, dated, server>>
    BY <1>3 DEF SetStateCommit
<1>6. QED
    BY <1>1, <1>2, <1>4, <1>5 DEF SavesDates

LEMMA UpdatePolicySaves ==
    ASSUME IInv, NEW s \in Slots, UpdatePolicyCommit(s)
    PROVE  /\ SavesDates(s, task[s].was.expires_at, task[s].was.playback_revoked_at)
           /\ UNCHANGED <<codes, grants, dated, server>>
<1>1. task[s] # None /\ task[s].op = "set_policy" /\ task[s].todo = <<>>
    BY DEF UpdatePolicyCommit, Ready
<1>2. task[s].was \in Row /\ task[s].remote \in Policy /\ task[s].to \in BOOLEAN
    BY <1>1, TaskFacts, HeadTail DEF Shape, Task
<1>3. PICK new : new = [task[s].was EXCEPT
                  !.is_disabled = task[s].remote.IsDisabled,
                  !.playback_enabled =
                      IF /\ task[s].was.playback_source = "controller"
                         /\ task[s].field = "set_playback_allowed"
                      THEN task[s].to ELSE task[s].remote.EnableMediaPlayback]
    OBVIOUS
<1>4. /\ new \in Row /\ new.expires_at = task[s].was.expires_at
      /\ new.playback_revoked_at = task[s].was.playback_revoked_at
  <2>1. PICK b : b = IF /\ task[s].was.playback_source = "controller"
                        /\ task[s].field = "set_playback_allowed"
                     THEN task[s].to ELSE task[s].remote.EnableMediaPlayback
      OBVIOUS
  <2>2. b \in BOOLEAN /\ task[s].remote.IsDisabled \in BOOLEAN
      BY <1>2, <2>1 DEF Policy
  <2>3. new = [task[s].was EXCEPT !.is_disabled = task[s].remote.IsDisabled,
                                  !.playback_enabled = b]
      BY <1>3, <2>1, Zenon
  <2>4. QED
      BY <1>2, <2>2, <2>3 DEF Row
<1>5. Save(s, new) /\ UNCHANGED <<now, emby, codes, calls, grants, dated, server>>
    BY <1>3 DEF UpdatePolicyCommit
<1>6. QED
    BY <1>1, <1>2, <1>4, <1>5 DEF SavesDates

LEMMA ReconcileSaves ==
    ASSUME IInv, NEW s \in Slots, ReconcileCommit(s)
    PROVE  /\ SavesDates(s, task[s].was.expires_at, task[s].was.playback_revoked_at)
           /\ UNCHANGED <<codes, grants, dated, server>>
<1>1. /\ task[s] # None /\ task[s].todo = <<>>
      /\ task[s].op = "refresh" \/ (task[s].op = "sync" /\ task[s].remote # None)
    BY DEF ReconcileCommit, Ready
<1>2. task[s].was \in Row /\ task[s].remote \in Policy
    BY <1>1, TaskFacts, HeadTail DEF Shape, Task
<1>3. PICK new : new = Reconciled(task[s].was, task[s].remote)
    OBVIOUS
<1>4. /\ new \in Row /\ new.expires_at = task[s].was.expires_at
      /\ new.playback_revoked_at = task[s].was.playback_revoked_at
    BY <1>2, <1>3, ReconciledType
<1>5. Save(s, new) /\ UNCHANGED <<now, emby, codes, calls, grants, dated, server>>
    BY <1>3 DEF ReconcileCommit
<1>6. QED
    BY <1>1, <1>2, <1>4, <1>5 DEF SavesDates

LEMMA EnablePortalSaves ==
    ASSUME IInv, NEW s \in Slots, EnablePortalCommit(s)
    PROVE  /\ SavesDates(s, task[s].was.expires_at, task[s].was.playback_revoked_at)
           /\ UNCHANGED <<codes, grants, dated, server>>
<1>1. task[s] # None /\ task[s].op = "enable_portal" /\ task[s].todo = <<>>
    BY DEF EnablePortalCommit, Ready
<1>2. task[s].was \in Row /\ task[s].remote \in Policy
    BY <1>1, TaskFacts, HeadTail DEF Shape
<1>3. PICK new : new = [task[s].was EXCEPT
                             !.has_password = TRUE, !.portal_enabled = TRUE,
                             !.playback_source = "emby", !.activated = TRUE,
                             !.is_protected = TRUE,
                             !.playback_enabled = task[s].remote.EnableMediaPlayback,
                             !.is_disabled = task[s].remote.IsDisabled]
    OBVIOUS
<1>4. /\ new \in Row /\ new.expires_at = task[s].was.expires_at
      /\ new.playback_revoked_at = task[s].was.playback_revoked_at
    BY <1>2, <1>3 DEF Row, Policy
<1>5. Save(s, new) /\ UNCHANGED <<now, emby, codes, calls, grants, dated, server>>
    BY <1>3 DEF EnablePortalCommit
<1>6. QED
    BY <1>1, <1>2, <1>4, <1>5 DEF SavesDates

LEMMA ClaimSaves ==
    ASSUME IInv, NEW s \in Slots, ClaimCommit(s)
    PROVE  /\ SavesDates(s, task[s].was.expires_at, None)
           /\ UNCHANGED <<codes, grants, dated, server>>
<1>1. task[s] # None /\ task[s].op = "claim" /\ task[s].todo = <<>>
    BY DEF ClaimCommit, Ready
<1>2. task[s].was \in Row /\ task[s].remote \in Policy
    BY <1>1, TaskFacts, HeadTail DEF Shape
<1>3. PICK new : new = [task[s].was EXCEPT
                             !.has_password = TRUE, !.portal_enabled = TRUE, !.claimed = TRUE,
                             !.playback_source = "emby", !.activated = TRUE,
                             !.playback_enabled = task[s].remote.EnableMediaPlayback,
                             !.is_disabled = FALSE, !.playback_revoked_at = None]
    OBVIOUS
<1>4. /\ new \in Row /\ new.expires_at = task[s].was.expires_at
      /\ new.playback_revoked_at = None
    BY <1>2, <1>3 DEF Row, Policy, Time
<1>5. Save(s, new) /\ UNCHANGED <<now, emby, codes, calls, grants, dated, server>>
    BY <1>3 DEF ClaimCommit
<1>6. QED
    BY <1>1, <1>2, <1>4, <1>5 DEF SavesDates

LEMMA PlainCommitInv ==
    ASSUME IInv, NEW s \in Slots,
           \/ SetStateCommit(s) \/ UpdatePolicyCommit(s) \/ ReconcileCommit(s)
           \/ EnablePortalCommit(s) \/ ClaimCommit(s)
    PROVE  IInv'
BY SetStateSaves, UpdatePolicySaves, ReconcileSaves, EnablePortalSaves, ClaimSaves, PlainSaveInv

LEMMA ClaimRefusedInv ==
    ASSUME IInv, NEW s \in Slots, ClaimRefused(s) PROVE IInv'
<1>1. End(s) /\ UNCHANGED <<data, calls>>
    BY DEF ClaimRefused
<1>2. DatedInv'
    BY <1>1 DEF IInv, DatedInv, data
<1>3. QED
    BY <1>1, <1>2, FrameEnd DEF IInv, TypeOK, data

LEMMA CommitStaleInv ==
    ASSUME IInv, NEW s \in Slots, CommitStale(s) PROVE IInv'
<1>1. End(s) /\ UNCHANGED <<data, calls>>
    BY DEF CommitStale
<1>2. DatedInv'
    BY <1>1 DEF IInv, DatedInv, data
<1>3. QED
    BY <1>1, <1>2, FrameEnd DEF IInv, TypeOK, data

\* The row goes only after the Emby account: this is where SeenGone is used.
LEMMA DeleteLocalUserDataInv ==
    ASSUME IInv, NEW s \in Slots, DeleteLocalUserData(s) PROVE IInv'
<1> PICK u : u = task[s].user
    OBVIOUS
<1>1. /\ task[s] # None /\ task[s].todo = <<>>
      /\ task[s].op \in DeleteOps \/ (task[s].op = "sync" /\ task[s].remote = None)
      /\ row' = [row EXCEPT ![u] = None]
      /\ codes' = [c \in Codes |-> IF codes[c] = u THEN "gone" ELSE codes[c]]
      /\ End(s)
      /\ UNCHANGED <<now, emby, calls, grants, dated, server>>
    BY DEF DeleteLocalUserData, Ready
<1>2. u \in Users /\ emby[u] = None
    BY <1>1, TaskFacts DEF SeenGone
<1>3. row' \in [Users -> Row \cup {None}]
    BY <1>1 DEF IInv, TypeOK
<1>4. codes' \in [Codes -> Users \cup {None, "gone", "used"}]
    BY <1>1 DEF IInv, TypeOK
<1>5. \A v \in Users : row'[v] = None => row[v] = None \/ emby'[v] = None
    BY <1>1, <1>2 DEF IInv, TypeOK
<1>6. DatedInv'
    BY <1>1, <1>2 DEF IInv, TypeOK, DatedInv
<1>7. QED
    BY <1>1, <1>3, <1>4, <1>5, <1>6, FrameEnd DEF IInv, TypeOK

LEMMA CommitInv ==
    ASSUME IInv, NEW s \in Slots, Commit(s) PROVE IInv'
BY RedeemCommitInv, ExpireCommitInv, PlainCommitInv, ClaimRefusedInv, DeleteLocalUserDataInv,
   CommitStaleInv DEF Commit

-----------------------------------------------------------------------------
\* The requests that touch the database only, and the environment, keep IInv.

\* A request that suspends nothing assigns no revocation and does not release the activation
\* lock, and it gives a date only to a user who counts as dated from then on.
RowUpdate(u, new) ==
    /\ row[u] \in Row /\ row' = [row EXCEPT ![u] = new]
    /\ new.playback_revoked_at = row[u].playback_revoked_at
    /\ new.expires_at \in {row[u].expires_at, None} \/ u \in dated'
    /\ row[u].activation_locked => new.activation_locked
    /\ dated' \in {dated, dated \cup {u}}
    /\ UNCHANGED <<now, emby, codes, task, mutex, grants, server>>
    /\ calls' \in Nat

LEMMA RowRequestUpdates ==
    ASSUME IInv, RowRequest
    PROVE  \E u \in Users, new \in Row : RowUpdate(u, new)
<1> PICK u \in Users : \/ RecordActivationFailure(u)
                       \/ \E t \in 0 .. MaxTime \cup {None} : SetExpiresAt(u, t)
                       \/ DisablePortalLogin(u)
                       \/ \E b \in BOOLEAN : SetUserProtected(u, b)
    BY DEF RowRequest
<1> PICK r : r = row[u]
    OBVIOUS
<1>0. /\ r \in Row /\ UNCHANGED <<now, emby, codes, task, mutex, grants, server>>
      /\ calls' \in Nat
  <2>1. /\ r # None /\ Spend /\ UNCHANGED <<now, emby, codes, task, mutex, grants, server>>
      BY DEF RecordActivationFailure, SetExpiresAt, DisablePortalLogin, SetUserProtected
  <2>2. QED
      BY <2>1, SpendType DEF IInv, TypeOK
<1>1. CASE RecordActivationFailure(u)
  <2>1. /\ ~r.activation_locked /\ dated' = dated
      BY <1>1 DEF RecordActivationFailure
  <2>2. PICK new : new = IF r.activation_failed_attempts + 1 < MaxFailures
             THEN [r EXCEPT !.activation_failed_attempts = r.activation_failed_attempts + 1]
             ELSE [r EXCEPT !.activation_failed_attempts = MaxFailures,
                            !.activation_locked = TRUE, !.is_disabled = TRUE,
                            !.playback_enabled = FALSE]
      OBVIOUS
  <2>3. row' = [row EXCEPT ![u] = new]
      BY <1>1, <2>2 DEF RecordActivationFailure
  <2>4. /\ new \in Row /\ new.expires_at = r.expires_at
        /\ new.playback_revoked_at = r.playback_revoked_at
    <3>1. r.activation_failed_attempts \in 0 .. MaxFailures
        BY <1>0 DEF Row
    <3>2. MaxFailures \in 0 .. MaxFailures
        BY BoundsAssumption
    <3>3. CASE r.activation_failed_attempts + 1 < MaxFailures
      <4>1. PICK n : n = r.activation_failed_attempts + 1
          OBVIOUS
      <4>2. n \in 0 .. MaxFailures
          BY <3>1, <3>3, <4>1, BoundsAssumption
      <4>3. new = [r EXCEPT !.activation_failed_attempts = n]
          BY <2>2, <3>3, <4>1
      <4>4. QED
          BY <1>0, <4>2, <4>3 DEF Row
    <3>4. CASE ~(r.activation_failed_attempts + 1 < MaxFailures)
      <4>1. new = [r EXCEPT !.activation_failed_attempts = MaxFailures,
                            !.activation_locked = TRUE, !.is_disabled = TRUE,
                            !.playback_enabled = FALSE]
          BY <2>2, <3>4
      <4>2. QED
          BY <1>0, <3>2, <4>1 DEF Row
    <3>5. QED
        BY <3>3, <3>4
  <2>5. QED
      BY <1>0, <2>1, <2>3, <2>4 DEF RowUpdate
<1>2. ASSUME NEW t \in 0 .. MaxTime \cup {None}, SetExpiresAt(u, t)
      PROVE  \E new \in Row : RowUpdate(u, new)
  <2>1. dated' = IF t = None THEN dated ELSE dated \cup {u}
      BY <1>2 DEF SetExpiresAt
  <2>2. PICK new : new = [r EXCEPT !.expires_at = t]
      OBVIOUS
  <2>3. row' = [row EXCEPT ![u] = new]
      BY <1>2, <2>2 DEF SetExpiresAt
  <2>4. t \in Time
      BY BoundsAssumption DEF Time
  <2>5. /\ new \in Row /\ new.expires_at = t
        /\ new.playback_revoked_at = r.playback_revoked_at
        /\ new.activation_locked = r.activation_locked
      BY <1>0, <2>2, <2>4 DEF Row
  <2>6. QED
      BY <1>0, <2>1, <2>3, <2>5 DEF RowUpdate
<1>3. CASE DisablePortalLogin(u)
  <2>1. PICK new : new = [r EXCEPT !.portal_enabled = FALSE, !.has_password = FALSE]
      OBVIOUS
  <2>2. row' = [row EXCEPT ![u] = new] /\ dated' = dated
      BY <1>3, <2>1 DEF DisablePortalLogin
  <2>3. /\ new \in Row /\ new.expires_at = r.expires_at
        /\ new.playback_revoked_at = r.playback_revoked_at
        /\ new.activation_locked = r.activation_locked
      BY <1>0, <2>1 DEF Row
  <2>4. QED
      BY <1>0, <2>2, <2>3 DEF RowUpdate
<1>4. ASSUME NEW b \in BOOLEAN, SetUserProtected(u, b)
      PROVE  \E new \in Row : RowUpdate(u, new)
  <2>1. PICK new : new = [r EXCEPT !.is_protected = b]
      OBVIOUS
  <2>2. row' = [row EXCEPT ![u] = new] /\ dated' = dated
      BY <1>4, <2>1 DEF SetUserProtected
  <2>3. /\ new \in Row /\ new.expires_at = r.expires_at
        /\ new.playback_revoked_at = r.playback_revoked_at
        /\ new.activation_locked = r.activation_locked
      BY <1>0, <2>1 DEF Row
  <2>4. QED
      BY <1>0, <2>2, <2>3 DEF RowUpdate
<1>5. QED
    BY <1>1, <1>2, <1>3, <1>4

LEMMA RowRequestInv ==
    ASSUME IInv, RowRequest PROVE IInv'
<1> PICK u \in Users, new \in Row : RowUpdate(u, new)
    BY RowRequestUpdates
<1>1. row' \in [Users -> Row \cup {None}] /\ \A v \in Users : row'[v] = None => row[v] = None
    BY NoneAssumption DEF RowUpdate, IInv, TypeOK
<1>2. dated' \in SUBSET Users /\ dated \subseteq dated'
    BY DEF RowUpdate, IInv, TypeOK
<1>3. DatedInv'
  <2> SUFFICES ASSUME NEW v \in Users, row'[v] # None,
                      row'[v].expires_at # None \/ row'[v].playback_revoked_at # None
               PROVE  v \in dated'
      BY DEF DatedInv
  <2>1. CASE v = u
    <3>1. row'[v] = new /\ row[u] # None
        BY <2>1, NoneAssumption DEF RowUpdate, IInv, TypeOK
    <3>2. QED
        BY <1>2, <2>1, <3>1 DEF RowUpdate, IInv, DatedInv
  <2>2. CASE v # u
      BY <1>2, <2>2 DEF RowUpdate, IInv, TypeOK, DatedInv
  <2>3. QED
      BY <2>1, <2>2
<1>4. QED
    BY <1>1, <1>2, <1>3, FrameIdle DEF RowUpdate, IInv, TypeOK

\* With the server go the rows of all its accounts, and the promise about them.
LEMMA DeleteServerInv ==
    ASSUME IInv, DeleteServer PROVE IInv'
<1>1. /\ server' = FALSE /\ row' = [u \in Users |-> None]
      /\ codes' = [c \in Codes |-> IF codes[c] \in Users THEN "used" ELSE codes[c]]
      /\ UNCHANGED <<now, emby, task, mutex, grants, dated>> /\ calls' \in Nat
    BY SpendType DEF DeleteServer, IInv
<1>2. TypeOK'
    BY <1>1 DEF IInv, TypeOK
<1>3. MutationExclusive'
    BY <1>1 DEF IInv, MutationExclusive, InMutex, Waiting
<1>4. NoUnmanagedAccount' /\ DatedInv'
    BY <1>1 DEF NoUnmanagedAccount, DatedInv
<1>5. TaskInv'
    BY <1>1 DEF IInv, TaskInv, Shape, SeenGone, Entitled
<1>6. QED
    BY <1>2, <1>3, <1>4, <1>5 DEF IInv

LEMMA TickInv ==
    ASSUME IInv, Tick PROVE IInv'
<1>1. now' \in Nat /\ UNCHANGED <<row, emby, codes, task, mutex, calls, grants, dated, server>>
    BY DEF Tick, IInv, TypeOK
<1>2. DatedInv'
    BY <1>1 DEF IInv, DatedInv
<1>3. QED
    BY <1>1, <1>2, FrameIdle DEF IInv, TypeOK

LEMMA RestartInv ==
    ASSUME IInv, Restart PROVE IInv'
<1>1. /\ task' = [s \in Slots |-> None] /\ mutex' = None /\ UNCHANGED data
      /\ calls' \in Nat
    BY SpendType DEF Restart, IInv
<1>2. TypeOK'
    BY <1>1 DEF IInv, TypeOK, data
<1>3. MutationExclusive' /\ TaskInv'
    BY <1>1 DEF MutationExclusive, InMutex, TaskInv
<1>4. NoUnmanagedAccount' /\ DatedInv'
    BY <1>1 DEF IInv, NoUnmanagedAccount, DatedInv, data
<1>5. QED
    BY <1>2, <1>3, <1>4 DEF IInv

LEMMA ChangedInEmbyInv ==
    ASSUME IInv, NEW u \in Users, NEW p \in Policy \cup {None}, ChangedInEmby(u, p) PROVE IInv'
<1>1. /\ emby[u] # None /\ emby' = [emby EXCEPT ![u] = p]
      /\ UNCHANGED <<now, row, codes, task, mutex, grants, dated, server>> /\ Spend
    BY DEF ChangedInEmby
<1>2. calls' \in Nat
    BY <1>1, SpendType DEF IInv
<1>3. /\ emby' \in [Users -> Policy \cup {None}]
      /\ \A v \in Users : emby[v] = None => emby'[v] = None
    BY <1>1 DEF IInv, TypeOK
<1>4. DatedInv'
    BY <1>1 DEF IInv, DatedInv
<1>5. QED
    BY <1>1, <1>2, <1>3, <1>4, FrameIdle DEF IInv, TypeOK

LEMMA StutterInv ==
    ASSUME IInv, UNCHANGED vars PROVE IInv'
<1>1. DatedInv'
    BY DEF IInv, DatedInv, vars
<1>2. QED
    BY <1>1, FrameIdle DEF IInv, TypeOK, vars

-----------------------------------------------------------------------------
\* The theorems.

\* The creation paths leave an account without a revocation, and note the date if it has one.
LEMMA InitRows ==
    ASSUME Init, NEW u \in Users
    PROVE  /\ row[u] \in Row /\ row[u].playback_revoked_at = None
           /\ row[u].expires_at # None => u \in dated
<1> DEFINE New(r) == r \in Row /\ r.playback_revoked_at = None
<1>1. PICK b : b = Blank
    OBVIOUS
<1>2. New(b)
    BY <1>1, ZeroFailures DEF Blank, Row, Time
<1>3. New(SyncedRow)
    BY <1>1, <1>2 DEF SyncedRow
<1>4. PICK g : g = RegisteredRow
    OBVIOUS
<1>5. New(g)
  <2>1. g = [b EXCEPT !.self_registered = TRUE, !.has_password = TRUE,
                      !.playback_source = "controller", !.registered_at = 0,
                      !.playback_enabled = FALSE]
      BY <1>1, <1>4 DEF RegisteredRow
  <2>2. QED
      BY <1>2, <2>1 DEF Row, Time
<1>6. New([g EXCEPT !.portal_enabled = TRUE])
    BY <1>5 DEF Row
<1>7. ASSUME NEW t \in 1 .. MaxTime \cup {None}, NEW open \in BOOLEAN
      PROVE  New(CreatedRow(t, open))
  <2>1. t \in Time
      BY BoundsAssumption DEF Time
  <2>2. New([b EXCEPT !.has_password = TRUE, !.portal_enabled = TRUE,
                      !.playback_source = "controller", !.activated = TRUE,
                      !.registered_at = 0, !.expires_at = t, !.playback_enabled = open])
      BY <1>2, <2>1 DEF Row, Time
  <2>3. QED
      BY <1>1, <2>2 DEF CreatedRow
<1>8. ASSUME NEW r \in NewRow PROVE New(r)
  <2>1. \/ r = SyncedRow \/ r = g \/ r = [g EXCEPT !.portal_enabled = TRUE]
        \/ \E t \in 1 .. MaxTime \cup {None}, open \in BOOLEAN : r = CreatedRow(t, open)
    <3> DEFINE D == 1 .. MaxTime \cup {None}
    <3>1. \/ r \in {SyncedRow, g, [g EXCEPT !.portal_enabled = TRUE]}
          \/ r \in {CreatedRow(t, TRUE) : t \in D}
          \/ r \in {CreatedRow(t, FALSE) : t \in D}
        BY <1>4, Zenon DEF NewRow
    <3>2. CASE r \in {CreatedRow(t, TRUE) : t \in D}
      <4>1. PICK t \in D : r = CreatedRow(t, TRUE)
          BY <3>2, Zenon
      <4>2. QED
          BY <4>1
    <3>3. CASE r \in {CreatedRow(t, FALSE) : t \in D}
      <4>1. PICK t \in D : r = CreatedRow(t, FALSE)
          BY <3>3, Zenon
      <4>2. QED
          BY <4>1
    <3>4. CASE r \in {SyncedRow, g, [g EXCEPT !.portal_enabled = TRUE]}
        BY <3>4
    <3>5. QED
        BY <3>1, <3>2, <3>3, <3>4
  <2>2. QED
      BY <1>3, <1>5, <1>6, <1>7, <2>1
<1>9. row[u] \in NewRow /\ dated = {v \in Users : row[v].expires_at # None}
    BY DEF Init
<1>10. New(row[u])
    BY <1>8, <1>9
<1>11. QED
    BY <1>9, <1>10

LEMMA InitInv ==
    ASSUME Init PROVE IInv
<1>1. \A u \in Users : row[u] \in Row
    BY InitRows
<1>2. TypeOK
  <2>1. emby \in [Users -> Policy \cup {None}]
      BY <1>1 DEF Init, Policy, Row
  <2>2. QED
      BY <1>1, <2>1 DEF Init, TypeOK
<1>3. MutationExclusive /\ TaskInv
    BY DEF Init, MutationExclusive, InMutex, TaskInv
<1>4. NoUnmanagedAccount
    BY <1>1, NoneAssumption DEF Init, NoUnmanagedAccount
<1>5. DatedInv
    BY InitRows DEF DatedInv
<1>6. QED
    BY <1>2, <1>3, <1>4, <1>5 DEF IInv

LEMMA NextInv ==
    ASSUME IInv, [Next]_vars PROVE IInv'
<1>1. ASSUME NEW s \in Slots, JobBegin(s) \/ RequestBegin(s) \/ Await(s) \/ Commit(s)
      PROVE  IInv'
    BY <1>1, JobBeginInv, RequestBeginInv, AwaitInv, CommitInv
<1>2. ASSUME NEW s \in Slots, EmbyFault(s) PROVE IInv'
    BY <1>2, EmbyFaultInv
<1>3. CASE RowRequest
    BY <1>3, RowRequestInv
<1>4. CASE Environment
    BY <1>2, <1>4, TickInv, RestartInv, ChangedInEmbyInv DEF Environment
<1>5. CASE DeleteServer
    BY <1>5, DeleteServerInv
<1>6. CASE UNCHANGED vars
    BY <1>6, StutterInv
<1>7. QED
    BY <1>1, <1>3, <1>4, <1>5, <1>6 DEF Next

\* The inductive invariant holds in every reachable state.
THEOREM Invariance == Spec => []IInv
<1>1. Init => IInv
    BY InitInv
<1>2. IInv /\ [Next]_vars => IInv'
    BY NextInv
<1>3. QED
    BY <1>1, <1>2, PTL DEF Spec

\* Every variable keeps its type, whatever handlers overlap: in particular no commit
\* writes a column from a Policy its handler has not read.
THEOREM TypeCorrect == Spec => []TypeOK
<1>1. IInv => TypeOK
    BY DEF IInv
<1>2. QED
    BY <1>1, Invariance, PTL

\* No interleaving of deletions, syncs, crashes and Emby faults leaves an account that lives
\* in Emby without its local row.
THEOREM NoUnmanagedAccountSafe == Spec => []NoUnmanagedAccount
<1>1. IInv => NoUnmanagedAccount
    BY DEF IInv
<1>2. QED
    BY <1>1, Invariance, PTL

\* Sync, the purges and administrator deletions exclude each other.
THEOREM MutationExclusiveSafe == Spec => []MutationExclusive
<1>1. IInv => MutationExclusive
    BY DEF IInv
<1>2. QED
    BY <1>1, Invariance, PTL

\* An account that never had an expiry date is never revoked nor purged as expired, whatever
\* stale row a handler saves.
THEOREM PermanentAccountSafe == Spec => []PermanentAccountKept
<1>1. IInv => PermanentAccountKept
  <2> SUFFICES ASSUME IInv PROVE PermanentAccountKept
      OBVIOUS
  <2>1. \A u \in Users : row[u] # None /\ row[u].playback_revoked_at # None => u \in dated
      BY DEF IInv, DatedInv
  <2>2. ASSUME NEW s \in Slots, task[s] # None, task[s].op = "purge_expired"
        PROVE  task[s].user \in dated
      BY <2>2, TaskFacts DEF Entitled
  <2>3. QED
      BY <2>1, <2>2 DEF PermanentAccountKept
<1>2. QED
    BY <1>1, Invariance, PTL

-----------------------------------------------------------------------------
\* The activation lock, as an action property.

LockKept == \A u \in Users :
    row[u] # None /\ row'[u] # None /\ row[u].activation_locked => row'[u].activation_locked

\* A flush keeps a committed lock unless the handler itself changed the column.
LEMMA SaveKeepsLock ==
    ASSUME IInv, NEW s \in Slots, task[s] # None, task[s].was \in Row, NEW new,
           Save(s, new), new.activation_locked = task[s].was.activation_locked
    PROVE  LockKept
<1> PICK u \in Users : u = task[s].user
    BY TaskFacts
<1>1. row[u] # None /\ row' = [row EXCEPT ![u] = Merge(row[u], task[s].was, new)]
    BY DEF Save
<1>2. row[u] \in Row
    BY <1>1 DEF IInv, TypeOK
<1>3. Merge(row[u], task[s].was, new).activation_locked = row[u].activation_locked
    BY <1>2 DEF Merge, Row
<1>4. QED
    BY <1>1, <1>3 DEF LockKept, IInv, TypeOK

\* Of all commits only an administrator's re-enable assigns the column.
LEMMA CommitKeepsLock ==
    ASSUME IInv, NEW s \in Slots, Commit(s), ~SetStateCommit(s) PROVE LockKept
<1>1. CASE RedeemCommit(s) \/ ExpireCommit(s) \/ UpdatePolicyCommit(s) \/ ReconcileCommit(s)
           \/ EnablePortalCommit(s) \/ ClaimCommit(s)
  <2>1. /\ task[s] # None /\ task[s].todo = <<>>
        /\ task[s].op \in {"redeem", "expire", "set_policy", "refresh", "enable_portal", "claim"}
             \/ (task[s].op = "sync" /\ task[s].remote # None)
      BY <1>1 DEF RedeemCommit, ExpireCommit, UpdatePolicyCommit, ReconcileCommit,
                  EnablePortalCommit, ClaimCommit, Ready
  <2>2. task[s].was \in Row
      BY <2>1, TaskFacts, HeadTail DEF Shape
  <2>3. CASE RedeemCommit(s)
      BY <2>1, <2>2, <2>3, SaveKeepsLock DEF RedeemCommit, Row
  <2>4. CASE ExpireCommit(s)
    <3>1. PICK new : /\ new = IF task[s].field = "set_user_disabled"
                             THEN [task[s].was EXCEPT !.is_disabled = TRUE]
                             ELSE [task[s].was EXCEPT !.playback_enabled = FALSE,
                                     !.playback_revoked_at = IF @ = None THEN task[s].at ELSE @]
                     /\ Save(s, new)
        BY <2>4 DEF ExpireCommit
    <3>2. new.activation_locked = task[s].was.activation_locked
        BY <2>2, <3>1 DEF Row
    <3>3. QED
        BY <2>1, <2>2, <3>1, <3>2, SaveKeepsLock
  <2>5. CASE UpdatePolicyCommit(s)
    <3>1. PICK b : Save(s, [task[s].was EXCEPT !.is_disabled = task[s].remote.IsDisabled,
                                               !.playback_enabled = b])
        BY <2>5, Zenon DEF UpdatePolicyCommit
    <3>2. [task[s].was EXCEPT !.is_disabled = task[s].remote.IsDisabled,
                              !.playback_enabled = b].activation_locked
              = task[s].was.activation_locked
        BY <2>2 DEF Row
    <3>3. QED
        BY <2>1, <2>2, <3>1, <3>2, SaveKeepsLock
  <2>6. CASE ReconcileCommit(s)
    <3>1. Reconciled(task[s].was, task[s].remote).activation_locked
              = task[s].was.activation_locked
        BY <2>2 DEF Reconciled, Row
    <3>2. QED
        BY <2>1, <2>2, <2>6, <3>1, SaveKeepsLock DEF ReconcileCommit
  <2>7. CASE EnablePortalCommit(s)
      BY <2>1, <2>2, <2>7, SaveKeepsLock DEF EnablePortalCommit, Row
  <2>8. CASE ClaimCommit(s)
      BY <2>1, <2>2, <2>8, SaveKeepsLock DEF ClaimCommit, Row
  <2>9. QED
      BY <1>1, <2>3, <2>4, <2>5, <2>6, <2>7, <2>8
<1>2. CASE ClaimRefused(s) \/ CommitStale(s)
    BY <1>2 DEF ClaimRefused, CommitStale, data, LockKept
<1>3. CASE DeleteLocalUserData(s)
    BY <1>3 DEF DeleteLocalUserData, LockKept, IInv, TypeOK
<1>4. QED
    BY <1>1, <1>2, <1>3 DEF Commit

LEMMA RowRequestKeepsLock ==
    ASSUME IInv, RowRequest PROVE LockKept
<1> PICK u \in Users, new \in Row : RowUpdate(u, new)
    BY RowRequestUpdates
<1>1. QED
    BY DEF RowUpdate, LockKept, IInv, TypeOK

\* Starting a handler and waiting for Emby write nothing to the database.
LEMMA OthersWriteNothing ==
    ASSUME NEW s \in Slots, JobBegin(s) \/ RequestBegin(s) \/ Await(s) \/ EmbyFault(s)
    PROVE  UNCHANGED <<now, row, codes, grants, dated, server>>
<1>1. CASE JobBegin(s)
    BY <1>1 DEF JobBegin, ProcessExpirations, PurgeInactive, PurgeExpired, SyncServerUsers, data
<1>2. CASE RequestBegin(s)
    BY <1>2 DEF RequestBegin, RedeemCode, AdminDeleteUser, SetUserState, UpdateUserPolicy,
                RefreshUserFromEmby, EnablePortalLogin, ClaimExistingUser, data
<1>3. CASE Await(s)
    BY <1>3 DEF Await, PatchGet, PatchPost, ReadUser, DeleteAtEmby, AccountMissing,
                AcquireForDelete, SyncSelect, data
<1>4. CASE EmbyFault(s)
    BY <1>4 DEF EmbyFault
<1>5. QED
    BY <1>1, <1>2, <1>3, <1>4

\* A locked account is unlocked only by the commit of an administrator's re-enable: no
\* redemption, expiry, sync, refresh or policy update that loaded the row earlier, or that
\* overlaps the re-enable, writes the lock away.
THEOREM LockSafe == Spec => LockReleasedByEnableOnly
<1>1. ASSUME IInv, [Next]_vars
      PROVE  [\A u \in Users :
                row[u] # None /\ row[u].activation_locked /\ row'[u] # None
                  /\ ~row'[u].activation_locked
                => \E s \in Slots : /\ Ready(s, "set_state") /\ ~task[s].to
                                    /\ task[s].user = u]_vars
  <2> SUFFICES ASSUME NEW u \in Users,
                      row[u] # None, row[u].activation_locked, row'[u] # None,
                      ~row'[u].activation_locked
               PROVE  \E s \in Slots : /\ Ready(s, "set_state") /\ ~task[s].to
                                       /\ task[s].user = u
      OBVIOUS
  <2>1. ~LockKept /\ row' # row
      BY DEF LockKept
  <2>2. PICK s \in Slots : SetStateCommit(s)
    <3>1. \A s \in Slots : ~(JobBegin(s) \/ RequestBegin(s) \/ Await(s) \/ EmbyFault(s))
        BY <2>1, OthersWriteNothing
    <3>2. ~RowRequest /\ ~DeleteServer /\ ~UNCHANGED vars
        BY <1>1, <2>1, RowRequestKeepsLock DEF DeleteServer, LockKept, vars
    <3>3. ~Environment
        BY <2>1, <3>1 DEF Environment, Tick, Restart, ChangedInEmby, data
    <3>4. PICK s \in Slots : Commit(s)
        BY <1>1, <3>1, <3>2, <3>3 DEF Next
    <3>5. QED
        BY <1>1, <2>1, <3>4, CommitKeepsLock
  <2>3. task[s] # None /\ task[s].op = "set_state" /\ Ready(s, "set_state")
      BY <2>2 DEF SetStateCommit, Ready
  <2>4. task[s].was \in Row /\ task[s].user \in Users
      BY <1>1, <2>3, TaskFacts DEF Shape
  <2>5. task[s].user = u
    <3>1. PICK m : row' = [row EXCEPT ![task[s].user] = m]
        BY <2>2 DEF SetStateCommit, Save
    <3>2. QED
        BY <1>1, <3>1, <2>4 DEF IInv, TypeOK
  <2>6. ~task[s].to
    <3>1. SUFFICES ASSUME task[s].to PROVE LockKept
        BY <2>1
    <3>2. Save(s, [task[s].was EXCEPT !.is_disabled = TRUE])
        BY <2>2, <3>1 DEF SetStateCommit
    <3>3. [task[s].was EXCEPT !.is_disabled = TRUE].activation_locked
              = task[s].was.activation_locked
        BY <2>4 DEF Row
    <3>4. QED
        BY <1>1, <2>3, <2>4, <3>2, <3>3, SaveKeepsLock
  <2>7. QED
      BY <2>3, <2>5, <2>6
<1>2. QED
    BY <1>1, Invariance, PTL DEF Spec, LockReleasedByEnableOnly
=============================================================================
