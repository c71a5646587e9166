------------------------ MODULE AccountOverlapProofs ------------------------
(***************************************************************************)
(* What overlapping handlers of AccountLifecycle keep, for every value of  *)
(* its constants: what a code is spent on, who moves an expiry date, and   *)
(* what revocations and purges were decided on.                            *)
(*                                                                         *)
(* DecidedInv says of each suspended handler that what it decided on, in   *)
(* the row it loaded, was so when it decided, and has only become more so  *)
(* with time.  What other handlers wrote since then is not in it: that is  *)
(* where the stronger claims fail.                                         *)
(***************************************************************************)
EXTENDS AccountLifecycleProofs

Decided(t) ==
    /\ t.at <= now
    /\ t.op = "expire" => Past(t.was.expires_at, t.at)
    /\ t.op = "purge_inactive" => ~t.was.activated
    /\ t.op \in DeleteOps /\ t.todo # <<Acquire, DeleteUser>> =>
          /\ ~t.was.is_protected
          /\ t.op = "purge_expired" =>
                t.was.expires_at = None \/ Past(t.was.expires_at, now)

DecidedInv == \A s \in Slots : task[s] # None => Decided(task[s])

OInv == IInv /\ DecidedInv

-----------------------------------------------------------------------------
\* What was past stays past.
LEMMA PastLater ==
    ASSUME NEW x \in Time, NEW a \in Nat, NEW b \in Nat, a <= b, Past(x, a)
    PROVE  Past(x, b)
BY NoneAssumption DEF Past, Time

\* A step that replaces one task while time does not run back.
LEMMA FrameDecided ==
    ASSUME OInv, NEW s \in Slots, NEW t, task' = [task EXCEPT ![s] = t],
           now' \in Nat, now <= now',
           t # None => Decided(t)'
    PROVE  DecidedInv'
<1> SUFFICES ASSUME NEW r \in Slots, task'[r] # None PROVE Decided(task[r])'
    BY DEF DecidedInv, Decided
<1>1. task'[r] = IF r = s THEN t ELSE task[r]
    BY DEF OInv, IInv, TypeOK
<1>2. CASE r = s
  <2>1. task'[r] = t /\ t # None
      BY <1>1, <1>2
  <2>2. QED
      BY <2>1 DEF Decided
<1>3. CASE r # s
  <2>1. /\ task'[r] = task[r] /\ task[r] \in Task /\ Shape(task[r]) /\ Decided(task[r])
        /\ now \in Nat
      BY <1>1, <1>3, TaskFacts DEF OInv, DecidedInv, IInv, TypeOK
  <2>2. task[r].at \in Nat /\ task[r].at <= now'
      BY <2>1 DEF Task, Decided
  <2>3. ASSUME task[r].op = "purge_expired", Past(task[r].was.expires_at, now)
        PROVE  Past(task[r].was.expires_at, now)'
    <3>1. task[r].was.expires_at \in Time
        BY <2>1, <2>3 DEF Shape, Row
    <3>2. Past(task[r].was.expires_at, now')
        BY <2>1, <2>3, <3>1, PastLater
    <3>3. QED
        BY <2>1, <3>2 DEF Past
  <2>4. QED
      BY <2>1, <2>2, <2>3 DEF Decided
<1>4. QED
    BY <1>2, <1>3

-----------------------------------------------------------------------------
\* What a new handler is decided on, and that a redemption has just seen its code unused.
LEMMA BeginDecided ==
    ASSUME IInv, NEW s \in Slots, NEW op, NEW u \in Users,
           NEW c, NEW field, NEW to, NEW todo,
           Begin(s, op, u, c, field, to, todo), now' = now,
           op = "redeem" => codes[c] = None,
           op = "expire" => Past(row[u].expires_at, now),
           op = "purge_inactive" => ~row[u].activated,
           op \in DeleteOps => todo = <<Acquire, DeleteUser>>
    PROVE  \E t : /\ task' = [task EXCEPT ![s] = t]
                  /\ t.op = "redeem" => codes[t.code] = None
                  /\ Decided(t)'
<1> PICK t : t = [op |-> op, user |-> u, code |-> c, to |-> to, field |-> field,
                  was |-> row[u], at |-> IF op \in {"redeem", "expire"} THEN now ELSE 0,
                  todo |-> todo, policy |-> None, remote |-> None]
    OBVIOUS
<1>1. task' = [task EXCEPT ![s] = t]
    BY DEF Begin
<1>2. Decided(t)'
    BY DEF Decided, IInv, TypeOK
<1>3. t.op = "redeem" => codes[t.code] = None
    OBVIOUS
<1>4. QED
    BY <1>1, <1>2, <1>3

LEMMA StartDecided ==
    ASSUME IInv, NEW s \in Slots, JobBegin(s) \/ RequestBegin(s)
    PROVE  \E t : /\ task' = [task EXCEPT ![s] = t]
                  /\ t.op = "redeem" => codes[t.code] = None
                  /\ Decided(t)'
<1>1. now' = now
    BY OthersWriteNothing
<1>2. PICK u \in Users :
        \/ \E op \in TaskOps \ (DeleteOps \cup {"redeem", "expire"}) :
              \E c, field, to, todo : Begin(s, op, u, c, field, to, todo)
        \/ \E c \in Codes : RedeemCode(s, u, c)
        \/ ProcessExpirations(s, u) \/ PurgeInactive(s, u) \/ PurgeExpired(s, u)
        \/ AdminDeleteUser(s, u)
        \/ SyncServerUsers(s, u)
    BY DEF JobBegin, RequestBegin, SetUserState, UpdateUserPolicy, RefreshUserFromEmby,
           EnablePortalLogin, ClaimExistingUser, TaskOps, DeleteOps
<1>3. ASSUME NEW op \in TaskOps \ (DeleteOps \cup {"redeem", "expire"}),
             NEW c, NEW field, NEW to, NEW todo, Begin(s, op, u, c, field, to, todo)
      PROVE  \E t : /\ task' = [task EXCEPT ![s] = t]
                    /\ t.op = "redeem" => codes[t.code] = None
                    /\ Decided(t)'
    BY <1>1, <1>3, BeginDecided DEF DeleteOps
<1>4. ASSUME NEW c \in Codes, RedeemCode(s, u, c)
      PROVE  \E t : /\ task' = [task EXCEPT ![s] = t]
                    /\ t.op = "redeem" => codes[t.code] = None
                    /\ Decided(t)'
  <2>1. PICK todo : Begin(s, "redeem", u, c, "set_playback_allowed", TRUE, todo)
      BY <1>4, Zenon DEF RedeemCode
  <2>2. codes[c] = None
      BY <1>4 DEF RedeemCode
  <2>3. QED
      BY <1>1, <2>1, <2>2, BeginDecided DEF DeleteOps
<1>5. CASE ProcessExpirations(s, u)
  <2>1. PICK field, to, todo : Begin(s, "expire", u, None, field, to, todo)
      BY <1>5, Zenon DEF ProcessExpirations
  <2>2. Past(row[u].expires_at, now)
      BY <1>5 DEF ProcessExpirations
  <2>3. QED
      BY <1>1, <2>1, <2>2, BeginDecided DEF DeleteOps
<1>6. CASE PurgeInactive(s, u) \/ PurgeExpired(s, u) \/ AdminDeleteUser(s, u)
  <2>1. PICK op \in DeleteOps :
          /\ Begin(s, op, u, None, "set_user_disabled", TRUE, <<Acquire, DeleteUser>>)
          /\ op = "purge_inactive" => ~row[u].activated
      BY <1>6 DEF PurgeInactive, PurgeExpired, AdminDeleteUser, DeleteOps
  <2>2. QED
      BY <1>1, <2>1, BeginDecided DEF DeleteOps
<1>7. CASE SyncServerUsers(s, u)
  <2> PICK t : t = [op |-> "sync", user |-> u, code |-> None, to |-> TRUE,
                    field |-> "set_user_disabled", was |-> None, at |-> 0,
                    todo |-> <<Select>>, policy |-> None, remote |-> emby[u]]
      OBVIOUS
  <2>1. task' = [task EXCEPT ![s] = t]
      BY <1>7 DEF SyncServerUsers
  <2>2. Decided(t)' /\ t.op # "redeem"
      BY <1>1 DEF Decided, DeleteOps, IInv, TypeOK
  <2>3. QED
      BY <2>1, <2>2
<1>8. QED
    BY <1>2, <1>3, <1>4, <1>5, <1>6, <1>7

-----------------------------------------------------------------------------
\* Two tasks that were decided alike.
Same(t, o) == /\ t.op = o.op /\ t.code = o.code /\ t.user = o.user /\ t.at = o.at
              /\ t.op # "sync" => t.was = o.was

\* A handler that waits keeps what it decided on, and a deletion looks at the row it has
\* loaded when it gets the lock.
LEMMA AwaitDecided ==
    ASSUME OInv, NEW s \in Slots, Await(s) \/ EmbyFault(s)
    PROVE  \E t : /\ task' = [task EXCEPT ![s] = t]
                  /\ t # None => t.op = task[s].op /\ t.code = task[s].code /\ Decided(t)'
<1>1. task[s] # None
    BY DEF Await, EmbyFault, PatchGet, PatchPost, ReadUser, DeleteAtEmby, AccountMissing,
           AcquireForDelete, SyncSelect, Waiting
<1>2. now' = now
    BY OthersWriteNothing
<1>3. task[s] \in Task /\ Decided(task[s]) /\ Shape(task[s])
    BY <1>1, TaskFacts DEF OInv, DecidedInv
<1>4. ASSUME NEW t, task' = [task EXCEPT ![s] = t], Same(t, task[s]),
             task[s].op \in DeleteOps /\ task[s].todo = <<Acquire, DeleteUser>> =>
                /\ ~t.was.is_protected
                /\ t.op = "purge_expired" =>
                      t.was.expires_at = None \/ Past(t.was.expires_at, now)
      PROVE  \E x : /\ task' = [task EXCEPT ![s] = x]
                    /\ x # None => x.op = task[s].op /\ x.code = task[s].code /\ Decided(x)'
  <2>1. Decided(t)'
      BY <1>2, <1>3, <1>4 DEF Decided, Same, DeleteOps, Past
  <2>2. QED
      BY <1>4, <2>1 DEF Same
<1>5. CASE End(s)
    BY <1>5 DEF End
<1>6. task[s].todo = <<Acquire, DeleteUser>> => ~Waiting(s, EmbyVerbs) /\ ~Waiting(s, PatchVerbs)
                                                /\ ~Waiting(s, {"get_user"})
                                                /\ ~Waiting(s, {"delete_user"})
    BY HeadTail, Verbs DEF Waiting, EmbyVerbs
<1>7. CASE \/ PatchGet(s) \/ PatchPost(s) \/ DeleteAtEmby(s)
           \/ ((AccountMissing(s) \/ EmbyFault(s)) /\ ~End(s))
  <2>1. Waiting(s, EmbyVerbs) \/ Waiting(s, PatchVerbs) \/ Waiting(s, {"delete_user"})
      BY <1>7 DEF PatchGet, PatchPost, DeleteAtEmby, AccountMissing, EmbyFault
  <2>2. PICK p, q : task' = [task EXCEPT ![s] = [task[s] EXCEPT !.policy = p, !.todo = q]]
    <3>1. CASE PatchGet(s)
      <4>1. task' = [task EXCEPT ![s] = [task[s] EXCEPT !.policy = emby[task[s].user],
                                                        !.todo = task[s].todo]]
          BY <1>3, <3>1 DEF PatchGet, OInv, IInv, TypeOK, Task
      <4>2. QED
          BY <4>1
    <3>2. CASE PatchPost(s)
      <4>1. task' = [task EXCEPT ![s] = [task[s] EXCEPT !.policy = None,
                                                        !.todo = Tail(task[s].todo)]]
          BY <3>2 DEF PatchPost, OInv, IInv, TypeOK
      <4>2. QED
          BY <4>1
    <3>3. CASE DeleteAtEmby(s)
      <4>1. task' = [task EXCEPT ![s] = [task[s] EXCEPT !.policy = task[s].policy,
                                                        !.todo = Tail(task[s].todo)]]
          BY <1>3, <3>3 DEF DeleteAtEmby, OInv, IInv, TypeOK, Task
      <4>2. QED
          BY <4>1
    <3>4. CASE AfterError(s) /\ ~End(s)
      <4>1. task' = [task EXCEPT ![s] = [task[s] EXCEPT !.policy = None,
                                                        !.todo = Tail(task[s].todo)]]
          BY <3>4 DEF AfterError, OInv, IInv, TypeOK
      <4>2. QED
          BY <4>1
    <3>5. QED
        BY <1>7, <3>1, <3>2, <3>3, <3>4 DEF AccountMissing, EmbyFault
  <2> PICK t : t = [task[s] EXCEPT !.policy = p, !.todo = q]
      OBVIOUS
  <2>3. task[s].todo # <<Acquire, DeleteUser>>
      BY <1>6, <2>1
  <2>4. Same(t, task[s])
      BY <1>3 DEF Task, Same
  <2>5. QED
      BY <1>4, <2>2, <2>3, <2>4
<1>8. CASE ReadUser(s)
  <2>1. PICK p, q : task' = [task EXCEPT ![s] = [task[s] EXCEPT !.remote = p, !.todo = q]]
    <3>1. PICK p, q :
            /\ p = emby[task[s].user]
            /\ q = IF task[s].op = "refresh"
                   THEN PlayDrift(task[s].was, emby[task[s].user])
                          \o LockDrift(task[s].was, emby[task[s].user])
                   ELSE Tail(task[s].todo)
        OBVIOUS
    <3>2. task' = [task EXCEPT ![s] = [task[s] EXCEPT !.remote = p, !.todo = q]]
        BY <1>8, <3>1 DEF ReadUser, OInv, IInv, TypeOK
    <3>3. QED
        BY <3>2
  <2> PICK t : t = [task[s] EXCEPT !.remote = p, !.todo = q]
      OBVIOUS
  <2>2. task[s].todo # <<Acquire, DeleteUser>>
      BY <1>6, <1>8 DEF ReadUser
  <2>3. Same(t, task[s])
      BY <1>3 DEF Task, Same
  <2>4. QED
      BY <1>4, <2>1, <2>2, <2>3
<1>9. CASE AcquireForDelete(s) /\ ~End(s)
  <2> PICK t : t = [task[s] EXCEPT !.todo = Tail(task[s].todo)]
      OBVIOUS
  <2>1. /\ task' = [task EXCEPT ![s] = t]
        /\ ~task[s].was.is_protected
        /\ task[s].op = "purge_expired" =>
              task[s].was.expires_at = None \/ Past(task[s].was.expires_at, now)
      BY <1>9 DEF AcquireForDelete, OInv, IInv, TypeOK
  <2>2. Same(t, task[s])
      BY <1>3 DEF Task, Same
  <2>3. task[s].op \in DeleteOps => t.was = task[s].was /\ t.op = task[s].op
      BY <2>2 DEF Same, DeleteOps
  <2>4. QED
      BY <1>4, <2>1, <2>2, <2>3
<1>10. CASE SyncSelect(s) /\ ~End(s)
  <2>1. PICK q : task' = [task EXCEPT ![s] = [task[s] EXCEPT !.was = row[task[s].user],
                                                            !.todo = q]]
    <3>1. PICK q : q = IF task[s].remote = None THEN <<>>
                       ELSE LockDrift(row[task[s].user], task[s].remote)
                              \o PlayDrift(row[task[s].user], task[s].remote)
        OBVIOUS
    <3>2. task' = [task EXCEPT ![s] = [task[s] EXCEPT !.was = row[task[s].user], !.todo = q]]
        BY <1>10, <3>1 DEF SyncSelect, OInv, IInv, TypeOK
    <3>3. QED
        BY <3>2
  <2> PICK t : t = [task[s] EXCEPT !.was = row[task[s].user], !.todo = q]
      OBVIOUS
  <2>2. task[s].op = "sync"
      BY <1>10 DEF SyncSelect
  <2>3. Same(t, task[s]) /\ task[s].op \notin DeleteOps
      BY <1>3, <2>2 DEF Task, Same, DeleteOps
  <2>4. QED
      BY <1>4, <2>1, <2>3
<1>11. QED
    BY <1>5, <1>7, <1>8, <1>9, <1>10 DEF Await

\* A commit ends its handler.
LEMMA CommitEnds ==
    ASSUME NEW s \in Slots, Commit(s) PROVE task[s] # None /\ End(s)
BY DEF Commit, RedeemCommit, ExpireCommit, SetStateCommit, UpdatePolicyCommit,
       ReconcileCommit, EnablePortalCommit, ClaimCommit, ClaimRefused,
       DeleteLocalUserData, CommitStale, Ready, Save

\* Requests that suspend nothing leave the handlers alone, and so does the environment but
\* for a restart, which drops them.
LEMMA OthersTask ==
    ASSUME \/ RowRequest \/ DeleteServer \/ Tick \/ Restart
           \/ \E u \in Users, p \in Policy \cup {None} : ChangedInEmby(u, p)
           \/ UNCHANGED vars
    PROVE  task' = task \/ task' = [s \in Slots |-> None]
BY DEF RowRequest, RecordActivationFailure, SetExpiresAt, DisablePortalLogin,
       SetUserProtected, DeleteServer, Tick, Restart, ChangedInEmby, vars

LEMMA OthersTime ==
    ASSUME TypeOK,
           \/ \E s \in Slots : Commit(s)
           \/ RowRequest \/ DeleteServer \/ Tick \/ Restart
           \/ \E u \in Users, p \in Policy \cup {None} : ChangedInEmby(u, p)
           \/ UNCHANGED vars
    PROVE  now' \in Nat /\ now <= now'
<1>1. now' = now \/ now' = now + 1
    BY DEF Commit, RedeemCommit, ExpireCommit, SetStateCommit, UpdatePolicyCommit,
           ReconcileCommit, EnablePortalCommit, ClaimCommit, ClaimRefused,
           DeleteLocalUserData, CommitStale, RowRequest, RecordActivationFailure, SetExpiresAt,
           DisablePortalLogin, SetUserProtected, DeleteServer, Tick, Restart, ChangedInEmby,
           data, vars
<1>2. QED
    BY <1>1 DEF TypeOK

LEMMA DecidedNext ==
    ASSUME OInv, [Next]_vars PROVE OInv'
<1>0. IInv'
    BY NextInv DEF OInv
<1>1. ASSUME NEW s \in Slots, JobBegin(s) \/ RequestBegin(s) \/ Await(s) \/ EmbyFault(s)
      PROVE  DecidedInv'
  <2>1. PICK t : task' = [task EXCEPT ![s] = t] /\ (t # None => Decided(t)')
      BY <1>1, StartDecided, AwaitDecided DEF OInv
  <2>2. now' \in Nat /\ now <= now'
      BY <1>1, OthersWriteNothing DEF OInv, IInv, TypeOK
  <2>3. QED
      BY <2>1, <2>2, FrameDecided
<1>2. ASSUME NEW s \in Slots, Commit(s) PROVE DecidedInv'
  <2>1. task' = [task EXCEPT ![s] = None]
      BY <1>2, CommitEnds DEF End
  <2>2. now' \in Nat /\ now <= now'
      BY <1>2, OthersTime DEF OInv, IInv
  <2>3. QED
      BY <2>1, <2>2, FrameDecided
<1>3. ASSUME \/ RowRequest \/ DeleteServer \/ Tick \/ Restart
             \/ \E u \in Users, p \in Policy \cup {None} : ChangedInEmby(u, p)
             \/ UNCHANGED vars
      PROVE  DecidedInv'
  <2>1. now' \in Nat /\ now <= now'
      BY <1>3, OthersTime DEF OInv, IInv
  <2>2. CASE task' = [s \in Slots |-> None]
      BY <2>2 DEF DecidedInv
  <2>3. CASE task' = task
    <3> SUFFICES ASSUME NEW s \in Slots, task'[s] # None PROVE Decided(task[s])'
        BY DEF DecidedInv
    <3>1. PICK t : t = task[s]
        OBVIOUS
    <3>2. /\ task' = [task EXCEPT ![s] = t] /\ t \in Task /\ Shape(t) /\ Decided(t)
          /\ now \in Nat
        BY <2>3, <3>1, TaskFacts DEF OInv, DecidedInv, IInv, TypeOK
    <3>3. t.at \in Nat
        BY <3>2 DEF Task
    <3>4. t.op = "purge_expired" => t.was.expires_at \in Time
        BY <3>2 DEF Shape, Row
    <3>5. Decided(t)'
      <4>1. t.op = "purge_expired" /\ Past(t.was.expires_at, now)
              => Past(t.was.expires_at, now')
          BY <2>1, <3>2, <3>4, PastLater
      <4>2. QED
          BY <2>1, <3>2, <3>3, <4>1 DEF Decided, Past
    <3>6. QED
        BY <2>3, <3>1, <3>5 DEF Decided
  <2>4. QED
      BY <1>3, <2>2, <2>3, OthersTask
<1>4. QED
    BY <1>0, <1>1, <1>2, <1>3 DEF OInv, Next, Environment

LEMMA DecidedInit == Init => OInv
BY InitInv DEF OInv, DecidedInv, Init

-----------------------------------------------------------------------------
\* A used code.
LEMMA SpentKept ==
    ASSUME OInv, [Next]_vars, NEW c \in Codes, Spent(c)
    PROVE  Spent(c)' /\ grants'[c] = grants[c]
<1>1. ASSUME NEW s \in Slots, JobBegin(s) \/ RequestBegin(s) \/ Await(s) \/ EmbyFault(s)
      PROVE  Spent(c)' /\ grants'[c] = grants[c]
  <2>1. codes' = codes /\ grants' = grants
      BY <1>1, OthersWriteNothing
  <2>2. PICK t : /\ task' = [task EXCEPT ![s] = t]
                 /\ \/ t.op = "redeem" => codes[t.code] = None
                    \/ t = None
                    \/ task[s] # None /\ t.op = task[s].op /\ t.code = task[s].code
    <3>1. CASE JobBegin(s) \/ RequestBegin(s)
        BY <3>1, StartDecided DEF OInv
    <3>2. CASE Await(s) \/ EmbyFault(s)
      <4>1. task[s] # None
          BY <3>2 DEF Await, EmbyFault, PatchGet, PatchPost, ReadUser, DeleteAtEmby,
                      AccountMissing, AcquireForDelete, SyncSelect, Waiting
      <4>2. QED
          BY <3>2, <4>1, AwaitDecided
    <3>3. QED
        BY <1>1, <3>1, <3>2
  <2>3. \A r \in Slots : task'[r] # None /\ task'[r].op = "redeem" => task'[r].code # c
    <3> SUFFICES ASSUME NEW r \in Slots, task'[r] # None, task'[r].op = "redeem"
                 PROVE  task'[r].code # c
        OBVIOUS
    <3>1. task'[r] = IF r = s THEN t ELSE task[r]
        BY <2>2 DEF OInv, IInv, TypeOK
    <3>2. QED
        BY <2>2, <3>1 DEF Spent
  <2>4. QED
      BY <2>1, <2>3 DEF Spent
<1>2. ASSUME NEW s \in Slots, Commit(s) PROVE Spent(c)' /\ grants'[c] = grants[c]
  <2>1. task[s] # None /\ task' = [task EXCEPT ![s] = None]
      BY <1>2, CommitEnds DEF End
  <2>2. \A r \in Slots : task'[r] # None => task'[r] = task[r] /\ task[r] # None
      BY <2>1 DEF OInv, IInv, TypeOK
  <2>3. codes'[c] # None /\ grants'[c] = grants[c]
    <3>1. CASE RedeemCommit(s)
      <4>1. /\ task[s].op = "redeem" /\ task[s].code # c
            /\ codes' = [codes EXCEPT ![task[s].code] = task[s].user]
            /\ grants' = [grants EXCEPT ![task[s].code] = @ \cup {task[s].user}]
          BY <3>1 DEF RedeemCommit, Ready, Spent
      <4>2. QED
          BY <4>1 DEF Spent, OInv, IInv, TypeOK
    <3>2. CASE DeleteLocalUserData(s)
      <4>1. /\ codes' = [d \in Codes |-> IF codes[d] = task[s].user THEN "gone" ELSE codes[d]]
            /\ grants' = grants
          BY <3>2 DEF DeleteLocalUserData
      <4>2. QED
          BY <4>1, NoneAssumption DEF Spent
    <3>3. CASE UNCHANGED <<codes, grants>>
        BY <3>3 DEF Spent
    <3>4. QED
        BY <1>2, <3>1, <3>2, <3>3
           DEF Commit, ExpireCommit, SetStateCommit, UpdatePolicyCommit, ReconcileCommit,
               EnablePortalCommit, ClaimCommit, ClaimRefused, CommitStale, data
  <2>4. QED
      BY <2>2, <2>3 DEF Spent
<1>3. CASE \/ RowRequest \/ DeleteServer \/ Tick \/ Restart
           \/ \E u \in Users, p \in Policy \cup {None} : ChangedInEmby(u, p)
           \/ UNCHANGED vars
  <2>1. codes'[c] # None /\ grants'[c] = grants[c]
    <3>1. CASE DeleteServer
        BY <3>1, NoneAssumption DEF DeleteServer, Spent
    <3>2. CASE UNCHANGED <<codes, grants>>
        BY <3>2 DEF Spent
    <3>3. QED
        BY <1>3, <3>1, <3>2
           DEF RowRequest, RecordActivationFailure, SetExpiresAt, DisablePortalLogin,
               SetUserProtected, Tick, Restart, ChangedInEmby, data, vars
  <2>2. QED
      BY <1>3, <2>1, OthersTask DEF Spent
<1>4. QED
    BY <1>1, <1>2, <1>3 DEF Next, Environment

\* A code that is used, with no redemption of it under way, is never redeemed again nor
\* credited to anybody else (RedeemCode.is_used, redeem_code), whatever handlers overlap.
THEOREM SpentForGoodSafe == Spec => SpentForGood
<1>1. OInv /\ [Next]_vars => [\A c \in Codes : Spent(c) => Spent(c)' /\ grants'[c] = grants[c]]_vars
    BY SpentKept
<1>2. OInv /\ [Next]_vars => OInv'
    BY DecidedNext
<1>3. QED
    BY <1>1, <1>2, DecidedInit, PTL DEF Spec, SpentForGood

-----------------------------------------------------------------------------
\* The dates of a row.
DatesKept == \A u \in Users :
    row[u] # None /\ row'[u] # None => row'[u].expires_at = row[u].expires_at
NoStamp   == \A u \in Users :
    row[u] # None /\ row'[u] # None /\ row[u].playback_revoked_at = None
      => row'[u].playback_revoked_at = None

\* What a commit leaves in the row: the columns it assigned, and the committed ones where it
\* wrote back what it had loaded.
LEMMA SavedRow ==
    ASSUME IInv, NEW s \in Slots, NEW until, NEW revoked, SavesDates(s, until, revoked)
    PROVE  LET t == task[s] IN
           /\ t \in Task /\ t.user \in Users /\ t.was \in Row
           /\ row[t.user] \in Row /\ row'[t.user] \in Row
           /\ row'[t.user].expires_at =
                 IF until = t.was.expires_at THEN row[t.user].expires_at ELSE until
           /\ row'[t.user].playback_revoked_at =
                 IF revoked = t.was.playback_revoked_at
                 THEN row[t.user].playback_revoked_at ELSE revoked
           /\ \A v \in Users \ {t.user} : row'[v] = row[v]
           /\ now' = now
<1>1. task[s] # None /\ task[s].was \in Row /\ now' = now
    BY DEF SavesDates
<1>2. PICK new \in Row : /\ Save(s, new)
                         /\ new.expires_at = until /\ new.playback_revoked_at = revoked
    BY DEF SavesDates
<1>3. task[s] \in Task /\ task[s].user \in Users
    BY <1>1, TaskFacts
<1>4. PICK cur : cur = row[task[s].user]
    OBVIOUS
<1>5. cur # None /\ cur \in Row
    BY <1>2, <1>3, <1>4 DEF Save, IInv, TypeOK
<1>6. PICK m : m = Merge(cur, task[s].was, new)
    OBVIOUS
<1>7. row' = [row EXCEPT ![task[s].user] = m]
    BY <1>2, <1>4, <1>6 DEF Save
<1>8. /\ m \in Row
      /\ m.expires_at = IF until = task[s].was.expires_at THEN cur.expires_at ELSE until
      /\ m.playback_revoked_at = IF revoked = task[s].was.playback_revoked_at
                                 THEN cur.playback_revoked_at ELSE revoked
  <2>1. m \in Row
      BY <1>1, <1>2, <1>5, <1>6, MergeType
  <2>2. /\ m.expires_at = IF new.expires_at = task[s].was.expires_at
                          THEN cur.expires_at ELSE new.expires_at
        /\ m.playback_revoked_at =
              IF new.playback_revoked_at = task[s].was.playback_revoked_at
              THEN cur.playback_revoked_at ELSE new.playback_revoked_at
      BY <1>1, <1>2, <1>5, <1>6 DEF Merge, Row
  <2>3. QED
      BY <1>2, <2>1, <2>2
<1>9. row'[task[s].user] = m /\ \A v \in Users \ {task[s].user} : row'[v] = row[v]
    BY <1>3, <1>7 DEF IInv, TypeOK
<1>10. QED
    BY <1>1, <1>3, <1>4, <1>5, <1>8, <1>9

\* Of all commits only a redemption moves a date.
LEMMA CommitKeepsDates ==
    ASSUME IInv, NEW s \in Slots, Commit(s), ~RedeemCommit(s) PROVE DatesKept
<1>1. ASSUME NEW revoked, SavesDates(s, task[s].was.expires_at, revoked) PROVE DatesKept
    BY <1>1, SavedRow DEF DatesKept
<1>2. CASE ExpireCommit(s) \/ SetStateCommit(s) \/ UpdatePolicyCommit(s) \/ ReconcileCommit(s)
           \/ EnablePortalCommit(s) \/ ClaimCommit(s)
    BY <1>1, <1>2, ExpireSaves, SetStateSaves, UpdatePolicySaves, ReconcileSaves,
       EnablePortalSaves, ClaimSaves
<1>3. CASE ClaimRefused(s) \/ CommitStale(s)
    BY <1>3 DEF ClaimRefused, CommitStale, data, DatesKept
<1>4. CASE DeleteLocalUserData(s)
    BY <1>4 DEF DeleteLocalUserData, DatesKept, IInv, TypeOK
<1>5. QED
    BY <1>2, <1>3, <1>4 DEF Commit

\* Of all commits only that of the expiry job stamps.
LEMMA CommitStampsNothing ==
    ASSUME IInv, NEW s \in Slots, Commit(s), ~ExpireCommit(s) PROVE NoStamp
<1>1. ASSUME NEW until, NEW revoked, SavesDates(s, until, revoked),
             revoked \in {task[s].was.playback_revoked_at, None}
      PROVE  NoStamp
    BY <1>1, SavedRow DEF NoStamp
<1>2. CASE RedeemCommit(s)
    BY <1>1, <1>2, RedeemSaves
<1>3. CASE SetStateCommit(s) \/ UpdatePolicyCommit(s) \/ ReconcileCommit(s)
           \/ EnablePortalCommit(s) \/ ClaimCommit(s)
    BY <1>1, <1>3, SetStateSaves, UpdatePolicySaves, ReconcileSaves, EnablePortalSaves,
       ClaimSaves
<1>4. CASE ClaimRefused(s) \/ CommitStale(s)
    BY <1>4 DEF ClaimRefused, CommitStale, data, NoStamp
<1>5. CASE DeleteLocalUserData(s)
    BY <1>5 DEF DeleteLocalUserData, NoStamp, IInv, TypeOK
<1>6. QED
    BY <1>2, <1>3, <1>4, <1>5 DEF Commit

LEMMA RowRequestStampsNothing ==
    ASSUME IInv, RowRequest PROVE NoStamp
<1> PICK u \in Users, new \in Row : RowUpdate(u, new)
    BY RowRequestUpdates
<1>1. QED
    BY DEF RowUpdate, NoStamp, IInv, TypeOK

\* Of the requests without a call to Emby only the administrator's change moves a date.
LEMMA RowRequestDates ==
    ASSUME IInv, RowRequest, NEW u \in Users, row[u] # None, row'[u] # None,
           row'[u].expires_at # row[u].expires_at
    PROVE  \E t \in 0 .. MaxTime \cup {None} : SetExpiresAt(u, t)
<1> PICK v \in Users : \/ RecordActivationFailure(v)
                       \/ \E t \in 0 .. MaxTime \cup {None} : SetExpiresAt(v, t)
                       \/ DisablePortalLogin(v)
                       \/ \E b \in BOOLEAN : SetUserProtected(v, b)
    BY DEF RowRequest
<1> row[u] \in Row
    BY DEF IInv, TypeOK
<1>1. CASE RecordActivationFailure(v)
  <2>1. PICK r : r = row[v]
      OBVIOUS
  <2>2. PICK new : new = IF r.activation_failed_attempts + 1 < MaxFailures
             THEN [r EXCEPT !.activation_failed_attempts = r.activation_failed_attempts + 1]
             ELSE [r EXCEPT !.activation_failed_attempts = MaxFailures,
                            !.activation_locked = TRUE, !.is_disabled = TRUE,
                            !.playback_enabled = FALSE]
      OBVIOUS
  <2>3. row' = [row EXCEPT ![v] = new] /\ r # None
      BY <1>1, <2>1, <2>2 DEF RecordActivationFailure
  <2>4. r \in Row /\ new.expires_at = r.expires_at
      BY <2>1, <2>2, <2>3 DEF IInv, TypeOK, Row
  <2>5. row'[u].expires_at = row[u].expires_at
      BY <2>1, <2>3, <2>4 DEF IInv, TypeOK
  <2>6. QED
      BY <2>5
<1>2. CASE DisablePortalLogin(v) \/ \E b \in BOOLEAN : SetUserProtected(v, b)
  <2>1. row'[u].expires_at = row[u].expires_at
      BY <1>2 DEF DisablePortalLogin, SetUserProtected, IInv, TypeOK, Row
  <2>2. QED
      BY <2>1
<1>3. ASSUME NEW t \in 0 .. MaxTime \cup {None}, SetExpiresAt(v, t)
      PROVE  SetExpiresAt(u, t)
  <2>1. v = u
      BY <1>3 DEF SetExpiresAt, IInv, TypeOK
  <2>2. QED
      BY <1>3, <2>1
<1>4. QED
    BY <1>1, <1>2, <1>3

\* A step that changes a row otherwise than by a request is a commit.
LEMMA RowChanged ==
    ASSUME [Next]_vars, row' # row, ~RowRequest, ~DeleteServer
    PROVE  \E s \in Slots : Commit(s)
<1>1. \A s \in Slots : ~(JobBegin(s) \/ RequestBegin(s) \/ Await(s) \/ EmbyFault(s))
    BY OthersWriteNothing
<1>2. ~Environment
    BY <1>1 DEF Environment, Tick, Restart, ChangedInEmby, data
<1>3. QED
    BY <1>1, <1>2 DEF Next, vars

-----------------------------------------------------------------------------
\* An expiry date moves only by an administrator's request or by an accepted redemption, which
\* leaves the account at least the code's duration from the moment it was submitted: no sync,
\* claim, revocation, policy change or portal switch writes back the date it had loaded.
THEOREM DateMovedByOrderSafe == Spec => DateMovedByOrder
<1>1. ASSUME IInv, [Next]_vars, NEW u \in Users, row[u] # None, row'[u] # None,
             row'[u].expires_at # row[u].expires_at
      PROVE  \/ \E t \in 0 .. MaxTime \cup {None} : SetExpiresAt(u, t)
             \/ \E s \in Slots : /\ RedeemCommit(s) /\ task[s].user = u
                                 /\ row'[u].expires_at >= task[s].at + Duration
  <2>1. ~DatesKept /\ row' # row
      BY <1>1 DEF DatesKept
  <2>2. CASE RowRequest
      BY <1>1, <2>2, RowRequestDates
  <2>3. CASE ~RowRequest
    <3>1. ~DeleteServer
        BY <1>1 DEF DeleteServer
    <3>2. PICK s \in Slots : RedeemCommit(s)
        BY <1>1, <2>1, <2>3, <3>1, RowChanged, CommitKeepsDates
    <3>3. PICK t : t = task[s]
        OBVIOUS
    <3>4. PICK d : d = (IF t.was.expires_at = None \/ Past(t.was.expires_at, t.at)
                        THEN t.at ELSE t.was.expires_at) + Duration
        OBVIOUS
    <3>5. SavesDates(s, d, None)
        BY <1>1, <3>2, <3>3, <3>4, RedeemSaves
    <3>6. /\ t \in Task /\ t.was \in Row /\ t.user \in Users
          /\ row'[t.user].expires_at = IF d = t.was.expires_at THEN row[t.user].expires_at ELSE d
          /\ \A v \in Users \ {t.user} : row'[v] = row[v]
        BY <1>1, <3>3, <3>5, SavedRow
    <3>7. t.user = u /\ row'[u].expires_at = d
        BY <1>1, <3>6
    <3>8. d >= t.at + Duration
      <4>1. t.at \in Nat /\ t.was.expires_at \in Time /\ Duration \in Nat
          BY <3>6, BoundsAssumption DEF Task, Row
      <4>2. QED
          BY <3>4, <4>1 DEF Past, Time
    <3>9. QED
        BY <3>2, <3>3, <3>7, <3>8
  <2>4. QED
      BY <2>2, <2>3
<1>2. IInv /\ [Next]_vars =>
        [\A u \in Users :
           row[u] # None /\ row'[u] # None /\ row'[u].expires_at # row[u].expires_at
           => \/ \E t \in 0 .. MaxTime \cup {None} : SetExpiresAt(u, t)
              \/ \E s \in Slots : /\ RedeemCommit(s) /\ task[s].user = u
                                  /\ row'[u].expires_at >= task[s].at + Duration]_vars
    BY <1>1
<1>3. QED
    BY <1>2, Invariance, PTL DEF Spec, DateMovedByOrder

\* A revocation is stamped only on an account that has expired, or whose date was moved while
\* the round of process_expirations that had found it expired waited for Emby.
THEOREM StampedOnlyWhenExpiredSafe == Spec => StampedOnlyWhenExpired
<1>1. ASSUME OInv, [Next]_vars, NEW u \in Users,
             row[u] # None, row'[u] # None, row[u].playback_revoked_at = None,
             row'[u].playback_revoked_at # None
      PROVE  Past(row[u].expires_at, now) \/ \E s \in Slots : Moved(s, u)
  <2>1. ~NoStamp /\ row' # row
      BY <1>1 DEF NoStamp
  <2>2. PICK s \in Slots : ExpireCommit(s)
    <3>1. ~RowRequest /\ ~DeleteServer
        BY <1>1, <2>1, RowRequestStampsNothing DEF OInv, DeleteServer
    <3>2. QED
        BY <1>1, <2>1, <3>1, RowChanged, CommitStampsNothing DEF OInv
  <2>3. PICK t : t = task[s]
      OBVIOUS
  <2>4. t # None /\ t.op = "expire" /\ Decided(t)
      BY <1>1, <2>2, <2>3 DEF ExpireCommit, Ready, OInv, DecidedInv
  <2>5. PICK revoked : SavesDates(s, t.was.expires_at, revoked)
      BY <1>1, <2>2, <2>3, ExpireSaves DEF OInv
  <2>6. t \in Task /\ t.was \in Row /\ t.user = u
      BY <1>1, <2>3, <2>5, SavedRow DEF OInv
  <2>7. Past(t.was.expires_at, now)
    <3>1. t.at \in Nat /\ now \in Nat /\ t.was.expires_at \in Time
        BY <1>1, <2>6 DEF Task, Row, OInv, IInv, TypeOK
    <3>2. QED
        BY <2>4, <3>1, PastLater DEF Decided
  <2>8. CASE t.was.expires_at = row[u].expires_at
      BY <2>7, <2>8
  <2>9. CASE t.was.expires_at # row[u].expires_at
      BY <2>3, <2>4, <2>6, <2>7, <2>9 DEF Moved
  <2>10. QED
      BY <2>8, <2>9
<1>2. OInv /\ [Next]_vars =>
        [\A u \in Users :
           row[u] # None /\ row'[u] # None /\ row[u].playback_revoked_at = None
             /\ row'[u].playback_revoked_at # None
           => Past(row[u].expires_at, now) \/ \E s \in Slots : Moved(s, u)]_vars
    BY <1>1
<1>3. OInv /\ [Next]_vars => OInv'
    BY DecidedNext
<1>4. QED
    BY <1>2, <1>3, DecidedInit, PTL DEF Spec, StampedOnlyWhenExpired

\* A purge deletes an account only for what it had found true of it: while the row keeps the
\* columns it was judged by, a protected, activated or renewed account is never deleted,
\* however long the deletion waited for the lock and for Emby.
THEOREM PurgedOnlyIfDueSafe == Spec => PurgedOnlyIfDue
<1>1. ASSUME OInv, NEW s \in Slots, task[s] # None, DeleteLocalUserData(s),
             row[task[s].user] # None
      PROVE  LET t == task[s]  r == row[task[s].user] IN
             /\ t.op \in DeleteOps /\ r.is_protected = t.was.is_protected => ~r.is_protected
             /\ t.op = "purge_inactive" /\ r.activated = t.was.activated => ~r.activated
             /\ t.op = "purge_expired" /\ r.expires_at = t.was.expires_at
                  => r.expires_at = None \/ Past(r.expires_at, now)
  <2>1. Decided(task[s]) /\ task[s].todo = <<>>
      BY <1>1 DEF OInv, DecidedInv, DeleteLocalUserData, Ready
  <2>2. <<>> # <<Acquire, DeleteUser>> /\ "purge_expired" \in DeleteOps
      BY HeadTail DEF DeleteOps
  <2>3. QED
      BY <2>1, <2>2 DEF Decided, Past
<1>2. OInv => [\A s \in Slots :
                 LET t == task[s]  r == row[task[s].user] IN
                 t # None /\ DeleteLocalUserData(s) /\ r # None
                 => /\ t.op \in DeleteOps /\ r.is_protected = t.was.is_protected
                         => ~r.is_protected
                    /\ t.op = "purge_inactive" /\ r.activated = t.was.activated
                         => ~r.activated
                    /\ t.op = "purge_expired" /\ r.expires_at = t.was.expires_at
                         => r.expires_at = None \/ Past(r.expires_at, now)]_vars
    BY <1>1
<1>3. OInv /\ [Next]_vars => OInv'
    BY DecidedNext
<1>4. QED
    BY <1>2, <1>3, DecidedInit, PTL DEF Spec, PurgedOnlyIfDue
=============================================================================
