---------------------------- MODULE PlaybackProofs ----------------------------
(***************************************************************************)
(* Proofs about the playback history, for every set of servers and         *)
(* accounts, every finite set of sessions and items, every layout (Home,   *)
(* Viewer) and every bound: a deleted account leaves no trace, no second   *)
(* is counted twice, and the tables and caches keep their types.           *)
(*                                                                         *)
(* NoTraceOfDeleted is inductive as it stands.  What carries it is that    *)
(* the two ways into the caches, the entries of a poll and the publication *)
(* of its result, both look at the tombstones at the moment they write,    *)
(* and that a row is only ever made of an entry of the cache.              *)
(*                                                                         *)
(* SecondsCountedOnce is inductive together with the types and SyncCovered *)
(* (what a sync is about to insert is still covered).  It needs arithmetic *)
(* on sums over sets of rows, proved here by induction over finite sets    *)
(* (SmallestFirst, OneMore).                                               *)
(***************************************************************************)
EXTENDS Playback, TLAPS, FiniteSetTheorems

\* A step that sets no tombstone and adds no row, entry or dashboard line keeps the claim.
LEMMA TraceFree ==
    ASSUME NoTraceOfDeleted, deleted' \subseteq deleted,
           live' \subseteq live, Cached' \subseteq Cached, records' \subseteq records
    PROVE  NoTraceOfDeleted'
  BY DEF NoTraceOfDeleted

\* The rows a flush writes belong to accounts whose entries were in the cache.
LEMMA WrittenRows ==
    ASSUME NoTraceOfDeleted, NEW K \in SUBSET Cached,
           NEW u \in deleted, NEW r \in {RecordOf(k, cache[k]) : k \in K}
    PROVE  Viewer[r.session] # u
  <1>1. PICK k \in K : r = RecordOf(k, cache[k])
    OBVIOUS
  <1>2. k \in Cached /\ k \in Keys /\ r.session = k[1]
    BY <1>1 DEF RecordOf, Cached
  <1>3. k \notin KeysOf(u)
    BY <1>2 DEF NoTraceOfDeleted
  <1> QED
    BY <1>2, <1>3 DEF KeysOf

\* A poll opens no entry for a deleted account: what it saw is filtered by the
\* tombstones under the playback lock.
LEMMA PollServerKeepsTraceFree ==
    ASSUME NoTraceOfDeleted, NEW v \in Servers, NEW active \in SUBSET Keys,
           NEW touch \in BOOLEAN, PollServer(v, active, touch)
    PROVE  NoTraceOfDeleted'
  <1> DEFINE R == {RecordOf(k, cache[k]) : k \in Ended(v)}
  <1>1. Ended(v) \subseteq Cached
    BY DEF Ended
  <1>2. deleted' = deleted /\ live' = live
    BY DEF PollServer
  <1>3. records' \subseteq records \cup R
    BY DEF PollServer, Written
  <1>4. cache' = Forget(Recorded(v, active), Ended(v))
    BY DEF PollServer
  <1> SUFFICES ASSUME NEW u \in deleted
               PROVE  /\ KeysOf(u) \cap (live \cup Cached') = {}
                      /\ \A r \in records' : Viewer[r.session] # u
    BY <1>2 DEF NoTraceOfDeleted
  <1>5. ASSUME NEW k \in KeysOf(u) PROVE k \notin Cached'
    <2>1. k \in Keys /\ Viewer[k[1]] = u
      BY <1>5 DEF KeysOf
    <2>2. k \notin Seen(v)
      BY <2>1 DEF Seen
    <2>3. cache[k] = None
      BY <1>5, <2>1 DEF NoTraceOfDeleted, Cached
    <2>4. cache'[k] = None
      BY <1>4, <2>1, <2>2, <2>3 DEF Forget, Recorded
    <2> QED
      BY <2>4 DEF Cached
  <1>6. KeysOf(u) \cap (live \cup Cached') = {}
    BY <1>5 DEF NoTraceOfDeleted
  <1>7. \A r \in R : Viewer[r.session] # u
    BY <1>1, WrittenRows
  <1>8. \A r \in records' : Viewer[r.session] # u
    BY <1>3, <1>7 DEF NoTraceOfDeleted
  <1> QED
    BY <1>6, <1>8

\* The result of a poll that saw an account before its deletion is published without it.
LEMMA PublishKeepsTraceFree ==
    ASSUME NoTraceOfDeleted, Publish
    PROVE  NoTraceOfDeleted'
  <1>1. deleted' = deleted /\ records' = records /\ cache' = cache
    BY DEF Publish, tables
  <1>2. live' \subseteq live \cup {k \in poll.live : Viewer[k[1]] \notin deleted}
    BY DEF Publish
  <1>3. \A u \in deleted : KeysOf(u) \cap live' = {}
    BY <1>2 DEF NoTraceOfDeleted, KeysOf
  <1> QED
    BY <1>1, <1>3 DEF NoTraceOfDeleted, Cached

\* A deletion takes the account's rows, entries and dashboard lines with it.
LEMMA DeleteUserKeepsTraceFree ==
    ASSUME NoTraceOfDeleted, NEW u \in Users, DeleteUser(u)
    PROVE  NoTraceOfDeleted'
  <1>1. /\ records' = {r \in records : Viewer[r.session] # u}
        /\ deleted' = deleted \cup {u}
        /\ cache' = Forget(cache, KeysOf(u))
        /\ live' = live \ KeysOf(u)
    BY DEF DeleteUser
  <1>2. Cached' \subseteq Cached \ KeysOf(u)
    BY <1>1 DEF Cached, Forget
  <1> SUFFICES ASSUME NEW d \in deleted'
               PROVE  /\ KeysOf(d) \cap (live' \cup Cached') = {}
                      /\ \A r \in records' : Viewer[r.session] # d
    BY DEF NoTraceOfDeleted
  <1>3. CASE d = u
    BY <1>1, <1>2, <1>3
  <1>4. CASE d \in deleted
    BY <1>1, <1>2, <1>4 DEF NoTraceOfDeleted
  <1> QED
    BY <1>1, <1>3, <1>4

\* A new process has no tombstone, and none of the caches either.
LEMMA NewProcessKeepsTraceFree ==
    ASSUME NewProcess
    PROVE  NoTraceOfDeleted'
  BY DEF NewProcess, NoTraceOfDeleted

\* Every other step leaves the tombstones or lifts one, and adds to none of the three.
LEMMA OtherKeepsTraceFree ==
    ASSUME NoTraceOfDeleted,
           \/ \E s \in Sessions, i \in Items \cup {None} : Play(s, i)
           \/ PollStart \/ PollLock \/ PollEnd
           \/ \E v \in Servers, touch \in BOOLEAN : PollServerFails(v, touch)
           \/ \E v \in Servers : DeleteServer(v) \/ ToggleServer(v)
           \/ \E u \in Users : SyncFinds(u)
           \/ SyncInserts
           \/ \E r \in records : PurgeOldHistory(r)
           \/ UNCHANGED vars
    PROVE  NoTraceOfDeleted'
  <1>1. deleted' \subseteq deleted /\ live' = live /\ cache' = cache
        /\ records' \subseteq records
    BY DEF Play, PollStart, PollLock, PollEnd, PollServerFails, DeleteServer, ToggleServer,
           SyncFinds, SyncInserts, PurgeOldHistory, tables, memory, vars
  <1> QED
    BY <1>1, TraceFree DEF Cached

\* A deleted account leaves no trace: no history row, no open cache entry and no line of
\* the dashboard, whatever poll was under way when it was deleted, until a sync finds the
\* account again or the process restarts (_delete_local_user_data, _record_playback,
\* _flush_playback_entries, replace_live_sessions).
THEOREM NoTraceSafe == Spec => []NoTraceOfDeleted
  <1>1. Init => NoTraceOfDeleted
    BY DEF Init, NoTraceOfDeleted
  <1>2. NoTraceOfDeleted /\ [Next]_vars => NoTraceOfDeleted'
    <2> SUFFICES ASSUME NoTraceOfDeleted, [Next]_vars PROVE NoTraceOfDeleted'
      OBVIOUS
    <2>1. CASE \E v \in Servers, active \in SUBSET Keys, touch \in BOOLEAN :
                   PollServer(v, active, touch)
      BY <2>1, PollServerKeepsTraceFree
    <2>2. CASE Publish
      BY <2>2, PublishKeepsTraceFree
    <2>3. CASE \E u \in Users : DeleteUser(u)
      BY <2>3, DeleteUserKeepsTraceFree
    <2>4. CASE Shutdown \/ Crash
      BY <2>4, NewProcessKeepsTraceFree DEF Shutdown, Crash
    <2>5. CASE \/ \E s \in Sessions, i \in Items \cup {None} : Play(s, i)
               \/ PollStart \/ PollLock \/ PollEnd
               \/ \E v \in Servers, touch \in BOOLEAN : PollServerFails(v, touch)
               \/ \E v \in Servers : DeleteServer(v) \/ ToggleServer(v)
               \/ \E u \in Users : SyncFinds(u)
               \/ SyncInserts
               \/ \E r \in records : PurgeOldHistory(r)
               \/ UNCHANGED vars
      BY <2>5, OtherKeepsTraceFree
    <2> QED
      BY <2>1, <2>2, <2>3, <2>4, <2>5 DEF Next, PollStep
  <1> QED
    BY <1>1, <1>2, PTL DEF Spec

-----------------------------------------------------------------------------
\* Sums over finite sets.

\* What holds of a set as soon as it holds of its smaller subsets holds of it.
LEMMA SmallestFirst ==
    ASSUME NEW S, IsFiniteSet(S), NEW F,
           \A T \in SUBSET S : (\A U \in SUBSET T : U # T => U \in F) => T \in F
    PROVE  S \in F
  <1> DEFINE Bad == {T \in SUBSET S : T \notin F}
  <1>1. SUFFICES ASSUME Bad # {} PROVE FALSE
    OBVIOUS
  <1>2. Bad \subseteq FiniteSubsetsOf(S)
    BY FS_Subset DEF FiniteSubsetsOf
  <1>3. PICK T \in Bad : \A U \in Bad : ~(<<U, T>> \in StrictSubsetOrdering(S))
    <2> HIDE DEF Bad
    <2> QED BY <1>1, <1>2, FS_StrictSubsetOrderingWellFounded, WFMin
  <1>4. ASSUME NEW U \in SUBSET T, U # T PROVE U \in F
    BY <1>3, <1>4 DEF StrictSubsetOrdering
  <1> QED
    BY <1>3, <1>4

\* The same, one element at a time.
LEMMA OneMore ==
    ASSUME NEW S, IsFiniteSet(S), NEW F, {} \in F,
           \A T \in SUBSET S, x \in S : T \in F /\ x \notin T => T \cup {x} \in F
    PROVE  S \in F
  <1>1. ASSUME NEW T \in SUBSET S, \A U \in SUBSET T : U # T => U \in F
        PROVE  T \in F
    <2>1. CASE T = {}
      BY <2>1
    <2>2. CASE T # {}
      <3>1. PICK x \in T : TRUE
        BY <2>2
      <3>2. T \ {x} \in F /\ x \in S /\ x \notin T \ {x} /\ (T \ {x}) \cup {x} = T
        BY <1>1
      <3> QED BY <3>2
    <2> QED BY <2>1, <2>2
  <1> QED
    BY <1>1, SmallestFirst

Pick(T) == CHOOSE x \in T : TRUE

\* The function that SecondsOf folds with, and its value.
Sums(f, S) ==
    f = [T \in SUBSET S |-> IF T = {} THEN 0 ELSE Pick(T).seconds + f[T \ {Pick(T)}]]

Total(S) == (CHOOSE f : Sums(f, S))[S]

LEMMA SecondsTotal ==
    ASSUME NEW R, NEW u PROVE SecondsOf(R, u) = Total({r \in R : Viewer[r.session] = u})
  BY DEF SecondsOf, Total, MapThenSumSet, MapThenFoldSet, Sums, Pick

LEMMA SumsAgree ==
    ASSUME NEW S, NEW f, Sums(f, S), NEW T \in SUBSET S, IsFiniteSet(T), NEW g, Sums(g, T)
    PROVE  f[T] = g[T]
  <1> DEFINE F == {U \in SUBSET T : f[U] = g[U]}
  <1>1. ASSUME NEW U \in SUBSET T, \A V \in SUBSET U : V # U => V \in F
        PROVE  U \in F
    <2>1. CASE U = {}
      BY <2>1 DEF Sums
    <2>2. CASE U # {}
      <3>1. Pick(U) \in U
        BY <2>2 DEF Pick
      <3>2. U \ {Pick(U)} \in F
        BY <1>1, <3>1
      <3>3. f[U] = Pick(U).seconds + f[U \ {Pick(U)}]
        BY <2>2 DEF Sums
      <3>4. g[U] = Pick(U).seconds + g[U \ {Pick(U)}]
        BY <2>2 DEF Sums
      <3> QED BY <3>2, <3>3, <3>4
    <2> QED BY <2>1, <2>2
  <1>2. T \in F
    <2> HIDE DEF F
    <2> QED BY <1>1, SmallestFirst
  <1> QED
    BY <1>2

LEMMA SumsExist == ASSUME NEW S, IsFiniteSet(S) PROVE \E f : Sums(f, S)
  <1> DEFINE F == {T \in SUBSET S : \E f : Sums(f, T)}
  <1>1. ASSUME NEW T \in SUBSET S, \A U \in SUBSET T : U # T => U \in F
        PROVE  T \in F
    <2> DEFINE g == [U \in SUBSET T |-> IF U = {} THEN 0
                                        ELSE Pick(U).seconds + Total(U \ {Pick(U)})]
    <2>1. ASSUME NEW U \in SUBSET T, U # {}
          PROVE  /\ U \ {Pick(U)} \in SUBSET T
                 /\ U \ {Pick(U)} # T
                 /\ g[U \ {Pick(U)}] = Total(U \ {Pick(U)})
      <3>1. Pick(U) \in U
        BY <2>1 DEF Pick
      <3> DEFINE V == U \ {Pick(U)}
                 f == CHOOSE h : Sums(h, V)
      <3>2. V \in SUBSET T /\ V # T
        BY <3>1
      <3>3. Sums(f, V)
        BY <1>1, <3>2
      <3>4. Total(V) = f[V]
        BY DEF Total
      <3>5. CASE V = {}
        BY <3>2, <3>3, <3>4, <3>5 DEF Sums
      <3>6. CASE V # {}
        <4> DEFINE W == V \ {Pick(V)}
                   h == CHOOSE k : Sums(k, W)
        <4>1. Pick(V) \in V
          BY <3>6 DEF Pick
        <4>2. W \in SUBSET V /\ W \in SUBSET T /\ W # T
          BY <3>2, <4>1
        <4>3. Sums(h, W)
          BY <1>1, <4>2
        <4>4. IsFiniteSet(W)
          BY <4>2, FS_Subset
        <4>5. f[W] = h[W]
          <5> HIDE DEF f, h, V, W
          <5> QED BY <3>3, <4>2, <4>3, <4>4, SumsAgree
        <4>6. Total(W) = h[W]
          BY DEF Total
        <4>7. f[V] = Pick(V).seconds + f[W]
          BY <3>3, <3>6 DEF Sums
        <4>8. g[V] = Pick(V).seconds + Total(W)
          BY <3>2, <3>6
        <4> QED BY <3>2, <3>4, <4>5, <4>6, <4>7, <4>8
      <3> QED BY <3>2, <3>5, <3>6
    <2>2. Sums(g, T)
      <3>1. ASSUME NEW U \in SUBSET T
            PROVE  g[U] = IF U = {} THEN 0 ELSE Pick(U).seconds + g[U \ {Pick(U)}]
        BY <2>1
      <3>2. g = [U \in SUBSET T |-> g[U]]
        OBVIOUS
      <3> HIDE DEF g
      <3> QED BY <3>1, <3>2 DEF Sums
    <2> QED BY <2>2
  <1>2. S \in F
    <2> HIDE DEF F
    <2> QED BY <1>1, SmallestFirst
  <1> QED
    BY <1>2

LEMMA TotalPicks ==
    ASSUME NEW S, IsFiniteSet(S)
    PROVE  /\ Total({}) = 0
           /\ S # {} => /\ Pick(S) \in S
                        /\ Total(S) = Pick(S).seconds + Total(S \ {Pick(S)})
  <1> DEFINE f == CHOOSE g : Sums(g, S)
             e == CHOOSE g : Sums(g, {})
  <1>1. Sums(e, {}) /\ Total({}) = e[{}]
    BY SumsExist, FS_EmptySet DEF Total
  <1>2. Total({}) = 0
    BY <1>1 DEF Sums
  <1>3. Sums(f, S) /\ Total(S) = f[S]
    BY SumsExist DEF Total
  <1>4. CASE S # {}
    <2> DEFINE T == S \ {Pick(S)}
               h == CHOOSE g : Sums(g, T)
    <2>1. Pick(S) \in S /\ T \in SUBSET S /\ IsFiniteSet(T)
      BY <1>4, FS_Subset DEF Pick
    <2>2. Sums(h, T) /\ Total(T) = h[T]
      BY <2>1, SumsExist DEF Total
    <2>3. f[T] = h[T]
      <3> HIDE DEF f, h, T
      <3> QED BY <1>3, <2>1, <2>2, SumsAgree
    <2>4. f[S] = Pick(S).seconds + f[T]
      BY <1>3, <1>4 DEF Sums
    <2> QED BY <1>2, <1>3, <2>1, <2>2, <2>3, <2>4
  <1> QED
    BY <1>2, <1>4


\* What is summed up are counts of seconds.
Counts(S) == IsFiniteSet(S) /\ \A r \in S : r.seconds \in Nat

LEMMA CountsOfSome == ASSUME NEW S, Counts(S), NEW T \in SUBSET S PROVE Counts(T)
  BY FS_Subset DEF Counts

LEMMA TotalNat == ASSUME NEW S, Counts(S) PROVE Total(S) \in Nat
  <1> DEFINE F == {T \in SUBSET S : Total(T) \in Nat}
  <1>1. ASSUME NEW T \in SUBSET S, \A U \in SUBSET T : U # T => U \in F
        PROVE  T \in F
    <2>1. IsFiniteSet(T)
      BY FS_Subset DEF Counts
    <2>2. CASE T = {}
      <3>1. Total({}) = 0
        BY <2>1, TotalPicks
      <3> QED BY <2>2, <3>1
    <2>3. CASE T # {}
      <3>1. Pick(T) \in T /\ Total(T) = Pick(T).seconds + Total(T \ {Pick(T)})
        BY <2>1, <2>3, TotalPicks
      <3>2. T \ {Pick(T)} \in F
        BY <1>1, <3>1
      <3>3. Pick(T).seconds \in Nat
        BY <3>1 DEF Counts
      <3> QED BY <3>1, <3>2, <3>3
    <2> QED BY <2>2, <2>3
  <1>2. S \in F
    <2> HIDE DEF F
    <2> QED BY <1>1, SmallestFirst DEF Counts
  <1> QED
    BY <1>2

\* The order of the summands does not matter.
LEMMA TotalTakes ==
    ASSUME NEW S, Counts(S), NEW x \in S
    PROVE  Total(S) = x.seconds + Total(S \ {x})
  <1> DEFINE F == {T \in SUBSET S : \A y \in T : Total(T) = y.seconds + Total(T \ {y})}
  <1>1. ASSUME NEW T \in SUBSET S, \A U \in SUBSET T : U # T => U \in F, NEW y \in T
        PROVE  Total(T) = y.seconds + Total(T \ {y})
    <2> DEFINE p == Pick(T)
               V == T \ {p, y}
    <2>1. IsFiniteSet(T)
      BY FS_Subset DEF Counts
    <2>2. p \in T /\ Total(T) = p.seconds + Total(T \ {p})
      BY <2>1, TotalPicks
    <2>3. CASE y = p
      BY <2>2, <2>3
    <2>4. CASE y # p
      <3>1. T \ {p} \in F /\ y \in T \ {p} /\ (T \ {p}) \ {y} = V
        BY <1>1, <2>2, <2>4
      <3>2. T \ {y} \in F /\ p \in T \ {y} /\ (T \ {y}) \ {p} = V
        BY <1>1, <2>2, <2>4
      <3>3. Total(T \ {p}) = y.seconds + Total(V)
        BY <3>1
      <3>4. Total(T \ {y}) = p.seconds + Total(V)
        BY <3>2
      <3>5. Counts(V)
        BY CountsOfSome
      <3>6. p.seconds \in Nat /\ y.seconds \in Nat /\ Total(V) \in Nat
        BY <2>2, <3>5, TotalNat DEF Counts
      <3> HIDE DEF p, V
      <3> QED BY <2>2, <3>3, <3>4, <3>6
    <2> QED BY <2>3, <2>4
  <1>2. S \in F
    <2>1. \A T \in SUBSET S : (\A U \in SUBSET T : U # T => U \in F) => T \in F
      BY <1>1
    <2> HIDE DEF F
    <2> QED BY <2>1, SmallestFirst DEF Counts
  <1> QED
    BY <1>2

LEMMA TotalAdds ==
    ASSUME NEW S, NEW x, x \notin S, Counts(S \cup {x})
    PROVE  Total(S \cup {x}) = x.seconds + Total(S)
  <1>1. (S \cup {x}) \ {x} = S
    OBVIOUS
  <1> QED
    BY <1>1, TotalTakes

LEMMA TotalSplits ==
    ASSUME NEW S, Counts(S), NEW T \in SUBSET S
    PROVE  Total(S) = Total(T) + Total(S \ T)
  <1> DEFINE F == {U \in SUBSET T : Total(S) = Total(U) + Total(S \ U)}
  <1>1. {} \in F
    <2>1. S \ {} = S /\ Total({}) = 0 /\ Total(S) \in Nat
      BY TotalPicks, TotalNat DEF Counts
    <2> QED BY <2>1
  <1>2. ASSUME NEW U \in SUBSET T, NEW x \in T, U \in F, x \notin U
        PROVE  U \cup {x} \in F
    <2>1. Counts(U \cup {x}) /\ Counts(S \ U) /\ Counts(U) /\ Counts(S \ (U \cup {x}))
      BY CountsOfSome
    <2>2. x \in S \ U /\ (S \ U) \ {x} = S \ (U \cup {x})
      BY <1>2
    <2>3. Total(S \ U) = x.seconds + Total(S \ (U \cup {x}))
      BY <2>1, <2>2, TotalTakes
    <2>4. Total(U \cup {x}) = x.seconds + Total(U)
      BY <1>2, <2>1, TotalAdds
    <2>5. /\ x.seconds \in Nat /\ Total(U) \in Nat
          /\ Total(S \ (U \cup {x})) \in Nat
      BY <2>1, TotalNat DEF Counts
    <2> QED BY <1>2, <2>3, <2>4, <2>5
  <1>3. T \in F
    <2>1. IsFiniteSet(T)
      BY FS_Subset DEF Counts
    <2> HIDE DEF F
    <2> QED BY <1>1, <1>2, <2>1, OneMore
  <1> QED
    BY <1>3

\* Fewer rows are no more seconds.
LEMMA TotalGrows ==
    ASSUME NEW S, Counts(S), NEW T \in SUBSET S PROVE Total(T) <= Total(S)
  <1>1. Total(T) \in Nat /\ Total(S \ T) \in Nat
    BY CountsOfSome, TotalNat
  <1> QED
    BY <1>1, TotalSplits

LEMMA TotalJoins ==
    ASSUME NEW S, Counts(S), NEW T, Counts(T)
    PROVE  Counts(S \cup T) /\ Total(S \cup T) <= Total(S) + Total(T)
  <1>1. Counts(S \cup T)
    BY FS_Union DEF Counts
  <1>2. Total(S \cup T) = Total(S) + Total((S \cup T) \ S)
    BY <1>1, TotalSplits
  <1>3. Total((S \cup T) \ S) <= Total(T)
    BY TotalGrows
  <1>4. Total(S) \in Nat /\ Total(T) \in Nat /\ Total((S \cup T) \ S) \in Nat
    BY <1>1, CountsOfSome, TotalNat
  <1> QED
    BY <1>1, <1>2, <1>3, <1>4


-----------------------------------------------------------------------------
\* The types.

LEMMA KeysFinite == ASSUME NEW K \in SUBSET Keys PROVE IsFiniteSet(K)
  BY FiniteAssumption, FS_Product, FS_Subset DEF Keys

\* The rows that entries become.
LEMMA RowsOfEntries ==
    ASSUME process \in Nat, NEW K \in SUBSET Keys, NEW C, \A k \in K : C[k] \in Entry
    PROVE  /\ {RecordOf(k, C[k]) : k \in K} \subseteq Record
           /\ Counts({RecordOf(k, C[k]) : k \in K})
  <1> DEFINE R == {RecordOf(k, C[k]) : k \in K}
  <1>1. ASSUME NEW k \in K PROVE RecordOf(k, C[k]) \in Record
    <2>1. k[1] \in Sessions /\ k[2] \in Items
      BY DEF Keys
    <2> QED BY <2>1 DEF RecordOf, Record, Entry
  <1>2. R \subseteq Record
    BY <1>1
  <1>3. IsFiniteSet(R)
    <2> DEFINE f == [k \in K |-> RecordOf(k, C[k])]
    <2>1. f \in Surjection(K, R)
      BY DEF Surjection
    <2> HIDE DEF R, f
    <2> QED BY <2>1, KeysFinite, FS_Surjection
  <1> QED
    BY <1>2, <1>3 DEF Counts, Record

LEMMA CountsOfUser ==
    ASSUME NEW R, Counts(R), NEW u PROVE Counts({r \in R : Viewer[r.session] = u})
  BY CountsOfSome

LEMMA SecondsNat == ASSUME NEW R, Counts(R), NEW u PROVE SecondsOf(R, u) \in Nat
  BY CountsOfUser, TotalNat, SecondsTotal

Typed == TypeOK /\ IsFiniteSet(records)

LEMMA TypedCounts == ASSUME Typed PROVE Counts(records)
  BY DEF Typed, TypeOK, Counts, Record

LEMMA CachedEntries == ASSUME Typed PROVE Cached \subseteq Keys /\ \A k \in Cached : cache[k] \in Entry
  BY DEF Typed, TypeOK, Cached

LEMMA WrittenTyped ==
    ASSUME Typed, NEW R, R \subseteq Record, Counts(R), Written(R)
    PROVE  /\ account' \in [Users -> Nat \cup {None}]
           /\ records' \subseteq Record /\ IsFiniteSet(records')
  <1>1. ASSUME NEW u \in Users, account[u] # None PROVE account[u] + SecondsOf(R, u) \in Nat
    <2>1. account[u] \in Nat
      BY <1>1 DEF Typed, TypeOK
    <2> QED BY <2>1, SecondsNat
  <1>2. account' \in [Users -> Nat \cup {None}]
    BY <1>1 DEF Written
  <1>3. records' = records \cup R
    BY DEF Written
  <1>4. IsFiniteSet(records')
    BY <1>3, FS_Union DEF Typed, Counts
  <1> QED
    BY <1>2, <1>3, <1>4 DEF Typed, TypeOK

LEMMA RecordedTyped ==
    ASSUME Typed, NEW v, NEW active, NEW k \in Keys
    PROVE  Recorded(v, active)[k] \in Entry \cup {None}
  <1>1. cache[k] \in Entry \cup {None} /\ generations[k] \in Nat
    BY DEF Typed, TypeOK
  <1>2. [generation |-> generations[k] + 1, seconds |-> 0] \in Entry
    BY <1>1 DEF Entry
  <1>3. cache[k] \in Entry => [cache[k] EXCEPT !.seconds = @ + 1] \in Entry
    BY DEF Entry
  <1> QED
    BY <1>1, <1>2, <1>3 DEF Recorded

LEMMA PollServerTyped ==
    ASSUME Typed, NEW v \in Servers, NEW active \in SUBSET Keys,
           NEW touch \in BOOLEAN, PollServer(v, active, touch)
    PROVE  Typed'
  <1> DEFINE R == {RecordOf(k, cache[k]) : k \in Ended(v)}
  <1>1. Ended(v) \subseteq Keys /\ \A k \in Ended(v) : cache[k] \in Entry
    BY CachedEntries DEF Ended
  <1>2. R \subseteq Record /\ Counts(R)
    <2>1. process \in Nat
      BY DEF Typed, TypeOK
    <2> QED BY <1>1, <2>1, RowsOfEntries, Zenon
  <1>3. /\ account' \in [Users -> Nat \cup {None}]
        /\ records' \subseteq Record /\ IsFiniteSet(records')
    <2>1. Written(R) \/ UNCHANGED <<records, account>>
      BY DEF PollServer
    <2> QED BY <1>2, <2>1, WrittenTyped DEF Typed, TypeOK
  <1>4. cache' \in [Keys -> Entry \cup {None}]
    <2>1. cache' = [k \in Keys |-> IF k \in Ended(v) THEN None ELSE Recorded(v, active)[k]]
      BY DEF PollServer, Forget
    <2> QED BY <2>1, RecordedTyped
  <1>5. generations' \in [Keys -> Nat]
    BY DEF PollServer, Typed, TypeOK
  <1>6. watched' \in [Users -> Nat]
    <2>1. ASSUME NEW u \in Users PROVE Cardinality(active \cap KeysOf(u)) \in Nat
      BY KeysFinite, FS_CardinalityType
    <2>2. watched' = [u \in Users |-> watched[u] + Cardinality(active \cap KeysOf(u))]
      BY DEF PollServer
    <2> QED BY <2>1, <2>2 DEF Typed, TypeOK
  <1>7. ended' \subseteq Record
    BY <1>2 DEF PollServer, Typed, TypeOK
  <1>8. poll' \in Poll \cup {None}
    <2>1. poll \in Poll /\ Seen(v) \subseteq Keys
      BY DEF PollServer, Locked, Typed, TypeOK, Seen
    <2>2. (IF Flushes(v) THEN {} ELSE Dirty(v, touch)) \subseteq Servers
      BY <2>1 DEF Dirty, Poll
    <2> DEFINE d == IF Flushes(v) THEN {} ELSE Dirty(v, touch)
    <2>3. poll' \in {None, [poll EXCEPT !.todo = @ \ {v}, !.ok = @ \cup {v}, !.dirty = d,
                                       !.live = @ \cup Seen(v)]}
      BY DEF PollServer
    <2> HIDE DEF d
    <2>4. [poll EXCEPT !.todo = @ \ {v}, !.ok = @ \cup {v}, !.dirty = d,
                      !.live = @ \cup Seen(v)] \in Poll
      BY <2>1, <2>2 DEF Poll, d
    <2> QED BY <2>3, <2>4
  <1>9. UNCHANGED <<process, playing, server, deleted, live, sync, calls>>
    BY DEF PollServer
  <1> QED
    BY <1>3, <1>4, <1>5, <1>6, <1>7, <1>8, <1>9 DEF Typed, TypeOK

LEMMA NewProcessTyped ==
    ASSUME Typed, NewProcess, account' \in [Users -> Nat \cup {None}],
           records' \subseteq Record, IsFiniteSet(records'), ended' \subseteq Record,
           calls' \in Nat, watched' = watched
    PROVE  Typed'
  BY DEF Typed, TypeOK, NewProcess

LEMMA ShutdownTyped == ASSUME Typed, Shutdown PROVE Typed'
  <1> DEFINE K == {c \in Cached : Viewer[c[1]] \notin deleted}
             R == {RecordOf(k, cache[k]) : k \in K}
  <1>1. R \subseteq Record /\ Counts(R)
    <2>1. process \in Nat
      BY DEF Typed, TypeOK
    <2>2. K \in SUBSET Keys /\ \A k \in K : cache[k] \in Entry
      BY CachedEntries
    <2> HIDE DEF K
    <2> QED BY <2>1, <2>2, RowsOfEntries, Zenon
  <1>2. Written(R) \/ UNCHANGED <<records, account>>
    BY DEF Shutdown
  <1>3. /\ account' \in [Users -> Nat \cup {None}]
        /\ records' \subseteq Record /\ IsFiniteSet(records')
    BY <1>1, <1>2, WrittenTyped DEF Typed, TypeOK
  <1>4. ended' \subseteq Record
    BY <1>1 DEF Shutdown, Typed, TypeOK
  <1>5. calls' \in Nat /\ watched' = watched /\ NewProcess
    BY DEF Shutdown, Spend, Typed, TypeOK
  <1> QED
    BY <1>3, <1>4, <1>5, NewProcessTyped


LEMMA SyncTyped == ASSUME Typed, NEW u \in Users, SyncFinds(u) PROVE Typed'
  <1>1. SecondsOf(records, u) \in Nat
    BY TypedCounts, SecondsNat
  <1>2. sync' \in [user : Users, sum : Nat]
    BY <1>1 DEF SyncFinds
  <1> QED
    BY <1>2 DEF SyncFinds, Spend, tables, Typed, TypeOK

LEMMA PollTyped ==
    ASSUME Typed,
           \/ PollStart \/ PollLock \/ PollEnd \/ Publish
           \/ \E v \in Servers, touch \in BOOLEAN : PollServerFails(v, touch)
    PROVE  Typed'
  <1>1. poll' \in Poll \cup {None}
    <2>1. CASE PollStart
      BY <2>1 DEF PollStart, Poll
    <2>2. CASE PollLock \/ PollEnd \/ Publish
      <3>1. poll \in Poll
        BY <2>2 DEF PollLock, PollEnd, Publish, Locked, Typed, TypeOK
      <3> QED BY <2>2, <3>1 DEF PollLock, PollEnd, Publish, Poll
    <2>3. ASSUME NEW v \in Servers, NEW touch \in BOOLEAN, PollServerFails(v, touch)
          PROVE  poll' \in Poll \cup {None}
      <3>1. poll \in Poll /\ Dirty(v, touch) \subseteq Servers
        BY <2>3 DEF PollServerFails, Locked, Typed, TypeOK, Dirty, Poll
      <3> QED BY <2>3, <3>1 DEF PollServerFails, Poll
    <2> QED BY <2>1, <2>2, <2>3
  <1>2. live' \subseteq Keys
    <2>1. CASE Publish
      BY <2>1 DEF Publish, Typed, TypeOK, Poll
    <2>2. CASE ~Publish
      BY <2>2 DEF PollStart, PollLock, PollEnd, PollServerFails, memory, Typed, TypeOK
    <2> QED BY <2>1, <2>2
  <1>3. calls' \in Nat
    <2>1. CASE PollStart \/ PollLock \/ PollEnd \/ Publish
      BY <2>1, Zenon DEF PollStart, PollLock, PollEnd, Publish, Typed, TypeOK
    <2>2. CASE \E v \in Servers, touch \in BOOLEAN : PollServerFails(v, touch)
      <3>1. Spend
        BY <2>2, Zenon DEF PollServerFails
      <3> QED BY <3>1 DEF Spend, Typed, TypeOK
    <2> QED BY <2>1, <2>2
  <1>4. UNCHANGED <<process, playing, server, account, records, cache, generations, deleted, sync,
                    watched, ended>>
    BY DEF PollStart, PollLock, PollEnd, Publish, PollServerFails, tables, memory
  <1> QED
    BY <1>1, <1>2, <1>3, <1>4 DEF Typed, TypeOK

LEMMA TypedInit == Init => Typed
  <1> SUFFICES ASSUME Init PROVE Typed
    OBVIOUS
  <1>1. IsFiniteSet(records)
    BY FS_EmptySet DEF Init
  <1> QED
    BY <1>1 DEF Init, Typed, TypeOK

LEMMA TypedNext == Typed /\ [Next]_vars => Typed'
  <1> SUFFICES ASSUME Typed, [Next]_vars PROVE Typed'
    OBVIOUS
  <1>1. ASSUME NEW s \in Sessions, NEW i \in Items \cup {None}, Play(s, i) PROVE Typed'
    BY <1>1 DEF Play, Spend, tables, memory, Typed, TypeOK
  <1>2. ASSUME NEW v \in Servers, DeleteServer(v) PROVE Typed'
    <2>1. records' \subseteq records /\ IsFiniteSet(records')
      BY <1>2, FS_Subset DEF DeleteServer, Typed
    <2> QED BY <1>2, <2>1 DEF DeleteServer, Spend, memory, Typed, TypeOK
  <1>3. ASSUME NEW v \in Servers, ToggleServer(v) PROVE Typed'
    BY <1>3 DEF ToggleServer, Spend, memory, Typed, TypeOK
  <1>4. ASSUME NEW u \in Users, DeleteUser(u) PROVE Typed'
    <2>1. records' \subseteq records /\ IsFiniteSet(records')
      BY <1>4, FS_Subset DEF DeleteUser, Typed
    <2>2. cache' \in [Keys -> Entry \cup {None}]
      BY <1>4 DEF DeleteUser, Forget, Typed, TypeOK
    <2> QED BY <1>4, <2>1, <2>2 DEF DeleteUser, Spend, Typed, TypeOK
  <1>5. CASE SyncInserts
    <2>1. sync \in [user : Users, sum : Nat]
      BY <1>5 DEF SyncInserts, Typed, TypeOK
    <2> QED BY <1>5, <2>1 DEF SyncInserts, memory, Typed, TypeOK
  <1>6. ASSUME NEW r \in records, PurgeOldHistory(r) PROVE Typed'
    <2>1. IsFiniteSet(records')
      BY <1>6, FS_Subset DEF PurgeOldHistory, Typed
    <2> QED BY <1>6, <2>1 DEF PurgeOldHistory, memory, Typed, TypeOK
  <1>7. CASE Crash
    BY <1>7, NewProcessTyped DEF Crash, Spend, Typed, TypeOK
  <1>8. CASE UNCHANGED vars
    BY <1>8 DEF vars, Typed, TypeOK
  <1> QED
    BY <1>1, <1>2, <1>3, <1>4, <1>5, <1>6, <1>7, <1>8, SyncTyped, PollTyped, PollServerTyped,
       ShutdownTyped DEF Next, PollStep

\* The tables, the caches and the poll under way keep their shape; in particular no
\* account's total becomes anything but a number.
THEOREM TypesHold == Spec => []TypeOK
  <1>1. Typed => TypeOK
    BY DEF Typed
  <1> QED
    BY <1>1, TypedInit, TypedNext, PTL DEF Spec


-----------------------------------------------------------------------------
\* Every second once.

\* What an account has in the tables, and what its open entries hold.
RowOf(u) == IF account[u] = None THEN SecondsOf(records, u) ELSE account[u]

Entries(C, K) == {RecordOf(k, C[k]) : k \in K}

Open(u) == SecondsOf(Entries(cache, Cached), u)

\* The sum a sync carries is still covered when it is inserted: until then the account
\* has no row and is not deleted again.
SyncCovered ==
    \A u \in Users : sync # None /\ sync.user = u => /\ account[u] = None
                                                   /\ sync.sum + Open(u) <= watched[u]

OnceInv == SecondsCountedOnce /\ SyncCovered

LEMMA OnceMeans == SecondsCountedOnce <=> \A u \in Users : RowOf(u) + Open(u) <= watched[u]
  BY DEF SecondsCountedOnce, RowOf, Open, Entries

LEMMA OpenLater == \A u : Open(u)' = SecondsOf(Entries(cache, Cached)', u)
  BY DEF Open, SecondsOf, MapThenSumSet, MapThenFoldSet

LEMMA RowLater ==
    \A u : RowOf(u)' = IF account'[u] = None THEN SecondsOf(records', u) ELSE account'[u]
  <1>1. \A u : SecondsOf(records, u)' = SecondsOf(records', u)
    BY DEF SecondsOf, MapThenSumSet, MapThenFoldSet
  <1> QED
    BY <1>1 DEF RowOf

LEMMA OnceLater ==
    ASSUME \A u \in Users : RowOf(u)' + Open(u)' <= watched'[u],
           \A u \in Users : sync' # None /\ sync'.user = u
                              => account'[u] = None /\ sync'.sum + Open(u)' <= watched'[u]
    PROVE  OnceInv'
  <1>1. SecondsCountedOnce'
    BY DEF SecondsCountedOnce, RowOf, Open, Entries
  <1>2. SyncCovered'
    BY DEF SyncCovered
  <1> QED
    BY <1>1, <1>2 DEF OnceInv

LEMMA SecondsLess ==
    ASSUME NEW R, Counts(R), NEW Q \in SUBSET R, NEW u
    PROVE  SecondsOf(Q, u) <= SecondsOf(R, u) /\ SecondsOf(Q, u) \in Nat /\ SecondsOf(R, u) \in Nat
  <1>1. Counts({r \in R : Viewer[r.session] = u}) /\ Counts(Q)
    BY CountsOfSome
  <1>2. {r \in Q : Viewer[r.session] = u} \subseteq {r \in R : Viewer[r.session] = u}
    OBVIOUS
  <1> QED
    BY <1>1, <1>2, TotalGrows, SecondsTotal, SecondsNat

LEMMA SecondsJoin ==
    ASSUME NEW R, Counts(R), NEW Q, Counts(Q), NEW u
    PROVE  SecondsOf(R \cup Q, u) <= SecondsOf(R, u) + SecondsOf(Q, u)
  <1> DEFINE A == {r \in R : Viewer[r.session] = u}
             B == {r \in Q : Viewer[r.session] = u}
  <1>1. {r \in R \cup Q : Viewer[r.session] = u} = A \cup B
    OBVIOUS
  <1>2. Counts(A) /\ Counts(B)
    BY CountsOfSome
  <1>3. Total(A \cup B) <= Total(A) + Total(B)
    <2> HIDE DEF A, B
    <2> QED BY <1>2, TotalJoins
  <1> QED
    BY <1>1, <1>3, SecondsTotal

LEMMA OpenCounts == ASSUME Typed PROVE Counts(Entries(cache, Cached))
  <1>1. process \in Nat
    BY DEF Typed, TypeOK
  <1> QED
    BY <1>1, CachedEntries, RowsOfEntries, Zenon DEF Entries

LEMMA NumbersOf ==
    ASSUME Typed, NEW u \in Users
    PROVE  RowOf(u) \in Nat /\ Open(u) \in Nat /\ watched[u] \in Nat
  <1>1. SecondsOf(records, u) \in Nat /\ Open(u) \in Nat
    BY TypedCounts, OpenCounts, SecondsNat DEF Open
  <1>2. account[u] \in Nat \cup {None} /\ watched[u] \in Nat
    BY DEF Typed, TypeOK
  <1> QED
    BY <1>1, <1>2 DEF RowOf

\* A step that counts nothing and writes nothing.
LEMMA OnceKept ==
    ASSUME Typed, OnceInv, UNCHANGED <<process, cache, account, watched, sync>>,
           records' \subseteq records
    PROVE  OnceInv'
  <1>1. \A u : Open(u)' = Open(u)
    <2>1. Entries(cache, Cached)' = Entries(cache, Cached)
      BY DEF Entries, RecordOf, Cached
    <2> QED BY <2>1, OpenLater DEF Open
  <1>2. ASSUME NEW u \in Users PROVE RowOf(u)' + Open(u)' <= watched'[u]
    <2>1. SecondsOf(records', u) <= SecondsOf(records, u) /\ SecondsOf(records', u) \in Nat
      BY TypedCounts, SecondsLess
    <2>2. RowOf(u)' <= RowOf(u) /\ RowOf(u)' \in Nat
      <3>1. CASE account[u] = None
        BY <2>1, <3>1, RowLater DEF RowOf
      <3>2. CASE account[u] # None
        BY <3>2, RowLater, NumbersOf DEF RowOf
      <3> QED BY <3>1, <3>2
    <2>3. RowOf(u) + Open(u) <= watched[u]
      BY OnceMeans DEF OnceInv
    <2> QED BY <1>1, <2>2, <2>3, NumbersOf
  <1>3. ASSUME NEW u \in Users, sync' # None, sync'.user = u
        PROVE  account'[u] = None /\ sync'.sum + Open(u)' <= watched'[u]
    BY <1>1, <1>3 DEF OnceInv, SyncCovered
  <1> QED
    BY <1>2, <1>3, OnceLater


LEMMA EntriesOfUser ==
    ASSUME NEW K \in SUBSET Keys, NEW C, NEW u
    PROVE  SecondsOf(Entries(C, K), u) = Total(Entries(C, K \cap KeysOf(u)))
  <1>1. {r \in Entries(C, K) : Viewer[r.session] = u} = Entries(C, K \cap KeysOf(u))
    BY DEF Entries, KeysOf, RecordOf
  <1> QED
    BY <1>1, SecondsTotal

LEMMA EntriesCounts ==
    ASSUME process \in Nat, NEW K \in SUBSET Keys, NEW C, \A k \in K : C[k] \in Entry
    PROVE  Counts(Entries(C, K))
  BY RowsOfEntries, Zenon DEF Entries

LEMMA EntriesAdd ==
    ASSUME process \in Nat, NEW K \in SUBSET Keys, NEW x \in Keys, x \notin K, NEW C,
           \A k \in K \cup {x} : C[k] \in Entry
    PROVE  Total(Entries(C, K \cup {x})) = C[x].seconds + Total(Entries(C, K))
  <1> DEFINE r == RecordOf(x, C[x])
  <1>1. Entries(C, K \cup {x}) = Entries(C, K) \cup {r}
    BY DEF Entries
  <1>2. r \notin Entries(C, K)
    <2>1. ASSUME NEW k \in K, RecordOf(k, C[k]) = r PROVE FALSE
      <3>1. k[1] = x[1] /\ k[2] = x[2]
        BY <2>1 DEF RecordOf
      <3> QED BY <3>1 DEF Keys
    <2> QED BY <2>1 DEF Entries
  <1>3. Counts(Entries(C, K \cup {x}))
    BY EntriesCounts
  <1>4. r.seconds = C[x].seconds
    BY DEF RecordOf
  <1> HIDE DEF r
  <1> QED
    BY <1>1, <1>2, <1>3, <1>4, TotalAdds

\* The entries D of the keys K hold at most a second more for each key of A than the
\* entries C, which are there for the keys of B.
Advances(C, B, D, A, K) ==
    \A k \in K : /\ D[k] \in Entry
                 /\ k \in B => /\ C[k] \in Entry
                               /\ D[k].seconds <= C[k].seconds + (IF k \in A THEN 1 ELSE 0)
                 /\ k \notin B => D[k].seconds = 0

LEMMA EntriesAdvance ==
    ASSUME process \in Nat, NEW K \in SUBSET Keys, NEW B, NEW A, NEW C, NEW D,
           Advances(C, B, D, A, K)
    PROVE  Total(Entries(D, K)) <= Total(Entries(C, K \cap B)) + Cardinality(K \cap A)
  <1> DEFINE F == {T \in SUBSET K : Total(Entries(D, T)) <= Total(Entries(C, T \cap B))
                                                             + Cardinality(T \cap A)}
  <1>1. {} \in F
    <2>1. Entries(D, {}) = {} /\ Entries(C, {} \cap B) = {} /\ {} \cap A = {}
      BY DEF Entries
    <2>2. Total({}) = 0 /\ Cardinality({}) = 0
      BY FS_EmptySet, TotalPicks
    <2> QED BY <2>1, <2>2
  <1>2. ASSUME NEW T \in SUBSET K, NEW x \in K, T \in F, x \notin T PROVE T \cup {x} \in F
    <2>1. Total(Entries(D, T \cup {x})) = D[x].seconds + Total(Entries(D, T))
      BY <1>2, EntriesAdd DEF Advances
    <2>2. /\ Total(Entries(D, T)) \in Nat /\ D[x].seconds \in Nat
          /\ Total(Entries(C, T \cap B)) \in Nat
      <3>1. Counts(Entries(D, T)) /\ Counts(Entries(C, T \cap B))
        BY EntriesCounts DEF Advances
      <3> QED BY <3>1, TotalNat DEF Advances, Entry
    <2>3. /\ Cardinality(T \cap A) \in Nat
          /\ Cardinality((T \cup {x}) \cap A)
               = Cardinality(T \cap A) + (IF x \in A THEN 1 ELSE 0)
      <3>1. IsFiniteSet(T \cap A)
        BY KeysFinite
      <3>2. Cardinality(T \cap A) \in Nat
        BY <3>1, FS_CardinalityType
      <3>3. CASE x \in A
        <4>1. (T \cup {x}) \cap A = (T \cap A) \cup {x} /\ x \notin T \cap A
          BY <1>2, <3>3
        <4>2. Cardinality((T \cap A) \cup {x}) = Cardinality(T \cap A) + 1
          BY <3>1, <4>1, FS_AddElement
        <4> QED BY <3>2, <3>3, <4>1, <4>2
      <3>4. CASE x \notin A
        <4>1. (T \cup {x}) \cap A = T \cap A
          BY <3>4
        <4> QED BY <3>2, <3>4, <4>1
      <3> QED BY <3>3, <3>4
    <2>4. CASE x \in B
      <3>1. (T \cup {x}) \cap B = (T \cap B) \cup {x} /\ x \notin T \cap B
        BY <1>2, <2>4
      <3>2. Total(Entries(C, (T \cap B) \cup {x})) = C[x].seconds + Total(Entries(C, T \cap B))
        BY <2>4, <3>1, EntriesAdd DEF Advances
      <3>3. /\ C[x].seconds \in Nat
            /\ D[x].seconds <= C[x].seconds + (IF x \in A THEN 1 ELSE 0)
        BY <2>4 DEF Advances, Entry
      <3>4. Total(Entries(D, T)) <= Total(Entries(C, T \cap B)) + Cardinality(T \cap A)
        BY <1>2
      <3>5. Total(Entries(C, (T \cup {x}) \cap B)) = C[x].seconds + Total(Entries(C, T \cap B))
        BY <3>1, <3>2
      <3> DEFINE one == IF x \in A THEN 1 ELSE 0
                 d == Total(Entries(D, T \cup {x}))
                 c == Total(Entries(C, (T \cup {x}) \cap B))
                 n == Cardinality((T \cup {x}) \cap A)
      <3>6. d <= c + n
        <4>1. one \in Nat
          OBVIOUS
        <4>2. n = Cardinality(T \cap A) + one
          BY <2>3
        <4>3. D[x].seconds <= C[x].seconds + one
          BY <3>3
        <4>4. d = D[x].seconds + Total(Entries(D, T))
          BY <2>1
        <4>5. c = C[x].seconds + Total(Entries(C, T \cap B))
          BY <3>5
        <4>6. Cardinality(T \cap A) \in Nat
          BY <2>3
        <4> HIDE DEF one, d, c, n
        <4> QED BY <2>2, <3>3, <3>4, <4>1, <4>2, <4>3, <4>4, <4>5, <4>6
      <3> QED BY <3>6
    <2>5. CASE x \notin B
      <3>1. (T \cup {x}) \cap B = T \cap B
        BY <2>5
      <3>2. D[x].seconds = 0
        BY <2>5 DEF Advances
      <3>3. Total(Entries(D, T)) <= Total(Entries(C, T \cap B)) + Cardinality(T \cap A)
        BY <1>2
      <3> DEFINE d == Total(Entries(D, T \cup {x}))
                 c == Total(Entries(C, T \cap B))
                 n == Cardinality((T \cup {x}) \cap A)
      <3>4. d <= c + n
        <4>1. n \in Nat /\ Cardinality(T \cap A) <= n
          BY <2>3
        <4>2. d = Total(Entries(D, T))
          BY <2>1, <2>2, <3>2
        <4>3. Total(Entries(D, T)) <= c + Cardinality(T \cap A) /\ c \in Nat
          BY <2>2, <3>3
        <4> HIDE DEF d, c, n
        <4> QED BY <2>2, <2>3, <4>1, <4>2, <4>3
      <3> QED BY <3>1, <3>4
    <2> QED BY <2>4, <2>5
  <1>3. K \in F
    <2>1. IsFiniteSet(K)
      BY KeysFinite
    <2> HIDE DEF F
    <2> QED BY <1>1, <1>2, <2>1, OneMore
  <1> QED
    BY <1>3


LEMMA EntriesApart ==
    ASSUME process \in Nat, NEW Z \in SUBSET Keys, NEW X \in SUBSET Z, NEW Y \in SUBSET Z,
           X \cap Y = {}, NEW C, \A k \in Z : C[k] \in Entry
    PROVE  Total(Entries(C, X)) + Total(Entries(C, Y)) <= Total(Entries(C, Z))
  <1> DEFINE x == Entries(C, X)
             y == Entries(C, Y)
             z == Entries(C, Z)
  <1>1. Counts(z)
    BY EntriesCounts
  <1>2. x \subseteq z /\ y \subseteq z
    BY DEF Entries
  <1>3. ASSUME NEW r \in x, r \in y PROVE FALSE
    <2>1. PICK k \in X : r = RecordOf(k, C[k])
      BY DEF Entries
    <2>2. PICK j \in Y : r = RecordOf(j, C[j])
      BY <1>3 DEF Entries
    <2>3. k[1] = j[1] /\ k[2] = j[2]
      BY <2>1, <2>2 DEF RecordOf
    <2> QED BY <2>3 DEF Keys
  <1>4. y \subseteq z \ x
    BY <1>2, <1>3
  <1> HIDE DEF x, y, z
  <1>5. Total(z) = Total(x) + Total(z \ x)
    BY <1>1, <1>2, TotalSplits
  <1>6. Counts(z \ x) /\ Counts(x) /\ Counts(y)
    BY <1>1, <1>2, CountsOfSome
  <1>7. Total(y) <= Total(z \ x)
    BY <1>4, <1>6, TotalGrows
  <1>8. Total(x) + Total(y) <= Total(z)
    BY <1>5, <1>6, <1>7, TotalNat
  <1> QED
    BY <1>8 DEF x, y, z

\* A poll counts what advanced, and takes what ended out of the cache.
LEMMA PollOpens ==
    ASSUME Typed, NEW v \in Servers, NEW active \in SUBSET Keys,
           NEW touch \in BOOLEAN, PollServer(v, active, touch), NEW u
    PROVE  LET ends  == SecondsOf(Entries(cache, Ended(v)), u)
               count == Cardinality(active \cap KeysOf(u))
           IN  /\ Open(u)' + ends <= Open(u) + count
               /\ Open(u)' \in Nat /\ ends \in Nat /\ count \in Nat
  <1> DEFINE L == Cached' \cap KeysOf(u)
             X == L \cap Cached
             Y == Ended(v) \cap KeysOf(u)
             Z == Cached \cap KeysOf(u)
             D == cache'
  <1>1. process \in Nat /\ process' = process
    BY DEF PollServer, Typed, TypeOK
  <1>2. Cached' \subseteq Keys
    BY DEF Cached
  <1>3. \A k \in Keys : D[k] = IF k \in Ended(v) THEN None ELSE Recorded(v, active)[k]
    BY DEF PollServer, Forget
  <1>4. \A k \in Cached' : D[k] \in Entry /\ D[k] # None /\ k \notin Ended(v)
    <2>1. Typed'
      BY PollServerTyped
    <2>2. D \in [Keys -> Entry \cup {None}]
      BY <2>1 DEF Typed, TypeOK
    <2> QED BY <1>3, <2>2 DEF Cached
  <1>5. Entries(cache, Cached)' = Entries(D, Cached')
    BY <1>1 DEF Entries, RecordOf
  <1>6. Open(u)' = Total(Entries(D, L))
    BY <1>2, <1>5, OpenLater, EntriesOfUser
  <1>7. Advances(cache, Cached, D, active, L)
    <2> SUFFICES ASSUME NEW k \in L
                 PROVE  /\ D[k] \in Entry
                        /\ k \in Cached => /\ cache[k] \in Entry
                                           /\ D[k].seconds <= cache[k].seconds
                                                        + (IF k \in active THEN 1 ELSE 0)
                        /\ k \notin Cached => D[k].seconds = 0
      BY DEF Advances
    <2>1. k \in Keys /\ D[k] \in Entry /\ D[k] = Recorded(v, active)[k]
      BY <1>2, <1>3, <1>4
    <2>2. CASE k \in Cached
      <3>1. cache[k] \in Entry /\ cache[k] # None
        BY <2>2, CachedEntries DEF Cached
      <3>2. D[k] = cache[k] \/ (k \in active /\ D[k] = [cache[k] EXCEPT !.seconds = @ + 1])
        BY <2>1, <3>1 DEF Recorded
      <3>3. cache[k].seconds \in Nat
        BY <3>1 DEF Entry
      <3>4. D[k].seconds <= cache[k].seconds + (IF k \in active THEN 1 ELSE 0)
        BY <3>1, <3>2, <3>3 DEF Entry
      <3> QED BY <2>1, <2>2, <3>1, <3>4
    <2>3. CASE k \notin Cached
      <3>1. cache[k] = None
        BY <2>1, <2>3 DEF Cached
      <3>2. D[k] = [generation |-> generations[k] + 1, seconds |-> 0]
        BY <1>4, <2>1, <3>1 DEF Recorded
      <3> QED BY <2>1, <2>3, <3>2
    <2> QED BY <2>2, <2>3
  <1>8. Total(Entries(D, L)) <= Total(Entries(cache, X)) + Cardinality(L \cap active)
    <2>1. L \in SUBSET Keys
      BY <1>2
    <2> HIDE DEF L, D
    <2> QED BY <1>1, <1>7, <2>1, EntriesAdvance
  <1>9. /\ Cardinality(L \cap active) \in Nat /\ Cardinality(active \cap KeysOf(u)) \in Nat
        /\ Cardinality(L \cap active) <= Cardinality(active \cap KeysOf(u))
    <2>1. IsFiniteSet(active \cap KeysOf(u)) /\ L \cap active \subseteq active \cap KeysOf(u)
      BY KeysFinite
    <2> QED BY <2>1, FS_Subset, FS_CardinalityType
  <1>10. Total(Entries(cache, X)) + Total(Entries(cache, Y)) <= Total(Entries(cache, Z))
    <2>1. Z \in SUBSET Keys /\ X \in SUBSET Z /\ Y \in SUBSET Z /\ X \cap Y = {}
      BY <1>4, CachedEntries DEF Ended
    <2>2. \A k \in Z : cache[k] \in Entry
      BY CachedEntries
    <2> HIDE DEF X, Y, Z
    <2> QED BY <1>1, <2>1, <2>2, EntriesApart
  <1>11. /\ Open(u) = Total(Entries(cache, Z))
         /\ SecondsOf(Entries(cache, Ended(v)), u) = Total(Entries(cache, Y))
    BY CachedEntries, EntriesOfUser DEF Open, Ended
  <1>12. /\ Total(Entries(D, L)) \in Nat /\ Total(Entries(cache, X)) \in Nat
         /\ Total(Entries(cache, Y)) \in Nat /\ Total(Entries(cache, Z)) \in Nat
    <2>1. Counts(Entries(D, L))
      BY <1>1, <1>2, <1>4, EntriesCounts
    <2>2. Counts(Entries(cache, X)) /\ Counts(Entries(cache, Y)) /\ Counts(Entries(cache, Z))
      BY <1>1, CachedEntries, EntriesCounts DEF Ended
    <2> QED BY <2>1, <2>2, TotalNat
  <1> HIDE DEF L, X, Y, Z, D
  <1> QED
    BY <1>6, <1>8, <1>9, <1>10, <1>11, <1>12


\* A flush adds to an account what its rows hold, and never gives it a row.
LEMMA WrittenRow ==
    ASSUME Typed, NEW R, R \subseteq Record, Counts(R),
           Written(R) \/ UNCHANGED <<records, account>>, NEW u \in Users
    PROVE  /\ RowOf(u)' <= RowOf(u) + SecondsOf(R, u) /\ RowOf(u)' \in Nat
           /\ account[u] = None => account'[u] = None
  <1>1. SecondsOf(R, u) \in Nat /\ RowOf(u) \in Nat
    BY SecondsNat, NumbersOf
  <1>2. CASE UNCHANGED <<records, account>>
    <2>1. RowOf(u)' = RowOf(u)
      BY <1>2, RowLater DEF RowOf
    <2> QED BY <1>1, <1>2, <2>1
  <1>3. CASE Written(R)
    <2>1. CASE account[u] = None
      <3>1. account'[u] = None /\ records' = records \cup R
        BY <1>3, <2>1 DEF Written
      <3>2. SecondsOf(records', u) <= SecondsOf(records, u) + SecondsOf(R, u)
        BY <3>1, TypedCounts, SecondsJoin
      <3>3. SecondsOf(records', u) \in Nat
        BY <3>1, TypedCounts, TotalJoins, SecondsNat
      <3> QED BY <2>1, <3>1, <3>2, <3>3, RowLater DEF RowOf
    <2>2. CASE account[u] # None
      <3>1. account[u] \in Nat /\ account'[u] = account[u] + SecondsOf(R, u)
        BY <1>3, <2>2 DEF Written, Typed, TypeOK
      <3>2. account'[u] \in Nat
        BY <1>1, <3>1
      <3>3. account'[u] # None
        BY <3>2, NoneAssumption
      <3> QED BY <1>1, <2>2, <3>1, <3>3, RowLater DEF RowOf
    <2> QED BY <2>1, <2>2
  <1> QED
    BY <1>2, <1>3

LEMMA PollServerOnce ==
    ASSUME Typed, OnceInv, NEW v \in Servers, NEW active \in SUBSET Keys,
           NEW touch \in BOOLEAN, PollServer(v, active, touch)
    PROVE  OnceInv'
  <1> DEFINE R == Entries(cache, Ended(v))
  <1>1. Written(R) \/ UNCHANGED <<records, account>>
    BY DEF PollServer, Entries
  <1>2. R \subseteq Record /\ Counts(R)
    <2>1. process \in Nat /\ Ended(v) \in SUBSET Keys /\ \A k \in Ended(v) : cache[k] \in Entry
      BY CachedEntries DEF Typed, TypeOK, Ended
    <2> QED BY <2>1, RowsOfEntries, Zenon DEF Entries
  <1>3. sync' = sync
    BY DEF PollServer
  <1>4. ASSUME NEW u \in Users
        PROVE  /\ RowOf(u)' + Open(u)' <= watched'[u]
               /\ sync' # None /\ sync'.user = u
                    => account'[u] = None /\ sync'.sum + Open(u)' <= watched'[u]
    <2> DEFINE ends  == SecondsOf(R, u)
               count == Cardinality(active \cap KeysOf(u))
    <2>1. watched'[u] = watched[u] + count
      BY DEF PollServer
    <2>2. /\ Open(u)' + ends <= Open(u) + count
          /\ Open(u)' \in Nat /\ ends \in Nat /\ count \in Nat
      BY PollOpens
    <2>3. /\ RowOf(u)' <= RowOf(u) + ends /\ RowOf(u)' \in Nat
          /\ account[u] = None => account'[u] = None
      <3> HIDE DEF R
      <3> QED BY <1>1, <1>2, WrittenRow
    <2>4. RowOf(u) + Open(u) <= watched[u]
      BY OnceMeans DEF OnceInv
    <2> HIDE DEF ends, count
    <2>5. RowOf(u)' + Open(u)' <= watched'[u]
      BY <2>1, <2>2, <2>3, <2>4, NumbersOf
    <2>6. ASSUME sync' # None, sync'.user = u
          PROVE  account'[u] = None /\ sync'.sum + Open(u)' <= watched'[u]
      <3>1. account[u] = None /\ sync.sum + Open(u) <= watched[u]
        BY <1>3, <2>6 DEF OnceInv, SyncCovered
      <3>2. sync.sum \in Nat
        BY <1>3, <2>6 DEF Typed, TypeOK
      <3> QED BY <1>3, <2>1, <2>2, <2>3, <3>1, <3>2, NumbersOf
    <2> QED BY <2>5, <2>6
  <1> QED
    BY <1>4, OnceLater

\* Fewer entries in the cache, with what they held.
LEMMA OpenShrinks ==
    ASSUME Typed, process' = process, Cached' \subseteq Cached,
           \A k \in Cached' : cache'[k] = cache[k], NEW u
    PROVE  Open(u)' <= Open(u) /\ Open(u)' \in Nat
  <1>1. Entries(cache, Cached)' \subseteq Entries(cache, Cached)
    BY DEF Entries, RecordOf
  <1> QED
    BY <1>1, OpenLater, OpenCounts, SecondsLess DEF Open

LEMMA NothingOpen == ASSUME Cached' = {}, NEW u PROVE Open(u)' = 0
  <1>1. Entries(cache, Cached)' = {}
    BY DEF Entries
  <1>2. {r \in {} : Viewer[r.session] = u} = {} /\ Total({}) = 0
    BY FS_EmptySet, TotalPicks
  <1>3. SecondsOf({}, u) = 0
    BY <1>2, SecondsTotal
  <1> QED
    BY <1>1, <1>3, OpenLater

LEMMA DeleteUserOnce ==
    ASSUME Typed, OnceInv, NEW d \in Users, DeleteUser(d) PROVE OnceInv'
  <1>1. /\ records' = {r \in records : Viewer[r.session] # d}
        /\ account' = [account EXCEPT ![d] = None]
        /\ cache' = Forget(cache, KeysOf(d))
        /\ watched' = [watched EXCEPT ![d] = 0]
        /\ sync' = None /\ process' = process
    BY DEF DeleteUser
  <1>2. Cached' \subseteq Cached \ KeysOf(d) /\ \A k \in Cached' : cache'[k] = cache[k]
    BY <1>1 DEF Cached, Forget
  <1>3. ASSUME NEW u \in Users, u # d PROVE RowOf(u)' + Open(u)' <= watched'[u]
    <2>1. Open(u)' <= Open(u) /\ Open(u)' \in Nat
      BY <1>1, <1>2, OpenShrinks
    <2>2. SecondsOf(records', u) <= SecondsOf(records, u) /\ SecondsOf(records', u) \in Nat
      BY <1>1, TypedCounts, SecondsLess
    <2>3. account'[u] = account[u] /\ watched'[u] = watched[u]
      BY <1>1, <1>3 DEF Typed, TypeOK
    <2>4. RowOf(u)' <= RowOf(u) /\ RowOf(u)' \in Nat
      <3>1. CASE account[u] = None
        BY <2>2, <2>3, <3>1, RowLater DEF RowOf
      <3>2. CASE account[u] # None
        BY <2>3, <3>2, RowLater, NumbersOf DEF RowOf
      <3> QED BY <3>1, <3>2
    <2>5. RowOf(u) + Open(u) <= watched[u]
      BY OnceMeans DEF OnceInv
    <2> QED BY <2>1, <2>3, <2>4, <2>5, NumbersOf
  <1>4. RowOf(d)' + Open(d)' <= watched'[d]
    <2>1. account'[d] = None /\ watched'[d] = 0
      BY <1>1 DEF Typed, TypeOK
    <2>2. {r \in records' : Viewer[r.session] = d} = {} /\ Total({}) = 0
      BY <1>1, FS_EmptySet, TotalPicks
    <2>3. SecondsOf(records', d) = 0
      BY <2>2, SecondsTotal
    <2>4. Open(d)' = 0
      <3>1. Cached' \subseteq Keys /\ Cached' \cap KeysOf(d) = {}
        BY <1>2 DEF Cached
      <3>2. {r \in Entries(cache, Cached)' : Viewer[r.session] = d} = {}
        BY <3>1 DEF Entries, RecordOf, KeysOf
      <3>3. SecondsOf(Entries(cache, Cached)', d) = 0
        BY <2>2, <3>2, SecondsTotal
      <3> QED BY <3>3, OpenLater
    <2>5. RowOf(d)' = 0
      BY <2>1, <2>3, RowLater
    <2> QED BY <2>1, <2>4, <2>5
  <1> QED
    BY <1>1, <1>3, <1>4, OnceLater


\* The sum of a sync is what the account's rows held, which is not more than was counted.
LEMMA SyncFindsOnce ==
    ASSUME Typed, OnceInv, NEW d \in Users, SyncFinds(d) PROVE OnceInv'
  <1>1. UNCHANGED <<process, cache, account, watched, records>>
    BY DEF SyncFinds, tables
  <1>2. sync' = [user |-> d, sum |-> SecondsOf(records, d)] /\ account[d] = None
    BY DEF SyncFinds
  <1>3. ASSUME NEW u PROVE Open(u)' = Open(u) /\ RowOf(u)' = RowOf(u)
    <2>1. Entries(cache, Cached)' = Entries(cache, Cached)
      BY <1>1 DEF Entries, RecordOf, Cached
    <2> QED BY <1>1, <2>1, OpenLater, RowLater DEF Open, RowOf
  <1>4. \A u \in Users : RowOf(u) + Open(u) <= watched[u]
    BY OnceMeans DEF OnceInv
  <1>5. RowOf(d) = SecondsOf(records, d)
    BY <1>2 DEF RowOf
  <1> QED
    BY <1>1, <1>2, <1>3, <1>4, <1>5, OnceLater

LEMMA SyncInsertsOnce == ASSUME Typed, OnceInv, SyncInserts PROVE OnceInv'
  <1>1. UNCHANGED <<process, cache, watched, records>> /\ sync' = None
    BY DEF SyncInserts, memory
  <1>2. sync # None /\ sync \in [user : Users, sum : Nat]
    BY DEF SyncInserts, Typed, TypeOK
  <1>3. \A u : Open(u)' = Open(u)
    <2>1. Entries(cache, Cached)' = Entries(cache, Cached)
      BY <1>1 DEF Entries, RecordOf, Cached
    <2> QED BY <2>1, OpenLater DEF Open
  <1>4. ASSUME NEW u \in Users PROVE RowOf(u)' + Open(u)' <= watched'[u]
    <2>1. RowOf(u) + Open(u) <= watched[u]
      BY OnceMeans DEF OnceInv
    <2>2. CASE account'[u] = account[u]
      <3>1. RowOf(u)' = RowOf(u)
        BY <1>1, <2>2, RowLater DEF RowOf
      <3> QED BY <1>1, <1>3, <2>1, <3>1
    <2>3. CASE account'[u] # account[u]
      <3>1. sync.user = u /\ account'[u] = sync.sum
        BY <2>3 DEF SyncInserts, Typed, TypeOK
      <3>2. sync.sum + Open(u) <= watched[u]
        BY <1>2, <3>1 DEF OnceInv, SyncCovered
      <3>3. sync.sum # None
        BY <1>2, NoneAssumption
      <3>4. RowOf(u)' = sync.sum
        BY <3>1, <3>3, RowLater
      <3> QED BY <1>1, <1>3, <3>2, <3>4
    <2> QED BY <2>2, <2>3
  <1> QED
    BY <1>1, <1>4, OnceLater

LEMMA DeleteServerOnce ==
    ASSUME Typed, OnceInv, NEW v \in Servers, DeleteServer(v) PROVE OnceInv'
  <1>1. /\ UNCHANGED <<process, cache, watched, sync>>
        /\ account' = [u \in Users |-> IF Home[u] = v THEN None ELSE account[u]]
        /\ records' = {r \in records : Home[Viewer[r.session]] # v}
    BY DEF DeleteServer, memory
  <1>2. \A u : Open(u)' = Open(u)
    <2>1. Entries(cache, Cached)' = Entries(cache, Cached)
      BY <1>1 DEF Entries, RecordOf, Cached
    <2> QED BY <2>1, OpenLater DEF Open
  <1>3. ASSUME NEW u \in Users PROVE RowOf(u)' <= RowOf(u) /\ RowOf(u)' \in Nat
    <2>1. SecondsOf(records', u) <= SecondsOf(records, u) /\ SecondsOf(records', u) \in Nat
      BY <1>1, TypedCounts, SecondsLess
    <2>2. CASE Home[u] = v
      <3>1. {r \in records' : Viewer[r.session] = u} = {} /\ Total({}) = 0
        BY <1>1, <2>2, FS_EmptySet, TotalPicks
      <3>2. SecondsOf(records', u) = 0
        BY <3>1, SecondsTotal
      <3>3. account'[u] = None
        BY <1>1, <2>2
      <3> QED BY <3>2, <3>3, RowLater, NumbersOf
    <2>3. CASE Home[u] # v
      <3>1. account'[u] = account[u]
        BY <1>1, <2>3
      <3>2. CASE account[u] = None
        BY <2>1, <3>1, <3>2, RowLater DEF RowOf
      <3>3. CASE account[u] # None
        BY <3>1, <3>3, RowLater, NumbersOf DEF RowOf
      <3> QED BY <3>2, <3>3
    <2> QED BY <2>2, <2>3
  <1>4. ASSUME NEW u \in Users PROVE RowOf(u)' + Open(u)' <= watched'[u]
    <2>1. RowOf(u) + Open(u) <= watched[u]
      BY OnceMeans DEF OnceInv
    <2> QED BY <1>1, <1>2, <1>3, <2>1, NumbersOf
  <1>5. ASSUME NEW u \in Users, sync' # None, sync'.user = u
        PROVE  account'[u] = None /\ sync'.sum + Open(u)' <= watched'[u]
    BY <1>1, <1>2, <1>5 DEF OnceInv, SyncCovered
  <1> QED
    BY <1>4, <1>5, OnceLater

\* A process that ends writes what is open, or loses it.
LEMMA ShutdownOnce == ASSUME Typed, OnceInv, Shutdown PROVE OnceInv'
  <1> DEFINE K == {c \in Cached : Viewer[c[1]] \notin deleted}
             R == Entries(cache, K)
  <1>1. R \subseteq Entries(cache, Cached)
    BY DEF Entries
  <1>2. R \subseteq Record /\ Counts(R)
    <2>1. process \in Nat /\ K \in SUBSET Keys /\ \A k \in K : cache[k] \in Entry
      BY CachedEntries DEF Typed, TypeOK
    <2> HIDE DEF K
    <2> QED BY <2>1, RowsOfEntries, Zenon DEF Entries
  <1>3. Written(R) \/ UNCHANGED <<records, account>>
    BY DEF Shutdown, Entries
  <1>4. Cached' = {} /\ watched' = watched /\ sync' = None
    BY DEF Shutdown, NewProcess, Cached
  <1>5. ASSUME NEW u \in Users PROVE RowOf(u)' + Open(u)' <= watched'[u]
    <2> HIDE DEF R
    <2>1. RowOf(u)' <= RowOf(u) + SecondsOf(R, u) /\ RowOf(u)' \in Nat
      BY <1>2, <1>3, WrittenRow
    <2>2. SecondsOf(R, u) <= Open(u) /\ SecondsOf(R, u) \in Nat
      BY <1>1, OpenCounts, SecondsLess DEF Open
    <2>3. Open(u)' = 0
      BY <1>4, NothingOpen
    <2>4. RowOf(u) + Open(u) <= watched[u]
      BY OnceMeans DEF OnceInv
    <2> QED BY <1>4, <2>1, <2>2, <2>3, <2>4, NumbersOf
  <1> QED
    BY <1>4, <1>5, OnceLater

LEMMA CrashOnce == ASSUME Typed, OnceInv, Crash PROVE OnceInv'
  <1>1. Cached' = {} /\ watched' = watched /\ sync' = None /\ UNCHANGED <<account, records>>
    BY DEF Crash, NewProcess, Cached
  <1>2. ASSUME NEW u \in Users PROVE RowOf(u)' + Open(u)' <= watched'[u]
    <2>1. RowOf(u)' = RowOf(u)
      BY <1>1, RowLater DEF RowOf
    <2>2. Open(u)' = 0
      BY <1>1, NothingOpen
    <2>3. RowOf(u) + Open(u) <= watched[u]
      BY OnceMeans DEF OnceInv
    <2> QED BY <1>1, <2>1, <2>2, <2>3, NumbersOf
  <1> QED
    BY <1>1, <1>2, OnceLater

LEMMA OnceNext == Typed /\ OnceInv /\ [Next]_vars => OnceInv'
  <1> SUFFICES ASSUME Typed, OnceInv, [Next]_vars PROVE OnceInv'
    OBVIOUS
  <1>1. CASE \/ \E s \in Sessions, i \in Items \cup {None} : Play(s, i)
             \/ PollStart \/ PollLock \/ PollEnd \/ Publish
             \/ \E v \in Servers, touch \in BOOLEAN : PollServerFails(v, touch)
             \/ \E v \in Servers : ToggleServer(v)
             \/ \E r \in records : PurgeOldHistory(r)
             \/ UNCHANGED vars
    <2>1. UNCHANGED <<process, cache, account, watched, sync>> /\ records' \subseteq records
      BY <1>1 DEF Play, PollStart, PollLock, PollEnd, Publish, PollServerFails, ToggleServer,
         PurgeOldHistory, vars, tables, memory
    <2> QED BY <2>1, OnceKept
  <1> QED
    BY <1>1, PollServerOnce, DeleteUserOnce, SyncFindsOnce, SyncInsertsOnce, DeleteServerOnce,
       ShutdownOnce, CrashOnce DEF Next, PollStep

LEMMA OnceInit == Init => OnceInv
  <1> SUFFICES ASSUME Init PROVE OnceInv
    OBVIOUS
  <1>1. ASSUME NEW R, R = {}, NEW u PROVE SecondsOf(R, u) = 0
    <2>1. {r \in R : Viewer[r.session] = u} = {} /\ Total({}) = 0
      BY <1>1, FS_EmptySet, TotalPicks
    <2> QED BY <2>1, SecondsTotal
  <1>2. \A u : Open(u) = 0
    <2>1. Entries(cache, Cached) = {}
      BY DEF Init, Cached, Entries
    <2> QED BY <1>1, <2>1 DEF Open
  <1>3. \A u \in Users : RowOf(u) = 0 /\ watched[u] = 0
    BY <1>1 DEF Init, RowOf
  <1>4. SecondsCountedOnce
    BY <1>2, <1>3, OnceMeans
  <1> QED
    BY <1>4 DEF Init, OnceInv, SyncCovered

\* Every second of playback is counted at most once: an account's total and what its
\* open entries still hold never exceed what the polls counted since it was last
\* deleted, whatever polls, deletions, syncs, shutdowns and crashes fall together.
THEOREM SecondsNeverDoubled == Spec => []SecondsCountedOnce
  <1>1. OnceInv => SecondsCountedOnce
    BY DEF OnceInv
  <1> QED
    BY <1>1, TypedInit, TypedNext, OnceInit, OnceNext, PTL DEF Spec

=============================================================================
