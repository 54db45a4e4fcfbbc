-------------------------- MODULE QueryCache_proofs --------------------------
(***************************************************************************)
(* What the cache keeps to for any number of queries, writers and keys,    *)
(* and whatever triggers there are besides those that have linked tags.    *)
(***************************************************************************)
EXTENDS QueryCache, TLAPS

-----------------------------------------------------------------------------
(* The typing invariant *)

LEMMA NoQueryType ==
    /\ NoQuery \in Query
    /\ NoQuery.pc = "idle" /\ NoQuery.value = {} /\ NoQuery.by = NoTransaction
    /\ NoQuery.missed = {} /\ NoQuery.key \in Keys
  BY ConstantsAssumption DEF NoQuery, Query

LEMMA TagsType == \A k \in Keys : TagsOf(k) \subseteq Tables
<1> SUFFICES ASSUME NEW k \in Keys PROVE TagsOf(k) \subseteq Tables
  OBVIOUS
<1>1. Reads[k] \subseteq Tables
  BY ConstantsAssumption
<1>2. \A t \in Reads[k] : LinkedCacheTags[t] \subseteq Tables
  BY <1>1, ConstantsAssumption
<1> QED
  BY <1>1, <1>2 DEF TagsOf

LEMMA ResultType ==
    ASSUME NEW k, NEW by PROVE ResultFor(k, by) \in SUBSET Change
  BY DEF ResultFor

\* Updated queries and calls keep their types.
LEMMA MissUpdate ==
    \A r \in Query : LET u == [r EXCEPT !.pc = "miss"]
                    IN  /\ u \in Query /\ u.pc = "miss" /\ u.by = r.by /\ u.key = r.key
                        /\ u.value = r.value
  BY DEF Query

Checked(r, v) == [r EXCEPT !.pc = "check", !.value = v]

LEMMA CheckUpdate ==
    ASSUME NEW r \in Query, NEW v \in SUBSET Change
    PROVE  LET u == Checked(r, v)
           IN  u \in Query /\ u.pc = "check" /\ u.by = r.by /\ u.key = r.key /\ u.value = v
  BY DEF Query, Checked

Told(r, v, m) ==
    [r EXCEPT !.pc = "tags", !.by = NoTransaction, !.value = v, !.missed = m]

LEMMA ReadUpdate ==
    ASSUME NEW r \in Query, NEW v \in SUBSET Change, NEW m \in SUBSET Writers
    PROVE  LET u == Told(r, v, m)
           IN  /\ u \in Query /\ u.pc = "tags" /\ u.by = NoTransaction /\ u.key = r.key
               /\ u.value = v /\ u.missed = m
  BY DEF Query, Told

LEMMA SweepUpdate ==
    ASSUME NEW s \in Sweep, NEW keys \in SUBSET Keys
    PROVE  /\ [s EXCEPT !.pc = "unlink", !.keys = keys] \in Sweep
           /\ [s EXCEPT !.pc = "forget"] \in Sweep
           /\ [s EXCEPT !.pc = "failed", !.keys = {}] \in Sweep
  BY DEF Sweep

LEMMA TypeInit == Init => TypeOK
  BY NoQueryType, ConstantsAssumption DEF Init, TypeOK, Awaited

LEMMA TypeNext == TypeOK /\ [Next]_vars => TypeOK'
<1> USE DEF TypeOK, database, redis
<1> SUFFICES ASSUME TypeOK, [Next]_vars PROVE TypeOK'
  OBVIOUS
<1>1. ASSUME NEW q \in Queries, NEW k \in Keys, NEW by \in Writers \union {NoTransaction},
             Ask(q, k, by)
      PROVE  TypeOK'
  <2>1. query'[q] \in Query /\ query'[q].by = by
    BY <1>1, NoQueryType DEF Ask, Query
  <2>2. savedTags' \in [Writers -> SUBSET Tables]
    BY <1>1, TagsType DEF Ask
  <2> QED
    BY <1>1, <2>1, <2>2 DEF Ask, Awaited
<1>2. ASSUME NEW q \in Queries, ReadPastCache(q) \/ Hit(q) \/ NotStored(q)
      PROVE  TypeOK'
  BY <1>2, NoQueryType DEF ReadPastCache, Hit, NotStored, Awaited
<1>3. ASSUME NEW q \in Queries, Get(q) PROVE TypeOK'
  <2>1. query[q].key \in Keys /\ query[q] \in Query
    BY DEF Query
  <2>2. query'[q] \in Query /\ query'[q].by = query[q].by
    <3>1. CASE cache[query[q].key] = Absent
      <4>1. query'[q] = [query[q] EXCEPT !.pc = "miss"]
        BY <1>3, <3>1 DEF Get
      <4> QED
        BY <2>1, <4>1, MissUpdate, Zenon
    <3>2. CASE cache[query[q].key] # Absent
      <4>1. cache[query[q].key].value \in SUBSET Change
        BY <2>1, <3>2 DEF Entry
      <4>2. query'[q] = Checked(query[q], cache[query[q].key].value)
        BY <1>3, <3>2 DEF Get, Checked
      <4> QED
        BY <2>1, <4>1, <4>2, CheckUpdate
    <3> QED
      BY <3>1, <3>2
  <2>3. query[q].pc = "get"
    BY <1>3 DEF Get
  <2> QED
    BY <1>3, <2>2, <2>3 DEF Get, Awaited
<1>4. ASSUME NEW q \in Queries, NoTags(q) \/ GetFails(q) PROVE TypeOK'
  <2>1. query'[q] \in Query /\ query'[q].by = query[q].by
    BY <1>4 DEF NoTags, GetFails, Query
  <2>2. faults' \in 0..MaxFaults
    BY <1>4, ConstantsAssumption DEF NoTags, GetFails
  <2> QED
    BY <1>4, <2>1, <2>2 DEF NoTags, GetFails, Awaited
<1>5. ASSUME NEW q \in Queries, UnlinkUntagged(q) PROVE TypeOK'
  <2>1. query'[q] \in Query /\ query'[q].by = query[q].by
    BY <1>5 DEF UnlinkUntagged, Query
  <2> QED
    BY <1>5, <2>1 DEF UnlinkUntagged, Awaited
<1>6. ASSUME NEW q \in Queries, Read(q) PROVE TypeOK'
  <2> DEFINE result == ResultFor(query[q].key, query[q].by)
             missed == {w \in Writers : Busy(w)} \ Committed
  <2>1. query'[q] = Told(query[q], result, missed)
    BY <1>6 DEF Read, Told
  <2>2. result \in SUBSET Change /\ missed \in SUBSET Writers
    BY ResultType
  <2>3. query'[q] \in Query /\ query'[q].pc = "tags"
    <3>1. query[q] \in Query
      OBVIOUS
    <3> HIDE DEF result, missed
    <3> QED
      BY <2>1, <2>2, <3>1, ReadUpdate
  <2>4. query' \in [Queries -> Query] /\ \A r \in Queries \ {q} : query'[r] = query[r]
    BY <1>6, <2>3 DEF Read
  <2> QED
    BY <1>6, <2>3, <2>4 DEF Read, Awaited
<1>7. ASSUME NEW q \in Queries, Tag(q) PROVE TypeOK'
  <2>1. query'[q] \in Query /\ query'[q].pc = "value"
    BY <1>7 DEF Tag, Query
  <2>2. query[q].key \in Keys
    BY DEF Query
  <2> QED
    BY <1>7, <2>1, <2>2 DEF Tag, Awaited
<1>8. ASSUME NEW q \in Queries, Store(q) \/ SetFails(q) PROVE TypeOK'
  <2>1. query'[q] = NoQuery
    BY <1>8 DEF Store, SetFails
  <2>2. query[q] \in Query
    OBVIOUS
  <2>3. cache' \in [Keys -> Entry \union {Absent}] /\ halfFilled' \subseteq Keys
    BY <1>8, <2>2 DEF Store, SetFails, Entry, Query
  <2>4. faults' \in 0..MaxFaults
    BY <1>8, ConstantsAssumption DEF Store, SetFails
  <2> QED
    BY <1>8, <2>1, <2>3, <2>4, NoQueryType DEF Store, SetFails, Awaited
<1>9. ASSUME NEW k \in Keys, Expire(k) PROVE TypeOK'
  BY <1>9 DEF Expire, Awaited
<1>10. ASSUME NEW w \in Writers, Begin(w) PROVE TypeOK'
  BY <1>10 DEF Begin, Awaited
<1>11. ASSUME NEW w \in Writers, Commit(w) PROVE TypeOK'
  BY <1>11 DEF Commit, Awaited, BetweenStatements
<1>12. ASSUME NEW w \in Writers, Rollback(w) PROVE TypeOK'
  <2>1. sweeps' \subseteq Sweep
    BY <1>12 DEF Rollback, Calls, Sweep
  <2> QED
    <3>1. wrote' \in [Writers -> SUBSET Tables] /\ savedTags' \in [Writers -> SUBSET Tables]
      BY <1>12 DEF Rollback
    <3>2. trx' \in [Writers -> {"idle", "open", "committed", "failed"}]
      BY <1>12 DEF Rollback
    <3>3. \A q \in Queries : Awaited(q) => query[q].by # w
      BY <1>12 DEF Rollback, BetweenStatements
    <3>4. \A v \in Writers \ {w} : trx'[v] = trx[v]
      BY <1>12 DEF Rollback
    <3>5. UNCHANGED <<redis, query, faults>>
      BY <1>12 DEF Rollback
    <3> QED
      BY <2>1, <3>1, <3>2, <3>3, <3>4, <3>5 DEF Awaited
<1>13. ASSUME NEW w \in Writers, NEW t \in Mutated, Mutate(w, t) \/ MutateAlone(w, t)
       PROVE  TypeOK'
  <2>1. sweeps' \subseteq Sweep
    BY <1>13, ConstantsAssumption DEF Mutate, MutateAlone, Calls, Sweep
  <2>2. t \in Tables
    BY ConstantsAssumption
  <2>3. wrote' \in [Writers -> SUBSET Tables]
    BY <1>13, <2>2 DEF Mutate, MutateAlone
  <2>4. trx' \in [Writers -> {"idle", "open", "committed", "failed"}]
    BY <1>13 DEF Mutate, MutateAlone
  <2>5. \A v \in Writers : trx[v] = "open" => trx'[v] = "open"
    BY <1>13 DEF Mutate, MutateAlone
  <2>6. UNCHANGED <<savedTags, redis, query, faults>>
    BY <1>13 DEF Mutate, MutateAlone
  <2> QED
    BY <2>1, <2>3, <2>4, <2>5, <2>6 DEF Awaited
<1>14. ASSUME NEW s \in sweeps, Scan(s) PROVE TypeOK'
  <2>1. s \in Sweep /\ WithTag(s.tag) \in SUBSET Keys
    BY DEF WithTag
  <2>2. sweeps' \subseteq Sweep
    BY <1>14, <2>1, SweepUpdate DEF Scan
  <2>3. query' \in [Queries -> Query]
    BY <1>14, <2>1 DEF Scan, Sweep, Query
  <2>4. \A q \in Queries : query'[q].pc = query[q].pc /\ query'[q].by = query[q].by
    BY <1>14, <2>1 DEF Scan, Query
  <2> QED
    BY <1>14, <2>2, <2>3, <2>4 DEF Scan, Awaited
<1>15. ASSUME NEW s \in sweeps, Unlink(s) \/ Forget(s) \/ RevalidateFails(s)
       PROVE  TypeOK'
  <2>1. s \in Sweep
    OBVIOUS
  <2>2. sweeps' \subseteq Sweep
    BY <1>15, <2>1, SweepUpdate DEF Unlink, Forget, RevalidateFails
  <2>3. cache' \in [Keys -> Entry \union {Absent}] /\ tagged' \subseteq Keys
    BY <1>15 DEF Unlink, Forget, RevalidateFails
  <2>4. faults' \in 0..MaxFaults
    BY <1>15, ConstantsAssumption DEF Unlink, Forget, RevalidateFails
  <2> QED
    BY <1>15, <2>2, <2>3, <2>4 DEF Unlink, Forget, RevalidateFails, Awaited
<1>16. CASE UNCHANGED vars
  BY <1>16 DEF vars, Awaited
<1> QED
  BY <1>1, <1>2, <1>3, <1>4, <1>5, <1>6, <1>7, <1>8, <1>9, <1>10, <1>11, <1>12, <1>13,
     <1>14, <1>15, <1>16 DEF Next

\* Whatever the tables, keys and requests are, the queries, the fills and the
\* revalidations keep to their types, and a transaction is open while it awaits
\* a query.
THEOREM TypeCorrect == Spec => []TypeOK
  BY TypeInit, TypeNext, PTL DEF Spec

-----------------------------------------------------------------------------
(* Nothing uncommitted reaches the cache *)

\* A transaction's query that is left to the cache follows nothing that the
\* transaction has changed.
Unchanged(by, k) == by \in Writers => \A t \in wrote[by] : ~Follows(t, k)

Aside ==
    \A q \in Queries :
        Awaited(q) /\ query[q].pc # "bypass" => Unchanged(query[q].by, query[q].key)

\* A transaction that has not begun or has failed has changed nothing.
WroteFits == \A w \in Writers : trx[w] \in {"idle", "failed"} => wrote[w] = {}

CommittedInv == TypeOK /\ OnlyCommitted /\ Aside /\ WroteFits

\* The query has the tag of every table that it follows.
LEMMA FollowedIsTagged ==
    ASSUME NEW k \in Keys, NEW t, Follows(t, k)
    PROVE  t \in TagsOf(k)
  BY DEF Follows, TagsOf

\* What a value tells of what its query follows is committed.
Clean(v, k) == \A c \in v : Follows(c[2], k) => c[1] \in Committed

LEMMA OnlyCommittedIs ==
    OnlyCommitted <=> /\ \A k \in Keys : cache[k] # Absent => Clean(cache[k].value, k)
                      /\ \A q \in Queries : Clean(query[q].value, query[q].key)
  BY DEF OnlyCommitted, Clean

LEMMA CleanKept ==
    ASSUME Committed \subseteq Committed'
    PROVE  \A v, k : Clean(v, k) => \A c \in v : Follows(c[2], k) => c[1] \in Committed'
  BY DEF Clean

LEMMA CleanNothing == \A k : Clean({}, k)
  BY DEF Clean

\* A step that leaves the database alone keeps the invariant if what it puts
\* into the cache and the queries is committed.
LEMMA QuietStep ==
    ASSUME CommittedInv, TypeOK', UNCHANGED <<trx, wrote>>,
           \A k \in Keys : cache'[k] # Absent => Clean(cache'[k].value, k),
           \A q \in Queries : Clean(query'[q].value, query'[q].key),
           \A q \in Queries :
               Awaited(q)' /\ query'[q].pc # "bypass" => Unchanged(query'[q].by, query'[q].key)
    PROVE  CommittedInv'
<1>1. Committed' = Committed
  BY DEF Committed
<1>2. \A by, k : Unchanged(by, k)' <=> Unchanged(by, k)
  BY DEF Unchanged
<1>3. WroteFits'
  BY DEF CommittedInv, WroteFits
<1>4. OnlyCommitted'
  BY <1>1, CleanKept DEF OnlyCommitted
<1>5. Aside'
  BY <1>2 DEF Aside
<1> QED
  BY <1>3, <1>4, <1>5 DEF CommittedInv

LEMMA CommittedInit == Init => CommittedInv
  BY TypeInit, NoQueryType DEF Init, CommittedInv, OnlyCommitted, Aside, WroteFits, Awaited

\* How the queries look after one of them takes a step.
LEMMA QueryStep ==
    ASSUME CommittedInv, NEW q \in Queries,
           NoTags(q) \/ UnlinkUntagged(q) \/ GetFails(q) \/ Tag(q)
    PROVE  /\ \A r \in Queries \ {q} : query'[r] = query[r]
           /\ query'[q].key = query[q].key /\ query'[q].by = query[q].by
           /\ query'[q].value \in {{}, query[q].value}
           /\ Awaited(q)' => Awaited(q) /\ query[q].pc # "bypass"
<1> USE DEF CommittedInv, TypeOK, Query
<1>1. CASE NoTags(q)
  BY <1>1 DEF NoTags, Awaited
<1>2. CASE UnlinkUntagged(q)
  BY <1>2 DEF UnlinkUntagged, Awaited
<1>3. CASE GetFails(q)
  BY <1>3 DEF GetFails, Awaited
<1>4. CASE Tag(q)
  BY <1>4 DEF Tag, Awaited
<1> QED
  BY <1>1, <1>2, <1>3, <1>4

LEMMA CommittedNext == CommittedInv /\ [Next]_vars => CommittedInv'
<1> SUFFICES ASSUME CommittedInv, [Next]_vars PROVE CommittedInv'
  OBVIOUS
<1>t. TypeOK /\ TypeOK'
  BY TypeNext DEF CommittedInv
<1>o. OnlyCommitted /\ Aside /\ WroteFits
  BY DEF CommittedInv
<1>c. /\ \A k \in Keys : cache[k] # Absent => Clean(cache[k].value, k)
      /\ \A q \in Queries : Clean(query[q].value, query[q].key)
      /\ \A k : Clean({}, k)
  BY <1>o, OnlyCommittedIs, CleanNothing
<1>a. \A q \in Queries :
          Awaited(q) /\ query[q].pc # "bypass" => Unchanged(query[q].by, query[q].key)
  BY <1>o DEF Aside
<1> USE DEF database, redis
<1>1. ASSUME NEW q \in Queries, NEW k \in Keys, NEW by \in Writers \union {NoTransaction},
             Ask(q, k, by)
      PROVE  CommittedInv'
  <2>1. /\ query'[q].key = k /\ query'[q].by = by /\ query'[q].value = {}
        /\ query'[q].pc = IF Bypasses(by, k) THEN "bypass" ELSE "get"
        /\ \A r \in Queries \ {q} : query'[r] = query[r]
    BY <1>1, <1>t, NoQueryType DEF Ask, TypeOK, Query
  <2>2. ~Bypasses(by, k) => Unchanged(by, k)
    BY FollowedIsTagged DEF Bypasses, Unchanged
  <2>3. UNCHANGED <<trx, wrote, cache>>
    BY <1>1 DEF Ask
  <2> QED
    BY <2>1, <2>2, <2>3, <1>t, <1>c, <1>a, QuietStep DEF Awaited
<1>2. ASSUME NEW q \in Queries, ReadPastCache(q) \/ Hit(q) \/ NotStored(q) \/ SetFails(q)
      PROVE  CommittedInv'
  <2>1. query'[q] = NoQuery /\ \A r \in Queries \ {q} : query'[r] = query[r]
    BY <1>2, <1>t DEF ReadPastCache, Hit, NotStored, SetFails, TypeOK
  <2>2. UNCHANGED <<trx, wrote, cache>>
    BY <1>2 DEF ReadPastCache, Hit, NotStored, SetFails
  <2> QED
    BY <2>1, <2>2, <1>t, <1>c, <1>a, NoQueryType, QuietStep DEF Awaited
<1>3. ASSUME NEW q \in Queries, Get(q) PROVE CommittedInv'
  <2>0. query[q] \in Query /\ query[q].key \in Keys /\ query[q].pc = "get"
    BY <1>3, <1>t DEF Get, TypeOK, Query
  <2>1. /\ query'[q].key = query[q].key /\ query'[q].by = query[q].by
        /\ Clean(query'[q].value, query[q].key)
    <3>1. CASE cache[query[q].key] = Absent
      <4>1. query'[q] = [query[q] EXCEPT !.pc = "miss"]
        BY <1>3, <1>t, <3>1 DEF Get, TypeOK
      <4> QED
        BY <2>0, <4>1, <1>c, MissUpdate, Zenon
    <3>2. CASE cache[query[q].key] # Absent
      <4>1. cache[query[q].key].value \in SUBSET Change
        BY <2>0, <3>2, <1>t DEF Entry, TypeOK
      <4>2. query'[q] = Checked(query[q], cache[query[q].key].value)
        BY <1>3, <1>t, <3>2 DEF Get, Checked, TypeOK
      <4> QED
        BY <2>0, <3>2, <4>1, <4>2, <1>c, CheckUpdate
    <3> QED
      BY <3>1, <3>2
  <2>2. \A r \in Queries \ {q} : query'[r] = query[r]
    BY <1>3, <1>t DEF Get, TypeOK
  <2>3. UNCHANGED <<trx, wrote, cache>>
    BY <1>3 DEF Get
  <2> QED
    BY <2>0, <2>1, <2>2, <2>3, <1>t, <1>c, <1>a, QuietStep DEF Awaited
<1>4. ASSUME NEW q \in Queries, NoTags(q) \/ UnlinkUntagged(q) \/ GetFails(q) \/ Tag(q)
      PROVE  CommittedInv'
  <2>1. UNCHANGED <<trx, wrote>> /\ \A k \in Keys : cache'[k] \in {Absent, cache[k]}
    BY <1>4, <1>t DEF NoTags, UnlinkUntagged, GetFails, Tag, TypeOK
  <2>2. \A r \in Queries \ {q} : query'[r] = query[r]
    BY <1>4, QueryStep
  <2>3. /\ query'[q].key = query[q].key /\ query'[q].by = query[q].by
        /\ query'[q].value \in {{}, query[q].value}
        /\ Awaited(q)' => Awaited(q) /\ query[q].pc # "bypass"
    BY <1>4, QueryStep
  <2> QED
    BY <2>1, <2>2, <2>3, <1>t, <1>c, <1>a, QuietStep DEF Awaited
<1>5. ASSUME NEW q \in Queries, Read(q) PROVE CommittedInv'
  <2> DEFINE result == ResultFor(query[q].key, query[q].by)
             missed == {w \in Writers : Busy(w)} \ Committed
  <2>0. query[q] \in Query /\ query[q].pc = "miss" /\ query[q].key \in Keys
    BY <1>5, <1>t DEF Read, TypeOK, Query
  <2>1. query'[q] = Told(query[q], result, missed)
    BY <1>5, <1>t DEF Read, Told, TypeOK
  <2>2. result \in SUBSET Change /\ missed \in SUBSET Writers
    BY ResultType
  <2>3. Clean(result, query[q].key)
    <3>1. Unchanged(query[q].by, query[q].key)
      BY <2>0, <1>a DEF Awaited
    <3>2. ASSUME NEW c \in result, Follows(c[2], query[q].key) PROVE c[1] \in Committed
      <4>1. c[1] \in Committed \union {query[q].by} /\ c[2] \in wrote[c[1]] /\ c[1] \in Writers
        BY DEF ResultFor, Change
      <4> QED
        BY <3>1, <3>2, <4>1 DEF Unchanged
    <3> QED
      BY <3>2 DEF Clean
  <2>4. query'[q].pc = "tags" /\ query'[q].value = result /\ query'[q].key = query[q].key
    <3> HIDE DEF result, missed
    <3> QED
      BY <2>0, <2>1, <2>2, ReadUpdate
  <2>5. \A r \in Queries \ {q} : query'[r] = query[r]
    BY <1>5, <1>t DEF Read, TypeOK
  <2>6. UNCHANGED <<trx, wrote, cache>>
    BY <1>5 DEF Read
  <2> HIDE DEF result
  <2> QED
    BY <2>3, <2>4, <2>5, <2>6, <1>t, <1>c, <1>a, QuietStep DEF Awaited
<1>6. ASSUME NEW q \in Queries, Store(q) PROVE CommittedInv'
  <2>1. query'[q] = NoQuery /\ \A r \in Queries \ {q} : query'[r] = query[r]
    BY <1>6, <1>t DEF Store, TypeOK
  <2>2. \A k \in Keys : \/ cache'[k] = cache[k]
                          \/ (k = query[q].key /\ cache'[k].value = query[q].value)
    BY <1>6, <1>t DEF Store, TypeOK
  <2>3. UNCHANGED <<trx, wrote>>
    BY <1>6 DEF Store
  <2> QED
    BY <2>1, <2>2, <2>3, <1>t, <1>c, <1>a, NoQueryType, QuietStep
    DEF Awaited
<1>7. ASSUME NEW k \in Keys, Expire(k) PROVE CommittedInv'
  <2>1. UNCHANGED <<trx, wrote, query>> /\ \A l \in Keys : cache'[l] \in {Absent, cache[l]}
    BY <1>7, <1>t DEF Expire, TypeOK
  <2> QED
    BY <2>1, <1>t, <1>c, <1>a, QuietStep DEF Awaited
<1>8. ASSUME NEW w \in Writers, Begin(w) \/ Commit(w) PROVE CommittedInv'
  <2>1. Committed \subseteq Committed'
    BY <1>8, <1>t DEF Begin, Commit, Committed, TypeOK
  <2>2. \A by, k : Unchanged(by, k)' <=> Unchanged(by, k)
    BY <1>8 DEF Begin, Commit, Unchanged
  <2>3. WroteFits'
    BY <1>8, <1>t, <1>o DEF Begin, Commit, WroteFits, TypeOK
  <2>4. UNCHANGED <<cache, query>>
    BY <1>8 DEF Begin, Commit
  <2> QED
    <3>1. OnlyCommitted'
      BY <2>1, <2>4, <1>o DEF OnlyCommitted
    <3>2. Aside'
      BY <2>2, <2>4, <1>o DEF Aside, Awaited
    <3> QED
      BY <2>3, <3>1, <3>2, <1>t DEF CommittedInv
<1>9. ASSUME NEW w \in Writers,
             (\E t \in Mutated : Mutate(w, t) \/ MutateAlone(w, t)) \/ Rollback(w)
      PROVE  CommittedInv'
  <2>1. Committed \subseteq Committed'
    BY <1>9, <1>t DEF Mutate, MutateAlone, Rollback, Committed, TypeOK
  <2>2. \A q \in Queries : Awaited(q) => query[q].by # w
    <3>1. trx[w] = "idle" \/ BetweenStatements(w)
      BY <1>9 DEF Mutate, MutateAlone, Rollback
    <3>2. \A q \in Queries : Awaited(q) /\ query[q].by \in Writers => trx[query[q].by] = "open"
      BY <1>t DEF TypeOK
    <3> QED
      BY <3>1, <3>2 DEF BetweenStatements
  <2>3. \A v \in Writers \ {w} : wrote'[v] = wrote[v]
    BY <1>9, <1>t DEF Mutate, MutateAlone, Rollback, TypeOK
  <2>4. WroteFits'
    <3>1. \A v \in Writers \ {w} : trx'[v] = trx[v]
      BY <1>9, <1>t DEF Mutate, MutateAlone, Rollback, TypeOK
    <3>2. trx'[w] \in {"open", "committed"} \/ wrote'[w] = {}
      BY <1>9, <1>t DEF Mutate, MutateAlone, Rollback, TypeOK
    <3> QED
      BY <2>3, <3>1, <3>2, <1>o DEF WroteFits
  <2>5. UNCHANGED <<cache, query>>
    BY <1>9 DEF Mutate, MutateAlone, Rollback
  <2> QED
    <3>1. OnlyCommitted'
      BY <2>1, <2>5, <1>o DEF OnlyCommitted
    <3>2. ASSUME NEW q \in Queries, Awaited(q)', query'[q].pc # "bypass"
          PROVE  Unchanged(query[q].by, query[q].key)'
      BY <2>2, <2>3, <2>5, <3>2, <1>a DEF Awaited, Unchanged
    <3>3. Aside'
      BY <2>5, <3>2 DEF Aside
    <3> QED
      BY <2>4, <3>1, <3>3, <1>t DEF CommittedInv
<1>10. ASSUME NEW s \in sweeps, Scan(s) PROVE CommittedInv'
  <2>1. \A q \in Queries : /\ query'[q].key = query[q].key /\ query'[q].by = query[q].by
                           /\ query'[q].pc = query[q].pc /\ query'[q].value = query[q].value
    BY <1>10, <1>t DEF Scan, TypeOK, Query
  <2>2. UNCHANGED <<trx, wrote, cache>>
    BY <1>10 DEF Scan
  <2> QED
    BY <2>1, <2>2, <1>t, <1>c, <1>a, QuietStep DEF Awaited
<1>11. ASSUME NEW s \in sweeps, Unlink(s) \/ Forget(s) \/ RevalidateFails(s)
       PROVE  CommittedInv'
  <2>1. UNCHANGED <<trx, wrote, query>> /\ \A k \in Keys : cache'[k] \in {Absent, cache[k]}
    BY <1>11, <1>t DEF Unlink, Forget, RevalidateFails, TypeOK
  <2> QED
    BY <2>1, <1>t, <1>c, <1>a, QuietStep DEF Awaited
<1>12. CASE UNCHANGED vars
  BY <1>12, <1>t, <1>c, <1>a, QuietStep DEF vars, Awaited
<1> QED
  BY <1>1, <1>2, <1>3, <1>4, <1>5, <1>6, <1>7, <1>8, <1>9, <1>10, <1>11, <1>12 DEF Next

\* Nothing that a transaction has not committed, and that the tags of a query are
\* meant to tell of, is cached for the query or on its way into the cache, whatever
\* triggers there are besides.
THEOREM CachedIsCommitted == Spec => []OnlyCommitted
<1>1. CommittedInv => OnlyCommitted
  BY DEF CommittedInv
<1> QED
  BY CommittedInit, CommittedNext, <1>1, PTL DEF Spec

\* A transaction is never answered from the cache about something that it has
\* changed itself, except by a trigger that has no linked tag.
THEOREM OwnWritesAreSeen == Spec => []OwnWritesSeen
<1>1. CommittedInv => OwnWritesSeen
  BY DEF CommittedInv, Aside, Unchanged, OwnWritesSeen, Awaited
<1> QED
  BY CommittedInit, CommittedNext, <1>1, PTL DEF Spec

-----------------------------------------------------------------------------
(* Only a fill that overlaps a change outlives it *)

\* A call for the change's tag has not looked at the tags yet, or is lost.
Pending(w, t) == \E s \in sweeps : s.by = w /\ s.tag = t /\ s.pc \in {"called", "failed"}

\* The call has found the key and will unlink its value.
Hunting(w, t, k) ==
    \E s \in sweeps : s.by = w /\ s.tag = t /\ s.pc = "unlink" /\ k \in s.keys

\* A fill that does not tell a change knows that it may miss it, or the change's
\* revalidation is still to come.
FillsCovered ==
    \A q \in Queries, w \in Writers : \A t \in wrote[w] :
        Filling(q) /\ Follows(t, query[q].key)
            => \/ <<w, t>> \in query[q].value \/ w \in query[q].missed
               \/ Pending(w, t)

Settled(k) ==
    /\ cache[k] # Absent /\ k \in tagged /\ k \notin halfFilled
    /\ \A q \in Queries : ~(query[q].pc = "value" /\ query[q].key = k)

\* The same of a value that can be served, once the fills of its key are over.
EntriesCovered ==
    \A k \in Keys, w \in Writers : \A t \in wrote[w] :
        Settled(k) /\ Follows(t, k)
            => \/ <<w, t>> \in cache[k].value \/ w \in cache[k].missed
               \/ Pending(w, t) \/ Hunting(w, t, k)

OverlapInv == CommittedInv /\ FillsCovered /\ EntriesCovered

LEMMA OverlapInit == Init => OverlapInv
<1> SUFFICES ASSUME Init PROVE OverlapInv
  OBVIOUS
<1>1. CommittedInv
  BY CommittedInit
<1>3. FillsCovered
  BY NoQueryType DEF Init, FillsCovered, Filling
<1>4. EntriesCovered
  BY DEF Init, EntriesCovered, Settled
<1> QED
  BY <1>1, <1>3, <1>4 DEF OverlapInv

\* A step that starts no fill, revalidates nothing and stores nothing.
LEMMA CalmStep ==
    ASSUME OverlapInv, CommittedInv', UNCHANGED <<wrote, sweeps>>,
           \A q \in Queries : Filling(q)' => query'[q] = query[q],
           \A k \in Keys : Settled(k)' => Settled(k) /\ cache'[k] = cache[k]
    PROVE  OverlapInv'
<1>1. \A w, t, k : (Pending(w, t)' <=> Pending(w, t)) /\ (Hunting(w, t, k)' <=> Hunting(w, t, k))
  BY DEF Pending, Hunting
<1>2. FillsCovered'
  BY <1>1 DEF OverlapInv, FillsCovered, Filling
<1>3. EntriesCovered'
  BY <1>1 DEF OverlapInv, EntriesCovered
<1> QED
  BY <1>2, <1>3 DEF OverlapInv

\* The steps of queries that hit, fail or only get as far as the database.
LEMMA CalmQuery ==
    ASSUME OverlapInv, CommittedInv', NEW q \in Queries,
           \/ \E k \in Keys, by \in Writers \union {NoTransaction} : Ask(q, k, by)
           \/ ReadPastCache(q) \/ Get(q) \/ Hit(q) \/ NoTags(q) \/ UnlinkUntagged(q)
           \/ GetFails(q) \/ NotStored(q) \/ SetFails(q)
    PROVE  OverlapInv'
<1> USE DEF redis, database
<1>t. TypeOK
  BY DEF OverlapInv, CommittedInv
<1>0. query[q] \in Query
  BY <1>t DEF TypeOK
<1>1. UNCHANGED <<wrote, sweeps, tagged>> /\ \A r \in Queries \ {q} : query'[r] = query[r]
  BY <1>t DEF Ask, ReadPastCache, Get, Hit, NoTags, UnlinkUntagged, GetFails, NotStored,
              SetFails, TypeOK
<1>2. ~Filling(q)'
  <2>1. CASE \E k \in Keys, by \in Writers \union {NoTransaction} : Ask(q, k, by)
    <3>1. query'[q].pc \in {"bypass", "get"}
      <4>1. PICK k \in Keys, by \in Writers \union {NoTransaction} : Ask(q, k, by)
        BY <2>1
      <4> QED
        BY <4>1, <1>t, NoQueryType DEF Ask, TypeOK, Query
    <3> QED
      BY <3>1 DEF Filling
  <2>2. CASE ReadPastCache(q) \/ Hit(q) \/ NotStored(q) \/ SetFails(q)
    BY <2>2, <1>t, NoQueryType DEF ReadPastCache, Hit, NotStored, SetFails, Filling, TypeOK
  <2>3. CASE Get(q)
    <3>1. CASE cache[query[q].key] = Absent
      <4>1. query'[q] = [query[q] EXCEPT !.pc = "miss"]
        BY <2>3, <1>t, <3>1 DEF Get, TypeOK
      <4>2. query'[q].pc = "miss"
        BY <1>0, <4>1, MissUpdate, Zenon
      <4> QED
        BY <4>2 DEF Filling
    <3>2. CASE cache[query[q].key] # Absent
      <4>1. cache[query[q].key].value \in SUBSET Change
        BY <1>0, <3>2, <1>t DEF Entry, TypeOK, Query
      <4>2. query'[q] = Checked(query[q], cache[query[q].key].value)
        BY <2>3, <1>t, <3>2 DEF Get, Checked, TypeOK
      <4>3. query'[q].pc = "check"
        BY <1>0, <4>1, <4>2, CheckUpdate
      <4> QED
        BY <4>3 DEF Filling
    <3> QED
      BY <3>1, <3>2
  <2>4. CASE NoTags(q)
    BY <2>4, <1>t DEF NoTags, Filling, TypeOK, Query
  <2>5. CASE UnlinkUntagged(q)
    BY <2>5, <1>t DEF UnlinkUntagged, Filling, TypeOK, Query
  <2>6. CASE GetFails(q)
    BY <2>6, <1>t DEF GetFails, Filling, TypeOK, Query
  <2> QED
    BY <2>1, <2>2, <2>3, <2>4, <2>5, <2>6
<1>3. \A k \in Keys : cache'[k] # Absent => cache'[k] = cache[k]
  BY <1>t DEF Ask, ReadPastCache, Get, Hit, NoTags, UnlinkUntagged, GetFails, NotStored,
              SetFails, TypeOK
<1>4. halfFilled \subseteq halfFilled'
  BY DEF Ask, ReadPastCache, Get, Hit, NoTags, UnlinkUntagged, GetFails, NotStored, SetFails
<1>5. query[q].pc = "value" => query[q].key \in halfFilled'
  BY DEF Ask, ReadPastCache, Get, Hit, NoTags, UnlinkUntagged, GetFails, NotStored, SetFails,
         Idle
<1>6. ASSUME NEW k \in Keys, Settled(k)' PROVE Settled(k) /\ cache'[k] = cache[k]
  <2>1. \A r \in Queries : ~(query[r].pc = "value" /\ query[r].key = k)
    BY <1>1, <1>5, <1>6 DEF Settled
  <2> QED
    BY <1>1, <1>3, <1>4, <1>6, <2>1 DEF Settled
<1> QED
  BY <1>1, <1>2, <1>6, CalmStep DEF Filling

LEMMA OverlapRead ==
    ASSUME OverlapInv, CommittedInv', NEW q \in Queries, Read(q)
    PROVE  OverlapInv'
<1> DEFINE k == query[q].key
           result == ResultFor(k, query[q].by)
           missed == {w \in Writers : Busy(w)} \ Committed
<1> USE DEF redis, database
<1>t. TypeOK /\ WroteFits
  BY DEF OverlapInv, CommittedInv
<1>0. query[q] \in Query /\ k \in Keys /\ query[q].pc = "miss"
  BY <1>t DEF Read, TypeOK, Query
<1>1. UNCHANGED <<trx, wrote, sweeps, cache, tagged, halfFilled>>
  BY DEF Read
<1>2. \A r \in Queries \ {q} : query'[r] = query[r]
  BY <1>t DEF Read, TypeOK
<1>3. query'[q].pc = "tags" /\ query'[q].key = k /\ query'[q].value = result
      /\ query'[q].missed = missed
  <2>1. query'[q] = Told(query[q], result, missed)
    BY <1>t DEF Read, Told, TypeOK
  <2>2. result \in SUBSET Change /\ missed \in SUBSET Writers
    BY ResultType
  <2> HIDE DEF result, missed
  <2> QED
    BY <1>0, <2>1, <2>2, ReadUpdate
<1>4. ASSUME NEW w \in Writers, NEW t \in wrote[w], Follows(t, k)
      PROVE  <<w, t>> \in result \/ w \in missed
  <2>1. trx[w] \in {"open", "committed"}
    BY <1>t DEF WroteFits, TypeOK
  <2>2. CASE trx[w] = "committed"
    <3>1. w \in Committed /\ <<w, t>> \in Change /\ Concerns(t, k)
      BY <1>4, <1>t, <2>2 DEF Committed, Change, TypeOK, Follows
    <3> QED
      BY <3>1 DEF ResultFor
  <2>3. CASE trx[w] = "open"
    BY <2>3 DEF Busy, Committed
  <2> QED
    BY <2>1, <2>2, <2>3
<1>5. \A w, t, l : (Pending(w, t)' <=> Pending(w, t)) /\ (Hunting(w, t, l)' <=> Hunting(w, t, l))
  BY <1>1 DEF Pending, Hunting
<1> HIDE DEF result, missed, k
<1>6. FillsCovered'
  BY <1>1, <1>2, <1>3, <1>4, <1>5 DEF OverlapInv, FillsCovered, Filling
<1>7. EntriesCovered'
  BY <1>0, <1>1, <1>2, <1>3, <1>5 DEF OverlapInv, EntriesCovered, Settled
<1> QED
  BY <1>6, <1>7 DEF OverlapInv

LEMMA OverlapFill ==
    ASSUME OverlapInv, CommittedInv', NEW q \in Queries, Tag(q) \/ Store(q)
    PROVE  OverlapInv'
<1> USE DEF redis, database
<1>t. TypeOK
  BY DEF OverlapInv, CommittedInv
<1>k. query[q] \in Query /\ query[q].key \in Keys
  BY <1>t DEF TypeOK, Query
<1>0. PICK k \in Keys : k = query[q].key
  BY <1>k
<1>1. UNCHANGED <<trx, wrote, sweeps>> /\ \A r \in Queries \ {q} : query'[r] = query[r]
  BY <1>t DEF Tag, Store, TypeOK
<1>2. \A w, t, l : (Pending(w, t)' <=> Pending(w, t)) /\ (Hunting(w, t, l)' <=> Hunting(w, t, l))
  BY <1>1 DEF Pending, Hunting
<1>4. CASE Tag(q)
  <2>1. /\ query'[q].pc = "value" /\ query'[q].key = k /\ Filling(q)
        /\ query'[q].value = query[q].value /\ query'[q].missed = query[q].missed
    BY <1>0, <1>4, <1>t, <1>k DEF Tag, TypeOK, Query, Filling
  <2>2. FillsCovered'
    BY <1>0, <1>1, <1>2, <2>1 DEF OverlapInv, FillsCovered, Filling
  <2>3. \A l \in Keys : Settled(l)' => l # k /\ Settled(l)
    BY <1>0, <1>1, <1>4, <2>1 DEF Settled, Tag
  <2>4. cache' = cache
    BY <1>4 DEF Tag
  <2>5. EntriesCovered'
    BY <1>1, <1>2, <2>3, <2>4 DEF OverlapInv, EntriesCovered
  <2> QED
    BY <2>2, <2>5 DEF OverlapInv
<1>5. CASE Store(q)
  <2>1. query'[q].pc = "idle" /\ query[q].pc = "value"
    BY <1>5, <1>t, NoQueryType DEF Store, TypeOK
  <2>2. FillsCovered'
    BY <1>0, <1>1, <1>2, <2>1 DEF OverlapInv, FillsCovered, Filling
  <2>3. ASSUME NEW l \in Keys, NEW w \in Writers, NEW t \in wrote[w],
               Settled(l)', Follows(t, l), l # k
        PROVE  \/ <<w, t>> \in cache'[l].value \/ w \in cache'[l].missed
               \/ Pending(w, t)' \/ Hunting(w, t, l)'
    <3>1. Settled(l) /\ cache'[l] = cache[l]
      BY <1>0, <1>t, <1>1, <1>5, <2>3 DEF Settled, Store, TypeOK
    <3> QED
      BY <1>2, <2>3, <3>1 DEF OverlapInv, EntriesCovered
  <2>4. ASSUME NEW w \in Writers, NEW t \in wrote[w], Follows(t, k)
        PROVE  <<w, t>> \in cache'[k].value \/ w \in cache'[k].missed \/ Pending(w, t)'
    <3>1. cache'[k].value = query[q].value /\ cache'[k].missed = query[q].missed
      BY <1>0, <1>5, <1>t DEF Store, TypeOK
    <3>2. Filling(q)
      BY <2>1 DEF Filling
    <3> QED
      BY <1>0, <1>2, <2>4, <3>1, <3>2 DEF OverlapInv, FillsCovered
  <2>5. EntriesCovered'
    BY <1>1, <2>3, <2>4 DEF EntriesCovered
  <2> QED
    BY <2>2, <2>5 DEF OverlapInv
<1> QED
  BY <1>4, <1>5

\* A step of a writer: what it changes is told by a call for the tag.
LEMMA WriterStep ==
    ASSUME OverlapInv, CommittedInv', UNCHANGED <<cache, tagged, halfFilled, query>>,
           sweeps \subseteq sweeps',
           \A w \in Writers, k \in Keys : \A t \in wrote'[w] :
               Follows(t, k) => t \in wrote[w] \/ Pending(w, t)'
    PROVE  OverlapInv'
<1>1. \A w, t, k : /\ Pending(w, t) => Pending(w, t)'
                   /\ Hunting(w, t, k) => Hunting(w, t, k)'
  BY DEF Pending, Hunting
<1>2. \A q \in Queries : query[q].key \in Keys
  BY DEF OverlapInv, CommittedInv, TypeOK, Query
<1>3. FillsCovered'
  BY <1>1, <1>2 DEF OverlapInv, FillsCovered, Filling
<1>4. EntriesCovered'
  BY <1>1 DEF OverlapInv, EntriesCovered, Settled
<1> QED
  BY <1>3, <1>4 DEF OverlapInv

LEMMA OverlapWriter ==
    ASSUME OverlapInv, CommittedInv', NEW w \in Writers,
           \/ Begin(w) \/ Commit(w) \/ Rollback(w)
           \/ \E t \in Mutated : Mutate(w, t) \/ MutateAlone(w, t)
    PROVE  OverlapInv'
<1> USE DEF redis, database
<1>t. TypeOK /\ WroteFits
  BY DEF OverlapInv, CommittedInv
<1>1. CASE Begin(w) \/ Commit(w)
  <2>1. UNCHANGED <<cache, tagged, halfFilled, query, sweeps, wrote>>
    BY <1>1 DEF Begin, Commit
  <2> QED
    BY <2>1, WriterStep
<1>2. CASE Rollback(w)
  <2>1. UNCHANGED <<cache, tagged, halfFilled, query>> /\ sweeps \subseteq sweeps'
    BY <1>2 DEF Rollback
  <2>2. wrote'[w] = {} /\ \A v \in Writers \ {w} : wrote'[v] = wrote[v]
    BY <1>2, <1>t DEF Rollback, TypeOK
  <2> QED
    BY <2>1, <2>2, WriterStep
<1>3. ASSUME NEW t \in Mutated, Mutate(w, t) \/ MutateAlone(w, t) PROVE OverlapInv'
  <2>1. UNCHANGED <<cache, tagged, halfFilled, query>> /\ sweeps' = sweeps \union Calls(w, {t})
    BY <1>3 DEF Mutate, MutateAlone
  <2>2. wrote'[w] = wrote[w] \union {t} /\ \A v \in Writers \ {w} : wrote'[v] = wrote[v]
    <3>1. CASE Mutate(w, t)
      BY <3>1, <1>t DEF Mutate, TypeOK
    <3>2. CASE MutateAlone(w, t)
      BY <3>2, <1>t DEF MutateAlone, TypeOK, WroteFits
    <3> QED
      BY <1>3, <3>1, <3>2
  <2>3. ASSUME NEW k \in Keys, Follows(t, k) PROVE Pending(w, t)'
    <3> DEFINE s == [by |-> w, tag |-> t, keys |-> {}, pc |-> "called"]
    <3>1. t \in UNION {TagsOf(l) : l \in Keys}
      BY <2>3, FollowedIsTagged
    <3>2. s \in sweeps'
      BY <2>1, <3>1 DEF Calls
    <3> QED
      BY <3>2 DEF Pending
  <2> QED
    BY <2>1, <2>2, <2>3, WriterStep
<1> QED
  BY <1>1, <1>2, <1>3

\* A call after each of its steps.
Found(s, keys) == [s EXCEPT !.pc = "unlink", !.keys = keys]
Unlinked(s) == [s EXCEPT !.pc = "forget"]
Lost(s) == [s EXCEPT !.pc = "failed", !.keys = {}]

LEMMA SweepFields ==
    ASSUME NEW s \in Sweep, NEW keys \in SUBSET Keys
    PROVE  /\ /\ Found(s, keys).by = s.by /\ Found(s, keys).tag = s.tag
              /\ Found(s, keys).pc = "unlink" /\ Found(s, keys).keys = keys
           /\ /\ Unlinked(s).by = s.by /\ Unlinked(s).tag = s.tag
              /\ Unlinked(s).pc = "forget" /\ Unlinked(s).keys = s.keys
           /\ /\ Lost(s).by = s.by /\ Lost(s).tag = s.tag
              /\ Lost(s).pc = "failed" /\ Lost(s).keys = {}
  BY DEF Sweep, Found, Unlinked, Lost

LEMMA OverlapScan ==
    ASSUME OverlapInv, CommittedInv', NEW s \in sweeps, Scan(s)
    PROVE  OverlapInv'
<1> USE DEF redis, database
<1>t. TypeOK /\ s \in Sweep /\ s.pc = "called"
  BY DEF OverlapInv, CommittedInv, TypeOK, Scan
<1>1. PICK keys : keys = WithTag(s.tag)
  OBVIOUS
<1>2. PICK found : /\ found = Found(s, keys)
                   /\ found.by = s.by /\ found.tag = s.tag /\ found.pc = "unlink"
                   /\ found.keys = keys
  <2>1. keys \in SUBSET Keys
    BY <1>t, <1>1 DEF TypeOK, WithTag
  <2> QED
    BY <1>t, <2>1, SweepFields
<1>3. sweeps' = (sweeps \ {s}) \union (IF keys = {} THEN {} ELSE {found})
  BY <1>1, <1>2 DEF Scan, Found
<1>4. UNCHANGED <<trx, wrote, cache, tagged, halfFilled>>
  BY DEF Scan
<1>5. ASSUME NEW q \in Queries
      PROVE  /\ query'[q].pc = query[q].pc /\ query'[q].key = query[q].key
             /\ query'[q].value = query[q].value /\ query[q].missed \subseteq query'[q].missed
             /\ Filling(q) /\ s.tag \in TagsOf(query[q].key)
                  => <<s.by, s.tag>> \in query'[q].value \/ s.by \in query'[q].missed
  BY <1>t DEF Scan, TypeOK, Query
<1>6. \A w, t : Pending(w, t) => Pending(w, t)' \/ (w = s.by /\ t = s.tag)
  BY <1>3 DEF Pending
<1>7. \A w, t, k : Hunting(w, t, k) => Hunting(w, t, k)'
  BY <1>3, <1>t DEF Hunting
<1>8. \A q \in Queries : \A t : Follows(t, query[q].key) => t \in TagsOf(query[q].key)
  BY <1>t, FollowedIsTagged DEF TypeOK, Query
<1>9. FillsCovered'
  BY <1>4, <1>5, <1>6, <1>8 DEF OverlapInv, FillsCovered, Filling
<1>10. ASSUME NEW k \in Keys, k \in tagged, Follows(s.tag, k) PROVE Hunting(s.by, s.tag, k)'
  <2>1. k \in keys /\ found \in sweeps'
    BY <1>1, <1>3, <1>10, FollowedIsTagged DEF WithTag
  <2> QED
    BY <2>1, <1>2 DEF Hunting
<1>11. \A k \in Keys : Settled(k)' => Settled(k) /\ k \in tagged
  BY <1>4, <1>5 DEF Settled
<1>12. EntriesCovered'
  BY <1>4, <1>6, <1>7, <1>10, <1>11 DEF OverlapInv, EntriesCovered
<1> QED
  BY <1>9, <1>12 DEF OverlapInv

LEMMA OverlapSweep ==
    ASSUME OverlapInv, CommittedInv', NEW s \in sweeps,
           Unlink(s) \/ Forget(s) \/ RevalidateFails(s)
    PROVE  OverlapInv'
<1> USE DEF redis, database
<1>t. TypeOK /\ s \in Sweep
  BY DEF OverlapInv, CommittedInv, TypeOK
<1>1. UNCHANGED <<trx, wrote, halfFilled, query>>
  BY DEF Unlink, Forget, RevalidateFails
<1>2. ASSUME \A w, t : Pending(w, t) => Pending(w, t)',
             \A k \in Keys, w \in Writers : \A t :
                 Settled(k)' => /\ Settled(k) /\ cache'[k] = cache[k]
                                /\ Hunting(w, t, k) => Hunting(w, t, k)' \/ Pending(w, t)'
      PROVE  OverlapInv'
  <2>1. FillsCovered'
    BY <1>1, <1>2 DEF OverlapInv, FillsCovered, Filling
  <2>2. EntriesCovered'
    BY <1>1, <1>2 DEF OverlapInv, EntriesCovered
  <2> QED
    BY <2>1, <2>2 DEF OverlapInv
<1>3. CASE Unlink(s)
  <2>1. PICK later : /\ later = Unlinked(s)
                     /\ later.by = s.by /\ later.tag = s.tag /\ later.keys = s.keys
                     /\ later.pc = "forget"
    BY <1>t, SweepFields
  <2>2. s.pc = "unlink" /\ sweeps' = (sweeps \ {s}) \union {later}
    BY <1>3, <2>1 DEF Unlink, Unlinked
  <2>3. \A w, t : Pending(w, t) => Pending(w, t)'
    BY <2>2 DEF Pending
  <2>4. ASSUME NEW k \in Keys, NEW w \in Writers, NEW t, Settled(k)'
        PROVE  Settled(k) /\ cache'[k] = cache[k] /\ (Hunting(w, t, k) => Hunting(w, t, k)')
    <3>1. k \notin s.keys /\ cache'[k] = cache[k] /\ tagged' = tagged
      BY <1>3, <2>4 DEF Unlink, Settled
    <3> QED
      BY <1>1, <2>2, <2>4, <3>1 DEF Settled, Hunting
  <2> QED
    BY <1>2, <2>3, <2>4
<1>4. CASE Forget(s)
  <2>1. s.pc = "forget" /\ sweeps' = sweeps \ {s} /\ cache' = cache /\ tagged' \subseteq tagged
    BY <1>4 DEF Forget
  <2> QED
    BY <1>1, <1>2, <1>t, <2>1 DEF Pending, Hunting, Settled
<1>5. CASE RevalidateFails(s)
  <2>1. PICK lost : /\ lost = Lost(s)
                    /\ lost.by = s.by /\ lost.tag = s.tag /\ lost.keys = {}
                    /\ lost.pc = "failed"
    BY <1>t, SweepFields
  <2>2. sweeps' = (sweeps \ {s}) \union {lost} /\ cache' = cache /\ tagged' = tagged
    BY <1>5, <2>1 DEF RevalidateFails, Lost
  <2>3. \A w, t : Pending(w, t) => Pending(w, t)'
    BY <2>1, <2>2 DEF Pending
  <2>4. \A w, t, k : Hunting(w, t, k) => Hunting(w, t, k)' \/ Pending(w, t)'
    BY <1>t, <2>1, <2>2 DEF Pending, Hunting
  <2>5. \A k \in Keys : Settled(k)' => Settled(k)
    BY <1>1, <2>2 DEF Settled
  <2> QED
    BY <1>2, <2>2, <2>3, <2>4, <2>5
<1> QED
  BY <1>3, <1>4, <1>5

LEMMA OverlapNext == OverlapInv /\ [Next]_vars => OverlapInv'
<1> SUFFICES ASSUME OverlapInv, [Next]_vars PROVE OverlapInv'
  OBVIOUS
<1>1. CommittedInv'
  BY CommittedNext DEF OverlapInv
<1>2. CASE UNCHANGED vars
  BY <1>1, <1>2, CalmStep DEF vars, Settled
<1>3. ASSUME NEW q \in Queries, ~(Read(q) \/ Tag(q) \/ Store(q)),
             \/ \E k \in Keys, by \in Writers \union {NoTransaction} : Ask(q, k, by)
             \/ ReadPastCache(q)
             \/ Get(q) \/ Hit(q) \/ NoTags(q) \/ UnlinkUntagged(q) \/ GetFails(q)
             \/ NotStored(q) \/ SetFails(q)
      PROVE  OverlapInv'
  BY <1>1, <1>3, CalmQuery
<1>4. ASSUME NEW k \in Keys, Expire(k) PROVE OverlapInv'
  <2>1. UNCHANGED <<wrote, sweeps, query, tagged, halfFilled>>
    BY <1>4 DEF Expire, database
  <2>2. \A l \in Keys : cache'[l] # Absent => cache'[l] = cache[l]
    BY <1>4 DEF Expire, OverlapInv, CommittedInv, TypeOK
  <2> QED
    BY <1>1, <2>1, <2>2, CalmStep DEF Settled
<1> QED
  BY <1>1, <1>2, <1>3, <1>4, OverlapRead, OverlapFill, OverlapWriter, OverlapScan, OverlapSweep
  DEF Next

\* A value that can be served and does not tell a change which its query follows
\* and whose revalidation is over was read or stored while that change went on, for
\* any number of queries, changes and failures.
THEOREM OnlyOverlapsGoStale == Spec => []StaleHasOverlap
<1>1. OverlapInv => StaleHasOverlap
  <2>1. \A w, t, k : Pending(w, t) \/ Hunting(w, t, k) => Busy(w)
    BY DEF Pending, Hunting, Busy
  <2> QED
    BY <2>1 DEF OverlapInv, EntriesCovered, StaleHasOverlap, Settled, KnowsTags
<1> QED
  BY OverlapInit, OverlapNext, <1>1, PTL DEF Spec
=============================================================================
