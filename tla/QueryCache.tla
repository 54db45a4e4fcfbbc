------------------------------ MODULE QueryCache ------------------------------
(***************************************************************************)
(* The cache of query results: autoCache and autoRevalidate over Next's    *)
(* data cache, kept in Redis by cache-handler.mjs.  Redis holds a value    *)
(* per key and, in one hash, the tags of each key; a value is stored with  *)
(* several commands and a tag is revalidated with several more, and those  *)
(* of different requests interleave with each other and with the           *)
(* transactions that change the tables.                                    *)
(*                                                                         *)
(* The database shows the changes of its writers, one transaction (or      *)
(* single mutation) each; a change is a writer with the table its mutation *)
(* names, and a query's result is the set of changes that it tells.        *)
(***************************************************************************)
EXTENDS Naturals, FiniteSets

CONSTANTS
    Tables,             \* one tag each, of one community
    Keys,               \* cache keys: the cached queries with their parameters
    Writers,            \* transactions and single mutations, one-shot
    Queries,            \* executions of cached queries going on at one time
    Reads,              \* findTables: the tables each query mentions
    LinkedCacheTags,    \* LINKED_CACHE_TAGS
    TriggerUpdates,     \* the tables that triggers on a table change
    Mutated,            \* bound: the tables that mutations name
    MaxChanges,         \* bound on changes and failed transactions
    MaxFaults,          \* bound on failing Redis commands
    NoTransaction, Absent

ASSUME ConstantsAssumption ==
    /\ Keys # {}
    /\ Reads \in [Keys -> SUBSET Tables]
    /\ LinkedCacheTags \in [Tables -> SUBSET Tables]
    /\ TriggerUpdates \in [Tables -> SUBSET Tables]
    /\ Mutated \subseteq Tables
    /\ MaxChanges \in Nat
    /\ MaxFaults \in Nat
    /\ NoTransaction \notin Writers

Change == Writers \X Tables

\* A stored value.  missed is a ghost: the writers that were at work, or whose
\* revalidation looked at the tags, between the database read and the SET.
Entry == [value : SUBSET Change, missed : SUBSET Writers]

ASSUME AbsentAssumption == Absent \notin Entry

Sweep == [by : Writers, tag : Tables, keys : SUBSET Keys,
          pc : {"called", "unlink", "forget", "failed"}]

VARIABLES
    trx,        \* state of each writer's transaction
    wrote,      \* revalidateTags of its store: the tables its mutations name
    savedTags,  \* savedTags of its store
    cache,      \* Redis: the value at each key
    tagged,     \* Redis: the keys in the hash __sharedTags__
    query,      \* the queries going on
    sweeps,     \* calls of revalidateTag that are not over
    halfFilled, \* keys whose last fill failed between its two commands
    faults

vars == <<trx, wrote, savedTags, cache, tagged, query, sweeps, halfFilled, faults>>
database == <<trx, wrote, savedTags>>
redis == <<cache, tagged, halfFilled>>

-----------------------------------------------------------------------------
(* The database *)

\* What a mutation of the table changes, triggers included.
Changed(t) == {t} \union TriggerUpdates[t]

\* Such a mutation may change the query's result.
Concerns(t, k) == Changed(t) \cap Reads[k] # {}

Committed == {w \in Writers : trx[w] = "committed"}

\* Read committed: a statement sees what is committed and what its own
\* transaction has done.
ResultFor(k, by) ==
    {c \in Change : /\ c[1] \in Committed \union {by}
                   /\ c[2] \in wrote[c[1]] /\ Concerns(c[2], k)}

-----------------------------------------------------------------------------
(* autoCache *)

\* Mutant of TagsOf: getTablesWithLinkedTables left out.
TagsWithoutLinks(k) == Reads[k]

TagsOf(k) == Reads[k] \union UNION {LinkedCacheTags[t] : t \in Reads[k]}

\* Mutant of Bypasses: a transaction uses the cache like everybody else.
NeverBypasses(w, k) == FALSE

\* handleTransactionLogicAndDetermineWhetherToSkipCache; the check of the keys
\* always passes, the key was added right before it.
Bypasses(w, k) == w \in Writers /\ wrote[w] \cap TagsOf(k) # {}

\* The request waits for the result; a fill goes on behind its back.
Awaited(q) == query[q].pc \in {"get", "check", "unlink", "miss", "bypass"}
Filling(q) == query[q].pc \in {"tags", "value"}
Idle(q) == query[q].pc = "idle"

\* Mutant of BetweenStatements: the transaction does not await its queries.
NeverAwaits(w) == TRUE

\* A transaction runs its statements one after the other.
BetweenStatements(w) == \A q \in Queries : ~(Awaited(q) /\ query[q].by = w)

NoQuery == [pc |-> "idle", key |-> CHOOSE k \in Keys : TRUE, by |-> NoTransaction,
            value |-> {}, missed |-> {}]

Ask(q, k, by) ==
    /\ Idle(q)
    /\ by \in Writers => trx[by] = "open" /\ BetweenStatements(by)
    /\ query' = [query EXCEPT ![q] =
                   [NoQuery EXCEPT !.key = k, !.by = by,
                                   !.pc = IF Bypasses(by, k) THEN "bypass" ELSE "get"]]
    /\ savedTags' = [w \in Writers |-> IF w = by THEN savedTags[w] \union TagsOf(k)
                                                ELSE savedTags[w]]
    /\ UNCHANGED <<trx, wrote, redis, sweeps, faults>>

\* The query goes to the database and its result past the cache.
ReadPastCache(q) ==
    /\ query[q].pc = "bypass"
    /\ query' = [query EXCEPT ![q] = NoQuery]
    /\ UNCHANGED <<database, redis, sweeps, faults>>

-----------------------------------------------------------------------------
(* get of cache-handler.mjs *)

Get(q) ==
    LET found == cache[query[q].key]
    IN  /\ query[q].pc = "get"
        /\ query' = [query EXCEPT
               ![q] = IF found = Absent THEN [@ EXCEPT !.pc = "miss"]
                      ELSE [@ EXCEPT !.pc = "check", !.value = found.value]]
        /\ UNCHANGED <<database, redis, sweeps, faults>>

\* Mutant of KnowsTags: a value is served whether its tags are there or not.
KnowsAnyTags(k) == TRUE

KnowsTags(k) == k \in tagged

Hit(q) ==
    /\ query[q].pc = "check" /\ KnowsTags(query[q].key)
    /\ query' = [query EXCEPT ![q] = NoQuery]
    /\ UNCHANGED <<database, redis, sweeps, faults>>

\* Without its tags no revalidation would find the value.
NoTags(q) ==
    /\ query[q].pc = "check" /\ ~KnowsTags(query[q].key)
    /\ query' = [query EXCEPT ![q].pc = "unlink", ![q].value = {}]
    /\ UNCHANGED <<database, redis, sweeps, faults>>

UnlinkUntagged(q) ==
    /\ query[q].pc = "unlink"
    /\ cache' = [cache EXCEPT ![query[q].key] = Absent]
    /\ query' = [query EXCEPT ![q].pc = "miss"]
    /\ UNCHANGED <<database, tagged, halfFilled, sweeps, faults>>

\* A failing command, or a client that is not ready, is a miss.
GetFails(q) ==
    /\ query[q].pc \in {"get", "check", "unlink"}
    /\ faults < MaxFaults
    /\ faults' = faults + 1
    /\ query' = [query EXCEPT ![q].pc = "miss", ![q].value = {}]
    /\ UNCHANGED <<database, redis, sweeps>>

-----------------------------------------------------------------------------
(* A miss: the database is read, the request goes on and set of             *)
(* cache-handler.mjs stores the result.                                     *)

Busy(w) == trx[w] = "open" \/ \E s \in sweeps : s.by = w

Read(q) ==
    /\ query[q].pc = "miss"
    /\ query' = [query EXCEPT
           ![q] = [@ EXCEPT
               !.pc = "tags", !.by = NoTransaction,
               !.value = ResultFor(query[q].key, query[q].by),
               !.missed = {w \in Writers : Busy(w)} \ Committed]]
    /\ UNCHANGED <<database, redis, sweeps, faults>>

Tag(q) ==
    /\ query[q].pc = "tags"
    /\ tagged' = tagged \union {query[q].key}
    /\ query' = [query EXCEPT ![q].pc = "value"]
    /\ UNCHANGED <<database, cache, halfFilled, sweeps, faults>>

Store(q) ==
    /\ query[q].pc = "value"
    /\ cache' = [cache EXCEPT ![query[q].key] =
                   [value |-> query[q].value, missed |-> query[q].missed]]
    /\ halfFilled' = halfFilled \ {query[q].key}
    /\ query' = [query EXCEPT ![q] = NoQuery]
    /\ UNCHANGED <<database, tagged, sweeps, faults>>

\* Values beyond MAX_CACHE_ENTRY_SIZE are not stored, and neither is one whose
\* first command fails.
NotStored(q) ==
    /\ query[q].pc = "tags"
    /\ query' = [query EXCEPT ![q] = NoQuery]
    /\ UNCHANGED <<database, redis, sweeps, faults>>

\* The SET fails or the process ends before it.
SetFails(q) ==
    /\ query[q].pc = "value"
    /\ faults < MaxFaults
    /\ faults' = faults + 1
    /\ halfFilled' = halfFilled \union {query[q].key}
    /\ query' = [query EXCEPT ![q] = NoQuery]
    /\ UNCHANGED <<database, cache, tagged, sweeps>>

\* EXAT: only the value expires.
Expire(k) ==
    /\ cache[k] # Absent
    /\ cache' = [cache EXCEPT ![k] = Absent]
    /\ UNCHANGED <<database, tagged, halfFilled, query, sweeps, faults>>

-----------------------------------------------------------------------------
(* autoRevalidate and maybeWithTrx *)

\* A failed transaction, whose changes are undone, counts as one.
Room == Cardinality({c \in Change : c[2] \in wrote[c[1]]} \union {w \in Writers : trx[w] = "failed"})
            < MaxChanges

\* A call for a tag that none of the queries has finds nothing and is left out.
Calls(w, tags) ==
    [by : {w}, tag : tags \intersect UNION {TagsOf(k) : k \in Keys}, keys : {{}}, pc : {"called"}]

Begin(w) ==
    /\ trx[w] = "idle"
    /\ trx' = [trx EXCEPT ![w] = "open"]
    /\ UNCHANGED <<wrote, savedTags, redis, query, sweeps, faults>>

\* A mutation in a transaction (one per table); its tag is revalidated before the commit or
\* after it, when Next gets to it.
Mutate(w, t) ==
    /\ trx[w] = "open" /\ BetweenStatements(w)
    /\ t \notin wrote[w] /\ Room
    /\ wrote' = [wrote EXCEPT ![w] = @ \union {t}]
    /\ sweeps' = sweeps \union Calls(w, {t})
    /\ UNCHANGED <<trx, savedTags, redis, query, faults>>

\* A mutation without a transaction commits at once.
MutateAlone(w, t) ==
    /\ trx[w] = "idle" /\ Room
    /\ trx' = [trx EXCEPT ![w] = "committed"]
    /\ wrote' = [wrote EXCEPT ![w] = {t}]
    /\ sweeps' = sweeps \union Calls(w, {t})
    /\ UNCHANGED <<savedTags, redis, query, faults>>

Commit(w) ==
    /\ trx[w] = "open" /\ BetweenStatements(w)
    /\ trx' = [trx EXCEPT ![w] = "committed"]
    /\ savedTags' = [savedTags EXCEPT ![w] = {}]
    /\ UNCHANGED <<wrote, redis, query, sweeps, faults>>

\* After an error the tags of everything the transaction queried are
\* revalidated.
Rollback(w) ==
    /\ trx[w] = "open" /\ BetweenStatements(w)
    /\ trx' = [trx EXCEPT ![w] = "failed"]
    /\ sweeps' = sweeps \union Calls(w, savedTags[w])
    /\ savedTags' = [savedTags EXCEPT ![w] = {}]
    /\ wrote' = [wrote EXCEPT ![w] = {}]
    /\ UNCHANGED <<redis, query, faults>>

-----------------------------------------------------------------------------
(* revalidateTag of cache-handler.mjs.  revalidateSharedKeys looks for       *)
(* expired keys in the hash of the tags, not in that of the times to live,   *)
(* and so never finds one.                                                   *)

WithTag(t) == {k \in tagged : t \in TagsOf(k)}

\* revalidateTags: HSCAN of all tags, in one portion.
Scan(s) ==
    LET keys == WithTag(s.tag)
    IN  /\ s \in sweeps /\ s.pc = "called"
        /\ sweeps' = (sweeps \ {s}) \union
               (IF keys = {} THEN {} ELSE {[s EXCEPT !.pc = "unlink", !.keys = keys]})
        /\ query' = [q \in Queries |->
               IF Filling(q) /\ s.tag \in TagsOf(query[q].key)
                  /\ <<s.by, s.tag>> \notin query[q].value
               THEN [query[q] EXCEPT !.missed = @ \union {s.by}] ELSE query[q]]
        /\ UNCHANGED <<database, redis, faults>>

Unlink(s) ==
    /\ s \in sweeps /\ s.pc = "unlink"
    /\ cache' = [k \in Keys |-> IF k \in s.keys THEN Absent ELSE cache[k]]
    /\ sweeps' = (sweeps \ {s}) \union {[s EXCEPT !.pc = "forget"]}
    /\ UNCHANGED <<database, tagged, halfFilled, query, faults>>

Forget(s) ==
    /\ s \in sweeps /\ s.pc = "forget"
    /\ tagged' = tagged \ s.keys
    /\ sweeps' = sweeps \ {s}
    /\ UNCHANGED <<database, cache, halfFilled, query, faults>>

\* A command fails or the process ends: the call is lost.
RevalidateFails(s) ==
    /\ s \in sweeps /\ s.pc # "failed"
    /\ faults < MaxFaults
    /\ faults' = faults + 1
    /\ sweeps' = (sweeps \ {s}) \union {[s EXCEPT !.pc = "failed", !.keys = {}]}
    /\ UNCHANGED <<database, redis, query>>

-----------------------------------------------------------------------------
Init ==
    /\ trx = [w \in Writers |-> "idle"]
    /\ wrote = [w \in Writers |-> {}]
    /\ savedTags = [w \in Writers |-> {}]
    /\ cache = [k \in Keys |-> Absent]
    /\ tagged = {}
    /\ query = [q \in Queries |-> NoQuery]
    /\ sweeps = {}
    /\ halfFilled = {}
    /\ faults = 0

Next ==
    \/ \E q \in Queries :
        \/ \E k \in Keys, by \in Writers \union {NoTransaction} : Ask(q, k, by)
        \/ ReadPastCache(q)
        \/ Get(q) \/ Hit(q) \/ NoTags(q) \/ UnlinkUntagged(q) \/ GetFails(q)
        \/ Read(q) \/ Tag(q) \/ Store(q) \/ NotStored(q) \/ SetFails(q)
    \/ \E k \in Keys : Expire(k)
    \/ \E w \in Writers :
        \/ Begin(w) \/ Commit(w) \/ Rollback(w)
        \/ \E t \in Mutated : Mutate(w, t) \/ MutateAlone(w, t)
    \/ \E s \in sweeps : Scan(s) \/ Unlink(s) \/ Forget(s) \/ RevalidateFails(s)

Spec == Init /\ [][Next]_vars

-----------------------------------------------------------------------------
(* Properties *)

Query == [pc : {"idle", "get", "check", "unlink", "miss", "bypass", "tags", "value"},
          key : Keys, by : Writers \union {NoTransaction},
          value : SUBSET Change, missed : SUBSET Writers]

\* Type invariant: what the queries, the calls of revalidateTag and Redis hold;
\* a query that is awaited by a transaction runs while it is open.
TypeOK ==
    /\ trx \in [Writers -> {"idle", "open", "committed", "failed"}]
    /\ wrote \in [Writers -> SUBSET Tables]
    /\ savedTags \in [Writers -> SUBSET Tables]
    /\ cache \in [Keys -> Entry \union {Absent}]
    /\ tagged \subseteq Keys
    /\ query \in [Queries -> Query]
    /\ \A q \in Queries : Awaited(q) /\ query[q].by \in Writers => trx[query[q].by] = "open"
    /\ sweeps \subseteq Sweep
    /\ halfFilled \subseteq Keys
    /\ faults \in 0..MaxFaults

\* A mutation of t concerns the query, and the query's tags are meant to name t:
\* it reads t, or a table that t is linked to in specialTables.ts.  What the
\* properties leave out is exactly a change that a trigger makes without a link,
\* as that of PubsInStages makes to pubs: nothing revalidates for it.
Follows(t, k) ==
    /\ Concerns(t, k)
    /\ t \in Reads[k] \/ \E u \in Reads[k] : t \in LinkedCacheTags[u]

\* Nothing that is, or is about to be, in the cache tells a change that the query
\* follows and that has not committed, be it that its transaction goes on or that
\* it failed, whatever unlinked changes the same transaction made.
OnlyCommitted ==
    /\ \A k \in Keys : cache[k] # Absent =>
           \A c \in cache[k].value : Follows(c[2], k) => c[1] \in Committed
    /\ \A q \in Queries : \A c \in query[q].value :
           Follows(c[2], query[q].key) => c[1] \in Committed

\* What the cache answers a query of a transaction with tells every change the
\* transaction itself has made and the query follows.
OwnWritesSeen ==
    \A q \in Queries :
        query[q].pc = "check" /\ query[q].by \in Writers
            => \A t \in wrote[query[q].by] :
                   Follows(t, query[q].key) => <<query[q].by, t>> \in query[q].value

\* With no fill of its key under way or broken off, a value that can be served
\* and does not tell a committed change that its query follows, and whose
\* revalidations are over, was read while the writer's transaction was open, or
\* stored after its revalidation had looked for it: only a fill that overlaps a
\* change outlives it.
StaleHasOverlap ==
    \A k \in Keys, w \in Writers :
        /\ cache[k] # Absent /\ KnowsTags(k) /\ k \notin halfFilled
        /\ \A q \in Queries : ~(query[q].pc = "value" /\ query[q].key = k)
        /\ trx[w] = "committed" /\ ~Busy(w) /\ w \notin cache[k].missed
        => \A t \in wrote[w] : Follows(t, k) => <<w, t>> \in cache[k].value
=============================================================================
