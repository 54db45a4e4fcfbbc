----------------------------- MODULE Backups_proofs -----------------------------
(***************************************************************************)
(* Proofs about Backups, for any number of records, jobs, configurations,  *)
(* seconds and faults: every variable keeps its type, a backup that reads  *)
(* completed is in the bucket, and no object there is forgotten, each but  *)
(* for the exceptions that the property names.                             *)
(***************************************************************************)
EXTENDS Backups, TLAPS

-----------------------------------------------------------------------------
(* The inductive invariant.                                                *)

Types ==
    /\ now \in Seconds /\ config \in Configs /\ faults \in 0..MaxFaults
    /\ records \in [Ids -> Record]
    /\ objects \subseteq Seconds /\ crossed \subseteq Seconds
    /\ jobs \in [Jobs -> Job]
    /\ asked \subseteq Ids
    /\ deletion \in Deletion
    /\ runsAt \in [Seconds -> 0..2]

Waiting == {"none", "queued"}

\* Who has a record and a second at which place.
Placed ==
    /\ \A j \in Jobs :
           /\ jobs[j].pc \notin Waiting => jobs[j].key \in Seconds
           /\ jobs[j].pc \notin Waiting \union {"upsert"} => jobs[j].id \in Ids
           /\ jobs[j].expired \subseteq Ids \X Seconds
    /\ \A i \in Ids : /\ Completed(i) => records[i].key \in Seconds
                      /\ records[i].status = "unused" => records[i].key = Queued
    /\ IF deletion.pc = "idle" THEN deletion = NoDeletion ELSE deletion.id \in Ids

\* A dump is unlinked by each of the runs that may have made it.
Dumped(j) == jobs[j].pc \notin Waiting \union {"upsert", "mark", "dump"}

Filed == \A file \in files : \E j \in Jobs : Dumped(j) /\ jobs[j].key = file

\* A record belongs to one job.
Holds(j, i) == jobs[j].payload = i \/ jobs[j].id = i

Held ==
    /\ \A i \in Ids : \A j, l \in Jobs : Holds(j, i) /\ Holds(l, i) => j = l
    /\ \A i \in asked : records[i].status # "unused" /\ \A j \in Jobs : ~Holds(j, i)
    /\ \A j \in Jobs : \A i \in Ids : Holds(j, i) => records[i].status # "unused"
    /\ \A j \in Jobs : jobs[j].payload \in Ids => jobs[j].id \in {NoRecord, jobs[j].payload}

Active(j) == jobs[j].pc \in {"mark", "dump", "upload", "complete"}

\* The record of a run has the key of the run, and reads completed at most
\* until it is marked as in progress.
Marked ==
    \A j \in Jobs :
        /\ Active(j) /\ Live(jobs[j].id) => records[jobs[j].id].key = jobs[j].key
        /\ Active(j) /\ jobs[j].pc # "mark" => ~Completed(jobs[j].id)

\* Whoever has read that key of that record.
Owns(i, key) ==
    \/ records[i].key = key
    \/ deletion.id = i /\ deletion.key = key
    \/ \E j \in Jobs : \/ <<i, key>> \in jobs[j].expired
                       \/ Active(j) /\ jobs[j].id = i /\ jobs[j].key = key

Fresh(j, key) == jobs[j].pc = "upsert" /\ jobs[j].key = key

\* A key that one run has is the key of one record, once the run has one.
Owned ==
    \A key \in Seconds :
        /\ \/ key \in objects
           \/ \E i \in Ids : Owns(i, key)
           \/ \E j \in Jobs : Fresh(j, key)
           => runsAt[key] # 0
        /\ ~Shared(key) =>
               /\ \A a, b \in Ids : Owns(a, key) /\ Owns(b, key) => a = b
               /\ \A j \in Jobs : Fresh(j, key) =>
                      /\ key \notin objects
                      /\ \A i \in Ids : ~Owns(i, key)
                      /\ \A l \in Jobs : Fresh(l, key) => l = j

Safe(key) == key \in crossed \/ Shared(key)

Cleans(l) == jobs[l].pc \in {"objects", "rows"}

\* What a run has uploaded is there until it is completed; a cleanup that had
\* the record in hand has been crossed.
Uploaded ==
    \A j \in Jobs : jobs[j].pc = "complete" =>
        /\ Live(jobs[j].id) =>
               \/ jobs[j].key \in objects
               \/ Safe(jobs[j].key)
               \/ deletion = [pc |-> "commit", id |-> jobs[j].id, key |-> jobs[j].key]
        /\ \A l \in Jobs : Cleans(l) /\ <<jobs[j].id, jobs[j].key>> \in jobs[l].expired =>
               Safe(jobs[j].key)

Old(i) == \E c \in Configs : records[i].completedAt + c.retention < now

\* A cleanup has completed backups in hand that are old, if they are still the same.
ExpiredAreOld ==
    \A l \in Jobs, i \in Ids :
        Cleans(l) /\ <<i, records[i].key>> \in jobs[l].expired /\ Completed(i) =>
            Old(i) \/ Safe(records[i].key) \/ RunsAgain(i)

\* An object that comes back under a record that is about to go has crossed.
Removed ==
    /\ \A l \in Jobs, i \in Ids, key \in Seconds :
           /\ Cleans(l) /\ <<i, key>> \in jobs[l].expired
           /\ Live(i) /\ records[i].key \in objects
           /\ jobs[l].pc = "rows" \/ records[i].key # key
           => Safe(records[i].key)
    /\ LET i == deletion.id
       IN  /\ deletion.pc # "idle"
           /\ Live(i) /\ records[i].key \in objects
           /\ deletion.pc = "commit" \/ records[i].key # deletion.key
           => Safe(records[i].key)

IInv ==
    /\ Types /\ Placed /\ Filed /\ Held /\ Marked /\ Owned
    /\ Uploaded /\ ExpiredAreOld /\ CompletedIsStored /\ Removed

-----------------------------------------------------------------------------
(* What the conjuncts rest on.                                             *)

\* Initially there is nothing.
LEMMA InitIInv == Init => IInv
<1> SUFFICES ASSUME Init  PROVE IInv
  OBVIOUS
<1> USE ConstantsAssumption
<1>1. Types
  <2>1. now \in Seconds /\ faults \in 0..MaxFaults /\ runsAt \in [Seconds -> 0..2]
    BY SMT DEF Init, Seconds
  <2>2. \A i \in Ids : records[i] \in Record
    <3>1. 0 \in Seconds  BY SMT DEF Seconds
    <3> QED  BY <3>1 DEF Init, Record, Names
  <2>3. NoJob \in Job  BY DEF NoJob, Job, Names
  <2>4. deletion \in Deletion  BY DEF Init, NoDeletion, Deletion, Names
  <2>5. records \in [Ids -> Record]  BY <2>2 DEF Init
  <2>6. jobs \in [Jobs -> Job]  BY <2>3 DEF Init
  <2> QED  BY <2>1, <2>4, <2>5, <2>6 DEF Init, Types
<1>2. /\ \A j \in Jobs : /\ jobs[j].pc = "none" /\ jobs[j].payload = NoRecord
                         /\ jobs[j].id = NoRecord /\ jobs[j].expired = {}
      /\ \A i \in Ids : records[i].status = "unused" /\ records[i].key = Queued
      /\ deletion = NoDeletion /\ asked = {} /\ objects = {} /\ files = {}
      /\ deletion.pc = "idle" /\ deletion.key = Queued
  BY DEF Init, NoJob, NoDeletion
<1>3. Queued \notin Seconds  BY DEF Seconds
<1>4. Placed /\ Filed /\ Held /\ Marked
  BY <1>2 DEF Placed, Filed, Held, Marked, Completed, Holds, Active, Waiting
<1>5. Owned
  <2>1. \A i \in Ids, key \in Seconds : ~Owns(i, key)
    BY <1>2, <1>3 DEF Owns, Active
  <2>2. \A j \in Jobs, key \in Seconds : ~Fresh(j, key)
    BY <1>2 DEF Fresh
  <2> QED  BY <1>2, <2>1, <2>2 DEF Owned
<1>6. Uploaded /\ ExpiredAreOld /\ CompletedIsStored /\ Removed
  BY <1>2 DEF Uploaded, ExpiredAreOld, CompletedIsStored, Removed, Completed, Cleans
<1> QED  BY <1>1, <1>4, <1>5, <1>6 DEF IInv

\* Owned is kept where nobody reads or begins with another key.
LEMMA OwnedKept ==
  ASSUME Owned, runsAt' = runsAt,
         \A i \in Ids, key \in Seconds : Owns(i, key)' => Owns(i, key),
         \A j \in Jobs, key \in Seconds : Fresh(j, key)' => Fresh(j, key),
         \A key \in Seconds : key \in objects' =>
             key \in objects \/ \E i \in Ids : Owns(i, key)
  PROVE  Owned'
<1>1. \A key \in Seconds : Shared(key)' <=> Shared(key)
  BY DEF Shared
<1>2. SUFFICES ASSUME NEW key \in Seconds
               PROVE  /\ \/ key \in objects'
                         \/ \E i \in Ids : Owns(i, key)'
                         \/ \E j \in Jobs : Fresh(j, key)'
                         => runsAt'[key] # 0
                      /\ ~Shared(key)' =>
                             /\ \A a, b \in Ids : Owns(a, key)' /\ Owns(b, key)' => a = b
                             /\ \A j \in Jobs : Fresh(j, key)' =>
                                    /\ key \notin objects'
                                    /\ \A i \in Ids : ~Owns(i, key)'
                                    /\ \A l \in Jobs : Fresh(l, key)' => l = j
  BY DEF Owned
<1> QED  BY <1>1, <1>2 DEF Owned

-----------------------------------------------------------------------------
(* Steps that neither name nor complete a record, nor touch the bucket.    *)

Again == {"queued", "upsert", "mark", "catch", "rethrow"}

\* A job goes on, or stops.
Calm(l) ==
    /\ jobs'[l].expired \subseteq jobs[l].expired
    /\ jobs'[l].pc \notin Waiting => jobs'[l].key = jobs[l].key /\ jobs[l].pc \notin Waiting
    /\ jobs'[l].pc \notin Waiting \union {"upsert"} =>
           jobs'[l].id = jobs[l].id /\ jobs[l].pc \notin Waiting \union {"upsert"}
    /\ jobs'[l].pc = "upsert" => jobs[l].pc = "upsert"
    /\ Active(l)' => Active(l)
    /\ Active(l)' /\ jobs'[l].pc # "mark" =>
           jobs[l].pc # "mark" \/ ~Completed(jobs[l].id)'
    /\ jobs'[l].pc = "complete" => jobs[l].pc = "complete"
    /\ Cleans(l)' => jobs'[l].pc = jobs[l].pc
    /\ jobs[l].pc = "rows" =>
           \/ jobs'[l].pc = "rows" /\ jobs'[l].expired = jobs[l].expired
           \/ ExpiredKeys(l) \subseteq crossed'
           \/ \A i \in Ids, key \in Seconds : <<i, key>> \in jobs[l].expired => ~Completed(i)'
    /\ \A i \in Ids : jobs[l].payload = i /\ jobs[l].pc \in Again =>
           (jobs'[l].payload = i /\ jobs'[l].pc \in Again) \/ ~Completed(i)'

\* A record keeps its key, and is not completed.
CalmRecord(i) ==
    /\ records'[i].key = records[i].key
    /\ Completed(i)' => Completed(i) /\ records'[i] = records[i]
    /\ Live(i)' => Live(i) \/ records[i].status = "unused"
    /\ records'[i].status = "unused" => records[i].status = "unused"

\* A deletion goes on, or ends, or begins.
CalmDeletion ==
    \/ deletion' = deletion
    \/ /\ deletion'.id = deletion.id /\ deletion'.key = deletion.key
       /\ deletion.pc # "idle" /\ deletion'.pc # "idle"
       /\ deletion.pc # "commit" /\ deletion'.pc # "commit"
    \/ /\ deletion' = NoDeletion
       /\ deletion.pc = "commit" => \/ ObjectOf(deletion.key) \subseteq crossed'
                                    \/ \A i \in Ids : deletion.id = i => ~Live(i)'
    \/ /\ deletion.pc = "idle"
       /\ \E i \in Ids : deletion' = [pc |-> "row", id |-> i, key |-> records[i].key]

Quiet ==
    /\ runsAt' = runsAt
    /\ objects' \subseteq objects /\ objects \ objects' \subseteq crossed'
    /\ crossed \subseteq crossed' /\ now <= now'
    /\ CalmDeletion /\ \A l \in Jobs : Calm(l)
    /\ \A i \in Ids : CalmRecord(i)

\* Sentinels are no keys and no ids.
LEMMA Sentinels == Queued \notin Seconds /\ NoRecord \notin Ids
BY ConstantsAssumption DEF Seconds

LEMMA NoDeletionIs ==
  NoDeletion.pc = "idle" /\ NoDeletion.id = NoRecord /\ NoDeletion.key = Queued
BY DEF NoDeletion

LEMMA DeletionIs ==
  ASSUME NEW d \in Deletion, NEW i, NEW k
  PROVE  d = [pc |-> "commit", id |-> i, key |-> k] <=> d.pc = "commit" /\ d.id = i /\ d.key = k
BY DEF Deletion

LEMMA QuietOwns ==
  ASSUME Quiet, NEW i \in Ids, NEW key \in Seconds, Owns(i, key)'
  PROVE  Owns(i, key)
<1>1. CASE records'[i].key = key
  BY <1>1 DEF Quiet, CalmRecord, Owns
<1>2. CASE deletion'.id = i /\ deletion'.key = key
  BY <1>2, Sentinels, NoDeletionIs DEF Quiet, CalmDeletion, Owns
<1>3. ASSUME NEW j \in Jobs,
             \/ <<i, key>> \in jobs'[j].expired
             \/ Active(j)' /\ jobs'[j].id = i /\ jobs'[j].key = key
      PROVE  Owns(i, key)
  <2>1. Calm(j)  BY DEF Quiet
  <2>2. CASE <<i, key>> \in jobs'[j].expired  BY <2>1, <2>2 DEF Calm, Owns
  <2>3. CASE Active(j)' /\ jobs'[j].id = i /\ jobs'[j].key = key
    <3>1. Active(j) /\ jobs[j].id = i /\ jobs[j].key = key
      BY <2>1, <2>3 DEF Calm, Active, Waiting
    <3> QED  BY <3>1 DEF Owns
  <2> QED  BY <1>3, <2>2, <2>3
<1> QED  BY <1>1, <1>2, <1>3 DEF Owns

\* They preserve the invariant, if they keep the types, the files and who holds
\* which record.
LEMMA QuietStep ==
  ASSUME IInv, Quiet, Types', Filed', Held'
  PROVE  IInv'
<1> USE Sentinels
<1>1. Types /\ Placed /\ Held /\ Marked /\ Owned /\ Uploaded /\ ExpiredAreOld /\ CompletedIsStored /\ Removed
  BY DEF IInv
<1>2. /\ runsAt' = runsAt /\ crossed \subseteq crossed'
      /\ objects' \subseteq objects /\ objects \ objects' \subseteq crossed'
      /\ \A l \in Jobs : Calm(l)
      /\ \A i \in Ids : CalmRecord(i)
  BY DEF Quiet
<1>3. /\ \A i \in Ids : /\ records'[i].key = records[i].key
                        /\ Live(i)' => Live(i) \/ records[i].status = "unused"
                        /\ Completed(i)' => Completed(i) /\ records'[i] = records[i] /\ Live(i)'
      /\ \A key \in Seconds : Safe(key) => Safe(key)'
      /\ \A key \in Seconds : key \in objects => key \in objects' \/ Safe(key)'
  BY <1>2 DEF CalmRecord, Live, Completed, Safe, Shared
<1>4. Placed'
  <2>1. ASSUME NEW j \in Jobs
        PROVE  /\ jobs'[j].pc \notin Waiting => jobs'[j].key \in Seconds
               /\ jobs'[j].pc \notin Waiting \union {"upsert"} => jobs'[j].id \in Ids
               /\ jobs'[j].expired \subseteq Ids \X Seconds
    <3>1. Calm(j)  BY <1>2
    <3> QED  BY <1>1, <3>1 DEF Calm, Placed, Waiting
  <2>2. IF deletion'.pc = "idle" THEN deletion' = NoDeletion ELSE deletion'.id \in Ids
    <3>1. IF deletion.pc = "idle" THEN deletion = NoDeletion ELSE deletion.id \in Ids
      BY <1>1 DEF Placed
    <3> QED  BY <3>1, NoDeletionIs DEF Quiet, CalmDeletion
  <2>3. \A i \in Ids : /\ Completed(i)' => records'[i].key \in Seconds
                       /\ records'[i].status = "unused" => records'[i].key = Queued
    BY <1>1, <1>2, <1>3 DEF Placed, CalmRecord
  <2> QED  BY <2>1, <2>2, <2>3 DEF Placed
<1>5. ASSUME NEW j \in Jobs, Active(j)'
      PROVE  /\ Active(j) /\ jobs'[j].id = jobs[j].id /\ jobs'[j].key = jobs[j].key
             /\ jobs[j].id \in Ids /\ jobs[j].key \in Seconds
             /\ jobs'[j].pc # "mark" => jobs[j].pc # "mark" \/ ~Completed(jobs[j].id)'
             /\ jobs'[j].pc = "complete" => jobs[j].pc = "complete"
             /\ \A i \in Ids : i = jobs[j].id /\ Live(i)' => Live(i)
  <2>1. Calm(j)  BY <1>2
  <2>2. jobs'[j].pc \notin Waiting \union {"upsert"}  BY <1>5 DEF Active, Waiting
  <2>3. Active(j) /\ jobs'[j].id = jobs[j].id /\ jobs'[j].key = jobs[j].key
    BY <1>5, <2>1, <2>2 DEF Calm
  <2>4. jobs[j].id \in Ids /\ jobs[j].key \in Seconds
    BY <1>1, <2>3 DEF Placed, Active, Waiting
  <2>5. records[jobs[j].id].status # "unused"
    BY <1>1, <2>4 DEF Held, Holds
  <2> QED  BY <1>3, <1>5, <2>1, <2>3, <2>4, <2>5 DEF Calm
<1>6. Marked'
  BY <1>1, <1>2, <1>3, <1>5 DEF Marked
<1>7. Owned'
  <2>1. \A j \in Jobs, key \in Seconds : Fresh(j, key)' => Fresh(j, key)
    BY <1>2 DEF Calm, Fresh, Waiting
  <2> QED  BY <1>1, <1>2, <2>1, QuietOwns, OwnedKept
<1>8. ASSUME NEW l \in Jobs, Cleans(l)'
      PROVE  Cleans(l) /\ jobs'[l].pc = jobs[l].pc /\ jobs'[l].expired \subseteq jobs[l].expired
  <2>1. Calm(l)  BY <1>2
  <2> QED  BY <1>8, <2>1 DEF Calm, Cleans
<1>9. Uploaded'
  <2>1. SUFFICES ASSUME NEW j \in Jobs, jobs'[j].pc = "complete",
                        NEW i \in Ids, i = jobs'[j].id, NEW key \in Seconds, key = jobs'[j].key
        PROVE  /\ Live(i)' => \/ key \in objects' \/ Safe(key)'
                              \/ deletion' = [pc |-> "commit", id |-> i, key |-> key]
               /\ \A l \in Jobs : Cleans(l)' /\ <<i, key>> \in jobs'[l].expired => Safe(key)'
    <3>1. \A j \in Jobs : jobs'[j].pc = "complete" => jobs'[j].id \in Ids /\ jobs'[j].key \in Seconds
      BY <1>4 DEF Placed, Waiting
    <3> QED  BY <3>1 DEF Uploaded, Live, Safe, Shared
  <2>2. /\ jobs[j].pc = "complete" /\ jobs[j].id = i /\ jobs[j].key = key
        /\ Live(i)' => Live(i)
    BY <1>5, <2>1 DEF Active
  <2>3. ASSUME Live(i)'
        PROVE  \/ key \in objects' \/ Safe(key)'
               \/ deletion' = [pc |-> "commit", id |-> i, key |-> key]
    <3>1. \/ key \in objects \/ Safe(key)
          \/ deletion = [pc |-> "commit", id |-> i, key |-> key]
      BY <1>1, <2>2, <2>3 DEF Uploaded
    <3>2. CASE deletion = [pc |-> "commit", id |-> i, key |-> key]
      <4>1. deletion.pc = "commit" /\ deletion.id = i /\ deletion.key = key  BY <3>2
      <4>2. deletion' = deletion \/ ObjectOf(key) \subseteq crossed'
        BY <2>3, <4>1 DEF Quiet, CalmDeletion
      <4>3. key \in ObjectOf(key)  BY DEF ObjectOf
      <4> QED  BY <3>2, <4>2, <4>3 DEF Safe
    <3> QED  BY <1>3, <3>1, <3>2
  <2>4. ASSUME NEW l \in Jobs, Cleans(l)', <<i, key>> \in jobs'[l].expired
        PROVE  Safe(key)'
    BY <1>1, <1>3, <1>8, <2>2, <2>4 DEF Uploaded
  <2> QED  BY <2>3, <2>4
<1>10. \A i \in Ids : Completed(i)' /\ RunsAgain(i) => RunsAgain(i)'
  <2>1. SUFFICES ASSUME NEW i \in Ids, Completed(i)', NEW j \in Jobs,
                        jobs[j].payload = i, jobs[j].pc \in Again
                 PROVE  jobs'[j].payload = i /\ jobs'[j].pc \in Again
    BY DEF RunsAgain, Again
  <2> QED  BY <1>2, <2>1 DEF Calm
<1>11. \A i \in Ids : Completed(i)' /\ Old(i) => Old(i)'
  <2>1. SUFFICES ASSUME NEW i \in Ids, Completed(i)', NEW c \in Configs,
                        records[i].completedAt + c.retention < now
                 PROVE  records'[i].completedAt + c.retention < now'
    BY DEF Old
  <2>2. records[i].completedAt \in Nat /\ c.retention \in Nat
    BY <1>1, ConstantsAssumption DEF Types, Record, Seconds
  <2>3. now \in Nat /\ now' \in Nat  BY <1>1 DEF Types, Seconds
  <2>4. now <= now' /\ records'[i] = records[i]  BY <1>3, <2>1 DEF Quiet
  <2> QED  BY <2>1, <2>2, <2>3, <2>4, SMT
<1>12. ExpiredAreOld'
  <2>1. SUFFICES ASSUME NEW l \in Jobs, NEW i \in Ids, NEW key \in Seconds, key = records[i].key,
                        Cleans(l)', <<i, key>> \in jobs'[l].expired, Completed(i)'
                 PROVE  Old(i)' \/ Safe(key)' \/ RunsAgain(i)'
    <3>1. \A i \in Ids : Completed(i)' => records'[i].key = records[i].key /\ records'[i].key \in Seconds
      BY <1>3, <1>4 DEF Placed
    <3> QED  BY <3>1 DEF ExpiredAreOld, Safe, Shared
  <2>2. Old(i) \/ Safe(key) \/ RunsAgain(i)
    BY <1>1, <1>3, <1>8, <2>1 DEF ExpiredAreOld
  <2> QED  BY <1>3, <1>10, <1>11, <2>1, <2>2
<1>13. CompletedIsStored'
  <2>1. SUFFICES ASSUME NEW i \in Ids, Completed(i)', NEW key \in Seconds, key = records[i].key
        PROVE  \/ key \in objects' \/ Safe(key)'
               \/ deletion' = [pc |-> "commit", id |-> i, key |-> key]
               \/ \E j \in Jobs : jobs'[j].pc = "rows" /\ <<i, key>> \in jobs'[j].expired /\ Old(i)'
               \/ RunsAgain(i)'
    <3>1. \A i \in Ids : Completed(i)' => records'[i].key = records[i].key /\ records'[i].key \in Seconds
      BY <1>3, <1>4 DEF Placed
    <3> QED  BY <3>1 DEF CompletedIsStored, Old, Safe, Shared
  <2>2. \/ key \in objects \/ Safe(key)
        \/ deletion = [pc |-> "commit", id |-> i, key |-> key]
        \/ \E j \in Jobs : jobs[j].pc = "rows" /\ <<i, key>> \in jobs[j].expired /\ Old(i)
        \/ RunsAgain(i)
    BY <1>1, <1>3, <2>1 DEF CompletedIsStored, Old, Safe
  <2>3. CASE deletion = [pc |-> "commit", id |-> i, key |-> key]
    <3>1. deletion.pc = "commit" /\ deletion.id = i /\ deletion.key = key  BY <2>3
    <3>2. deletion' = deletion \/ ObjectOf(key) \subseteq crossed'
      BY <1>3, <2>1, <3>1 DEF Quiet, CalmDeletion
    <3>3. key \in ObjectOf(key)  BY DEF ObjectOf
    <3> QED  BY <2>3, <3>2, <3>3 DEF Safe
  <2>4. ASSUME NEW j \in Jobs, jobs[j].pc = "rows", <<i, key>> \in jobs[j].expired, Old(i)
        PROVE  \/ Safe(key)'
               \/ jobs'[j].pc = "rows" /\ <<i, key>> \in jobs'[j].expired /\ Old(i)'
    <3>1. Calm(j)  BY <1>2
    <3>2. key \in ExpiredKeys(j)
      <4>1. <<i, key>>[2] = key  OBVIOUS
      <4> QED  BY <2>4, <4>1 DEF ExpiredKeys
    <3> QED  BY <1>11, <2>1, <2>4, <3>1, <3>2 DEF Calm, Safe
  <2> QED  BY <1>3, <1>10, <2>1, <2>2, <2>3, <2>4
<1>14. Removed'
  <2>1. ASSUME NEW i \in Ids, Live(i)', records'[i].key \in objects'
        PROVE  /\ Live(i) /\ records[i].key \in objects /\ records'[i].key = records[i].key
               /\ records[i].key \in Seconds /\ (Safe(records[i].key) => Safe(records[i].key)')
    <3>1. records'[i].key = records[i].key /\ records[i].key \in objects /\ records[i].key \in Seconds
      BY <1>1, <1>2, <1>3, <2>1 DEF Types
    <3>2. records[i].status # "unused"  BY <1>1, <3>1 DEF Placed
    <3>3. Safe(records[i].key) => Safe(records[i].key)'
      BY <1>2, <3>1 DEF Safe, Shared
    <3> QED  BY <1>3, <2>1, <3>1, <3>2, <3>3
  <2>2. ASSUME NEW l \in Jobs, NEW i \in Ids, NEW key \in Seconds,
               Cleans(l)', <<i, key>> \in jobs'[l].expired, Live(i)', records'[i].key \in objects',
               jobs'[l].pc = "rows" \/ records'[i].key # key
        PROVE  Safe(records[i].key)'
    BY <1>1, <1>8, <2>1, <2>2 DEF Removed
  <2>3. ASSUME NEW i \in Ids, i = deletion'.id, deletion'.pc # "idle", Live(i)',
               records'[i].key \in objects',
               deletion'.pc = "commit" \/ records'[i].key # deletion'.key
        PROVE  Safe(records[i].key)'
    <3>1. /\ deletion.pc # "idle" /\ deletion.id = i
          /\ deletion.pc = "commit" \/ records[i].key # deletion.key
      BY <2>1, <2>3, NoDeletionIs DEF Quiet, CalmDeletion
    <3> QED  BY <1>1, <2>1, <2>3, <3>1 DEF Removed
  <2>4. deletion'.pc # "idle" => deletion'.id \in Ids  BY <1>4 DEF Placed
  <2> QED  BY <2>2, <2>3, <2>4 DEF Removed, Live, Safe, Shared
<1> QED  BY <1>4, <1>6, <1>7, <1>9, <1>12, <1>13, <1>14 DEF IInv

-----------------------------------------------------------------------------
(* The quiet steps.                                                        *)

Statuses == {"unused", "pending", "in_progress", "completed", "failed", "deleted"}

Pcs == {"none", "queued", "upsert", "mark", "dump", "upload", "complete", "expire",
        "objects", "rows", "end", "catch", "rethrow"}

LEMMA JobKept ==
  ASSUME NEW l \in Jobs, jobs'[l] = jobs[l]
  PROVE  Calm(l)
BY DEF Calm, Active, Cleans

LEMMA RecordKept ==
  ASSUME NEW i \in Ids, records'[i] = records[i]
  PROVE  CalmRecord(i)
BY DEF CalmRecord, Live, Completed

\* A job that goes to another place keeps what it has in hand.
LEMMA GotoIs ==
  ASSUME Types, NEW j \in Jobs, NEW pc \in Pcs, Goto(j, pc)
  PROVE  /\ jobs' \in [Jobs -> Job] /\ jobs'[j].pc = pc
         /\ jobs'[j].payload = jobs[j].payload /\ jobs'[j].id = jobs[j].id
         /\ jobs'[j].key = jobs[j].key /\ jobs'[j].expired = jobs[j].expired
         /\ \A l \in Jobs \ {j} : jobs'[l] = jobs[l]
BY DEF Types, Goto, Job, Pcs

\* Who held a record still does, or it is free.
LEMMA HeldKept ==
  ASSUME Held, asked' \subseteq asked,
         \A j \in Jobs : \A i \in Ids : Holds(j, i)' => Holds(j, i),
         \A j \in Jobs : jobs'[j].payload \in Ids => jobs'[j].id \in {NoRecord, jobs'[j].payload},
         \A i \in Ids : records'[i].status = "unused" => records[i].status = "unused",
         asked \subseteq Ids
  PROVE  Held'
<1>1. \A i \in Ids : \A j, l \in Jobs : Holds(j, i)' /\ Holds(l, i)' => j = l
  BY DEF Held
<1>2. \A i \in asked' : records'[i].status # "unused" /\ \A j \in Jobs : ~Holds(j, i)'
  BY DEF Held
<1>3. \A j \in Jobs : \A i \in Ids : Holds(j, i)' => records'[i].status # "unused"
  BY DEF Held
<1> QED  BY <1>1, <1>2, <1>3 DEF Held

LEMMA FiledKept ==
  ASSUME Filed, files' \subseteq files,
         \A j \in Jobs : Dumped(j) =>
             \/ Dumped(j)' /\ jobs'[j].key = jobs[j].key
             \/ jobs[j].key \notin files'
  PROVE  Filed'
<1>1. SUFFICES ASSUME NEW file \in files'
               PROVE  \E j \in Jobs : Dumped(j)' /\ jobs'[j].key = file
  BY DEF Filed
<1>2. PICK j \in Jobs : Dumped(j) /\ jobs[j].key = file  BY <1>1 DEF Filed
<1> QED  BY <1>1, <1>2

\* A quiet step that leaves the jobs alone.
LEMMA JobsLeftAlone ==
  ASSUME IInv, UNCHANGED <<jobs, files, runsAt>>, asked' \subseteq asked, crossed \subseteq crossed',
         objects' \subseteq objects, objects \ objects' \subseteq crossed', now <= now',
         CalmDeletion, \A i \in Ids : CalmRecord(i), Types'
  PROVE  IInv'
<1>1. Types /\ Held /\ Filed  BY DEF IInv
<1>2. Quiet  BY JobKept DEF Quiet
<1>3. Filed'  BY <1>1, FiledKept DEF Dumped
<1>4. Held'
  <2>1. \A j \in Jobs : \A i \in Ids : Holds(j, i)' => Holds(j, i)  BY DEF Holds
  <2>2. \A j \in Jobs : jobs'[j].payload \in Ids => jobs'[j].id \in {NoRecord, jobs'[j].payload}
    BY <1>1 DEF Held
  <2> QED  BY <1>1, <2>1, <2>2, HeldKept DEF CalmRecord, Types
<1> QED  BY <1>2, <1>3, <1>4, QuietStep

\* The clock moves only forward.
LEMMA Later == Types => now <= now /\ now \in Nat
BY SMT DEF Types, Seconds

\* A quiet step of one job that goes to another place.
LEMMA JobGoes ==
  ASSUME IInv, NEW j \in Jobs, NEW pc \in Pcs, Goto(j, pc), Calm(j),
         UNCHANGED <<now, config, asked, deletion, runsAt>>, files' \subseteq files,
         crossed \subseteq crossed', crossed' \subseteq Seconds,
         objects' \subseteq objects, objects \ objects' \subseteq crossed',
         \A i \in Ids : CalmRecord(i), records' \in [Ids -> Record], faults' \in 0..MaxFaults,
         Dumped(j) => Dumped(j)' \/ jobs[j].key \notin files'
  PROVE  IInv'
<1>1. Types /\ Held /\ Filed  BY DEF IInv
<1>2. /\ jobs' \in [Jobs -> Job]
      /\ jobs'[j].payload = jobs[j].payload /\ jobs'[j].id = jobs[j].id
      /\ jobs'[j].key = jobs[j].key
      /\ \A l \in Jobs \ {j} : jobs'[l] = jobs[l]
  BY <1>1, GotoIs
<1>3. Types'
  BY <1>1, <1>2 DEF Types
<1>4. Quiet
  <2>1. CalmDeletion  BY DEF CalmDeletion
  <2> QED  BY <1>1, <1>2, <2>1, JobKept, Later DEF Quiet
<1>5. Filed'
  BY <1>1, <1>2, FiledKept DEF Dumped
<1>6. Held'
  <2>1. \A l \in Jobs : \A i \in Ids : Holds(l, i)' => Holds(l, i)  BY <1>2 DEF Holds
  <2>2. \A l \in Jobs : jobs'[l].payload \in Ids => jobs'[l].id \in {NoRecord, jobs'[l].payload}
    BY <1>1, <1>2 DEF Held
  <2> QED  BY <1>1, <2>1, <2>2, HeldKept DEF CalmRecord, Types
<1> QED  BY <1>3, <1>4, <1>5, <1>6, QuietStep

LEMMA FaultCounted ==
  ASSUME Types, faults < MaxFaults, faults' = faults + 1
  PROVE  faults' \in 0..MaxFaults
BY ConstantsAssumption, SMT DEF Types

LEMMA TickIInv ==
  ASSUME IInv, Tick
  PROVE  IInv'
<1>1. Types  BY DEF IInv
<1>2. now' \in Seconds /\ now <= now'
  BY <1>1, ConstantsAssumption, SMT DEF Tick, Types, Seconds
<1>3. UNCHANGED <<config, records, objects, files, jobs, asked, deletion, runsAt, crossed, faults>>
  BY DEF Tick, ghosts
<1>4. Types'  BY <1>1, <1>2, <1>3 DEF Types
<1>5. CalmDeletion  BY <1>3 DEF CalmDeletion
<1> QED  BY <1>2, <1>3, <1>4, <1>5, RecordKept, JobsLeftAlone

LEMMA UpdateBackupConfigIInv ==
  ASSUME IInv, NEW c \in Configs, UpdateBackupConfig(c)
  PROVE  IInv'
<1>1. Types  BY DEF IInv
<1>2. /\ config' = c
      /\ UNCHANGED <<now, records, objects, files, jobs, asked, deletion, runsAt, crossed, faults>>
  BY DEF UpdateBackupConfig, ghosts
<1>3. Types'  BY <1>1, <1>2 DEF Types
<1>4. CalmDeletion  BY <1>2 DEF CalmDeletion
<1> QED  BY <1>1, <1>2, <1>3, <1>4, Later, RecordKept, JobsLeftAlone

LEMMA ScheduleFailsIInv ==
  ASSUME IInv, NEW i \in Ids, ScheduleFails(i)
  PROVE  IInv'
<1>1. Types  BY DEF IInv
<1>2. /\ asked' \subseteq asked
      /\ UNCHANGED <<now, config, records, objects, files, jobs, deletion, runsAt, crossed>>
  BY DEF ScheduleFails, ghosts, setting
<1>3. faults' \in 0..MaxFaults  BY <1>1, FaultCounted DEF ScheduleFails
<1>4. Types'  BY <1>1, <1>2, <1>3 DEF Types
<1>5. CalmDeletion  BY <1>2 DEF CalmDeletion
<1> QED  BY <1>1, <1>2, <1>4, <1>5, Later, RecordKept, JobsLeftAlone

LEMMA DeleteBackupIInv ==
  ASSUME IInv, NEW i \in Ids, DeleteBackup(i)
  PROVE  IInv'
<1>1. Types  BY DEF IInv
<1>2. /\ deletion.pc = "idle" /\ deletion' = [pc |-> "row", id |-> i, key |-> records[i].key]
      /\ UNCHANGED <<now, config, records, objects, files, jobs, asked, runsAt, crossed, faults>>
  BY DEF DeleteBackup, ghosts, setting
<1>3. records[i].key \in Names  BY <1>1 DEF Types, Record
<1>4. deletion' \in Deletion  BY <1>2, <1>3 DEF Deletion
<1>5. Types'  BY <1>1, <1>2, <1>4 DEF Types
<1>6. CalmDeletion  BY <1>2 DEF CalmDeletion
<1> QED  BY <1>1, <1>2, <1>5, <1>6, Later, RecordKept, JobsLeftAlone

LEMMA DeleteRowIInv ==
  ASSUME IInv, DeleteRow
  PROVE  IInv'
<1>1. Types  BY DEF IInv
<1>2. /\ deletion.pc = "row" /\ deletion' = [deletion EXCEPT !.pc = "object"]
      /\ UNCHANGED <<now, config, records, objects, files, jobs, asked, runsAt, crossed, faults>>
  BY DEF DeleteRow, GotoDeletion, ghosts, setting
<1>3. /\ deletion' \in Deletion /\ deletion'.pc = "object"
      /\ deletion'.id = deletion.id /\ deletion'.key = deletion.key
  BY <1>1, <1>2 DEF Types, Deletion
<1>4. Types'  BY <1>1, <1>2, <1>3 DEF Types
<1>5. CalmDeletion  BY <1>2, <1>3 DEF CalmDeletion
<1> QED  BY <1>1, <1>2, <1>4, <1>5, Later, RecordKept, JobsLeftAlone

LEMMA DeleteFailsIInv ==
  ASSUME IInv, DeleteFails
  PROVE  IInv'
<1>1. Types  BY DEF IInv
<1>2. /\ deletion' = NoDeletion /\ UNCHANGED <<now, config, records, files, jobs, asked, runsAt>>
      /\ objects' \subseteq objects
      /\ deletion.pc # "object" => objects' = objects
      /\ deletion.pc = "object" => objects \ objects' \subseteq ObjectOf(deletion.key)
      /\ crossed' = (IF deletion.pc = "row" THEN crossed ELSE crossed \union ObjectOf(deletion.key))
  BY DEF DeleteFails, setting
<1>3. faults' \in 0..MaxFaults  BY <1>1, FaultCounted DEF DeleteFails
<1>4. ObjectOf(deletion.key) \subseteq Seconds
  BY <1>1 DEF Types, Deletion, Names, ObjectOf
<1>5. NoDeletion \in Deletion  BY DEF NoDeletion, Deletion, Names
<1>6. Types'  BY <1>1, <1>2, <1>3, <1>4, <1>5 DEF Types
<1>7. CalmDeletion  BY <1>2 DEF CalmDeletion
<1> QED  BY <1>1, <1>2, <1>6, <1>7, Later, RecordKept, JobsLeftAlone

LEMMA DeleteCommitsIInv ==
  ASSUME IInv, DeleteCommits
  PROVE  IInv'
<1>1. Types /\ Placed  BY DEF IInv
<1>2. /\ deletion.pc = "commit" /\ deletion' = NoDeletion
      /\ records' = [records EXCEPT ![deletion.id].status = "deleted"]
      /\ UNCHANGED <<now, config, objects, files, jobs, asked, runsAt, crossed, faults>>
  BY DEF DeleteCommits, ghosts, setting
<1>3. deletion.id \in Ids  BY <1>1, <1>2 DEF Placed
<1>4. /\ records' \in [Ids -> Record] /\ records'[deletion.id].status = "deleted"
      /\ records'[deletion.id].key = records[deletion.id].key
      /\ \A i \in Ids : i # deletion.id => records'[i] = records[i]
  BY <1>1, <1>2, <1>3 DEF Types, Record
<1>5. \A i \in Ids : CalmRecord(i)
  <2>1. ASSUME NEW i \in Ids, i = deletion.id  PROVE CalmRecord(i)
    BY <1>4, <2>1 DEF CalmRecord, Live, Completed
  <2> QED  BY <1>4, <2>1, RecordKept
<1>6. CalmDeletion
  <2>1. \A i \in Ids : deletion.id = i => ~Live(i)'  BY <1>4 DEF Live
  <2> QED  BY <1>2, <2>1 DEF CalmDeletion
<1>7. NoDeletion \in Deletion  BY DEF NoDeletion, Deletion, Names
<1>8. Types'  BY <1>1, <1>2, <1>4, <1>7 DEF Types
<1> QED  BY <1>1, <1>2, <1>5, <1>6, <1>8, Later, JobsLeftAlone

LEMMA TriggerBackupIInv ==
  ASSUME IInv, NEW i \in Ids, TriggerBackup(i)
  PROVE  IInv'
<1>1. Types /\ Held /\ Filed  BY DEF IInv
<1>2. /\ records[i].status = "unused" /\ records' = [records EXCEPT ![i].status = "pending"]
      /\ asked' = asked \union {i}
      /\ UNCHANGED <<now, config, objects, files, jobs, deletion, runsAt, crossed, faults>>
  BY DEF TriggerBackup, ghosts, setting
<1>3. /\ records' \in [Ids -> Record] /\ records'[i].status = "pending"
      /\ records'[i].key = records[i].key
      /\ \A l \in Ids : l # i => records'[l] = records[l]
  BY <1>1, <1>2 DEF Types, Record
<1>4. \A l \in Ids : CalmRecord(l)
  <2>1. CalmRecord(i)  BY <1>2, <1>3 DEF CalmRecord, Live, Completed
  <2> QED  BY <1>3, <2>1, RecordKept
<1>5. Types'  BY <1>1, <1>2, <1>3 DEF Types
<1>6. Quiet
  <2>1. CalmDeletion  BY <1>2 DEF CalmDeletion
  <2> QED  BY <1>1, <1>2, <1>4, <2>1, JobKept, Later DEF Quiet
<1>7. Held'
  <2>1. \A j \in Jobs : ~Holds(j, i)  BY <1>1, <1>2 DEF Held
  <2>2. \A j \in Jobs : \A l \in Ids : Holds(j, l)' <=> Holds(j, l)  BY <1>2 DEF Holds
  <2>3. \A l \in Ids : records[l].status # "unused" => records'[l].status # "unused"
    BY <1>3
  <2>4. asked \subseteq Ids  BY <1>1 DEF Types
  <2> QED  BY <1>1, <1>2, <1>3, <2>1, <2>2, <2>3, <2>4 DEF Held
<1>8. Filed'  BY <1>1, <1>2, FiledKept DEF Dumped
<1> QED  BY <1>5, <1>6, <1>7, <1>8, QuietStep

\* A job is added to the queue.
LEMMA AddIInv ==
  ASSUME IInv, NEW j \in Jobs, NEW payload \in asked \union {NoRecord}, Add(j, payload),
         asked' = asked \ {payload},
         UNCHANGED <<now, config, records, objects, files, deletion, runsAt, crossed, faults>>
  PROVE  IInv'
<1>1. Types /\ Held /\ Filed  BY DEF IInv
<1>2. /\ NewJob(payload).pc = "queued" /\ NewJob(payload).payload = payload
      /\ NewJob(payload).id = NoRecord /\ NewJob(payload).expired = {}
      /\ NewJob(payload) \in Job
  BY <1>1 DEF NewJob, NoJob, Job, Names, Types
<1>3. /\ jobs[j].pc = "none" /\ jobs' \in [Jobs -> Job] /\ jobs'[j] = NewJob(payload)
      /\ \A l \in Jobs \ {j} : jobs'[l] = jobs[l]
  BY <1>1, <1>2 DEF Add, Types
<1>4. Types'  BY <1>1, <1>3 DEF Types
<1>5. Quiet
  <2>1. Calm(j)  BY <1>2, <1>3 DEF Calm, Active, Cleans, Waiting, Again
  <2>2. CalmDeletion  BY DEF CalmDeletion
  <2> QED  BY <1>1, <1>3, <2>1, <2>2, JobKept, RecordKept, Later DEF Quiet
<1>6. Held'
  <2>1. \A l \in Jobs, i \in Ids : Holds(l, i)' => Holds(l, i) \/ (l = j /\ i = payload)
    <3>1. \A i \in Ids : Holds(j, i)' => i = payload
      BY <1>2, <1>3, Sentinels DEF Holds
    <3>2. ASSUME NEW l \in Jobs, NEW i \in Ids, l # j, Holds(l, i)'
          PROVE  Holds(l, i)
      BY <1>3, <3>2 DEF Holds
    <3>3. ASSUME NEW l \in Jobs, NEW i \in Ids, Holds(l, i)'
          PROVE  Holds(l, i) \/ (l = j /\ i = payload)
      <4>1. CASE l = j  BY <3>1, <3>3, <4>1
      <4>2. CASE l # j  BY <3>2, <3>3, <4>2
      <4> QED  BY <4>1, <4>2
    <3> QED  BY <3>3
  <2>2. payload \in Ids => payload \in asked /\ payload \notin asked'
    BY Sentinels
  <2>3. \A l \in Jobs : jobs'[l].payload \in Ids => jobs'[l].id \in {NoRecord, jobs'[l].payload}
    BY <1>1, <1>2, <1>3 DEF Held
  <2>4. \A i \in Ids : \A k, l \in Jobs : Holds(k, i)' /\ Holds(l, i)' => k = l
    BY <1>1, <2>1, <2>2 DEF Held
  <2>5. \A i \in asked' : records'[i].status # "unused" /\ \A l \in Jobs : ~Holds(l, i)'
    BY <1>1, <2>1, <2>2 DEF Held, Types
  <2>6. \A l \in Jobs : \A i \in Ids : Holds(l, i)' => records'[i].status # "unused"
    BY <1>1, <2>1, <2>2 DEF Held
  <2> QED  BY <2>3, <2>4, <2>5, <2>6 DEF Held
<1>7. Filed'  BY <1>1, <1>3, FiledKept DEF Dumped, Waiting
<1> QED  BY <1>4, <1>5, <1>6, <1>7, QuietStep

LEMMA ScheduleBackupIInv ==
  ASSUME IInv, NEW i \in Ids, NEW j \in Jobs, ScheduleBackup(i, j)
  PROVE  IInv'
BY AddIInv DEF ScheduleBackup, ghosts, setting

LEMMA CronFiresIInv ==
  ASSUME IInv, NEW j \in Jobs, CronFires(j)
  PROVE  IInv'
<1>1. asked' = asked \ {NoRecord}
  BY Sentinels DEF CronFires, IInv, Types
<1> QED  BY <1>1, AddIInv DEF CronFires, ghosts, setting

LEMMA UpsertFailsIInv ==
  ASSUME IInv, NEW j \in Jobs, UpsertFails(j)
  PROVE  IInv'
<1>1. Types  BY DEF IInv
<1>2. /\ jobs[j].pc = "upsert" /\ Goto(j, "queued") /\ faults' \in 0..MaxFaults
      /\ UNCHANGED <<now, config, records, objects, files, asked, deletion, runsAt, crossed>>
  BY <1>1, FaultCounted DEF UpsertFails, ghosts, setting
<1>3. "queued" \in Pcs  BY DEF Pcs
<1>4. Calm(j)
  BY <1>1, <1>2, <1>3, GotoIs DEF Calm, Active, Cleans, Waiting, Again
<1>5. ~Dumped(j)  BY <1>2 DEF Dumped
<1> QED  BY <1>1, <1>2, <1>3, <1>4, <1>5, RecordKept, JobGoes DEF Types

LEMMA MarkFailedFailsIInv ==
  ASSUME IInv, NEW j \in Jobs, MarkFailedFails(j)
  PROVE  IInv'
<1>1. Types  BY DEF IInv
<1>2. /\ jobs[j].pc = "catch" /\ Goto(j, "rethrow") /\ faults' \in 0..MaxFaults
      /\ UNCHANGED <<now, config, records, objects, files, asked, deletion, runsAt, crossed>>
  BY <1>1, FaultCounted DEF MarkFailedFails, ghosts, setting
<1>3. "rethrow" \in Pcs  BY DEF Pcs
<1>4. jobs'[j].pc = "rethrow"  BY <1>1, <1>2, <1>3, GotoIs
<1>5. Calm(j)
  BY <1>1, <1>2, <1>3, GotoIs DEF Calm, Active, Cleans, Waiting, Again
<1>6. Dumped(j)'  BY <1>4 DEF Dumped, Waiting
<1> QED  BY <1>1, <1>2, <1>3, <1>5, <1>6, RecordKept, JobGoes DEF Types

\* What a cleanup has in hand are keys.
LEMMA ExpiredKeysAre ==
  ASSUME Placed, NEW j \in Jobs
  PROVE  /\ ExpiredKeys(j) \subseteq Seconds
         /\ \A key \in ExpiredKeys(j) : \E i \in Ids : <<i, key>> \in jobs[j].expired
         /\ \A i \in Ids, key \in Seconds : <<i, key>> \in jobs[j].expired => key \in ExpiredKeys(j)
<1>1. jobs[j].expired \subseteq Ids \X Seconds  BY DEF Placed
<1>2. \A i \in Ids, key \in Seconds : <<i, key>>[2] = key  OBVIOUS
<1>3. ASSUME NEW key \in ExpiredKeys(j)
      PROVE  key \in Seconds /\ \E i \in Ids : <<i, key>> \in jobs[j].expired
  <2>1. PICK p \in jobs[j].expired : key = p[2]  BY DEF ExpiredKeys
  <2>2. PICK i \in Ids, k \in Seconds : p = <<i, k>>  BY <1>1
  <2> QED  BY <1>2, <2>1, <2>2
<1>4. ASSUME NEW i \in Ids, NEW key \in Seconds, <<i, key>> \in jobs[j].expired
      PROVE  key \in ExpiredKeys(j)
  BY <1>2, <1>4 DEF ExpiredKeys
<1> QED  BY <1>3, <1>4

LEMMA StepFailsIInv ==
  ASSUME IInv, NEW j \in Jobs, StepFails(j)
  PROVE  IInv'
<1>1. Types /\ Placed  BY DEF IInv
<1>2. /\ Trying(j) /\ Goto(j, "catch") /\ faults' \in 0..MaxFaults
      /\ objects' \subseteq objects /\ objects \ objects' \subseteq Cut(j)
      /\ crossed' = crossed \union Cut(j)
      /\ UNCHANGED <<now, config, records, files, asked, deletion, runsAt>>
  BY <1>1, FaultCounted DEF StepFails, ghosts, setting
<1>3. "catch" \in Pcs  BY DEF Pcs
<1>4. /\ jobs'[j].pc = "catch" /\ jobs'[j].payload = jobs[j].payload
      /\ jobs'[j].id = jobs[j].id /\ jobs'[j].key = jobs[j].key /\ jobs'[j].expired = jobs[j].expired
  BY <1>1, <1>2, <1>3, GotoIs
<1>5. Cut(j) \subseteq Seconds /\ (jobs[j].pc = "rows" => Cut(j) = ExpiredKeys(j))
  BY <1>1, ExpiredKeysAre DEF Cut
<1>6. Calm(j)
  <2>1. jobs[j].pc \notin Waiting \union {"upsert"}  BY <1>2 DEF Trying, Waiting
  <2>2. jobs[j].pc = "rows" => ExpiredKeys(j) \subseteq crossed'  BY <1>2, <1>5
  <2> QED  BY <1>4, <2>1, <2>2 DEF Calm, Active, Cleans, Waiting, Again
<1>7. Dumped(j)'  BY <1>4 DEF Dumped, Waiting
<1> QED  BY <1>1, <1>2, <1>3, <1>5, <1>6, <1>7, RecordKept, JobGoes DEF Types

LEMMA DumpIInv ==
  ASSUME IInv, NEW j \in Jobs, Dump(j)
  PROVE  IInv'
<1>1. Types /\ Filed /\ Held  BY DEF IInv
<1>2. /\ jobs[j].pc = "dump" /\ Goto(j, "upload") /\ files' = files \union {jobs[j].key}
      /\ UNCHANGED <<now, config, records, objects, asked, deletion, runsAt, crossed, faults>>
  BY DEF Dump, ghosts, setting
<1>3. "upload" \in Pcs  BY DEF Pcs
<1>4. /\ jobs' \in [Jobs -> Job] /\ jobs'[j].pc = "upload" /\ jobs'[j].payload = jobs[j].payload
      /\ jobs'[j].id = jobs[j].id /\ jobs'[j].key = jobs[j].key /\ jobs'[j].expired = jobs[j].expired
      /\ \A l \in Jobs \ {j} : jobs'[l] = jobs[l]
  BY <1>1, <1>2, <1>3, GotoIs
<1>5. Types'  BY <1>1, <1>2, <1>4 DEF Types
<1>6. Quiet
  <2>1. Calm(j)  BY <1>2, <1>4 DEF Calm, Active, Cleans, Waiting, Again
  <2>2. CalmDeletion  BY <1>2 DEF CalmDeletion
  <2> QED  BY <1>1, <1>2, <1>4, <2>1, <2>2, JobKept, RecordKept, Later DEF Quiet
<1>7. Held'
  <2>1. \A l \in Jobs : \A i \in Ids : Holds(l, i)' => Holds(l, i)  BY <1>4 DEF Holds
  <2>2. \A l \in Jobs : jobs'[l].payload \in Ids => jobs'[l].id \in {NoRecord, jobs'[l].payload}
    BY <1>1, <1>4 DEF Held
  <2> QED  BY <1>1, <1>2, <2>1, <2>2, HeldKept DEF Types
<1>8. Filed'
  <2>1. Dumped(j)'  BY <1>4 DEF Dumped, Waiting
  <2>2. \A l \in Jobs : Dumped(l) => Dumped(l)' /\ jobs'[l].key = jobs[l].key
    BY <1>4, <2>1 DEF Dumped
  <2> QED  BY <1>1, <1>2, <1>4, <2>1, <2>2 DEF Filed
<1> QED  BY <1>5, <1>6, <1>7, <1>8, QuietStep

\* What updateBackupRecord does to a record.
LEMMA UpdateIs ==
  ASSUME Types, Placed, NEW i \in Ids, NEW status \in Statuses \ {"unused", "deleted"},
         NEW completedAt \in Seconds,
         Written(i, [records[i] EXCEPT !.status = status, !.completedAt = completedAt])
  PROVE  /\ records' \in [Ids -> Record]
         /\ \A k \in Ids : /\ records'[k].key = records[k].key
                           /\ Live(k)' <=> Live(k)
                           /\ records'[k].status = "unused" => records[k].status = "unused"
                           /\ k # i => records'[k] = records[k]
         /\ Live(i)' => records'[i].status = status /\ records'[i].completedAt = completedAt
<1> DEFINE new == [records[i] EXCEPT !.status = status, !.completedAt = completedAt]
<1>1. new \in Record /\ new.status = status /\ new.key = records[i].key /\ new.completedAt = completedAt
  BY DEF Types, Record, Statuses
<1>2. records' = [records EXCEPT ![i] = IF Live(i) THEN new ELSE records[i]]
  BY DEF Written
<1> HIDE DEF new
<1>3. records' \in [Ids -> Record]  BY <1>1, <1>2 DEF Types
<1>4. \A k \in Ids : k # i => records'[k] = records[k]  BY <1>2 DEF Types
<1>5. records'[i] = IF Live(i) THEN new ELSE records[i]  BY <1>2 DEF Types
<1>6. \A k \in Ids : /\ records'[k].key = records[k].key
                     /\ Live(k)' <=> Live(k)
                     /\ records'[k].status = "unused" => records[k].status = "unused"
  <2>1. ASSUME NEW k \in Ids, k = i
        PROVE  /\ records'[k].key = records[k].key
               /\ Live(k)' <=> Live(k)
               /\ records'[k].status = "unused" => records[k].status = "unused"
    BY <1>1, <1>5, <2>1 DEF Live, Statuses
  <2> QED  BY <1>4, <2>1 DEF Live
<1>7. Live(i)' => records'[i].status = status /\ records'[i].completedAt = completedAt
  BY <1>1, <1>5 DEF Live
<1> QED  BY <1>3, <1>4, <1>6, <1>7

LEMMA MarkInProgressIInv ==
  ASSUME IInv, NEW j \in Jobs, MarkInProgress(j)
  PROVE  IInv'
<1> DEFINE i == jobs[j].id
<1>1. Types /\ Placed /\ Held  BY DEF IInv
<1>2. /\ jobs[j].pc = "mark" /\ Goto(j, "dump") /\ Update(i, "in_progress")
      /\ UNCHANGED <<now, config, objects, files, asked, deletion, runsAt, crossed, faults>>
  BY DEF MarkInProgress, ghosts, setting
<1>3. i \in Ids  BY <1>1, <1>2 DEF Placed, Waiting
<1>4. /\ records' \in [Ids -> Record]
      /\ \A k \in Ids : /\ records'[k].key = records[k].key
                        /\ Live(k)' => Live(k)
                        /\ records'[k].status = "unused" => records[k].status = "unused"
                        /\ k # i => records'[k] = records[k]
      /\ records'[i].status # "completed"
  <2>1. records[i].completedAt \in Seconds
        /\ [records[i] EXCEPT !.status = "in_progress"]
             = [records[i] EXCEPT !.status = "in_progress", !.completedAt = records[i].completedAt]
    BY <1>1, <1>3 DEF Types, Record
  <2>2. "in_progress" \in Statuses \ {"unused", "deleted"}  BY DEF Statuses
  <2>3. Written(i, [records[i] EXCEPT !.status = "in_progress", !.completedAt = records[i].completedAt])
    BY <1>2, <2>1 DEF Update
  <2> HIDE DEF i
  <2>4. /\ records' \in [Ids -> Record]
        /\ \A k \in Ids : /\ records'[k].key = records[k].key
                          /\ Live(k)' <=> Live(k)
                          /\ records'[k].status = "unused" => records[k].status = "unused"
                          /\ k # i => records'[k] = records[k]
        /\ records'[i].status \notin {"unused", "deleted"} => records'[i].status = "in_progress"
    BY <1>1, <1>3, <2>1, <2>2, <2>3, UpdateIs DEF Live
  <2> QED  BY <2>4
<1>5. "dump" \in Pcs  BY DEF Pcs
<1>6. /\ jobs'[j].pc = "dump" /\ jobs'[j].payload = jobs[j].payload
      /\ jobs'[j].id = i /\ jobs'[j].key = jobs[j].key /\ jobs'[j].expired = jobs[j].expired
  BY <1>1, <1>2, <1>5, GotoIs
<1>7. ~Completed(jobs[j].id)'
  BY <1>4, <1>6 DEF Completed
<1>8. \A k \in Ids : jobs[j].payload = k => k = i
  BY <1>1, <1>3, Sentinels DEF Held
<1>9. Calm(j)
  <2>1. \A k \in Ids : jobs[j].payload = k => ~Completed(k)'
    BY <1>4, <1>8 DEF Completed
  <2> QED  BY <1>2, <1>6, <1>7, <2>1 DEF Calm, Active, Cleans, Waiting, Again
<1>10. \A k \in Ids : CalmRecord(k)
  <2>1. ASSUME NEW k \in Ids, k = i  PROVE CalmRecord(k)
    BY <1>4, <2>1 DEF CalmRecord, Completed
  <2> QED  BY <1>4, <2>1, RecordKept
<1>11. ~Dumped(j)  BY <1>2 DEF Dumped
<1> QED  BY <1>1, <1>2, <1>4, <1>5, <1>9, <1>10, <1>11, JobGoes DEF Types

LEMMA MarkFailedIInv ==
  ASSUME IInv, NEW j \in Jobs, MarkFailed(j)
  PROVE  IInv'
<1> DEFINE i == jobs[j].id
<1>1. Types /\ Placed /\ Held  BY DEF IInv
<1>2. /\ jobs[j].pc = "catch" /\ Goto(j, "rethrow") /\ Finish(i, "failed")
      /\ UNCHANGED <<now, config, objects, files, asked, deletion, runsAt, crossed, faults>>
  BY DEF MarkFailed, ghosts, setting
<1>3. i \in Ids  BY <1>1, <1>2 DEF Placed, Waiting
<1>4. /\ records' \in [Ids -> Record]
      /\ \A k \in Ids : /\ records'[k].key = records[k].key
                        /\ Live(k)' => Live(k)
                        /\ records'[k].status = "unused" => records[k].status = "unused"
                        /\ k # i => records'[k] = records[k]
      /\ records'[i].status # "completed"
  <2>1. now \in Seconds  BY <1>1 DEF Types
  <2>2. "failed" \in Statuses \ {"unused", "deleted"}  BY DEF Statuses
  <2>3. Written(i, [records[i] EXCEPT !.status = "failed", !.completedAt = now])
    BY <1>2 DEF Finish
  <2> HIDE DEF i
  <2>4. /\ records' \in [Ids -> Record]
        /\ \A k \in Ids : /\ records'[k].key = records[k].key
                          /\ Live(k)' <=> Live(k)
                          /\ records'[k].status = "unused" => records[k].status = "unused"
                          /\ k # i => records'[k] = records[k]
        /\ records'[i].status \notin {"unused", "deleted"} => records'[i].status = "failed"
    BY <1>1, <1>3, <2>1, <2>2, <2>3, UpdateIs DEF Live
  <2> QED  BY <2>4
<1>5. "rethrow" \in Pcs  BY DEF Pcs
<1>6. /\ jobs'[j].pc = "rethrow" /\ jobs'[j].payload = jobs[j].payload
      /\ jobs'[j].id = i /\ jobs'[j].key = jobs[j].key /\ jobs'[j].expired = jobs[j].expired
  BY <1>1, <1>2, <1>5, GotoIs
<1>7. Calm(j)
  BY <1>2, <1>6 DEF Calm, Active, Cleans, Waiting, Again
<1>8. \A k \in Ids : CalmRecord(k)
  <2>1. ASSUME NEW k \in Ids, k = i  PROVE CalmRecord(k)
    BY <1>4, <2>1 DEF CalmRecord, Completed
  <2> QED  BY <1>4, <2>1, RecordKept
<1>9. Dumped(j)'  BY <1>6 DEF Dumped, Waiting
<1> QED  BY <1>1, <1>2, <1>4, <1>5, <1>7, <1>8, <1>9, JobGoes DEF Types

LEMMA DeleteRowsIInv ==
  ASSUME IInv, NEW j \in Jobs, DeleteRows(j)
  PROVE  IInv'
<1> DEFINE ids == {p[1] : p \in jobs[j].expired}
<1>1. Types /\ Placed /\ Held  BY DEF IInv
<1>2. /\ jobs[j].pc = "rows" /\ Goto(j, "end")
      /\ records' = [i \in Ids |-> IF i \in ids THEN [records[i] EXCEPT !.status = "deleted"]
                                                ELSE records[i]]
      /\ UNCHANGED <<now, config, objects, files, asked, deletion, runsAt, crossed, faults>>
  BY DEF DeleteRows, ghosts, setting
<1>3. \A i \in Ids, key \in Seconds : <<i, key>> \in jobs[j].expired => i \in ids
  <2>1. \A i \in Ids, key \in Seconds : <<i, key>>[1] = i  OBVIOUS
  <2> QED  BY <2>1
<1> HIDE DEF ids
<1>4. /\ records' \in [Ids -> Record]
      /\ \A i \in Ids : /\ i \in ids => records'[i].status = "deleted"
                        /\ i \notin ids => records'[i] = records[i]
                        /\ records'[i].key = records[i].key
  BY <1>1, <1>2 DEF Types, Record
<1>5. "end" \in Pcs  BY DEF Pcs
<1>6. /\ jobs'[j].pc = "end" /\ jobs'[j].payload = jobs[j].payload
      /\ jobs'[j].id = jobs[j].id /\ jobs'[j].key = jobs[j].key /\ jobs'[j].expired = jobs[j].expired
  BY <1>1, <1>2, <1>5, GotoIs
<1>7. Calm(j)
  <2>1. \A i \in Ids, key \in Seconds : <<i, key>> \in jobs[j].expired => ~Completed(i)'
    BY <1>3, <1>4 DEF Completed
  <2> QED  BY <1>2, <1>6, <2>1 DEF Calm, Active, Cleans, Waiting, Again
<1>8. \A i \in Ids : CalmRecord(i)
  BY <1>4 DEF CalmRecord, Live, Completed
<1>9. Dumped(j)'  BY <1>6 DEF Dumped, Waiting
<1> QED  BY <1>1, <1>2, <1>4, <1>5, <1>7, <1>8, <1>9, JobGoes DEF Types

LEMMA NoJobIs ==
  /\ NoJob.pc = "none" /\ NoJob.payload = NoRecord /\ NoJob.id = NoRecord
  /\ NoJob.expired = {} /\ NoJob \in Job
BY DEF NoJob, Job, Names

\* A job that has ended, or is queued again.
LEMMA JobRests ==
  ASSUME IInv, NEW j \in Jobs, NEW new \in Job,
         jobs' = [jobs EXCEPT ![j] = new],
         \/ new = NoJob /\ jobs[j].pc \in {"queued", "end"}
         \/ /\ new.pc = "queued" /\ jobs[j].pc = "rethrow"
            /\ new.payload = jobs[j].payload /\ new.id = jobs[j].id /\ new.expired = jobs[j].expired,
         jobs[j].pc = "queued" => jobs[j].payload = NoRecord,
         files' = files \ {jobs[j].key} \/ (files' = files /\ jobs[j].pc = "queued"),
         UNCHANGED <<now, config, records, objects, asked, deletion, runsAt, crossed, faults>>
  PROVE  IInv'
<1>1. Types /\ Held /\ Filed  BY DEF IInv
<1>2. jobs'[j] = new /\ jobs' \in [Jobs -> Job] /\ \A l \in Jobs \ {j} : jobs'[l] = jobs[l]
  BY <1>1 DEF Types
<1>3. Types'  BY <1>1, <1>2 DEF Types
<1>4. /\ new.pc \in Waiting /\ new.expired \subseteq jobs[j].expired
      /\ new.payload \in {NoRecord, jobs[j].payload} /\ new.id \in {NoRecord, jobs[j].id}
      /\ new.payload \in Ids => new.payload = jobs[j].payload /\ new.id = jobs[j].id
      /\ jobs[j].pc = "rethrow" => new.pc = "queued" /\ new.payload = jobs[j].payload
  BY NoJobIs, Sentinels DEF Waiting
<1>5. Quiet
  <2>1. Calm(j)
    <3>1. jobs[j].pc \in {"queued", "end", "rethrow"}  OBVIOUS
    <3>2. \A i \in Ids : jobs[j].payload = i /\ jobs[j].pc \in Again =>
              jobs'[j].payload = i /\ jobs'[j].pc \in Again
      BY <1>2, <1>4, <3>1, Sentinels DEF Again
    <3>3. jobs'[j].pc \in Waiting /\ jobs'[j].expired \subseteq jobs[j].expired
      BY <1>2, <1>4
    <3> QED  BY <3>1, <3>2, <3>3 DEF Calm, Active, Cleans, Waiting
  <2>2. CalmDeletion  BY DEF CalmDeletion
  <2> QED  BY <1>1, <1>2, <2>1, <2>2, JobKept, RecordKept, Later DEF Quiet
<1>6. Held'
  <2>1. \A i \in Ids : Holds(j, i)' => Holds(j, i)  BY <1>2, <1>4, Sentinels DEF Holds
  <2>2. \A l \in Jobs : \A i \in Ids : Holds(l, i)' => Holds(l, i)
    <3>1. \A l \in Jobs \ {j} : \A i \in Ids : Holds(l, i)' => Holds(l, i)  BY <1>2 DEF Holds
    <3> QED  BY <2>1, <3>1
  <2>3. \A l \in Jobs : jobs'[l].payload \in Ids => jobs'[l].id \in {NoRecord, jobs'[l].payload}
    BY <1>1, <1>2, <1>4 DEF Held
  <2> QED  BY <1>1, <2>2, <2>3, HeldKept DEF Types
<1>7. Filed'
  <2>1. Dumped(j) => jobs[j].key \notin files'  BY DEF Dumped, Waiting
  <2>2. \A l \in Jobs : Dumped(l) => \/ Dumped(l)' /\ jobs'[l].key = jobs[l].key
                                     \/ jobs[l].key \notin files'
    BY <1>2, <2>1 DEF Dumped
  <2> QED  BY <1>1, <2>2, FiledKept
<1> QED  BY <1>3, <1>5, <1>6, <1>7, QuietStep

LEMMA SkipIInv ==
  ASSUME IInv, NEW j \in Jobs, Skip(j)
  PROVE  IInv'
BY NoJobIs, JobRests DEF Skip, ghosts, setting

LEMMA UnlinkIInv ==
  ASSUME IInv, NEW j \in Jobs, Unlink(j)
  PROVE  IInv'
<1> DEFINE new == AfterRun(jobs[j])
<1>1. Types  BY DEF IInv
<1>2. /\ jobs[j].pc \in {"end", "rethrow"} /\ jobs' = [jobs EXCEPT ![j] = new]
      /\ files' = files \ {jobs[j].key}
      /\ UNCHANGED <<now, config, records, objects, asked, deletion, runsAt, crossed, faults>>
  BY DEF Unlink, Unlinked, ghosts, setting
<1>3. CASE jobs[j].pc = "end"
  <2>1. new = NoJob  BY <1>3 DEF AfterRun
  <2> HIDE DEF new
  <2> QED  BY <1>2, <1>3, <2>1, NoJobIs, JobRests
<1>4. CASE jobs[j].pc = "rethrow"
  <2>1. /\ new.pc = "queued" /\ new.payload = jobs[j].payload /\ new.id = jobs[j].id
        /\ new.expired = jobs[j].expired /\ new \in Job
    BY <1>1, <1>4 DEF AfterRun, Types, Job
  <2> HIDE DEF new
  <2> QED  BY <1>2, <1>4, <2>1, JobRests
<1> QED  BY <1>2, <1>3, <1>4

LEMMA CrashIInv ==
  ASSUME IInv, Crash
  PROVE  IInv'
<1>1. Types /\ Placed /\ Held /\ Filed  BY DEF IInv
<1>2. /\ jobs' = [j \in Jobs |-> IF Running(j) THEN [jobs[j] EXCEPT !.pc = "queued"] ELSE jobs[j]]
      /\ crossed' = crossed \union UNION {Cut(j) : j \in Jobs}
      /\ files' = {} /\ faults' \in 0..MaxFaults
      /\ UNCHANGED <<now, config, records, objects, asked, deletion, runsAt>>
  BY <1>1, FaultCounted DEF Crash, setting
<1>3. ASSUME NEW j \in Jobs
      PROVE  /\ jobs'[j] \in Job /\ jobs'[j].pc \in Waiting
             /\ jobs[j].pc # "none" => jobs'[j].pc = "queued"
             /\ jobs'[j].payload = jobs[j].payload /\ jobs'[j].id = jobs[j].id
             /\ jobs'[j].expired = jobs[j].expired
  BY <1>1, <1>2 DEF Types, Job, Running, Waiting
<1>4. \A j \in Jobs : Cut(j) \subseteq Seconds  BY <1>1, ExpiredKeysAre DEF Cut
<1>5. Types'
  <2>1. crossed' \subseteq Seconds  BY <1>1, <1>2, <1>4 DEF Types
  <2>2. jobs' \in [Jobs -> Job]  BY <1>2, <1>3
  <2> QED  BY <1>1, <1>2, <2>1, <2>2 DEF Types
<1>6. Quiet
  <2>1. ASSUME NEW j \in Jobs  PROVE Calm(j)
    <3>1. jobs[j].pc = "rows" => ExpiredKeys(j) \subseteq crossed'
      BY <1>2 DEF Cut
    <3>2. jobs[j].pc \in Again => jobs'[j].pc \in Again  BY <1>3 DEF Again
    <3> QED  BY <1>3, <3>1, <3>2 DEF Calm, Active, Cleans, Waiting
  <2>2. CalmDeletion  BY <1>2 DEF CalmDeletion
  <2> QED  BY <1>1, <1>2, <2>1, <2>2, RecordKept, Later DEF Quiet
<1>7. Held'
  <2>1. \A l \in Jobs : \A i \in Ids : Holds(l, i)' => Holds(l, i)  BY <1>3 DEF Holds
  <2>2. \A l \in Jobs : jobs'[l].payload \in Ids => jobs'[l].id \in {NoRecord, jobs'[l].payload}
    BY <1>1, <1>3 DEF Held
  <2> QED  BY <1>1, <1>2, <2>1, <2>2, HeldKept DEF Types
<1>8. Filed'  BY <1>2 DEF Filed
<1> QED  BY <1>5, <1>6, <1>7, <1>8, QuietStep

-----------------------------------------------------------------------------
(* The steps that begin a run, name a record, or touch the bucket.         *)

Has(l, i, key) == Cleans(l) /\ <<i, key>> \in jobs[l].expired

There(i, key) ==
    \/ key \in objects
    \/ Safe(key)
    \/ deletion = [pc |-> "commit", id |-> i, key |-> key]

Stored(i, key) ==
    \/ There(i, key)
    \/ \E j \in Jobs : jobs[j].pc = "rows" /\ <<i, key>> \in jobs[j].expired /\ Old(i)
    \/ RunsAgain(i)

\* What the last conjuncts say of one record and its key.
LEMMA UploadedIs ==
  ASSUME Uploaded, NEW j \in Jobs, jobs[j].pc = "complete",
         NEW i, i = jobs[j].id, NEW key, key = jobs[j].key
  PROVE  /\ Live(i) => There(i, key)
         /\ \A l \in Jobs : Has(l, i, key) => Safe(key)
BY DEF Uploaded, There, Has

LEMMA StoredIs ==
  ASSUME CompletedIsStored, NEW i \in Ids, Completed(i), NEW key, key = records[i].key
  PROVE  Stored(i, key)
BY DEF CompletedIsStored, Stored, There, Safe, Old

LEMMA UploadedIf ==
  ASSUME Placed',
         \A j \in Jobs : \A i \in Ids : \A key \in Seconds :
             jobs'[j].pc = "complete" /\ jobs'[j].id = i /\ jobs'[j].key = key =>
                 /\ Live(i)' => There(i, key)'
                 /\ \A l \in Jobs : Has(l, i, key)' => Safe(key)'
  PROVE  Uploaded'
<1>1. \A j \in Jobs : jobs'[j].pc = "complete" => jobs'[j].id \in Ids /\ jobs'[j].key \in Seconds
  BY DEF Placed, Waiting
<1> QED  BY <1>1 DEF Uploaded, Live, There, Safe, Shared, Has

LEMMA OldIf ==
  ASSUME Placed',
         \A l \in Jobs : \A i \in Ids : \A key \in Seconds :
             Has(l, i, key)' /\ Completed(i)' /\ records'[i].key = key =>
                 Old(i)' \/ Safe(key)' \/ RunsAgain(i)'
  PROVE  ExpiredAreOld'
<1>1. \A i \in Ids : Completed(i)' => records'[i].key \in Seconds  BY DEF Placed
<1> QED  BY <1>1 DEF ExpiredAreOld, Has, Safe, Shared

LEMMA StoredIf ==
  ASSUME Placed',
         \A i \in Ids : \A key \in Seconds :
             Completed(i)' /\ records'[i].key = key => Stored(i, key)'
  PROVE  CompletedIsStored'
<1>1. \A i \in Ids : Completed(i)' => records'[i].key \in Seconds  BY DEF Placed
<1> QED  BY <1>1 DEF CompletedIsStored, Stored, There, Safe, Shared, Old

LEMMA RemovedIf ==
  ASSUME Placed', Types',
         \A i \in Ids : \A named \in Seconds :
             Live(i)' /\ records'[i].key = named /\ named \in objects' =>
                 /\ \A l \in Jobs : \A key \in Seconds :
                        Has(l, i, key)' /\ (jobs'[l].pc = "rows" \/ named # key) => Safe(named)'
                 /\ /\ deletion'.pc # "idle" /\ deletion'.id = i
                    /\ deletion'.pc = "commit" \/ named # deletion'.key
                    => Safe(named)'
  PROVE  Removed'
<1>1. deletion'.pc # "idle" => deletion'.id \in Ids  BY DEF Placed
<1>2. objects' \subseteq Seconds  BY DEF Types
<1> QED  BY <1>1, <1>2 DEF Removed, Has, Live, Safe, Shared

\* What is safe stays so.
LEMMA SafeStays ==
  ASSUME crossed \subseteq crossed', Types, Types',
         \A t \in Seconds : runsAt[t] = 2 => runsAt'[t] = 2
  PROVE  \A key \in Seconds : Safe(key) => Safe(key)'
BY DEF Safe, Shared

LEMMA StartIInv ==
  ASSUME IInv, NEW j \in Jobs, Start(j)
  PROVE  IInv'
<1> USE Sentinels
<1>1. /\ Types /\ Placed /\ Filed /\ Held /\ Marked /\ Owned /\ Uploaded /\ ExpiredAreOld
      /\ CompletedIsStored /\ Removed
  BY DEF IInv
<1>2. /\ jobs[j].pc = "queued" 
      /\ jobs' = [jobs EXCEPT ![j].pc = "upsert", ![j].key = now, ![j].expired = {}]
      /\ runsAt' = [runsAt EXCEPT ![now] = IF @ = 0 THEN 1 ELSE 2]
      /\ UNCHANGED <<now, config, records, objects, files, asked, deletion, crossed, faults>>
  BY DEF Start, setting
<1>3. now \in Seconds  BY <1>1 DEF Types
<1>4. /\ jobs' \in [Jobs -> Job]
      /\ jobs'[j].pc = "upsert" /\ jobs'[j].key = now /\ jobs'[j].expired = {}
      /\ jobs'[j].payload = jobs[j].payload /\ jobs'[j].id = jobs[j].id
      /\ \A l \in Jobs \ {j} : jobs'[l] = jobs[l]
  <2> DEFINE new == [jobs[j] EXCEPT !.pc = "upsert", !.key = now, !.expired = {}]
  <2>1. jobs' = [jobs EXCEPT ![j] = new]  BY <1>1, <1>2 DEF Types
  <2>2. /\ new \in Job /\ new.pc = "upsert" /\ new.key = now /\ new.expired = {}
        /\ new.payload = jobs[j].payload /\ new.id = jobs[j].id
    BY <1>1, <1>3 DEF Types, Job, Names
  <2> HIDE DEF new
  <2> QED  BY <1>1, <2>1, <2>2 DEF Types
<1>5. /\ runsAt' \in [Seconds -> 0..2] /\ runsAt'[now] # 0
      /\ \A t \in Seconds : /\ runsAt[t] = 2 => runsAt'[t] = 2
                            /\ t # now => runsAt'[t] = runsAt[t]
      /\ runsAt[now] # 0 => runsAt'[now] = 2
  <2>1. runsAt \in [Seconds -> 0..2]  BY <1>1 DEF Types
  <2>2. (IF runsAt[now] = 0 THEN 1 ELSE 2) \in 0..2  OBVIOUS
  <2> QED  BY <1>2, <1>3, <2>1, <2>2
<1>6. Types'  BY <1>1, <1>2, <1>4, <1>5 DEF Types
<1>7. Placed'
  BY <1>1, <1>2, <1>3, <1>4 DEF Placed, Waiting, Completed
<1>8. \A l \in Jobs : /\ Active(l)' => l # j /\ Active(l)
                      /\ Cleans(l)' => l # j /\ Cleans(l)
  BY <1>4 DEF Active, Cleans
<1>9. Filed'
  BY <1>1, <1>2, <1>4, FiledKept DEF Dumped, Waiting
<1>10. Held'
  <2>1. \A l \in Jobs : \A i \in Ids : Holds(l, i)' => Holds(l, i)  BY <1>4 DEF Holds
  <2>2. \A l \in Jobs : jobs'[l].payload \in Ids => jobs'[l].id \in {NoRecord, jobs'[l].payload}
    BY <1>1, <1>4 DEF Held
  <2> QED  BY <1>1, <1>2, <2>1, <2>2, HeldKept DEF Types
<1>11. Marked'
  BY <1>1, <1>2, <1>4, <1>8 DEF Marked, Live, Completed
<1>12. Owned'
  <2>1. \A i \in Ids, key \in Seconds : Owns(i, key)' => Owns(i, key)
    <3>1. ASSUME NEW i \in Ids, NEW key \in Seconds, NEW l \in Jobs,
                 \/ <<i, key>> \in jobs'[l].expired
                 \/ Active(l)' /\ jobs'[l].id = i /\ jobs'[l].key = key
          PROVE  Owns(i, key)
      <4>1. l # j  BY <1>4, <1>8, <3>1
      <4> QED  BY <1>4, <1>8, <3>1, <4>1 DEF Owns
    <3> QED  BY <1>2, <3>1 DEF Owns
  <2>2. \A l \in Jobs, key \in Seconds : Fresh(l, key)' => Fresh(l, key) \/ (l = j /\ key = now)
    BY <1>4 DEF Fresh
  <2>3. SUFFICES ASSUME NEW key \in Seconds
                 PROVE  /\ \/ key \in objects'
                           \/ \E i \in Ids : Owns(i, key)'
                           \/ \E l \in Jobs : Fresh(l, key)'
                           => runsAt'[key] # 0
                        /\ ~Shared(key)' =>
                               /\ \A a, b \in Ids : Owns(a, key)' /\ Owns(b, key)' => a = b
                               /\ \A l \in Jobs : Fresh(l, key)' =>
                                      /\ key \notin objects'
                                      /\ \A i \in Ids : ~Owns(i, key)'
                                      /\ \A m \in Jobs : Fresh(m, key)' => m = l
    BY DEF Owned
  <2>4. CASE key # now
    <3>1. \A l \in Jobs : Fresh(l, key)' => Fresh(l, key)  BY <2>2, <2>4
    <3>2. Shared(key)' <=> Shared(key)  BY <1>5, <2>4 DEF Shared
    <3> QED  BY <1>1, <1>2, <1>5, <2>1, <2>4, <3>1, <3>2 DEF Owned
  <2>5. CASE key = now /\ runsAt[now] # 0
    BY <1>3, <1>5, <2>5 DEF Shared
  <2>6. CASE key = now /\ runsAt[now] = 0
    <3>1. /\ key \notin objects /\ \A i \in Ids : ~Owns(i, key)
          /\ \A l \in Jobs : ~Fresh(l, key)
      BY <1>1, <2>6 DEF Owned
    <3> QED  BY <1>2, <1>5, <2>1, <2>2, <2>6, <3>1
  <2> QED  BY <2>4, <2>5, <2>6
<1>13. \A key \in Seconds : Safe(key) => Safe(key)'
  BY <1>1, <1>2, <1>5, <1>6, SafeStays
<1>14. /\ \A l \in Jobs, i \in Ids, key \in Seconds : Has(l, i, key)' => Has(l, i, key) /\ jobs'[l].pc = jobs[l].pc
       /\ \A i \in Ids, key \in Seconds : There(i, key) => There(i, key)'
       /\ \A i \in Ids : Old(i) => Old(i)'
       /\ \A i \in Ids : RunsAgain(i) => RunsAgain(i)'
  <2>1. \A i \in Ids : RunsAgain(i) => RunsAgain(i)'
    <3>1. SUFFICES ASSUME NEW i \in Ids, NEW l \in Jobs, jobs[l].payload = i, jobs[l].pc \in Again
                   PROVE  jobs'[l].payload = i /\ jobs'[l].pc \in Again
      BY DEF RunsAgain, Again
    <3> QED  BY <1>4, <3>1 DEF Again
  <2> QED  BY <1>2, <1>4, <1>8, <1>13, <2>1 DEF Has, There, Old
<1>15. Uploaded'
  <2>1. SUFFICES ASSUME NEW l \in Jobs, NEW i \in Ids, NEW key \in Seconds,
                        jobs'[l].pc = "complete", jobs'[l].id = i, jobs'[l].key = key
                 PROVE  /\ Live(i)' => There(i, key)'
                        /\ \A m \in Jobs : Has(m, i, key)' => Safe(key)'
    BY <1>7, UploadedIf
  <2>2. jobs'[l] = jobs[l]  BY <1>4, <2>1
  <2>3. /\ Live(i) => There(i, key)
        /\ \A m \in Jobs : Has(m, i, key) => Safe(key)
    BY <1>1, <2>1, <2>2, UploadedIs
  <2> QED  BY <1>2, <1>13, <1>14, <2>3 DEF Live
<1>16. ExpiredAreOld'
  BY <1>1, <1>2, <1>7, <1>13, <1>14, OldIf DEF ExpiredAreOld, Has, Completed
<1>17. CompletedIsStored'
  <2>1. SUFFICES ASSUME NEW i \in Ids, NEW key \in Seconds, Completed(i)', records'[i].key = key
                 PROVE  Stored(i, key)'
    BY <1>7, StoredIf
  <2>2. Stored(i, key)  BY <1>1, <1>2, <2>1, StoredIs DEF Completed
  <2> QED  BY <1>2, <1>4, <1>14, <2>2 DEF Stored
<1>18. Removed'
  BY <1>1, <1>2, <1>6, <1>7, <1>13, <1>14, RemovedIf DEF Removed, Has, Live
<1> QED  BY <1>6, <1>7, <1>9, <1>10, <1>11, <1>12, <1>15, <1>16, <1>17, <1>18 DEF IInv

LEMMA UploadIInv ==
  ASSUME IInv, NEW j \in Jobs, Upload(j)
  PROVE  IInv'
<1> USE Sentinels
<1>1. /\ Types /\ Placed /\ Filed /\ Held /\ Marked /\ Owned /\ Uploaded /\ ExpiredAreOld
      /\ CompletedIsStored /\ Removed
  BY DEF IInv
<1>2. /\ jobs[j].pc = "upload"
      /\ UNCHANGED <<now, config, records, files, asked, deletion, runsAt, faults>>
  BY DEF Upload, setting
<1>3. CASE jobs[j].key \notin files
  <2>1. Goto(j, "catch") /\ UNCHANGED <<objects, crossed>>  BY <1>3 DEF Upload
  <2>2. "catch" \in Pcs  BY DEF Pcs
  <2>3. /\ jobs'[j].pc = "catch" /\ jobs'[j].payload = jobs[j].payload
        /\ jobs'[j].id = jobs[j].id /\ jobs'[j].key = jobs[j].key /\ jobs'[j].expired = jobs[j].expired
    BY <1>1, <2>1, <2>2, GotoIs
  <2>4. Calm(j)  BY <1>2, <2>3 DEF Calm, Active, Cleans, Waiting, Again
  <2>5. Dumped(j)'  BY <2>3 DEF Dumped, Waiting
  <2> QED  BY <1>1, <1>2, <2>1, <2>2, <2>4, <2>5, RecordKept, JobGoes DEF Types
<1>4. CASE jobs[j].key \in files
  <2> DEFINE i == jobs[j].id
             key == jobs[j].key
  <2>1. /\ Goto(j, "complete") /\ objects' = objects \union {key}
        /\ crossed' = IF BeingDeleted(i, key) THEN crossed \union {key} ELSE crossed
    BY <1>4 DEF Upload
  <2>2. i \in Ids /\ key \in Seconds  BY <1>1, <1>2 DEF Placed, Waiting
  <2>3. "complete" \in Pcs  BY DEF Pcs
  <2>4. /\ jobs' \in [Jobs -> Job] /\ jobs'[j].pc = "complete" /\ jobs'[j].payload = jobs[j].payload
        /\ jobs'[j].id = i /\ jobs'[j].key = key /\ jobs'[j].expired = jobs[j].expired
        /\ \A l \in Jobs \ {j} : jobs'[l] = jobs[l]
    BY <1>1, <2>1, <2>3, GotoIs
  <2>5. Active(j) /\ Active(j)' /\ Owns(i, key)  BY <1>2, <2>2, <2>4 DEF Active, Owns
  <2>6. (Live(i) => records[i].key = key) /\ ~Completed(i)
    BY <1>1, <1>2, <2>5 DEF Marked
  <2> HIDE DEF i, key
  <2>7. crossed \subseteq crossed' /\ crossed' \subseteq Seconds  BY <1>1, <2>1, <2>2 DEF Types
  <2>8. Types'  BY <1>1, <1>2, <2>1, <2>2, <2>4, <2>7 DEF Types
  <2>9. Placed'  BY <1>1, <1>2, <2>2, <2>4 DEF Placed, Completed
  <2>10. Filed'
    <3>1. Dumped(j)'  BY <2>4 DEF Dumped, Waiting
    <3> QED  BY <1>1, <1>2, <2>4, <3>1, FiledKept DEF Dumped, key
  <2>11. Held'
    <3>1. \A l \in Jobs : \A k \in Ids : Holds(l, k)' => Holds(l, k)  BY <2>4 DEF Holds, i
    <3>2. \A l \in Jobs : jobs'[l].payload \in Ids => jobs'[l].id \in {NoRecord, jobs'[l].payload}
      BY <1>1, <2>4 DEF Held, i
    <3> QED  BY <1>1, <1>2, <3>1, <3>2, HeldKept DEF Types
  <2>12. \A l \in Jobs : /\ Active(l)' => Active(l) /\ jobs'[l].id = jobs[l].id /\ jobs'[l].key = jobs[l].key
                         /\ Cleans(l)' => Cleans(l) /\ jobs'[l] = jobs[l]
                         /\ jobs'[l].expired = jobs[l].expired
    BY <2>4, <2>5 DEF Active, Cleans, i, key
  <2>13. Marked'
    BY <1>1, <1>2, <2>4, <2>6, <2>12 DEF Marked, Live, Completed
  <2>14. Owned'
    <3>1. \A k \in Ids, t \in Seconds : Owns(k, t)' => Owns(k, t)  BY <1>2, <2>12 DEF Owns
    <3>2. \A l \in Jobs, t \in Seconds : Fresh(l, t)' => Fresh(l, t)  BY <2>4 DEF Fresh
    <3> QED  BY <1>1, <1>2, <2>1, <2>2, <2>5, <3>1, <3>2, OwnedKept
  <2>15. \A t \in Seconds : Safe(t) => Safe(t)'
    BY <1>1, <1>2, <2>7, <2>8, SafeStays
  <2>16. /\ \A l \in Jobs, k \in Ids, t \in Seconds : Has(l, k, t)' => Has(l, k, t) /\ jobs'[l].pc = jobs[l].pc
         /\ \A k \in Ids, t \in Seconds : There(k, t) => There(k, t)'
         /\ \A k \in Ids : Old(k) => Old(k)'
         /\ \A k \in Ids : RunsAgain(k) => RunsAgain(k)'
    <3>1. \A k \in Ids : RunsAgain(k) => RunsAgain(k)'
      <4>1. SUFFICES ASSUME NEW k \in Ids, NEW l \in Jobs, jobs[l].payload = k, jobs[l].pc \in Again
                     PROVE  jobs'[l].payload = k /\ jobs'[l].pc \in Again
        BY DEF RunsAgain, Again
      <4> QED  BY <1>2, <2>4, <4>1 DEF Again
    <3> QED  BY <1>2, <2>1, <2>12, <2>15, <3>1 DEF Has, There, Old
  <2>17. \A l \in Jobs : Has(l, i, key) => key \in crossed'
    <3>1. SUFFICES ASSUME NEW l \in Jobs, Has(l, i, key)  PROVE key \in crossed'
      OBVIOUS
    <3>2. <<i, key>>[1] = i  OBVIOUS
    <3>3. i \in {p[1] : p \in jobs[l].expired}  BY <3>1, <3>2 DEF Has
    <3>4. BeingDeleted(i, key)  BY <3>1, <3>3 DEF BeingDeleted, Has, Cleans
    <3> QED  BY <2>1, <3>4
  <2>18. Uploaded'
    <3>1. SUFFICES ASSUME NEW l \in Jobs, NEW k \in Ids, NEW t \in Seconds,
                          jobs'[l].pc = "complete", jobs'[l].id = k, jobs'[l].key = t
                   PROVE  /\ Live(k)' => There(k, t)'
                          /\ \A m \in Jobs : Has(m, k, t)' => Safe(t)'
      BY <2>9, UploadedIf
    <3>2. CASE l = j
      <4>1. k = i /\ t = key  BY <2>4, <3>1, <3>2
      <4>2. There(k, t)'  BY <2>1, <4>1 DEF There
      <4> QED  BY <2>16, <2>17, <4>1, <4>2 DEF Safe
    <3>3. CASE l # j
      <4>1. jobs'[l] = jobs[l]  BY <2>4, <3>3
      <4>2. /\ Live(k) => There(k, t)
            /\ \A m \in Jobs : Has(m, k, t) => Safe(t)
        BY <1>1, <3>1, <4>1, UploadedIs
      <4> QED  BY <1>2, <2>15, <2>16, <4>2 DEF Live
    <3> QED  BY <3>2, <3>3
  <2>19. ExpiredAreOld'
    BY <1>1, <1>2, <2>9, <2>15, <2>16, OldIf DEF ExpiredAreOld, Has, Completed
  <2>20. CompletedIsStored'
    <3>1. SUFFICES ASSUME NEW k \in Ids, NEW t \in Seconds, Completed(k)', records'[k].key = t
                   PROVE  Stored(k, t)'
      BY <2>9, StoredIf
    <3>2. Stored(k, t)  BY <1>1, <1>2, <3>1, StoredIs DEF Completed
    <3>3. ASSUME NEW l \in Jobs, jobs[l].pc = "rows"  PROVE jobs'[l] = jobs[l]
      BY <1>2, <2>4, <3>3
    <3> QED  BY <2>16, <3>2, <3>3 DEF Stored
  <2>21. Removed'
    <3>1. SUFFICES ASSUME NEW k \in Ids, NEW named \in Seconds,
                          Live(k)', records'[k].key = named, named \in objects'
                   PROVE  /\ \A l \in Jobs : \A t \in Seconds :
                                 Has(l, k, t)' /\ (jobs'[l].pc = "rows" \/ named # t) => Safe(named)'
                          /\ /\ deletion'.pc # "idle" /\ deletion'.id = k
                             /\ deletion'.pc = "commit" \/ named # deletion'.key
                             => Safe(named)'
      BY <2>8, <2>9, RemovedIf
    <3>2. Live(k) /\ records[k].key = named  BY <1>2, <3>1 DEF Live
    <3>3. CASE named \in objects
      BY <1>1, <1>2, <2>15, <2>16, <3>2, <3>3 DEF Removed, Has
    <3>4. CASE named = key /\ named \notin objects
      <4>1. CASE Shared(named)
        BY <2>15, <4>1 DEF Safe
      <4>2. CASE ~Shared(named)
        <5>1. k = i
          <6>1. Owns(k, named)  BY <3>2 DEF Owns
          <6> QED  BY <1>1, <2>2, <2>5, <3>4, <4>2, <6>1 DEF Owned
        <5>2. ASSUME NEW l \in Jobs, NEW t \in Seconds, Has(l, k, t)'  PROVE Safe(named)'
          <6>1. Has(l, i, t)  BY <2>16, <5>1, <5>2
          <6>2. <<i, t>>[1] = i  OBVIOUS
          <6>3. i \in {p[1] : p \in jobs[l].expired}  BY <6>1, <6>2 DEF Has
          <6>4. BeingDeleted(i, key)  BY <6>1, <6>3 DEF BeingDeleted, Has, Cleans
          <6> QED  BY <2>1, <3>4, <6>4 DEF Safe
        <5>3. ASSUME deletion'.id = k, deletion'.pc = "commit" \/ named # deletion'.key
              PROVE  Safe(named)'
          <6>1. BeingDeleted(i, key)  BY <1>2, <3>4, <5>1, <5>3 DEF BeingDeleted, Locked
          <6> QED  BY <2>1, <3>4, <6>1 DEF Safe
        <5> QED  BY <5>2, <5>3
      <4> QED  BY <4>1, <4>2
    <3> QED  BY <2>1, <3>1, <3>3, <3>4
  <2> QED  BY <2>8, <2>9, <2>10, <2>11, <2>13, <2>14, <2>18, <2>19, <2>20, <2>21 DEF IInv
<1> QED  BY <1>3, <1>4
\* A step of one job that goes to another place keeps who holds what.
LEMMA HeldThen ==
  ASSUME Types, Held, NEW j \in Jobs,
         jobs'[j].payload = jobs[j].payload, jobs'[j].id = jobs[j].id,
         \A l \in Jobs \ {j} : jobs'[l] = jobs[l], asked' = asked,
         \A i \in Ids : records'[i].status = "unused" => records[i].status = "unused"
  PROVE  Held'
<1>1. \A l \in Jobs : \A i \in Ids : Holds(l, i)' => Holds(l, i)  BY DEF Holds
<1>2. \A l \in Jobs : jobs'[l].payload \in Ids => jobs'[l].id \in {NoRecord, jobs'[l].payload}
  BY DEF Held
<1> QED  BY <1>1, <1>2, HeldKept DEF Types

LEMMA MarkCompletedIInv ==
  ASSUME IInv, NEW j \in Jobs, MarkCompleted(j)
  PROVE  IInv'
<1> USE Sentinels
<1>0. SUFFICES ASSUME NEW i, i = jobs[j].id, NEW key, key = jobs[j].key
      PROVE  IInv'
  OBVIOUS
<1>1. /\ Types /\ Placed /\ Filed /\ Held /\ Marked /\ Owned /\ Uploaded /\ ExpiredAreOld
      /\ CompletedIsStored /\ Removed
  BY DEF IInv
<1>2. /\ jobs[j].pc = "complete" /\ Goto(j, "expire") /\ Finish(i, "completed")
      /\ UNCHANGED <<now, config, objects, files, asked, deletion, runsAt, crossed, faults>>
  BY <1>0 DEF MarkCompleted, ghosts, setting
<1>3. i \in Ids /\ key \in Seconds  BY <1>0, <1>1, <1>2 DEF Placed, Waiting
<1>4. /\ records' \in [Ids -> Record]
      /\ \A k \in Ids : /\ records'[k].key = records[k].key
                        /\ Live(k)' => Live(k)
                        /\ records'[k].status = "unused" => records[k].status = "unused"
                        /\ k # i => records'[k] = records[k]
  <2>1. now \in Seconds  BY <1>1 DEF Types
  <2>2. "completed" \in Statuses \ {"unused", "deleted"}  BY DEF Statuses
  <2>3. Written(i, [records[i] EXCEPT !.status = "completed", !.completedAt = now])
    BY <1>2 DEF Finish
  <2> QED  BY <1>1, <1>3, <2>1, <2>2, <2>3, UpdateIs
<1>5. "expire" \in Pcs  BY DEF Pcs
<1>6. /\ jobs' \in [Jobs -> Job] /\ jobs'[j].pc = "expire" /\ jobs'[j].payload = jobs[j].payload
      /\ jobs'[j].id = i /\ jobs'[j].key = key /\ jobs'[j].expired = jobs[j].expired
      /\ \A l \in Jobs \ {j} : jobs'[l] = jobs[l]
  BY <1>0, <1>1, <1>2, <1>5, GotoIs
<1>7. Active(j)  BY <1>2 DEF Active
<1>8. Live(i) => records[i].key = key  BY <1>0, <1>1, <1>7 DEF Marked
<1>9. /\ Live(i) => There(i, key)
      /\ \A l \in Jobs : Has(l, i, key) => Safe(key)
  BY <1>0, <1>1, <1>2, UploadedIs
<1>10. Filed'
  <2>1. Dumped(j)'  BY <1>6 DEF Dumped, Waiting
  <2> QED  BY <1>1, <1>2, <1>6, <2>1, FiledKept, <1>0 DEF Dumped
<1>11. Held'  BY <1>0, <1>1, <1>2, <1>4, <1>6, HeldThen
<1>12. Types'  BY <1>1, <1>2, <1>4, <1>6 DEF Types
<1>13. Placed'
  <2>1. \A k \in Ids : Completed(k)' => records'[k].key \in Seconds
    <3>1. Live(i)' => Live(i)  BY <1>3, <1>4
    <3>2. Completed(i)' => records'[i].key \in Seconds
      BY <1>3, <1>4, <1>8, <3>1 DEF Completed, Live
    <3> QED  BY <1>1, <1>4, <3>2 DEF Placed, Completed
  <2>2. \A k \in Ids : records'[k].status = "unused" => records'[k].key = Queued
    BY <1>1, <1>4 DEF Placed
  <2>3. \A l \in Jobs : /\ jobs'[l].pc \notin Waiting => jobs'[l].key \in Seconds
                        /\ jobs'[l].pc \notin Waiting \union {"upsert"} => jobs'[l].id \in Ids
                        /\ jobs'[l].expired \subseteq Ids \X Seconds
    BY <1>0, <1>1, <1>2, <1>3, <1>6 DEF Placed, Waiting
  <2> QED  BY <1>1, <1>2, <2>1, <2>2, <2>3 DEF Placed
<1>14. \A l \in Jobs : Active(l)' \/ Cleans(l)' => l # j /\ jobs'[l] = jobs[l]
  BY <1>6 DEF Active, Cleans
<1>15. ASSUME NEW l \in Jobs, Active(l)'
       PROVE  /\ Active(l) /\ jobs'[l] = jobs[l] /\ jobs[l].id \in Ids
              /\ records'[jobs[l].id] = records[jobs[l].id]
  <2>1. l # j /\ jobs'[l] = jobs[l] /\ Active(l)  BY <1>14, <1>15 DEF Active
  <2>2. jobs[l].id \in Ids  BY <1>1, <2>1 DEF Placed, Active, Waiting
  <2>3. jobs[l].id # i  BY <1>0, <1>1, <1>3, <2>1 DEF Held, Holds
  <2> QED  BY <1>4, <2>1, <2>2, <2>3
<1>16. Marked'  BY <1>1, <1>15 DEF Marked, Live, Completed
<1>17. \A l \in Jobs : jobs'[l].expired = jobs[l].expired  BY <1>6
<1>18. Owned'
  <2>1. \A k \in Ids, t \in Seconds : Owns(k, t)' => Owns(k, t)
    BY <1>2, <1>4, <1>15, <1>17 DEF Owns
  <2>2. \A l \in Jobs, t \in Seconds : Fresh(l, t)' => Fresh(l, t)  BY <1>6 DEF Fresh
  <2> QED  BY <1>1, <1>2, <2>1, <2>2, OwnedKept
<1>19. /\ \A t \in Seconds : Safe(t) => Safe(t)'
       /\ \A k \in Ids, t \in Seconds : There(k, t) => There(k, t)'
       /\ \A l \in Jobs, k \in Ids, t \in Seconds : Has(l, k, t)' => Has(l, k, t) /\ jobs'[l].pc = jobs[l].pc
       /\ \A k \in Ids : k # i => (Old(k) => Old(k)')
       /\ \A k \in Ids : RunsAgain(k) => RunsAgain(k)'
  <2>1. \A k \in Ids : RunsAgain(k) => RunsAgain(k)'
    <3>1. SUFFICES ASSUME NEW k \in Ids, NEW l \in Jobs, jobs[l].payload = k, jobs[l].pc \in Again
                   PROVE  jobs'[l].payload = k /\ jobs'[l].pc \in Again
      BY DEF RunsAgain, Again
    <3> QED  BY <1>2, <1>6, <3>1 DEF Again
  <2>2. \A t \in Seconds : Safe(t) => Safe(t)'  BY <1>2 DEF Safe, Shared
  <2> QED  BY <1>2, <1>4, <1>14, <2>1, <2>2 DEF Has, There, Old, Cleans
<1>20. Uploaded'
  <2>1. SUFFICES ASSUME NEW l \in Jobs, NEW k \in Ids, NEW t \in Seconds,
                        jobs'[l].pc = "complete", jobs'[l].id = k, jobs'[l].key = t
                 PROVE  /\ Live(k)' => There(k, t)'
                        /\ \A m \in Jobs : Has(m, k, t)' => Safe(t)'
    BY <1>13, UploadedIf
  <2>2. jobs'[l] = jobs[l]  BY <1>6, <2>1
  <2>3. /\ Live(k) => There(k, t)
        /\ \A m \in Jobs : Has(m, k, t) => Safe(t)
    BY <1>1, <2>1, <2>2, UploadedIs
  <2> QED  BY <1>4, <1>19, <2>3
<1>21. ExpiredAreOld'
  <2>1. SUFFICES ASSUME NEW l \in Jobs, NEW k \in Ids, NEW t \in Seconds,
                        Has(l, k, t)', Completed(k)', records'[k].key = t
                 PROVE  Old(k)' \/ Safe(t)' \/ RunsAgain(k)'
    BY <1>13, OldIf
  <2>2. CASE k = i
    <3>1. Live(i)  BY <1>4, <2>1, <2>2 DEF Live, Completed
    <3>2. t = key  BY <1>4, <1>8, <2>1, <2>2, <3>1
    <3> QED  BY <1>9, <1>19, <2>1, <2>2, <3>2
  <2>3. CASE k # i
    <3>1. Has(l, k, t) /\ Completed(k) /\ records[k].key = t
      BY <1>4, <1>19, <2>1, <2>3 DEF Completed
    <3>2. Old(k) \/ Safe(t) \/ RunsAgain(k)
      BY <1>1, <3>1 DEF ExpiredAreOld, Has
    <3> QED  BY <1>19, <2>3, <3>2
  <2> QED  BY <2>2, <2>3
<1>22. CompletedIsStored'
  <2>1. SUFFICES ASSUME NEW k \in Ids, NEW t \in Seconds, Completed(k)', records'[k].key = t
                 PROVE  Stored(k, t)'
    BY <1>13, StoredIf
  <2>2. CASE k = i
    <3>1. Live(i)  BY <1>4, <2>1, <2>2 DEF Live, Completed
    <3>2. There(i, key)' /\ t = key  BY <1>3, <1>4, <1>8, <1>9, <1>19, <2>1, <2>2, <3>1
    <3> QED  BY <2>2, <3>2 DEF Stored
  <2>3. CASE k # i
    <3>1. Stored(k, t)
      <4>1. Completed(k) /\ records[k].key = t  BY <1>4, <2>1, <2>3 DEF Completed
      <4> QED  BY <1>1, <4>1, StoredIs
    <3>2. ASSUME NEW l \in Jobs, jobs[l].pc = "rows"  PROVE jobs'[l] = jobs[l]
      BY <1>2, <1>6, <3>2
    <3> QED  BY <1>19, <2>3, <3>1, <3>2 DEF Stored
  <2> QED  BY <2>2, <2>3
<1>23. Removed'
  <2>1. SUFFICES ASSUME NEW k \in Ids, NEW named \in Seconds,
                        Live(k)', records'[k].key = named, named \in objects'
                 PROVE  /\ \A l \in Jobs : \A t \in Seconds :
                               Has(l, k, t)' /\ (jobs'[l].pc = "rows" \/ named # t) => Safe(named)'
                        /\ /\ deletion'.pc # "idle" /\ deletion'.id = k
                           /\ deletion'.pc = "commit" \/ named # deletion'.key
                           => Safe(named)'
    BY <1>12, <1>13, RemovedIf
  <2>2. Live(k) /\ records[k].key = named /\ named \in objects  BY <1>2, <1>4, <2>1
  <2> QED  BY <1>1, <1>2, <1>19, <2>2 DEF Removed, Has
<1> QED  BY <1>10, <1>11, <1>12, <1>13, <1>16, <1>18, <1>20, <1>21, <1>22, <1>23 DEF IInv

LEMMA SelectExpiredIInv ==
  ASSUME IInv, NEW j \in Jobs, SelectExpired(j)
  PROVE  IInv'
<1> USE Sentinels
<1>1. /\ Types /\ Placed /\ Filed /\ Held /\ Marked /\ Owned /\ Uploaded /\ ExpiredAreOld
      /\ CompletedIsStored /\ Removed
  BY DEF IInv
<1> DEFINE ids == {i \in Ids : Expired(i, config.retention)}
           found == {<<i, records[i].key>> : i \in ids}
           next == IF ids = {} THEN "end" ELSE "objects"
           new == [jobs[j] EXCEPT !.expired = found, !.pc = next]
<1>2. /\ jobs[j].pc = "expire" /\ jobs' = [jobs EXCEPT ![j].expired = found, ![j].pc = next]
      /\ UNCHANGED <<now, config, records, objects, files, asked, deletion, runsAt, crossed, faults>>
  BY DEF SelectExpired, ghosts, setting
<1>3. ids \subseteq Ids /\ \A i \in ids : Completed(i) /\ records[i].key \in Seconds /\ Old(i)
  <2>1. config \in Configs  BY <1>1 DEF Types
  <2> QED  BY <1>1, <2>1 DEF Placed, Expired, Old
<1> HIDE DEF ids
<1>4. found \subseteq Ids \X Seconds  BY <1>3
<1>5. \A i \in Ids, key \in Seconds : <<i, key>> \in found => i \in ids /\ records[i].key = key
  <2>1. SUFFICES ASSUME NEW i \in Ids, NEW key \in Seconds, NEW k \in ids,
                        <<i, key>> = <<k, records[k].key>>
                 PROVE  i = k /\ key = records[k].key
    OBVIOUS
  <2> QED  BY <2>1
<1>6. next \in {"end", "objects"}  OBVIOUS
<1> HIDE DEF found, next
<1>7. new \in Job /\ new.expired = found /\ new.pc = next /\ new.payload = jobs[j].payload
      /\ new.id = jobs[j].id /\ new.key = jobs[j].key
  BY <1>1, <1>4, <1>6 DEF Types, Job, Names
<1>8. jobs' = [jobs EXCEPT ![j] = new]  BY <1>1, <1>2 DEF Types
<1> HIDE DEF new
<1>9. /\ jobs' \in [Jobs -> Job] /\ jobs'[j].pc \in {"end", "objects"} /\ jobs'[j].expired = found
      /\ jobs'[j].payload = jobs[j].payload /\ jobs'[j].id = jobs[j].id /\ jobs'[j].key = jobs[j].key
      /\ \A l \in Jobs \ {j} : jobs'[l] = jobs[l]
  BY <1>1, <1>6, <1>7, <1>8 DEF Types
<1>10. Types'  BY <1>1, <1>2, <1>9 DEF Types
<1>11. Placed'
  <2>1. jobs'[j].key \in Seconds /\ jobs'[j].id \in Ids  BY <1>1, <1>2, <1>9 DEF Placed, Waiting
  <2> QED  BY <1>1, <1>2, <1>4, <1>9, <2>1 DEF Placed, Completed
<1>12. Filed'
  <2>1. Dumped(j)'  BY <1>9 DEF Dumped, Waiting
  <2> QED  BY <1>1, <1>2, <1>9, <2>1, FiledKept DEF Dumped
<1>13. Held'  BY <1>1, <1>2, <1>9, HeldThen
<1>14. \A l \in Jobs : Active(l)' => l # j /\ jobs'[l] = jobs[l] /\ Active(l)
  BY <1>9 DEF Active
<1>15. Marked'  BY <1>1, <1>2, <1>14 DEF Marked, Live, Completed
<1>16. \A l \in Jobs, i \in Ids, key \in Seconds :
          <<i, key>> \in jobs'[l].expired =>
              \/ l # j /\ <<i, key>> \in jobs[l].expired
              \/ l = j /\ i \in ids /\ records[i].key = key
  BY <1>5, <1>9
<1>17. Owned'
  <2>1. \A i \in Ids, key \in Seconds : Owns(i, key)' => Owns(i, key)
    BY <1>2, <1>14, <1>16 DEF Owns
  <2>2. \A l \in Jobs, t \in Seconds : Fresh(l, t)' => Fresh(l, t)  BY <1>9 DEF Fresh
  <2> QED  BY <1>1, <1>2, <2>1, <2>2, OwnedKept
<1>18. /\ \A t \in Seconds : Safe(t) <=> Safe(t)'
       /\ \A k \in Ids, t \in Seconds : There(k, t) => There(k, t)'
       /\ \A k \in Ids : Old(k) => Old(k)'
       /\ \A k \in Ids : RunsAgain(k) => RunsAgain(k)'
       /\ \A l \in Jobs, i \in Ids, key \in Seconds : Has(l, i, key)' =>
              \/ l # j /\ Has(l, i, key) /\ jobs'[l].pc = jobs[l].pc
              \/ l = j /\ i \in ids /\ records[i].key = key
  <2>1. \A k \in Ids : RunsAgain(k) => RunsAgain(k)'
    <3>1. SUFFICES ASSUME NEW k \in Ids, NEW l \in Jobs, jobs[l].payload = k, jobs[l].pc \in Again
                   PROVE  jobs'[l].payload = k /\ jobs'[l].pc \in Again
      BY DEF RunsAgain, Again
    <3> QED  BY <1>2, <1>9, <3>1 DEF Again
  <2>2. \A t \in Seconds : Safe(t) <=> Safe(t)'  BY <1>2 DEF Safe, Shared
  <2> QED  BY <1>2, <1>9, <1>16, <2>1, <2>2 DEF Has, There, Old, Cleans
<1>19. Uploaded'
  <2>1. SUFFICES ASSUME NEW l \in Jobs, NEW k \in Ids, NEW t \in Seconds,
                        jobs'[l].pc = "complete", jobs'[l].id = k, jobs'[l].key = t
                 PROVE  /\ Live(k)' => There(k, t)'
                        /\ \A m \in Jobs : Has(m, k, t)' => Safe(t)'
    BY <1>11, UploadedIf
  <2>2. jobs'[l] = jobs[l]  BY <1>9, <2>1
  <2>3. /\ Live(k) => There(k, t)
        /\ \A m \in Jobs : Has(m, k, t) => Safe(t)
    BY <1>1, <2>1, <2>2, UploadedIs
  <2>4. ~Completed(k)  BY <1>1, <2>1, <2>2 DEF Marked, Active
  <2>5. k \notin ids  BY <1>3, <2>4
  <2> QED  BY <1>2, <1>18, <2>3, <2>5 DEF Live
<1>20. ExpiredAreOld'
  <2>1. SUFFICES ASSUME NEW l \in Jobs, NEW k \in Ids, NEW t \in Seconds,
                        Has(l, k, t)', Completed(k)', records'[k].key = t
                 PROVE  Old(k)' \/ Safe(t)' \/ RunsAgain(k)'
    BY <1>11, OldIf
  <2>2. CASE k \in ids  BY <1>3, <1>18, <2>2
  <2>3. CASE Has(l, k, t)
    <3>1. Old(k) \/ Safe(t) \/ RunsAgain(k)
      BY <1>1, <1>2, <2>1, <2>3 DEF ExpiredAreOld, Has, Completed
    <3> QED  BY <1>18, <3>1
  <2> QED  BY <1>18, <2>1, <2>2, <2>3
<1>21. CompletedIsStored'
  <2>1. SUFFICES ASSUME NEW k \in Ids, NEW t \in Seconds, Completed(k)', records'[k].key = t
                 PROVE  Stored(k, t)'
    BY <1>11, StoredIf
  <2>2. Stored(k, t)  BY <1>1, <1>2, <2>1, StoredIs DEF Completed
  <2>3. ASSUME NEW l \in Jobs, jobs[l].pc = "rows"  PROVE jobs'[l] = jobs[l]
    BY <1>2, <1>9, <2>3
  <2> QED  BY <1>18, <2>2, <2>3 DEF Stored
<1>22. Removed'
  <2>1. SUFFICES ASSUME NEW k \in Ids, NEW named \in Seconds,
                        Live(k)', records'[k].key = named, named \in objects'
                 PROVE  /\ \A l \in Jobs : \A t \in Seconds :
                               Has(l, k, t)' /\ (jobs'[l].pc = "rows" \/ named # t) => Safe(named)'
                        /\ /\ deletion'.pc # "idle" /\ deletion'.id = k
                           /\ deletion'.pc = "commit" \/ named # deletion'.key
                           => Safe(named)'
    BY <1>10, <1>11, RemovedIf
  <2>2. Live(k) /\ records[k].key = named /\ named \in objects  BY <1>2, <2>1 DEF Live
  <2>3. ASSUME NEW l \in Jobs, NEW t \in Seconds, Has(l, k, t)', jobs'[l].pc = "rows" \/ named # t
        PROVE  Safe(named)
    <3>1. Has(l, k, t) /\ jobs'[l].pc = jobs[l].pc  BY <1>9, <1>18, <2>2, <2>3
    <3> QED  BY <1>1, <2>2, <2>3, <3>1 DEF Removed, Has
  <2> QED  BY <1>1, <1>2, <1>18, <2>2, <2>3 DEF Removed
<1> QED  BY <1>10, <1>11, <1>12, <1>13, <1>15, <1>17, <1>19, <1>20, <1>21, <1>22 DEF IInv
\* A step that removes keys from the bucket, each of a record that is about to go.
LEMMA ObjectsGo ==
  ASSUME IInv, NEW gone \in SUBSET Seconds, objects' = objects \ gone,
         UNCHANGED <<now, config, records, asked, runsAt>>,
         crossed \subseteq crossed', Types', Placed', Filed', Held',
         \A l \in Jobs : /\ jobs'[l] = [jobs[l] EXCEPT !.pc = jobs'[l].pc]
                         /\ jobs'[l].pc # jobs[l].pc => jobs[l].pc = "objects" /\ jobs'[l].pc = "rows",
         deletion'.id = deletion.id /\ deletion'.key = deletion.key,
         \/ deletion'.pc = deletion.pc
         \/ deletion.pc = "object" /\ deletion'.pc = "commit",
         \* Whose keys they are, and what has happened to it.
         \A key \in gone : \E e \in Ids :
             /\ Owns(e, key)
             /\ \/ deletion' = [pc |-> "commit", id |-> e, key |-> key]
                \/ \E l \in Jobs : Has(l, e, key) /\ jobs'[l].pc = "rows",
         \* A removal that is done has left nothing that has not crossed.
         \A l \in Jobs, i \in Ids, key \in Seconds :
             <<i, key>> \in jobs[l].expired /\ jobs'[l].pc = "rows" /\ jobs[l].pc = "objects" =>
                 key \notin objects' \/ key \in crossed',
         deletion'.pc = "commit" /\ deletion.pc = "object" => deletion.key \notin objects'
  PROVE  IInv'
<1> USE Sentinels
<1>1. /\ Types /\ Placed /\ Filed /\ Held /\ Marked /\ Owned /\ Uploaded /\ ExpiredAreOld
      /\ CompletedIsStored /\ Removed
  BY DEF IInv
<1>2. \A l \in Jobs : /\ jobs'[l].id = jobs[l].id /\ jobs'[l].key = jobs[l].key
                      /\ jobs'[l].payload = jobs[l].payload /\ jobs'[l].expired = jobs[l].expired
  <2>1. SUFFICES ASSUME NEW l \in Jobs, NEW pc, jobs'[l] = [jobs[l] EXCEPT !.pc = pc]
                 PROVE  /\ jobs'[l].id = jobs[l].id /\ jobs'[l].key = jobs[l].key
                        /\ jobs'[l].payload = jobs[l].payload /\ jobs'[l].expired = jobs[l].expired
    OBVIOUS
  <2>2. jobs[l] \in Job  BY <1>1 DEF Types
  <2> QED  BY <2>1, <2>2 DEF Job
<1>3. \A l \in Jobs : /\ Active(l)' <=> Active(l)
                      /\ Cleans(l)' <=> Cleans(l)
                      /\ jobs'[l].pc \in {"upsert", "mark", "complete"} \/ jobs[l].pc \in Again =>
                             jobs'[l].pc = jobs[l].pc
                      /\ jobs[l].pc = "rows" => jobs'[l].pc = "rows"
  BY DEF Active, Cleans, Again
<1>4. /\ \A t \in Seconds : Safe(t) => Safe(t)'
      /\ \A k \in Ids : Old(k) => Old(k)'
      /\ \A l \in Jobs, i \in Ids, key \in Seconds : Has(l, i, key)' <=> Has(l, i, key)
      /\ \A k \in Ids : RunsAgain(k) => RunsAgain(k)'
  <2>1. \A k \in Ids : RunsAgain(k) => RunsAgain(k)'
    <3>1. SUFFICES ASSUME NEW k \in Ids, NEW l \in Jobs, jobs[l].payload = k, jobs[l].pc \in Again
                   PROVE  jobs'[l].payload = k /\ jobs'[l].pc \in Again
      BY DEF RunsAgain, Again
    <3> QED  BY <1>2, <1>3, <3>1
  <2>2. \A t \in Seconds : Safe(t) => Safe(t)'  BY DEF Safe, Shared
  <2> QED  BY <1>2, <1>3, <2>1, <2>2 DEF Has, Old
<1>5. Marked'  BY <1>1, <1>2, <1>3 DEF Marked, Live, Completed
<1>6. Owned'
  <2>1. \A i \in Ids, key \in Seconds : Owns(i, key)' => Owns(i, key)
    BY <1>2, <1>3 DEF Owns
  <2>2. \A l \in Jobs, t \in Seconds : Fresh(l, t)' => Fresh(l, t)  BY <1>2, <1>3 DEF Fresh
  <2> QED  BY <1>1, <2>1, <2>2, OwnedKept
\* A record that owns a key that goes is the one about to go, or has shared it.
<1>7. ASSUME NEW i \in Ids, NEW key \in gone, Owns(i, key)
      PROVE  \/ Safe(key)'
             \/ deletion' = [pc |-> "commit", id |-> i, key |-> key]
             \/ \E l \in Jobs : Has(l, i, key) /\ jobs'[l].pc = "rows"
  <2>1. CASE Shared(key)  BY <2>1 DEF Safe, Shared
  <2>2. CASE ~Shared(key)
    <3>1. PICK e \in Ids : /\ Owns(e, key)
                           /\ \/ deletion' = [pc |-> "commit", id |-> e, key |-> key]
                              \/ \E l \in Jobs : Has(l, e, key) /\ jobs'[l].pc = "rows"
      OBVIOUS
    <3>2. key \in Seconds  OBVIOUS
    <3>3. e = i  BY <1>1, <1>7, <2>2, <3>1, <3>2 DEF Owned
    <3> QED  BY <3>1, <3>3
  <2> QED  BY <2>1, <2>2
<1>8. ASSUME NEW i \in Ids, NEW key \in Seconds, There(i, key)
      PROVE  There(i, key)' \/ key \in gone
  <2>1. ASSUME deletion = [pc |-> "commit", id |-> i, key |-> key]  PROVE There(i, key)'
    <3>1. deletion.pc = "commit" /\ deletion.id = i /\ deletion.key = key  BY <2>1
    <3>2. deletion' \in Deletion /\ deletion'.pc = "commit" /\ deletion'.id = i /\ deletion'.key = key
      BY <3>1 DEF Types
    <3>3. deletion' = [pc |-> "commit", id |-> i, key |-> key]  BY <3>2, DeletionIs
    <3> QED  BY <3>3 DEF There
  <2> QED  BY <1>4, <1>8, <2>1 DEF There
<1>9. Uploaded'
  <2>1. SUFFICES ASSUME NEW l \in Jobs, NEW k \in Ids, NEW t \in Seconds,
                        jobs'[l].pc = "complete", jobs'[l].id = k, jobs'[l].key = t
                 PROVE  /\ Live(k)' => There(k, t)'
                        /\ \A m \in Jobs : Has(m, k, t)' => Safe(t)'
    BY UploadedIf
  <2>2. jobs[l].pc = "complete" /\ jobs[l].id = k /\ jobs[l].key = t  BY <1>2, <1>3, <2>1
  <2>3. /\ Live(k) => There(k, t)
        /\ \A m \in Jobs : Has(m, k, t) => Safe(t)
    BY <1>1, <2>2, UploadedIs
  <2>4. Owns(k, t)  BY <2>2 DEF Owns, Active
  <2>5. t \in gone => Safe(t)' \/ deletion' = [pc |-> "commit", id |-> k, key |-> t]
    BY <1>4, <1>7, <2>3, <2>4
  <2>6. Live(k)' => There(k, t)'
    <3>1. Live(k)' => Live(k)  BY DEF Live
    <3> QED  BY <1>8, <2>3, <2>5, <3>1 DEF There
  <2> QED  BY <1>4, <2>3, <2>6
<1>10. ExpiredAreOld'
  BY <1>1, <1>4, OldIf DEF ExpiredAreOld, Has, Completed
<1>11. CompletedIsStored'
  <2>1. SUFFICES ASSUME NEW k \in Ids, NEW t \in Seconds, Completed(k)', records'[k].key = t
                 PROVE  Stored(k, t)'
    BY StoredIf
  <2>2. Completed(k) /\ records[k].key = t /\ Owns(k, t)  BY <2>1 DEF Completed, Owns
  <2>3. CASE t \in gone
    <3>1. ASSUME NEW l \in Jobs, Has(l, k, t), jobs'[l].pc = "rows"
          PROVE  Stored(k, t)'
      <4>1. Old(k) \/ Safe(t) \/ RunsAgain(k)
        BY <1>1, <2>2, <3>1 DEF ExpiredAreOld, Has
      <4>2. <<k, t>> \in jobs'[l].expired  BY <1>2, <3>1 DEF Has
      <4> QED  BY <1>4, <3>1, <4>1, <4>2 DEF Stored, There
    <3> QED  BY <1>7, <2>2, <2>3, <3>1 DEF Stored, There
  <2>4. CASE t \notin gone
    <3>1. Stored(k, t)  BY <1>1, <2>2, StoredIs
    <3> QED  BY <1>2, <1>3, <1>4, <1>8, <2>4, <3>1 DEF Stored
  <2> QED  BY <2>3, <2>4
<1>12. Removed'
  <2>1. SUFFICES ASSUME NEW k \in Ids, NEW named \in Seconds,
                        Live(k)', records'[k].key = named, named \in objects'
                 PROVE  /\ \A l \in Jobs : \A t \in Seconds :
                               Has(l, k, t)' /\ (jobs'[l].pc = "rows" \/ named # t) => Safe(named)'
                        /\ /\ deletion'.pc # "idle" /\ deletion'.id = k
                           /\ deletion'.pc = "commit" \/ named # deletion'.key
                           => Safe(named)'
    BY RemovedIf
  <2>2. Live(k) /\ records[k].key = named /\ named \in objects  BY <2>1 DEF Live
  <2>3. ASSUME NEW l \in Jobs, NEW t \in Seconds, Has(l, k, t)', jobs'[l].pc = "rows" \/ named # t
        PROVE  Safe(named)'
    <3>1. Has(l, k, t)  BY <1>4, <2>3
    <3>2. CASE jobs[l].pc = "rows" \/ named # t
      BY <1>1, <1>4, <2>2, <3>1, <3>2 DEF Removed, Has
    <3>3. CASE jobs[l].pc # "rows" /\ named = t
      BY <2>1, <2>3, <3>1, <3>3 DEF Has, Cleans, Safe
    <3> QED  BY <3>2, <3>3
  <2>4. ASSUME deletion'.pc # "idle", deletion'.id = k, deletion'.pc = "commit" \/ named # deletion'.key
        PROVE  Safe(named)'
    <3>1. deletion.pc # "idle" /\ deletion.id = k  BY <2>4
    <3>2. CASE deletion.pc = "commit" \/ named # deletion.key
      BY <1>1, <1>4, <2>2, <3>1, <3>2 DEF Removed
    <3>3. CASE deletion.pc # "commit" /\ named = deletion.key
      BY <2>1, <2>4, <3>3
    <3> QED  BY <3>2, <3>3
  <2> QED  BY <2>3, <2>4
<1> QED  BY <1>1, <1>5, <1>6, <1>9, <1>10, <1>11, <1>12 DEF IInv

LEMMA DeleteObjectIInv ==
  ASSUME IInv, DeleteObject
  PROVE  IInv'
<1>1. Types /\ Placed /\ Filed /\ Held  BY DEF IInv
<1>2. /\ deletion.pc = "object" /\ deletion' = [deletion EXCEPT !.pc = "commit"]
      /\ objects' = objects \ ObjectOf(deletion.key)
      /\ UNCHANGED <<now, config, records, files, jobs, asked, runsAt, crossed, faults>>
  BY DEF DeleteObject, GotoDeletion, ghosts, setting
<1>3. /\ deletion' \in Deletion /\ deletion'.pc = "commit"
      /\ deletion'.id = deletion.id /\ deletion'.key = deletion.key
  BY <1>1, <1>2 DEF Types, Deletion
<1>4. deletion.id \in Ids  BY <1>1, <1>2 DEF Placed
<1>5. ObjectOf(deletion.key) \in SUBSET Seconds
  BY <1>1 DEF Types, Deletion, Names, ObjectOf
<1>6. Types'  BY <1>1, <1>2, <1>3 DEF Types
<1>7. Placed'  BY <1>1, <1>2, <1>3, <1>4 DEF Placed, Completed
<1>8. Filed' /\ Held'  BY <1>1, <1>2 DEF Filed, Held, Holds, Dumped
<1>9. \A key \in ObjectOf(deletion.key) : \E e \in Ids :
          Owns(e, key) /\ deletion' = [pc |-> "commit", id |-> e, key |-> key]
  <2>1. SUFFICES ASSUME NEW key, key = deletion.key
                 PROVE  /\ Owns(deletion.id, key)
                        /\ deletion' = [pc |-> "commit", id |-> deletion.id, key |-> key]
    BY <1>4 DEF ObjectOf
  <2> QED  BY <1>3, <2>1 DEF Owns, Deletion
<1>10. deletion.key \notin objects'
  BY <1>1, <1>2, Sentinels DEF ObjectOf, Types
<1>11. \A l \in Jobs : jobs'[l] = [jobs[l] EXCEPT !.pc = jobs'[l].pc]
  <2>1. SUFFICES ASSUME NEW l \in Jobs  PROVE jobs[l] = [jobs[l] EXCEPT !.pc = jobs[l].pc]
    BY <1>2
  <2> QED  BY <1>1 DEF Types, Job
<1> QED
  BY <1>1, <1>2, <1>3, <1>5, <1>6, <1>7, <1>8, <1>9, <1>10, <1>11, ObjectsGo

\* Both ways of the command that removes what has expired.
LEMMA BatchIInv ==
  ASSUME IInv, NEW j \in Jobs, jobs[j].pc = "objects", Goto(j, "rows"),
         NEW kept \in SUBSET ExpiredKeys(j), objects' = objects \ (ExpiredKeys(j) \ kept),
         crossed' = crossed \union kept, faults' \in 0..MaxFaults,
         UNCHANGED <<now, config, records, files, asked, deletion, runsAt>>
  PROVE  IInv'
<1>1. Types /\ Placed /\ Filed /\ Held  BY DEF IInv
<1>2. "rows" \in Pcs  BY DEF Pcs
<1>3. /\ jobs' \in [Jobs -> Job] /\ jobs'[j].pc = "rows" /\ jobs'[j].payload = jobs[j].payload
      /\ jobs'[j].id = jobs[j].id /\ jobs'[j].key = jobs[j].key /\ jobs'[j].expired = jobs[j].expired
      /\ \A l \in Jobs \ {j} : jobs'[l] = jobs[l]
  BY <1>1, <1>2, GotoIs
<1>4. /\ ExpiredKeys(j) \subseteq Seconds
      /\ \A key \in ExpiredKeys(j) : \E i \in Ids : <<i, key>> \in jobs[j].expired
      /\ \A i \in Ids, key \in Seconds : <<i, key>> \in jobs[j].expired => key \in ExpiredKeys(j)
  BY <1>1, ExpiredKeysAre
<1>5. Types'  BY <1>1, <1>3, <1>4 DEF Types
<1>6. Placed'
  <2>1. jobs[j].key \in Seconds /\ jobs[j].id \in Ids  BY <1>1 DEF Placed, Waiting
  <2> QED  BY <1>1, <1>3, <2>1 DEF Placed, Completed
<1>7. Filed'
  <2>1. Dumped(j)'  BY <1>3 DEF Dumped, Waiting
  <2> QED  BY <1>1, <1>3, <2>1, FiledKept DEF Dumped
<1>8. Held'  BY <1>1, <1>3, HeldThen
<1>9. \A key \in ExpiredKeys(j) : \E e \in Ids : Owns(e, key) /\ Has(j, e, key)
  BY <1>4 DEF Owns, Has, Cleans
<1>10. \A l \in Jobs : /\ jobs'[l] = [jobs[l] EXCEPT !.pc = jobs'[l].pc]
                       /\ jobs'[l].pc # jobs[l].pc => l = j
  <2>1. jobs'[j] = [jobs[j] EXCEPT !.pc = jobs'[j].pc]
    BY <1>1, <1>3 DEF Goto, Types
  <2>2. ASSUME NEW l \in Jobs \ {j}  PROVE jobs'[l] = [jobs[l] EXCEPT !.pc = jobs'[l].pc]
    <3>1. jobs[l] = [jobs[l] EXCEPT !.pc = jobs[l].pc]  BY <1>1 DEF Types, Job
    <3> QED  BY <1>3, <3>1
  <2> QED  BY <1>3, <2>1, <2>2
<1>11. \A l \in Jobs, i \in Ids, key \in Seconds :
           <<i, key>> \in jobs[l].expired /\ jobs'[l].pc = "rows" /\ jobs[l].pc = "objects" =>
               key \notin objects' \/ key \in crossed'
  BY <1>3, <1>4
<1>12. (ExpiredKeys(j) \ kept) \in SUBSET Seconds  BY <1>4
<1>13. \A key \in ExpiredKeys(j) \ kept : \E e \in Ids :
           /\ Owns(e, key)
           /\ \E l \in Jobs : Has(l, e, key) /\ jobs'[l].pc = "rows"
  BY <1>3, <1>9
<1>14. deletion'.pc = "commit" /\ deletion.pc = "object" => deletion.key \notin objects'
  OBVIOUS
<1> QED
  BY <1>1, <1>3, <1>5, <1>6, <1>7, <1>8, <1>10, <1>11, <1>12, <1>13, <1>14, ObjectsGo

LEMMA DeleteObjectsIInv ==
  ASSUME IInv, NEW j \in Jobs, DeleteObjects(j)
  PROVE  IInv'
<1>1. crossed' = crossed \union {} /\ objects' = objects \ (ExpiredKeys(j) \ {})
      /\ {} \in SUBSET ExpiredKeys(j) /\ faults' \in 0..MaxFaults
  BY DEF DeleteObjects, ghosts, IInv, Types
<1> QED  BY <1>1, BatchIInv DEF DeleteObjects, ghosts, setting

LEMMA SomeNotDeletedIInv ==
  ASSUME IInv, NEW j \in Jobs, SomeNotDeleted(j)
  PROVE  IInv'
<1>1. faults' \in 0..MaxFaults  BY FaultCounted DEF SomeNotDeleted, IInv
<1> QED  BY <1>1, BatchIInv DEF SomeNotDeleted, setting
LEMMA UpsertRecordIInv ==
  ASSUME IInv, NEW j \in Jobs, UpsertRecord(j)
  PROVE  IInv'
<1> USE Sentinels
<1>1. /\ Types /\ Placed /\ Filed /\ Held /\ Marked /\ Owned /\ Uploaded /\ ExpiredAreOld
      /\ CompletedIsStored /\ Removed
  BY DEF IInv
<1>2. PICK i \in RecordFor(j) :
        /\ ~Locked(i)
        /\ records' = [records EXCEPT ![i] =
             IF @.status = "unused" THEN [@ EXCEPT !.status = "pending", !.key = jobs[j].key]
             ELSE IF Live(i) THEN [@ EXCEPT !.key = jobs[j].key] ELSE @]
        /\ jobs' = [jobs EXCEPT ![j].pc = "mark", ![j].id = i]
  BY DEF UpsertRecord
<1>3. /\ jobs[j].pc = "upsert"
      /\ UNCHANGED <<now, config, objects, files, asked, deletion, runsAt, crossed, faults>>
  BY DEF UpsertRecord, ghosts, setting
<1>4. SUFFICES ASSUME NEW key, key = jobs[j].key  PROVE IInv'
  OBVIOUS
<1>5. key \in Seconds  BY <1>1, <1>3, <1>4 DEF Placed, Waiting
<1>6. \/ jobs[j].payload = NoRecord /\ records[i].status = "unused" /\ i \in Ids
      \/ jobs[j].payload = i /\ i \in Ids
  <2>1. jobs[j].payload \in Ids \union {NoRecord}  BY <1>1 DEF Types, Job
  <2> QED  BY <2>1 DEF RecordFor
<1>7. i \in Ids  BY <1>6
<1>8. /\ jobs' \in [Jobs -> Job] /\ jobs'[j].pc = "mark" /\ jobs'[j].id = i
      /\ jobs'[j].payload = jobs[j].payload /\ jobs'[j].key = key
      /\ jobs'[j].expired = jobs[j].expired
      /\ \A l \in Jobs \ {j} : jobs'[l] = jobs[l]
  <2> DEFINE new == [jobs[j] EXCEPT !.pc = "mark", !.id = i]
  <2>1. jobs' = [jobs EXCEPT ![j] = new]  BY <1>1, <1>2 DEF Types
  <2>2. /\ new \in Job /\ new.pc = "mark" /\ new.id = i /\ new.payload = jobs[j].payload
        /\ new.key = jobs[j].key /\ new.expired = jobs[j].expired
    BY <1>1, <1>7 DEF Types, Job
  <2> HIDE DEF new
  <2> QED  BY <1>1, <1>4, <2>1, <2>2 DEF Types
<1>9. /\ records' \in [Ids -> Record]
      /\ \A k \in Ids : k # i => records'[k] = records[k]
      /\ records'[i].status # "unused"
      /\ Completed(i)' => Completed(i)
      /\ Live(i)' => records'[i].key = key
      /\ Live(i)' => Live(i) \/ records[i].status = "unused"
      /\ Completed(i)' => records'[i].key = key
  <2> DEFINE r == records[i]
             new == IF r.status = "unused" THEN [r EXCEPT !.status = "pending", !.key = key]
                    ELSE IF Live(i) THEN [r EXCEPT !.key = key] ELSE r
  <2>1. records' = [records EXCEPT ![i] = new]  BY <1>1, <1>2, <1>4, <1>7 DEF Types
  <2>2. r \in Record  BY <1>1, <1>7 DEF Types
  <2>3. /\ new \in Record /\ new.status # "unused"
        /\ new.status = "completed" => r.status = "completed"
        /\ new.status \notin {"unused", "deleted"} => new.key = key
        /\ new.status \notin {"unused", "deleted"} => r.status # "deleted"
    BY <1>5, <2>2 DEF Record, Names, Live
  <2> HIDE DEF new
  <2>4. records'[i] = new  BY <1>1, <1>7, <2>1 DEF Types
  <2>5. records' \in [Ids -> Record] /\ \A k \in Ids : k # i => records'[k] = records[k]
    BY <1>1, <2>1, <2>3 DEF Types
  <2> QED  BY <2>3, <2>4, <2>5 DEF Completed, Live
<1>10. Types'  BY <1>1, <1>3, <1>8, <1>9 DEF Types
<1>11. Placed'
  <2>1. \A k \in Ids : /\ Completed(k)' => records'[k].key \in Seconds
                       /\ records'[k].status = "unused" => records'[k].key = Queued
    BY <1>1, <1>5, <1>9 DEF Placed, Completed
  <2> QED  BY <1>1, <1>3, <1>5, <1>7, <1>8, <2>1 DEF Placed
<1>12. Filed'
  BY <1>1, <1>3, <1>8, FiledKept DEF Dumped
\* The record is this job's.
<1>13. \A l \in Jobs \ {j} : ~Holds(l, i)
  BY <1>1, <1>6 DEF Held, Holds
<1>14. i \notin asked
  BY <1>1, <1>6 DEF Held, Holds
<1>15. Held'
  <2>1. \A k \in Ids : \A l \in Jobs : Holds(l, k)' => Holds(l, k) \/ (l = j /\ k = i)
    BY <1>8 DEF Holds
  <2>2. \A k \in Ids : \A l, m \in Jobs : Holds(l, k)' /\ Holds(m, k)' => l = m
    BY <1>1, <1>13, <2>1 DEF Held
  <2>3. \A k \in Ids : records[k].status # "unused" => records'[k].status # "unused"
    BY <1>9
  <2>4. \A k \in asked' : records'[k].status # "unused" /\ \A l \in Jobs : ~Holds(l, k)'
    BY <1>1, <1>3, <1>14, <2>1, <2>3 DEF Held, Types
  <2>5. \A l \in Jobs : \A k \in Ids : Holds(l, k)' => records'[k].status # "unused"
    BY <1>1, <1>9, <2>1, <2>3 DEF Held
  <2>6. \A l \in Jobs : jobs'[l].payload \in Ids => jobs'[l].id \in {NoRecord, jobs'[l].payload}
    BY <1>1, <1>6, <1>8 DEF Held
  <2> QED  BY <2>2, <2>4, <2>5, <2>6 DEF Held
<1>16. ASSUME NEW l \in Jobs \ {j}, Active(l)'
       PROVE  /\ Active(l) /\ jobs'[l] = jobs[l] /\ jobs[l].id \in Ids \ {i}
              /\ records'[jobs[l].id] = records[jobs[l].id]
  <2>1. jobs'[l] = jobs[l] /\ Active(l)  BY <1>8, <1>16 DEF Active
  <2>2. jobs[l].id \in Ids  BY <1>1, <2>1 DEF Placed, Active, Waiting
  <2>3. jobs[l].id # i  BY <1>13 DEF Holds
  <2> QED  BY <1>9, <2>1, <2>2, <2>3
<1>17. Marked'
  <2>1. SUFFICES ASSUME NEW l \in Jobs, NEW k \in Ids, Active(l)', k = jobs'[l].id
                 PROVE  /\ Live(k)' => records'[k].key = jobs'[l].key
                        /\ jobs'[l].pc # "mark" => ~Completed(k)'
    <3>1. \A l \in Jobs : Active(l)' => jobs'[l].id \in Ids
      BY <1>11 DEF Placed, Active, Waiting
    <3> QED  BY <3>1 DEF Marked, Live, Completed
  <2>2. CASE l = j  BY <1>8, <1>9, <2>1, <2>2
  <2>3. CASE l # j
    <3>1. /\ Active(l) /\ jobs'[l] = jobs[l] /\ k = jobs[l].id /\ records'[k] = records[k]
      BY <1>16, <2>1, <2>3
    <3> QED  BY <1>1, <3>1 DEF Marked, Live, Completed
  <2> QED  BY <2>2, <2>3
<1>18. \A l \in Jobs : jobs'[l].expired = jobs[l].expired /\ (Cleans(l)' => Cleans(l) /\ jobs'[l].pc = jobs[l].pc)
  BY <1>8 DEF Cleans
<1>19. \A k \in Ids, t \in Seconds : Owns(k, t)' => Owns(k, t) \/ (k = i /\ t = key)
  <2>1. ASSUME NEW k \in Ids, NEW t \in Seconds, records'[k].key = t
        PROVE  Owns(k, t) \/ (k = i /\ t = key)
    <3>1. k = i => records'[i].key = key \/ records'[i] = records[i]
      BY <1>1, <1>2, <1>4, <1>7 DEF Types, Record
    <3> QED  BY <1>9, <2>1, <3>1 DEF Owns
  <2>2. ASSUME NEW k \in Ids, NEW t \in Seconds, NEW l \in Jobs,
               Active(l)', jobs'[l].id = k, jobs'[l].key = t
        PROVE  Owns(k, t) \/ (k = i /\ t = key)
    <3>1. CASE l = j  BY <1>8, <2>2, <3>1
    <3>2. CASE l # j  BY <1>16, <2>2, <3>2 DEF Owns
    <3> QED  BY <3>1, <3>2
  <2>3. \A k \in Ids, t \in Seconds : Owns(k, t)' =>
            \/ records'[k].key = t
            \/ deletion.id = k /\ deletion.key = t
            \/ \E l \in Jobs : <<k, t>> \in jobs[l].expired
            \/ \E l \in Jobs : Active(l)' /\ jobs'[l].id = k /\ jobs'[l].key = t
    BY <1>3, <1>18 DEF Owns
  <2>4. \A k \in Ids, t \in Seconds :
            \/ deletion.id = k /\ deletion.key = t
            \/ \E l \in Jobs : <<k, t>> \in jobs[l].expired
            => Owns(k, t)
    BY DEF Owns
  <2> QED  BY <2>1, <2>2, <2>3, <2>4
<1>20. Fresh(j, key) /\ \A l \in Jobs, t \in Seconds : Fresh(l, t)' => l # j /\ Fresh(l, t)
  BY <1>3, <1>4, <1>8 DEF Fresh
<1>21. Owned'
  <2>1. SUFFICES ASSUME NEW t \in Seconds
                 PROVE  /\ \/ t \in objects'
                           \/ \E a \in Ids : Owns(a, t)'
                           \/ \E l \in Jobs : Fresh(l, t)'
                           => runsAt'[t] # 0
                        /\ ~Shared(t)' =>
                               /\ \A a, b \in Ids : Owns(a, t)' /\ Owns(b, t)' => a = b
                               /\ \A l \in Jobs : Fresh(l, t)' =>
                                      /\ t \notin objects'
                                      /\ \A a \in Ids : ~Owns(a, t)'
                                      /\ \A m \in Jobs : Fresh(m, t)' => m = l
    BY DEF Owned
  <2>2. Shared(t)' <=> Shared(t)  BY <1>3 DEF Shared
  <2>3. /\ \/ t \in objects
           \/ \E a \in Ids : Owns(a, t)
           \/ \E l \in Jobs : Fresh(l, t)
           => runsAt[t] # 0
        /\ ~Shared(t) =>
               /\ \A a, b \in Ids : Owns(a, t) /\ Owns(b, t) => a = b
               /\ \A l \in Jobs : Fresh(l, t) =>
                      /\ t \notin objects
                      /\ \A a \in Ids : ~Owns(a, t)
                      /\ \A m \in Jobs : Fresh(m, t) => m = l
    BY <1>1 DEF Owned
  <2>4. CASE t # key
    <3>1. \A a \in Ids : Owns(a, t)' => Owns(a, t)  BY <1>19, <2>4
    <3> QED  BY <1>3, <1>20, <2>2, <2>3, <3>1
  <2>5. CASE t = key
    <3>1. runsAt'[t] # 0  BY <1>3, <1>20, <2>3, <2>5
    <3>2. ASSUME ~Shared(t)
          PROVE  /\ \A a \in Ids : Owns(a, t)' => a = i
                 /\ \A l \in Jobs : ~Fresh(l, t)'
      <4>1. \A a \in Ids : ~Owns(a, t)  BY <1>20, <2>3, <2>5, <3>2
      <4>2. \A l \in Jobs : Fresh(l, t) => l = j  BY <1>20, <2>3, <2>5, <3>2
      <4> QED  BY <1>19, <1>20, <4>1, <4>2
    <3> QED  BY <2>2, <3>1, <3>2
  <2> QED  BY <2>4, <2>5
<1>22. /\ \A t \in Seconds : Safe(t) => Safe(t)'
       /\ \A k \in Ids, t \in Seconds : There(k, t) => There(k, t)'
       /\ \A k \in Ids : k # i => (Old(k) => Old(k)')
       /\ \A l \in Jobs, k \in Ids, t \in Seconds : Has(l, k, t)' => Has(l, k, t) /\ jobs'[l].pc = jobs[l].pc
       /\ \A k \in Ids : RunsAgain(k) => RunsAgain(k)'
       /\ Completed(i)' => RunsAgain(i)'
  <2>1. \A k \in Ids : RunsAgain(k) => RunsAgain(k)'
    <3>1. SUFFICES ASSUME NEW k \in Ids, NEW l \in Jobs, jobs[l].payload = k, jobs[l].pc \in Again
                   PROVE  jobs'[l].payload = k /\ jobs'[l].pc \in Again
      BY DEF RunsAgain, Again
    <3> QED  BY <1>8, <3>1 DEF Again
  <2>2. \A t \in Seconds : Safe(t) => Safe(t)'  BY <1>3 DEF Safe, Shared
  <2>3. Completed(i)' => jobs[j].payload = i  BY <1>6, <1>9 DEF Completed
  <2>4. Completed(i)' => RunsAgain(i)'  BY <1>8, <2>3 DEF RunsAgain
  <2> QED  BY <1>3, <1>9, <1>18, <2>1, <2>2, <2>4 DEF Has, There, Old
<1>23. Uploaded'
  <2>1. SUFFICES ASSUME NEW l \in Jobs, NEW k \in Ids, NEW t \in Seconds,
                        jobs'[l].pc = "complete", jobs'[l].id = k, jobs'[l].key = t
                 PROVE  /\ Live(k)' => There(k, t)'
                        /\ \A m \in Jobs : Has(m, k, t)' => Safe(t)'
    BY <1>11, UploadedIf
  <2>2. l # j /\ Active(l)'  BY <1>8, <2>1 DEF Active
  <2>3. jobs'[l] = jobs[l] /\ records'[k] = records[k]  BY <1>16, <2>1, <2>2
  <2>4. /\ Live(k) => There(k, t)
        /\ \A m \in Jobs : Has(m, k, t) => Safe(t)
    BY <1>1, <2>1, <2>3, UploadedIs
  <2> QED  BY <1>22, <2>3, <2>4 DEF Live
<1>24. ExpiredAreOld'
  <2>1. SUFFICES ASSUME NEW l \in Jobs, NEW k \in Ids, NEW t \in Seconds,
                        Has(l, k, t)', Completed(k)', records'[k].key = t
                 PROVE  Old(k)' \/ Safe(t)' \/ RunsAgain(k)'
    BY <1>11, OldIf
  <2>2. CASE k = i  BY <1>22, <2>1, <2>2
  <2>3. CASE k # i
    <3>1. Has(l, k, t) /\ Completed(k) /\ records[k].key = t
      BY <1>9, <1>22, <2>1, <2>3 DEF Completed
    <3>2. Old(k) \/ Safe(t) \/ RunsAgain(k)  BY <1>1, <3>1 DEF ExpiredAreOld, Has
    <3> QED  BY <1>22, <2>3, <3>2
  <2> QED  BY <2>2, <2>3
<1>25. CompletedIsStored'
  <2>1. SUFFICES ASSUME NEW k \in Ids, NEW t \in Seconds, Completed(k)', records'[k].key = t
                 PROVE  Stored(k, t)'
    BY <1>11, StoredIf
  <2>2. CASE k = i  BY <1>22, <2>1, <2>2 DEF Stored
  <2>3. CASE k # i
    <3>1. Completed(k) /\ records[k].key = t  BY <1>9, <2>1, <2>3 DEF Completed
    <3>2. Stored(k, t)  BY <1>1, <3>1, StoredIs
    <3>3. ASSUME NEW l \in Jobs, jobs[l].pc = "rows"  PROVE jobs'[l] = jobs[l]
      BY <1>3, <1>8, <3>3
    <3> QED  BY <1>22, <2>3, <3>2, <3>3 DEF Stored
  <2> QED  BY <2>2, <2>3
<1>26. Removed'
  <2>1. SUFFICES ASSUME NEW k \in Ids, NEW named \in Seconds,
                        Live(k)', records'[k].key = named, named \in objects'
                 PROVE  /\ \A l \in Jobs : \A t \in Seconds :
                               Has(l, k, t)' /\ (jobs'[l].pc = "rows" \/ named # t) => Safe(named)'
                        /\ /\ deletion'.pc # "idle" /\ deletion'.id = k
                           /\ deletion'.pc = "commit" \/ named # deletion'.key
                           => Safe(named)'
    BY <1>10, <1>11, RemovedIf
  <2>2. CASE k = i
    <3>1. named = key /\ key \in objects  BY <1>3, <1>9, <2>1, <2>2
    <3>2. Shared(key)  BY <1>1, <1>5, <1>20, <3>1 DEF Owned
    <3> QED  BY <1>5, <1>22, <3>1, <3>2 DEF Safe
  <2>3. CASE k # i
    <3>1. Live(k) /\ records[k].key = named /\ named \in objects
      BY <1>3, <1>9, <2>1, <2>3 DEF Live
    <3> QED  BY <1>1, <1>3, <1>22, <3>1 DEF Removed, Has
  <2> QED  BY <2>2, <2>3
<1> QED  BY <1>10, <1>11, <1>12, <1>15, <1>17, <1>21, <1>23, <1>24, <1>25, <1>26 DEF IInv

-----------------------------------------------------------------------------
(* The theorems.                                                           *)

LEMMA NextIInv == IInv /\ [Next]_vars => IInv'
<1> SUFFICES ASSUME IInv, [Next]_vars  PROVE IInv'
  OBVIOUS
<1>1. CASE Tick  BY <1>1, TickIInv
<1>2. ASSUME NEW c \in Configs, UpdateBackupConfig(c)  PROVE IInv'
  BY <1>2, UpdateBackupConfigIInv
<1>3. ASSUME NEW i \in Ids,
             TriggerBackup(i) \/ ScheduleFails(i) \/ DeleteBackup(i) \/ \E j \in Jobs : ScheduleBackup(i, j)
      PROVE  IInv'
  BY <1>3, TriggerBackupIInv, ScheduleFailsIInv, DeleteBackupIInv, ScheduleBackupIInv
<1>4. ASSUME NEW j \in Jobs, CronFires(j)  PROVE IInv'
  BY <1>4, CronFiresIInv
<1>5. ASSUME NEW j \in Jobs, JobStep(j)  PROVE IInv'
  BY <1>5, SkipIInv, StartIInv, UpsertRecordIInv, MarkInProgressIInv, DumpIInv, UploadIInv,
     MarkCompletedIInv, SelectExpiredIInv, DeleteObjectsIInv, DeleteRowsIInv, MarkFailedIInv,
     UnlinkIInv DEF JobStep
<1>6. ASSUME NEW j \in Jobs, JobFault(j)  PROVE IInv'
  BY <1>6, UpsertFailsIInv, SomeNotDeletedIInv, StepFailsIInv, MarkFailedFailsIInv DEF JobFault
<1>7. CASE DeletionStep \/ DeleteFails
  BY <1>7, DeleteRowIInv, DeleteObjectIInv, DeleteCommitsIInv, DeleteFailsIInv DEF DeletionStep
<1>8. CASE Crash  BY <1>8, CrashIInv
<1>9. CASE UNCHANGED vars
  <2>1. UNCHANGED <<now, config, records, objects, files, jobs, asked, deletion, runsAt, crossed, faults>>
    BY <1>9 DEF vars
  <2>2. CalmDeletion  BY <2>1 DEF CalmDeletion
  <2>3. Types /\ Types'  BY <2>1 DEF IInv, Types
  <2> QED  BY <2>1, <2>2, <2>3, Later, RecordKept, JobsLeftAlone
<1> QED  BY <1>1, <1>2, <1>3, <1>4, <1>5, <1>6, <1>7, <1>8, <1>9 DEF Next

LEMMA IInvHolds == Spec => []IInv
BY InitIInv, NextIInv, PTL DEF Spec

\* Type correctness: the variables keep their types, and a dump in the worker's
\* directory is that of a run which goes on.
THEOREM TypeCorrect == Spec => []TypeOK
<1>1. IInv => TypeOK
  <2>1. SUFFICES ASSUME IInv, NEW file \in files
                 PROVE  file \in {jobs[j].key : j \in {r \in Jobs : Running(r)}}
    BY DEF IInv, Types, TypeOK
  <2>2. PICK j \in Jobs : Dumped(j) /\ jobs[j].key = file  BY <2>1 DEF IInv, Filed
  <2>3. Running(j)  BY <2>2 DEF Dumped, Running, Waiting
  <2> QED  BY <2>2, <2>3
<1> QED  BY <1>1, IInvHolds, PTL

\* A backup that reads completed can be restored: its object is in the bucket,
\* but for the cases that the property names.
THEOREM CompletedBackupsAreStored == Spec => []CompletedIsStored
<1>1. IInv => CompletedIsStored  BY DEF IInv
<1> QED  BY <1>1, IInvHolds, PTL

Remembered(key) ==
    \/ Named(key)'
    \/ key \in crossed \/ Shared(key) \/ Renames(key)

\* Most steps leave every record that names an object with its name.
LEMMA NameKept ==
  ASSUME NEW key, Named(key),
         \A i \in Ids : Live(i) => Live(i)' /\ records'[i].key = records[i].key
  PROVE  Remembered(key)
BY DEF Remembered, Named

LEMMA UpdateKeepsNames ==
  ASSUME IInv, NEW i \in Ids, NEW status \in Statuses \ {"unused", "deleted"},
         \/ Update(i, status)
         \/ Finish(i, status),
         NEW key, Named(key)
  PROVE  Remembered(key)
<1>1. Types /\ Placed  BY DEF IInv
<1>2. PICK at \in Seconds : Written(i, [records[i] EXCEPT !.status = status, !.completedAt = at])
  <2>1. CASE Update(i, status)
    <3>1. records[i].completedAt \in Seconds
          /\ [records[i] EXCEPT !.status = status]
               = [records[i] EXCEPT !.status = status, !.completedAt = records[i].completedAt]
      BY <1>1 DEF Types, Record
    <3> QED  BY <2>1, <3>1 DEF Update
  <2>2. CASE Finish(i, status)
    BY <1>1, <2>2 DEF Finish, Types
  <2> QED  BY <2>1, <2>2
<1>3. \A k \in Ids : (Live(k)' <=> Live(k)) /\ records'[k].key = records[k].key
  BY <1>1, <1>2, UpdateIs
<1> QED  BY <1>3, NameKept

\* No step forgets an object that it leaves in the bucket.
LEMMA NoStepForgets ==
  ASSUME IInv, [Next]_vars, NEW key \in objects, key \in objects', Named(key)
  PROVE  Remembered(key)
<1>1. Types /\ Placed /\ Held /\ Removed /\ key \in Seconds  BY DEF IInv, Types
<1>2. CASE records' = records
  BY <1>2, NameKept DEF Live
<1>3. ASSUME NEW i \in Ids, TriggerBackup(i)  PROVE Remembered(key)
  <2>1. \A k \in Ids : Live(k) => k # i  BY <1>3 DEF TriggerBackup, Live
  <2>2. \A k \in Ids : k # i => records'[k] = records[k]
    BY <1>1, <1>3 DEF TriggerBackup, Types
  <2> QED  BY <2>1, <2>2, NameKept DEF Live
<1>4. ASSUME NEW j \in Jobs, UpsertRecord(j)  PROVE Remembered(key)
  <2>1. PICK i \in RecordFor(j) :
            records' = [records EXCEPT ![i] =
                IF @.status = "unused" THEN [@ EXCEPT !.status = "pending", !.key = jobs[j].key]
                ELSE IF Live(i) THEN [@ EXCEPT !.key = jobs[j].key] ELSE @]
    BY <1>4 DEF UpsertRecord
  <2>2. PICK k \in Ids : Live(k) /\ records[k].key = key  BY DEF Named
  <2>3. Live(k)'
    <3>1. records[k] \in Record  BY <1>1 DEF Types
    <3>2. CASE k = i
      <4>1. records'[k] = [records[k] EXCEPT !.key = jobs[j].key]
        BY <1>1, <2>1, <2>2, <3>2 DEF Live, Types
      <4> QED  BY <2>2, <3>1, <4>1 DEF Live, Record
    <3>3. CASE k # i
      <4>1. records'[k] = records[k]  BY <1>1, <2>1, <3>3 DEF Types
      <4> QED  BY <2>2, <4>1 DEF Live
    <3> QED  BY <3>2, <3>3
  <2> QED  BY <2>2, <2>3 DEF Remembered, Named, Renames
<1>5. ASSUME NEW j \in Jobs, MarkInProgress(j) \/ MarkCompleted(j) \/ MarkFailed(j)
      PROVE  Remembered(key)
  <2>1. jobs[j].id \in Ids
    BY <1>1, <1>5 DEF Placed, Waiting, MarkInProgress, MarkCompleted, MarkFailed
  <2>2. {"in_progress", "completed", "failed"} \subseteq Statuses \ {"unused", "deleted"}
    BY DEF Statuses
  <2> QED  BY <1>5, <2>1, <2>2, UpdateKeepsNames DEF MarkInProgress, MarkCompleted, MarkFailed
<1>6. ASSUME NEW j \in Jobs, DeleteRows(j)  PROVE Remembered(key)
  <2> DEFINE ids == {p[1] : p \in jobs[j].expired}
  <2>1. /\ jobs[j].pc = "rows"
        /\ records' = [i \in Ids |-> IF i \in ids THEN [records[i] EXCEPT !.status = "deleted"]
                                                  ELSE records[i]]
    BY <1>6 DEF DeleteRows
  <2>2. PICK k \in Ids : Live(k) /\ records[k].key = key  BY DEF Named
  <2>3. CASE k \in ids
    <3>1. PICK p \in jobs[j].expired : k = p[1]  BY <2>3
    <3>2. PICK a \in Ids, t \in Seconds : p = <<a, t>>  BY <1>1, <3>1 DEF Placed
    <3>3. <<a, t>>[1] = a  OBVIOUS
    <3>4. <<k, t>> \in jobs[j].expired  BY <3>1, <3>2, <3>3
    <3>5. Safe(key)  BY <1>1, <2>1, <2>2, <3>4 DEF Removed, Cleans
    <3> QED  BY <3>5 DEF Remembered, Safe
  <2>4. CASE k \notin ids
    <3>1. records'[k] = records[k]  BY <2>1, <2>4
    <3> QED  BY <2>2, <3>1 DEF Remembered, Named, Live
  <2> QED  BY <2>3, <2>4
<1>7. CASE DeleteCommits
  <2>1. PICK k \in Ids : Live(k) /\ records[k].key = key  BY DEF Named
  <2>2. deletion.pc = "commit" /\ records' = [records EXCEPT ![deletion.id].status = "deleted"]
    BY <1>7 DEF DeleteCommits
  <2>3. CASE k = deletion.id
    <3>1. Safe(key)  BY <1>1, <2>1, <2>2, <2>3 DEF Removed
    <3> QED  BY <3>1 DEF Remembered, Safe
  <2>4. CASE k # deletion.id
    <3>1. records'[k] = records[k]  BY <1>1, <2>2, <2>4 DEF Types
    <3> QED  BY <2>1, <3>1 DEF Remembered, Named, Live
  <2> QED  BY <2>3, <2>4
<1>8. CASE UNCHANGED vars  BY <1>2, <1>8 DEF vars
<1>9. CASE Tick \/ DeleteRow \/ DeleteObject \/ DeleteFails \/ Crash
  BY <1>2, <1>9 DEF Tick, DeleteRow, DeleteObject, DeleteFails, Crash
<1>10. ASSUME NEW i \in Ids, ScheduleFails(i) \/ DeleteBackup(i) \/ \E j \in Jobs : ScheduleBackup(i, j)
       PROVE  Remembered(key)
  BY <1>2, <1>10 DEF ScheduleFails, DeleteBackup, ScheduleBackup
<1>11. ASSUME NEW c \in Configs, UpdateBackupConfig(c)  PROVE Remembered(key)
  BY <1>2, <1>11 DEF UpdateBackupConfig
<1>12. ASSUME NEW j \in Jobs,
              \/ CronFires(j) \/ Skip(j) \/ Start(j) \/ Dump(j) \/ Upload(j) \/ SelectExpired(j)
              \/ DeleteObjects(j) \/ Unlink(j) \/ JobFault(j)
       PROVE  Remembered(key)
  BY <1>2, <1>12 DEF CronFires, Skip, Start, Dump, Upload, SelectExpired, DeleteObjects, Unlink,
     JobFault, UpsertFails, SomeNotDeleted, StepFails, MarkFailedFails
<1> QED
  BY <1>3, <1>4, <1>5, <1>6, <1>7, <1>8, <1>9, <1>10, <1>11, <1>12 DEF Next, JobStep, DeletionStep

\* No backup is forgotten in the bucket, but for the cases that the property
\* names.
THEOREM NoBackupForgotten == Spec => NoObjectForgotten
<1>1. IInv /\ [Next]_vars =>
          [\A key \in objects \intersect objects' :
              Named(key) =>
                  \/ Named(key)'
                  \/ key \in crossed \/ Shared(key) \/ Renames(key)]_vars
  BY NoStepForgets DEF Remembered
<1> QED  BY <1>1, IInvHolds, PTL DEF Spec, NoObjectForgotten
=============================================================================
