-------------------------- MODULE Migrations_proofs --------------------------
(***************************************************************************)
(* Proofs about Migrations, for any number of replicas, images,            *)
(* migrations, crashes, failures and clicks of a superadmin.               *)
(*                                                                         *)
(* The inductive invariant is Inv: what the tables look like (Data) and    *)
(* what each replica may rely on where it is (Relies).  A replica in the   *)
(* critical part holds the lock, so that its steps need not be checked     *)
(* against what the others rely on (HolderIsAlone).                        *)
(***************************************************************************)
EXTENDS Migrations, TLAPS

Holding == {"resolve", "read", "loop", "apply", "record"}

\* What the loop has dealt with is in the schema.
LoopDone(r) ==
    /\ runner[r].left \subseteq 1..Latest[r]
    /\ \A m \in (1..Latest[r]) \ runner[r].left : changes[m] = "all"

\* The row a replica works on is stored, not finished, and of the first migration
\* that is left.
RowAt(r) ==
    /\ runner[r].row \in RowIds
    /\ Stored(runner[r].row)
    /\ ~rows[runner[r].row].finished
    /\ Current(r) \in runner[r].left
    /\ \A k \in runner[r].left : Current(r) <= k

\* Rows that look failed to the replica.
FailedOnly(S) == \A i \in RowIds : Failed(i) => i \in S

Relies(r) ==
    /\ runner[r].pc \in Holding => lock = r
    /\ runner[r].pc \in {"loop", "apply", "record"} => LoopDone(r)
    /\ runner[r].pc \in {"apply", "record"} => RowAt(r)
    /\ runner[r].pc \in {"read", "loop"} => FailedOnly({})
    /\ runner[r].pc \in {"apply", "record"} => FailedOnly({runner[r].row})
    /\ runner[r].pc = "record" => changes[Current(r)] = "all"

AdminRowStored == admin # NoRow => Stored(admin)

Data ==
    /\ AdminRowStored /\ SchemaInOrder /\ FinishedMeansApplied
    /\ OneFailedRow /\ ServingHasSchema

Inv == TypeOK /\ Data /\ \A r \in Replicas : Relies(r)

USE ConstantsAssumption, RowAssumption DEF Migration

-----------------------------------------------------------------------------
(* What holds in every step *)

\* The others are outside of the critical part.
LEMMA HolderIsAlone ==
  ASSUME Inv, NEW r \in Replicas, runner[r].pc \in Holding,
         NEW q \in Replicas, q # r, runner'[q] = runner[q]
  PROVE  Relies(q)'
<1>1. runner[q].pc \notin Holding
  BY DEF Inv, Relies
<1> QED
  BY <1>1 DEF Relies, Holding

\* What a replica relies on is untouched by a step that leaves it, its lock and
\* the tables alone.
LEMMA OthersUntouched ==
  ASSUME Inv, NEW q \in Replicas, runner'[q] = runner[q], UNCHANGED <<rows, changes>>,
         lock = q => lock' = q
  PROVE  Relies(q)'
<1>1. Relies(q)
  BY DEF Inv
<1> QED
  BY <1>1 DEF Relies, LoopDone, RowAt, FailedOnly, Failed, Stored, Current

LEMMA DataUntouched ==
  ASSUME Inv, UNCHANGED <<rows, changes, admin>>, serving' \subseteq serving
  PROVE  Data'
  BY DEF Inv, Data, AdminRowStored, SchemaInOrder, FinishedMeansApplied, OneFailedRow,
         ServingHasSchema, Failed, Stored

\* Where a replica outside of the critical part is, it relies on nothing.
LEMMA OutsideReliesOnNothing ==
  ASSUME NEW r \in Replicas, runner'[r].pc \notin Holding
  PROVE  Relies(r)'
  BY DEF Relies, Holding

\* No migration is taken back.
Kept == \A k \in Migration : changes[k] = "all" => changes'[k] = "all"

\* The SQL of the first migration that is left, committed or not, keeps the schema
\* in order and what is in it there.
LEMMA SqlKeepsData ==
  ASSUME Inv, NEW r \in Replicas, At(r, "apply"),
         Commit(Current(r)) \/ Abort(Current(r)),
         UNCHANGED <<rows, admin>>, serving' \subseteq serving
  PROVE  Data' /\ Kept /\ changes' \in [Migration -> Amount] /\ commits' \in [Migration -> Nat]
<1> DEFINE m == Current(r)
<1>1. RowAt(r) /\ LoopDone(r)
  BY DEF Inv, Relies, At
<1>2. m \in 1..Latest[r] /\ Latest[r] \in 0..N /\ m \in Migration
  BY <1>1 DEF RowAt, LoopDone
<1>3. changes \in [Migration -> Amount] /\ commits \in [Migration -> Nat]
  BY DEF Inv, TypeOK
<1>4. \A k \in 1..(m - 1) : changes[k] = "all"
  <2> SUFFICES ASSUME NEW k \in 1..(m - 1) PROVE changes[k] = "all"
    OBVIOUS
  <2>1. k \in 1..Latest[r]
    BY <1>2
  <2>2. k \notin runner[r].left
    BY <1>1, <1>2 DEF RowAt
  <2> QED
    BY <2>1, <2>2, <1>1 DEF LoopDone
<1>5. /\ changes' \in [Migration -> Amount]
      /\ \A k \in Migration : k # m => changes'[k] = changes[k]
      /\ changes[m] = "all" => changes'[m] = "all"
  BY <1>2, <1>3 DEF Commit, Abort, Amount
<1>6. commits' \in [Migration -> Nat]
  <2>1. commits' = commits \/ commits' = [commits EXCEPT ![m] = @ + 1]
    BY DEF Commit, Abort
  <2> HIDE DEF m
  <2> QED
    BY <2>1, <1>3, SMTT(30)
<1>7. Kept
  BY <1>5 DEF Kept
<1>8. SchemaInOrder'
  <2> SUFFICES ASSUME NEW j \in Migration, changes'[j] # "none", NEW k \in 1..(j - 1)
               PROVE  changes'[k] = "all"
    BY DEF SchemaInOrder
  <2>1. k \in Migration
    OBVIOUS
  <2>2. CASE j = m
    BY <2>1, <2>2, <1>4, <1>7 DEF Kept
  <2>3. CASE j # m
    <3>1. changes[j] # "none"
      BY <2>3, <1>5
    <3>2. changes[k] = "all"
      BY <3>1 DEF Inv, Data, SchemaInOrder
    <3> QED
      BY <3>2, <2>1, <1>7 DEF Kept
  <2> QED
    BY <2>2, <2>3
<1>9. FinishedMeansApplied'
  <2> SUFFICES ASSUME NEW i \in RowIds, rows[i] # NoRow, rows[i].finished
               PROVE  changes'[rows[i].migration] = "all"
    BY DEF FinishedMeansApplied, Stored
  <2>1. rows[i].migration \in Migration
    BY DEF Inv, TypeOK, Row
  <2>2. changes[rows[i].migration] = "all"
    BY DEF Inv, Data, FinishedMeansApplied, Stored
  <2> QED
    BY <2>1, <2>2, <1>7 DEF Kept
<1>10. ServingHasSchema'
  <2> SUFFICES ASSUME NEW q \in serving', NEW k \in 1..Latest[q]
               PROVE  changes'[k] = "all"
    BY DEF ServingHasSchema
  <2>1. q \in Replicas /\ k \in Migration
    BY DEF Inv, TypeOK
  <2>2. changes[k] = "all"
    BY DEF Inv, Data, ServingHasSchema
  <2> QED
    BY <2>1, <2>2, <1>7 DEF Kept
<1>11. AdminRowStored' /\ OneFailedRow'
  BY DEF Inv, Data, AdminRowStored, OneFailedRow, Failed, Stored
<1> QED
  BY <1>5, <1>6, <1>7, <1>8, <1>9, <1>10, <1>11 DEF Data

-----------------------------------------------------------------------------
(* The invariant holds at first and is kept by every step *)

LEMMA InitInv == Init => Inv
  BY DEF Init, Inv, Data, TypeOK, Relies, AdminRowStored, SchemaInOrder,
         FinishedMeansApplied, OneFailedRow, ServingHasSchema, Off, Runner, Pc, Holding,
         Failed, Stored, Amount

LEMMA StartStep ==
  ASSUME Inv, NEW r \in Replicas, Start(r)
  PROVE  Inv'
<1>1. runner' = [runner EXCEPT ![r].pc = "lock"] /\ runner \in [Replicas -> Runner]
  BY DEF Start, Goto, Inv, TypeOK
<1>2. TypeOK'
  BY <1>1 DEF Start, Inv, TypeOK, Runner, Pc
<1>3. Data'
  BY DataUntouched DEF Start
<1>4. ASSUME NEW q \in Replicas PROVE Relies(q)'
  <2>1. CASE q = r
    BY <2>1, <1>1, OutsideReliesOnNothing DEF Holding, Runner
  <2>2. CASE q # r
    BY <2>2, <1>1, OthersUntouched DEF Start
  <2> QED
    BY <2>1, <2>2
<1> QED
  BY <1>2, <1>3, <1>4 DEF Inv

LEMMA LockStep ==
  ASSUME Inv, NEW r \in Replicas, Lock(r)
  PROVE  Inv'
<1>1. runner' = [runner EXCEPT ![r].pc = "resolve"] /\ runner \in [Replicas -> Runner]
  BY DEF Lock, Goto, Inv, TypeOK
<1>2. TypeOK'
  BY <1>1 DEF Lock, Inv, TypeOK, Runner, Pc
<1>3. Data'
  BY DataUntouched DEF Lock
<1>4. ASSUME NEW q \in Replicas PROVE Relies(q)'
  <2>1. CASE q = r
    BY <2>1, <1>1 DEF Lock, Relies, Runner
  <2>2. CASE q # r
    <3>1. lock # q
      BY DEF Lock
    <3> QED
      BY <3>1, <2>2, <1>1, OthersUntouched DEF Lock
  <2> QED
    BY <2>1, <2>2
<1> QED
  BY <1>2, <1>3, <1>4 DEF Inv

LEMMA ResolveStep ==
  ASSUME Inv, NEW r \in Replicas, Resolve(r)
  PROVE  Inv'
<1>1. runner' = [runner EXCEPT ![r].pc = "read"] /\ runner \in [Replicas -> Runner]
  BY DEF Resolve, Goto, Inv, TypeOK
<1>2. /\ rows' \in [RowIds -> Row \union {NoRow}]
      /\ \A i \in RowIds : /\ Stored(i)' <=> Stored(i)
                           /\ Stored(i) => /\ rows'[i].migration = rows[i].migration
                                           /\ rows'[i].finished = rows[i].finished
                           /\ ~Failed(i)'
  BY DEF Resolve, RolledBack, Failed, Stored, Inv, TypeOK, Row
<1>3. TypeOK'
  BY <1>1, <1>2 DEF Resolve, Inv, TypeOK, Runner, Pc
<1>4. AdminRowStored' /\ OneFailedRow'
  BY <1>2 DEF Resolve, Inv, TypeOK, Data, AdminRowStored, OneFailedRow
<1>5. SchemaInOrder' /\ ServingHasSchema'
  BY DEF Resolve, Inv, Data, SchemaInOrder, ServingHasSchema
<1>6. FinishedMeansApplied'
  BY <1>2 DEF Resolve, Inv, Data, FinishedMeansApplied
<1>7. ASSUME NEW q \in Replicas PROVE Relies(q)'
  <2>1. CASE q = r
    <3>1. lock' = r
      BY DEF Resolve, At, Inv, Relies, Holding
    <3> QED
      BY <3>1, <2>1, <1>1, <1>2 DEF Relies, FailedOnly, Runner
  <2>2. CASE q # r
    BY <2>2, <1>1, HolderIsAlone DEF Resolve, At, Holding
  <2> QED
    BY <2>1, <2>2
<1> QED
  BY <1>3, <1>4, <1>5, <1>6, <1>7 DEF Inv, Data

LEMMA ReadStep ==
  ASSUME Inv, NEW r \in Replicas, Read(r)
  PROVE  Inv'
<1>1. /\ runner' = [runner EXCEPT ![r].pc = "loop",
                                  ![r].left = (1..Latest[r]) \ AppliedNames]
      /\ runner \in [Replicas -> Runner]
  BY DEF Read, Inv, TypeOK
<1>2. TypeOK'
  <2>1. (1..Latest[r]) \ AppliedNames \in SUBSET Migration
    OBVIOUS
  <2>2. runner' \in [Replicas -> Runner]
    BY <1>1, <2>1 DEF Runner, Pc
  <2> QED
    BY <2>2 DEF Read, Inv, TypeOK
<1>3. Data'
  BY DataUntouched DEF Read
<1>4. \A m \in AppliedNames : changes[m] = "all"
  BY DEF AppliedNames, Inv, Data, FinishedMeansApplied
<1>5. ASSUME NEW q \in Replicas PROVE Relies(q)'
  <2>1. CASE q = r
    <3>1. lock' = r /\ FailedOnly({})
      BY DEF Read, At, Inv, Relies, Holding
    <3>2. runner'[r].pc = "loop" /\ runner'[r].left = (1..Latest[r]) \ AppliedNames
      BY <1>1 DEF Runner
    <3>3. LoopDone(r)'
      BY <3>2, <1>4 DEF LoopDone, Read
    <3>4. FailedOnly({})'
      BY <3>1 DEF FailedOnly, Failed, Stored, Read
    <3> QED
      BY <3>1, <3>2, <3>3, <3>4, <2>1 DEF Relies
  <2>2. CASE q # r
    BY <2>2, <1>1, HolderIsAlone DEF Read, At, Holding
  <2> QED
    BY <2>1, <2>2
<1> QED
  BY <1>2, <1>3, <1>5 DEF Inv

LEMMA InsertStep ==
  ASSUME Inv, NEW r \in Replicas, NEW m \in Migration, Insert(r, m)
  PROVE  Inv'
<1> DEFINE f == FreshRow
<1>1. f \in RowIds /\ ~Stored(f)
  BY DEF Insert, FreshRow
<1>2. /\ runner' = [runner EXCEPT ![r].pc = "apply", ![r].row = f]
      /\ runner \in [Replicas -> Runner]
  BY DEF Insert, Inv, TypeOK
<1>3. /\ rows' \in [RowIds -> Row \union {NoRow}]
      /\ \A i \in RowIds : i # f => rows'[i] = rows[i]
      /\ rows'[f] # NoRow /\ rows'[f].migration = m /\ ~rows'[f].finished
  <2>1. rows' = [rows EXCEPT ![f] = [migration |-> m, finished |-> FALSE,
                                     rolledBack |-> FALSE]]
    BY DEF Insert
  <2>2. [migration |-> m, finished |-> FALSE, rolledBack |-> FALSE] \in Row
    BY DEF Row
  <2>3. rows \in [RowIds -> Row \union {NoRow}]
    BY DEF Inv, TypeOK
  <2> HIDE DEF f
  <2> QED
    BY <2>1, <2>2, <2>3, <1>1
<1>4. TypeOK'
  <2>1. runner' \in [Replicas -> Runner]
    BY <1>1, <1>2 DEF Runner, Pc
  <2> QED
    BY <2>1, <1>3 DEF Insert, Inv, TypeOK
<1>5. lock = r /\ LoopDone(r) /\ FailedOnly({})
  BY DEF Insert, At, Inv, Relies, Holding
<1>6. \A i \in RowIds : Failed(i)' => i = f
  BY <1>3, <1>5 DEF Failed, FailedOnly, Stored
<1>7. AdminRowStored'
  BY <1>1, <1>3 DEF Insert, Inv, TypeOK, Data, AdminRowStored, Stored
<1>8. OneFailedRow'
  BY <1>6 DEF OneFailedRow
<1>9. SchemaInOrder' /\ ServingHasSchema'
  BY DEF Insert, Inv, Data, SchemaInOrder, ServingHasSchema
<1>10. FinishedMeansApplied'
  BY <1>3 DEF Insert, Inv, Data, FinishedMeansApplied, Stored
<1>11. ASSUME NEW q \in Replicas PROVE Relies(q)'
  <2>1. CASE q = r
    <3>1. /\ runner'[r].pc = "apply" /\ runner'[r].row = f
          /\ runner'[r].left = runner[r].left
      BY <1>2 DEF Runner
    <3>2. lock' = r /\ LoopDone(r)'
      BY <1>5, <3>1 DEF Insert, LoopDone
    <3>3. RowAt(r)'
      BY <1>1, <1>3, <3>1 DEF RowAt, Current, Insert, Stored
    <3>4. FailedOnly({runner[r].row})'
      BY <1>6, <3>1 DEF FailedOnly
    <3> QED
      BY <3>1, <3>2, <3>3, <3>4, <2>1 DEF Relies
  <2>2. CASE q # r
    BY <2>2, <1>2, HolderIsAlone DEF Insert, At, Holding
  <2> QED
    BY <2>1, <2>2
<1> QED
  BY <1>4, <1>7, <1>8, <1>9, <1>10, <1>11 DEF Inv, Data

LEMMA ApplyStep ==
  ASSUME Inv, NEW r \in Replicas, Apply(r)
  PROVE  Inv'
<1>1. runner' = [runner EXCEPT ![r].pc = "record"] /\ runner \in [Replicas -> Runner]
  BY DEF Apply, Goto, Inv, TypeOK
<1>2. Data' /\ Kept /\ changes' \in [Migration -> Amount] /\ commits' \in [Migration -> Nat]
  BY SqlKeepsData DEF Apply
<1>3. TypeOK'
  BY <1>1, <1>2 DEF Apply, Inv, TypeOK, Runner, Pc
<1>4. lock = r /\ LoopDone(r) /\ RowAt(r) /\ FailedOnly({runner[r].row})
  BY DEF Apply, At, Inv, Relies, Holding
<1>5. ASSUME NEW q \in Replicas PROVE Relies(q)'
  <2>1. CASE q = r
    <3>1. /\ runner'[r].pc = "record" /\ runner'[r].row = runner[r].row
          /\ runner'[r].left = runner[r].left
      BY <1>1 DEF Runner
    <3>2. lock' = r /\ LoopDone(r)'
      BY <1>2, <1>4, <3>1 DEF Apply, LoopDone, Kept
    <3>3. RowAt(r)' /\ FailedOnly({runner[r].row})'
      BY <1>4, <3>1 DEF RowAt, FailedOnly, Failed, Stored, Current, Apply
    <3>4. (changes[Current(r)] = "all")'
      <4>1. Current(r) \in Migration /\ Current(r)' = Current(r)
        BY <1>4, <3>1 DEF RowAt, LoopDone, Current, Apply
      <4> QED
        BY <4>1 DEF Apply, Commit, Inv, TypeOK
    <3> QED
      BY <3>1, <3>2, <3>3, <3>4, <2>1 DEF Relies
  <2>2. CASE q # r
    BY <2>2, <1>1, HolderIsAlone DEF Apply, At, Holding
  <2> QED
    BY <2>1, <2>2
<1> QED
  BY <1>2, <1>3, <1>5 DEF Inv

LEMMA ApplyFailsStep ==
  ASSUME Inv, NEW r \in Replicas, ApplyFails(r)
  PROVE  Inv'
<1>1. runner' = [runner EXCEPT ![r] = Off] /\ runner \in [Replicas -> Runner]
  BY DEF ApplyFails, Inv, TypeOK
<1>2. Data' /\ changes' \in [Migration -> Amount] /\ commits' \in [Migration -> Nat]
  BY SqlKeepsData DEF ApplyFails
<1>3. TypeOK'
  <2>1. runner' \in [Replicas -> Runner]
    BY <1>1 DEF Runner, Pc, Off
  <2>2. lock' \in Replicas \union {Free} /\ failures' \in Nat
    BY DEF ApplyFails, Release, Inv, TypeOK
  <2> QED
    BY <2>1, <2>2, <1>2 DEF ApplyFails, Inv, TypeOK
<1>4. ASSUME NEW q \in Replicas PROVE Relies(q)'
  <2>1. CASE q = r
    BY <2>1, <1>1, OutsideReliesOnNothing DEF Holding, Off
  <2>2. CASE q # r
    BY <2>2, <1>1, HolderIsAlone DEF ApplyFails, At, Holding
  <2> QED
    BY <2>1, <2>2
<1> QED
  BY <1>2, <1>3, <1>4 DEF Inv

LEMMA RecordStep ==
  ASSUME Inv, NEW r \in Replicas, Record(r)
  PROVE  Inv'
<1> DEFINE w == runner[r].row
<1>1. /\ runner' = [runner EXCEPT ![r].pc = "loop", ![r].left = @ \ {Current(r)},
                                  ![r].row = NoRow]
      /\ runner \in [Replicas -> Runner]
  BY DEF Record, Inv, TypeOK
<1>2. /\ lock = r /\ LoopDone(r) /\ RowAt(r) /\ FailedOnly({w})
      /\ changes[Current(r)] = "all"
  BY DEF Record, At, Inv, Relies, Holding
<1>3. /\ rows' \in [RowIds -> Row \union {NoRow}]
      /\ \A i \in RowIds : i # w => rows'[i] = rows[i]
      /\ rows'[w] # NoRow /\ rows'[w].finished /\ rows'[w].migration = rows[w].migration
  BY <1>2 DEF Record, RowAt, Inv, TypeOK, Row, Stored
<1>4. TypeOK'
  <2>1. runner' \in [Replicas -> Runner]
    <3>1. runner[r].left \ {Current(r)} \in SUBSET Migration
      BY <1>1 DEF Runner
    <3>2. runner'[r] = [pc |-> "loop", left |-> runner[r].left \ {Current(r)},
                        row |-> NoRow]
      BY <1>1 DEF Runner
    <3>3. runner'[r] \in Runner
      BY <3>1, <3>2 DEF Runner, Pc
    <3> QED
      BY <1>1, <3>3
  <2> QED
    BY <2>1, <1>3 DEF Record, Inv, TypeOK
<1>5. \A i \in RowIds : ~Failed(i)'
  BY <1>2, <1>3 DEF Failed, FailedOnly, Stored
<1>6. AdminRowStored' /\ OneFailedRow'
  BY <1>3, <1>5 DEF Record, Inv, TypeOK, Data, AdminRowStored, OneFailedRow, Stored
<1>7. SchemaInOrder' /\ ServingHasSchema'
  BY DEF Record, Inv, Data, SchemaInOrder, ServingHasSchema
<1>8. FinishedMeansApplied'
  BY <1>2, <1>3 DEF Record, Inv, Data, FinishedMeansApplied, Stored, Current
<1>9. ASSUME NEW q \in Replicas PROVE Relies(q)'
  <2>1. CASE q = r
    <3>1. runner'[r].pc = "loop" /\ runner'[r].left = runner[r].left \ {Current(r)}
      BY <1>1 DEF Runner
    <3>2. lock' = r /\ LoopDone(r)'
      BY <1>2, <3>1 DEF Record, LoopDone
    <3>3. FailedOnly({})'
      BY <1>5 DEF FailedOnly
    <3> QED
      BY <3>1, <3>2, <3>3, <2>1 DEF Relies
  <2>2. CASE q # r
    BY <2>2, <1>1, HolderIsAlone DEF Record, At, Holding
  <2> QED
    BY <2>1, <2>2
<1> QED
  BY <1>4, <1>6, <1>7, <1>8, <1>9 DEF Inv, Data

LEMMA FinishStep ==
  ASSUME Inv, NEW r \in Replicas, Finish(r)
  PROVE  Inv'
<1>1. runner' = [runner EXCEPT ![r] = Off] /\ runner \in [Replicas -> Runner]
  BY DEF Finish, Inv, TypeOK
<1>2. TypeOK'
  <2>1. runner' \in [Replicas -> Runner]
    BY <1>1 DEF Runner, Pc, Off
  <2>2. lock' \in Replicas \union {Free}
    BY DEF Finish, Release, Inv, TypeOK
  <2> QED
    BY <2>1, <2>2 DEF Finish, Inv, TypeOK
<1>3. \A m \in 1..Latest[r] : changes[m] = "all"
  BY DEF Finish, At, Inv, Relies, LoopDone
<1>4. Data'
  BY <1>3 DEF Finish, Inv, Data, AdminRowStored, SchemaInOrder, FinishedMeansApplied,
              OneFailedRow, ServingHasSchema, Failed, Stored
<1>5. ASSUME NEW q \in Replicas PROVE Relies(q)'
  <2>1. CASE q = r
    BY <2>1, <1>1, OutsideReliesOnNothing DEF Holding, Off
  <2>2. CASE q # r
    BY <2>2, <1>1, HolderIsAlone DEF Finish, At, Holding
  <2> QED
    BY <2>1, <2>2
<1> QED
  BY <1>2, <1>4, <1>5 DEF Inv

LEMMA CrashStep ==
  ASSUME Inv, NEW r \in Replicas, Crash(r)
  PROVE  Inv'
<1>1. runner' = [runner EXCEPT ![r] = Off] /\ runner \in [Replicas -> Runner]
  BY DEF Crash, Inv, TypeOK
<1>2. Data' /\ changes' \in [Migration -> Amount] /\ commits' \in [Migration -> Nat]
  <2>1. CASE At(r, "apply")
    BY <2>1, SqlKeepsData DEF Crash
  <2>2. CASE ~At(r, "apply")
    BY <2>2, DataUntouched DEF Crash, Inv, TypeOK
  <2> QED
    BY <2>1, <2>2
<1>3. TypeOK'
  <2>1. runner' \in [Replicas -> Runner]
    BY <1>1 DEF Runner, Pc, Off
  <2>2. lock' \in Replicas \union {Free} /\ crashes' \in Nat /\ serving' \subseteq Replicas
    BY DEF Crash, Release, Inv, TypeOK
  <2> QED
    BY <2>1, <2>2, <1>2 DEF Crash, Inv, TypeOK
<1>4. ASSUME NEW q \in Replicas PROVE Relies(q)'
  <2>1. CASE q = r
    BY <2>1, <1>1, OutsideReliesOnNothing DEF Holding, Off
  <2>2. CASE q # r /\ At(r, "apply")
    BY <2>2, <1>1, HolderIsAlone DEF At, Holding
  <2>3. CASE q # r /\ ~At(r, "apply")
    <3>1. lock = q => lock' = q
      BY <2>3 DEF Crash, Release
    <3> QED
      BY <3>1, <2>3, <1>1, OthersUntouched DEF Crash
  <2> QED
    BY <2>1, <2>2, <2>3
<1> QED
  BY <1>2, <1>3, <1>4 DEF Inv

LEMMA AdminSelectsStep ==
  ASSUME Inv, NEW i \in RowIds, AdminSelects(i)
  PROVE  Inv'
<1>1. TypeOK'
  BY DEF AdminSelects, Inv, TypeOK
<1>2. Data'
  BY DEF AdminSelects, Inv, Data, AdminRowStored, SchemaInOrder, FinishedMeansApplied,
         OneFailedRow, ServingHasSchema, Failed, Stored
<1>3. ASSUME NEW q \in Replicas PROVE Relies(q)'
  BY OthersUntouched DEF AdminSelects
<1> QED
  BY <1>1, <1>2, <1>3 DEF Inv

LEMMA AdminUpdatesStep ==
  ASSUME Inv, AdminUpdates
  PROVE  Inv'
<1>1. admin \in RowIds /\ Stored(admin)
  BY DEF AdminUpdates, Inv, TypeOK, Data, AdminRowStored
<1>2. /\ rows' \in [RowIds -> Row \union {NoRow}]
      /\ \A i \in RowIds : /\ Stored(i)' <=> Stored(i)
                           /\ Stored(i) => /\ rows'[i].migration = rows[i].migration
                                           /\ rows'[i].finished = rows[i].finished
                           /\ Failed(i)' => Failed(i)
  BY <1>1 DEF AdminUpdates, RolledBack, Failed, Stored, Inv, TypeOK, Row
<1>3. TypeOK'
  BY <1>2 DEF AdminUpdates, Inv, TypeOK
<1>4. AdminRowStored' /\ OneFailedRow'
  BY <1>2 DEF AdminUpdates, Inv, TypeOK, Data, AdminRowStored, OneFailedRow
<1>5. SchemaInOrder' /\ ServingHasSchema'
  BY DEF AdminUpdates, Inv, Data, SchemaInOrder, ServingHasSchema
<1>6. FinishedMeansApplied'
  BY <1>2 DEF AdminUpdates, Inv, Data, FinishedMeansApplied
<1>7. ASSUME NEW q \in Replicas PROVE Relies(q)'
  <2>1. Relies(q) /\ UNCHANGED <<runner, changes, lock>>
    BY DEF AdminUpdates, Inv
  <2>2. runner[q].pc \in {"apply", "record"} => RowAt(q)' /\ Current(q)' = Current(q)
    BY <2>1, <1>2 DEF Relies, RowAt, Current
  <2>3. LoopDone(q) => LoopDone(q)'
    BY <2>1 DEF LoopDone
  <2>4. /\ FailedOnly({}) => FailedOnly({})'
        /\ FailedOnly({runner[q].row}) => FailedOnly({runner[q].row})'
    BY <2>1, <1>2 DEF FailedOnly
  <2> QED
    BY <2>1, <2>2, <2>3, <2>4 DEF Relies
<1> QED
  BY <1>3, <1>4, <1>5, <1>6, <1>7 DEF Inv, Data

LEMMA StutterStep ==
  ASSUME Inv, UNCHANGED vars
  PROVE  Inv'
<1>1. Data'
  BY DataUntouched DEF vars
<1>2. ASSUME NEW q \in Replicas PROVE Relies(q)'
  BY OthersUntouched DEF vars
<1> QED
  BY <1>1, <1>2 DEF Inv, TypeOK, vars

THEOREM InvIsInductive == Spec => []Inv
<1>1. Inv /\ [Next]_vars => Inv'
  <2> SUFFICES ASSUME Inv, [Next]_vars PROVE Inv'
    OBVIOUS
  <2> QED
    BY StartStep, LockStep, ResolveStep, ReadStep, InsertStep, ApplyStep, ApplyFailsStep,
       RecordStep, FinishStep, CrashStep, AdminSelectsStep, AdminUpdatesStep, StutterStep
    DEF Next, Run
<1> QED
  BY <1>1, InitInv, PTL DEF Spec

-----------------------------------------------------------------------------
(* The theorems *)

\* Every variable keeps its type.
THEOREM TypeCorrect == Spec => []TypeOK
<1>1. Inv => TypeOK
  BY DEF Inv
<1> QED
  BY <1>1, InvIsInductive, PTL

\* The migrations are in the schema in their order, however many replicas of
\* whatever images start, crash and fail together.
THEOREM SchemaAlwaysInOrder == Spec => []SchemaInOrder
<1>1. Inv => SchemaInOrder
  BY DEF Inv, Data
<1> QED
  BY <1>1, InvIsInductive, PTL

\* What _prisma_migrations calls finished is in the schema.
THEOREM OnlyAppliedIsFinished == Spec => []FinishedMeansApplied
<1>1. Inv => FinishedMeansApplied
  BY DEF Inv, Data
<1> QED
  BY <1>1, InvIsInductive, PTL

\* Never do two rows look failed, so that a superadmin who marks one as resolved
\* leaves no other.
THEOREM OneRowLooksFailed == Spec => []OneFailedRow
<1>1. Inv => OneFailedRow
  BY DEF Inv, Data
<1> QED
  BY <1>1, InvIsInductive, PTL

\* A replica that serves has the schema of its image under it.
THEOREM ServingReplicasHaveSchema == Spec => []ServingHasSchema
<1>1. Inv => ServingHasSchema
  BY DEF Inv, Data
<1> QED
  BY <1>1, InvIsInductive, PTL

-----------------------------------------------------------------------------
(* Counting the commits *)

\* The SQL that r is about to commit is wasted: its row is marked already.
WastedBy(r, m) ==
    At(r, "apply") /\ Current(r) = m /\ rows[runner[r].row].rolledBack

\* What r has committed is not marked, and will be recorded.
HeldBy(r, m) ==
    At(r, "record") /\ Current(r) = m /\ ~rows[runner[r].row].rolledBack

Wasted(m) == \E r \in Replicas : WastedBy(r, m)
Marking(m) == admin # NoRow /\ rows[admin].migration = m
Held(m) == m \in AppliedNames \/ \E r \in Replicas : HeldBy(r, m)

Unit(b) == IF b THEN 1 ELSE 0

\* Every commit of a migration has a crash or a resolution of its own, except the
\* one that is recorded.  A click on a row that is not marked yet, and a marked row
\* whose SQL is still running, are resolutions that have not cost a commit so far.
Balanced(m) ==
    commits[m] + Unit(Wasted(m)) + Unit(Marking(m)) <= crashes + resolves + Unit(Held(m))

\* The loop has before it only what is not recorded as applied.
LeftUnapplied(r) ==
    runner[r].pc \in {"loop", "apply", "record"} => runner[r].left \cap AppliedNames = {}

CommitInv ==
    /\ \A r \in Replicas : LeftUnapplied(r)
    /\ \A m \in Migration : Balanced(m)

\* In a step of a replica in the critical part, what the others waste and hold is
\* nothing, before and after.
LEMMA OnlyTheHolderCounts ==
  ASSUME Inv, NEW r \in Replicas, runner[r].pc \in Holding,
         \A q \in Replicas : q # r => runner'[q] = runner[q],
         NEW m
  PROVE  /\ Wasted(m) <=> WastedBy(r, m)
         /\ Wasted(m)' <=> WastedBy(r, m)'
         /\ Held(m) <=> m \in AppliedNames \/ HeldBy(r, m)
         /\ Held(m)' <=> m \in AppliedNames' \/ HeldBy(r, m)'
         /\ \A q \in Replicas : q # r => LeftUnapplied(q)'
<1>1. \A q \in Replicas : q # r => runner[q].pc \notin Holding
  BY DEF Inv, Relies
<1>2. \A q \in Replicas : q # r => runner'[q].pc \notin Holding
  BY <1>1
<1> QED
  BY <1>1, <1>2 DEF Wasted, Held, WastedBy, HeldBy, LeftUnapplied, At, Holding

\* Balanced stays if nothing is committed, nothing more is wasted or being marked,
\* and nothing is held less.
LEMMA StaysBalanced ==
  ASSUME TypeOK, TypeOK', NEW m \in Migration, Balanced(m), commits'[m] = commits[m],
         crashes <= crashes', resolves <= resolves',
         Wasted(m)' => Wasted(m), Marking(m)' => Marking(m), Held(m) => Held(m)'
  PROVE  Balanced(m)'
<1>1. /\ commits[m] \in Nat /\ crashes \in Nat /\ resolves \in Nat
      /\ crashes' \in Nat /\ resolves' \in Nat
  BY DEF TypeOK
<1> QED
  BY <1>1 DEF Balanced, Unit

\* Rows and runners outside of the critical part are what Balanced depends on.
LEMMA CountingUntouched ==
  ASSUME Inv, TypeOK', CommitInv, UNCHANGED <<rows, commits, admin, crashes, resolves>>,
         \A q \in Replicas : \/ runner'[q] = runner[q]
                             \/ /\ runner[q].pc \notin {"apply", "record"}
                                /\ runner'[q].pc \notin {"loop", "apply", "record"}
  PROVE  CommitInv'
<1>1. AppliedNames' = AppliedNames
  BY DEF AppliedNames, Stored
<1>2. ASSUME NEW q \in Replicas PROVE LeftUnapplied(q)'
  BY <1>1 DEF CommitInv, LeftUnapplied
<1>3. ASSUME NEW m \in Migration PROVE Balanced(m)'
  <2>1. \A q \in Replicas : /\ WastedBy(q, m)' <=> WastedBy(q, m)
                            /\ HeldBy(q, m)' <=> HeldBy(q, m)
    BY DEF WastedBy, HeldBy, At, Current
  <2>2. /\ Wasted(m)' <=> Wasted(m)
        /\ Held(m)' <=> Held(m)
        /\ Marking(m)' <=> Marking(m)
    BY <2>1, <1>1 DEF Wasted, Held, Marking
  <2>3. Balanced(m)
    BY DEF CommitInv
  <2>4. crashes <= crashes' /\ resolves <= resolves'
    BY DEF Inv, TypeOK
  <2> QED
    BY <2>2, <2>3, <2>4, StaysBalanced DEF Inv
<1> QED
  BY <1>2, <1>3 DEF CommitInv

LEMMA CommitInvInit == Init => CommitInv
<1> SUFFICES ASSUME Init PROVE CommitInv
  OBVIOUS
<1>1. \A r \in Replicas : LeftUnapplied(r)
  BY DEF Init, Off, LeftUnapplied
<1>2. ASSUME NEW m \in Migration PROVE Balanced(m)
  <2>1. ~Wasted(m)
    BY DEF Init, Off, Wasted, WastedBy, At
  <2>2. ~Marking(m)
    BY DEF Init, Marking
  <2>3. commits[m] = 0 /\ crashes = 0 /\ resolves = 0
    BY DEF Init
  <2> QED
    BY <2>1, <2>2, <2>3 DEF Balanced, Unit
<1> QED
  BY <1>1, <1>2 DEF CommitInv

LEMMA QuietCommits ==
  ASSUME Inv, Inv', CommitInv,
         \/ \E r \in Replicas : Start(r) \/ Lock(r) \/ Finish(r)
         \/ UNCHANGED vars
  PROVE  CommitInv'
<1>1. TypeOK' /\ runner \in [Replicas -> Runner]
  BY DEF Inv, TypeOK
<1>2. CASE UNCHANGED vars
  BY <1>1, <1>2, CountingUntouched DEF vars
<1>3. ASSUME NEW r \in Replicas, Start(r) \/ Lock(r) \/ Finish(r)
      PROVE  CommitInv'
  <2>1. UNCHANGED <<rows, commits, admin, crashes, resolves>>
    BY <1>3 DEF Start, Lock, Finish
  <2>2. /\ runner[r].pc \notin {"apply", "record"}
        /\ runner'[r].pc \notin {"loop", "apply", "record"}
        /\ \A q \in Replicas : q # r => runner'[q] = runner[q]
    BY <1>1, <1>3 DEF Start, Lock, Finish, At, Goto, Off, Runner
  <2> QED
    BY <2>1, <2>2, <1>1, CountingUntouched
<1> QED
  BY <1>2, <1>3

LEMMA ResolveCommits ==
  ASSUME Inv, Inv', CommitInv, NEW r \in Replicas, Resolve(r)
  PROVE  CommitInv'
<1>1. /\ runner[r].pc = "resolve" /\ runner'[r].pc = "read"
      /\ \A q \in Replicas : q # r => runner'[q] = runner[q]
  BY DEF Resolve, At, Goto, Inv, TypeOK, Runner
<1>2. \A i \in RowIds : /\ Stored(i)' <=> Stored(i)
                        /\ Stored(i) => /\ rows'[i].migration = rows[i].migration
                                        /\ rows'[i].finished = rows[i].finished
                        /\ Stored(i) /\ rows[i].finished => rows'[i] = rows[i]
  BY DEF Resolve, RolledBack, Failed, Stored, Inv, TypeOK, Row
<1>3. AppliedNames' = AppliedNames
  BY <1>2 DEF AppliedNames
<1>4. ASSUME NEW m \in Migration PROVE Balanced(m)'
  <2>1. /\ ~Wasted(m)' /\ (Held(m) => Held(m)')
    BY <1>1, <1>3, OnlyTheHolderCounts DEF Holding, WastedBy, HeldBy, At
  <2>2. Marking(m)' => Marking(m)
    BY <1>2 DEF Resolve, Marking, Inv, TypeOK, Data, AdminRowStored
  <2>3. /\ commits'[m] = commits[m] /\ crashes <= crashes' /\ resolves <= resolves'
        /\ Balanced(m)
    BY DEF Resolve, Inv, TypeOK, CommitInv
  <2> QED
    BY <2>1, <2>2, <2>3, StaysBalanced DEF Inv
<1>5. \A q \in Replicas : LeftUnapplied(q)'
  BY <1>1, OnlyTheHolderCounts DEF Holding, LeftUnapplied
<1> QED
  BY <1>4, <1>5 DEF CommitInv

LEMMA ReadCommits ==
  ASSUME Inv, Inv', CommitInv, NEW r \in Replicas, Read(r)
  PROVE  CommitInv'
<1>1. /\ runner[r].pc = "read" /\ runner'[r].pc = "loop"
      /\ runner'[r].left = (1..Latest[r]) \ AppliedNames
      /\ \A q \in Replicas : q # r => runner'[q] = runner[q]
  BY DEF Read, At, Inv, TypeOK, Runner
<1>2. AppliedNames' = AppliedNames
  BY DEF Read, AppliedNames, Stored
<1>3. ASSUME NEW m \in Migration PROVE Balanced(m)'
  <2>1. ~Wasted(m)' /\ (Held(m) => Held(m)')
    BY <1>1, <1>2, OnlyTheHolderCounts DEF Holding, WastedBy, HeldBy, At
  <2>2. /\ Marking(m)' => Marking(m)
        /\ commits'[m] = commits[m] /\ crashes <= crashes' /\ resolves <= resolves'
        /\ Balanced(m)
    BY DEF Read, Marking, Inv, TypeOK, CommitInv
  <2> QED
    BY <2>1, <2>2, StaysBalanced DEF Inv
<1>4. LeftUnapplied(r)'
  BY <1>1, <1>2 DEF LeftUnapplied
<1>5. \A q \in Replicas : LeftUnapplied(q)'
  BY <1>1, <1>4, OnlyTheHolderCounts DEF Holding
<1> QED
  BY <1>3, <1>5 DEF CommitInv

LEMMA InsertCommits ==
  ASSUME Inv, Inv', CommitInv, NEW r \in Replicas, NEW n \in Migration, Insert(r, n)
  PROVE  CommitInv'
<1> DEFINE f == FreshRow
<1>1. f \in RowIds /\ ~Stored(f)
  BY DEF Insert, FreshRow
<1>2. /\ runner[r].pc = "loop" /\ runner'[r].pc = "apply"
      /\ runner'[r].row = f /\ runner'[r].left = runner[r].left
      /\ \A q \in Replicas : q # r => runner'[q] = runner[q]
  <2> HIDE DEF f
  <2>1. runner' = [runner EXCEPT ![r].pc = "apply", ![r].row = f] /\ At(r, "loop")
    BY DEF Insert, f
  <2> QED
    BY <2>1 DEF At, Inv, TypeOK, Runner
<1>3. /\ \A i \in RowIds : i # f => rows'[i] = rows[i]
      /\ rows'[f] = [migration |-> n, finished |-> FALSE, rolledBack |-> FALSE]
      /\ ~rows'[f].finished /\ ~rows'[f].rolledBack
  <2> HIDE DEF f
  <2>1. rows' = [rows EXCEPT ![f] =
                   [migration |-> n, finished |-> FALSE, rolledBack |-> FALSE]]
    BY DEF Insert, f
  <2> QED
    BY <2>1, <1>1 DEF Inv, TypeOK
<1> HIDE DEF f
<1>4. AppliedNames' = AppliedNames
  BY <1>1, <1>3 DEF AppliedNames, Stored
<1>5. ASSUME NEW m \in Migration PROVE Balanced(m)'
  <2>1. ~Wasted(m)' /\ (Held(m) => Held(m)')
    BY <1>2, <1>3, <1>4, OnlyTheHolderCounts DEF Holding, WastedBy, HeldBy, At
  <2>2. Marking(m)' => Marking(m)
    BY <1>1, <1>3 DEF Insert, Marking, Inv, TypeOK, Data, AdminRowStored
  <2>3. /\ commits'[m] = commits[m] /\ crashes <= crashes' /\ resolves <= resolves'
        /\ Balanced(m)
    BY DEF Insert, Inv, TypeOK, CommitInv
  <2> QED
    BY <2>1, <2>2, <2>3, StaysBalanced DEF Inv
<1>6. LeftUnapplied(r)'
  BY <1>2, <1>4 DEF LeftUnapplied, CommitInv
<1>7. \A q \in Replicas : LeftUnapplied(q)'
  BY <1>2, <1>6, OnlyTheHolderCounts DEF Holding
<1> QED
  BY <1>5, <1>7 DEF CommitInv

\* What the SQL of the row a replica works on costs if it is committed: the
\* commit is wasted already, or it is the one that will be held.
LEMMA ApplyCommits ==
  ASSUME Inv, Inv', CommitInv, NEW r \in Replicas, Apply(r)
  PROVE  CommitInv'
<1> DEFINE n == Current(r)
<1>1. /\ runner[r].pc = "apply" /\ runner'[r].pc = "record"
      /\ runner'[r].row = runner[r].row /\ runner'[r].left = runner[r].left
      /\ \A q \in Replicas : q # r => runner'[q] = runner[q]
  BY DEF Apply, At, Goto, Inv, TypeOK, Runner
<1>2. RowAt(r) /\ LoopDone(r)
  BY <1>1 DEF Inv, Relies
<1>3. n \in runner[r].left /\ n \in Migration /\ Current(r)' = n
  BY <1>1, <1>2 DEF RowAt, LoopDone, Current, Apply
<1>4. AppliedNames' = AppliedNames /\ n \notin AppliedNames
  BY <1>1, <1>3 DEF Apply, AppliedNames, Stored, CommitInv, LeftUnapplied
<1>5. LeftUnapplied(r)'
  BY <1>1, <1>4 DEF LeftUnapplied, CommitInv
<1>6. \A q \in Replicas : LeftUnapplied(q)'
  BY <1>1, <1>5, OnlyTheHolderCounts DEF Holding
<1>7. \A m \in Migration : (Marking(m)' <=> Marking(m)) /\ Balanced(m)
  BY DEF Apply, Marking, CommitInv
<1>8. crashes' = crashes /\ resolves' = resolves /\ crashes \in Nat /\ resolves \in Nat
  BY DEF Apply, Inv, TypeOK
<1>9. ASSUME NEW m \in Migration, m # n PROVE Balanced(m)'
  <2>1. ~Wasted(m)' /\ (Held(m) => Held(m)')
    BY <1>1, <1>3, <1>4, <1>9, OnlyTheHolderCounts DEF Holding, WastedBy, HeldBy, At
  <2>2. commits'[m] = commits[m]
    BY <1>3, <1>9 DEF Apply, Commit, Inv, TypeOK
  <2> QED
    BY <2>1, <2>2, <1>7, <1>8, StaysBalanced DEF Inv
<1>10. ASSUME NEW m \in Migration, m = n PROVE Balanced(m)'
  <2>1. commits'[m] = commits[m] + 1 /\ commits[m] \in Nat
    BY <1>10 DEF Apply, Commit, Inv, TypeOK
  <2>2. ~Wasted(m)' /\ ~Held(m)
    BY <1>1, <1>4, <1>10, OnlyTheHolderCounts DEF Holding, WastedBy, HeldBy, At
  <2>3. Wasted(m) \/ Held(m)'
    BY <1>1, <1>3, <1>10, OnlyTheHolderCounts DEF Holding, WastedBy, HeldBy, At, Apply
  <2> QED
    BY <2>1, <2>2, <2>3, <1>7, <1>8 DEF Balanced, Unit
<1> QED
  BY <1>6, <1>9, <1>10 DEF CommitInv

LEMMA ApplyFailsCommits ==
  ASSUME Inv, Inv', CommitInv, NEW r \in Replicas, ApplyFails(r)
  PROVE  CommitInv'
<1>1. /\ runner[r].pc = "apply" /\ runner'[r].pc = "off"
      /\ \A q \in Replicas : q # r => runner'[q] = runner[q]
  BY DEF ApplyFails, At, Off, Inv, TypeOK
<1>2. AppliedNames' = AppliedNames
  BY DEF ApplyFails, AppliedNames, Stored
<1>3. ASSUME NEW m \in Migration PROVE Balanced(m)'
  <2>1. ~Wasted(m)' /\ (Held(m) => Held(m)')
    BY <1>1, <1>2, OnlyTheHolderCounts DEF Holding, WastedBy, HeldBy, At
  <2>2. /\ Marking(m)' => Marking(m)
        /\ commits'[m] = commits[m] /\ crashes <= crashes' /\ resolves <= resolves'
        /\ Balanced(m)
    BY DEF ApplyFails, Abort, Marking, Inv, TypeOK, CommitInv
  <2> QED
    BY <2>1, <2>2, StaysBalanced DEF Inv
<1>4. \A q \in Replicas : LeftUnapplied(q)'
  BY <1>1, OnlyTheHolderCounts DEF Holding, LeftUnapplied
<1> QED
  BY <1>3, <1>4 DEF CommitInv

LEMMA RecordCommits ==
  ASSUME Inv, Inv', CommitInv, NEW r \in Replicas, Record(r)
  PROVE  CommitInv'
<1> DEFINE w == runner[r].row
           n == Current(r)
<1>1. /\ runner[r].pc = "record" /\ runner'[r].pc = "loop"
      /\ runner'[r].left = runner[r].left \ {n}
      /\ \A q \in Replicas : q # r => runner'[q] = runner[q]
  <2>1. /\ runner' = [runner EXCEPT ![r].pc = "loop", ![r].left = @ \ {n}, ![r].row = NoRow]
        /\ runner \in [Replicas -> Runner] /\ runner[r].pc = "record"
    BY DEF Record, At, Inv, TypeOK
  <2>2. runner'[r] = [pc |-> "loop", left |-> runner[r].left \ {n}, row |-> NoRow]
    BY <2>1 DEF Runner
  <2> HIDE DEF n
  <2> QED
    BY <2>1, <2>2
<1>2. RowAt(r) /\ LoopDone(r)
  BY <1>1 DEF Inv, Relies
<1>3. /\ \A i \in RowIds : i # w => rows'[i] = rows[i]
      /\ w \in RowIds /\ rows[w] # NoRow /\ rows'[w] # NoRow /\ rows'[w].finished
      /\ rows'[w].migration = n /\ rows'[w].rolledBack = rows[w].rolledBack
      /\ ~rows[w].finished /\ rows[w].migration = n /\ n \in Migration
  <2>1. /\ w \in RowIds /\ rows[w] \in Row /\ ~rows[w].finished /\ rows[w].migration = n
        /\ n \in Migration
    BY <1>2 DEF RowAt, LoopDone, Current, Inv, TypeOK, Stored
  <2>2. rows' = [rows EXCEPT ![w].finished = TRUE] /\ rows \in [RowIds -> Row \union {NoRow}]
    BY DEF Record, Inv, TypeOK
  <2> HIDE DEF w, n
  <2>3. /\ \A i \in RowIds : i # w => rows'[i] = rows[i]
        /\ rows'[w] = [rows[w] EXCEPT !.finished = TRUE]
    BY <2>1, <2>2
  <2>4. rows'[w] \in Row
    BY <2>1, <2>3 DEF Row
  <2> QED
    BY <2>1, <2>3, <2>4 DEF Row
<1> HIDE DEF w
<1>4. /\ AppliedNames \subseteq AppliedNames'
      /\ AppliedNames' \subseteq AppliedNames \union {n}
      /\ ~rows[w].rolledBack => n \in AppliedNames'
  <2> HIDE DEF n
  <2> QED
    BY <1>3 DEF AppliedNames, Stored
<1>5. LeftUnapplied(r)'
  BY <1>1, <1>4 DEF LeftUnapplied, CommitInv
<1>6. \A q \in Replicas : LeftUnapplied(q)'
  BY <1>1, <1>5, OnlyTheHolderCounts DEF Holding
<1>7. ASSUME NEW m \in Migration PROVE Balanced(m)'
  <2>1. ~Wasted(m)' /\ (Held(m) => Held(m)')
    BY <1>1, <1>4, OnlyTheHolderCounts DEF Holding, WastedBy, HeldBy, At, w
  <2>2. Marking(m)' => Marking(m)
    BY <1>3 DEF Record, Marking, Inv, TypeOK
  <2>3. /\ commits'[m] = commits[m] /\ crashes <= crashes' /\ resolves <= resolves'
        /\ Balanced(m)
    BY DEF Record, Inv, TypeOK, CommitInv
  <2> QED
    BY <2>1, <2>2, <2>3, StaysBalanced DEF Inv
<1> QED
  BY <1>6, <1>7 DEF CommitInv

\* A crash pays for the commit that nobody records.
LEMMA CrashCommits ==
  ASSUME Inv, Inv', CommitInv, NEW r \in Replicas, Crash(r)
  PROVE  CommitInv'
<1>1. /\ runner'[r].pc = "off"
      /\ \A q \in Replicas : q # r => runner'[q] = runner[q]
  BY DEF Crash, Off, Inv, TypeOK
<1>2. AppliedNames' = AppliedNames
  BY DEF Crash, AppliedNames, Stored
<1>3. \A q \in Replicas : LeftUnapplied(q)'
  BY <1>1, <1>2 DEF LeftUnapplied, CommitInv
<1>4. crashes' = crashes + 1 /\ resolves' = resolves /\ crashes \in Nat /\ resolves \in Nat
  BY DEF Crash, Inv, TypeOK
<1>5. \A m \in Migration : (Marking(m)' <=> Marking(m)) /\ Balanced(m)
  BY DEF Crash, Marking, CommitInv
<1>6. \A q \in Replicas, m \in Migration : /\ WastedBy(q, m)' => WastedBy(q, m)
                                           /\ q # r => (HeldBy(q, m) => HeldBy(q, m)')
  BY <1>1 DEF Crash, WastedBy, HeldBy, At, Current
<1>7. \A m \in Migration : Wasted(m)' => Wasted(m)
  BY <1>6 DEF Wasted
<1>8. \A m \in Migration : /\ commits[m] \in Nat
                           /\ commits'[m] = commits[m] \/ commits'[m] = commits[m] + 1
  BY DEF Crash, Commit, Abort, Inv, TypeOK
<1>9. ASSUME NEW m \in Migration PROVE Balanced(m)'
  <2>1. CASE At(r, "apply")
    <3>1. Held(m) => Held(m)'
      BY <2>1, <1>2, <1>6 DEF Held, HeldBy, At
    <3> QED
      BY <3>1, <1>4, <1>5, <1>7, <1>8 DEF Balanced, Unit
  <2>2. CASE ~At(r, "apply")
    <3>1. commits'[m] = commits[m]
      BY <2>2 DEF Crash
    <3> QED
      BY <3>1, <1>4, <1>5, <1>7, <1>8 DEF Balanced, Unit
  <2> QED
    BY <2>1, <2>2
<1> QED
  BY <1>3, <1>9 DEF CommitInv

LEMMA AdminSelectsCommits ==
  ASSUME Inv, Inv', CommitInv, NEW i \in RowIds, AdminSelects(i)
  PROVE  CommitInv'
<1>1. AppliedNames' = AppliedNames /\ UNCHANGED <<rows, runner, commits, crashes>>
  BY DEF AdminSelects, AppliedNames, Stored
<1>2. \A q \in Replicas : LeftUnapplied(q)'
  BY <1>1 DEF LeftUnapplied, CommitInv
<1>3. ASSUME NEW m \in Migration PROVE Balanced(m)'
  <2>1. (Wasted(m)' <=> Wasted(m)) /\ (Held(m)' <=> Held(m))
    BY <1>1 DEF Wasted, WastedBy, Held, HeldBy, At, Current
  <2>2. ~Marking(m) /\ Balanced(m)
    BY DEF AdminSelects, Marking, CommitInv
  <2>3. /\ resolves' = resolves + 1 /\ resolves \in Nat /\ crashes \in Nat
        /\ commits[m] \in Nat
    BY DEF AdminSelects, Inv, TypeOK
  <2> QED
    BY <2>1, <2>2, <2>3, <1>1 DEF Balanced, Unit
<1> QED
  BY <1>2, <1>3 DEF CommitInv

\* The mark that the superadmin sets costs one commit: one that is still to come and
\* will not be recorded, or one that was held.
LEMMA AdminUpdatesCommits ==
  ASSUME Inv, Inv', CommitInv, AdminUpdates
  PROVE  CommitInv'
<1> DEFINE n == rows[admin].migration
<1>1. admin \in RowIds /\ rows[admin] # NoRow /\ admin # NoRow /\ admin' = NoRow
  BY DEF AdminUpdates, Inv, TypeOK, Data, AdminRowStored, Stored
<1>2. /\ \A i \in RowIds : i # admin => rows'[i] = rows[i]
      /\ rows'[admin] # NoRow /\ rows'[admin].migration = n
      /\ rows'[admin].finished = rows[admin].finished /\ rows'[admin].rolledBack
  <2>1. rows' = [rows EXCEPT ![admin] = [rows[admin] EXCEPT !.rolledBack = TRUE]]
    BY DEF AdminUpdates, RolledBack
  <2>2. rows \in [RowIds -> Row \union {NoRow}] /\ rows[admin] \in Row
    BY <1>1 DEF Inv, TypeOK
  <2>3. rows'[admin] = [rows[admin] EXCEPT !.rolledBack = TRUE]
    BY <1>1, <2>1, <2>2
  <2>4. rows'[admin] \in Row /\ rows'[admin].rolledBack
        /\ rows'[admin].migration = n /\ rows'[admin].finished = rows[admin].finished
    BY <2>2, <2>3 DEF Row
  <2>5. rows'[admin] # NoRow
    BY <2>4, RowAssumption
  <2> QED
    BY <2>1, <2>2, <2>4, <2>5
<1>3. UNCHANGED <<runner, commits, crashes, resolves>>
  BY DEF AdminUpdates
<1>4. AppliedNames' \subseteq AppliedNames
  BY <1>1, <1>2 DEF AppliedNames, Stored
<1>5. \A m \in Migration : m # n => (m \in AppliedNames => m \in AppliedNames')
  BY <1>1, <1>2 DEF AppliedNames, Stored
<1>6. ~rows[admin].finished => AppliedNames' = AppliedNames
  BY <1>1, <1>2 DEF AppliedNames, Stored
<1>7. \A q \in Replicas : LeftUnapplied(q)'
  BY <1>3, <1>4 DEF LeftUnapplied, CommitInv
<1>8. \A q \in Replicas : runner[q].pc \in {"apply", "record"} => RowAt(q)
  BY DEF Inv, Relies
<1>9. \A q \in Replicas :
          runner[q].pc \in {"apply", "record"} => Current(q)' = Current(q)
  BY <1>1, <1>2, <1>3, <1>8 DEF RowAt, Current
<1>10. ASSUME NEW m \in Migration PROVE Balanced(m)'
  <2>1. /\ ~Marking(m)' /\ Balanced(m) /\ (m = n => Marking(m))
        /\ commits[m] \in Nat /\ crashes \in Nat /\ resolves \in Nat
    BY <1>1 DEF Marking, CommitInv, Inv, TypeOK
  <2>2. CASE m # n
    <3>1. \A q \in Replicas : /\ WastedBy(q, m)' => WastedBy(q, m)
                              /\ HeldBy(q, m) => HeldBy(q, m)'
      BY <2>2, <1>2, <1>3, <1>8, <1>9 DEF WastedBy, HeldBy, At, RowAt, Current
    <3>2. (Wasted(m)' => Wasted(m)) /\ (Held(m) => Held(m)')
      BY <3>1, <2>2, <1>5 DEF Wasted, Held
    <3> QED
      BY <3>2, <2>1, <1>3 DEF Balanced, Unit
  <2>3. CASE m = n
    <3>1. CASE \E q \in Replicas : WastedBy(q, m)' /\ ~WastedBy(q, m)
      <4>1. PICK q \in Replicas : WastedBy(q, m)' /\ ~WastedBy(q, m)
        BY <3>1
      <4>2. runner[q].pc = "apply" /\ RowAt(q) /\ runner[q].row = admin
        BY <4>1, <1>2, <1>3, <1>8, <1>9 DEF WastedBy, At, RowAt
      <4>3. AppliedNames' = AppliedNames
        BY <4>2, <1>6 DEF RowAt
      <4>4. \A p \in Replicas : ~HeldBy(p, m)
        BY <4>2 DEF HeldBy, At, Inv, Relies, Holding
      <4>5. Held(m) => Held(m)'
        BY <4>3, <4>4 DEF Held
      <4> QED
        BY <4>5, <2>1, <2>3, <1>3 DEF Balanced, Unit
    <3>2. CASE ~ \E q \in Replicas : WastedBy(q, m)' /\ ~WastedBy(q, m)
      <4>1. Wasted(m)' => Wasted(m)
        BY <3>2 DEF Wasted
      <4> QED
        BY <4>1, <2>1, <2>3, <1>3 DEF Balanced, Unit
    <3> QED
      BY <3>1, <3>2
  <2> QED
    BY <2>2, <2>3
<1> QED
  BY <1>7, <1>10 DEF CommitInv

\* The SQL of a migration is committed once, and once more at most for every crash
\* and every row a superadmin resolves, however many replicas start together.
THEOREM CommittedOnceOrPaidFor == Spec => []CommittedOnce
<1>1. Inv /\ CommitInv => CommittedOnce
  <2> SUFFICES ASSUME Inv, CommitInv, NEW m \in Migration
               PROVE  commits[m] <= 1 + crashes + resolves
    BY DEF CommittedOnce
  <2>1. commits[m] \in Nat /\ crashes \in Nat /\ resolves \in Nat /\ Balanced(m)
    BY DEF Inv, TypeOK, CommitInv
  <2> QED
    BY <2>1 DEF Balanced, Unit
<1>2. Inv /\ Inv' /\ CommitInv /\ [Next]_vars => CommitInv'
  <2> SUFFICES ASSUME Inv, Inv', CommitInv, [Next]_vars PROVE CommitInv'
    OBVIOUS
  <2> QED
    BY QuietCommits, ResolveCommits, ReadCommits, InsertCommits, ApplyCommits,
       ApplyFailsCommits, RecordCommits, CrashCommits, AdminSelectsCommits,
       AdminUpdatesCommits
    DEF Next, Run
<1> QED
  BY <1>1, <1>2, CommitInvInit, InvIsInductive, PTL DEF Spec

-----------------------------------------------------------------------------
(* Migrations implements OrderedSchema *)

\* The SQL of a migration is a step of OrderedSchema or changes nothing.
LEMMA SqlGrows ==
  ASSUME Inv, NEW r \in Replicas, At(r, "apply"),
         Commit(Current(r)) \/ Abort(Current(r))
  PROVE  Ordered!Grow \/ UNCHANGED changes
<1> DEFINE m == Current(r)
<1>1. RowAt(r) /\ LoopDone(r)
  BY DEF Inv, Relies, At
<1>2. m \in 1..Latest[r] /\ Latest[r] \in 0..N /\ m \in 1..N
  BY <1>1 DEF RowAt, LoopDone
<1>3. Ordered!Complete(m - 1)
  <2> SUFFICES ASSUME NEW k \in 1..(m - 1) PROVE changes[k] = "all"
    BY DEF Ordered!Complete
  <2>1. k \in 1..Latest[r]
    BY <1>2
  <2>2. k \notin runner[r].left
    BY <1>1, <1>2 DEF RowAt
  <2> QED
    BY <2>1, <2>2, <1>1 DEF LoopDone
<1>4. changes \in [1..N -> Amount]
  BY DEF Inv, TypeOK
<1>5. CASE changes' = [changes EXCEPT ![m] = "all"]
  <2>1. CASE changes[m] = "all"
    <3>1. changes' = changes
      BY <1>2, <1>4, <1>5, <2>1
    <3> QED
      BY <3>1
  <2>2. CASE changes[m] # "all"
    BY <1>2, <1>3, <1>5, <2>2 DEF Ordered!Grow
  <2> QED
    BY <2>1, <2>2
<1>6. CASE changes[m] = "none" /\ changes' = [changes EXCEPT ![m] = "part"]
  BY <1>2, <1>3, <1>6 DEF Ordered!Grow
<1>7. CASE changes' = changes
  BY <1>7
<1> QED
  BY <1>5, <1>6, <1>7 DEF Commit, Abort

\* Every step of the replicas and the superadmin is a step of OrderedSchema, or
\* changes neither the schema nor who serves.
LEMMA StepImplements ==
  ASSUME Inv, [Next]_vars
  PROVE  [Ordered!Next]_Ordered!vars
<1>1. ASSUME NEW r \in Replicas, Apply(r) \/ ApplyFails(r)
      PROVE  Ordered!Next \/ UNCHANGED Ordered!vars
  <2>1. Ordered!Grow \/ UNCHANGED changes
    BY <1>1, SqlGrows DEF Apply, ApplyFails
  <2> QED
    BY <2>1, <1>1 DEF Apply, ApplyFails, Ordered!Next, Ordered!vars
<1>2. ASSUME NEW r \in Replicas, Finish(r)
      PROVE  Ordered!Next
  <2>1. Ordered!Complete(Latest[r])
    BY <1>2 DEF Finish, At, Inv, Relies, LoopDone, Ordered!Complete
  <2>2. Ordered!Serve /\ UNCHANGED changes
    BY <2>1, <1>2 DEF Finish, Ordered!Serve
  <2> QED
    BY <2>2 DEF Ordered!Next
<1>3. ASSUME NEW r \in Replicas, Crash(r)
      PROVE  Ordered!Next \/ UNCHANGED Ordered!vars
  <2>1. Ordered!Leave \/ UNCHANGED serving
    <3>1. serving' = serving \ {r}
      BY <1>3 DEF Crash
    <3>2. CASE r \in serving
      BY <3>1, <3>2 DEF Ordered!Leave
    <3>3. CASE r \notin serving
      BY <3>1, <3>3
    <3> QED
      BY <3>2, <3>3
  <2>2. Ordered!Grow \/ UNCHANGED changes
    BY <1>3, SqlGrows DEF Crash
  <2> QED
    BY <2>1, <2>2 DEF Ordered!Next, Ordered!vars
<1>4. ASSUME \/ \E r \in Replicas :
                    \/ Start(r) \/ Lock(r) \/ Resolve(r) \/ Read(r) \/ Record(r)
                    \/ \E m \in Migration : Insert(r, m)
             \/ \E i \in RowIds : AdminSelects(i)
             \/ AdminUpdates \/ UNCHANGED vars
      PROVE  UNCHANGED Ordered!vars
  BY <1>4 DEF Start, Lock, Resolve, Read, Record, Insert, AdminSelects, AdminUpdates,
              vars, Ordered!vars
<1> QED
  BY <1>1, <1>2, <1>3, <1>4 DEF Next, Run

\* Replicas that migrate at startup implement OrderedSchema, however many they are
\* and whatever fails.
THEOREM Implements == Spec => ImplementsOrderedSchema
<1>1. Init => Ordered!Init
  BY DEF Init, Ordered!Init
<1>2. Inv /\ [Next]_vars => [Ordered!Next]_Ordered!vars
  BY StepImplements
<1> QED
  BY <1>1, <1>2, InvIsInductive, PTL DEF Spec, ImplementsOrderedSchema, Ordered!Spec
=============================================================================
