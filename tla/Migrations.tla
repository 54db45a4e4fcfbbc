----------------------------- MODULE Migrations -----------------------------
(***************************************************************************)
(* Database migrations at startup.  Every core replica runs runMigrations  *)
(* before it serves; an advisory lock of PostgreSQL keeps the replicas     *)
(* from doing so at the same time.  A superadmin can run it again, or mark *)
(* a failed migration as resolved, on a replica that serves.               *)
(*                                                                         *)
(* A step of a replica is one statement; PostgreSQL releases the lock when *)
(* the session of its holder ends.                                         *)
(***************************************************************************)
EXTENDS Naturals

CONSTANTS
    Replicas,
    N,              \* the migrations are 1..N, in the order of their names
    Latest,         \* the last migration each replica's image contains
    RowIds,         \* ids of rows of _prisma_migrations
    Idempotent,     \* migrations whose SQL can be applied twice
    Splits,         \* migrations whose SQL contains a COMMIT of its own
    Free, NoRow,
    MaxCrashes,     \* bound: crashes of replicas
    MaxFailures,    \* bound: migrations that fail although nothing prevents them
    MaxResolves     \* bound: "Mark as resolved" clicks of a superadmin

ASSUME ConstantsAssumption ==
    /\ N \in Nat
    /\ Latest \in [Replicas -> 0..N]
    /\ Idempotent \subseteq 1..N /\ Splits \subseteq 1..N
    /\ Free \notin Replicas /\ NoRow \notin RowIds
    /\ MaxCrashes \in Nat /\ MaxFailures \in Nat /\ MaxResolves \in Nat

VARIABLES
    lock,       \* holder of the advisory lock
    rows,       \* _prisma_migrations
    changes,    \* how much of each migration's SQL the schema contains
    runner,     \* where each replica is in runMigrations
    serving,    \* replicas that have started
    admin,      \* the row a superadmin is about to mark as rolled back
    commits,    \* history: how often each migration's SQL was committed
    crashes, failures, resolves

vars == <<lock, rows, changes, runner, serving, admin, commits,
          crashes, failures, resolves>>

-----------------------------------------------------------------------------
(* The table _prisma_migrations and the schema *)

Migration == 1..N

Row == [migration : Migration, finished : BOOLEAN, rolledBack : BOOLEAN]

ASSUME RowAssumption == NoRow \notin Row

Amount == {"none", "part", "all"}

Stored(i) == rows[i] # NoRow

Failed(i) == Stored(i) /\ ~rows[i].finished /\ ~rows[i].rolledBack

\* finished_at is not null and rolled_back_at is null
AppliedNames ==
    {m \in Migration : \E i \in RowIds :
        /\ Stored(i) /\ rows[i].migration = m
        /\ rows[i].finished /\ ~rows[i].rolledBack}

\* SQL that creates what exists fails.
Applicable(m) == changes[m] = "none" \/ m \in Idempotent

Commit(m) ==
    /\ Applicable(m)
    /\ changes' = [changes EXCEPT ![m] = "all"]
    /\ commits' = [commits EXCEPT ![m] = @ + 1]

\* The SQL is sent as one string, which PostgreSQL runs as one transaction as
\* far as the string does not commit by itself.
Abort(m) ==
    /\ \/ changes' = changes
       \/ /\ m \in Splits /\ changes[m] = "none"
          /\ changes' = [changes EXCEPT ![m] = "part"]
    /\ UNCHANGED commits

-----------------------------------------------------------------------------
(* runMigrations *)

Pc == {"off", "lock", "resolve", "read", "loop", "apply", "record"}

\* left: the directories the loop has not dealt with; row: the one it works on.
Runner == [pc : Pc, left : SUBSET Migration, row : RowIds \union {NoRow}]

Off == [pc |-> "off", left |-> {}, row |-> NoRow]

At(r, pc) == runner[r].pc = pc

Goto(r, pc) == runner' = [runner EXCEPT ![r].pc = pc]

\* register() of a starting replica, or retryMigrations on one that serves.
Start(r) ==
    /\ At(r, "off")
    /\ Goto(r, "lock")
    /\ UNCHANGED <<lock, rows, changes, serving, admin, commits,
                   crashes, failures, resolves>>

\* Mutant of Lock: the lock is tried for and the answer ignored.
LockTried(r) ==
    /\ At(r, "lock")
    /\ lock' = r
    /\ Goto(r, "resolve")
    /\ UNCHANGED <<rows, changes, serving, admin, commits, crashes,
                   failures, resolves>>

Lock(r) ==
    /\ At(r, "lock") /\ lock = Free
    /\ lock' = r
    /\ Goto(r, "resolve")
    /\ UNCHANGED <<rows, changes, serving, admin, commits, crashes,
                   failures, resolves>>

RolledBack(i) == [rows[i] EXCEPT !.rolledBack = TRUE]

\* autoResolveFailedMigrations
Resolve(r) ==
    /\ At(r, "resolve")
    /\ rows' = [i \in RowIds |-> IF Failed(i) THEN RolledBack(i) ELSE rows[i]]
    /\ Goto(r, "read")
    /\ UNCHANGED <<lock, changes, serving, admin, commits, crashes,
                   failures, resolves>>

\* Mutant of Read: the first directory is numbered zero.
ReadFromZero(r) ==
    /\ At(r, "read")
    /\ runner' = [runner EXCEPT ![r].pc = "loop",
                                ![r].left = (0..Latest[r]) \ AppliedNames]
    /\ UNCHANGED <<lock, rows, changes, serving, admin, commits, crashes,
                   failures, resolves>>

Read(r) ==
    /\ At(r, "read")
    /\ runner' = [runner EXCEPT ![r].pc = "loop",
                                ![r].left = (1..Latest[r]) \ AppliedNames]
    /\ UNCHANGED <<lock, rows, changes, serving, admin, commits, crashes,
                   failures, resolves>>

FreshRow == CHOOSE i \in RowIds : ~Stored(i)

\* Mutant of Insert: finished_at is set together with the row.
InsertFinished(r, m) ==
    /\ At(r, "loop")
    /\ m \in runner[r].left /\ \A k \in runner[r].left : m <= k
    /\ \E i \in RowIds : ~Stored(i)
    /\ rows' = [rows EXCEPT ![FreshRow] =
                  [migration |-> m, finished |-> TRUE, rolledBack |-> FALSE]]
    /\ runner' = [runner EXCEPT ![r].pc = "apply", ![r].row = FreshRow]
    /\ UNCHANGED <<lock, changes, serving, admin, commits, crashes,
                   failures, resolves>>

\* Mutant of Insert: the directories are not sorted.
InsertUnsorted(r, m) ==
    /\ At(r, "loop")
    /\ m \in runner[r].left
    /\ \E i \in RowIds : ~Stored(i)
    /\ rows' = [rows EXCEPT ![FreshRow] =
                  [migration |-> m, finished |-> FALSE, rolledBack |-> FALSE]]
    /\ runner' = [runner EXCEPT ![r].pc = "apply", ![r].row = FreshRow]
    /\ UNCHANGED <<lock, changes, serving, admin, commits, crashes,
                   failures, resolves>>

\* The first directory that is left: its row is inserted.
Insert(r, m) ==
    /\ At(r, "loop")
    /\ m \in runner[r].left /\ \A k \in runner[r].left : m <= k
    /\ \E i \in RowIds : ~Stored(i)
    /\ rows' = [rows EXCEPT ![FreshRow] =
                  [migration |-> m, finished |-> FALSE, rolledBack |-> FALSE]]
    /\ runner' = [runner EXCEPT ![r].pc = "apply", ![r].row = FreshRow]
    /\ UNCHANGED <<lock, changes, serving, admin, commits, crashes,
                   failures, resolves>>

Current(r) == rows[runner[r].row].migration

Apply(r) ==
    /\ At(r, "apply")
    /\ Commit(Current(r))
    /\ Goto(r, "record")
    /\ UNCHANGED <<lock, rows, serving, admin, crashes, failures, resolves>>

\* The holder's connection is closed, which ends its session.
Release(r) == lock' = IF lock = r THEN Free ELSE lock

\* The error is stored in the row's logs and thrown; a replica that does not
\* serve yet exits.
ApplyFails(r) ==
    /\ At(r, "apply")
    /\ Abort(Current(r))
    /\ Applicable(Current(r)) => failures < MaxFailures
    /\ failures' = IF Applicable(Current(r)) THEN failures + 1 ELSE failures
    /\ runner' = [runner EXCEPT ![r] = Off]
    /\ Release(r)
    /\ UNCHANGED <<rows, serving, admin, crashes, resolves>>

Record(r) ==
    /\ At(r, "record")
    /\ rows' = [rows EXCEPT ![runner[r].row].finished = TRUE]
    /\ runner' = [runner EXCEPT ![r].pc = "loop",
                                ![r].left = @ \ {Current(r)}, ![r].row = NoRow]
    /\ UNCHANGED <<lock, changes, serving, admin, commits, crashes,
                   failures, resolves>>

\* Mutant of Finish: the lock is kept.
FinishLocked(r) ==
    /\ At(r, "loop") /\ runner[r].left = {}
    /\ runner' = [runner EXCEPT ![r] = Off]
    /\ serving' = serving \union {r}
    /\ UNCHANGED <<lock, rows, changes, admin, commits, crashes, failures,
                   resolves>>

Finish(r) ==
    /\ At(r, "loop") /\ runner[r].left = {}
    /\ Release(r)
    /\ runner' = [runner EXCEPT ![r] = Off]
    /\ serving' = serving \union {r}
    /\ UNCHANGED <<rows, changes, admin, commits, crashes, failures,
                   resolves>>

\* The process dies; the server may or may not be through with the SQL it runs.
Crash(r) ==
    /\ ~At(r, "off") \/ r \in serving
    /\ crashes < MaxCrashes
    /\ crashes' = crashes + 1
    /\ IF At(r, "apply") THEN Commit(Current(r)) \/ Abort(Current(r))
                         ELSE UNCHANGED <<changes, commits>>
    /\ runner' = [runner EXCEPT ![r] = Off]
    /\ serving' = serving \ {r}
    /\ Release(r)
    /\ UNCHANGED <<rows, admin, failures, resolves>>

-----------------------------------------------------------------------------
(* The superadmin *)

\* resolveFailedMigration selects a row that looks failed, and one that is being
\* applied does; then it updates the row by its id.  It takes no lock.
AdminSelects(i) ==
    /\ serving # {} /\ admin = NoRow
    /\ resolves < MaxResolves
    /\ Failed(i)
    /\ admin' = i
    /\ resolves' = resolves + 1
    /\ UNCHANGED <<lock, rows, changes, runner, serving, commits, crashes,
                   failures>>

AdminUpdates ==
    /\ admin # NoRow
    /\ rows' = [rows EXCEPT ![admin] = RolledBack(admin)]
    /\ admin' = NoRow
    /\ UNCHANGED <<lock, changes, runner, serving, commits, crashes,
                   failures, resolves>>

-----------------------------------------------------------------------------

Init ==
    /\ lock = Free
    /\ rows = [i \in RowIds |-> NoRow]
    /\ changes = [m \in Migration |-> "none"]
    /\ runner = [r \in Replicas |-> Off]
    /\ serving = {}
    /\ admin = NoRow
    /\ commits = [m \in Migration |-> 0]
    /\ crashes = 0 /\ failures = 0 /\ resolves = 0

Run(r) ==
    \/ Resolve(r) \/ Read(r) \/ Apply(r) \/ ApplyFails(r) \/ Record(r) \/ Finish(r)
    \/ \E m \in Migration : Insert(r, m)

Next ==
    \/ \E r \in Replicas : Start(r) \/ Lock(r) \/ Run(r) \/ Crash(r)
    \/ \E i \in RowIds : AdminSelects(i)
    \/ AdminUpdates

Spec == Init /\ [][Next]_vars

\* Replicas that exit are started again, PostgreSQL queues who waits for a lock,
\* and a statement ends.
FairSpec ==
    /\ Spec
    /\ \A r \in Replicas :
          /\ WF_vars(Start(r) /\ r \notin serving)
          /\ SF_vars(Lock(r))
          /\ WF_vars(Run(r))

-----------------------------------------------------------------------------
(* Properties *)

\* Every variable holds values of its type.
TypeOK ==
    /\ lock \in Replicas \union {Free}
    /\ rows \in [RowIds -> Row \union {NoRow}]
    /\ changes \in [Migration -> Amount]
    /\ runner \in [Replicas -> Runner]
    /\ serving \subseteq Replicas
    /\ admin \in RowIds \union {NoRow}
    /\ commits \in [Migration -> Nat]
    /\ crashes \in Nat /\ failures \in Nat /\ resolves \in Nat

\* Whatever fails, crashes or is resolved by hand, the schema is what the first
\* migrations make of it: nothing is changed by a migration before all earlier
\* ones are in, also when replicas of different images start together.
SchemaInOrder ==
    \A m \in Migration : changes[m] # "none" => \A k \in 1..(m - 1) : changes[k] = "all"

\* A migration that is recorded as finished is in the schema.
FinishedMeansApplied ==
    \A i \in RowIds :
        (Stored(i) /\ rows[i].finished) => changes[rows[i].migration] = "all"

\* At most one row looks failed: the one being applied, or the one the last
\* attempt left behind.
OneFailedRow == \A i, j \in RowIds : Failed(i) /\ Failed(j) => i = j

\* A migration is committed once, and once more at most for every crash of a
\* replica and every row a superadmin marks as resolved.
CommittedOnce == \A m \in Migration : commits[m] <= 1 + crashes + resolves

\* A replica serves only on a schema with all migrations of its image, even if
\* another replica fails or crashes half way through them afterwards.
ServingHasSchema == \A r \in serving : \A m \in 1..Latest[r] : changes[m] = "all"

\* A migration that is in the schema, at least in part, but is not recorded as
\* applied and cannot be applied again.
Stuck ==
    \E m \in Migration : ~Applicable(m) /\ m \notin AppliedNames

\* Unless a migration gets stuck, all replicas come up.
ReplicasComeUp == <>[](serving = Replicas \/ Stuck)

\* What the replicas do is what OrderedSchema promises, although they crash, fail
\* and run into each other: every step is one of its steps or changes neither the
\* schema nor who serves.
Ordered == INSTANCE OrderedSchema WITH schema <- changes

ImplementsOrderedSchema == Ordered!Spec
=============================================================================
