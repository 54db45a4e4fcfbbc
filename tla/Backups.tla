-------------------------------- MODULE Backups --------------------------------
(***************************************************************************)
(* Backups: the job createBackup, which the crontab and superadmins queue, *)
(* the records it keeps in the database, the dumps it uploads to S3, the   *)
(* retention it applies after each backup, and the superadmin who deletes  *)
(* backups meanwhile.  Up to five jobs run at one time.                    *)
(*                                                                         *)
(* A dump is named by the second its run began in: that second is its key  *)
(* in S3 and its file in the worker's directory of temporary files.        *)
(***************************************************************************)
EXTENDS Naturals

CONSTANTS
    Ids,        \* bound: ids of backup records
    Jobs,       \* bound: createBackup jobs that can be in the queue at one time
    Configs,    \* bound: the configurations a superadmin chooses from
    MaxTime,    \* bound of the clock, in seconds
    MaxFaults,  \* bound on failing statements, commands and worker crashes
    NoRecord,   \* the payload of a job that the crontab queued
    Queued      \* s3Key of a record whose run has not begun

ASSUME ConstantsAssumption ==
    /\ MaxTime \in Nat /\ MaxFaults \in Nat
    /\ Configs # {}
    /\ Configs \subseteq [enabled : BOOLEAN, interval : Nat, retention : Nat]
    /\ NoRecord \notin Ids /\ Queued \notin Nat

Seconds == 0..MaxTime
Names == Seconds \union {Queued}

VARIABLES
    now,
    config,     \* backup_config
    records,    \* backup_records
    objects,    \* keys of the objects in the bucket
    files,      \* dumps in the worker's directory
    jobs,       \* createBackup jobs and what each run has in hand
    asked,      \* triggerBackup calls between their INSERT and addJob
    deletion,   \* a deleteBackup call and its transaction
    runsAt,     \* ghost: the number of runs that began in each second, up to 2
    crossed,    \* ghost: keys whose removal was broken off or not obeyed, or
                \* that were uploaded while it went on
    faults

vars == <<now, config, records, objects, files, jobs, asked, deletion,
          runsAt, crossed, faults>>
ghosts == <<runsAt, crossed>>
setting == <<now, config>>

-----------------------------------------------------------------------------
(* Records *)

Live(i) == records[i].status \notin {"unused", "deleted"}

\* A row that deleteBackup has deleted and not committed cannot be written.
Locked(i) == deletion.pc \in {"object", "commit"} /\ deletion.id = i

Written(i, record) ==
    records' = [records EXCEPT ![i] = IF Live(i) THEN record ELSE @]

\* updateBackupRecord: nothing happens when the row is gone.
Update(i, status) == ~Locked(i) /\ Written(i, [records[i] EXCEPT !.status = status])

Finish(i, status) ==
    ~Locked(i) /\ Written(i, [records[i] EXCEPT !.status = status, !.completedAt = now])

Completed(i) == records[i].status = "completed"

\* shouldRunScheduledBackup
Due ==
    config.enabled /\ \A i \in Ids : Completed(i) => now - records[i].completedAt >= config.interval

\* Mutant of Expired: the cutoff is left out.
ExpiredAtOnce(i, retention) == Completed(i)

Expired(i, retention) == Completed(i) /\ records[i].completedAt + retention < now

-----------------------------------------------------------------------------
(* triggerBackup and the crontab *)

TriggerBackup(i) ==
    /\ records[i].status = "unused"
    /\ records' = [records EXCEPT ![i].status = "pending"]
    /\ asked' = asked \union {i}
    /\ UNCHANGED <<setting, objects, files, jobs, deletion, ghosts, faults>>

NoJob == [pc |-> "none", payload |-> NoRecord, id |-> NoRecord, key |-> Queued, expired |-> {}]
NewJob(payload) == [NoJob EXCEPT !.pc = "queued", !.payload = payload]

Add(j, payload) ==
    /\ jobs[j].pc = "none"
    /\ jobs' = [jobs EXCEPT ![j] = NewJob(payload)]

ScheduleBackup(i, j) ==
    /\ i \in asked
    /\ Add(j, i)
    /\ asked' = asked \ {i}
    /\ UNCHANGED <<setting, records, objects, files, deletion, ghosts, faults>>

\* The record stays and reads pending.
ScheduleFails(i) ==
    /\ i \in asked
    /\ faults < MaxFaults /\ faults' = faults + 1
    /\ asked' = asked \ {i}
    /\ UNCHANGED <<setting, records, objects, files, jobs, deletion, ghosts>>

\* Every hour, and when the worker starts once for every hour that it missed:
\* there can be several at one time.
CronFires(j) ==
    /\ Add(j, NoRecord)
    /\ UNCHANGED <<setting, records, objects, files, asked, deletion, ghosts, faults>>

UpdateBackupConfig(c) ==
    /\ config # c
    /\ config' = c
    /\ UNCHANGED <<now, records, objects, files, jobs, asked, deletion, ghosts, faults>>

-----------------------------------------------------------------------------
(* createBackup *)

Goto(j, pc) == jobs' = [jobs EXCEPT ![j].pc = pc]

Skip(j) ==
    /\ jobs[j].pc = "queued" /\ jobs[j].payload = NoRecord /\ ~Due
    /\ jobs' = [jobs EXCEPT ![j] = NoJob]
    /\ UNCHANGED <<setting, records, objects, files, asked, deletion, ghosts, faults>>

Start(j) ==
    /\ jobs[j].pc = "queued"
    /\ jobs[j].payload = NoRecord => Due
    /\ jobs' = [jobs EXCEPT ![j].pc = "upsert", ![j].key = now, ![j].expired = {}]
    /\ runsAt' = [runsAt EXCEPT ![now] = IF @ = 0 THEN 1 ELSE 2]
    /\ UNCHANGED <<setting, records, objects, files, asked, deletion, crossed, faults>>

\* Mutant of RecordFor: a run that is given a record makes one nevertheless.
AlwaysNewRecord(j) == {i \in Ids : records[i].status = "unused"}

\* upsertBackupRecordForRun: the record of the payload, or a new one.
RecordFor(j) ==
    IF jobs[j].payload = NoRecord THEN {i \in Ids : records[i].status = "unused"}
                                  ELSE {jobs[j].payload}

UpsertRecord(j) ==
    /\ jobs[j].pc = "upsert"
    /\ \E i \in RecordFor(j) :
        /\ ~Locked(i)
        /\ records' = [records EXCEPT ![i] =
             IF @.status = "unused" THEN [@ EXCEPT !.status = "pending", !.key = jobs[j].key]
             ELSE IF Live(i) THEN [@ EXCEPT !.key = jobs[j].key] ELSE @]
        /\ jobs' = [jobs EXCEPT ![j].pc = "mark", ![j].id = i]
    /\ UNCHANGED <<setting, objects, files, asked, deletion, ghosts, faults>>

\* This statement is outside of the try block: nothing is noted or tidied up.
UpsertFails(j) ==
    /\ jobs[j].pc = "upsert"
    /\ faults < MaxFaults /\ faults' = faults + 1
    /\ Goto(j, "queued")
    /\ UNCHANGED <<setting, records, objects, files, asked, deletion, ghosts>>

MarkInProgress(j) ==
    /\ jobs[j].pc = "mark"
    /\ Update(jobs[j].id, "in_progress")
    /\ Goto(j, "dump")
    /\ UNCHANGED <<setting, objects, files, asked, deletion, ghosts, faults>>

Dump(j) ==
    /\ jobs[j].pc = "dump"
    /\ files' = files \union {jobs[j].key}
    /\ Goto(j, "upload")
    /\ UNCHANGED <<setting, records, objects, asked, deletion, ghosts, faults>>

\* Whether a deletion of the record goes on that has read another key or that
\* has possibly removed the object already.
BeingDeleted(id, key) ==
    \/ deletion.id = id /\ (Locked(id) \/ deletion.key # key)
    \/ \E j \in Jobs : jobs[j].pc \in {"objects", "rows"} /\ id \in {p[1] : p \in jobs[j].expired}

\* stat fails when another run of the same second has removed the file.
Upload(j) ==
    /\ jobs[j].pc = "upload"
    /\ IF jobs[j].key \in files
       THEN /\ objects' = objects \union {jobs[j].key}
            /\ crossed' = IF BeingDeleted(jobs[j].id, jobs[j].key)
                          THEN crossed \union {jobs[j].key} ELSE crossed
            /\ Goto(j, "complete")
       ELSE /\ UNCHANGED <<objects, crossed>>
            /\ Goto(j, "catch")
    /\ UNCHANGED <<setting, records, files, asked, deletion, runsAt, faults>>

MarkCompleted(j) ==
    /\ jobs[j].pc = "complete"
    /\ Finish(jobs[j].id, "completed")
    /\ Goto(j, "expire")
    /\ UNCHANGED <<setting, objects, files, asked, deletion, ghosts, faults>>

\* cleanupExpiredBackups: what has expired is read, removed from the bucket,
\* and removed from the table.
SelectExpired(j) ==
    /\ jobs[j].pc = "expire"
    /\ LET ids == {i \in Ids : Expired(i, config.retention)}
       IN jobs' = [jobs EXCEPT ![j].expired = {<<i, records[i].key>> : i \in ids},
                               ![j].pc = IF ids = {} THEN "end" ELSE "objects"]
    /\ UNCHANGED <<setting, records, objects, files, asked, deletion, ghosts, faults>>

ExpiredKeys(j) == {p[2] : p \in jobs[j].expired}

DeleteObjects(j) ==
    /\ jobs[j].pc = "objects"
    /\ objects' = objects \ ExpiredKeys(j)
    /\ Goto(j, "rows")
    /\ UNCHANGED <<setting, records, files, asked, deletion, ghosts, faults>>

\* S3 answers errors of single keys with success; nobody reads them.
SomeNotDeleted(j) ==
    /\ jobs[j].pc = "objects"
    /\ faults < MaxFaults /\ faults' = faults + 1
    /\ \E kept \in SUBSET ExpiredKeys(j) :
        /\ kept # {}
        /\ objects' = objects \ (ExpiredKeys(j) \ kept)
        /\ crossed' = crossed \union kept
    /\ Goto(j, "rows")
    /\ UNCHANGED <<setting, records, files, asked, deletion, runsAt>>

DeleteRows(j) ==
    /\ jobs[j].pc = "rows"
    /\ LET ids == {p[1] : p \in jobs[j].expired}
       IN /\ \A i \in ids : ~Locked(i)
          /\ records' = [i \in Ids |-> IF i \in ids THEN [records[i] EXCEPT !.status = "deleted"]
                                                    ELSE records[i]]
    /\ Goto(j, "end")
    /\ UNCHANGED <<setting, objects, files, asked, deletion, ghosts, faults>>

Trying(j) ==
    jobs[j].pc \in {"mark", "dump", "upload", "complete", "expire", "objects", "rows"}

\* A cleanup that stops before the rows are deleted may have removed objects.
Cut(j) == IF jobs[j].pc \in {"objects", "rows"} THEN ExpiredKeys(j) ELSE {}

\* A step of the try block fails; a command to S3 may have been obeyed.
StepFails(j) ==
    /\ Trying(j)
    /\ faults < MaxFaults /\ faults' = faults + 1
    /\ objects' \in IF jobs[j].pc = "objects" THEN {objects \ gone : gone \in SUBSET Cut(j)}
                                              ELSE {objects}
    /\ crossed' = crossed \union Cut(j)
    /\ Goto(j, "catch")
    /\ UNCHANGED <<setting, records, files, asked, deletion, runsAt>>

MarkFailed(j) ==
    /\ jobs[j].pc = "catch"
    /\ Finish(jobs[j].id, "failed")
    /\ Goto(j, "rethrow")
    /\ UNCHANGED <<setting, objects, files, asked, deletion, ghosts, faults>>

MarkFailedFails(j) ==
    /\ jobs[j].pc = "catch"
    /\ faults < MaxFaults /\ faults' = faults + 1
    /\ Goto(j, "rethrow")
    /\ UNCHANGED <<setting, records, objects, files, asked, deletion, ghosts>>

\* Mutant of AfterRun: the error is not thrown again.
NeverRetried(job) == NoJob

\* The queue runs a job that has thrown once more.
AfterRun(job) == IF job.pc = "rethrow" THEN [job EXCEPT !.pc = "queued"] ELSE NoJob

\* Mutant of Unlinked: the file stays when the job failed.
UnlinkedOnSuccess(job) == IF job.pc = "end" THEN {job.key} ELSE {}

Unlinked(job) == {job.key}

\* finally
Unlink(j) ==
    /\ jobs[j].pc \in {"end", "rethrow"}
    /\ files' = files \ Unlinked(jobs[j])
    /\ jobs' = [jobs EXCEPT ![j] = AfterRun(@)]
    /\ UNCHANGED <<setting, records, objects, asked, deletion, ghosts, faults>>

Running(j) == jobs[j].pc \notin {"none", "queued"}

\* The worker dies with all that it runs and its container's files, and the
\* jobs are run again.
Crash ==
    /\ \E j \in Jobs : Running(j)
    /\ faults < MaxFaults /\ faults' = faults + 1
    /\ jobs' = [j \in Jobs |-> IF Running(j) THEN [jobs[j] EXCEPT !.pc = "queued"] ELSE jobs[j]]
    /\ crossed' = crossed \union UNION {Cut(j) : j \in Jobs}
    /\ files' = {}
    /\ UNCHANGED <<setting, records, objects, asked, deletion, runsAt>>

-----------------------------------------------------------------------------
(* deleteBackup *)

NoDeletion == [pc |-> "idle", id |-> NoRecord, key |-> Queued]
GotoDeletion(pc) == deletion' = [deletion EXCEPT !.pc = pc]

DeleteBackup(i) ==
    /\ deletion.pc = "idle"
    /\ Live(i)
    /\ deletion' = [pc |-> "row", id |-> i, key |-> records[i].key]
    /\ UNCHANGED <<setting, records, objects, files, jobs, asked, ghosts, faults>>

DeleteRow ==
    /\ deletion.pc = "row"
    /\ GotoDeletion("object")
    /\ UNCHANGED <<setting, records, objects, files, jobs, asked, ghosts, faults>>

\* Mutant of ObjectOf: the object is left to itself.
RowOnly(key) == {}

ObjectOf(key) == {key} \ {Queued}

DeleteObject ==
    /\ deletion.pc = "object"
    /\ objects' = objects \ ObjectOf(deletion.key)
    /\ GotoDeletion("commit")
    /\ UNCHANGED <<setting, records, files, jobs, asked, ghosts, faults>>

DeleteCommits ==
    /\ deletion.pc = "commit"
    /\ records' = [records EXCEPT ![deletion.id].status = "deleted"]
    /\ deletion' = NoDeletion
    /\ UNCHANGED <<setting, objects, files, jobs, asked, ghosts, faults>>

\* The command to S3 may have been obeyed; the row is back.
DeleteFails ==
    /\ deletion.pc # "idle"
    /\ faults < MaxFaults /\ faults' = faults + 1
    /\ objects' \in IF deletion.pc = "object" THEN {objects, objects \ ObjectOf(deletion.key)}
                                              ELSE {objects}
    /\ crossed' = IF deletion.pc = "row" THEN crossed
                  ELSE crossed \union ObjectOf(deletion.key)
    /\ deletion' = NoDeletion
    /\ UNCHANGED <<setting, records, files, jobs, asked, runsAt>>

-----------------------------------------------------------------------------
(* The specification *)

Tick ==
    /\ now < MaxTime
    /\ now' = now + 1
    /\ UNCHANGED <<config, records, objects, files, jobs, asked, deletion, ghosts, faults>>

Init ==
    /\ now = 0
    /\ config \in Configs
    /\ records = [i \in Ids |-> [status |-> "unused", key |-> Queued, completedAt |-> 0]]
    /\ objects = {}
    /\ files = {}
    /\ jobs = [j \in Jobs |-> NoJob]
    /\ asked = {}
    /\ deletion = NoDeletion
    /\ runsAt = [t \in Seconds |-> 0]
    /\ crossed = {}
    /\ faults = 0

JobStep(j) ==
    \/ Skip(j) \/ Start(j) \/ UpsertRecord(j) \/ MarkInProgress(j) \/ Dump(j) \/ Upload(j)
    \/ MarkCompleted(j) \/ SelectExpired(j) \/ DeleteObjects(j) \/ DeleteRows(j)
    \/ MarkFailed(j) \/ Unlink(j)

JobFault(j) ==
    UpsertFails(j) \/ SomeNotDeleted(j) \/ StepFails(j) \/ MarkFailedFails(j)

DeletionStep == DeleteRow \/ DeleteObject \/ DeleteCommits

Next ==
    \/ Tick
    \/ \E c \in Configs : UpdateBackupConfig(c)
    \/ \E i \in Ids :
        \/ TriggerBackup(i) \/ ScheduleFails(i) \/ DeleteBackup(i)
        \/ \E j \in Jobs : ScheduleBackup(i, j)
    \/ \E j \in Jobs : CronFires(j) \/ JobStep(j) \/ JobFault(j)
    \/ DeletionStep \/ DeleteFails
    \/ Crash

Spec == Init /\ [][Next]_vars

\* The worker goes on with its jobs and the web server with its transaction.
FairSpec ==
    /\ Spec
    /\ \A j \in Jobs : WF_vars(JobStep(j))
    /\ WF_vars(DeletionStep)

-----------------------------------------------------------------------------
(* Properties *)

Record == [status : {"unused", "pending", "in_progress", "completed", "failed", "deleted"},
           key : Names, completedAt : Seconds]

Job == [pc : {"none", "queued", "upsert", "mark", "dump", "upload", "complete", "expire",
              "objects", "rows", "end", "catch", "rethrow"},
        payload : Ids \union {NoRecord}, id : Ids \union {NoRecord}, key : Names,
        expired : SUBSET (Ids \X Names)]

Deletion == [pc : {"idle", "row", "object", "commit"}, id : Ids \union {NoRecord}, key : Names]

\* Type invariant: the parts of the state; every dump in the worker's
\* directory is that of a run which goes on.
TypeOK ==
    /\ now \in Seconds /\ config \in Configs /\ faults \in 0..MaxFaults
    /\ records \in [Ids -> Record]
    /\ objects \subseteq Seconds /\ crossed \subseteq Seconds
    /\ jobs \in [Jobs -> Job]
    /\ asked \subseteq Ids
    /\ deletion \in Deletion
    /\ runsAt \in [Seconds -> 0..2]
    /\ files \subseteq {jobs[j].key : j \in {r \in Jobs : Running(r)}}

\* Two runs that began in one second share the object and the file.
Shared(key) == key # Queued /\ runsAt[key] = 2

\* A run of the record's job has begun again, or will: the record has, or is
\* about to have, the name of an object that is not there yet.
RunsAgain(i) ==
    \E j \in Jobs : /\ jobs[j].payload = i
                    /\ jobs[j].pc \in {"queued", "upsert", "mark", "catch", "rethrow"}

\* A backup that reads completed can be restored: its object is in the bucket.
\* It is not only while the backup is being deleted, by a superadmin or by a
\* cleanup after the shortest retention that anyone has chosen, when that was
\* broken off, while its run begins anew, or when two runs began in one second.
CompletedIsStored ==
    \A i \in Ids : Completed(i) =>
        LET key == records[i].key
        IN  \/ key \in objects
            \/ key \in crossed
            \/ Shared(key)
            \/ deletion = [pc |-> "commit", id |-> i, key |-> key]
            \/ \E j \in Jobs : /\ jobs[j].pc = "rows" /\ <<i, key>> \in jobs[j].expired
                               /\ \E c \in Configs : records[i].completedAt + c.retention < now
            \/ RunsAgain(i)

Named(key) == \E i \in Ids : Live(i) /\ records[i].key = key

\* The run of a record begins anew and gives it a new name.
Renames(key) ==
    \E i \in Ids : records[i].key = key /\ records'[i].key # key

\* No backup is forgotten in the bucket: an object that a record names is
\* named by one until it is removed.  Excepted are those whose removal was
\* broken off, not obeyed, or crossed by the upload, those that two runs of
\* one second share, and those whose record got a new name from a second run
\* of its job.
NoObjectForgotten ==
    [][\A key \in objects \intersect objects' :
         Named(key) =>
             \/ Named(key)'
             \/ key \in crossed \/ Shared(key) \/ Renames(key)]_vars

\* A backup that a superadmin asked for, and that was queued, is completed in
\* the end, or deleted, whatever fails on the way; unless another run began in
\* the same second and takes away its file.
AskedIsDone ==
    \A i \in Ids :
        (\E j \in Jobs : jobs[j].pc = "queued" /\ jobs[j].payload = i)
            ~> \/ records[i].status \in {"completed", "deleted"}
               \/ Shared(records[i].key)
=============================================================================
