# PubPub Platform in TLA+

PubPub Platform lets a community move its *pubs* through *stages* and attach
*automations* to the stages: when a pub enters, leaves or stays, when another
automation succeeds or fails, when a webhook is called or a user presses a
button, a list of *actions* (mail, move, HTTP, ...) is run. These modules model
the parts of the repository where that is done by several actors at once, check
them with TLC and prove part of the result with TLAPS.

## 1. The system

```
 browser, API, webhooks            packages/db: kysely types, schemas
          |                                   |
          v                                   v
   core (Next.js)  <---- HTTP ----  jobs (graphile worker, 5 slots)
     |   ^    \                           ^        |
     |   |     \  addJob / remove_job     | locks  | hourly createBackup
     v   |      v                         |        v
   PostgreSQL: tables, row triggers, graphile queue      S3, mail, data cache
```

`core` serves users and the API and owns the tables. Row triggers
(`core/prisma/consolidated-triggers.sql`) turn changes of `PubsInStages` and
`action_runs` into rows of the graphile queue. The `jobs` service takes jobs,
five at a time and in no particular order, and calls core's internal API for
each of them; `emitEvent` swallows every error, so a job is done however its
request ended. Core adds and removes *keyed, delayed* jobs of its own.

| Component | State it keeps | Operations | What makes it hard | What makes it correct |
|---|---|---|---|---|
| Delayed automations (`actions/_lib/scheduleAutomations.ts`, `runAutomation.ts`, `lib/server/jobs.ts`, stage triggers) | automation_runs, action_runs, keyed jobs | schedule, run, cancel | three services, jobs in any order, errors swallowed, jobs delivered twice, re-entry of a stage | one job per automation and pub; a stale job is being cancelled; one run per entry; a pub that stays is served |
| Automation chaining (`runAutomation.ts`, `compute_automation_run_status`, `build_automation_run_stack`) | the source of each run, RunAutomation events | start, refuse, finish, announce | circles, a stack rebuilt by the database, redelivery, runs without a pub | depth is bounded; followers match the outcome; circles come to rest |
| Automation configuration (`lib/server/automations.ts`, the stage editor) | automations, triggers and their sources | create, edit with cycle check, duplicate, remove | the check reads outside the saving transaction | only overlapping saves close a circle of several; edits fit the depth limit and are not refused without reason |
| Stages and moves (`stages.ts`, `pub-op.ts`, `actions/move`) | PubsInStages, move constraints | move, remove, duplicate | two concurrent moves, triggers per row | a pub is in one stage |
| Jobs worker (`jobs/src`) | the slots | pick, dispatch, finish | crash, redelivery | part of the above |
| Invites (`lib/server/invites`, `public/invite`) | invites, provisional users | create, send, accept, reject, sign up, complete | two tabs, stale reads, mail that fails | a completed invite is granted, a rejection is undone by earlier answers only, nobody is a member unasked |
| Memberships (`member.ts`, `Memberships/actions.ts`) | community, stage and pub memberships | upsert, remove | upserts against partial indexes, role merges | part of the invites |
| Authentication (`lib/authentication`, `token.ts`) | users, sessions, auth_tokens | log in, sign up, reset, magic link, setup | read-then-write in separate transactions | one setup; a reset ends old sessions |
| Migrations (`migrate.ts`, `instrumentation.ts`, `jobs/src/index.ts`) | _prisma_migrations, advisory lock | resolve, apply, record | replicas start together, crash between apply and record | every migration is applied once and in order |
| Backups (`createBackup.ts`, `backup-actions.ts`) | backup_records, S3 objects, dumps in the container | request, dump, upload, clean up, delete | hourly job against manual ones, retries, failures half way, two systems without a common transaction | a completed record has its object, an object has its record, what was asked for is done |
| Query cache (`lib/server/cache`, `cache-handler.mjs`, `maybeWithTrx.ts`) | values and tags in Redis | cached read, revalidating write, rollback, expiry | revalidation before commit, tags and values written apart, triggers | of the changes its tags name: nothing uncommitted is cached, a transaction sees its writes, only an overlap makes a value stale |
| Pub operations (`pub-op.ts`, `pub.ts`) | pubs, pub_values, PubsInStages | create, upsert, set a stage, relate, cut with or without orphans, delete | several statements of one transaction, each with a snapshot of its own; foreign keys that wait and cascade | no dangling row, one stage, the clean-up leaves no orphan and spares who is related from outside |
| Titles (`update_pub_for_value_changes`, `update_pub_title_for_pub_type`) | pubs.title, a temporary table | write values, change the title field of a type | triggers that read before they wait, a table that lives as long as the transaction | the title is the value of the title field |
| Conditions, capabilities, API tokens, JSONata, site builder, legacy migration, change notifications, UI | rows | - | sequential, pure or presentation | see PROJECT.json for why each is left out |

## 2. Plan

Order: the delayed automations first (most actors, most faults), then what
automations do to each other, then the people side, then operations.

1. `DelayedAutomation` + `DelayedRuns` (what it promises) + `MCDelayedAutomation` +
   `DelayedAutomation_proofs` - done
2. `ChainedAutomations` (what the next two share), `AutomationGraph` +
   `MCAutomationGraph` - done
3. `AutomationChain` + `RunForest` (what it promises) + `MCAutomationChain`, and
   `Automations_proofs` for the graph, the chain and the two together - done
4. `Migrations` + `OrderedSchema` (what it promises) + `MCMigrations` +
   `Migrations_proofs` - done
5. `QueryCache` + `MCQueryCache` + `QueryCache_proofs` - done
6. `Backups` + `MCBackups` + `Backups_proofs` - done
7. `PubOps` + `MCPubOps` + `PubOps_proofs`: what `PubStages` of the first plan was to be, with the
   relations and the clean-up of orphans - done
8. `PubTitles` + `MCPubTitles` + `PubTitles_proofs` - done
9. `Invites` + `MCInvites` + `Invites_proofs`, with the memberships they write -
   done
10. Open: `AuthTokens` (magic links, resets, sessions, the first setup).
11. Open: the jobs worker that waits for migrations, added to `Migrations`.

## 3. Modules and code

### DelayedAutomation

| Model | Code |
|---|---|
| `stage`, `MovePub`, `RemoveFromStage`, `MoveTo` | `movePub`, `PubOp.processStages`; the two row triggers on `PubsInStages` run in the same statement, so `ScheduleJobs` and `CancelJobs` are part of the action |
| `runs` | `automation_runs` with their `action_runs`; `StatusAfter`/`Aggregate` are the trigger `compute_automation_run_status`, which ignores a row whose status stays the same |
| `jobs`, `Pick`, `Done` | the graphile queue and the worker slots; a set, because nothing orders the jobs; a delayed job is due at any time |
| `JobKey`, `WithoutKey`, `Unkeyed` | `getScheduledAutomationJobKey` and what graphile does with a key that is replaced or removed: an unlocked job goes away, a locked one keeps running without key and retries |
| `ScheduleCheck`, `ScheduleRefused`, `ScheduleInsert`, `ScheduleArm` | `scheduleDelayedAutomation`, one step per database statement |
| `CancelScheduled` | `cancelScheduledAutomation`: the job is removed, the insert that should mark the run violates `automation_runs_input_check` and is rejected |
| `RunCheck`, `RunNotMet`, `RunCheckError`, `RunMark`, `RunAction`, `RunMove`, `RunFinish` | `runAutomation` of a scheduled run; whether a condition holds and how an action ends is nondeterministic |
| `CoreFault` | a request that dies or a statement that fails: `emitEvent` logs it and the job is done |
| `WorkerCrash` | the worker dies while core goes on; the job is delivered again unless its key was taken |

`executions`, `lost`, the `entry` of a run and the `late` of a job are history:
no guard reads them.

`DelayedRuns` is the abstract specification: pubs enter and leave stages; a run is
stored for an entry that has happened, is begun and ended once, and once more for every
crash that repeats a delivery, announces an outcome when it is a new one, and
succeeds only if its actions were started. It has neither jobs nor keys nor handlers.
`DelayedAutomation` implements it with `runs <- SeenRuns`, the stored runs without
their action runs, and `crashes <- workerCrashes` (`ImplementsDelayedRuns`). What
it says nothing of is what the other properties are about: which jobs wait, and for what.
It compares the stage for the latest entry of a pub only: where the pub went after an
earlier one is not kept.

### ChainedAutomations

The automations of a stage, `MAX_STACK_DEPTH` and sequences of automations that start each
other: what the configuration and the runs have in common. `AutomationGraph` and
`AutomationChain` extend it, so a theorem can be about both.

### AutomationGraph

`triggers` holds the chaining triggers, `request` the request each editor is in.
`Check` and `Store` are two actions because `wouldCreateCycle` runs before and
outside the transaction of `upsertAutomation`. `Create` has no check (the code
skips it for automations without id), `Duplicate` copies the triggers. `Edit` takes the
automation itself as a source, which only the form refuses: the check does not find it
(nothing is stored yet), and once it is stored it refuses any further edit that
names a source. Editors work at the same time. `overtaken` and `raced` are history: what
others have stored since the first check of a save, and which pairs of stored automations
came about that way.
`Paths` is what the breadth-first walk of `wouldCreateCycle` visits, as a set of
sequences, so that the module declares nothing recursive.

### AutomationChain

`Followers` is the end of `compute_automation_run_status`: an event for every
watcher, with a stack rebuilt by `build_automation_run_stack` (`RunStack`, whose
walk is described by what it returns: the longest linked sequence of at most
`WalkDepth + 1` runs). `RejectPayload` is the schema check of `emitEvent`,
`StackTooDeep` the check of `runAutomation`. `Request` stands for webhooks and
users, who start a run with an empty stack and perhaps on a json body.

`RunForest` is the abstract specification: the runs form a forest. A run without
a source is begun at any time; a run follows an ended run on a pub whose outcome its
automation watches, if the line of runs before it has room for one more; a run
that has ended keeps its outcome. There are no queue, no events, no stacks and no
faults. `AutomationChain` implements it (`ImplementsRunForest`), and that a circle
stops at the limit and that a follower matches what its source ended with
(`DepthBounded`, `FollowersMatchOutcome`) is part of it.

### Migrations

| Model | Code |
|---|---|
| `lock`, `Lock`, `Release` | the session lock of PostgreSQL that `runMigrations` takes on a pool of one connection; it is released by the unlock, by `db.destroy()` in `finally`, or when the process dies |
| `rows` | `_prisma_migrations`; `Failed` and `AppliedNames` are the two `where` clauses of the code |
| `changes` | how much of a migration's SQL is in the schema; `Splits` are migrations whose SQL commits by itself, as several of the repository do |
| `Resolve`, `Read`, `Insert`, `Apply`, `ApplyFails`, `Record`, `Finish` | `runMigrations`, one step per statement; `Resolve` joins the select and the updates of `autoResolveFailedMigrations`, of which there is at most one (`OneFailedRow`) |
| `Start` | `register()` of a replica, or `retryMigrations` on one that serves |
| `AdminSelects`, `AdminUpdates` | `resolveFailedMigration`, without lock |
| `Crash` | the death of a process; SQL it was running may still be committed, and only then is its lock free |

`OrderedSchema` is the abstract specification: the schema grows by one migration
at a time, a replica begins to serve only on the schema of its image. It has
neither lock nor records nor errors. `Migrations` implements it with `schema <-
changes` (`ImplementsOrderedSchema`).

`commits` is history. Migrations are numbered in the order of their names, and an
image contains a prefix of them (`Latest`).

### QueryCache

| Model | Code |
|---|---|
| `Ask`, `Bypasses`, `Read`, `Filling` | `autoCache` and `memoize`: a query outside of a transaction, or inside one that has changed none of its tables, goes to the cache |
| `Get`, `Hit`, `NoTags`, `UnlinkUntagged`, `Tag`, `Store`, `Expire` | the handler of `cache-handler.mjs`, one step per Redis command; a value expires before its tags do |
| `Begin`, `Mutate`, `MutateAlone`, `Commit`, `Rollback` | `maybeWithTrx` with its store, and `autoRevalidate`: inside a transaction the tags are collected for later by Next, and revalidated at once too |
| `Scan`, `Unlink`, `Forget`, `RevalidateFails` | `revalidateTag` of the handler: the tags are scanned, the values removed, then the tags |
| `Change`, `Changed`, `Concerns`, `TriggerUpdates` | a writer with the table of one of its mutations; what triggers change besides that table; whether a query can tell |
| `LinkedCacheTags`, `TagsOf` | `specialTables.ts` and `getTablesWithLinkedTables`, which are meant to name what triggers change |

What Next does with a tag (when it runs the revalidation of a request) is
external.

The instance has the two triggers that change pubs, of which the code links one:
that of pub_values, and not that of PubsInStages. A change is a writer and a table, so a
transaction may make changes of both kinds. The properties are about what a query
`Follows`: the changes to tables it reads or that are linked to these. A change to pubs
that the trigger of PubsInStages makes is followed by no query of pubs. Nothing
revalidates for it, a transaction that has moved a pub still reads pubs from the cache, and
what it reads there, its own uncommitted rows included, is stored for everybody.
Without the exception (`Follows` is `Concerns`) TLC refutes all three properties.

Left out: implicit tags and `revalidatePath`, `delete`, React's `cache`
of one request, several queries of one transaction at a time, the scoping of
tags by community, scans in portions, and `db.transaction()` called without a store
(`user.ts:337`, `updatePubType` and a few others), whose queries always go
to the cache. `revalidateSharedKeys` of the handler scans for keys it never
finds expired, so the hash of tags only grows; nothing else depends on it.

### Backups

| Model | Code |
|---|---|
| `records`, `objects`, `files` | `backup_records`, the bucket, the dumps in the worker's container; a key is the second in which a run began, as in the name the code makes |
| `TriggerBackup`, `ScheduleBackup`, `ScheduleFails`, `CronFires` | `triggerBackup`, whose insert and `scheduleBackup` are not one transaction, and the crontab, which fills in missed hours and so can start several at once |
| `Skip` ... `Unlink` | `createBackup`, one step per statement or command; `upsertBackupRecordForRun` is before the `try`, so its failure tidies up nothing |
| `SelectExpired`, `DeleteObjects`, `DeleteRows` | `cleanupExpiredBackups`; `SomeNotDeleted` is the answer of S3 that names keys it did not delete, which nobody reads |
| `DeleteBackup`, `DeleteRow`, `DeleteObject`, `DeleteCommits`, `DeleteFails` | `deleteBackup` |
| `StepFails`, `MarkFailed`, `AfterRun`, `Crash` | the `catch` and `finally` of `createBackup` and graphile's retries; a record whose run died is left in progress until the retry |

The exceptions in the properties are what the code does, each of them reached by
the run: two backups of the same second share an object and a file; a failed cleanup
marks the finished backup failed, its retry makes another object and renames the
record, and the old object is forgotten; a deletion that is broken off has
removed the object of a record that stays. A scheduled run that dies leaves its
record in progress for ever, for its retry makes another one. graphile's 25
attempts are taken to be enough, and the lock of a living worker not to expire.

### PubOps

| Model | Code |
|---|---|
| `db`, `PubRow`, `Relation`, `StageRow` | pubs, pub_values (of one relation field, and `Plain` values), PubsInStages |
| `Begin`, `Create`, `StartMove`, `Move`, `FindRelations`, `Unrelate`, `FindOrphans`, `DeletePubs`, `Relate`, `Commit` | `executeWithTrx` and what it calls, `movePub` and `deletePub`, one step per statement; `StartMove` takes the snapshot and `Move` writes, after the wait for the rows of others |
| `AffectedPubs`, `SafePubs`, `OrphanedPubs` | the recursive query of `cleanupOrphanedPubs`; what it walks to is the least set closed under relations (`Down`) |
| `Visible`, `Exists`, `Referenced`, `Unlocked` | READ COMMITTED: a statement sees what is committed and its own writes, waits for rows others have changed, and foreign keys lock the rows they name |
| `Cascade`, `Dangling` | `onDelete` of the schema and the foreign keys at commit |
| `Abort` | any error: the transaction is over, also where `updatePub` catches the unique error (`pub.ts:907`) and goes on with statements that PostgreSQL refuses |

One pub per operation: nested and batched PubOps run the same statements for
more pubs. Some commands do nothing in the code and have no action: `unset` is never
collected, `unrelate("*")` looks for a field called `*`, `unrelateByValue`
compares an object with an id. A pub without values that is cut off is not an orphan for
the query and stays. That the clean-up is sound is stated in two halves, of what it leaves
(`OrphansAreDeleted`) and of whom it deletes (`RelatedPubsAreSpared`). Both are less than
"not reachable from any other pub not in the tree" (`pub-op.ts:848`): of two
ways down to a pub, one through a safe pub and one beside it, the query looks at the second
and deletes the pub (section 4). A pub can delete itself as an orphan through a relation
that leads back to it, and an override that adds the target it has just deleted
is refused by the foreign key. A pub cut off that was related to nothing but itself and loses
that relation with the cut has no value left either.
`overlapped` begins with the pubs that the database has in two stages.

### PubTitles

`FindValues`, `ClearValues`, `UpsertValues`, `CreatePub` are the statements of
`processRelations`, `processValues` and `createAllPubs` that the triggers hear of;
`UnsetTitle` and `SetTitleField` are those of `updatePubType`. A statement with
its trigger is two steps, `ValuesTrigger` or `TypeTrigger` for what is read
and `SetTitles` for the `UPDATE`, which may wait in between. `tmp` is
`tmp_affected_pubs`. Left out: a field that leaves the type or has a null JSON value, and the
deletion of the pub.

### Invites

| Model | Code |
|---|---|
| `invites`, `mailed`, `account` | the invites of one address and their forms, which links have reached the mailbox, the row of `users` |
| `community`, `pubMembers` | the rows of the user in `community_memberships` and `pub_memberships`, by the form they name |
| `StartMail`, `GrantAccess`, `FindUser`, `InsertInvite`, `CommitMail` | `resolveRecipient`, then `grantFormAccess`, on a connection of its own, or `_createInvite`; the mail leaves, or fails, before the commit, and `InsertInvite` joins it with the statements that only its own transaction sees |
| `Accept`, `Reject`, `SignUp` | the server actions up to the read of the invite (`getValidInvite`) |
| `MarkAccepted`, `MarkRejected` | `setInviteStatus` and `rejectInvite`, which write whatever the status is by then |
| `SetCompleted`, `CheckCommunity`, `CheckPub`, `Grant`, `Skip` | `completeInvite`, one step per statement that reads what others write; nobody sees the status before the commit, so `Grant` and `Skip` write it, and until then `Unlocked` keeps others off the row |
| `Coalesce`, `UselessFor` | `coalesceMemberships`, which throws on two rows, and `isInviteUselessForMembership` |
| `Register`, `Add`, `Replace` | sign-up without invite, members who join or are added, and what admins do to members; one transaction each, with a single statement that anybody else waits for |

`edited` and `useless` are history. An invite that has expired is one nobody
asks for any more. What the queries of the check read through `autoCache` is
taken from the database: inside a transaction they pass the cache by. Roles are
left out because all invites the program makes are for contributors, and only
rows of contributors name forms. `revokeInvite`, `createAndSend` and invites for a stage or
a community alone are not called by the program; the pages that show an invite
write nothing.

## 4. Runs

TLC explores every interleaving of the instances below and finishes with no error.

| Run | Instance | What it shows |
|---|---|---|
| `delayed_faults` | 1 pub that enters the automation's stage twice, 2 stages, 2 workers, 2 runs, one fault of core, one worker crash | one job per key, actions once per delivery, one run per entry, every stale job has its cancellation coming, and the whole implements `DelayedRuns` |
| `delayed_served` | 2 pubs, the first re-enters, fair workers | a pub that stays is served, whatever the other one does |
| `graph_edited` | 4 automations, 2 editors, at most 3 triggers stored or being saved, MaxStackDepth 3 | a circle holds an automation that names itself or two saves that overlapped, no refusal without reason, edits fit but for what others stored after the check |
| `chain_faults` | 3 automations in a circle, depth 2, one start, one fault, one crash | stacks are complete, nobody follows a run twice, and the runs are the forest of `RunForest`: depth is bounded, followers match |
| `chain_ends` | the same with fairness, without crash | a circle comes to rest and watchers of runs on a pub are served |
| `migrate` | 2 replicas, one with an older image, 3 migrations, 2 crashes, 1 failure, 1 resolution by hand | what is recorded is in the schema, nothing is committed twice without a cause, all replicas come up unless a migration is stuck, and the whole implements `OrderedSchema` |
| `query_cached` | 1 cached query run twice at a time, in or out of transactions, 2 writers with 2 changes, 3 tables of which two have triggers that change the third, one linked and one not, 1 failing Redis command | no change a query follows is cached uncommitted or kept from its own transaction, and a value that misses one was filled during an overlap |
| `backed_up` | 2 records, 2 jobs at a time, 2 seconds, 1 fault | a completed backup has its object and no object is forgotten, but for the listed cases |
| `backups_done` | 1 record, 2 jobs, 2 faults, two configurations, fair worker | what a superadmin asked for is done in the end |
| `pubs_changed` | 4 pubs with any of 6 relations (64 databases), or 1 pub related to itself (4 more), 2 stages, 2 writers, 3 operations | no row dangles, a second stage comes of overlapping moves only, the clean-up leaves no orphan and spares who is related from outside |
| `titled` | 1 pub, 2 fields, 2 values, 2 writers, 3 transactions, from any values and title field | the title follows the value, but for two ways to lose it |
| `invited` | 2 invites for 2 forms of 1 pub, 2 requests at a time, 1 edit by others | what is completed is granted, nobody is a member unasked, only earlier answers undo a rejection |

**Where the code differs from what it says.** Modelling
and earlier instances of the same modules showed the following; TLC has a
behaviour for each, and a reader gets it back by stating the quoted words as a
property.

| Says | Does |
|---|---|
| a cancelled run is marked ("Cancel a scheduled automation and mark the automation run as cancelled", `packages/contracts/src/resources/internal.ts:87`) | the insert has neither pub nor json, `automation_runs_input_check` rejects it before its ON CONFLICT applies, and the run reads scheduled for ever (`CancelScheduled`) |
| "a Pub stays in this stage for..." (`triggers.tsx:32`) | a late cancellation of the first entry removes the job of the second, since the key does not name the run (`StayingPubIsServed` has to exclude it); a schedule handled after the pub left is never cancelled and runs |
| "checks if adding an automation would create a cycle" (`automations.ts:354`) | two concurrent saves close one (`raced` in `CirclesAreRaced`), and an automation may name itself |
| "a specific automation succeeds" (`triggers.tsx:64`) | the watcher of a run on a json body is never run: its payload has no pubId (`RejectPayload`) |
| an unfinished migration was rolled back and can be applied again cleanly (`migrate.ts`, `autoResolveFailedMigrations`) | a crash between the SQL and its record makes the next start apply it twice |
| linked tags are for tables "updated outside of the app logic, like through a trigger" (`specialTables.ts:12`) | the trigger of PubsInStages changes pubs, and pubs is not linked with it: `getPlainPub` serves the pub of before a move until something else revalidates it, and what a transaction reads after its own move is cached before it commits (the exception in `Follows`) |
| "we don't actually expect there to be multiple stageIds" (`capabilities.ts:70`) | two overlapping moves leave a pub in two stages (`overlapped` in `OneStage`) |
| "should delete a title on a pub when a pubvalue is deleted" (`pub-trigger.db.test.ts:347`) | an upsert that deletes the title's value and writes another field, in one transaction as PubOp does it, sets the deleted title again (`restored` in `TitleFollowsValue`) |
| "all their descendants that are not otherwise connected will be deleted" (`pub-op.ts:131`), "Which are not reachable from any other pub not in the tree" (`pub-op.ts:848`) | an affected pub is kept only if every path the query follows to it has a safe pub on it, and safe is only one to which a pub outside relates directly (`pub-op.ts:940`). When a cuts b, a still relates to c, c and b both relate to d, and b relates to c: b and d go, though d is related to the kept c. (Without the relation from b to c, c is not affected and d is safe.) A disconnected pub without values is not affected and stays (`RelatedPubsAreSpared`, `OrphansAreDeleted`) |
| "does the invite grant any new roles or forms" (`InviteService.ts:797`) | the test is inverted (`inviteHasNoNewForms` is true if some form of the invite is new): an invite for a further form of a pub the invitee is on already is completed without a grant, one for a form he has is granted again (`useless` in `CompletedIsGranted`) |
| "check if all memberships are similar" (`member.ts:310`), to collect the forms of all rows | the ids of the rows are compared as well, which throws: who has two forms in a community, for example by two invites answered at once, can complete no further invite and gets no mail by address |
| "rejected - The invite has been rejected" (`schema.prisma:685`), and `invalidInviteMap` refuses it from then on | a tab that had read it before accepts it all the same, and a stale tab that marks it accepted or rejected overwrites even a completion (`RejectionStands` names the case) |

**Bounds.** Two entries are the first number at which an old run, job or
cancellation meets a new one; two workers the first at which handlers
interleave; one fault and one crash because every property but the counting
ones is about a single lost or repeated delivery. In the chain, depth 2 with
six runs lets a circle reach the limit from every position. `WalkDepth`
is 3 where the code has 20 (the walk goes on while its depth is below 20 and so returns
21 runs at most) and `MaxStackDepth` 2 where it has 10: what matters is their order, which the assumption of the module states. `MaxEntries`,
`MaxStarts`, `MaxTriggers`, `MaxChanges`, `MaxCoreFaults`, `MaxWorkerCrashes` and the sizes of the id sets are
the only bounds; all of them are constants. `CHECK_DEADLOCK FALSE` is set because
the system may stop: when the bounds are used up and the queue is empty.

For the migrations, two crashes allow a crash of an attempt that follows a
crash, three migrations a first, a middle and a last one; `RowIds` has a row for
every attempt the other bounds allow, so that no insert is ever held up.

**Fairness.** `WF(PickAny)`: graphile hands out every job sooner or later (the
worker polls, all slots take every task). `WF(Handle(w))`: core gets on with a
request it has begun. Nothing forces a user to move a pub or start a run, a
condition to hold, or a fault to happen. Weak fairness of `PickAny` does not
promise that one particular job is taken before others; the liveness properties hold
because the bounds let the queue drain. For the migrations a
replica that exits is started again (`restart` of the deployment), a statement
ends, and PostgreSQL queues the waiters of a lock, so that a replica that waits
again and again gets it (`SF(Lock(r))`).

In the configuration, two editors are the first whose check and write overlap, and three triggers
are enough for a circle of three, for two saves that close one of two, and for a sequence of four
automations, one more than `MaxStackDepth`.

For the cache, two executions of one query and two writers are the smallest
number of which one fills while another changes and a third revalidates. The
second change is the first by which a transaction makes a linked and an unlinked one, or
two transactions one each; a transaction that failed counts as one. For the backups two
seconds are the first at which a backup can expire, and at which two runs can begin
in one second or not; a larger instance (three seconds) was searched once
without an error for 6.8 million states. `backups_done` has one record because with
two of them retries that begin in one second can fail each other as long as the clock
stands still, which the property excludes and graphile's growing delays
prevent. In `pubs_changed`, four pubs are the first with a diamond or a
circle below a disconnected pub and one pub outside; three operations let a third
one find what two overlapping ones left. In `titled` the pubs of a type
do not interact, which an instance with two pubs and two transactions confirmed.

In `invited`, two invites with two forms are the first that meet in one
membership, two requests the first that read the same invite; one edit is enough to add, to
replace and to remove. Deadlock is checked: the invitee can always ask again. No
fairness is assumed: nobody has to answer.

The fairness of `backups_done` is that the worker goes on with each of its jobs
and the web server with its transaction; faults are bounded, as graphile's
attempts are.

## 5. Proofs

All theorems are about the module's specification for every value of the constants
that satisfies its assumptions. These are: the types of the constants and of the
bounds (`ConstantsAssumption`, `InvitesAssumption`, `PubTitlesAssumption`,
`PubOpsAssumption`); that `MAX_STACK_DEPTH` is at least 1 (`DepthAssumption`) and no
more than the depth of the database's walk; that a model value differs from the
records it is a placeholder for (`SentinelAssumption`, `RowAssumption`,
`AbsentAssumption`, `NoRequestAssumption`, and `Keep # NoStage`: undefined is not null);
and of the database that `PubOps` starts from, that its foreign keys hold. TLC
evaluates each of them. A theorem that needs more says so in its `ASSUME`.

- `DelayedAutomation_proofs`: `TypeCorrect`, `DelayedJobsHaveRuns`, `OneJobWaits`, `JobsTakenByTheirOwn`, `EntriesRunOnce`,
  `DeliveredOnce`, `StaleJobsAreCancelled`, and `Implements`: the refinement of
  `DelayedRuns`. `OneJobPerKey` is
  not inductive: a redelivery puts a locked job back. The invariant adds that a
  locked job that still has its key has no other job, waiting or locked, with
  the same key. `Unkeyed` is what keeps it when a schedule or a
  cancellation replaces the key. `DelayedJobHasRun` needs the runs named by
  cancellations and by workers between `ScheduleInsert` and `ScheduleArm`.
  `OneRunPerEntry` needs to know where the request of an entry is (`Once`): queued, in one
  worker's hands, or turned into a run, and never two of these at once.
  `OncePerDelivery` is a balance (`DInv`): what has been announced, plus the workers
  that handle the run's job, plus the delivery that is still to come, is at most
  the run's insertion and the crashes so far; likewise for executions and the handlers
  that have not begun to execute. The proof counts workers, so `Workers` is assumed to
  be finite. `StaleJobIsBeingCancelled` rests on that balance: without a crash
  nobody handles a run whose job waits (`NotHandled`), so its rows are untouched and the
  trigger that fires when the pub leaves finds something to cancel (`SInv`).
  `Implements` rests on all of them. The balance pays for every beginning and every outcome
  (`DeliveryLeft`), `Once` says that a stored run is the first for its entry, and
  `EInv` adds that a request is about an entry that has happened, after which the
  pub has entered no stage but the automation's, and that whoever executes a run
  has begun it. That a run never ends undecided follows from the results being
  complete (`ResultsDecide`), which needs an automation to have an action.
- `Automations_proofs`, about `AutomationGraph`, for any number of editors and
  automations: `GraphTypeCorrect`, `OnlyRacesCloseCircles`, `EditsFit` (with a
  `MaxStackDepth` above 1, for with 1 every source is refused) and `RefusedForAReason`. The
  invariant relates the checks a save has passed to the triggers that are stored now:
  the automation is in a set that has whatever its members start, what others have stored
  since left aside, and to which the checked source does not belong (`Shut`). It
  follows that a circle which a save closes goes through an automation stored in
  between, or is the automation's own trigger; `raced` remembers the pair until one
  of the two is saved again or deleted. The core is that a circle through the edited
  automation contains a shortest path from the automation back to its source, which the
  walk visits unless it refuses as too deep first. `EditsFit` carries the lengths the
  walk has seen in the same way. `RefusedForAReason` is about the triggers as they are
  when the walk reads them: in an acyclic graph no automation comes twice in a sequence
  (`NoneComesTwice`), so what the walk finds is a circle or a sequence of the triggers as they
  would be saved, or a circle that is stored already.

  About `AutomationChain`: `TypeCorrect`, `StacksAreComplete`, `DepthIsBounded`,
  `FollowersMatch`, `FollowedOnce` and `Implements`, the refinement of `RunForest`.
  The invariant says that every stack in the queue or in a
  handler is a complete line and no longer than `MaxStackDepth + 1`, that a
  stored source is a stored run with a final status, and that the walk of the database returns
  the whole line, because `MaxStackDepth <= WalkDepth`. `FollowedOnce` adds `Unique`:
  as long as no worker crashes, an event for an automation and a source is in one place,
  the queue, a handler or the table of runs; what a run announces when it ends is
  new, because only runs that have ended are stored as sources. `Implements` adds
  `Inherited`, that an event carries the input of the run it is about: the
  follower of a run on a json body is therefore refused by `RejectPayload` before it is
  inserted. The stack that the depth check lets through is the witness that the
  forest has room.

  About both: `RefusedOnlyInLongChains`. The two limits, of `wouldCreateCycle` on the
  configuration and of `runAutomation` on a stack, are written in two places and compare
  different things. They do not contradict each other: an event is refused only where the
  triggers hold a circle, or a sequence of `MaxStackDepth + 2` different automations
  (`LineIsChain`: the end of its stack, with the automation that was to follow, is
  one), while an edit that leaves one of more than `MaxStackDepth` is refused. The triggers
  are taken as given while the runs go on.

- `Migrations_proofs`: `TypeCorrect`, `SchemaAlwaysInOrder`,
  `OnlyAppliedIsFinished`, `OneRowLooksFailed`, `ServingReplicasHaveSchema`, and
  `Implements`: the refinement of `OrderedSchema`. None
  of them is inductive. The invariant says what a replica relies on at each
  place of `runMigrations` (`Relies`): it holds the lock, what its loop is through
  with is in the schema, the row it works on belongs to the first migration
  that is left, and no other row looks failed. Because only the holder of the
  lock relies on anything (`HolderIsAlone`), no step has to be checked against
  the other replicas, except the superadmin's, who takes no lock.
  `CommittedOnceOrPaidFor` needs a balance as well (`Balanced`): the commits of a
  migration, plus a marked row whose SQL still runs (`Wasted`) and a click that has
  read its row and not marked it (`Marking`), are at most the crashes and
  resolutions so far, plus one for the commit that is recorded or about to be
  (`Held`).

- `QueryCache_proofs`: `TypeCorrect`, `CachedIsCommitted`, `OwnWritesAreSeen` and
  `OnlyOverlapsGoStale`, for any triggers and links: nothing is assumed of the ones
  naming the others, for the properties are about the changes a query follows. A
  transaction may have made others as well. It then reads the cache, or fills it with rows of
  its own, but never after a change the query follows (`Bypasses`). A change that a stored value
  lacks must be one whose revalidation is still to come (`Pending`), or
  is at its scan (`Hunting`), or went on while the value was filled. The
  invariant says that of every fill on its way (`FillsCovered`) and of every
  stored value whose tags are known (`EntriesCovered`); the steps of a
  revalidation are where one case turns into the other.

- `PubTitles_proofs`: `TypeCorrect` and `TitlesFollowValues`, for any pubs,
  fields, values and writers. A title is worked out in one statement and
  committed several statements later, so the invariant follows a transaction on
  the way: what it locks nobody else writes (`Locks`); a transaction on values
  is about one pub, and the title it is about to write, or has written, is
  right for the rows it sees itself (`ValuesShape`, `ValuesView`); a
  transaction that changes the title field brings the right titles of all
  committed pubs (`TypeShape`, `TypeView`). The heart of the proof is
  `CommitOthers`: a commit can make another transaction's title wrong only on the
  pubs of `Overtaken`, because on every other pub either the row locks keep the
  two apart or the one has not read what the other changes.

- `Backups_proofs`: `TypeCorrect`, `CompletedBackupsAreStored` and
  `NoBackupForgotten`, for any number of records, jobs, configurations, seconds
  and faults. Only records and keys connect the two properties with what
  runs, cleanups and deletions have read earlier, so the invariant says who may
  have read what: a record belongs to one job (`Held`); a key of a second in
  which one run began belongs to one record, whoever has read it (`Owned`);
  what a run has uploaded is there until it is completed, and a cleanup that had
  the record in hand by then has been crossed (`Uploaded`); a cleanup holds
  completed backups that are old (`ExpiredAreOld`); and an object that is in the
  bucket under a record about to go has crossed (`Removed`). Most steps neither
  name nor complete a record nor touch the bucket; `QuietStep` deals with them at
  once, and seven steps have proofs of their own.

- `Invites_proofs`: `TypeCorrect`, `InvitesCompletedAreGranted`,
  `OnlyTheInvitedAreMembers` and `RejectionsStand`, for any invites, pubs, forms and
  requests. What a completion writes at its end it has decided from reads made before,
  so the invariant says what every request knows (`Fits`): its invite exists, or nobody has
  made it yet; what it read as completed is granted; the memberships its checks
  found are there. `Keep` is what every step does to the tables: memberships only
  grow until somebody removes one, an invite keeps its pub and form and does not
  become pending again. From `Keep` alone it follows that nobody spoils what
  another request knows (`OthersFit`).

- `PubOps_proofs`: `TypeCorrect`, `PubsAreInOneStage`, `NoOrphanIsLeft` and `CleanupsSpare`, for any
  pubs, stages, writers, operations and relations. That no row dangles in the
  database needs that none dangles in what any open transaction sees (`Sound`),
  and a commit changes what all the others see. The invariant `Data` is why that is
  harmless: no two transactions write rows of one pub (`LocksApart`), nobody deletes a
  pub that a new row of another refers to (`RefsHeld`), and the pub of a deleted row is
  there or deleted as well (`Rooted`). `CommitSeen` says what a commit changes in the
  view of another transaction; every part of the invariant is checked
  against it. `Staged` follows a pub from a move's statement to its commit
  (`Entered`) and says that nobody sees it without a stage (`PlacedAre`) or in two
  (`OneSeen`) unless moves overlap. `CleaningUp` follows a clean-up that nobody's commit came between
  through its statements: the relations it found are those it cuts, and the
  orphans it works out later on what is left are those of the database at its
  commit. What the query calls an orphan is then proved to lie below the
  disconnected pubs (`OrphansBelow`), to hang from them by orphans alone
  (`OrphansHang`) and to be what the commit deletes (`OrphansGo`); and whoever is kept is reached from outside
  (`OthersReached`): a relation of an orphan leads to an orphan or to a safe pub, and a
  safe pub is related from outside, so the pubs that are orphans or reached from
  outside are closed under relations and contain the whole tree.

Attempts at these proofs corrected the model twice. An operation that writes relations
never got to its commit, so that no run had seen one of its outcomes
(`Following`); and a pub that relates to itself only is left without values by the cut that
disconnects it, which the former property did not except and the
former instance did not contain.

Proved and no longer run, because a theorem says it for every instance:
`DelayedJobHasRun`, `OneFailedRow`, and what the refinements of `OrderedSchema` and
`RunForest` imply as well: `SchemaInOrder`, `ServingHasSchema`, `DepthBounded`,
`FollowersMatchOutcome`.

Model-checked only: everything about liveness (`StayingPubIsServed`, `ComesToRest`,
`PubWatchersServed`, `ReplicasComeUp`, `AskedIsDone`), which the prover cannot do.

## 6. Not modelled

Open: tokens and sessions (section 2). Left out for good: condition
trees, capabilities, the JSONata compiler and the validation of fields are pure
functions over data, for which a unit test reaches what a model would; the
history of values is copied row by row by a trigger; the site builder, the
importers and the file store are calls to external services; the editor, the
mail templates and the user interface are presentation. `DB_RESET` and `DB_SEED`
of the migrations are for development. Telemetry and logging are left out
everywhere.
