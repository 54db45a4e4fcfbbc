-------------------------- MODULE DelayedAutomation --------------------------
(***************************************************************************)
(* Automations with the trigger pubInStageForDuration: entering a stage    *)
(* asks for a run to be scheduled, the run is stored and a keyed delayed   *)
(* job is queued, leaving the stage asks for its cancellation, and the     *)
(* delayed job finally executes the automation's actions.                  *)
(*                                                                         *)
(* The database triggers on "PubsInStages" put jobs in the graphile queue; *)
(* the jobs worker takes them in no particular order, several at a time,   *)
(* and each one becomes a request handled by core.  A step of a worker     *)
(* below is one database statement (or one action) of such a handler.      *)
(***************************************************************************)
EXTENDS Naturals, FiniteSets, Sequences

CONSTANTS
    Pubs, Stages, Automations, RunIds, Workers,
    StageOf,        \* automations.stageId
    NActions,       \* how many action instances each automation has
    ChecksOnTrigger,    \* conditionEvaluationTiming onTrigger or both
    ChecksOnExecution,  \* condition with timing onExecution, both or none set
    Movers,         \* automations one of whose actions is "move"
    NoStage, NoRun, Idle,
    MaxEntries,     \* bound: stage entries of each pub
    MaxCoreFaults,  \* bound: requests that die inside core
    MaxWorkerCrashes    \* bound: worker crashes, each redelivering a job

ASSUME ConstantsAssumption ==
    /\ StageOf \in [Automations -> Stages]
    /\ NActions \in [Automations -> Nat \ {0}]
    /\ ChecksOnTrigger \subseteq Automations
    /\ ChecksOnExecution \subseteq Automations
    /\ Movers \subseteq Automations
    /\ NoStage \notin Stages /\ IsFiniteSet(Workers)
    /\ MaxEntries \in [Pubs -> Nat] /\ MaxCoreFaults \in Nat /\ MaxWorkerCrashes \in Nat

VARIABLES
    stage,      \* "PubsInStages": the stage each pub is in
    entries,    \* how often each pub has entered a stage
    runs,       \* automation_runs with their action_runs
    jobs,       \* graphile jobs no worker has locked
    worker,     \* what each worker slot is doing
    announced,  \* automationSucceeded/automationFailed events per run
    executions, \* history: how often the actions of a run were started
    lost,       \* history: jobs one of whose deliveries died inside core
    coreFaults, workerCrashes

vars == <<stage, entries, runs, jobs, worker, announced, executions, lost,
          coreFaults, workerCrashes>>

-----------------------------------------------------------------------------
(* The tables *)

Outcome == {"success", "failure"}
Status == Outcome \union {"scheduled", "pending"}

\* A run with its action_runs (one per action instance).  entry is history:
\* the stage entry whose ScheduleDelayedAutomation job created the run.
Run == [automation : Automations, pub : Pubs, entry : Nat,
        rows : Seq(Status), status : Status]

ScheduleJob == [type : {"ScheduleDelayedAutomation"},
                automation : Automations, pub : Pubs, entry : Nat]
RunJob == [type : {"RunDelayedAutomation"},
           automation : Automations, pub : Pubs, run : RunIds,
           late : BOOLEAN]  \* history: queued after the pub had left
CancelJob == [type : {"CancelScheduledAutomation"},
              run : RunIds, row : Nat, leave : Nat]
Job == ScheduleJob \union RunJob \union CancelJob

\* keyed: graphile still associates the locked job with its job key;
\* delivered: the worker that locked the job has not crashed since.
Busy == [job : Job, pc : {"start", "insert", "arm", "mark", "execute"},
         run : RunIds \union {NoRun}, results : Seq(Outcome),
         keyed : BOOLEAN, delivered : BOOLEAN]

AllRows(a, s) == [i \in 1..NActions[a] |-> s]

\* compute_automation_run_status: the status of a run from its action_runs.
Aggregate(rows) ==
    CASE \E i \in DOMAIN rows : rows[i] = "failure" -> "failure"
      [] \A i \in DOMAIN rows : rows[i] = "success" -> "success"
      [] \A i \in DOMAIN rows : rows[i] = "scheduled" -> "scheduled"
      [] OTHER -> "pending"

\* The status the row triggers leave behind when rows are written: a row whose
\* status did not change triggers nothing.
StatusAfter(run, rows) ==
    IF rows = run.rows THEN run.status ELSE Aggregate(rows)

\* Mutant of WriteRows: an outcome is announced again although it is the same.
WriteRowsLoudly(r, rows) ==
    LET new == StatusAfter(runs[r], rows) IN
    /\ runs' = [runs EXCEPT ![r].rows = rows, ![r].status = new]
    /\ announced' = IF new \in Outcome
                    THEN [announced EXCEPT ![r] = Append(@, new)]
                    ELSE announced

\* insertAutomationRun on a run that exists: the rows are upserted by id, the
\* triggers recompute the status and announce a new terminal one.
WriteRows(r, rows) ==
    LET new == StatusAfter(runs[r], rows) IN
    /\ runs' = [runs EXCEPT ![r].rows = rows, ![r].status = new]
    /\ announced' = IF new \in Outcome /\ new # runs[r].status
                    THEN [announced EXCEPT ![r] = Append(@, new)]
                    ELSE announced

InitRun(a, p, e) ==
    LET rows == AllRows(a, "scheduled") IN
    [automation |-> a, pub |-> p, entry |-> e,
     rows |-> rows, status |-> Aggregate(rows)]

ASSUME SentinelAssumption ==
    NoRun \notin Run \union RunIds /\ Idle \notin Busy

-----------------------------------------------------------------------------
(* The graphile queue *)

\* getScheduledAutomationJobKey: the stage of the key is the automation's and
\* the event is always pubInStageForDuration.  It does not name the run.
JobKey(a, p) == <<a, p>>

HasKey(j, key) ==
    j.type = "RunDelayedAutomation" /\ JobKey(j.automation, j.pub) = key

\* What graphile does with a key that is replaced or removed: an unlocked job
\* goes away, a locked one keeps running but loses its key and its retries.
WithoutKey(js, key) == {j \in js : ~HasKey(j, key)}

Unkeyed(ws, key) ==
    [w \in Workers |-> IF ws[w] # Idle /\ HasKey(ws[w].job, key)
                       THEN [ws[w] EXCEPT !.keyed = FALSE]
                       ELSE ws[w]]

-----------------------------------------------------------------------------
(* Moving pubs: the triggers on "PubsInStages" *)

ScheduleJobs(p, s, e) ==
    {[type |-> "ScheduleDelayedAutomation", automation |-> a, pub |-> p, entry |-> e]
     : a \in {b \in Automations : StageOf[b] = s}}

\* Mutant of RowsToCancel: the leave trigger selects the wrong status.
PendingRows(run) == {i \in DOMAIN run.rows : run.rows[i] = "pending"}

RowsToCancel(run) == {i \in DOMAIN run.rows : run.rows[i] = "scheduled"}

\* cancel_scheduled_automations_on_pub_leave: one job per action_run that is
\* still scheduled, whichever entry of the pub it belongs to.
CancelJobs(p, s, e) ==
    UNION {{[type |-> "CancelScheduledAutomation", run |-> r, row |-> i, leave |-> e]
            : i \in RowsToCancel(runs[r])}
           : r \in {q \in RunIds : /\ runs[q] # NoRun
                                   /\ runs[q].pub = p
                                   /\ StageOf[runs[q].automation] = s}}

\* movePub: one statement leaves the old stage and enters the new one.
MoveTo(p, s) ==
    /\ entries[p] < MaxEntries[p]
    /\ stage' = [stage EXCEPT ![p] = s]
    /\ entries' = [entries EXCEPT ![p] = @ + 1]
    /\ jobs' = jobs \union CancelJobs(p, stage[p], entries[p])
                    \union ScheduleJobs(p, s, entries[p] + 1)

\* A user, the API or another automation moves the pub.
MovePub(p, s) ==
    /\ stage[p] # s
    /\ MoveTo(p, s)
    /\ UNCHANGED <<runs, worker, announced, executions, lost, coreFaults, workerCrashes>>

\* processStages with stage null: the pub leaves without entering another one.
RemoveFromStage(p) ==
    /\ stage[p] # NoStage
    /\ stage' = [stage EXCEPT ![p] = NoStage]
    /\ jobs' = jobs \union CancelJobs(p, stage[p], entries[p])
    /\ UNCHANGED <<entries, runs, worker, announced, executions, lost,
                   coreFaults, workerCrashes>>

-----------------------------------------------------------------------------
(* The worker *)

\* A worker locks a job.  Time is abstracted: a delayed job is due at any time.
Pick(w, j) ==
    /\ worker[w] = Idle
    /\ jobs' = jobs \ {j}
    /\ worker' = [worker EXCEPT ![w] =
                    [job |-> j, pc |-> "start", run |-> NoRun, results |-> <<>>,
                     keyed |-> TRUE, delivered |-> TRUE]]
    /\ UNCHANGED <<stage, entries, runs, announced, executions, lost,
                   coreFaults, workerCrashes>>

At(w, type, pc) ==
    worker[w] # Idle /\ worker[w].job.type = type /\ worker[w].pc = pc

Goto(w, pc) == worker' = [worker EXCEPT ![w].pc = pc]

\* Mutant of Done: a handler ends without giving its slot back.
SlotKept(w) == Goto(w, "done")

\* emitEvent swallows every error: however the handler ends, the job is done.
Done(w) == worker' = [worker EXCEPT ![w] = Idle]

(* scheduleDelayedAutomation *)

\* With timing onTrigger or both the pub must be in some stage and the condition
\* must hold; the run is stored afterwards whatever the pub did in the meantime.
ScheduleCheck(w) ==
    /\ At(w, "ScheduleDelayedAutomation", "start")
    /\ worker[w].job.automation \in ChecksOnTrigger => stage[worker[w].job.pub] # NoStage
    /\ Goto(w, "insert")
    /\ UNCHANGED <<stage, entries, runs, jobs, announced, executions, lost,
                   coreFaults, workerCrashes>>

ScheduleRefused(w) ==
    /\ At(w, "ScheduleDelayedAutomation", "start")
    /\ worker[w].job.automation \in ChecksOnTrigger
    /\ Done(w)
    /\ UNCHANGED <<stage, entries, runs, jobs, announced, executions, lost,
                   coreFaults, workerCrashes>>

\* crypto.randomUUID(): any run id not in use, they are interchangeable.
FreshRun == CHOOSE r \in RunIds : runs[r] = NoRun

ScheduleInsert(w) ==
    /\ At(w, "ScheduleDelayedAutomation", "insert")
    /\ \E r \in RunIds : runs[r] = NoRun
    /\ LET j == worker[w].job IN
       /\ runs' = [runs EXCEPT ![FreshRun] = InitRun(j.automation, j.pub, j.entry)]
       /\ worker' = [worker EXCEPT ![w].pc = "arm", ![w].run = FreshRun]
    /\ UNCHANGED <<stage, entries, jobs, announced, executions, lost,
                   coreFaults, workerCrashes>>

\* The pub is still in the stage entry that made the run be scheduled.
Current(r) ==
    /\ runs[r] # NoRun
    /\ stage[runs[r].pub] = StageOf[runs[r].automation]
    /\ entries[runs[r].pub] = runs[r].entry

\* Mutant of ScheduleArm: the job is added without jobKeyMode "replace".
ScheduleArmKeep(w) ==
    /\ At(w, "ScheduleDelayedAutomation", "arm")
    /\ LET j == worker[w].job IN
       jobs' = jobs \union
               {[type |-> "RunDelayedAutomation", automation |-> j.automation,
                 pub |-> j.pub, run |-> worker[w].run,
                 late |-> ~Current(worker[w].run)]}
    /\ worker' = [worker EXCEPT ![w] = Idle]
    /\ UNCHANGED <<stage, entries, runs, announced, executions, lost,
                   coreFaults, workerCrashes>>

\* jobsClient.scheduleDelayedAutomation: addJob with jobKeyMode "replace".
ScheduleArm(w) ==
    /\ At(w, "ScheduleDelayedAutomation", "arm")
    /\ LET j == worker[w].job
           key == JobKey(j.automation, j.pub) IN
       /\ jobs' = WithoutKey(jobs, key) \union
                  {[type |-> "RunDelayedAutomation", automation |-> j.automation,
                    pub |-> j.pub, run |-> worker[w].run,
                    late |-> ~Current(worker[w].run)]}
       /\ worker' = [Unkeyed(worker, key) EXCEPT ![w] = Idle]
    /\ UNCHANGED <<stage, entries, runs, announced, executions, lost,
                   coreFaults, workerCrashes>>

(* cancelScheduledAutomation *)

\* The job key is rebuilt from the run and its job removed.  The insert that
\* should then store failed action runs names neither a pub nor a json input,
\* so automation_runs_input_check rejects the statement and nothing is stored.
CancelScheduled(w) ==
    /\ At(w, "CancelScheduledAutomation", "start")
    /\ LET run == runs[worker[w].job.run]
           key == JobKey(run.automation, run.pub) IN
       /\ jobs' = WithoutKey(jobs, key)
       /\ worker' = [Unkeyed(worker, key) EXCEPT ![w] = Idle]
    /\ UNCHANGED <<stage, entries, runs, announced, executions, lost,
                   coreFaults, workerCrashes>>

(* runAutomation of a scheduled run.  Neither the pub's stage nor the state of
   the run is looked at. *)

RunCheck(w) ==
    /\ At(w, "RunDelayedAutomation", "start")
    /\ Goto(w, "mark")
    /\ UNCHANGED <<stage, entries, runs, jobs, announced, executions, lost,
                   coreFaults, workerCrashes>>

\* Mutant of RunNotMet: the timing of the condition is ignored.
RunNeverMet(w) ==
    /\ At(w, "RunDelayedAutomation", "start")
    /\ Done(w)
    /\ UNCHANGED <<stage, entries, runs, jobs, announced, executions, lost,
                   coreFaults, workerCrashes>>

\* The condition does not hold: the run is left as it is.
RunNotMet(w) ==
    /\ At(w, "RunDelayedAutomation", "start")
    /\ worker[w].job.automation \in ChecksOnExecution
    /\ Done(w)
    /\ UNCHANGED <<stage, entries, runs, jobs, announced, executions, lost,
                   coreFaults, workerCrashes>>

\* The condition cannot be evaluated: all action runs fail.
RunCheckError(w) ==
    /\ At(w, "RunDelayedAutomation", "start")
    /\ worker[w].job.automation \in ChecksOnExecution
    /\ WriteRows(worker[w].job.run, AllRows(worker[w].job.automation, "failure"))
    /\ Done(w)
    /\ UNCHANGED <<stage, entries, jobs, executions, lost, coreFaults, workerCrashes>>

RunMark(w) ==
    /\ At(w, "RunDelayedAutomation", "mark")
    /\ WriteRows(worker[w].job.run, AllRows(worker[w].job.automation, "scheduled"))
    /\ executions' = [executions EXCEPT ![worker[w].job.run] = @ + 1]
    /\ Goto(w, "execute")
    /\ UNCHANGED <<stage, entries, jobs, lost, coreFaults, workerCrashes>>

MoreActions(w) == Len(worker[w].results) < NActions[worker[w].job.automation]

Result(w, o) == worker' = [worker EXCEPT ![w].results = Append(@, o)]

\* The next action instance runs; a failed one does not stop the others.
RunAction(w, o) ==
    /\ At(w, "RunDelayedAutomation", "execute") /\ MoreActions(w)
    /\ Result(w, o)
    /\ UNCHANGED <<stage, entries, runs, jobs, announced, executions, lost,
                   coreFaults, workerCrashes>>

\* The move action.  Moving a pub to the stage it is in is a unique violation,
\* which the action reports as a success (RunAction covers it).
RunMove(w, s) ==
    /\ At(w, "RunDelayedAutomation", "execute") /\ MoreActions(w)
    /\ worker[w].job.automation \in Movers
    /\ stage[worker[w].job.pub] # s
    /\ MoveTo(worker[w].job.pub, s)
    /\ Result(w, "success")
    /\ UNCHANGED <<runs, announced, executions, lost, coreFaults, workerCrashes>>

RunFinish(w) ==
    /\ At(w, "RunDelayedAutomation", "execute") /\ ~MoreActions(w)
    /\ WriteRows(worker[w].job.run, worker[w].results)
    /\ Done(w)
    /\ UNCHANGED <<stage, entries, jobs, executions, lost, coreFaults, workerCrashes>>

(* Failures *)

\* Mutant of CoreFault: emitEvent rethrows, so graphile retries the job.
CoreFaultRetried(w) ==
    /\ worker[w] # Idle
    /\ coreFaults < MaxCoreFaults
    /\ coreFaults' = coreFaults + 1
    /\ lost' = lost \union {worker[w].job}
    /\ jobs' = jobs \union {worker[w].job}
    /\ Done(w)
    /\ UNCHANGED <<stage, entries, runs, announced, executions, workerCrashes>>

\* Core dies, or a statement fails, before the handler is through: emitEvent
\* logs the error and the job counts as done.
CoreFault(w) ==
    /\ worker[w] # Idle
    /\ coreFaults < MaxCoreFaults
    /\ coreFaults' = coreFaults + 1
    /\ lost' = lost \union {worker[w].job}
    /\ Done(w)
    /\ UNCHANGED <<stage, entries, runs, jobs, announced, executions, workerCrashes>>

\* The worker process dies while core goes on with the request: when the lock
\* expires the job is delivered again, unless its key was taken from it.
WorkerCrash(w) ==
    /\ worker[w] # Idle /\ worker[w].delivered
    /\ workerCrashes < MaxWorkerCrashes
    /\ workerCrashes' = workerCrashes + 1
    /\ jobs' = IF worker[w].keyed THEN jobs \union {worker[w].job} ELSE jobs
    /\ worker' = [worker EXCEPT ![w].delivered = FALSE]
    /\ UNCHANGED <<stage, entries, runs, announced, executions, lost, coreFaults>>

-----------------------------------------------------------------------------

Init ==
    /\ stage = [p \in Pubs |-> NoStage]
    /\ entries = [p \in Pubs |-> 0]
    /\ runs = [r \in RunIds |-> NoRun]
    /\ jobs = {}
    /\ worker = [w \in Workers |-> Idle]
    /\ announced = [r \in RunIds |-> <<>>]
    /\ executions = [r \in RunIds |-> 0]
    /\ lost = {}
    /\ coreFaults = 0 /\ workerCrashes = 0

Move == \E p \in Pubs : RemoveFromStage(p) \/ \E s \in Stages : MovePub(p, s)

Handle(w) ==
    \/ ScheduleCheck(w) \/ ScheduleRefused(w) \/ ScheduleInsert(w) \/ ScheduleArm(w)
    \/ CancelScheduled(w)
    \/ RunCheck(w) \/ RunNotMet(w) \/ RunCheckError(w) \/ RunMark(w)
    \/ \E o \in Outcome : RunAction(w, o)
    \/ \E s \in Stages : RunMove(w, s)
    \/ RunFinish(w)

PickAny == \E w \in Workers, j \in jobs : Pick(w, j)

Fault(w) == CoreFault(w) \/ WorkerCrash(w)

Next == Move \/ PickAny \/ \E w \in Workers : Handle(w) \/ Fault(w)

Spec == Init /\ [][Next]_vars

\* graphile hands out every job and core gets on with every request; nobody has
\* to move a pub, and nothing has to fail.
Fairness == WF_vars(PickAny) /\ \A w \in Workers : WF_vars(Handle(w))

FairSpec == Spec /\ Fairness

-----------------------------------------------------------------------------
(* Properties *)

TypeOK ==
    /\ stage \in [Pubs -> Stages \union {NoStage}]
    /\ entries \in [Pubs -> Nat]
    /\ runs \in [RunIds -> Run \union {NoRun}]
    /\ jobs \subseteq Job
    /\ worker \in [Workers -> Busy \union {Idle}]
    /\ announced \in [RunIds -> Seq(Outcome)]
    /\ executions \in [RunIds -> Nat]
    /\ lost \subseteq Job
    /\ coreFaults \in Nat /\ workerCrashes \in Nat

\* Jobs that are queued or that a worker is handling.
InFlight == jobs \union {worker[w].job : w \in {v \in Workers : worker[v] # Idle}}

RunJobsIn(js) == {j \in js : j.type = "RunDelayedAutomation"}

CancelOf(r, js) == \E j \in js : j.type = "CancelScheduledAutomation" /\ j.run = r

\* A delayed job never refers to a run that is not stored, or to a run of
\* another automation or pub: the run is inserted before the job is added and
\* its id is not used again.
DelayedJobHasRun ==
    \A j \in RunJobsIn(InFlight) :
        /\ runs[j.run] # NoRun
        /\ runs[j.run].automation = j.automation
        /\ runs[j.run].pub = j.pub

\* However often a pub re-enters a stage, and although locked jobs can return to
\* the queue, at most one delayed job per automation and pub is waiting.
OneJobPerKey ==
    \A i, j \in RunJobsIn(jobs) :
        JobKey(i.automation, i.pub) = JobKey(j.automation, j.pub) => i = j

\* A run's actions are started, and its outcome is announced to the automations
\* that watch it, once per delivery of its job: errors never cause a retry.
OncePerDelivery ==
    \A r \in RunIds :
        /\ executions[r] <= 1 + workerCrashes
        /\ Len(announced[r]) <= 1 + workerCrashes

\* One stage entry gives an automation one run, unless a worker crash delivers
\* the scheduling request again.
OneRunPerEntry ==
    workerCrashes = 0 =>
        \A q, r \in RunIds :
            (/\ runs[q] # NoRun /\ runs[r] # NoRun
             /\ runs[q].automation = runs[r].automation
             /\ runs[q].pub = runs[r].pub
             /\ runs[q].entry = runs[r].entry) => q = r

\* A delayed job that waits although the pub has left the stage entry it is for
\* is about to be cancelled: the leave trigger found its run.  The exceptions:
\* the job was queued after the pub had left, or the cancellation was lost in a
\* failure of core.
StaleJobIsBeingCancelled ==
    workerCrashes = 0 =>
        \A j \in RunJobsIn(jobs) :
            \/ Current(j.run)
            \/ j.late
            \/ CancelOf(j.run, InFlight \union lost)

\* Only what concerns the same automation and the same pub takes a delayed job
\* from the queue: a worker that runs it, a newer schedule or a cancellation.
TakenByItsOwn ==
    [][\A j \in RunJobsIn(jobs \ jobs') :
          \/ \E w \in Workers : worker'[w] # Idle /\ worker'[w].job = j
          \/ \E w \in Workers :
                /\ worker[w] # Idle
                /\ LET k == worker[w].job IN
                   \/ /\ k.type = "ScheduleDelayedAutomation"
                      /\ k.automation = j.automation /\ k.pub = j.pub
                   \/ /\ k.type = "CancelScheduledAutomation"
                      /\ runs[k.run].automation = j.automation
                      /\ runs[k.run].pub = j.pub]_vars

\* A cancellation of some run of the same automation and pub is on its way.
CancelThreatens(r) ==
    \E j \in InFlight :
        /\ j.type = "CancelScheduledAutomation"
        /\ runs[j.run].automation = runs[r].automation
        /\ runs[j.run].pub = runs[r].pub

Waiting(r) == \E j \in RunJobsIn(jobs) : j.run = r

Executing(a, p) ==
    \E w \in Workers : /\ At(w, "RunDelayedAutomation", "execute")
                       /\ JobKey(worker[w].job.automation, worker[w].job.pub) = JobKey(a, p)

\* A pub with a waiting run that stays in the stage gets the automation's actions
\* executed, if no cancellation of an earlier run is still on its way (perhaps
\* under an earlier run, whose late job has replaced the newer one).
StayingPubIsServed ==
    \A r \in RunIds :
        (Waiting(r) /\ Current(r) /\ ~CancelThreatens(r))
            ~> (~Current(r) \/ Executing(runs[r].automation, runs[r].pub))

\* A stored run as its users see it: without its action runs.
Seen(r) == [automation |-> runs[r].automation, pub |-> runs[r].pub,
            entry |-> runs[r].entry, status |-> runs[r].status]

SeenRuns == [r \in {q \in RunIds : runs[q] # NoRun} |-> Seen(r)]

\* However the jobs are queued, replaced, removed, lost and delivered again, what
\* becomes of the pubs and the runs is what DelayedRuns promises.
Promise == INSTANCE DelayedRuns WITH runs <- SeenRuns, crashes <- workerCrashes

ImplementsDelayedRuns == Promise!Spec
=============================================================================
