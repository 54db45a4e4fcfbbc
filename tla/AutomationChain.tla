--------------------------- MODULE AutomationChain ---------------------------
(***************************************************************************)
(* Automations that start each other.  When all actions of a run are done  *)
(* the trigger compute_automation_run_status queues a RunAutomation event  *)
(* for every automation that watches this one and this outcome.  The event *)
(* carries the stack of the runs that led to it, and runAutomation refuses *)
(* a stack that is too long.  Nothing else stops automations that start    *)
(* each other in a circle (see AutomationGraph for how they come to be).   *)
(***************************************************************************)
EXTENDS ChainedAutomations

CONSTANTS
    RunIds,
    Workers,        \* slots of the jobs worker
    Requests,       \* requests of users and webhooks that core handles at a time
    OnSuccess,      \* the sources of each automation's automationSucceeded triggers
    OnFailure,      \* the sources of its automationFailed triggers
    Conditional,    \* automations with a condition evaluated on execution
    Resolving,      \* automations whose resolver may find a pub
    WalkDepth,      \* how deep build_automation_run_stack goes
    NoRun, Idle,
    MaxStarts,      \* bound: stage events and requests that start an automation
    MaxCoreFaults,  \* bound: requests that die inside core
    MaxWorkerCrashes    \* bound: worker crashes, each redelivering a job

ASSUME ConstantsAssumption ==
    /\ OnSuccess \in [Automations -> SUBSET Automations]
    /\ OnFailure \in [Automations -> SUBSET Automations]
    /\ Conditional \subseteq Automations /\ Resolving \subseteq Automations
    /\ WalkDepth \in Nat /\ MaxStackDepth <= WalkDepth
    /\ MaxStarts \in Nat /\ MaxCoreFaults \in Nat /\ MaxWorkerCrashes \in Nat
    /\ NoRun \notin RunIds /\ Workers \cap Requests = {}

VARIABLES
    runs,       \* automation_runs
    jobs,       \* graphile jobs no worker has locked
    worker,     \* what each worker slot and request is doing
    handled,    \* history: jobs that core has been through with
    starts, coreFaults, workerCrashes

vars == <<runs, jobs, worker, handled, starts, coreFaults, workerCrashes>>

-----------------------------------------------------------------------------
(* The tables and the queue *)

Outcome == {"success", "failure"}

\* A run operates on a pub or on the json body of a webhook.
Input == {"pub", "json"}

Run == [automation : Automations, source : RunIds \union {NoRun}, input : Input,
        status : Outcome \union {"scheduled"}]

\* start numbers stage events and requests and is 0 in an event of a run.
RunAutomation == [automation : Automations, stack : Seq(RunIds), input : Input, start : Nat]

Slots == Workers \union Requests

Busy == [job : RunAutomation, pc : {"start", "execute"},
         run : RunIds \union {NoRun}, delivered : BOOLEAN]

ASSUME SentinelAssumption == NoRun \notin Run /\ Idle \notin Busy

Stored(r) == runs[r] # NoRun

\* Mutant of Watchers: only success is announced.
SuccessWatchers(a, o) == {b \in Automations : o = "success" /\ a \in OnSuccess[b]}

\* The automations with a trigger for this outcome of automation a.
Watchers(a, o) ==
    {b \in Automations : a \in (IF o = "success" THEN OnSuccess[b] ELSE OnFailure[b])}

-----------------------------------------------------------------------------
(* build_automation_run_stack *)

\* Each run of the stack is the source of the next one.
Linked(s) == \A i \in 1..(Len(s) - 1) : Stored(s[i + 1]) /\ runs[s[i + 1]].source = s[i]

\* The walk from run r along sourceAutomationRunId, the nearest ancestor last:
\* it ends at a run without a source or at the depth limit.
IsWalk(s, r) ==
    IF runs[r].source = NoRun THEN s = <<>>
    ELSE /\ s # <<>>
         /\ s[Len(s)] = runs[r].source
         /\ Linked(s)
         /\ Stored(s[1])
         /\ runs[s[1]].source = NoRun \/ Len(s) = WalkDepth + 1

Walks == UNION {[1..n -> RunIds] : n \in 0..(WalkDepth + 1)}

\* Mutant of RunStack: only the immediate source is put on the stack.
SourceOnly(r) == IF runs[r].source = NoRun THEN <<>> ELSE <<runs[r].source>>

\* Mutant of RunStack: the missing source of the first run is put on the stack too.
NullOnStack(r) == <<runs[r].source>>

RunStack(r) == CHOOSE s \in Walks : IsWalk(s, r)

-----------------------------------------------------------------------------
(* Starting automations *)

Init ==
    /\ runs = [r \in RunIds |-> NoRun]
    /\ jobs = {}
    /\ worker = [w \in Slots |-> Idle]
    /\ handled = {}
    /\ starts = 0 /\ coreFaults = 0 /\ workerCrashes = 0

Start(a, input) ==
    [automation |-> a, stack |-> <<>>, input |-> input, start |-> starts + 1]

Take(j) == [job |-> j, pc |-> "start", run |-> NoRun, delivered |-> TRUE]

\* emit_pub_stage_change_event: a pub enters or leaves the stage.
StageEvent(a) ==
    /\ starts < MaxStarts
    /\ starts' = starts + 1
    /\ jobs' = jobs \union {Start(a, "pub")}
    /\ UNCHANGED <<runs, worker, handled, coreFaults, workerCrashes>>

\* A user runs the automation on a pub, or a webhook is called with a json body:
\* core handles the request itself.
Request(q, a, input) ==
    /\ starts < MaxStarts
    /\ worker[q] = Idle
    /\ starts' = starts + 1
    /\ worker' = [worker EXCEPT ![q] = Take(Start(a, input))]
    /\ UNCHANGED <<runs, jobs, handled, coreFaults, workerCrashes>>

Pick(w, j) ==
    /\ worker[w] = Idle
    /\ jobs' = jobs \ {j}
    /\ worker' = [worker EXCEPT ![w] = Take(j)]
    /\ UNCHANGED <<runs, handled, starts, coreFaults, workerCrashes>>

\* The payload schema of RunAutomation wants a pubId: the event of a run without a
\* pub is logged as invalid and never reaches core.
InvalidPayload(w) == w \in Workers /\ worker[w].job.input # "pub"

-----------------------------------------------------------------------------
(* runAutomation *)

At(w, pc) == worker[w] # Idle /\ worker[w].pc = pc

\* emitEvent swallows every error: however the handler ends, the job is done.
Done(w) ==
    /\ worker' = [worker EXCEPT ![w] = Idle]
    /\ handled' = handled \union {worker[w].job}

\* Mutant of StackTooDeep: the depth is not limited.
NeverTooDeep(s) == FALSE

\* Mutant of StackTooDeep: the limit is off by one.
OneDeeper(s) == Len(s) > MaxStackDepth + 1

StackTooDeep(s) == Len(s) > MaxStackDepth

RejectPayload(w) ==
    /\ At(w, "start") /\ InvalidPayload(w)
    /\ worker' = [worker EXCEPT ![w] = Idle]
    /\ UNCHANGED <<runs, jobs, handled, starts, coreFaults, workerCrashes>>

Refuse(w) ==
    /\ At(w, "start") /\ ~InvalidPayload(w)
    /\ StackTooDeep(worker[w].job.stack)
    /\ Done(w)
    /\ UNCHANGED <<runs, jobs, starts, coreFaults, workerCrashes>>

\* The condition does not hold or cannot be evaluated: no run is stored.
NotMet(w) ==
    /\ At(w, "start") /\ ~InvalidPayload(w)
    /\ ~StackTooDeep(worker[w].job.stack)
    /\ worker[w].job.automation \in Conditional
    /\ Done(w)
    /\ UNCHANGED <<runs, jobs, starts, coreFaults, workerCrashes>>

\* gen_random_uuid(): any id not in use, they are interchangeable.
FreshRun == CHOOSE r \in RunIds : ~Stored(r)

\* sourceAutomationRunId = stack.at(-1)
SourceOf(s) == IF s = <<>> THEN NoRun ELSE s[Len(s)]

\* The input after the resolver: a pub found by it replaces or joins the json.
ResolvedInputs(j) == {j.input} \union (IF j.automation \in Resolving THEN {"pub"} ELSE {})

InsertRun(w, input) ==
    /\ At(w, "start") /\ ~InvalidPayload(w)
    /\ \E r \in RunIds : ~Stored(r)
    /\ LET j == worker[w].job IN
       /\ ~StackTooDeep(j.stack)
       /\ input \in ResolvedInputs(j)
       /\ runs' = [runs EXCEPT ![FreshRun] =
                     [automation |-> j.automation, source |-> SourceOf(j.stack),
                      input |-> input, status |-> "scheduled"]]
    /\ worker' = [worker EXCEPT ![w].pc = "execute", ![w].run = FreshRun]
    /\ UNCHANGED <<jobs, handled, starts, coreFaults, workerCrashes>>

\* compute_automation_run_status on a terminal status: one event per watching
\* automation, whose stack is that of the run and the run itself.
Followers(r, o) ==
    {[automation |-> b, stack |-> Append(RunStack(r), r), input |-> runs[r].input,
      start |-> 0]
     : b \in Watchers(runs[r].automation, o)}

\* The actions have run, the outcome is stored and announced.
Finish(w, o) ==
    /\ At(w, "execute")
    /\ runs' = [runs EXCEPT ![worker[w].run].status = o]
    /\ jobs' = jobs \union Followers(worker[w].run, o)
    /\ Done(w)
    /\ UNCHANGED <<starts, coreFaults, workerCrashes>>

\* Mutant of CoreFault: emitEvent rethrows, so graphile retries the job.
CoreFaultRetried(w) ==
    /\ worker[w] # Idle /\ w \in Workers
    /\ coreFaults < MaxCoreFaults
    /\ coreFaults' = coreFaults + 1
    /\ worker' = [worker EXCEPT ![w] = Idle]
    /\ jobs' = jobs \union {worker[w].job}
    /\ UNCHANGED <<runs, handled, starts, workerCrashes>>

\* Core dies or a statement fails: the error is logged and the job is done.
CoreFault(w) ==
    /\ worker[w] # Idle
    /\ coreFaults < MaxCoreFaults
    /\ coreFaults' = coreFaults + 1
    /\ Done(w)
    /\ UNCHANGED <<runs, jobs, starts, workerCrashes>>

\* The worker process dies while core goes on: the job is delivered again.
WorkerCrash(w) ==
    /\ w \in Workers
    /\ worker[w] # Idle /\ worker[w].delivered
    /\ workerCrashes < MaxWorkerCrashes
    /\ workerCrashes' = workerCrashes + 1
    /\ jobs' = jobs \union {worker[w].job}
    /\ worker' = [worker EXCEPT ![w].delivered = FALSE]
    /\ UNCHANGED <<runs, handled, starts, coreFaults>>

Handle(w) ==
    \/ RejectPayload(w) \/ Refuse(w) \/ NotMet(w)
    \/ \E input \in Input : InsertRun(w, input)
    \/ \E o \in Outcome : Finish(w, o)

PickAny == \E w \in Workers, j \in jobs : Pick(w, j)

Next ==
    \/ \E a \in Automations :
          \/ StageEvent(a)
          \/ \E q \in Requests, input \in Input : Request(q, a, input)
    \/ PickAny
    \/ \E w \in Slots : Handle(w) \/ CoreFault(w) \/ WorkerCrash(w)

Spec == Init /\ [][Next]_vars

\* graphile hands out every job and core gets on with every request.
FairSpec == Spec /\ WF_vars(PickAny) /\ \A w \in Slots : WF_vars(Handle(w))

-----------------------------------------------------------------------------
(* Properties *)

\* Every variable holds values of its type.
TypeOK ==
    /\ runs \in [RunIds -> Run \union {NoRun}]
    /\ jobs \subseteq RunAutomation
    /\ worker \in [Slots -> Busy \union {Idle}]
    /\ handled \subseteq RunAutomation
    /\ starts \in Nat /\ coreFaults \in Nat /\ workerCrashes \in Nat

JobsAbout == jobs \union {worker[w].job : w \in {v \in Slots : worker[v] # Idle}}

\* A complete line of stored runs, each the source of the next one.
IsLine(s) ==
    s # <<>> => Stored(s[1]) /\ runs[s[1]].source = NoRun /\ Linked(s)

\* The stack of every event, rebuilt by the database on each announcement, is the
\* complete line of stored runs that led to it: none is missing or repeated.
StacksComplete == \A j \in JobsAbout : IsLine(j.stack)

Lines(n) == {s \in UNION {[1..m -> RunIds] : m \in 0..n} : IsLine(s)}

\* Every stored run has at most MaxStackDepth runs before it, also when the
\* automations start each other in a circle.
DepthBounded ==
    \A r \in RunIds :
        Stored(r) => \E s \in Lines(MaxStackDepth) : runs[r].source = SourceOf(s)

\* While no worker crashes, a run has at most one follower per automation.
OneFollower ==
    workerCrashes = 0 =>
        \A q, r \in RunIds :
            (Stored(q) /\ Stored(r) /\ q # r /\ runs[q].source # NoRun
             /\ runs[q].source = runs[r].source)
                => runs[q].automation # runs[r].automation

\* Automation b has a trigger for outcome o of automation a.
Watches(b, a, o) ==
    \/ o = "success" /\ a \in OnSuccess[b]
    \/ o = "failure" /\ a \in OnFailure[b]

\* A run with a source belongs to an automation that watches the outcome its source
\* ended with.
FollowersMatchOutcome ==
    \A r \in RunIds :
        (Stored(r) /\ runs[r].source # NoRun) =>
            LET q == runs[runs[r].source] IN
            /\ q.status \in Outcome
            /\ Watches(runs[r].automation, q.automation, q.status)

\* Whatever circle the triggers contain, a bounded number of stage events and
\* requests eventually leaves nothing queued or running any more.
ComesToRest == <>[](jobs = {} /\ \A w \in Slots : worker[w] = Idle)

\* Core gets through with an event for automation b that comes from run r.
Served(b, r) == \E j \in handled : j.automation = b /\ SourceOf(j.stack) = r

\* Whoever watches the outcome of a run on a pub is served.
PubWatchersServed ==
    \A r \in RunIds, b \in Automations, o \in Outcome :
        (/\ Stored(r) /\ runs[r].status = o /\ runs[r].input = "pub"
         /\ Watches(b, runs[r].automation, o)) ~> Served(b, r)

\* However the events are queued, refused, delivered twice and lost, what becomes
\* of the runs is what RunForest promises: every step is one of its steps or
\* changes no run.
Forest == INSTANCE RunForest

ImplementsRunForest == Forest!Spec
=============================================================================
