---------------------- MODULE DelayedAutomation_proofs ----------------------
(***************************************************************************)
(* Safety of the delayed automations, for every number of pubs, workers,   *)
(* automations and faults.  The inductive invariant IInv adds to the       *)
(* properties what they rest on: which runs the jobs and the handlers may  *)
(* refer to, and who may own a job key.                                    *)
(***************************************************************************)
EXTENDS DelayedAutomation, FiniteSetTheorems, TLAPS

\* The run a job names is stored in the table rs and is the one the payload
\* describes.
Known(rs, j) ==
    /\ j.type = "RunDelayedAutomation" =>
          /\ rs[j.run] # NoRun
          /\ rs[j.run].automation = j.automation
          /\ rs[j.run].pub = j.pub
    /\ j.type = "CancelScheduledAutomation" => rs[j.run] # NoRun

\* What a handler may rely on: its job's run and, once stored, its new run.
Sound(rs, b) ==
    b # Idle =>
        /\ Known(rs, b.job)
        /\ b.pc \in {"insert", "arm"} => b.job.type = "ScheduleDelayedAutomation"
        /\ b.pc = "arm" =>
              /\ b.run \in RunIds
              /\ rs[b.run] # NoRun
              /\ rs[b.run].automation = b.job.automation
              /\ rs[b.run].pub = b.job.pub

JobsKnown == \A j \in jobs : Known(runs, j)

WorkersSound == \A w \in Workers : Sound(runs, worker[w])

\* No run disappears or changes hands.
Kept ==
    \A q \in RunIds : runs[q] # NoRun =>
        /\ runs'[q] # NoRun
        /\ runs'[q].automation = runs[q].automation
        /\ runs'[q].pub = runs[q].pub
        /\ runs'[q].entry = runs[q].entry

\* The handler's job would return to the queue with its key.
Owns(w) ==
    /\ worker[w] # Idle
    /\ worker[w].job.type = "RunDelayedAutomation"
    /\ worker[w].keyed /\ worker[w].delivered

KeyOf(w) == JobKey(worker[w].job.automation, worker[w].job.pub)

KeysOwnedOnce ==
    /\ \A w \in Workers : Owns(w) => \A j \in jobs : ~HasKey(j, KeyOf(w))
    /\ \A v, w \in Workers : (Owns(v) /\ Owns(w) /\ KeyOf(v) = KeyOf(w)) => v = w

\* The status stored with a run is that of its rows: StatusAfter ignores rows
\* that stay the same.
StatusIsAggregate ==
    \A r \in RunIds : runs[r] # NoRun => runs[r].status = Aggregate(runs[r].rows)

IInv ==
    /\ TypeOK
    /\ JobsKnown
    /\ WorkersSound
    /\ StatusIsAggregate

KInv == KeysOwnedOnce /\ OneJobPerKey

-----------------------------------------------------------------------------
(* What the tables' operators do *)

LEMMA AggregateType ==
    ASSUME NEW rows
    PROVE  Aggregate(rows) \in Status
  BY DEF Aggregate, Status, Outcome

LEMMA AllRowsType ==
    ASSUME NEW a \in Automations, NEW s \in Status
    PROVE  AllRows(a, s) \in Seq(Status)
<1>1. NActions[a] \in Nat
  BY ConstantsAssumption
<1>2. AllRows(a, s) \in [1..NActions[a] -> Status]
  BY <1>1 DEF AllRows
<1> QED
  BY <1>1, <1>2

\* Inserting a run keeps the table well-formed and its status the aggregate.
LEMMA InitRunType ==
    ASSUME NEW a \in Automations, NEW p \in Pubs, NEW e \in Nat
    PROVE  /\ InitRun(a, p, e) \in Run
           /\ InitRun(a, p, e).automation = a
           /\ InitRun(a, p, e).pub = p
           /\ InitRun(a, p, e).status = Aggregate(InitRun(a, p, e).rows)
  BY AggregateType, AllRowsType DEF InitRun, Run, Status

\* Writing action runs keeps the table well-formed, keeps the identity of every
\* run and leaves every status the aggregate of the rows.
LEMMA WriteRowsCorrect ==
    ASSUME IInv, NEW r \in RunIds, NEW rows \in Seq(Status),
           runs[r] # NoRun, WriteRows(r, rows)
    PROVE  /\ runs' \in [RunIds -> Run \union {NoRun}]
           /\ announced' \in [RunIds -> Seq(Outcome)]
           /\ StatusIsAggregate'
           /\ Kept
<1> DEFINE new == StatusAfter(runs[r], rows)
<1>1. runs[r] \in Run
  BY DEF IInv, TypeOK
<1>2. new \in Status /\ new = Aggregate(rows)
  BY <1>1, AggregateType DEF StatusAfter, Run, IInv, StatusIsAggregate
<1>3. runs' = [runs EXCEPT ![r] = [runs[r] EXCEPT !.rows = rows, !.status = new]]
  BY DEF WriteRows
<1> DEFINE upd == [runs[r] EXCEPT !.rows = rows, !.status = new]
<1>4. /\ upd \in Run
      /\ upd.automation = runs[r].automation /\ upd.pub = runs[r].pub
      /\ upd.entry = runs[r].entry
      /\ upd.rows = rows /\ upd.status = new
  BY <1>1, <1>2 DEF Run
<1> HIDE DEF upd, new
<1>5. runs' = [runs EXCEPT ![r] = upd] /\ runs \in [RunIds -> Run \union {NoRun}]
  BY <1>3 DEF upd, IInv, TypeOK
<1>6. announced' \in [RunIds -> Seq(Outcome)]
  <2>1. announced \in [RunIds -> Seq(Outcome)]
    BY DEF IInv, TypeOK
  <2>2. CASE new \in Outcome /\ new # runs[r].status
    BY <2>1, <2>2 DEF WriteRows, new
  <2>3. CASE ~(new \in Outcome /\ new # runs[r].status)
    BY <2>1, <2>3 DEF WriteRows, new
  <2> QED BY <2>2, <2>3
<1>7. \A q \in RunIds : q # r => runs'[q] = runs[q]
  BY <1>5
<1>8. runs'[r] = upd
  BY <1>5
<1>9. upd # NoRun
  BY <1>4, SentinelAssumption
<1> QED
  BY <1>2, <1>4, <1>5, <1>6, <1>7, <1>8, <1>9 DEF IInv, StatusIsAggregate, Kept

\* What is known stays known as long as the runs are kept.
LEMMA StillKnown ==
    ASSUME Kept, NEW j \in Job, Known(runs, j)
    PROVE  Known(runs', j)
<1>1. j.type \in {"RunDelayedAutomation", "CancelScheduledAutomation"} => j.run \in RunIds
  BY DEF Job, ScheduleJob, RunJob, CancelJob
<1> QED
  BY <1>1 DEF Known, Kept

LEMMA StillSound ==
    ASSUME Kept, NEW b \in Busy \union {Idle}, Sound(runs, b)
    PROVE  Sound(runs', b)
<1>1. b # Idle => b.job \in Job
  BY DEF Busy
<1> QED
  BY <1>1, StillKnown DEF Sound, Kept

\* The jobs the stage triggers add are well-formed and name stored runs.
LEMMA TriggerJobs ==
    ASSUME IInv, NEW p \in Pubs, NEW s, NEW e \in Nat
    PROVE  \A j \in ScheduleJobs(p, s, e) \union CancelJobs(p, s, e) :
              j \in Job /\ Known(runs, j) /\ j.type # "RunDelayedAutomation"
<1>1. \A j \in ScheduleJobs(p, s, e) :
        j \in ScheduleJob /\ j.type = "ScheduleDelayedAutomation"
  BY DEF ScheduleJobs, ScheduleJob
<1>2. ASSUME NEW j \in CancelJobs(p, s, e)
      PROVE  j \in CancelJob /\ j.type = "CancelScheduledAutomation" /\ runs[j.run] # NoRun
  <2>1. PICK r \in RunIds : \E i \in DOMAIN runs[r].rows :
          /\ runs[r] # NoRun
          /\ j = [type |-> "CancelScheduledAutomation", run |-> r, row |-> i, leave |-> e]
    BY <1>2 DEF CancelJobs, RowsToCancel
  <2>2. runs[r].rows \in Seq(Status)
    BY <2>1 DEF IInv, TypeOK, Run
  <2>3. \A i \in DOMAIN runs[r].rows : i \in Nat
    BY <2>2
  <2> QED BY <2>1, <2>3 DEF CancelJob
<1> QED
  BY <1>1, <1>2 DEF Known, Job

\* The shape of every step: the runs are kept, and the jobs and handlers that
\* are new or changed are known and sound.
LEMMA Preserved ==
    ASSUME IInv, TypeOK', StatusIsAggregate', Kept,
           \A j \in jobs' : j \in jobs \/ Known(runs', j),
           \A w \in Workers : worker'[w] = worker[w] \/ Sound(runs', worker'[w])
    PROVE  IInv'
<1>1. JobsKnown'
  BY StillKnown DEF IInv, TypeOK, JobsKnown
<1>2. WorkersSound'
  BY StillSound DEF IInv, TypeOK, WorkersSound
<1> QED
  BY <1>1, <1>2 DEF IInv

\* Taking a key from the handlers that hold it leaves them well-formed.
LEMMA UnkeyedSound ==
    ASSUME IInv, NEW key
    PROVE  /\ Unkeyed(worker, key) \in [Workers -> Busy \union {Idle}]
           /\ \A v \in Workers : Sound(runs, Unkeyed(worker, key)[v])
<1>1. ASSUME NEW v \in Workers
      PROVE  /\ Unkeyed(worker, key)[v] \in Busy \union {Idle}
             /\ Sound(runs, Unkeyed(worker, key)[v])
  <2>1. worker[v] \in Busy \union {Idle} /\ Sound(runs, worker[v])
    BY DEF IInv, TypeOK, WorkersSound
  <2>2. CASE worker[v] = Idle
    BY <2>1, <2>2 DEF Unkeyed
  <2>3. CASE worker[v] # Idle
    <3> DEFINE b == [worker[v] EXCEPT !.keyed = FALSE]
    <3>1. b \in Busy /\ Sound(runs, b)
      BY <2>1, <2>3 DEF Busy, Sound
    <3>2. Unkeyed(worker, key)[v] \in {b, worker[v]}
      BY <2>3 DEF Unkeyed
    <3> QED BY <2>1, <3>1, <3>2
  <2> QED BY <2>2, <2>3
<1> QED
  BY <1>1 DEF Unkeyed

-----------------------------------------------------------------------------
(* IInv is inductive *)

LEMMA InitIInv == Init => IInv
  BY DEF Init, IInv, TypeOK, JobsKnown, WorkersSound, Sound, StatusIsAggregate

LEMMA StepIInv == IInv /\ [Next]_vars => IInv'
<1> SUFFICES ASSUME IInv, [Next]_vars PROVE IInv'
  OBVIOUS
<1> USE DEF IInv
<1>t. TypeOK
  OBVIOUS
<1>b. \A w \in Workers : worker[w] # Idle =>
        worker[w] \in Busy /\ worker[w].job \in Job /\ Sound(runs, worker[w])
  BY DEF TypeOK, Busy, WorkersSound
<1>same. runs' = runs => Kept /\ StatusIsAggregate'
  BY DEF StatusIsAggregate, Kept
<1>run. ASSUME NEW w \in Workers, worker[w] # Idle,
               worker[w].job.type = "RunDelayedAutomation"
        PROVE  /\ worker[w].job \in RunJob
               /\ worker[w].job.automation \in Automations
               /\ worker[w].job.pub \in Pubs
               /\ worker[w].job.run \in RunIds
               /\ runs[worker[w].job.run] # NoRun
  BY <1>run, <1>b DEF Job, ScheduleJob, RunJob, CancelJob, Sound, Known
<1>1. ASSUME NEW p \in Pubs, NEW s \in Stages, MovePub(p, s)
      PROVE  IInv'
  <2>1. entries[p] \in Nat /\ entries[p] + 1 \in Nat
    BY <1>t DEF TypeOK
  <2>2. \A j \in jobs' : j \in jobs \/ (j \in Job /\ Known(runs, j))
    BY <1>1, <2>1, TriggerJobs DEF MovePub, MoveTo
  <2>3. TypeOK'
    BY <1>1, <1>t, <2>1, <2>2 DEF MovePub, MoveTo, TypeOK
  <2> QED BY <1>1, <2>2, <2>3, <1>same, Preserved DEF MovePub
<1>2. ASSUME NEW p \in Pubs, RemoveFromStage(p)
      PROVE  IInv'
  <2>1. entries[p] \in Nat
    BY <1>t DEF TypeOK
  <2>2. \A j \in jobs' : j \in jobs \/ (j \in Job /\ Known(runs, j))
    BY <1>2, <2>1, TriggerJobs DEF RemoveFromStage
  <2>3. TypeOK'
    BY <1>2, <1>t, <2>2 DEF RemoveFromStage, TypeOK
  <2> QED BY <1>2, <2>2, <2>3, <1>same, Preserved DEF RemoveFromStage
<1>3. ASSUME NEW w \in Workers, NEW j \in jobs, Pick(w, j)
      PROVE  IInv'
  <2> DEFINE b == [job |-> j, pc |-> "start", run |-> NoRun, results |-> <<>>,
                   keyed |-> TRUE, delivered |-> TRUE]
  <2>1. b \in Busy /\ Sound(runs, b)
    BY <1>t DEF TypeOK, Busy, Sound, JobsKnown
  <2>2. worker' = [worker EXCEPT ![w] = b]
    BY <1>3 DEF Pick
  <2>3. TypeOK'
    BY <1>3, <1>t, <2>1, <2>2 DEF Pick, TypeOK
  <2>4. \A v \in Workers : worker'[v] = worker[v] \/ Sound(runs', worker'[v])
    BY <1>3, <1>t, <2>1, <2>2 DEF Pick, TypeOK
  <2> QED BY <1>3, <2>3, <2>4, <1>same, Preserved DEF Pick
<1>4. ASSUME NEW w \in Workers, ScheduleCheck(w) \/ RunCheck(w)
      PROVE  IInv'
  <2>1. PICK pc \in {"insert", "mark"} :
          /\ worker' = [worker EXCEPT ![w].pc = pc]
          /\ pc = "insert" => worker[w].job.type = "ScheduleDelayedAutomation"
    BY <1>4 DEF ScheduleCheck, RunCheck, Goto, At
  <2> DEFINE b == [worker[w] EXCEPT !.pc = pc]
  <2>2. /\ worker[w] \in Busy /\ Sound(runs, worker[w]) /\ worker[w] # Idle
        /\ UNCHANGED <<stage, entries, runs, jobs, announced, executions, lost,
                       coreFaults, workerCrashes>>
    BY <1>4, <1>b DEF ScheduleCheck, RunCheck, At
  <2>3. b \in Busy /\ Sound(runs, b)
    BY <2>1, <2>2 DEF Busy, Sound
  <2>4. worker' = [worker EXCEPT ![w] = b]
    BY <2>1
  <2> HIDE DEF b
  <2>5. TypeOK'
    BY <1>t, <2>2, <2>3, <2>4 DEF TypeOK
  <2>6. \A v \in Workers : worker'[v] = worker[v] \/ Sound(runs', worker'[v])
    BY <1>t, <2>2, <2>3, <2>4 DEF TypeOK
  <2> QED BY <2>2, <2>5, <2>6, <1>same, Preserved
<1>5. ASSUME NEW w \in Workers, ScheduleRefused(w) \/ RunNotMet(w)
      PROVE  IInv'
  <2>1. /\ worker' = [worker EXCEPT ![w] = Idle]
        /\ UNCHANGED <<stage, entries, runs, jobs, announced, executions, lost,
                       coreFaults, workerCrashes>>
    BY <1>5 DEF ScheduleRefused, RunNotMet, Done
  <2>2. TypeOK'
    BY <1>t, <2>1 DEF TypeOK
  <2>3. \A v \in Workers : worker'[v] = worker[v] \/ Sound(runs', worker'[v])
    BY <1>t, <2>1 DEF TypeOK, Sound
  <2> QED BY <2>1, <2>2, <2>3, <1>same, Preserved
<1>6. ASSUME NEW w \in Workers, ScheduleInsert(w)
      PROVE  IInv'
  <2> DEFINE j == worker[w].job
             run == InitRun(j.automation, j.pub, j.entry)
             b == [worker[w] EXCEPT !.pc = "arm", !.run = FreshRun]
  <2>1. worker[w] \in Busy /\ worker[w] # Idle /\ j \in ScheduleJob /\ Sound(runs, worker[w])
    BY <1>6, <1>b DEF ScheduleInsert, At, Job, RunJob, CancelJob, ScheduleJob
  <2>2. FreshRun \in RunIds /\ runs[FreshRun] = NoRun
    BY <1>6 DEF ScheduleInsert, FreshRun
  <2>3. /\ run \in Run /\ run # NoRun
        /\ run.automation = j.automation /\ run.pub = j.pub
        /\ run.status = Aggregate(run.rows)
    BY <2>1, InitRunType, SentinelAssumption DEF ScheduleJob
  <2>4. /\ runs' = [runs EXCEPT ![FreshRun] = run]
        /\ worker' = [worker EXCEPT ![w] = b]
        /\ UNCHANGED <<stage, entries, jobs, announced, executions, lost,
                       coreFaults, workerCrashes>>
    BY <1>6 DEF ScheduleInsert
  <2>5. b \in Busy /\ b.job = j /\ b.pc = "arm" /\ b.run = FreshRun
    BY <2>1, <2>2 DEF Busy
  <2>6. j.type = "ScheduleDelayedAutomation"
    BY <2>1 DEF ScheduleJob
  <2> HIDE DEF run, b, j
  <2>7. TypeOK'
    BY <1>t, <2>2, <2>3, <2>4, <2>5 DEF TypeOK
  <2>8. Kept /\ runs'[FreshRun] = run
    BY <1>t, <2>2, <2>4 DEF TypeOK, Kept
  <2>9. StatusIsAggregate'
    BY <1>t, <2>2, <2>3, <2>4 DEF TypeOK, StatusIsAggregate
  <2>10. Sound(runs', b)
    BY <2>2, <2>3, <2>5, <2>6, <2>8 DEF Sound, Known
  <2>11. \A v \in Workers : worker'[v] = worker[v] \/ Sound(runs', worker'[v])
    BY <1>t, <2>4, <2>10 DEF TypeOK
  <2> QED BY <2>4, <2>7, <2>8, <2>9, <2>11, Preserved
<1>7. ASSUME NEW w \in Workers, ScheduleArm(w)
      PROVE  IInv'
  <2> DEFINE j == worker[w].job
             key == JobKey(j.automation, j.pub)
             new == [type |-> "RunDelayedAutomation", automation |-> j.automation,
                     pub |-> j.pub, run |-> worker[w].run, late |-> ~Current(worker[w].run)]
  <2>1. j \in ScheduleJob /\ Sound(runs, worker[w]) /\ worker[w] # Idle /\ worker[w].pc = "arm"
    BY <1>7, <1>b DEF ScheduleArm, At, Job, RunJob, CancelJob, ScheduleJob
  <2>2. new \in Job /\ Known(runs, new)
    BY <2>1 DEF Sound, Known, Job, RunJob, ScheduleJob, Current
  <2>3. /\ jobs' = WithoutKey(jobs, key) \union {new}
        /\ worker' = [Unkeyed(worker, key) EXCEPT ![w] = Idle]
        /\ UNCHANGED <<stage, entries, runs, announced, executions, lost,
                       coreFaults, workerCrashes>>
    BY <1>7 DEF ScheduleArm
  <2> HIDE DEF j, key, new
  <2>4. worker' \in [Workers -> Busy \union {Idle}] /\ \A v \in Workers : Sound(runs, worker'[v])
    BY <2>3, UnkeyedSound DEF Sound
  <2>5. \A k \in jobs' : k \in jobs \/ k = new
    BY <2>3 DEF WithoutKey
  <2>6. TypeOK'
    BY <1>t, <2>2, <2>3, <2>4, <2>5 DEF TypeOK
  <2> QED BY <2>2, <2>3, <2>4, <2>5, <2>6, <1>same, Preserved
<1>8. ASSUME NEW w \in Workers, CancelScheduled(w)
      PROVE  IInv'
  <2>1. PICK key :
          /\ jobs' = WithoutKey(jobs, key)
          /\ worker' = [Unkeyed(worker, key) EXCEPT ![w] = Idle]
          /\ UNCHANGED <<stage, entries, runs, announced, executions, lost,
                         coreFaults, workerCrashes>>
    BY <1>8 DEF CancelScheduled
  <2>2. worker' \in [Workers -> Busy \union {Idle}] /\ \A v \in Workers : Sound(runs, worker'[v])
    BY <2>1, UnkeyedSound DEF Sound
  <2>3. \A k \in jobs' : k \in jobs
    BY <2>1 DEF WithoutKey
  <2>4. TypeOK'
    BY <1>t, <2>1, <2>2, <2>3 DEF TypeOK
  <2> QED BY <2>1, <2>2, <2>3, <2>4, <1>same, Preserved, SMTT(30)
<1>9. ASSUME NEW w \in Workers, RunCheckError(w)
      PROVE  IInv'
  <2> DEFINE j == worker[w].job
  <2>1. worker[w] # Idle /\ j.type = "RunDelayedAutomation"
    BY <1>9 DEF RunCheckError, At
  <2>2. AllRows(j.automation, "failure") \in Seq(Status)
    BY <2>1, <1>run, AllRowsType DEF Status, Outcome
  <2>3. /\ WriteRows(j.run, AllRows(j.automation, "failure"))
        /\ worker' = [worker EXCEPT ![w] = Idle]
        /\ UNCHANGED <<stage, entries, jobs, executions, lost, coreFaults, workerCrashes>>
    BY <1>9 DEF RunCheckError, Done
  <2>4. /\ runs' \in [RunIds -> Run \union {NoRun}]
        /\ announced' \in [RunIds -> Seq(Outcome)] /\ StatusIsAggregate' /\ Kept
    BY <2>1, <2>2, <2>3, <1>run, WriteRowsCorrect
  <2>5. TypeOK'
    BY <1>t, <2>3, <2>4 DEF TypeOK
  <2>6. \A v \in Workers : worker'[v] = worker[v] \/ Sound(runs', worker'[v])
    BY <1>t, <2>3 DEF TypeOK, Sound
  <2> QED BY <2>3, <2>4, <2>5, <2>6, Preserved
<1>10. ASSUME NEW w \in Workers, RunMark(w)
       PROVE  IInv'
  <2> DEFINE j == worker[w].job
             b == [worker[w] EXCEPT !.pc = "execute"]
  <2>1. worker[w] # Idle /\ j.type = "RunDelayedAutomation"
    BY <1>10 DEF RunMark, At
  <2>2. AllRows(j.automation, "scheduled") \in Seq(Status)
    BY <2>1, <1>run, AllRowsType DEF Status, Outcome
  <2>3. /\ WriteRows(j.run, AllRows(j.automation, "scheduled"))
        /\ worker' = [worker EXCEPT ![w] = b]
        /\ executions' = [executions EXCEPT ![j.run] = @ + 1]
        /\ UNCHANGED <<stage, entries, jobs, lost, coreFaults, workerCrashes>>
    BY <1>10 DEF RunMark, Goto
  <2>4. /\ runs' \in [RunIds -> Run \union {NoRun}]
        /\ announced' \in [RunIds -> Seq(Outcome)] /\ StatusIsAggregate' /\ Kept
    BY <2>1, <2>2, <2>3, <1>run, WriteRowsCorrect
  <2>5. b \in Busy /\ Sound(runs, b)
    BY <2>1, <1>b DEF Busy, Sound
  <2> HIDE DEF b
  <2>6. Sound(runs', b)
    BY <2>4, <2>5, StillSound
  <2>7. executions' \in [RunIds -> Nat]
    <3>1. j.run \in RunIds
      BY <2>1, <1>run
    <3>2. executions[j.run] + 1 \in Nat /\ executions \in [RunIds -> Nat]
      BY <1>t, <3>1 DEF TypeOK
    <3> HIDE DEF j
    <3> QED BY <2>3, <3>2
  <2>8. TypeOK'
    BY <1>t, <2>3, <2>4, <2>5, <2>7 DEF TypeOK
  <2>9. \A v \in Workers : worker'[v] = worker[v] \/ Sound(runs', worker'[v])
    BY <1>t, <2>3, <2>6 DEF TypeOK
  <2> QED BY <2>3, <2>4, <2>8, <2>9, Preserved
<1>res. ASSUME NEW w \in Workers, NEW o \in Outcome, worker[w] # Idle, Result(w, o)
        PROVE  /\ worker' \in [Workers -> Busy \union {Idle}]
               /\ \A v \in Workers : worker'[v] = worker[v] \/ Sound(runs, worker'[v])
  <2> DEFINE b == [worker[w] EXCEPT !.results = Append(@, o)]
  <2>1. b \in Busy /\ Sound(runs, b)
    BY <1>res, <1>b, SMTT(30) DEF Busy, Sound
  <2>2. worker' = [worker EXCEPT ![w] = b]
    BY <1>res DEF Result
  <2> HIDE DEF b
  <2> QED BY <1>t, <2>1, <2>2 DEF TypeOK
<1>11. ASSUME NEW w \in Workers, NEW o \in Outcome, RunAction(w, o)
       PROVE  IInv'
  <2>1. TypeOK'
    BY <1>11, <1>t, <1>res DEF RunAction, At, TypeOK
  <2> QED BY <1>11, <2>1, <1>res, <1>same, Preserved DEF RunAction, At
<1>12. ASSUME NEW w \in Workers, NEW s \in Stages, RunMove(w, s)
       PROVE  IInv'
  <2> DEFINE p == worker[w].job.pub
  <2>1. p \in Pubs /\ worker[w] # Idle
    BY <1>12, <1>run DEF RunMove, At
  <2>2. entries[p] \in Nat /\ entries[p] + 1 \in Nat
    BY <1>t, <2>1 DEF TypeOK
  <2>3. MoveTo(p, s) /\ Result(w, "success") /\ "success" \in Outcome
        /\ UNCHANGED <<runs, announced, executions, lost, coreFaults, workerCrashes>>
    BY <1>12 DEF RunMove, Outcome
  <2> HIDE DEF p
  <2>4. \A j \in jobs' : j \in jobs \/ (j \in Job /\ Known(runs, j))
    BY <2>1, <2>2, <2>3, TriggerJobs DEF MoveTo
  <2>5. /\ worker' \in [Workers -> Busy \union {Idle}]
        /\ \A v \in Workers : worker'[v] = worker[v] \/ Sound(runs, worker'[v])
    BY <2>1, <2>3, <1>res
  <2>6. TypeOK'
    BY <1>t, <2>1, <2>2, <2>3, <2>4, <2>5 DEF MoveTo, TypeOK
  <2> QED BY <2>3, <2>4, <2>5, <2>6, <1>same, Preserved
<1>13. ASSUME NEW w \in Workers, RunFinish(w)
       PROVE  IInv'
  <2> DEFINE j == worker[w].job
  <2>1. worker[w] # Idle /\ j.type = "RunDelayedAutomation"
    BY <1>13 DEF RunFinish, At
  <2>2. worker[w].results \in Seq(Status)
    BY <2>1, <1>b DEF Busy, Status, Outcome
  <2>3. /\ WriteRows(j.run, worker[w].results)
        /\ worker' = [worker EXCEPT ![w] = Idle]
        /\ UNCHANGED <<stage, entries, jobs, executions, lost, coreFaults, workerCrashes>>
    BY <1>13 DEF RunFinish, Done
  <2>4. /\ runs' \in [RunIds -> Run \union {NoRun}]
        /\ announced' \in [RunIds -> Seq(Outcome)] /\ StatusIsAggregate' /\ Kept
    BY <2>1, <2>2, <2>3, <1>run, WriteRowsCorrect
  <2>5. TypeOK'
    BY <1>t, <2>3, <2>4 DEF TypeOK
  <2>6. \A v \in Workers : worker'[v] = worker[v] \/ Sound(runs', worker'[v])
    BY <1>t, <2>3 DEF TypeOK, Sound
  <2> QED BY <2>3, <2>4, <2>5, <2>6, Preserved
<1>14. ASSUME NEW w \in Workers, CoreFault(w)
       PROVE  IInv'
  <2>1. TypeOK'
    BY <1>14, <1>t, <1>b DEF CoreFault, Done, TypeOK
  <2>2. \A v \in Workers : worker'[v] = worker[v] \/ Sound(runs', worker'[v])
    BY <1>14, <1>t DEF CoreFault, Done, TypeOK, Sound
  <2> QED BY <1>14, <2>1, <2>2, <1>same, Preserved DEF CoreFault
<1>15. ASSUME NEW w \in Workers, WorkerCrash(w)
       PROVE  IInv'
  <2> DEFINE b == [worker[w] EXCEPT !.delivered = FALSE]
  <2>1. b \in Busy /\ Sound(runs, b) /\ worker[w].job \in Job /\ Known(runs, worker[w].job)
    BY <1>15, <1>b DEF WorkerCrash, Busy, Sound
  <2>2. /\ worker' = [worker EXCEPT ![w] = b]
        /\ \A j \in jobs' : j \in jobs \/ j = worker[w].job
        /\ UNCHANGED <<stage, entries, runs, announced, executions, lost, coreFaults>>
        /\ workerCrashes' = workerCrashes + 1
    BY <1>15 DEF WorkerCrash
  <2> HIDE DEF b
  <2>3. TypeOK'
    BY <1>t, <2>1, <2>2 DEF TypeOK
  <2>4. \A v \in Workers : worker'[v] = worker[v] \/ Sound(runs', worker'[v])
    BY <1>t, <2>1, <2>2 DEF TypeOK
  <2> QED BY <2>1, <2>2, <2>3, <2>4, <1>same, Preserved
<1>16. CASE UNCHANGED vars
  <2>1. TypeOK'
    BY <1>16, <1>t DEF vars, TypeOK
  <2> QED BY <1>16, <2>1, <1>same, Preserved DEF vars
<1>17. CASE Next
  BY <1>17, <1>1, <1>2, <1>3, <1>4, <1>5, <1>6, <1>7, <1>8, <1>9, <1>10, <1>11, <1>12,
     <1>13, <1>14, <1>15 DEF Next, Move, PickAny, Handle, Fault
<1> QED
  BY <1>16, <1>17

\* Every variable keeps its type in all reachable states.
THEOREM TypeCorrect == Spec => []TypeOK
<1>1. IInv => TypeOK
  BY DEF IInv
<1> QED
  BY <1>1, InitIInv, StepIInv, PTL DEF Spec

\* A delayed job, queued or being handled, always refers to a stored run of the
\* automation and the pub it names.
THEOREM DelayedJobsHaveRuns == Spec => []DelayedJobHasRun
<1>1. IInv => DelayedJobHasRun
  BY DEF IInv, JobsKnown, WorkersSound, Sound, Known, DelayedJobHasRun, RunJobsIn, InFlight
<1> QED
  BY <1>1, InitIInv, StepIInv, PTL DEF Spec

-----------------------------------------------------------------------------
(* One waiting job per key *)

\* A step that queues no delayed job and lets nobody gain a key.
LEMMA NoKeyGained ==
    ASSUME KInv,
           \A k \in jobs' : k.type = "RunDelayedAutomation" => k \in jobs,
           \A w \in Workers : Owns(w)' => Owns(w) /\ worker'[w].job = worker[w].job
    PROVE  KInv'
  BY DEF KInv, KeysOwnedOnce, OneJobPerKey, Owns, KeyOf, RunJobsIn, HasKey

LEMMA StepKInv == IInv /\ KInv /\ [Next]_vars => KInv'
<1> SUFFICES ASSUME IInv, KInv, [Next]_vars PROVE KInv'
  OBVIOUS
<1>t. TypeOK
  BY DEF IInv
<1>d. worker \in [Workers -> Busy \union {Idle}] /\ jobs \subseteq Job
  BY <1>t DEF TypeOK
<1>same. worker' = worker =>
           \A w \in Workers : Owns(w)' => Owns(w) /\ worker'[w].job = worker[w].job
  BY DEF Owns
<1>moved. ASSUME NEW p \in Pubs, NEW s, MoveTo(p, s)
          PROVE  \A k \in jobs' : k.type = "RunDelayedAutomation" => k \in jobs
  <2>1. entries[p] \in Nat /\ entries[p] + 1 \in Nat
    BY <1>t DEF TypeOK
  <2> QED BY <1>moved, <2>1, TriggerJobs DEF MoveTo
<1>done. ASSUME NEW w \in Workers, worker' = [worker EXCEPT ![w] = Idle]
         PROVE  \A v \in Workers : Owns(v)' => Owns(v) /\ worker'[v].job = worker[v].job
  BY <1>done, <1>d DEF Owns
<1>1. ASSUME NEW p \in Pubs, NEW s \in Stages, MovePub(p, s)
      PROVE  KInv'
  BY <1>1, <1>moved, <1>same, NoKeyGained DEF MovePub
<1>2. ASSUME NEW p \in Pubs, RemoveFromStage(p)
      PROVE  KInv'
  <2>1. entries[p] \in Nat
    BY <1>t DEF TypeOK
  <2>2. \A k \in jobs' : k.type = "RunDelayedAutomation" => k \in jobs
    BY <1>2, <2>1, TriggerJobs DEF RemoveFromStage
  <2> QED BY <1>2, <2>2, <1>same, NoKeyGained DEF RemoveFromStage
<1>3. ASSUME NEW w \in Workers, NEW j \in jobs, Pick(w, j)
      PROVE  KInv'
  <2>1. /\ worker[w] = Idle /\ jobs' = jobs \ {j}
        /\ worker'[w].job = j
        /\ \A v \in Workers : v # w => worker'[v] = worker[v]
    BY <1>3, <1>d DEF Pick
  <2>2. OneJobPerKey'
    BY <2>1 DEF KInv, OneJobPerKey, RunJobsIn
  <2>3. \A v \in Workers : v # w /\ Owns(v)' => Owns(v) /\ worker'[v] = worker[v]
    BY <2>1 DEF Owns
  <2>4. \A v \in Workers : Owns(v)' => \A k \in jobs' : ~HasKey(k, KeyOf(v)')
    <3> SUFFICES ASSUME NEW v \in Workers, Owns(v)', NEW k \in jobs', HasKey(k, KeyOf(v)')
                 PROVE  FALSE
      BY DEF HasKey
    <3>1. CASE v = w
      BY <3>1, <2>1 DEF KInv, OneJobPerKey, RunJobsIn, HasKey, KeyOf, Owns
    <3>2. CASE v # w
      BY <3>2, <2>1, <2>3 DEF KInv, KeysOwnedOnce, KeyOf
    <3> QED BY <3>1, <3>2
  <2>5. \A v \in Workers : v # w /\ Owns(v)' /\ Owns(w)' => KeyOf(v)' # KeyOf(w)'
    <3> SUFFICES ASSUME NEW v \in Workers, v # w, Owns(v)', Owns(w)', KeyOf(v)' = KeyOf(w)'
                 PROVE  FALSE
      OBVIOUS
    <3>1. HasKey(j, KeyOf(v))
      BY <2>1, <2>3 DEF HasKey, KeyOf, Owns
    <3> QED BY <3>1, <2>3 DEF KInv, KeysOwnedOnce
  <2>6. \A u, v \in Workers : (u # w /\ v # w /\ Owns(u)' /\ Owns(v)' /\ KeyOf(u)' = KeyOf(v)')
                                 => u = v
    BY <2>3 DEF KInv, KeysOwnedOnce, KeyOf
  <2> QED BY <2>2, <2>4, <2>5, <2>6 DEF KInv, KeysOwnedOnce
<1>4. ASSUME NEW w \in Workers, ScheduleCheck(w) \/ RunCheck(w)
      PROVE  KInv'
  <2>1. PICK pc : worker' = [worker EXCEPT ![w].pc = pc]
    BY <1>4 DEF ScheduleCheck, RunCheck, Goto
  <2>2. jobs' = jobs /\ worker[w] \in Busy /\ worker[w] # Idle
    BY <1>4, <1>d DEF ScheduleCheck, RunCheck, At
  <2>3. \A v \in Workers : Owns(v)' => Owns(v) /\ worker'[v].job = worker[v].job
    BY <2>1, <2>2, <1>d DEF Owns, At, Busy
  <2> QED BY <2>2, <2>3, NoKeyGained
<1>5. ASSUME NEW w \in Workers,
             ScheduleRefused(w) \/ RunNotMet(w) \/ RunCheckError(w) \/ RunFinish(w) \/ CoreFault(w)
      PROVE  KInv'
  <2>1. worker' = [worker EXCEPT ![w] = Idle] /\ jobs' = jobs
    BY <1>5 DEF ScheduleRefused, RunNotMet, RunCheckError, RunFinish, CoreFault, Done
  <2> QED BY <2>1, <1>done, NoKeyGained
<1>6. ASSUME NEW w \in Workers, ScheduleInsert(w)
      PROVE  KInv'
  <2>1. worker' = [worker EXCEPT ![w].pc = "arm", ![w].run = FreshRun] /\ jobs' = jobs
        /\ worker[w] \in Busy /\ worker[w] # Idle
    BY <1>6, <1>d DEF ScheduleInsert, At
  <2>2. \A v \in Workers : Owns(v)' => Owns(v) /\ worker'[v].job = worker[v].job
    BY <2>1, <1>d DEF Owns, Busy
  <2> QED BY <2>1, <2>2, NoKeyGained
<1>un. ASSUME NEW w \in Workers, NEW key, worker' = [Unkeyed(worker, key) EXCEPT ![w] = Idle]
       PROVE  \A v \in Workers : Owns(v)' =>
                 Owns(v) /\ worker'[v].job = worker[v].job /\ KeyOf(v) # key
  <2> SUFFICES ASSUME NEW v \in Workers, Owns(v)'
               PROVE  Owns(v) /\ worker'[v].job = worker[v].job /\ KeyOf(v) # key
    OBVIOUS
  <2>1. v # w
    BY <1>un DEF Owns, Unkeyed
  <2>2. worker'[v] = IF worker[v] # Idle /\ HasKey(worker[v].job, key)
                     THEN [worker[v] EXCEPT !.keyed = FALSE] ELSE worker[v]
    BY <1>un, <2>1 DEF Unkeyed
  <2>3. worker[v] # Idle => worker[v] \in Busy
    BY <1>d
  <2>4. CASE worker[v] # Idle /\ HasKey(worker[v].job, key)
    <3>1. worker'[v].keyed = FALSE
      BY <2>2, <2>3, <2>4 DEF Busy
    <3> QED BY <3>1 DEF Owns
  <2>5. CASE ~(worker[v] # Idle /\ HasKey(worker[v].job, key))
    <3>1. worker'[v] = worker[v]
      BY <2>2, <2>5
    <3> QED BY <3>1, <2>5 DEF Owns, HasKey, KeyOf
  <2> QED BY <2>4, <2>5
<1>7. ASSUME NEW w \in Workers, ScheduleArm(w)
      PROVE  KInv'
  <2> DEFINE j == worker[w].job
             key == JobKey(j.automation, j.pub)
             new == [type |-> "RunDelayedAutomation", automation |-> j.automation,
                     pub |-> j.pub, run |-> worker[w].run, late |-> ~Current(worker[w].run)]
  <2>1. /\ jobs' = WithoutKey(jobs, key) \union {new}
        /\ worker' = [Unkeyed(worker, key) EXCEPT ![w] = Idle]
    BY <1>7 DEF ScheduleArm
  <2>2. HasKey(new, key)
    BY DEF HasKey
  <2>n. JobKey(new.automation, new.pub) = key
    OBVIOUS
  <2> HIDE DEF key, new
  <2>3. \A v \in Workers : Owns(v)' =>
           Owns(v) /\ worker'[v].job = worker[v].job /\ KeyOf(v) # key
    BY <2>1, <1>un
  <2>4. \A k \in jobs' : k = new \/ (k \in jobs /\ ~HasKey(k, key))
    BY <2>1 DEF WithoutKey
  <2>5. OneJobPerKey'
    BY <2>2, <2>n, <2>4 DEF KInv, OneJobPerKey, RunJobsIn, HasKey
  <2>6. \A v \in Workers : Owns(v)' => \A k \in jobs' : ~HasKey(k, KeyOf(v)')
    BY <2>n, <2>3, <2>4 DEF KInv, KeysOwnedOnce, HasKey, KeyOf
  <2>7. \A u, v \in Workers : (Owns(u)' /\ Owns(v)' /\ KeyOf(u)' = KeyOf(v)') => u = v
    BY <2>3 DEF KInv, KeysOwnedOnce, KeyOf
  <2> QED BY <2>5, <2>6, <2>7 DEF KInv, KeysOwnedOnce
<1>8. ASSUME NEW w \in Workers, CancelScheduled(w)
      PROVE  KInv'
  <2>1. PICK key :
          /\ jobs' = WithoutKey(jobs, key)
          /\ worker' = [Unkeyed(worker, key) EXCEPT ![w] = Idle]
    BY <1>8 DEF CancelScheduled
  <2> QED BY <2>1, <1>un, NoKeyGained DEF WithoutKey
<1>10. ASSUME NEW w \in Workers, RunMark(w)
       PROVE  KInv'
  <2>1. worker' = [worker EXCEPT ![w].pc = "execute"] /\ jobs' = jobs /\ worker[w] \in Busy
    BY <1>10, <1>d DEF RunMark, Goto, At
  <2>2. \A v \in Workers : Owns(v)' => Owns(v) /\ worker'[v].job = worker[v].job
    BY <2>1, <1>10, <1>d DEF Owns, Busy, RunMark, At
  <2> QED BY <2>1, <2>2, NoKeyGained
<1>res. ASSUME NEW w \in Workers, NEW o, worker[w] # Idle, Result(w, o)
        PROVE  \A v \in Workers : Owns(v)' => Owns(v) /\ worker'[v].job = worker[v].job
  BY <1>res, <1>d DEF Owns, Busy, Result
<1>11. ASSUME NEW w \in Workers, NEW o \in Outcome, RunAction(w, o)
       PROVE  KInv'
  BY <1>11, <1>res, NoKeyGained DEF RunAction, At
<1>12. ASSUME NEW w \in Workers, NEW s \in Stages, RunMove(w, s)
       PROVE  KInv'
  <2>1. worker[w] # Idle /\ worker[w].job.type = "RunDelayedAutomation"
    BY <1>12 DEF RunMove, At
  <2>2. worker[w].job.pub \in Pubs
    BY <2>1, <1>d DEF Busy, Job, ScheduleJob, RunJob, CancelJob
  <2> QED BY <1>12, <2>1, <2>2, <1>moved, <1>res, NoKeyGained DEF RunMove
<1>15. ASSUME NEW w \in Workers, WorkerCrash(w)
       PROVE  KInv'
  <2>1. /\ worker[w] # Idle /\ worker[w].delivered /\ worker[w] \in Busy
        /\ jobs' = IF worker[w].keyed THEN jobs \union {worker[w].job} ELSE jobs
        /\ worker' = [worker EXCEPT ![w].delivered = FALSE]
    BY <1>15, <1>d DEF WorkerCrash
  <2>2. worker'[w].delivered = FALSE
    BY <2>1, <1>d DEF Busy
  <2>3. \A v \in Workers : Owns(v)' => v # w /\ Owns(v) /\ worker'[v].job = worker[v].job
    BY <2>1, <2>2, <1>d DEF Owns
  <2>4. CASE Owns(w)
    <3>1. \A k \in jobs' : k \in jobs \/ k = worker[w].job
      BY <2>1
    <3>2. OneJobPerKey'
      BY <3>1, <2>4 DEF KInv, OneJobPerKey, KeysOwnedOnce, RunJobsIn, HasKey, KeyOf, Owns
    <3>3. \A v \in Workers : Owns(v)' => \A k \in jobs' : ~HasKey(k, KeyOf(v)')
      BY <3>1, <2>3, <2>4 DEF KInv, KeysOwnedOnce, HasKey, KeyOf
    <3>4. \A u, v \in Workers : (Owns(u)' /\ Owns(v)' /\ KeyOf(u)' = KeyOf(v)') => u = v
      BY <2>3 DEF KInv, KeysOwnedOnce, KeyOf
    <3> QED BY <3>2, <3>3, <3>4 DEF KInv, KeysOwnedOnce
  <2>5. CASE ~Owns(w)
    <3>1. \A k \in jobs' : k.type = "RunDelayedAutomation" => k \in jobs
      BY <2>1, <2>5 DEF Owns
    <3> QED BY <3>1, <2>3, NoKeyGained
  <2> QED BY <2>4, <2>5
<1>16. CASE UNCHANGED vars
  BY <1>16, <1>same, NoKeyGained DEF vars
<1>17. CASE Next
  BY <1>17, <1>1, <1>2, <1>3, <1>4, <1>5, <1>6, <1>7, <1>8, <1>10, <1>11, <1>12, <1>15
     DEF Next, Move, PickAny, Handle, Fault
<1> QED
  BY <1>16, <1>17

\* However pubs move and whatever crashes, no two delayed jobs for the same
\* automation and pub wait in the queue.
THEOREM OneJobWaits == Spec => []OneJobPerKey
<1>1. Init => KInv
  BY DEF Init, KInv, KeysOwnedOnce, OneJobPerKey, Owns, RunJobsIn
<1>2. KInv => OneJobPerKey
  BY DEF KInv
<1> QED
  BY <1>1, <1>2, InitIInv, StepIInv, StepKInv, PTL DEF Spec

-----------------------------------------------------------------------------
(* Who takes a waiting job *)

\* A waiting job is only ever taken by a worker that runs it, or by a schedule or
\* a cancellation for the very same automation and pub.
THEOREM JobsTakenByTheirOwn == Spec => TakenByItsOwn
<1> DEFINE Taken(j) ==
      \/ \E w \in Workers : worker'[w] # Idle /\ worker'[w].job = j
      \/ \E w \in Workers :
            /\ worker[w] # Idle
            /\ LET k == worker[w].job IN
               \/ /\ k.type = "ScheduleDelayedAutomation"
                  /\ k.automation = j.automation /\ k.pub = j.pub
               \/ /\ k.type = "CancelScheduledAutomation"
                  /\ runs[k.run].automation = j.automation
                  /\ runs[k.run].pub = j.pub
<1>1. ASSUME IInv, [Next]_vars
      PROVE  \A j \in RunJobsIn(jobs \ jobs') : Taken(j)
  <2> SUFFICES ASSUME NEW j \in jobs, j \notin jobs' PROVE Taken(j)
    BY DEF RunJobsIn
  <2>1. ASSUME NEW w \in Workers, NEW k \in jobs, Pick(w, k)
        PROVE  Taken(j)
    <3>1. j = k
      BY <2>1 DEF Pick
    <3>2. worker'[w] = [job |-> k, pc |-> "start", run |-> NoRun, results |-> <<>>,
                        keyed |-> TRUE, delivered |-> TRUE]
      BY <2>1, <1>1 DEF Pick, IInv, TypeOK
    <3>3. worker'[w] \in Busy /\ worker'[w].job = k
      BY <3>2, <1>1 DEF Busy, IInv, TypeOK
    <3> QED BY <3>1, <3>3, SentinelAssumption
  <2>2. ASSUME NEW w \in Workers, ScheduleArm(w)
        PROVE  Taken(j)
    <3>1. HasKey(j, JobKey(worker[w].job.automation, worker[w].job.pub))
      BY <2>2 DEF ScheduleArm, WithoutKey
    <3> QED BY <2>2, <3>1 DEF HasKey, JobKey, ScheduleArm, At
  <2>3. ASSUME NEW w \in Workers, CancelScheduled(w)
        PROVE  Taken(j)
    <3>1. HasKey(j, JobKey(runs[worker[w].job.run].automation, runs[worker[w].job.run].pub))
      BY <2>3 DEF CancelScheduled, WithoutKey
    <3> QED BY <2>3, <3>1 DEF HasKey, JobKey, CancelScheduled, At
  <2>4. ASSUME NEW p \in Pubs, NEW s, MoveTo(p, s) \/ RemoveFromStage(p)
        PROVE  FALSE
    BY <2>4 DEF MoveTo, RemoveFromStage
  <2>5. ASSUME NEW w \in Workers, WorkerCrash(w)
        PROVE  FALSE
    BY <2>5 DEF WorkerCrash
  <2>6. ASSUME jobs' = jobs PROVE FALSE
    BY <2>6
  <2> HIDE DEF Taken
  <2>7. CASE Move
    BY <2>7, <2>4 DEF Move, MovePub
  <2>8. CASE PickAny
    BY <2>8, <2>1 DEF PickAny
  <2>9. ASSUME NEW w \in Workers, Handle(w)
        PROVE  Taken(j)
    <3>1. ASSUME NEW s, RunMove(w, s) PROVE FALSE
      BY <3>1 DEF RunMove, MoveTo
    <3> QED
      BY <2>9, <2>2, <2>3, <2>6, <3>1
         DEF Handle, ScheduleCheck, ScheduleRefused, ScheduleInsert, RunCheck, RunNotMet,
             RunCheckError, RunMark, RunAction, RunFinish
  <2>10. ASSUME NEW w \in Workers, Fault(w)
         PROVE  Taken(j)
    BY <2>10, <2>5, <2>6 DEF Fault, CoreFault
  <2>11. CASE UNCHANGED vars
    BY <2>11, <2>6 DEF vars
  <2> QED BY <1>1, <2>7, <2>8, <2>9, <2>10, <2>11 DEF Next
<1>2. IInv /\ [Next]_vars =>
        [\A j \in RunJobsIn(jobs \ jobs') : Taken(j)]_vars
  BY <1>1
<1> QED
  BY <1>2, InitIInv, StepIInv, PTL DEF Spec, TakenByItsOwn
-----------------------------------------------------------------------------
(* One run per stage entry *)

IsSchedule(j) == j.type = "ScheduleDelayedAutomation"

Scheduling(w) == worker[w] # Idle /\ IsSchedule(worker[w].job)

\* The run is the one the request asks for.
Made(r, j) ==
    /\ runs[r] # NoRun
    /\ runs[r].automation = j.automation
    /\ runs[r].pub = j.pub
    /\ runs[r].entry = j.entry

\* Requests and runs are about entries that have happened.
EntriesReal ==
    /\ \A j \in jobs : IsSchedule(j) => j.entry <= entries[j.pub]
    /\ \A w \in Workers : Scheduling(w) => worker[w].job.entry <= entries[worker[w].job.pub]
    /\ \A r \in RunIds : runs[r] # NoRun => runs[r].entry <= entries[runs[r].pub]

TakenOrQueued == \A w \in Workers : Scheduling(w) => worker[w].job \notin jobs

TakenOnce ==
    \A v, w \in Workers :
        (Scheduling(v) /\ Scheduling(w) /\ worker[v].job = worker[w].job) => v = w

\* A request that is queued, or whose handler has not stored its run, has no run.
QueuedNotMade == \A j \in jobs, r \in RunIds : IsSchedule(j) => ~Made(r, j)

TakenNotMade ==
    \A w \in Workers, r \in RunIds :
        (Scheduling(w) /\ worker[w].pc \in {"start", "insert"}) => ~Made(r, worker[w].job)

MadeOnce ==
    \A q, r \in RunIds :
        (/\ runs[q] # NoRun /\ runs[r] # NoRun
         /\ runs[q].automation = runs[r].automation
         /\ runs[q].pub = runs[r].pub
         /\ runs[q].entry = runs[r].entry) => q = r

Once ==
    /\ EntriesReal /\ TakenOrQueued /\ TakenOnce
    /\ QueuedNotMade /\ TakenNotMade /\ MadeOnce

SameRuns == Kept /\ \A r \in RunIds : runs'[r] # NoRun => runs[r] # NoRun

LEMMA ScheduleJobTyped ==
    ASSUME NEW j \in Job, IsSchedule(j)
    PROVE  j \in ScheduleJob /\ j.entry \in Nat /\ j.pub \in Pubs
  BY DEF IsSchedule, Job, ScheduleJob, RunJob, CancelJob

LEMMA WriteRowsSameRuns ==
    ASSUME IInv, NEW r \in RunIds, NEW rows \in Seq(Status),
           runs[r] # NoRun, WriteRows(r, rows)
    PROVE  SameRuns
<1>1. \A q \in RunIds : q # r => runs'[q] = runs[q]
  BY DEF WriteRows, IInv, TypeOK
<1> QED
  BY <1>1, WriteRowsCorrect DEF SameRuns

\* A handler of a delayed job knows its run.
LEMMA HandlerKnows ==
    ASSUME IInv, NEW w \in Workers, worker[w] # Idle,
           worker[w].job.type = "RunDelayedAutomation"
    PROVE  /\ worker[w] \in Busy /\ worker[w].job \in RunJob
           /\ worker[w].job.run \in RunIds /\ runs[worker[w].job.run] # NoRun
           /\ worker[w].job.automation \in Automations /\ worker[w].job.pub \in Pubs
           /\ worker[w].results \in Seq(Status)
<1>1. worker[w] \in Busy /\ worker[w].job \in RunJob /\ Known(runs, worker[w].job)
  BY DEF IInv, TypeOK, WorkersSound, Sound, Busy, Job, ScheduleJob, RunJob, CancelJob
<1> QED
  BY <1>1 DEF RunJob, Known, Busy, Status, Outcome

\* The handlers write rows of a run that exists.
LEMMA RowsWritten ==
    ASSUME IInv, NEW w \in Workers, RunCheckError(w) \/ RunMark(w) \/ RunFinish(w)
    PROVE  SameRuns
<1>1. worker[w] # Idle /\ worker[w].job.type = "RunDelayedAutomation"
  BY DEF RunCheckError, RunMark, RunFinish, At
<1>2. /\ worker[w].job.run \in RunIds /\ runs[worker[w].job.run] # NoRun
      /\ worker[w].job.automation \in Automations /\ worker[w].results \in Seq(Status)
  BY <1>1, HandlerKnows
<1>3. \A s \in Status : AllRows(worker[w].job.automation, s) \in Seq(Status)
  BY <1>2, AllRowsType
<1>4. \E rows \in Seq(Status) : WriteRows(worker[w].job.run, rows)
  BY <1>2, <1>3 DEF RunCheckError, RunMark, RunFinish, Status, Outcome
<1> QED
  BY <1>2, <1>4, WriteRowsSameRuns

\* A step that stores no run and takes no request, and queues requests only for
\* entries that happen with it.
LEMMA NoNewRequests ==
    ASSUME IInv, IInv', Once, SameRuns,
           \A p \in Pubs : entries[p] <= entries'[p],
           \A j \in jobs' : IsSchedule(j) =>
              \/ j \in jobs
              \/ entries[j.pub] < j.entry /\ j.entry <= entries'[j.pub],
           \A w \in Workers : Scheduling(w)' =>
              /\ Scheduling(w)
              /\ worker'[w].job = worker[w].job
              /\ worker'[w].pc \in {"start", "insert"} => worker[w].pc \in {"start", "insert"}
    PROVE  Once'
<1>t. /\ entries \in [Pubs -> Nat] /\ entries' \in [Pubs -> Nat]
      /\ jobs \subseteq Job /\ jobs' \subseteq Job
      /\ \A w \in Workers : worker[w] # Idle => worker[w].job \in Job
      /\ \A r \in RunIds : runs[r] # NoRun => runs[r].pub \in Pubs /\ runs[r].entry \in Nat
  BY DEF IInv, TypeOK, Busy, Run
<1>1. \A j \in jobs' : IsSchedule(j) => j.entry <= entries'[j.pub]
  <2> SUFFICES ASSUME NEW j \in jobs', IsSchedule(j) PROVE j.entry <= entries'[j.pub]
    OBVIOUS
  <2>1. j.entry \in Nat /\ j.pub \in Pubs
    BY <1>t, ScheduleJobTyped
  <2> QED
    BY <1>t, <2>1 DEF Once, EntriesReal
<1>2. \A w \in Workers : Scheduling(w)' =>
         worker'[w].job.entry <= entries'[worker'[w].job.pub]
  <2> SUFFICES ASSUME NEW w \in Workers, Scheduling(w)'
               PROVE  worker[w].job.entry <= entries'[worker[w].job.pub]
    OBVIOUS
  <2>1. Scheduling(w) /\ worker[w].job \in Job
    BY <1>t DEF Scheduling
  <2>2. worker[w].job.entry \in Nat /\ worker[w].job.pub \in Pubs
    BY <2>1, ScheduleJobTyped DEF Scheduling
  <2> QED
    BY <1>t, <2>1, <2>2 DEF Once, EntriesReal
<1>3. \A r \in RunIds : runs'[r] # NoRun => runs'[r].entry <= entries'[runs'[r].pub]
  <2> SUFFICES ASSUME NEW r \in RunIds, runs'[r] # NoRun
               PROVE  runs'[r].entry <= entries'[runs'[r].pub]
    OBVIOUS
  <2>1. runs[r] # NoRun /\ runs'[r].entry = runs[r].entry /\ runs'[r].pub = runs[r].pub
    BY DEF SameRuns, Kept
  <2> QED
    BY <1>t, <2>1 DEF Once, EntriesReal
<1>4. EntriesReal'
  BY <1>1, <1>2, <1>3 DEF EntriesReal
<1>5. TakenOrQueued'
  <2> SUFFICES ASSUME NEW w \in Workers, Scheduling(w)', worker[w].job \in jobs'
               PROVE  FALSE
    BY DEF TakenOrQueued
  <2>1. Scheduling(w) /\ IsSchedule(worker[w].job)
    BY DEF Scheduling
  <2>2. worker[w].job.entry \in Nat /\ worker[w].job.pub \in Pubs
    BY <1>t, <2>1, ScheduleJobTyped DEF Scheduling
  <2> QED
    BY <1>t, <2>1, <2>2 DEF Once, EntriesReal, TakenOrQueued
<1>6. TakenOnce'
  BY DEF Once, TakenOnce
<1>7. \A r \in RunIds : \A j : Made(r, j)' => Made(r, j)
  BY DEF Made, SameRuns, Kept
<1>8. QueuedNotMade'
  <2> SUFFICES ASSUME NEW j \in jobs', NEW r \in RunIds, IsSchedule(j), Made(r, j)
               PROVE  FALSE
    BY <1>7 DEF QueuedNotMade
  <2>1. j.entry \in Nat /\ j.pub \in Pubs
    BY <1>t, ScheduleJobTyped
  <2>2. j.entry <= entries[j.pub]
    BY DEF Made, Once, EntriesReal
  <2> QED
    BY <1>t, <2>1, <2>2 DEF Once, QueuedNotMade
<1>9. TakenNotMade'
  <2> SUFFICES ASSUME NEW w \in Workers, NEW r \in RunIds, Scheduling(w)',
                      worker'[w].pc \in {"start", "insert"}, Made(r, worker[w].job)'
               PROVE  FALSE
    BY DEF TakenNotMade, Made
  <2> QED
    BY <1>7 DEF Once, TakenNotMade
<1>10. MadeOnce'
  BY DEF Once, MadeOnce, SameRuns, Kept
<1> QED
  BY <1>4, <1>5, <1>6, <1>8, <1>9, <1>10 DEF Once

LEMMA PickOnce ==
    ASSUME IInv, IInv', Once, NEW w \in Workers, NEW j \in jobs, Pick(w, j)
    PROVE  Once'
<1> DEFINE b == [job |-> j, pc |-> "start", run |-> NoRun, results |-> <<>>,
                 keyed |-> TRUE, delivered |-> TRUE]
<1>1. /\ worker[w] = Idle /\ jobs' = jobs \ {j} /\ runs' = runs /\ entries' = entries
      /\ worker'[w].job = j
      /\ \A v \in Workers : v # w => worker'[v] = worker[v]
  BY DEF Pick, IInv, TypeOK
<1>2. EntriesReal' /\ TakenOrQueued' /\ TakenOnce'
  BY <1>1 DEF Once, EntriesReal, TakenOrQueued, TakenOnce, Scheduling
<1>3. QueuedNotMade' /\ MadeOnce'
  BY <1>1 DEF Once, QueuedNotMade, MadeOnce, Made
<1>4. TakenNotMade'
  BY <1>1 DEF Once, QueuedNotMade, TakenNotMade, Scheduling, Made
<1> QED
  BY <1>2, <1>3, <1>4 DEF Once

LEMMA InsertOnce ==
    ASSUME IInv, IInv', Once, NEW w \in Workers, ScheduleInsert(w)
    PROVE  Once'
<1> DEFINE j == worker[w].job
           run == InitRun(j.automation, j.pub, j.entry)
<1>1. /\ worker[w] \in Busy /\ worker[w] # Idle /\ j \in Job /\ Scheduling(w)
      /\ worker[w].pc = "insert"
  BY DEF ScheduleInsert, At, Scheduling, IsSchedule, IInv, TypeOK, Busy
<1>2. PICK r \in RunIds : r = FreshRun /\ runs[r] = NoRun
  BY DEF ScheduleInsert, FreshRun
<1>3. /\ runs' = [runs EXCEPT ![r] = run]
      /\ worker' = [worker EXCEPT ![w].pc = "arm", ![w].run = r]
      /\ jobs' = jobs /\ entries' = entries
  BY <1>2 DEF ScheduleInsert
<1>4. run.automation = j.automation /\ run.pub = j.pub /\ run.entry = j.entry
  BY DEF InitRun
<1> HIDE DEF run
<1>5. runs'[r] = run /\ \A q \in RunIds : q # r => runs'[q] = runs[q]
  BY <1>2, <1>3 DEF IInv, TypeOK
<1>6. /\ worker'[w].job = j /\ worker'[w].pc = "arm"
      /\ \A v \in Workers : v # w => worker'[v] = worker[v]
  BY <1>1, <1>3 DEF IInv, TypeOK, Busy
<1>7. \A v \in Workers : Scheduling(v)' => Scheduling(v) /\ worker'[v].job = worker[v].job
  BY <1>1, <1>6 DEF Scheduling
<1>8. EntriesReal'
  <2>1. j.entry <= entries[j.pub]
    BY <1>1 DEF Once, EntriesReal
  <2>2. \A q \in RunIds : runs'[q] # NoRun => runs'[q].entry <= entries[runs'[q].pub]
    BY <2>1, <1>4, <1>5 DEF Once, EntriesReal
  <2> QED
    BY <2>2, <1>3, <1>7 DEF Once, EntriesReal
<1>9. TakenOrQueued' /\ TakenOnce'
  <2>1. ASSUME NEW v \in Workers, Scheduling(v)' PROVE worker'[v].job \notin jobs'
    <3>1. Scheduling(v) /\ worker'[v].job = worker[v].job
      BY <2>1, <1>7
    <3>2. worker[v].job \notin jobs
      BY <3>1 DEF Once, TakenOrQueued
    <3> QED
      BY <3>1, <3>2, <1>3
  <2>2. \A u, v \in Workers :
           (Scheduling(u)' /\ Scheduling(v)' /\ worker'[u].job = worker'[v].job) => u = v
    BY <1>7 DEF Once, TakenOnce
  <2> QED
    BY <2>1, <2>2, <1>3 DEF TakenOrQueued, TakenOnce
<1>10. \A q \in RunIds : \A k : q # r /\ Made(q, k)' => Made(q, k)
  BY <1>5 DEF Made
<1>11. \A k \in Job : IsSchedule(k) /\ Made(r, k)' => k = j
  <2> SUFFICES ASSUME NEW k \in Job, IsSchedule(k), Made(r, k)' PROVE k = j
    OBVIOUS
  <2>1. k \in ScheduleJob /\ j \in ScheduleJob
    BY <1>1, ScheduleJobTyped DEF Scheduling
  <2>2. k.automation = j.automation /\ k.pub = j.pub /\ k.entry = j.entry
    BY <1>4, <1>5 DEF Made
  <2> QED
    BY <2>1, <2>2 DEF ScheduleJob
<1>12. QueuedNotMade'
  <2> SUFFICES ASSUME NEW k \in jobs, NEW q \in RunIds, IsSchedule(k), Made(q, k)' PROVE FALSE
    BY <1>3 DEF QueuedNotMade
  <2>1. k \in Job
    BY DEF IInv, TypeOK
  <2> QED
    BY <2>1, <1>1, <1>10, <1>11 DEF Once, QueuedNotMade, TakenOrQueued
<1>13. TakenNotMade'
  <2> SUFFICES ASSUME NEW v \in Workers, NEW q \in RunIds, Scheduling(v)',
                      worker'[v].pc \in {"start", "insert"}, Made(q, worker[v].job)'
               PROVE  FALSE
    BY <1>7 DEF TakenNotMade, Made
  <2>1. v # w /\ Scheduling(v) /\ worker[v].pc \in {"start", "insert"}
        /\ worker'[v] = worker[v]
    BY <1>6, <1>7
  <2>2. PICK k \in Job : k = worker[v].job /\ k = worker'[v].job /\ IsSchedule(k)
    BY <2>1 DEF Scheduling, IInv, TypeOK, Busy
  <2>3. Made(q, k)'
    BY <2>2 DEF Made
  <2>4. CASE q = r
    <3>1. k = j
      BY <2>2, <2>3, <2>4, <1>11
    <3> QED
      BY <3>1, <2>1, <2>2, <1>1 DEF Once, TakenOnce
  <2>5. CASE q # r
    BY <2>1, <2>2, <2>3, <2>5, <1>10 DEF Once, TakenNotMade
  <2> QED
    BY <2>4, <2>5
<1>14. MadeOnce'
  <2>1. \A q \in RunIds : ~Made(q, j)
    BY <1>1 DEF Once, TakenNotMade
  <2> QED
    BY <2>1, <1>4, <1>5 DEF Once, MadeOnce, Made
<1> QED
  BY <1>8, <1>9, <1>12, <1>13, <1>14 DEF Once

LEMMA MoveRequests ==
    ASSUME IInv, NEW p \in Pubs, NEW s, MoveTo(p, s)
    PROVE  /\ \A q \in Pubs : entries[q] <= entries'[q]
           /\ \A j \in jobs' : IsSchedule(j) =>
                 \/ j \in jobs
                 \/ entries[j.pub] < j.entry /\ j.entry <= entries'[j.pub]
<1>1. entries \in [Pubs -> Nat]
  BY DEF IInv, TypeOK
<1>2. entries'[p] = entries[p] + 1 /\ \A q \in Pubs : q # p => entries'[q] = entries[q]
  BY <1>1 DEF MoveTo
<1>3. \A j \in CancelJobs(p, stage[p], entries[p]) : ~IsSchedule(j)
  BY DEF CancelJobs, IsSchedule
<1>4. \A j \in ScheduleJobs(p, s, entries[p] + 1) : j.pub = p /\ j.entry = entries[p] + 1
  BY DEF ScheduleJobs
<1> QED
  BY <1>1, <1>2, <1>3, <1>4 DEF MoveTo

LEMMA StepOnce == IInv /\ IInv' /\ Once /\ [Next]_vars /\ workerCrashes' = 0 => Once'
<1> SUFFICES ASSUME IInv, IInv', Once, [Next]_vars, workerCrashes' = 0 PROVE Once'
  OBVIOUS
<1>t. /\ worker \in [Workers -> Busy \union {Idle}] /\ jobs \subseteq Job
      /\ entries \in [Pubs -> Nat] /\ workerCrashes \in Nat
  BY DEF IInv, TypeOK
<1>same. runs' = runs => SameRuns
  BY DEF SameRuns, Kept
<1>still. entries' = entries => \A p \in Pubs : entries[p] <= entries'[p]
  BY <1>t
<1>on. worker' = worker => \A w \in Workers : Scheduling(w)' =>
              /\ Scheduling(w)
              /\ worker'[w].job = worker[w].job
              /\ worker'[w].pc \in {"start", "insert"} => worker[w].pc \in {"start", "insert"}
  BY DEF Scheduling
<1>done. ASSUME NEW w \in Workers, worker' = [worker EXCEPT ![w] = Idle],
                SameRuns, jobs' = jobs, entries' = entries
         PROVE  Once'
  <2>1. \A v \in Workers : Scheduling(v)' => worker'[v] = worker[v]
    BY <1>done, <1>t DEF Scheduling
  <2> QED
    BY <2>1, <1>done, <1>still, NoNewRequests DEF Scheduling
<1>on2. ASSUME NEW w \in Workers, ~Scheduling(w), worker[w] # Idle,
               worker'[w].job = worker[w].job,
               \A v \in Workers : v # w => worker'[v] = worker[v]
        PROVE  \A v \in Workers : Scheduling(v)' => Scheduling(v) /\ worker'[v] = worker[v]
  BY <1>on2 DEF Scheduling
<1>1. ASSUME NEW p \in Pubs, NEW s \in Stages, MovePub(p, s)
      PROVE  Once'
  BY <1>1, <1>same, <1>on, MoveRequests, NoNewRequests DEF MovePub
<1>2. ASSUME NEW p \in Pubs, RemoveFromStage(p)
      PROVE  Once'
  <2>1. \A j \in jobs' : IsSchedule(j) => j \in jobs
    BY <1>2 DEF RemoveFromStage, CancelJobs, IsSchedule
  <2> QED
    BY <1>2, <2>1, <1>same, <1>still, <1>on, NoNewRequests DEF RemoveFromStage
<1>3. ASSUME NEW w \in Workers, NEW j \in jobs, Pick(w, j)
      PROVE  Once'
  BY <1>3, PickOnce
<1>4. ASSUME NEW w \in Workers, ScheduleCheck(w)
      PROVE  Once'
  <2>1. worker'[w].job = worker[w].job /\ Scheduling(w) /\ worker[w].pc = "start"
        /\ \A v \in Workers : v # w => worker'[v] = worker[v]
    BY <1>4, <1>t DEF ScheduleCheck, Goto, At, Busy, Scheduling, IsSchedule
  <2>2. \A v \in Workers : Scheduling(v)' =>
              /\ Scheduling(v)
              /\ worker'[v].job = worker[v].job
              /\ worker'[v].pc \in {"start", "insert"} => worker[v].pc \in {"start", "insert"}
    BY <2>1 DEF Scheduling
  <2> QED
    BY <1>4, <2>2, <1>same, <1>still, NoNewRequests DEF ScheduleCheck
<1>5. ASSUME NEW w \in Workers,
             ScheduleRefused(w) \/ RunNotMet(w) \/ RunCheckError(w) \/ RunFinish(w) \/ CoreFault(w)
      PROVE  Once'
  <2>1. worker' = [worker EXCEPT ![w] = Idle] /\ jobs' = jobs /\ entries' = entries
    BY <1>5 DEF ScheduleRefused, RunNotMet, RunCheckError, RunFinish, CoreFault, Done
  <2>2. SameRuns
    BY <1>5, <1>same, RowsWritten
       DEF ScheduleRefused, RunNotMet, RunCheckError, RunFinish, CoreFault, At
  <2> QED BY <2>1, <2>2, <1>done
<1>6. ASSUME NEW w \in Workers, ScheduleInsert(w)
      PROVE  Once'
  BY <1>6, InsertOnce
<1>7. ASSUME NEW w \in Workers, ScheduleArm(w) \/ CancelScheduled(w)
      PROVE  Once'
  <2>1. PICK key : /\ worker' = [Unkeyed(worker, key) EXCEPT ![w] = Idle]
                   /\ \A k \in jobs' : IsSchedule(k) => k \in jobs
                   /\ runs' = runs /\ entries' = entries
    <3>1. CASE ScheduleArm(w)
      <4> DEFINE key == JobKey(worker[w].job.automation, worker[w].job.pub)
      <4>1. \A k \in jobs' : IsSchedule(k) => k \in jobs
        BY <3>1 DEF ScheduleArm, WithoutKey, IsSchedule
      <4> QED
        BY <3>1, <4>1 DEF ScheduleArm
    <3>2. CASE CancelScheduled(w)
      <4>1. \A k \in jobs' : k \in jobs
        BY <3>2 DEF CancelScheduled, WithoutKey
      <4> QED
        BY <3>2, <4>1 DEF CancelScheduled
    <3> QED
      BY <1>7, <3>1, <3>2
  <2>2. \A v \in Workers : Scheduling(v)' => worker'[v] = worker[v]
    BY <2>1, <1>t DEF Unkeyed, Scheduling, IsSchedule, HasKey, Busy
  <2> QED BY <2>1, <2>2, <1>same, <1>still, NoNewRequests DEF Scheduling
<1>8. ASSUME NEW w \in Workers, NEW o,
             \/ RunCheck(w) \/ RunMark(w) \/ RunAction(w, o)
             \/ \E s \in Stages : RunMove(w, s)
      PROVE  Once'
  <2>1. worker[w] # Idle /\ worker[w].job.type = "RunDelayedAutomation"
    BY <1>8 DEF RunCheck, RunMark, RunAction, RunMove, At
  <2>2. ~Scheduling(w) /\ worker[w].job.pub \in Pubs
    BY <2>1, <1>t DEF Scheduling, IsSchedule, Busy, Job, ScheduleJob, RunJob, CancelJob
  <2>3. /\ worker'[w].job = worker[w].job
        /\ \A v \in Workers : v # w => worker'[v] = worker[v]
    BY <1>8, <2>1, <1>t DEF RunCheck, RunMark, RunAction, RunMove, Goto, Result, Busy
  <2>4. \A v \in Workers : Scheduling(v)' => Scheduling(v) /\ worker'[v] = worker[v]
    BY <2>1, <2>2, <2>3, <1>on2
  <2>5. SameRuns
    BY <1>8, <2>1, <1>same, RowsWritten DEF RunCheck, RunMark, RunAction, RunMove
  <2>6. CASE jobs' = jobs /\ entries' = entries
    BY <2>4, <2>5, <2>6, <1>still, NoNewRequests
  <2>7. CASE \E s \in Stages : RunMove(w, s)
    BY <2>2, <2>4, <2>5, <2>7, MoveRequests, NoNewRequests DEF RunMove
  <2> QED
    BY <1>8, <2>6, <2>7 DEF RunCheck, RunMark, RunAction
<1>9. ASSUME NEW w \in Workers, WorkerCrash(w)
      PROVE  FALSE
  BY <1>9, <1>t DEF WorkerCrash
<1>10. CASE UNCHANGED vars
  BY <1>10, <1>same, <1>still, <1>on, NoNewRequests DEF vars
<1>11. CASE Next
  BY <1>11, <1>1, <1>2, <1>3, <1>4, <1>5, <1>6, <1>7, <1>8, <1>9
     DEF Next, Move, PickAny, Handle, Fault
<1> QED
  BY <1>10, <1>11

LEMMA OnceAlways == Spec => [](workerCrashes = 0 => Once)
<1>1. Init => Once
  BY DEF Init, Once, EntriesReal, TakenOrQueued, TakenOnce, QueuedNotMade, TakenNotMade,
         MadeOnce, Scheduling
<1>2. IInv /\ IInv' /\ (workerCrashes = 0 => Once) /\ [Next]_vars
         => (workerCrashes = 0 => Once)'
  <2>1. IInv /\ [Next]_vars /\ workerCrashes' = 0 => workerCrashes = 0
    <3>1. IInv => workerCrashes \in Nat
      BY DEF IInv, TypeOK
    <3>2. [Next]_vars => workerCrashes' = workerCrashes \/ workerCrashes' = workerCrashes + 1
      BY DEF Next, vars, Move, MovePub, RemoveFromStage, PickAny, Pick, Handle, ScheduleCheck,
             ScheduleRefused, ScheduleInsert, ScheduleArm, CancelScheduled, RunCheck,
             RunNotMet, RunCheckError, RunMark, RunAction, RunMove, RunFinish, Fault,
             CoreFault, WorkerCrash
    <3> QED BY <3>1, <3>2
  <2> QED BY <2>1, StepOnce
<1> QED
  BY <1>1, <1>2, InitIInv, StepIInv, PTL DEF Spec

\* As long as no worker crashes, an automation gets one run at most for every entry
\* of a pub, however the pub moves and whatever core loses.
THEOREM EntriesRunOnce == Spec => []OneRunPerEntry
<1>1. (workerCrashes = 0 => Once) => OneRunPerEntry
  BY DEF Once, MadeOnce, OneRunPerEntry
<1> QED
  BY <1>1, OnceAlways, PTL
-----------------------------------------------------------------------------
(* One execution per delivery *)

\* The workers that handle the delayed job of run r, and those of them that have
\* not started its actions.
Handling(r) ==
    {w \in Workers : /\ worker[w] # Idle
                     /\ worker[w].job.type = "RunDelayedAutomation"
                     /\ worker[w].job.run = r}

Unstarted(r) == {w \in Handling(r) : worker[w].pc # "execute"}

ArmsRun(w, r) == worker[w] # Idle /\ worker[w].pc = "arm" /\ worker[w].run = r

Arming(r) == \E w \in Workers : ArmsRun(w, r)

ArmedOnce ==
    \A v, w \in Workers, r \in RunIds : ArmsRun(v, r) /\ ArmsRun(w, r) => v = w

Unit(b) == IF b THEN 1 ELSE 0

\* The deliveries of a run's job that are still to come: it waits or is about to.
ToCome(r) == Unit(Waiting(r)) + Unit(Arming(r))

Stored(r) == Unit(runs[r] # NoRun)

\* What the run's insertion and the crashes of workers allow.
Allowed(r) == Stored(r) + workerCrashes

ExecutionsAllowed(r) ==
    executions[r] + Cardinality(Unstarted(r)) + ToCome(r) <= Allowed(r)

AnnouncementsAllowed(r) ==
    Len(announced[r]) + Cardinality(Handling(r)) + ToCome(r) <= Allowed(r)

DInv ==
    /\ ArmedOnce
    /\ \A r \in RunIds : ExecutionsAllowed(r) /\ AnnouncementsAllowed(r)

LEMMA OneLess ==
    ASSUME NEW S, IsFiniteSet(S), NEW T, NEW w \in S, T \subseteq S \ {w}
    PROVE  Cardinality(T) + 1 <= Cardinality(S)
<1>1. IsFiniteSet(S \ {w}) /\ Cardinality(S \ {w}) = Cardinality(S) - 1
  BY FS_RemoveElement
<1>2. IsFiniteSet(T) /\ Cardinality(T) <= Cardinality(S \ {w})
  BY <1>1, FS_Subset
<1>3. Cardinality(T) \in Nat /\ Cardinality(S) \in Nat
  BY <1>2, FS_CardinalityType
<1> QED
  BY <1>1, <1>2, <1>3

LEMMA OneMore ==
    ASSUME NEW S, IsFiniteSet(S), NEW T, NEW w, T \subseteq S \union {w}
    PROVE  Cardinality(T) <= Cardinality(S) + 1
<1>1. /\ IsFiniteSet(S \union {w})
      /\ Cardinality(S \union {w}) = Cardinality(S) \/ Cardinality(S \union {w}) = Cardinality(S) + 1
  BY FS_AddElement
<1>2. IsFiniteSet(T) /\ Cardinality(T) <= Cardinality(S \union {w})
  BY <1>1, FS_Subset
<1>3. Cardinality(T) \in Nat /\ Cardinality(S) \in Nat
  BY <1>2, FS_CardinalityType
<1> QED
  BY <1>1, <1>2, <1>3

\* The numbers the balances are made of.
LEMMA Counts ==
    ASSUME TypeOK, NEW r \in RunIds
    PROVE  /\ IsFiniteSet(Handling(r)) /\ IsFiniteSet(Unstarted(r))
           /\ Cardinality(Handling(r)) \in Nat /\ Cardinality(Unstarted(r)) \in Nat
           /\ executions[r] \in Nat /\ Len(announced[r]) \in Nat /\ workerCrashes \in Nat
<1>1. IsFiniteSet(Workers)
  BY ConstantsAssumption
<1>2. Handling(r) \subseteq Workers /\ Unstarted(r) \subseteq Workers
  BY DEF Handling, Unstarted
<1>3. IsFiniteSet(Handling(r)) /\ IsFiniteSet(Unstarted(r))
  BY <1>1, <1>2, FS_Subset
<1>4. Cardinality(Handling(r)) \in Nat /\ Cardinality(Unstarted(r)) \in Nat
  BY <1>3, FS_CardinalityType
<1>5. announced[r] \in Seq(Outcome)
  BY DEF TypeOK
<1> QED
  BY <1>3, <1>4, <1>5 DEF TypeOK

LEMMA Dues ==
    ASSUME TypeOK, TypeOK', NEW r \in RunIds
    PROVE  /\ ToCome(r) \in Nat /\ ToCome(r)' \in Nat
           /\ Allowed(r) \in Nat /\ Allowed(r)' \in Nat
           /\ (runs'[r] # NoRun <=> runs[r] # NoRun) /\ workerCrashes' = workerCrashes
                 => Allowed(r)' = Allowed(r)
           /\ (runs'[r] # NoRun <=> runs[r] # NoRun) /\ workerCrashes' = workerCrashes + 1
                 => Allowed(r)' = Allowed(r) + 1
           /\ (Waiting(r)' => Waiting(r)) /\ (Arming(r)' => Arming(r))
                 => ToCome(r)' <= ToCome(r)
<1>1. ToCome(r) \in Nat /\ ToCome(r)' \in Nat
  BY DEF ToCome, Unit
<1>2. /\ Stored(r) \in Nat /\ Stored(r)' \in Nat
      /\ (runs'[r] # NoRun <=> runs[r] # NoRun) => Stored(r)' = Stored(r)
  BY DEF Stored, Unit
<1>3. Allowed(r) \in Nat /\ Allowed(r)' \in Nat
  BY <1>2 DEF Allowed, TypeOK
<1>4. (runs'[r] # NoRun <=> runs[r] # NoRun) /\ workerCrashes' = workerCrashes
         => Allowed(r)' = Allowed(r)
  BY <1>2 DEF Allowed, TypeOK
<1>5. (runs'[r] # NoRun <=> runs[r] # NoRun) /\ workerCrashes' = workerCrashes + 1
         => Allowed(r)' = Allowed(r) + 1
  BY <1>2 DEF Allowed, TypeOK
<1>6. (Waiting(r)' => Waiting(r)) /\ (Arming(r)' => Arming(r)) => ToCome(r)' <= ToCome(r)
  BY DEF ToCome, Unit
<1> QED
  BY <1>1, <1>3, <1>4, <1>5, <1>6

\* The balance of a run that nothing is spent on.
LEMMA NothingSpent ==
    ASSUME IInv, IInv', NEW r \in RunIds, ExecutionsAllowed(r), AnnouncementsAllowed(r),
           executions'[r] = executions[r], announced'[r] = announced[r],
           workerCrashes <= workerCrashes',
           runs'[r] # NoRun <=> runs[r] # NoRun,
           Handling(r)' \subseteq Handling(r), Unstarted(r)' \subseteq Unstarted(r),
           Waiting(r)' => Waiting(r), Arming(r)' => Arming(r)
    PROVE  ExecutionsAllowed(r)' /\ AnnouncementsAllowed(r)'
<1>1. /\ Cardinality(Handling(r)') <= Cardinality(Handling(r))
      /\ Cardinality(Unstarted(r)') <= Cardinality(Unstarted(r))
  BY Counts, FS_Subset DEF IInv
<1>2. /\ Cardinality(Handling(r)) \in Nat /\ Cardinality(Handling(r)') \in Nat
      /\ Cardinality(Unstarted(r)) \in Nat /\ Cardinality(Unstarted(r)') \in Nat
      /\ executions[r] \in Nat /\ Len(announced[r]) \in Nat
      /\ workerCrashes \in Nat /\ workerCrashes' \in Nat
  <2>1. Handling(r)' \subseteq Handling(r) /\ IsFiniteSet(Handling(r))
        /\ Unstarted(r)' \subseteq Unstarted(r) /\ IsFiniteSet(Unstarted(r))
    BY Counts DEF IInv
  <2>2. IsFiniteSet(Handling(r)') /\ IsFiniteSet(Unstarted(r)')
    BY <2>1, FS_Subset
  <2> QED
    BY <2>2, Counts, FS_CardinalityType DEF IInv, TypeOK
<1>3. ToCome(r) \in Nat /\ ToCome(r)' \in Nat /\ ToCome(r)' <= ToCome(r)
  BY DEF ToCome, Unit
<1>4. Stored(r) \in Nat /\ Stored(r)' = Stored(r)
  BY DEF Stored, Unit
<1>5. Allowed(r) \in Nat /\ Allowed(r)' \in Nat /\ Allowed(r) <= Allowed(r)'
  BY <1>2, <1>4, SMTT(60) DEF Allowed
<1>6. ExecutionsAllowed(r)'
  BY <1>1, <1>2, <1>3, <1>5, SMTT(60) DEF ExecutionsAllowed
<1>7. AnnouncementsAllowed(r)'
  BY <1>1, <1>2, <1>3, <1>5, SMTT(60) DEF AnnouncementsAllowed
<1> QED
  BY <1>6, <1>7

\* What a worker is doing, as far as the balances are concerned, was so before.
GoesOn(w) ==
    worker'[w] # Idle =>
        /\ worker[w] # Idle /\ worker'[w].job = worker[w].job
        /\ worker'[w].run = worker[w].run
        /\ worker'[w].pc = "arm" => worker[w].pc = "arm"
        /\ worker'[w].pc # "execute" => worker[w].pc # "execute"

LEMMA WorkersGoOn ==
    ASSUME \A w \in Workers : GoesOn(w), NEW r
    PROVE  /\ Handling(r)' \subseteq Handling(r) /\ Unstarted(r)' \subseteq Unstarted(r)
           /\ Arming(r)' => Arming(r)
           /\ \A w \in Workers : ArmsRun(w, r)' => ArmsRun(w, r)
<1>1. \A w \in Workers : ArmsRun(w, r)' => ArmsRun(w, r)
  BY DEF GoesOn, ArmsRun
<1>2. Handling(r)' \subseteq Handling(r)
  BY DEF GoesOn, Handling
<1>3. Unstarted(r)' \subseteq Unstarted(r)
  BY DEF GoesOn, Handling, Unstarted
<1> QED
  BY <1>1, <1>2, <1>3 DEF Arming

\* A step in which workers only go on, and no delayed job is queued.
LEMMA QuietDeliveries ==
    ASSUME IInv, IInv', DInv, UNCHANGED <<executions, announced>>, SameRuns,
           workerCrashes <= workerCrashes',
           \A j \in jobs' : j.type = "RunDelayedAutomation" => j \in jobs,
           \A w \in Workers : GoesOn(w)
    PROVE  DInv'
<1>1. \A r \in RunIds : Waiting(r)' => Waiting(r)
  BY DEF Waiting, RunJobsIn
<1>2. ArmedOnce'
  BY WorkersGoOn DEF DInv, ArmedOnce
<1>3. ASSUME NEW r \in RunIds PROVE ExecutionsAllowed(r)' /\ AnnouncementsAllowed(r)'
  BY <1>1, WorkersGoOn, NothingSpent DEF DInv, SameRuns, Kept
<1> QED
  BY <1>2, <1>3 DEF DInv

LEMMA PickDeliveries ==
    ASSUME IInv, IInv', KInv, DInv, NEW w \in Workers, NEW j \in jobs, Pick(w, j)
    PROVE  DInv'
<1>1. /\ worker[w] = Idle /\ jobs' = jobs \ {j} /\ j \in Job
      /\ worker'[w].job = j /\ worker'[w].pc = "start" /\ worker'[w].run = NoRun
      /\ \A v \in Workers : v # w => worker'[v] = worker[v]
      /\ UNCHANGED <<runs, executions, announced, workerCrashes>>
  BY DEF Pick, IInv, TypeOK
<1>same. /\ workerCrashes \in Nat /\ workerCrashes' = workerCrashes
         /\ \A q \in RunIds :
               /\ ExecutionsAllowed(q) /\ AnnouncementsAllowed(q)
               /\ runs'[q] # NoRun <=> runs[q] # NoRun
  BY <1>1 DEF DInv, IInv, TypeOK
<1>2. \A v \in Workers, r \in RunIds : ArmsRun(v, r)' <=> ArmsRun(v, r)
  BY <1>1 DEF ArmsRun
<1>3. ArmedOnce' /\ \A r \in RunIds : Arming(r)' => Arming(r)
  BY <1>2 DEF DInv, ArmedOnce, Arming
<1>4. \A r \in RunIds : Waiting(r)' => Waiting(r)
  BY <1>1 DEF Waiting, RunJobsIn
<1>5. ASSUME NEW r \in RunIds PROVE ExecutionsAllowed(r)' /\ AnnouncementsAllowed(r)'
  <2>1. CASE j.type = "RunDelayedAutomation" /\ j.run = r
    <3>1. Waiting(r) /\ ~Waiting(r)'
      <4>1. Waiting(r)
        BY <2>1 DEF Waiting, RunJobsIn
      <4>2. \A k \in jobs : (k.type = "RunDelayedAutomation" /\ k.run = r) => k = j
        BY <2>1 DEF KInv, OneJobPerKey, RunJobsIn, JobKey, IInv, JobsKnown, Known
      <4> QED
        BY <1>1, <4>1, <4>2 DEF Waiting, RunJobsIn
    <3>2. Handling(r)' \subseteq Handling(r) \union {w}
      BY <1>1 DEF Handling
    <3>3. Unstarted(r)' \subseteq Unstarted(r) \union {w}
      BY <1>1 DEF Handling, Unstarted
    <3>4. /\ Cardinality(Handling(r)') <= Cardinality(Handling(r)) + 1
          /\ Cardinality(Unstarted(r)') <= Cardinality(Unstarted(r)) + 1
      BY <3>2, <3>3, Counts, OneMore DEF IInv
    <3>5. Cardinality(Handling(r)') \in Nat /\ Cardinality(Unstarted(r)') \in Nat
      <4>1. IsFiniteSet(Handling(r)') /\ IsFiniteSet(Unstarted(r)')
        BY <3>2, <3>3, Counts, FS_AddElement, FS_Subset DEF IInv
      <4> QED
        BY <4>1, FS_CardinalityType
    <3>6. ExecutionsAllowed(r) /\ AnnouncementsAllowed(r)
      BY DEF DInv
    <3>7. ToCome(r)' + 1 <= ToCome(r)
      BY <1>3, <3>1 DEF ToCome, Unit
    <3>8. Allowed(r)' = Allowed(r) /\ Allowed(r) \in Nat /\ ToCome(r) \in Nat /\ ToCome(r)' \in Nat
      BY <1>1, Dues DEF IInv
    <3>9. /\ Cardinality(Handling(r)) \in Nat /\ Cardinality(Unstarted(r)) \in Nat
          /\ executions[r] \in Nat /\ Len(announced[r]) \in Nat
      BY Counts DEF IInv
    <3>10. ExecutionsAllowed(r)'
      BY <1>1, <3>4, <3>5, <3>6, <3>7, <3>8, <3>9, SMTT(60) DEF ExecutionsAllowed
    <3>11. AnnouncementsAllowed(r)'
      BY <1>1, <3>4, <3>5, <3>6, <3>7, <3>8, <3>9, SMTT(60) DEF AnnouncementsAllowed
    <3> QED
      BY <3>10, <3>11
  <2>2. CASE ~(j.type = "RunDelayedAutomation" /\ j.run = r)
    <3>1. Handling(r)' \subseteq Handling(r)
      BY <1>1, <2>2 DEF Handling
    <3>2. Unstarted(r)' \subseteq Unstarted(r)
      BY <1>1, <2>2 DEF Handling, Unstarted
    <3> QED
      BY <1>1, <1>3, <1>4, <3>1, <3>2, <1>same, NothingSpent
  <2> QED
    BY <2>1, <2>2
<1> QED
  BY <1>3, <1>5 DEF DInv

LEMMA InsertDeliveries ==
    ASSUME IInv, IInv', DInv, NEW w \in Workers, ScheduleInsert(w)
    PROVE  DInv'
<1>1. /\ worker[w] \in Busy /\ worker[w] # Idle /\ worker[w].pc = "insert"
      /\ worker[w].job.type = "ScheduleDelayedAutomation"
  BY DEF ScheduleInsert, At, IInv, TypeOK
<1>2. PICK r \in RunIds : r = FreshRun /\ runs[r] = NoRun
  BY DEF ScheduleInsert, FreshRun
<1>3. /\ worker' = [worker EXCEPT ![w].pc = "arm", ![w].run = r]
      /\ UNCHANGED <<jobs, executions, announced, workerCrashes>>
      /\ \A q \in RunIds : q # r => runs'[q] = runs[q]
  BY <1>2 DEF ScheduleInsert, IInv, TypeOK
<1>4. /\ worker'[w].job = worker[w].job /\ worker'[w].pc = "arm" /\ worker'[w].run = r
      /\ \A v \in Workers : v # w => worker'[v] = worker[v]
  BY <1>1, <1>3 DEF IInv, TypeOK, Busy
<1>5. worker'[w] # Idle /\ runs'[r] # NoRun
  <2>1. /\ worker[w].job.automation \in Automations /\ worker[w].job.pub \in Pubs
        /\ worker[w].job.entry \in Nat
    BY <1>1 DEF Busy, Job, ScheduleJob, RunJob, CancelJob
  <2>2. runs'[r] = InitRun(worker[w].job.automation, worker[w].job.pub, worker[w].job.entry)
    BY <1>2 DEF ScheduleInsert, IInv, TypeOK
  <2>3. runs'[r] # NoRun
    BY <2>1, <2>2, InitRunType, SentinelAssumption
  <2>4. worker'[w] = [worker[w] EXCEPT !.pc = "arm", !.run = r]
    BY <1>3 DEF IInv, TypeOK
  <2>5. worker'[w] \in Busy
    BY <1>1, <2>4 DEF Busy
  <2> QED
    BY <2>3, <2>5, SentinelAssumption
<1>6. \A v \in Workers : ~ArmsRun(v, r)
  BY <1>2 DEF ArmsRun, IInv, WorkersSound, Sound
<1>7. \A v \in Workers, q \in RunIds :
         ArmsRun(v, q)' <=> IF v = w THEN q = r ELSE ArmsRun(v, q)
  BY <1>4, <1>5 DEF ArmsRun
<1>8. ArmedOnce'
  BY <1>6, <1>7 DEF DInv, ArmedOnce
<1>9. \A q : Handling(q)' \subseteq Handling(q) /\ Unstarted(q)' \subseteq Unstarted(q)
  BY <1>1, <1>4 DEF Handling, Unstarted
<1>10. \A q \in RunIds : Waiting(q)' <=> Waiting(q)
  BY <1>3 DEF Waiting
<1>11. ASSUME NEW q \in RunIds PROVE ExecutionsAllowed(q)' /\ AnnouncementsAllowed(q)'
  <2>3. workerCrashes <= workerCrashes' /\ ExecutionsAllowed(q) /\ AnnouncementsAllowed(q)
    BY <1>3 DEF DInv, IInv, TypeOK
  <2>1. CASE q = r
    <3>1. ~Arming(q)
      BY <1>6, <2>1 DEF Arming
    <3>2. /\ Cardinality(Handling(q)') <= Cardinality(Handling(q))
          /\ Cardinality(Unstarted(q)') <= Cardinality(Unstarted(q))
          /\ IsFiniteSet(Handling(q)') /\ IsFiniteSet(Unstarted(q)')
      BY <1>9, Counts, FS_Subset DEF IInv
    <3>3. Cardinality(Handling(q)') \in Nat /\ Cardinality(Unstarted(q)') \in Nat
      BY <3>2, FS_CardinalityType
    <3>4. ExecutionsAllowed(q) /\ AnnouncementsAllowed(q)
      BY DEF DInv
    <3>5. ToCome(q) \in Nat /\ ToCome(q)' \in Nat /\ ToCome(q)' <= ToCome(q) + 1
      BY <1>10, <2>1, <3>1 DEF ToCome, Unit
    <3>6. Stored(q) = 0 /\ Stored(q)' = 1
      BY <1>2, <1>5, <2>1 DEF Stored, Unit
    <3>7. Allowed(q) \in Nat /\ Allowed(q)' = Allowed(q) + 1
      BY <1>3, <3>6 DEF Allowed, IInv, TypeOK
    <3>8. /\ Cardinality(Handling(q)) \in Nat /\ Cardinality(Unstarted(q)) \in Nat
          /\ executions[q] \in Nat /\ Len(announced[q]) \in Nat
      BY Counts DEF IInv
    <3>9. ExecutionsAllowed(q)'
      BY <1>3, <3>2, <3>3, <3>4, <3>5, <3>7, <3>8, SMTT(60) DEF ExecutionsAllowed
    <3>10. AnnouncementsAllowed(q)'
      BY <1>3, <3>2, <3>3, <3>4, <3>5, <3>7, <3>8, SMTT(60) DEF AnnouncementsAllowed
    <3> QED
      BY <3>9, <3>10
  <2>2. CASE q # r
    <3>1. Arming(q)' => Arming(q)
      BY <1>7, <2>2 DEF Arming
    <3> QED
      BY <1>3, <1>9, <1>10, <2>2, <2>3, <3>1, NothingSpent
  <2> QED
    BY <2>1, <2>2
<1> QED
  BY <1>8, <1>11 DEF DInv

LEMMA UnkeyedGoOn ==
    ASSUME TypeOK, NEW w \in Workers, NEW key,
           worker' = [Unkeyed(worker, key) EXCEPT ![w] = Idle]
    PROVE  worker'[w] = Idle /\ \A v \in Workers : GoesOn(v)
  BY DEF TypeOK, Unkeyed, GoesOn, Busy

\* The run about to wait waits.
LEMMA ArmDeliveries ==
    ASSUME IInv, IInv', DInv, NEW w \in Workers, ScheduleArm(w)
    PROVE  DInv'
<1> DEFINE j == worker[w].job
           key == JobKey(j.automation, j.pub)
           r == worker[w].run
           new == [type |-> "RunDelayedAutomation", automation |-> j.automation,
                   pub |-> j.pub, run |-> r, late |-> ~Current(r)]
<1>1. /\ jobs' = WithoutKey(jobs, key) \union {new}
      /\ worker' = [Unkeyed(worker, key) EXCEPT ![w] = Idle]
      /\ UNCHANGED <<runs, executions, announced, workerCrashes>>
  BY DEF ScheduleArm
<1>2. ArmsRun(w, r) /\ r \in RunIds
  BY DEF ScheduleArm, At, ArmsRun, IInv, WorkersSound, Sound
<1>run. PICK r0 \in RunIds : r0 = r
  BY <1>2
<1>same. /\ workerCrashes \in Nat /\ workerCrashes' = workerCrashes
         /\ \A q \in RunIds :
               /\ ExecutionsAllowed(q) /\ AnnouncementsAllowed(q)
               /\ runs'[q] # NoRun <=> runs[q] # NoRun
  BY <1>1 DEF DInv, IInv, TypeOK
<1>3. worker'[w] = Idle /\ \A v \in Workers : GoesOn(v)
  BY <1>1, UnkeyedGoOn DEF IInv
<1>4. new.run = r0 /\ ArmsRun(w, r0)
  BY <1>2, <1>run
<1> HIDE DEF key, new, j, r
<1>5. ~Arming(r0)'
  BY <1>3, <1>4, WorkersGoOn DEF Arming, ArmsRun, DInv, ArmedOnce
<1>6. \A q \in RunIds : q # r0 => (Waiting(q)' => Waiting(q))
  BY <1>1, <1>4 DEF Waiting, RunJobsIn, WithoutKey
<1>7. ArmedOnce'
  BY <1>3, WorkersGoOn DEF DInv, ArmedOnce
<1>8. ASSUME NEW q \in RunIds PROVE ExecutionsAllowed(q)' /\ AnnouncementsAllowed(q)'
  <2>0. Handling(q)' \subseteq Handling(q) /\ Unstarted(q)' \subseteq Unstarted(q)
        /\ (Arming(q)' => Arming(q))
    BY <1>3, WorkersGoOn
  <2>1. CASE q = r0
    <3>1. Arming(q) /\ ~Arming(q)'
      BY <1>4, <1>5, <2>1 DEF Arming
    <3>2. /\ Cardinality(Handling(q)') <= Cardinality(Handling(q))
          /\ Cardinality(Unstarted(q)') <= Cardinality(Unstarted(q))
          /\ IsFiniteSet(Handling(q)') /\ IsFiniteSet(Unstarted(q)')
      BY <2>0, Counts, FS_Subset DEF IInv
    <3>3. Cardinality(Handling(q)') \in Nat /\ Cardinality(Unstarted(q)') \in Nat
      BY <3>2, FS_CardinalityType
    <3>4. ExecutionsAllowed(q) /\ AnnouncementsAllowed(q)
      BY DEF DInv
    <3>5. ToCome(q) \in Nat /\ ToCome(q)' \in Nat /\ ToCome(q)' <= ToCome(q)
      BY <3>1 DEF ToCome, Unit
    <3>6. Allowed(q) \in Nat /\ Allowed(q)' = Allowed(q)
      BY <1>1, Dues DEF IInv
    <3>7. /\ Cardinality(Handling(q)) \in Nat /\ Cardinality(Unstarted(q)) \in Nat
          /\ executions[q] \in Nat /\ Len(announced[q]) \in Nat
      BY Counts DEF IInv
    <3>8. ExecutionsAllowed(q)'
      BY <1>1, <3>2, <3>3, <3>4, <3>5, <3>6, <3>7, SMTT(60) DEF ExecutionsAllowed
    <3>9. AnnouncementsAllowed(q)'
      BY <1>1, <3>2, <3>3, <3>4, <3>5, <3>6, <3>7, SMTT(60) DEF AnnouncementsAllowed
    <3> QED
      BY <3>8, <3>9
  <2>2. CASE q # r0
    BY <1>1, <1>6, <1>same, <2>0, <2>2, NothingSpent
  <2> QED
    BY <2>1, <2>2
<1> QED
  BY <1>7, <1>8 DEF DInv

LEMMA AllScheduled ==
    ASSUME NEW a \in Automations
    PROVE  Aggregate(AllRows(a, "scheduled")) = "scheduled"
<1> DEFINE rows == AllRows(a, "scheduled")
<1>1. NActions[a] \in Nat /\ 1 \in 1..NActions[a]
  BY ConstantsAssumption
<1>2. DOMAIN rows = 1..NActions[a] /\ \A i \in DOMAIN rows : rows[i] = "scheduled"
  BY DEF AllRows
<1>3. rows[1] = "scheduled" /\ 1 \in DOMAIN rows
  BY <1>1, <1>2
<1> HIDE DEF rows
<1>4. ~ \E i \in DOMAIN rows : rows[i] = "failure"
  BY <1>2
<1>5. ~ \A i \in DOMAIN rows : rows[i] = "success"
  BY <1>3
<1> QED
  BY <1>2, <1>4, <1>5 DEF Aggregate, rows

LEMMA MarkDeliveries ==
    ASSUME IInv, IInv', DInv, SameRuns, NEW w \in Workers, RunMark(w)
    PROVE  DInv'
<1> DEFINE r == worker[w].job.run
<1>1. /\ worker[w] # Idle /\ worker[w].job.type = "RunDelayedAutomation"
      /\ worker[w].pc = "mark"
  BY DEF RunMark, At
<1>2. r \in RunIds /\ worker[w].job.automation \in Automations /\ worker[w] \in Busy
  BY <1>1, HandlerKnows
<1>3. /\ worker' = [worker EXCEPT ![w].pc = "execute"]
      /\ executions' = [executions EXCEPT ![r] = @ + 1]
      /\ UNCHANGED <<jobs, workerCrashes>>
      /\ WriteRows(r, AllRows(worker[w].job.automation, "scheduled"))
  BY SMTT(30) DEF RunMark, Goto
<1>4. announced' = announced
  <2> DEFINE rows == AllRows(worker[w].job.automation, "scheduled")
  <2>1. Aggregate(rows) = "scheduled"
    BY <1>2, AllScheduled
  <2> HIDE DEF rows
  <2>2. StatusAfter(runs[r], rows) \in {runs[r].status, "scheduled"}
    BY <2>1 DEF StatusAfter
  <2>3. WriteRows(r, rows)
    BY <1>3 DEF rows
  <2> QED
    BY <2>2, <2>3 DEF WriteRows, Outcome
<1> HIDE DEF r
<1>5. /\ executions'[r] = executions[r] + 1
      /\ \A q \in RunIds : q # r => executions'[q] = executions[q]
  BY <1>2, <1>3 DEF IInv, TypeOK
<1>6. /\ worker'[w].job = worker[w].job /\ worker'[w].pc = "execute"
      /\ worker'[w].run = worker[w].run
      /\ \A v \in Workers : v # w => worker'[v] = worker[v]
  BY <1>2, <1>3 DEF IInv, TypeOK, Busy
<1>7. \A v \in Workers : GoesOn(v)
  BY <1>1, <1>6 DEF GoesOn
<1>8. \A q \in RunIds : Waiting(q)' => Waiting(q)
  BY <1>3 DEF Waiting
<1>same. /\ workerCrashes \in Nat /\ workerCrashes' = workerCrashes
         /\ \A q \in RunIds :
               /\ ExecutionsAllowed(q) /\ AnnouncementsAllowed(q)
               /\ runs'[q] # NoRun <=> runs[q] # NoRun
  BY <1>3 DEF DInv, SameRuns, Kept, IInv, TypeOK
<1>9. ArmedOnce'
  BY <1>7, WorkersGoOn DEF DInv, ArmedOnce
<1>10. ASSUME NEW q \in RunIds PROVE ExecutionsAllowed(q)' /\ AnnouncementsAllowed(q)'
  <2>0. Handling(q)' \subseteq Handling(q) /\ Unstarted(q)' \subseteq Unstarted(q)
        /\ (Arming(q)' => Arming(q))
    BY <1>7, WorkersGoOn
  <2>1. CASE q = r
    <3>1. w \in Unstarted(q)
      BY <1>1, <2>1 DEF Unstarted, Handling, r
    <3>2. w \notin Unstarted(q)'
      BY <1>6 DEF Unstarted
    <3>3. Cardinality(Unstarted(q)') + 1 <= Cardinality(Unstarted(q))
      BY <2>0, <3>1, <3>2, Counts, OneLess DEF IInv
    <3>4. /\ Cardinality(Handling(q)') <= Cardinality(Handling(q))
          /\ IsFiniteSet(Handling(q)') /\ IsFiniteSet(Unstarted(q)')
      BY <2>0, Counts, FS_Subset DEF IInv
    <3>5. Cardinality(Handling(q)') \in Nat /\ Cardinality(Unstarted(q)') \in Nat
      BY <3>4, FS_CardinalityType
    <3>6. ExecutionsAllowed(q) /\ AnnouncementsAllowed(q)
          /\ (runs'[q] # NoRun <=> runs[q] # NoRun)
      BY DEF DInv, SameRuns, Kept
    <3>7. executions'[q] = executions[q] + 1
      BY <1>5, <2>1
    <3>8. /\ Allowed(q) \in Nat /\ Allowed(q)' = Allowed(q)
          /\ ToCome(q) \in Nat /\ ToCome(q)' \in Nat /\ ToCome(q)' <= ToCome(q)
      BY <1>8, <1>same, <2>0, Dues DEF IInv
    <3>9. /\ Cardinality(Handling(q)) \in Nat /\ Cardinality(Unstarted(q)) \in Nat
          /\ executions[q] \in Nat /\ Len(announced[q]) \in Nat
      BY Counts DEF IInv
    <3>10. ExecutionsAllowed(q)'
      BY <1>4, <3>3, <3>4, <3>5, <3>6, <3>7, <3>8, <3>9, SMTT(60) DEF ExecutionsAllowed
    <3>11. AnnouncementsAllowed(q)'
      BY <1>4, <3>3, <3>4, <3>5, <3>6, <3>7, <3>8, <3>9, SMTT(60) DEF AnnouncementsAllowed
    <3> QED
      BY <3>10, <3>11
  <2>2. CASE q # r
    BY <1>4, <1>5, <1>8, <1>same, <2>0, <2>2, NothingSpent
  <2> QED
    BY <2>1, <2>2
<1> QED
  BY <1>9, <1>10 DEF DInv

\* A handler that ends announces its run's outcome once at most.
LEMMA EndDeliveries ==
    ASSUME IInv, IInv', DInv, SameRuns, NEW w \in Workers, RunCheckError(w) \/ RunFinish(w)
    PROVE  DInv'
<1> DEFINE r == worker[w].job.run
<1>1. worker[w] # Idle /\ worker[w].job.type = "RunDelayedAutomation"
  BY DEF RunCheckError, RunFinish, At
<1>2. r \in RunIds
  BY <1>1, HandlerKnows
<1>3. /\ worker' = [worker EXCEPT ![w] = Idle]
      /\ UNCHANGED <<jobs, executions, workerCrashes>>
      /\ \E rows : WriteRows(r, rows)
  BY DEF RunCheckError, RunFinish, Done
<1> HIDE DEF r
<1>4. /\ \A q \in RunIds : q # r => announced'[q] = announced[q]
      /\ Len(announced'[r]) \in Nat /\ Len(announced'[r]) <= Len(announced[r]) + 1
  <2>1. announced \in [RunIds -> Seq(Outcome)] /\ announced[r] \in Seq(Outcome)
    BY <1>2 DEF IInv, TypeOK
  <2>2. PICK s : announced' = announced
                 \/ (announced' = [announced EXCEPT ![r] = Append(@, s)] /\ s \in Outcome)
    BY <1>3 DEF WriteRows
  <2>3. CASE announced' = announced
    BY <2>1, <2>3
  <2>4. CASE announced' = [announced EXCEPT ![r] = Append(@, s)] /\ s \in Outcome
    <3>1. announced'[r] = Append(announced[r], s)
      BY <2>1, <2>4, <1>2
    <3>2. Len(announced'[r]) = Len(announced[r]) + 1 /\ Len(announced[r]) \in Nat
      BY <2>1, <2>4, <3>1
    <3> QED
      BY <2>1, <2>4, <3>2
  <2> QED
    BY <2>2, <2>3, <2>4
<1>5. worker'[w] = Idle /\ \A v \in Workers : v # w => worker'[v] = worker[v]
  BY <1>3 DEF IInv, TypeOK
<1>6. \A v \in Workers : GoesOn(v)
  BY <1>5 DEF GoesOn
<1>7. \A q \in RunIds : Waiting(q)' => Waiting(q)
  BY <1>3 DEF Waiting
<1>same. /\ workerCrashes \in Nat /\ workerCrashes' = workerCrashes
         /\ \A q \in RunIds :
               /\ ExecutionsAllowed(q) /\ AnnouncementsAllowed(q)
               /\ runs'[q] # NoRun <=> runs[q] # NoRun
  BY <1>3 DEF DInv, SameRuns, Kept, IInv, TypeOK
<1>8. ArmedOnce'
  BY <1>6, WorkersGoOn DEF DInv, ArmedOnce
<1>9. ASSUME NEW q \in RunIds PROVE ExecutionsAllowed(q)' /\ AnnouncementsAllowed(q)'
  <2>0. Handling(q)' \subseteq Handling(q) /\ Unstarted(q)' \subseteq Unstarted(q)
        /\ (Arming(q)' => Arming(q))
    BY <1>6, WorkersGoOn
  <2>1. CASE q = r
    <3>1. w \in Handling(q) /\ w \notin Handling(q)'
      BY <1>1, <1>5, <2>1 DEF Handling, r
    <3>2. Cardinality(Handling(q)') + 1 <= Cardinality(Handling(q))
      BY <2>0, <3>1, Counts, OneLess DEF IInv
    <3>3. /\ Cardinality(Unstarted(q)') <= Cardinality(Unstarted(q))
          /\ IsFiniteSet(Handling(q)') /\ IsFiniteSet(Unstarted(q)')
      BY <2>0, Counts, FS_Subset DEF IInv
    <3>4. Cardinality(Handling(q)') \in Nat /\ Cardinality(Unstarted(q)') \in Nat
      BY <3>3, FS_CardinalityType
    <3>5. ExecutionsAllowed(q) /\ AnnouncementsAllowed(q)
          /\ (runs'[q] # NoRun <=> runs[q] # NoRun)
      BY DEF DInv, SameRuns, Kept
    <3>6. Len(announced'[q]) \in Nat /\ Len(announced'[q]) <= Len(announced[q]) + 1
      BY <1>4, <2>1
    <3>7. executions'[q] = executions[q]
      BY <1>3
    <3>8. /\ Allowed(q) \in Nat /\ Allowed(q)' = Allowed(q)
          /\ ToCome(q) \in Nat /\ ToCome(q)' \in Nat /\ ToCome(q)' <= ToCome(q)
      BY <1>7, <1>same, <2>0, Dues DEF IInv
    <3>9. /\ Cardinality(Handling(q)) \in Nat /\ Cardinality(Unstarted(q)) \in Nat
          /\ executions[q] \in Nat /\ Len(announced[q]) \in Nat
      BY Counts DEF IInv
    <3>10. ExecutionsAllowed(q)'
      BY <3>2, <3>3, <3>4, <3>5, <3>6, <3>7, <3>8, <3>9, SMTT(60) DEF ExecutionsAllowed
    <3>11. AnnouncementsAllowed(q)'
      BY <3>2, <3>3, <3>4, <3>5, <3>6, <3>7, <3>8, <3>9, SMTT(60) DEF AnnouncementsAllowed
    <3> QED
      BY <3>10, <3>11
  <2>2. CASE q # r
    BY <1>3, <1>4, <1>7, <1>same, <2>0, <2>2, NothingSpent
  <2> QED
    BY <2>1, <2>2
<1> QED
  BY <1>8, <1>9 DEF DInv

\* A crash allows the delivery that it causes.
LEMMA CrashDeliveries ==
    ASSUME IInv, IInv', DInv, NEW w \in Workers, WorkerCrash(w)
    PROVE  DInv'
<1>1. /\ worker' = [worker EXCEPT ![w].delivered = FALSE]
      /\ UNCHANGED <<runs, executions, announced>>
      /\ workerCrashes' = workerCrashes + 1
      /\ worker[w] \in Busy
  BY DEF WorkerCrash, IInv, TypeOK
<1>2. \A v \in Workers : GoesOn(v)
  <2>1. /\ worker'[w].job = worker[w].job /\ worker'[w].pc = worker[w].pc
        /\ worker'[w].run = worker[w].run
        /\ \A v \in Workers : v # w => worker'[v] = worker[v]
    BY <1>1 DEF IInv, TypeOK, Busy
  <2>2. worker[w] # Idle
    BY DEF WorkerCrash
  <2> QED
    BY <2>1, <2>2 DEF GoesOn
<1>3. ArmedOnce'
  BY <1>2, WorkersGoOn DEF DInv, ArmedOnce
<1>4. ASSUME NEW q \in RunIds PROVE ExecutionsAllowed(q)' /\ AnnouncementsAllowed(q)'
  <2>0. Handling(q)' \subseteq Handling(q) /\ Unstarted(q)' \subseteq Unstarted(q)
        /\ (Arming(q)' => Arming(q))
    BY <1>2, WorkersGoOn
  <2>1. /\ Cardinality(Handling(q)') <= Cardinality(Handling(q))
        /\ Cardinality(Unstarted(q)') <= Cardinality(Unstarted(q))
        /\ IsFiniteSet(Handling(q)') /\ IsFiniteSet(Unstarted(q)')
    BY <2>0, Counts, FS_Subset DEF IInv
  <2>2. Cardinality(Handling(q)') \in Nat /\ Cardinality(Unstarted(q)') \in Nat
    BY <2>1, FS_CardinalityType
  <2>3. ExecutionsAllowed(q) /\ AnnouncementsAllowed(q)
    BY DEF DInv
  <2>4. Allowed(q) \in Nat /\ Allowed(q)' = Allowed(q) + 1
    BY <1>1, Dues DEF IInv
  <2>5. ToCome(q) \in Nat /\ ToCome(q)' \in Nat /\ ToCome(q)' <= ToCome(q) + 1
    BY <2>0 DEF ToCome, Unit
  <2>6. /\ Cardinality(Handling(q)) \in Nat /\ Cardinality(Unstarted(q)) \in Nat
        /\ executions[q] \in Nat /\ Len(announced[q]) \in Nat
    BY Counts DEF IInv
  <2>7. ExecutionsAllowed(q)'
    BY <1>1, <2>1, <2>2, <2>3, <2>4, <2>5, <2>6, SMTT(60) DEF ExecutionsAllowed
  <2>8. AnnouncementsAllowed(q)'
    BY <1>1, <2>1, <2>2, <2>3, <2>4, <2>5, <2>6, SMTT(60) DEF AnnouncementsAllowed
  <2> QED
    BY <2>7, <2>8
<1> QED
  BY <1>3, <1>4 DEF DInv

LEMMA StepDInv == IInv /\ IInv' /\ KInv /\ DInv /\ [Next]_vars => DInv'
<1> SUFFICES ASSUME IInv, IInv', KInv, DInv, [Next]_vars PROVE DInv'
  OBVIOUS
<1>t. /\ worker \in [Workers -> Busy \union {Idle}] /\ workerCrashes \in Nat
      /\ entries \in [Pubs -> Nat]
  BY DEF IInv, TypeOK
<1>same. runs' = runs => SameRuns
  BY DEF SameRuns, Kept
<1>on. worker' = worker => \A w \in Workers : GoesOn(w)
  BY DEF GoesOn
<1>moved. ASSUME NEW p \in Pubs, NEW s, MoveTo(p, s)
          PROVE  \A k \in jobs' : k.type = "RunDelayedAutomation" => k \in jobs
  <2>1. entries[p] \in Nat /\ entries[p] + 1 \in Nat
    BY <1>t
  <2> QED BY <1>moved, <2>1, TriggerJobs DEF MoveTo
<1>done. ASSUME NEW w \in Workers, worker' = [worker EXCEPT ![w] = Idle]
         PROVE  \A v \in Workers : GoesOn(v)
  BY <1>done, <1>t DEF GoesOn
<1>1. ASSUME NEW p \in Pubs, NEW s \in Stages, MovePub(p, s)
      PROVE  DInv'
  BY <1>1, <1>t, <1>same, <1>on, <1>moved, QuietDeliveries DEF MovePub
<1>2. ASSUME NEW p \in Pubs, RemoveFromStage(p)
      PROVE  DInv'
  <2>1. \A k \in jobs' : k.type = "RunDelayedAutomation" => k \in jobs
    BY <1>2, <1>t, TriggerJobs DEF RemoveFromStage
  <2> QED BY <1>2, <2>1, <1>t, <1>same, <1>on, QuietDeliveries DEF RemoveFromStage
<1>3. ASSUME NEW w \in Workers, NEW j \in jobs, Pick(w, j)
      PROVE  DInv'
  BY <1>3, PickDeliveries
<1>4. ASSUME NEW w \in Workers, ScheduleRefused(w) \/ RunNotMet(w) \/ CoreFault(w)
      PROVE  DInv'
  BY <1>4, <1>t, <1>same, <1>done, QuietDeliveries
     DEF ScheduleRefused, RunNotMet, CoreFault, Done
<1>5. ASSUME NEW w \in Workers, NEW o,
             ScheduleCheck(w) \/ RunCheck(w) \/ RunAction(w, o)
      PROVE  DInv'
  <2>1. /\ jobs' = jobs
        /\ UNCHANGED <<runs, executions, announced, workerCrashes>>
    BY <1>5 DEF ScheduleCheck, RunCheck, RunAction
  <2>2. worker[w] # Idle /\ worker[w] \in Busy
    BY <1>5, <1>t DEF ScheduleCheck, RunCheck, RunAction, At
  <2>3. \A v \in Workers : GoesOn(v)
    <3>1. CASE ScheduleCheck(w) \/ RunCheck(w)
      <4>1. PICK pc \in {"insert", "mark"} :
              worker' = [worker EXCEPT ![w].pc = pc] /\ worker[w].pc = "start"
        BY <3>1 DEF ScheduleCheck, RunCheck, Goto, At
      <4> QED
        BY <4>1, <2>2, <1>t DEF GoesOn, Busy
    <3>2. CASE RunAction(w, o)
      BY <3>2, <2>2, <1>t DEF RunAction, Result, GoesOn, Busy
    <3> QED
      BY <1>5, <3>1, <3>2
  <2> QED
    BY <2>1, <2>3, <1>t, <1>same, QuietDeliveries
<1>6. ASSUME NEW w \in Workers, ScheduleInsert(w)
      PROVE  DInv'
  BY <1>6, InsertDeliveries
<1>7. ASSUME NEW w \in Workers, ScheduleArm(w)
      PROVE  DInv'
  BY <1>7, ArmDeliveries
<1>8. ASSUME NEW w \in Workers, CancelScheduled(w)
      PROVE  DInv'
  <2>1. PICK key :
          /\ jobs' = WithoutKey(jobs, key)
          /\ worker' = [Unkeyed(worker, key) EXCEPT ![w] = Idle]
          /\ UNCHANGED <<runs, executions, announced, workerCrashes>>
    BY <1>8 DEF CancelScheduled
  <2>2. \A v \in Workers : GoesOn(v)
    BY <2>1, UnkeyedGoOn DEF IInv
  <2> QED
    BY <2>1, <2>2, <1>t, <1>same, QuietDeliveries DEF WithoutKey
<1>9. ASSUME NEW w \in Workers, RunCheckError(w) \/ RunFinish(w)
      PROVE  DInv'
  BY <1>9, RowsWritten, EndDeliveries
<1>10. ASSUME NEW w \in Workers, RunMark(w)
       PROVE  DInv'
  BY <1>10, RowsWritten, MarkDeliveries
<1>11. ASSUME NEW w \in Workers, NEW s \in Stages, RunMove(w, s)
       PROVE  DInv'
  <2>1. worker[w] # Idle /\ worker[w].job.type = "RunDelayedAutomation"
    BY <1>11 DEF RunMove, At
  <2>2. worker[w].job.pub \in Pubs /\ worker[w] \in Busy
    BY <2>1, HandlerKnows
  <2>3. \A v \in Workers : GoesOn(v)
    BY <1>11, <2>1, <2>2, <1>t DEF RunMove, Result, GoesOn, Busy
  <2> QED
    BY <1>11, <2>2, <2>3, <1>t, <1>same, <1>moved, QuietDeliveries DEF RunMove
<1>12. ASSUME NEW w \in Workers, WorkerCrash(w)
       PROVE  DInv'
  BY <1>12, CrashDeliveries
<1>13. CASE UNCHANGED vars
  BY <1>13, <1>t, <1>same, <1>on, QuietDeliveries DEF vars
<1>14. CASE Next
  BY <1>14, <1>1, <1>2, <1>3, <1>4, <1>5, <1>6, <1>7, <1>8, <1>9, <1>10, <1>11, <1>12
     DEF Next, Move, PickAny, Handle, Fault
<1> QED
  BY <1>13, <1>14

LEMMA InitDInv == Init => DInv
<1> SUFFICES ASSUME Init PROVE DInv
  OBVIOUS
<1>1. ASSUME NEW r \in RunIds PROVE ExecutionsAllowed(r) /\ AnnouncementsAllowed(r)
  <2>1. Handling(r) = {} /\ Unstarted(r) = {}
    BY DEF Init, Handling, Unstarted
  <2>2. ~Waiting(r) /\ ~Arming(r)
    BY DEF Init, Waiting, RunJobsIn, Arming, ArmsRun
  <2>3. executions[r] = 0 /\ Len(announced[r]) = 0 /\ workerCrashes = 0
    BY DEF Init
  <2>4. ToCome(r) = 0
    BY <2>2 DEF ToCome, Unit
  <2>5. Stored(r) = 0
    BY DEF Init, Stored, Unit
  <2> QED
    BY <2>1, <2>3, <2>4, <2>5, FS_EmptySet DEF ExecutionsAllowed, AnnouncementsAllowed, Allowed
<1>2. ArmedOnce
  BY DEF Init, ArmedOnce, ArmsRun
<1> QED
  BY <1>1, <1>2 DEF DInv

\* A run's actions start, and its outcome is announced, once per delivery of its job
\* at most: once, and once more for every crash of a worker.
THEOREM DeliveredOnce == Spec => []OncePerDelivery
<1>1. Init => KInv
  BY DEF Init, KInv, KeysOwnedOnce, OneJobPerKey, Owns, RunJobsIn
<1>2. IInv /\ DInv => OncePerDelivery
  <2> SUFFICES ASSUME IInv, DInv, NEW r \in RunIds
               PROVE  executions[r] <= 1 + workerCrashes /\ Len(announced[r]) <= 1 + workerCrashes
    BY DEF OncePerDelivery
  <2>1. ExecutionsAllowed(r) /\ AnnouncementsAllowed(r)
    BY DEF DInv
  <2>2. ToCome(r) \in Nat
    BY DEF ToCome, Unit
  <2>3. Stored(r) \in {0, 1}
    BY DEF Stored, Unit
  <2>4. /\ Cardinality(Handling(r)) \in Nat /\ Cardinality(Unstarted(r)) \in Nat
        /\ executions[r] \in Nat /\ Len(announced[r]) \in Nat /\ workerCrashes \in Nat
    BY Counts DEF IInv
  <2>5. Allowed(r) \in Nat /\ Allowed(r) <= 1 + workerCrashes
    BY <2>3, <2>4 DEF Allowed
  <2>6. executions[r] <= Allowed(r)
    BY <2>1, <2>2, <2>4, <2>5, SMTT(60) DEF ExecutionsAllowed
  <2>7. Len(announced[r]) <= Allowed(r)
    BY <2>1, <2>2, <2>4, <2>5, SMTT(60) DEF AnnouncementsAllowed
  <2> QED
    BY <2>4, <2>5, <2>6, <2>7
<1> QED
  BY <1>1, <1>2, InitIInv, StepIInv, StepKInv, InitDInv, StepDInv, PTL DEF Spec

-----------------------------------------------------------------------------
(* Stale jobs are being cancelled *)

\* A cancellation of run r is queued, lost in a failure, or being handled.
CancelComing(r) ==
    \/ CancelOf(r, jobs) \/ CancelOf(r, lost)
    \/ \E w \in Workers : worker[w] # Idle /\ CancelOf(r, {worker[w].job})

Due(r) == Waiting(r) \/ Arming(r)

\* No handler has touched the rows of a run whose job waits or is about to, so
\* the leave trigger finds something to cancel.
SInv ==
    workerCrashes = 0 =>
        /\ \A r \in RunIds : Due(r) => RowsToCancel(runs[r]) # {}
        /\ \A j \in RunJobsIn(jobs) : Current(j.run) \/ j.late \/ CancelComing(j.run)

LEMMA NotHandled ==
    ASSUME IInv, DInv, workerCrashes = 0, NEW r \in RunIds, Due(r)
    PROVE  Handling(r) = {}
<1>1. ToCome(r) \in Nat /\ ToCome(r) >= 1
  BY DEF Due, ToCome, Unit
<1>2. Stored(r) \in {0, 1}
  BY DEF Stored, Unit
<1>3. Allowed(r) \in Nat /\ Allowed(r) <= 1
  BY <1>2 DEF Allowed
<1>4. AnnouncementsAllowed(r)
  BY DEF DInv
<1>5. Len(announced[r]) \in Nat /\ Cardinality(Handling(r)) \in Nat /\ IsFiniteSet(Handling(r))
  BY Counts DEF IInv
<1>6. Cardinality(Handling(r)) = 0
  BY <1>1, <1>3, <1>4, <1>5 DEF AnnouncementsAllowed
<1> QED
  BY <1>5, <1>6, FS_EmptySet

LEMMA CancelsKept ==
    ASSUME NEW r, lost \subseteq lost',
           \A j \in jobs : j.type = "CancelScheduledAutomation" =>
              j \in jobs' \/ \E w \in Workers : worker'[w] # Idle /\ worker'[w].job = j,
           \A w \in Workers :
              worker[w] # Idle /\ CancelOf(r, {worker[w].job}) =>
                 \/ worker'[w] # Idle /\ worker'[w].job = worker[w].job
                 \/ worker[w].job \in lost'
    PROVE  CancelComing(r) => CancelComing(r)'
<1>1. CASE CancelOf(r, jobs)
  <2>1. PICK j \in jobs : j.type = "CancelScheduledAutomation" /\ j.run = r
    BY <1>1 DEF CancelOf
  <2> QED
    BY <2>1 DEF CancelComing, CancelOf
<1>2. CASE CancelOf(r, lost)
  BY <1>2 DEF CancelComing, CancelOf
<1>3. ASSUME NEW w \in Workers, worker[w] # Idle, CancelOf(r, {worker[w].job})
      PROVE  CancelComing(r)'
  BY <1>3 DEF CancelComing, CancelOf
<1> QED
  BY <1>1, <1>2, <1>3 DEF CancelComing

LEMMA RunsOfJobs ==
    ASSUME IInv, NEW j \in RunJobsIn(jobs)
    PROVE  j.run \in RunIds /\ runs[j.run] # NoRun /\ Waiting(j.run) /\ Due(j.run)
<1>1. j \in RunJob /\ Known(runs, j)
  BY DEF IInv, TypeOK, JobsKnown, RunJobsIn, Job, ScheduleJob, CancelJob
<1> QED
  BY <1>1 DEF RunJob, Known, RunJobsIn, Waiting, Due

\* A step in which workers go on, no delayed job is queued, rows that are due stay as
\* they are, and who stops being current is being cancelled.
LEMMA QuietCancels ==
    ASSUME IInv, SInv, workerCrashes' = workerCrashes,
           \A j \in jobs' : j.type = "RunDelayedAutomation" => j \in jobs,
           \A w \in Workers : GoesOn(w),
           \A r \in RunIds : workerCrashes = 0 /\ Due(r) => runs'[r] = runs[r],
           \A r \in RunIds : Waiting(r)' /\ CancelComing(r) => CancelComing(r)',
           \A r \in RunIds :
              runs[r] # NoRun /\ Current(r) /\ RowsToCancel(runs[r]) # {}
                 => Current(r)' \/ CancelComing(r)'
    PROVE  SInv'
<1> SUFFICES ASSUME workerCrashes' = 0
             PROVE  /\ \A r \in RunIds : Due(r)' => RowsToCancel(runs'[r]) # {}
                    /\ \A j \in RunJobsIn(jobs') :
                          Current(j.run)' \/ j.late \/ CancelComing(j.run)'
  BY DEF SInv
<1>1. ASSUME NEW r \in RunIds, Due(r)' PROVE RowsToCancel(runs'[r]) # {}
  <2>1. Waiting(r)' => Waiting(r)
    BY DEF Waiting, RunJobsIn
  <2>2. Due(r)
    BY <1>1, <2>1, WorkersGoOn DEF Due
  <2> QED
    BY <2>2 DEF SInv
<1>2. ASSUME NEW j \in RunJobsIn(jobs')
      PROVE  Current(j.run)' \/ j.late \/ CancelComing(j.run)'
  <2>1. j \in RunJobsIn(jobs) /\ Waiting(j.run)'
    BY <1>2 DEF RunJobsIn, Waiting
  <2>2. PICK r \in RunIds : r = j.run /\ runs[r] # NoRun /\ Due(r)
    BY <2>1, RunsOfJobs
  <2>3. RowsToCancel(runs[r]) # {} /\ (Current(r) \/ j.late \/ CancelComing(r))
    BY <2>1, <2>2 DEF SInv
  <2>4. Current(r)' \/ j.late \/ CancelComing(r)'
    BY <2>1, <2>2, <2>3
  <2> QED
    BY <2>2, <2>4
<1> QED
  BY <1>1, <1>2

\* What the leave trigger does for the runs of the pub that leaves.
LEMMA LeavingCancels ==
    ASSUME IInv, NEW p \in Pubs, runs' = runs,
           jobs \union CancelJobs(p, stage[p], entries[p]) \subseteq jobs',
           \A q \in Pubs : q # p => stage'[q] = stage[q] /\ entries'[q] = entries[q],
           NEW r \in RunIds, runs[r] # NoRun, Current(r), RowsToCancel(runs[r]) # {}
    PROVE  Current(r)' \/ CancelComing(r)'
<1>1. runs[r].pub \in Pubs
  BY DEF IInv, TypeOK, Run
<1>2. CASE runs[r].pub # p
  BY <1>1, <1>2 DEF Current
<1>3. CASE runs[r].pub = p
  <2>1. PICK i \in RowsToCancel(runs[r]) : TRUE
    OBVIOUS
  <2> DEFINE c == [type |-> "CancelScheduledAutomation", run |-> r, row |-> i,
                   leave |-> entries[p]]
             C(q) == {[type |-> "CancelScheduledAutomation", run |-> q, row |-> k,
                       leave |-> entries[p]] : k \in RowsToCancel(runs[q])}
             S == {q \in RunIds : /\ runs[q] # NoRun /\ runs[q].pub = p
                                  /\ StageOf[runs[q].automation] = stage[p]}
  <2>2. CancelJobs(p, stage[p], entries[p]) = UNION {C(q) : q \in S}
    BY DEF CancelJobs
  <2>3. r \in S
    BY <1>3 DEF Current
  <2>4. c \in C(r)
    BY <2>1
  <2>5. c.type = "CancelScheduledAutomation" /\ c.run = r
    OBVIOUS
  <2> HIDE DEF c, C, S
  <2>6. c \in CancelJobs(p, stage[p], entries[p])
    BY <2>2, <2>3, <2>4
  <2>7. CancelOf(r, jobs')
    BY <2>6, <2>5 DEF CancelOf
  <2> QED
    BY <2>7 DEF CancelComing
<1> QED
  BY <1>2, <1>3

LEMMA InsertCancels ==
    ASSUME IInv, SInv, NEW w \in Workers, ScheduleInsert(w)
    PROVE  SInv'
<1>1. /\ worker[w] \in Busy /\ worker[w] # Idle
      /\ worker[w].job.type = "ScheduleDelayedAutomation"
  BY DEF ScheduleInsert, At, IInv, TypeOK
<1>2. PICK r \in RunIds : r = FreshRun /\ runs[r] = NoRun
  BY DEF ScheduleInsert, FreshRun
<1>3. /\ worker' = [worker EXCEPT ![w].pc = "arm", ![w].run = r]
      /\ UNCHANGED <<stage, entries, jobs, lost, workerCrashes>>
      /\ \A q \in RunIds : q # r => runs'[q] = runs[q]
      /\ runs'[r] = InitRun(worker[w].job.automation, worker[w].job.pub, worker[w].job.entry)
  BY <1>2 DEF ScheduleInsert, IInv, TypeOK
<1>4. /\ worker'[w].job = worker[w].job /\ worker'[w].run = r
      /\ worker'[w] = [worker[w] EXCEPT !.pc = "arm", !.run = r]
      /\ \A v \in Workers : v # w => worker'[v] = worker[v]
  BY <1>1, <1>3 DEF IInv, TypeOK, Busy
<1>5. worker'[w] # Idle
  <2>1. worker'[w] \in Busy
    BY <1>1, <1>2, <1>4 DEF Busy
  <2> QED
    BY <2>1, SentinelAssumption
<1>6. RowsToCancel(runs'[r]) # {}
  <2>1. worker[w].job.automation \in Automations
    BY <1>1 DEF Busy, Job, ScheduleJob, RunJob, CancelJob
  <2>2. PICK a \in Automations : a = worker[w].job.automation
    BY <2>1
  <2>3. runs'[r].rows = AllRows(a, "scheduled")
    BY <1>3, <2>2 DEF InitRun
  <2>4. 1 \in 1..NActions[a]
    BY ConstantsAssumption
  <2> QED
    BY <2>3, <2>4 DEF RowsToCancel, AllRows
<1>7. ASSUME NEW q \in RunIds, q # r, Due(q)' PROVE Due(q)
  BY <1>3, <1>4, <1>7 DEF Due, Waiting, Arming, ArmsRun
<1>8. \A j \in RunJobsIn(jobs) : j.run \in RunIds /\ j.run # r
  BY <1>2, RunsOfJobs
<1>9. \A q \in RunIds : CancelComing(q) => CancelComing(q)'
  BY <1>1, <1>3, <1>4, <1>5, CancelsKept
<1>10. \A q \in RunIds : q # r /\ Current(q) => Current(q)'
  BY <1>3 DEF Current
<1>11. workerCrashes' = 0 => \A q \in RunIds : Due(q)' => RowsToCancel(runs'[q]) # {}
  BY <1>3, <1>6, <1>7 DEF SInv
<1>12. workerCrashes' = 0 => \A j \in RunJobsIn(jobs') :
                               Current(j.run)' \/ j.late \/ CancelComing(j.run)'
  <2> SUFFICES ASSUME workerCrashes' = 0, NEW j \in RunJobsIn(jobs)
               PROVE  Current(j.run)' \/ j.late \/ CancelComing(j.run)'
    BY <1>3
  <2>1. PICK q \in RunIds : q = j.run /\ q # r
    BY <1>8
  <2>2. Current(q) \/ j.late \/ CancelComing(q)
    BY <1>3, <2>1 DEF SInv
  <2>3. Current(q)' \/ j.late \/ CancelComing(q)'
    BY <1>9, <1>10, <2>1, <2>2
  <2> QED
    BY <2>1, <2>3
<1> QED
  BY <1>11, <1>12 DEF SInv

LEMMA ArmCancels ==
    ASSUME IInv, SInv, NEW w \in Workers, ScheduleArm(w)
    PROVE  SInv'
<1> DEFINE j == worker[w].job
           key == JobKey(j.automation, j.pub)
           new == [type |-> "RunDelayedAutomation", automation |-> j.automation,
                   pub |-> j.pub, run |-> worker[w].run, late |-> ~Current(worker[w].run)]
<1>1. /\ jobs' = WithoutKey(jobs, key) \union {new}
      /\ worker' = [Unkeyed(worker, key) EXCEPT ![w] = Idle]
      /\ UNCHANGED <<stage, entries, runs, lost, workerCrashes>>
      /\ worker[w] # Idle /\ worker[w].job.type = "ScheduleDelayedAutomation"
  BY DEF ScheduleArm, At
<1>2. PICK r \in RunIds : r = worker[w].run /\ ArmsRun(w, r)
  BY DEF ScheduleArm, At, ArmsRun, IInv, WorkersSound, Sound
<1>3. new.type = "RunDelayedAutomation" /\ new.run = r /\ new.late = ~Current(r)
  BY <1>2
<1>4. /\ \A v \in Workers : GoesOn(v)
      /\ \A v \in Workers : v # w /\ worker[v] # Idle =>
            worker'[v] # Idle /\ worker'[v].job = worker[v].job
  <2>1. worker'[w] = Idle /\ \A v \in Workers : GoesOn(v)
    BY <1>1, UnkeyedGoOn DEF IInv
  <2>2. ASSUME NEW v \in Workers, v # w, worker[v] # Idle
        PROVE  worker'[v] # Idle /\ worker'[v].job = worker[v].job
    <3>1. worker[v] \in Busy
      BY <2>2 DEF IInv, TypeOK
    <3>2. worker'[v] = worker[v] \/ worker'[v] = [worker[v] EXCEPT !.keyed = FALSE]
      BY <1>1, <2>2 DEF Unkeyed
    <3>3. worker'[v] \in Busy /\ worker'[v].job = worker[v].job
      BY <3>1, <3>2 DEF Busy
    <3> QED
      BY <3>3, SentinelAssumption
  <2> QED
    BY <2>1, <2>2
<1> HIDE DEF key, new, j
<1>5. \A q \in RunIds : CancelComing(q) => CancelComing(q)'
  <2> SUFFICES ASSUME NEW q \in RunIds PROVE CancelComing(q) => CancelComing(q)'
    OBVIOUS
  <2>1. \A k \in jobs : k.type = "CancelScheduledAutomation" => k \in jobs'
    BY <1>1 DEF WithoutKey, HasKey
  <2>2. \A v \in Workers : worker[v] # Idle /\ CancelOf(q, {worker[v].job}) =>
           worker'[v] # Idle /\ worker'[v].job = worker[v].job
    BY <1>1, <1>4 DEF CancelOf
  <2> QED
    BY <1>1, <2>1, <2>2, CancelsKept
<1>6. \A q \in RunIds : Current(q)' <=> Current(q)
  BY <1>1 DEF Current
<1>7. ASSUME workerCrashes = 0, NEW q \in RunIds, Due(q)'
      PROVE  RowsToCancel(runs'[q]) # {}
  <2>1. Due(q)
    <3>1. CASE q = r
      BY <1>2, <3>1 DEF Due, Arming
    <3>2. CASE q # r
      <4>1. Waiting(q)' => Waiting(q)
        BY <1>1, <1>3, <3>2 DEF Waiting, RunJobsIn, WithoutKey
      <4> QED
        BY <1>4, <1>7, <4>1, WorkersGoOn DEF Due
    <3> QED
      BY <3>1, <3>2
  <2> QED
    BY <1>1, <1>7, <2>1 DEF SInv
<1>8. ASSUME workerCrashes = 0, NEW k \in RunJobsIn(jobs')
      PROVE  Current(k.run)' \/ k.late \/ CancelComing(k.run)'
  <2>1. CASE k \in RunJobsIn(jobs)
    <3>1. PICK q \in RunIds : q = k.run
      BY <2>1, RunsOfJobs
    <3>2. Current(q) \/ k.late \/ CancelComing(q)
      BY <1>8, <2>1, <3>1 DEF SInv
    <3>3. Current(q)' \/ k.late \/ CancelComing(q)'
      BY <1>5, <1>6, <3>2
    <3> QED
      BY <3>1, <3>3
  <2>2. CASE k = new
    BY <1>3, <1>6, <2>2
  <2> QED
    BY <1>1, <1>8, <2>1, <2>2 DEF RunJobsIn, WithoutKey
<1> QED
  BY <1>1, <1>7, <1>8 DEF SInv

\* The cancellation that is carried out takes the jobs it is for from the queue.
LEMMA CancelCancels ==
    ASSUME IInv, SInv, NEW w \in Workers, CancelScheduled(w)
    PROVE  SInv'
<1>1. /\ worker[w] \in Busy /\ worker[w] # Idle
      /\ worker[w].job.type = "CancelScheduledAutomation"
  BY DEF CancelScheduled, At, IInv, TypeOK
<1>2. PICK r \in RunIds : r = worker[w].job.run
  BY <1>1 DEF Busy, Job, ScheduleJob, RunJob, CancelJob
<1>3. PICK key :
        /\ key = JobKey(runs[r].automation, runs[r].pub)
        /\ jobs' = WithoutKey(jobs, key)
        /\ worker' = [Unkeyed(worker, key) EXCEPT ![w] = Idle]
        /\ UNCHANGED <<stage, entries, runs, lost, workerCrashes>>
  BY <1>2 DEF CancelScheduled
<1>4. \A v \in Workers : GoesOn(v)
  BY <1>3, UnkeyedGoOn DEF IInv
<1>5. ~Waiting(r)'
  <2> SUFFICES ASSUME NEW k \in RunJobsIn(jobs), k.run = r PROVE HasKey(k, key)
    BY <1>3 DEF Waiting, RunJobsIn, WithoutKey
  <2>1. Known(runs, k) /\ k.type = "RunDelayedAutomation"
    BY DEF RunJobsIn, IInv, JobsKnown
  <2> QED
    BY <1>3, <2>1 DEF Known, HasKey
<1>6. ASSUME NEW q \in RunIds, q # r PROVE CancelComing(q) => CancelComing(q)'
  <2>1. \A k \in jobs : k.type = "CancelScheduledAutomation" => k \in jobs'
    BY <1>3 DEF WithoutKey, HasKey
  <2>2. ASSUME NEW v \in Workers, worker[v] # Idle, CancelOf(q, {worker[v].job})
        PROVE  worker'[v] # Idle /\ worker'[v].job = worker[v].job
    <3>1. v # w
      BY <1>2, <1>6, <2>2 DEF CancelOf
    <3>2. worker[v] \in Busy
      BY <2>2 DEF IInv, TypeOK
    <3>3. worker'[v] = worker[v] \/ worker'[v] = [worker[v] EXCEPT !.keyed = FALSE]
      BY <1>3, <2>2, <3>1 DEF Unkeyed
    <3>4. worker'[v] \in Busy /\ worker'[v].job = worker[v].job
      BY <3>2, <3>3 DEF Busy
    <3> QED
      BY <3>4, SentinelAssumption
  <2> QED
    BY <1>3, <2>1, <2>2, CancelsKept
<1>7. \A q \in RunIds : Waiting(q)' /\ CancelComing(q) => CancelComing(q)'
  BY <1>5, <1>6
<1>8. \A q \in RunIds : Current(q) => Current(q)'
  BY <1>3 DEF Current
<1>9. \A k \in jobs' : k.type = "RunDelayedAutomation" => k \in jobs
  BY <1>3 DEF WithoutKey
<1> QED
  BY <1>3, <1>4, <1>7, <1>8, <1>9, QuietCancels

\* A handler that writes the rows of its run writes none that are due.
LEMMA WritingCancels ==
    ASSUME IInv, DInv, SInv, NEW w \in Workers,
           RunCheckError(w) \/ RunMark(w) \/ RunFinish(w)
    PROVE  SInv'
<1>1. /\ worker[w] # Idle /\ worker[w].job.type = "RunDelayedAutomation"
      /\ worker[w] \in Busy
      /\ UNCHANGED <<stage, entries, jobs, lost, workerCrashes>>
  BY DEF RunCheckError, RunMark, RunFinish, At, IInv, TypeOK
<1>2. PICK r \in RunIds : r = worker[w].job.run
  BY <1>1, HandlerKnows
<1>3. \A q \in RunIds : q # r => runs'[q] = runs[q]
  BY <1>2 DEF RunCheckError, RunMark, RunFinish, WriteRows, IInv, TypeOK
<1>4. w \in Handling(r)
  BY <1>1, <1>2 DEF Handling
<1>5. \A q \in RunIds : workerCrashes = 0 /\ Due(q) => runs'[q] = runs[q]
  BY <1>3, <1>4, NotHandled
<1>6. worker' = [worker EXCEPT ![w] = Idle] \/ worker' = [worker EXCEPT ![w].pc = "execute"]
  BY DEF RunCheckError, RunMark, RunFinish, Done, Goto
<1>7. /\ \A v \in Workers : v # w => worker'[v] = worker[v]
      /\ worker'[w] = Idle \/ /\ worker'[w].job = worker[w].job
                              /\ worker'[w].run = worker[w].run /\ worker'[w].pc = "execute"
  BY <1>1, <1>6 DEF IInv, TypeOK, Busy
<1>8. \A v \in Workers : GoesOn(v)
  BY <1>1, <1>7 DEF GoesOn
<1>9. \A q \in RunIds : CancelComing(q) => CancelComing(q)'
  <2> SUFFICES ASSUME NEW q \in RunIds PROVE CancelComing(q) => CancelComing(q)'
    OBVIOUS
  <2>1. \A v \in Workers : worker[v] # Idle /\ CancelOf(q, {worker[v].job}) => worker'[v] = worker[v]
    BY <1>1, <1>7 DEF CancelOf
  <2> QED
    BY <1>1, <2>1, CancelsKept
<1>10. \A q \in RunIds : runs[q] # NoRun /\ Current(q) => Current(q)'
  <2>1. SameRuns
    BY RowsWritten
  <2> QED
    BY <1>1, <2>1 DEF SameRuns, Kept, Current
<1> QED
  BY <1>1, <1>5, <1>8, <1>9, <1>10, QuietCancels

LEMMA StepSInv ==
    IInv /\ DInv /\ SInv /\ [Next]_vars => SInv'
<1> SUFFICES ASSUME IInv, DInv, SInv, [Next]_vars PROVE SInv'
  OBVIOUS
<1>t. /\ worker \in [Workers -> Busy \union {Idle}] /\ workerCrashes \in Nat
      /\ stage \in [Pubs -> Stages \union {NoStage}] /\ entries \in [Pubs -> Nat]
  BY DEF IInv, TypeOK
<1>current. UNCHANGED <<stage, entries, runs>> => \A r \in RunIds : Current(r) => Current(r)'
  BY DEF Current
<1>on. worker' = worker => \A w \in Workers : GoesOn(w)
  BY DEF GoesOn
<1>moved. ASSUME NEW p \in Pubs, NEW s, MoveTo(p, s), runs' = runs
          PROVE  /\ \A k \in jobs' : k.type = "RunDelayedAutomation" => k \in jobs
                 /\ jobs \subseteq jobs'
                 /\ \A r \in RunIds :
                       runs[r] # NoRun /\ Current(r) /\ RowsToCancel(runs[r]) # {}
                          => Current(r)' \/ CancelComing(r)'
  <2>1. entries[p] \in Nat /\ entries[p] + 1 \in Nat
    BY <1>t
  <2>2. /\ jobs \union CancelJobs(p, stage[p], entries[p]) \subseteq jobs'
        /\ \A q \in Pubs : q # p => stage'[q] = stage[q] /\ entries'[q] = entries[q]
    BY <1>moved, <1>t DEF MoveTo
  <2>3. \A k \in jobs' : k.type = "RunDelayedAutomation" => k \in jobs
    BY <1>moved, <2>1, TriggerJobs DEF MoveTo
  <2> QED
    BY <1>moved, <2>2, <2>3, LeavingCancels
<1>1. ASSUME NEW p \in Pubs, NEW s \in Stages, MovePub(p, s)
      PROVE  SInv'
  <2>1. MoveTo(p, s) /\ UNCHANGED <<runs, worker, lost, workerCrashes>>
    BY <1>1 DEF MovePub
  <2>2. jobs \subseteq jobs'
    BY <1>moved, <2>1
  <2>3. \A r : CancelComing(r) => CancelComing(r)'
    BY <2>1, <2>2, CancelsKept
  <2> QED
    BY <1>moved, <1>on, <2>1, <2>3, QuietCancels
<1>2. ASSUME NEW p \in Pubs, RemoveFromStage(p)
      PROVE  SInv'
  <2>1. /\ UNCHANGED <<entries, runs, worker, lost, workerCrashes>>
        /\ jobs' = jobs \union CancelJobs(p, stage[p], entries[p])
        /\ \A q \in Pubs : q # p => stage'[q] = stage[q]
    BY <1>2, <1>t DEF RemoveFromStage
  <2>2. \A k \in jobs' : k.type = "RunDelayedAutomation" => k \in jobs
    BY <1>t, <2>1, TriggerJobs
  <2>3. \A r : CancelComing(r) => CancelComing(r)'
    BY <2>1, CancelsKept
  <2>4. \A r \in RunIds : runs[r] # NoRun /\ Current(r) /\ RowsToCancel(runs[r]) # {}
                             => Current(r)' \/ CancelComing(r)'
    BY <2>1, LeavingCancels
  <2> QED
    BY <1>on, <2>1, <2>2, <2>3, <2>4, QuietCancels
<1>3. ASSUME NEW w \in Workers, NEW j \in jobs, Pick(w, j)
      PROVE  SInv'
  <2>1. /\ worker[w] = Idle /\ jobs' = jobs \ {j} /\ j \in Job
        /\ worker'[w] = [job |-> j, pc |-> "start", run |-> NoRun, results |-> <<>>,
                         keyed |-> TRUE, delivered |-> TRUE]
        /\ worker'[w].job = j /\ worker'[w].pc = "start"
        /\ \A v \in Workers : v # w => worker'[v] = worker[v]
        /\ UNCHANGED <<stage, entries, runs, lost, workerCrashes>>
    BY <1>3, <1>t DEF Pick, IInv, TypeOK
  <2>2. worker'[w] # Idle
    <3>1. worker'[w] \in Busy
      BY <2>1 DEF Busy
    <3> QED
      BY <3>1, SentinelAssumption
  <2>3. \A r : CancelComing(r) => CancelComing(r)'
    BY <2>1, <2>2, CancelsKept
  <2>4. \A r \in RunIds : Due(r)' => Due(r)
    BY <2>1 DEF Due, Waiting, RunJobsIn, Arming, ArmsRun
  <2>5. \A r \in RunIds : Current(r) => Current(r)'
    BY <1>current, <2>1
  <2>6. workerCrashes' = 0 => \A r \in RunIds : Due(r)' => RowsToCancel(runs'[r]) # {}
    BY <2>1, <2>4 DEF SInv
  <2>7. workerCrashes' = 0 => \A k \in RunJobsIn(jobs') :
                                Current(k.run)' \/ k.late \/ CancelComing(k.run)'
    <3> SUFFICES ASSUME workerCrashes = 0, NEW k \in RunJobsIn(jobs)
                 PROVE  Current(k.run)' \/ k.late \/ CancelComing(k.run)'
      BY <2>1 DEF RunJobsIn
    <3>1. PICK r \in RunIds : r = k.run
      BY RunsOfJobs
    <3>2. Current(r) \/ k.late \/ CancelComing(r)
      BY <3>1 DEF SInv
    <3> QED
      BY <2>3, <2>5, <3>1, <3>2
  <2> QED
    BY <2>6, <2>7 DEF SInv
<1>4. ASSUME NEW w \in Workers, ScheduleRefused(w) \/ RunNotMet(w) \/ CoreFault(w)
      PROVE  SInv'
  <2>1. /\ worker' = [worker EXCEPT ![w] = Idle]
        /\ UNCHANGED <<stage, entries, runs, jobs, workerCrashes>>
        /\ lost \subseteq lost'
    BY <1>4 DEF ScheduleRefused, RunNotMet, CoreFault, Done
  <2>2. worker[w].job.type = "CancelScheduledAutomation" => worker[w].job \in lost'
    BY <1>4 DEF ScheduleRefused, RunNotMet, CoreFault, At
  <2>3. \A v \in Workers : v # w => worker'[v] = worker[v]
    BY <1>t, <2>1
  <2>4. ASSUME NEW r PROVE CancelComing(r) => CancelComing(r)'
    <3>1. \A v \in Workers : worker[v] # Idle /\ CancelOf(r, {worker[v].job}) =>
             worker'[v] = worker[v] \/ worker[v].job \in lost'
      BY <2>2, <2>3 DEF CancelOf
    <3> QED
      BY <2>1, <3>1, CancelsKept
  <2>5. \A v \in Workers : GoesOn(v)
    BY <1>t, <2>1 DEF GoesOn
  <2> QED
    BY <1>current, <2>1, <2>4, <2>5, QuietCancels
<1>5. ASSUME NEW w \in Workers, NEW o,
             ScheduleCheck(w) \/ RunCheck(w) \/ RunAction(w, o)
      PROVE  SInv'
  <2>1. UNCHANGED <<stage, entries, runs, jobs, lost, workerCrashes>>
    BY <1>5 DEF ScheduleCheck, RunCheck, RunAction
  <2>2. /\ worker[w] # Idle /\ worker[w] \in Busy
        /\ worker[w].job.type # "CancelScheduledAutomation"
    BY <1>5, <1>t DEF ScheduleCheck, RunCheck, RunAction, At
  <2>3. /\ \A v \in Workers : v # w => worker'[v] = worker[v]
        /\ worker'[w].job = worker[w].job /\ worker'[w].run = worker[w].run
        /\ worker'[w].pc = "arm" => worker[w].pc = "arm"
        /\ worker'[w].pc # "execute" => worker[w].pc # "execute"
    <3>1. CASE ScheduleCheck(w) \/ RunCheck(w)
      <4>1. PICK pc \in {"insert", "mark"} :
              worker' = [worker EXCEPT ![w].pc = pc] /\ worker[w].pc = "start"
        BY <3>1 DEF ScheduleCheck, RunCheck, Goto, At
      <4> QED
        BY <4>1, <2>2, <1>t DEF Busy
    <3>2. CASE RunAction(w, o)
      BY <3>2, <2>2, <1>t DEF RunAction, Result, Busy
    <3> QED
      BY <1>5, <3>1, <3>2
  <2>4. \A v \in Workers : GoesOn(v)
    BY <2>2, <2>3 DEF GoesOn
  <2>5. ASSUME NEW r PROVE CancelComing(r) => CancelComing(r)'
    <3>1. \A v \in Workers : CancelOf(r, {worker[v].job}) => worker'[v] = worker[v]
      BY <2>2, <2>3 DEF CancelOf
    <3> QED
      BY <2>1, <3>1, CancelsKept
  <2> QED
    BY <1>current, <2>1, <2>4, <2>5, QuietCancels
<1>6. ASSUME NEW w \in Workers, ScheduleInsert(w)
      PROVE  SInv'
  BY <1>6, InsertCancels
<1>7. ASSUME NEW w \in Workers, ScheduleArm(w)
      PROVE  SInv'
  BY <1>7, ArmCancels
<1>8. ASSUME NEW w \in Workers, CancelScheduled(w)
      PROVE  SInv'
  BY <1>8, CancelCancels
<1>9. ASSUME NEW w \in Workers, RunCheckError(w) \/ RunMark(w) \/ RunFinish(w)
      PROVE  SInv'
  BY <1>9, WritingCancels
<1>10. ASSUME NEW w \in Workers, NEW s \in Stages, RunMove(w, s)
       PROVE  SInv'
  <2>1. /\ worker[w] # Idle /\ worker[w].job.type = "RunDelayedAutomation"
        /\ MoveTo(worker[w].job.pub, s) /\ UNCHANGED <<runs, lost, workerCrashes>>
    BY <1>10 DEF RunMove, At
  <2>2. worker[w].job.pub \in Pubs /\ worker[w] \in Busy
    BY <2>1, HandlerKnows
  <2>3. /\ \A v \in Workers : v # w => worker'[v] = worker[v]
        /\ worker'[w].job = worker[w].job /\ worker'[w].run = worker[w].run
        /\ worker'[w].pc = worker[w].pc
    BY <1>10, <2>2, <1>t DEF RunMove, Result, Busy
  <2>4. \A v \in Workers : GoesOn(v)
    BY <2>1, <2>3 DEF GoesOn
  <2>5. /\ \A k \in jobs' : k.type = "RunDelayedAutomation" => k \in jobs
        /\ jobs \subseteq jobs'
        /\ \A r \in RunIds : runs[r] # NoRun /\ Current(r) /\ RowsToCancel(runs[r]) # {}
                                => Current(r)' \/ CancelComing(r)'
    BY <1>moved, <2>1, <2>2
  <2>6. ASSUME NEW r PROVE CancelComing(r) => CancelComing(r)'
    <3>1. \A v \in Workers : CancelOf(r, {worker[v].job}) => worker'[v] = worker[v]
      BY <2>1, <2>3 DEF CancelOf
    <3> QED
      BY <2>1, <2>5, <3>1, CancelsKept
  <2> QED
    BY <2>1, <2>4, <2>5, <2>6, QuietCancels
<1>11. ASSUME NEW w \in Workers, WorkerCrash(w)
       PROVE  SInv'
  <2>1. workerCrashes' # 0
    BY <1>11, <1>t DEF WorkerCrash
  <2> QED
    BY <2>1 DEF SInv
<1>12. CASE UNCHANGED vars
  <2>1. UNCHANGED <<stage, entries, runs, jobs, worker, lost, workerCrashes>>
    BY <1>12 DEF vars
  <2>2. \A r : CancelComing(r) => CancelComing(r)'
    BY <2>1 DEF CancelComing
  <2> QED
    BY <1>current, <1>on, <2>1, <2>2, QuietCancels
<1>13. CASE Next
  BY <1>13, <1>1, <1>2, <1>3, <1>4, <1>5, <1>6, <1>7, <1>8, <1>9, <1>10, <1>11
     DEF Next, Move, PickAny, Handle, Fault
<1> QED
  BY <1>12, <1>13

\* A delayed job that waits for a stage entry that is over is about to be cancelled,
\* unless it was queued late or its cancellation was lost: while no handler has
\* written its run's rows, the leave trigger finds them.
THEOREM StaleJobsAreCancelled == Spec => []StaleJobIsBeingCancelled
<1>1. Init => KInv
  BY DEF Init, KInv, KeysOwnedOnce, OneJobPerKey, Owns, RunJobsIn
<1>2. Init => SInv
  BY DEF Init, SInv, RunJobsIn, Due, Waiting, Arming, ArmsRun
<1>3. SInv => StaleJobIsBeingCancelled
  <2> SUFFICES ASSUME SInv, workerCrashes = 0, NEW j \in RunJobsIn(jobs), CancelComing(j.run)
               PROVE  CancelOf(j.run, InFlight \union lost)
    BY DEF SInv, StaleJobIsBeingCancelled
  <2> QED
    BY DEF CancelComing, CancelOf, InFlight
<1> QED
  BY <1>1, <1>2, <1>3, InitIInv, StepIInv, StepKInv, InitDInv, StepDInv, StepSInv, PTL DEF Spec

-----------------------------------------------------------------------------
(* The promise: DelayedRuns *)

\* The entry that a request is about has happened, and if the pub has entered
\* no other stage since, it is in the automation's stage or in none.
FitsEntry(j) ==
    /\ j.entry \in 1..entries[j.pub]
    /\ j.entry = entries[j.pub] => stage[j.pub] \in {StageOf[j.automation], NoStage}

Executes(w) == At(w, "RunDelayedAutomation", "execute")

\* Requests are about entries, and whoever executes a run has begun it.
EInv ==
    /\ \A j \in InFlight : IsSchedule(j) => FitsEntry(j)
    /\ \A w \in Workers : Executes(w) => executions[worker[w].job.run] > 0

\* What a step does to a pub: nothing, or it leaves its stage, or it enters one.
PubGoesOn(p) ==
    \/ entries'[p] = entries[p] /\ stage'[p] \in {stage[p], NoStage}
    \/ entries'[p] = entries[p] + 1

LEMMA FitsStill ==
    ASSUME IInv, IInv', NEW j \in Job, IsSchedule(j), FitsEntry(j), PubGoesOn(j.pub)
    PROVE  FitsEntry(j)'
<1>1. j.entry \in Nat /\ j.pub \in Pubs
  BY ScheduleJobTyped
<1>2. entries[j.pub] \in Nat /\ entries'[j.pub] \in Nat
  BY <1>1 DEF IInv, TypeOK
<1> QED
  BY <1>1, <1>2 DEF FitsEntry, PubGoesOn

\* A step after which requests are about what they were about, or about an entry
\* that happens with it.
LEMMA RequestsFit ==
    ASSUME IInv, IInv', EInv,
           \A p \in Pubs : PubGoesOn(p),
           \A j \in InFlight' : IsSchedule(j) => j \in InFlight \/ FitsEntry(j)',
           \A r \in RunIds : executions[r] <= executions'[r],
           \A w \in Workers : Executes(w)' =>
              \/ executions'[worker'[w].job.run] > 0
              \/ Executes(w) /\ worker'[w].job = worker[w].job
    PROVE  EInv'
<1>1. InFlight \subseteq Job
  BY DEF InFlight, IInv, TypeOK, Busy
<1>2. ASSUME NEW j \in InFlight', IsSchedule(j) PROVE FitsEntry(j)'
  <2>1. CASE j \in InFlight
    <3>1. j \in Job /\ FitsEntry(j)
      BY <1>1, <1>2, <2>1 DEF EInv
    <3> QED
      BY <1>2, <3>1, FitsStill, ScheduleJobTyped
  <2> QED
    BY <1>2, <2>1
<1>3. ASSUME NEW w \in Workers, Executes(w)' PROVE executions'[worker'[w].job.run] > 0
  <2>1. CASE Executes(w) /\ worker'[w].job = worker[w].job
    <3>1. worker[w].job.run \in RunIds
      BY <2>1, HandlerKnows DEF Executes, At
    <3> QED
      BY <2>1, <3>1 DEF EInv, IInv, TypeOK
  <2> QED
    BY <1>3, <2>1
<1> QED
  BY <1>2, <1>3 DEF EInv

\* A step that changes neither pubs nor what is begun, and queues nothing.
LEMMA QuietRequests ==
    ASSUME IInv, IInv', EInv, UNCHANGED <<stage, entries, executions>>,
           InFlight' \subseteq InFlight \union {j \in Job : ~IsSchedule(j)},
           \A w \in Workers : Executes(w)' => Executes(w) /\ worker'[w].job = worker[w].job
    PROVE  EInv'
<1>1. \A p \in Pubs : PubGoesOn(p)
  BY DEF PubGoesOn
<1>2. \A r \in RunIds : executions[r] <= executions'[r]
  BY DEF IInv, TypeOK
<1> QED
  BY <1>1, <1>2, RequestsFit

\* Each worker goes on with its job, or is through with it.
SameJobs ==
    \A w \in Workers :
        worker'[w] # Idle => worker[w] # Idle /\ worker'[w].job = worker[w].job

LEMMA InFlightStays ==
    ASSUME SameJobs, NEW N, jobs' \subseteq jobs \union N
    PROVE  InFlight' \subseteq InFlight \union N
  BY DEF SameJobs, InFlight

LEMMA MoveFits ==
    ASSUME IInv, IInv', NEW p \in Pubs, NEW s \in Stages, MoveTo(p, s)
    PROVE  /\ \A q \in Pubs : PubGoesOn(q)
           /\ \E N : /\ jobs' \subseteq jobs \union N
                     /\ \A j \in N : IsSchedule(j) => FitsEntry(j)'
<1>1. /\ entries \in [Pubs -> Nat] /\ entries' = [entries EXCEPT ![p] = entries[p] + 1]
      /\ stage \in [Pubs -> Stages \union {NoStage}] /\ stage' = [stage EXCEPT ![p] = s]
  BY DEF IInv, TypeOK, MoveTo
<1>2. /\ entries'[p] = entries[p] + 1 /\ stage'[p] = s /\ entries[p] \in Nat
      /\ \A q \in Pubs : q # p => entries'[q] = entries[q] /\ stage'[q] = stage[q]
  BY <1>1
<1>3. \A q \in Pubs : PubGoesOn(q)
  BY <1>2 DEF PubGoesOn
<1> DEFINE N == CancelJobs(p, stage[p], entries[p]) \union ScheduleJobs(p, s, entries[p] + 1)
<1>4. jobs' \subseteq jobs \union N
  BY DEF MoveTo
<1>5. ASSUME NEW j \in N, IsSchedule(j) PROVE FitsEntry(j)'
  <2>1. j \in ScheduleJobs(p, s, entries[p] + 1)
    BY <1>5 DEF CancelJobs, IsSchedule
  <2>2. j.pub = p /\ j.entry = entries[p] + 1 /\ StageOf[j.automation] = s
    BY <2>1 DEF ScheduleJobs
  <2> QED
    BY <1>2, <2>2 DEF FitsEntry
<1> HIDE DEF N
<1> QED
  BY <1>3, <1>4, <1>5

LEMMA StepEInv == IInv /\ IInv' /\ EInv /\ [Next]_vars => EInv'
<1> SUFFICES ASSUME IInv, IInv', EInv, [Next]_vars PROVE EInv'
  OBVIOUS
<1>t. /\ worker \in [Workers -> Busy \union {Idle}] /\ jobs \subseteq Job
      /\ entries \in [Pubs -> Nat] /\ executions \in [RunIds -> Nat]
      /\ stage \in [Pubs -> Stages \union {NoStage}]
  BY DEF IInv, TypeOK
<1>still. stage' = stage /\ entries' = entries => \A p \in Pubs : PubGoesOn(p)
  BY DEF PubGoesOn
<1>unbegun. executions' = executions => \A r \in RunIds : executions[r] <= executions'[r]
  BY <1>t
<1>on. worker' = worker =>
          SameJobs /\ \A w \in Workers :
                         Executes(w)' => Executes(w) /\ worker'[w].job = worker[w].job
  BY DEF SameJobs, Executes, At
<1>quiet. ASSUME SameJobs, jobs' \subseteq jobs \union {j \in Job : ~IsSchedule(j)},
                 UNCHANGED <<stage, entries, executions>>,
                 \A w \in Workers : worker'[w] # Idle /\ worker'[w].pc = "execute"
                     => worker[w].pc = "execute"
          PROVE  EInv'
  <2>1. InFlight' \subseteq InFlight \union {j \in Job : ~IsSchedule(j)}
    BY <1>quiet, InFlightStays
  <2>2. \A w \in Workers : Executes(w)' => Executes(w) /\ worker'[w].job = worker[w].job
    BY <1>quiet DEF SameJobs, Executes, At
  <2> QED
    BY <1>quiet, <2>1, <2>2, QuietRequests
<1>moved. ASSUME NEW p \in Pubs, NEW s \in Stages, MoveTo(p, s), executions' = executions,
                 SameJobs, \A w \in Workers :
                     Executes(w)' => Executes(w) /\ worker'[w].job = worker[w].job
          PROVE  EInv'
  <2>1. \A q \in Pubs : PubGoesOn(q)
    BY <1>moved, MoveFits
  <2>2. PICK N : /\ jobs' \subseteq jobs \union N
                 /\ \A j \in N : IsSchedule(j) => FitsEntry(j)'
    BY <1>moved, MoveFits
  <2>3. InFlight' \subseteq InFlight \union N
    BY <1>moved, <2>2, InFlightStays
  <2>4. \A j \in InFlight' : IsSchedule(j) => j \in InFlight \/ FitsEntry(j)'
    BY <2>2, <2>3
  <2> QED
    BY <1>moved, <1>unbegun, <2>1, <2>4, RequestsFit
<1>1. ASSUME NEW p \in Pubs, NEW s \in Stages, MovePub(p, s)
      PROVE  EInv'
  BY <1>1, <1>on, <1>moved DEF MovePub
<1>2. ASSUME NEW p \in Pubs, RemoveFromStage(p)
      PROVE  EInv'
  <2>1. \A q \in Pubs : PubGoesOn(q)
    BY <1>2, <1>t DEF RemoveFromStage, PubGoesOn
  <2>2. SameJobs /\ UNCHANGED <<worker, executions>>
        /\ jobs' \subseteq jobs \union CancelJobs(p, stage[p], entries[p])
    BY <1>2, <1>on DEF RemoveFromStage
  <2>3. \A j \in CancelJobs(p, stage[p], entries[p]) : ~IsSchedule(j)
    BY DEF CancelJobs, IsSchedule
  <2>4. \A j \in InFlight' : IsSchedule(j) => j \in InFlight
    BY <2>2, <2>3, InFlightStays
  <2> QED
    BY <1>on, <1>unbegun, <2>1, <2>2, <2>4, RequestsFit
<1>3. ASSUME NEW w \in Workers, NEW j \in jobs, Pick(w, j)
      PROVE  EInv'
  <2>1. /\ worker'[w].job = j /\ worker'[w].pc = "start" /\ jobs' \subseteq jobs
        /\ \A v \in Workers : v # w => worker'[v] = worker[v]
        /\ UNCHANGED <<stage, entries, executions>>
    BY <1>3, <1>t DEF Pick
  <2>2. InFlight' \subseteq InFlight
    BY <2>1 DEF InFlight
  <2>3. \A v \in Workers : Executes(v)' => Executes(v) /\ worker'[v].job = worker[v].job
    BY <2>1 DEF Executes, At
  <2> QED
    BY <2>1, <2>2, <2>3, QuietRequests
<1>4. ASSUME NEW w \in Workers,
             \/ ScheduleRefused(w) \/ RunNotMet(w) \/ RunCheckError(w) \/ RunFinish(w)
             \/ CoreFault(w)
      PROVE  EInv'
  <2>1. /\ worker' = [worker EXCEPT ![w] = Idle] /\ jobs' = jobs
        /\ UNCHANGED <<stage, entries, executions>>
    BY <1>4 DEF ScheduleRefused, RunNotMet, RunCheckError, RunFinish, CoreFault, Done
  <2> QED
    BY <2>1, <1>t, <1>quiet DEF SameJobs
<1>5. ASSUME NEW w \in Workers, NEW o,
             ScheduleCheck(w) \/ ScheduleInsert(w) \/ RunCheck(w) \/ RunAction(w, o)
      PROVE  EInv'
  <2>1. /\ jobs' = jobs /\ UNCHANGED <<stage, entries, executions>>
        /\ worker[w] # Idle /\ worker[w] \in Busy
    BY <1>5, <1>t DEF ScheduleCheck, ScheduleInsert, RunCheck, RunAction, At
  <2>2. /\ worker'[w].job = worker[w].job
        /\ worker'[w].pc = "execute" => worker[w].pc = "execute"
        /\ \A v \in Workers : v # w => worker'[v] = worker[v]
    <3>1. CASE ScheduleCheck(w) \/ RunCheck(w)
      <4>1. PICK pc \in {"insert", "mark"} : worker' = [worker EXCEPT ![w].pc = pc]
        BY <3>1 DEF ScheduleCheck, RunCheck, Goto
      <4> QED
        BY <4>1, <2>1, <1>t DEF Busy
    <3>2. CASE ScheduleInsert(w)
      BY <3>2, <2>1, <1>t DEF ScheduleInsert, Busy
    <3>3. CASE RunAction(w, o)
      BY <3>3, <2>1, <1>t DEF RunAction, Result, Busy
    <3> QED
      BY <1>5, <3>1, <3>2, <3>3
  <2> QED
    BY <2>1, <2>2, <1>quiet DEF SameJobs
<1>6. ASSUME NEW w \in Workers, ScheduleArm(w) \/ CancelScheduled(w)
      PROVE  EInv'
  <2>1. PICK key : worker' = [Unkeyed(worker, key) EXCEPT ![w] = Idle]
    BY <1>6 DEF ScheduleArm, CancelScheduled
  <2>2. \A v \in Workers : GoesOn(v)
    BY <2>1, UnkeyedGoOn DEF IInv
  <2>3. /\ SameJobs
        /\ \A v \in Workers : worker'[v] # Idle /\ worker'[v].pc = "execute"
               => worker[v].pc = "execute"
    <3>1. SameJobs
      BY <2>2 DEF SameJobs, GoesOn
    <3>2. \A v \in Workers : worker'[v] # Idle => worker'[v].pc = worker[v].pc
      BY <2>1, <1>t DEF Unkeyed, Busy
    <3> QED
      BY <3>1, <3>2
  <2>4. jobs' \subseteq jobs \union {j \in Job : ~IsSchedule(j)}
    <3>1. jobs' \subseteq Job
      BY DEF IInv, TypeOK
    <3>2. \A j \in jobs' : j \in jobs \/ ~IsSchedule(j)
      <4>1. CASE ScheduleArm(w)
        BY <4>1 DEF ScheduleArm, WithoutKey, IsSchedule
      <4>2. CASE CancelScheduled(w)
        BY <4>2 DEF CancelScheduled, WithoutKey
      <4> QED
        BY <1>6, <4>1, <4>2
    <3> QED
      BY <3>1, <3>2
  <2> QED
    BY <1>6, <2>3, <2>4, <1>quiet DEF ScheduleArm, CancelScheduled
<1>7. ASSUME NEW w \in Workers, RunMark(w)
      PROVE  EInv'
  <2>1. worker[w] # Idle /\ worker[w].job.type = "RunDelayedAutomation"
    BY <1>7 DEF RunMark, At
  <2>2. worker[w] \in Busy /\ worker[w].job.run \in RunIds
    BY <2>1, HandlerKnows
  <2>3. /\ worker' = [worker EXCEPT ![w].pc = "execute"]
        /\ executions' = [executions EXCEPT ![worker[w].job.run] = @ + 1]
        /\ UNCHANGED <<stage, entries, jobs>>
    BY <1>7 DEF RunMark, Goto
  <2>4. /\ worker'[w].job = worker[w].job
        /\ \A v \in Workers : v # w => worker'[v] = worker[v]
    BY <2>2, <2>3, <1>t DEF Busy
  <2>5. executions'[worker[w].job.run] > 0
        /\ \A r \in RunIds : executions[r] <= executions'[r]
    BY <2>2, <2>3, <1>t
  <2>6. InFlight' \subseteq InFlight
    BY <2>1, <2>3, <2>4, InFlightStays DEF SameJobs
  <2>7. \A v \in Workers : Executes(v)' =>
           \/ executions'[worker'[v].job.run] > 0
           \/ Executes(v) /\ worker'[v].job = worker[v].job
    BY <2>4, <2>5 DEF Executes, At
  <2> QED
    BY <2>3, <2>5, <2>6, <2>7, <1>still, RequestsFit
<1>8. ASSUME NEW w \in Workers, NEW s \in Stages, RunMove(w, s)
      PROVE  EInv'
  <2>1. worker[w] # Idle /\ worker[w].job.type = "RunDelayedAutomation"
        /\ worker[w].pc = "execute"
    BY <1>8 DEF RunMove, At
  <2>2. worker[w].job.pub \in Pubs /\ worker[w] \in Busy
    BY <2>1, HandlerKnows
  <2>3. /\ worker'[w].job = worker[w].job
        /\ \A v \in Workers : v # w => worker'[v] = worker[v]
    BY <1>8, <2>2, <1>t DEF RunMove, Result, Busy
  <2>4. SameJobs /\ \A v \in Workers :
           Executes(v)' => Executes(v) /\ worker'[v].job = worker[v].job
    BY <2>1, <2>3 DEF SameJobs, Executes, At
  <2> QED
    BY <1>8, <2>2, <2>4, <1>moved DEF RunMove
<1>9. ASSUME NEW w \in Workers, WorkerCrash(w)
      PROVE  EInv'
  <2>1. /\ worker[w] # Idle /\ worker[w] \in Busy
        /\ worker' = [worker EXCEPT ![w].delivered = FALSE]
        /\ jobs' \subseteq jobs \union {worker[w].job}
        /\ UNCHANGED <<stage, entries, executions>>
    BY <1>9, <1>t DEF WorkerCrash
  <2>2. /\ worker'[w].job = worker[w].job /\ worker'[w].pc = worker[w].pc
        /\ \A v \in Workers : v # w => worker'[v] = worker[v]
    BY <2>1, <1>t DEF Busy
  <2>3. InFlight' \subseteq InFlight
    BY <2>1, <2>2 DEF InFlight
  <2>4. \A v \in Workers : Executes(v)' => Executes(v) /\ worker'[v].job = worker[v].job
    BY <2>1, <2>2 DEF Executes, At
  <2> QED
    BY <2>1, <2>3, <2>4, QuietRequests
<1>10. CASE UNCHANGED vars
  BY <1>10, <1>on, <1>quiet DEF vars
<1>11. CASE Next
  BY <1>11, <1>1, <1>2, <1>3, <1>4, <1>5, <1>6, <1>7, <1>8, <1>9
     DEF Next, Move, PickAny, Handle, Fault
<1> QED
  BY <1>10, <1>11

LEMMA InitEInv == Init => EInv
  BY DEF Init, EInv, InFlight, Executes, At

\* What a write of action runs changes for those who see only the runs.
LEMMA WriteSeen ==
    ASSUME IInv, NEW r \in RunIds, NEW rows \in Seq(Status), runs[r] # NoRun,
           WriteRows(r, rows)
    PROVE  /\ r \in DOMAIN SeenRuns
           /\ SeenRuns[r].status = runs[r].status
           /\ SeenRuns[r].automation = runs[r].automation
           /\ SeenRuns' = [SeenRuns EXCEPT ![r].status = Aggregate(rows)]
           /\ announced' = IF Aggregate(rows) \in Outcome /\ Aggregate(rows) # runs[r].status
                           THEN [announced EXCEPT ![r] = Append(@, Aggregate(rows))]
                           ELSE announced
<1> DEFINE new == Aggregate(rows)
           D == {q \in RunIds : runs[q] # NoRun}
<1>1. StatusAfter(runs[r], rows) = new
  BY DEF StatusAfter, IInv, StatusIsAggregate
<1>2. runs' = [runs EXCEPT ![r].rows = rows, ![r].status = new]
  BY <1>1 DEF WriteRows
<1>3. runs \in [RunIds -> Run \union {NoRun}] /\ runs[r] \in Run
  BY DEF IInv, TypeOK
<1> HIDE DEF new
<1>4. /\ runs'[r].automation = runs[r].automation /\ runs'[r].pub = runs[r].pub
      /\ runs'[r].entry = runs[r].entry /\ runs'[r].status = new
      /\ \A q \in RunIds : q # r => runs'[q] = runs[q]
  BY <1>2, <1>3 DEF Run
<1>5. D = {q \in RunIds : runs'[q] # NoRun}
  <2>1. runs'[r] # NoRun
    BY WriteRowsCorrect DEF Kept
  <2> QED
    BY <1>4, <2>1
<1>6. DOMAIN SeenRuns = D /\ \A q \in D : SeenRuns[q] = Seen(q)
  BY DEF SeenRuns
<1>7. SeenRuns' = [q \in D |-> Seen(q)']
  BY <1>5 DEF SeenRuns
<1>8. \A q \in D : q # r => Seen(q)' = Seen(q)
  BY <1>4 DEF Seen
<1>9. Seen(r)' = [Seen(r) EXCEPT !.status = new]
  BY <1>4 DEF Seen
<1>10. r \in D
  OBVIOUS
<1> HIDE DEF D
<1>11. SeenRuns' = [SeenRuns EXCEPT ![r].status = new]
  BY <1>6, <1>7, <1>8, <1>9, <1>10 DEF SeenRuns
<1>12. announced' = IF new \in Outcome /\ new # runs[r].status
                    THEN [announced EXCEPT ![r] = Append(@, new)] ELSE announced
  BY <1>1 DEF WriteRows, new
<1> QED
  BY <1>6, <1>10, <1>11, <1>12 DEF new, Seen

\* Whoever handles the job of a run has a delivery left for its outcome and, before
\* it begins, for the beginning.
LEMMA DeliveryLeft ==
    ASSUME IInv, DInv, NEW w \in Workers, worker[w] # Idle,
           worker[w].job.type = "RunDelayedAutomation", NEW r \in RunIds, r = worker[w].job.run
    PROVE  /\ Len(announced[r]) <= workerCrashes
           /\ worker[w].pc # "execute" => executions[r] <= workerCrashes
<1>1. ExecutionsAllowed(r) /\ AnnouncementsAllowed(r)
  BY DEF DInv
<1>2. /\ IsFiniteSet(Handling(r)) /\ IsFiniteSet(Unstarted(r))
      /\ Cardinality(Handling(r)) \in Nat /\ Cardinality(Unstarted(r)) \in Nat
      /\ executions[r] \in Nat /\ Len(announced[r]) \in Nat /\ workerCrashes \in Nat
  BY Counts DEF IInv
<1>3. ToCome(r) \in Nat
  BY DEF ToCome, Unit
<1>4. Allowed(r) \in Nat /\ Allowed(r) <= 1 + workerCrashes
  <2>1. Stored(r) \in {0, 1}
    BY DEF Stored, Unit
  <2> QED
    BY <1>2, <2>1 DEF Allowed
<1>5. w \in Handling(r)
  BY DEF Handling
<1>6. 1 <= Cardinality(Handling(r))
  BY <1>2, <1>5, FS_EmptySet
<1>7. Len(announced[r]) <= workerCrashes
  BY <1>1, <1>2, <1>3, <1>4, <1>6, SMTT(60) DEF AnnouncementsAllowed
<1>8. ASSUME worker[w].pc # "execute" PROVE executions[r] <= workerCrashes
  <2>1. w \in Unstarted(r)
    BY <1>5, <1>8 DEF Unstarted
  <2>2. 1 <= Cardinality(Unstarted(r))
    BY <1>2, <2>1, FS_EmptySet
  <2> QED
    BY <1>1, <1>2, <1>3, <1>4, <2>2, SMTT(60) DEF ExecutionsAllowed
<1> QED
  BY <1>7, <1>8

\* The end of a handler ends the run, or leaves it with the outcome it has.
LEMMA WriteEnds ==
    ASSUME IInv, DInv, NEW w \in Workers, worker[w] # Idle,
           worker[w].job.type = "RunDelayedAutomation",
           NEW rows \in Seq(Status), WriteRows(worker[w].job.run, rows),
           NEW o \in Outcome, Aggregate(rows) = o,
           executions[worker[w].job.run] = 0 =>
               o = "failure" /\ worker[w].job.automation \in ChecksOnExecution,
           UNCHANGED <<stage, entries, executions, workerCrashes>>
    PROVE  [Promise!Next]_Promise!all
<1> DEFINE r == worker[w].job.run
<1>1. /\ r \in RunIds /\ runs[r] # NoRun
      /\ runs[r].automation = worker[w].job.automation
  BY HandlerKnows DEF IInv, WorkersSound, Sound, Known
<1>2. WriteRows(r, rows)
  OBVIOUS
<1>3. Len(announced[r]) <= workerCrashes
  BY <1>1, DeliveryLeft
<1>4. executions[r] = 0 => o = "failure" /\ runs[r].automation \in ChecksOnExecution
  BY <1>1
<1> HIDE DEF r
<1>5. /\ r \in DOMAIN SeenRuns
      /\ SeenRuns[r].status = runs[r].status
      /\ SeenRuns[r].automation = runs[r].automation
      /\ SeenRuns' = [SeenRuns EXCEPT ![r].status = o]
      /\ announced' = IF o # runs[r].status THEN [announced EXCEPT ![r] = Append(@, o)]
                      ELSE announced
  BY <1>1, <1>2, WriteSeen
<1>6. CASE o = runs[r].status
  <2>1. announced' = announced
    BY <1>5, <1>6
  <2>2. SeenRuns' = SeenRuns
    <3>1. SeenRuns[r] = Seen(r)
      BY <1>5 DEF SeenRuns
    <3>2. [Seen(r) EXCEPT !.status = o] = Seen(r)
      BY <1>6 DEF Seen
    <3>3. [SeenRuns EXCEPT ![r].status = o] = [SeenRuns EXCEPT ![r] = Seen(r)]
      BY <1>5, <3>1, <3>2
    <3> QED
      BY <1>5, <3>1, <3>3 DEF SeenRuns
  <2> QED
    BY <2>1, <2>2 DEF Promise!all
<1>7. CASE o # runs[r].status
  <2>1. Promise!End(r, o)
    BY <1>3, <1>4, <1>5, <1>7 DEF Promise!End, Promise!Delivered
  <2> QED
    BY <1>1, <2>1 DEF Promise!Next, Outcome
<1> QED
  BY <1>6, <1>7

LEMMA MarkBegins ==
    ASSUME IInv, DInv, NEW w \in Workers, RunMark(w)
    PROVE  Promise!Next
<1> DEFINE r == worker[w].job.run
           rows == AllRows(worker[w].job.automation, "scheduled")
<1>1. /\ worker[w] # Idle /\ worker[w].job.type = "RunDelayedAutomation"
      /\ worker[w].pc # "execute"
  BY DEF RunMark, At
<1>2. r \in RunIds /\ runs[r] # NoRun /\ worker[w].job.automation \in Automations
  BY <1>1, HandlerKnows
<1>3. Len(announced[r]) <= workerCrashes /\ executions[r] <= workerCrashes
  BY <1>1, <1>2, DeliveryLeft
<1>4. rows \in Seq(Status) /\ Aggregate(rows) = "scheduled"
  BY <1>2, AllRowsType, AllScheduled DEF Status
<1>5. /\ WriteRows(r, rows) /\ executions' = [executions EXCEPT ![r] = @ + 1]
      /\ UNCHANGED <<stage, entries, workerCrashes>>
  BY DEF RunMark
<1> HIDE DEF r, rows
<1>6. /\ r \in DOMAIN SeenRuns
      /\ SeenRuns' = [SeenRuns EXCEPT ![r].status = "scheduled"]
      /\ announced' = announced
  BY <1>2, <1>4, <1>5, WriteSeen DEF Outcome
<1>7. Promise!Begin(r)
  BY <1>3, <1>5, <1>6 DEF Promise!Begin, Promise!Delivered
<1> QED
  BY <1>2, <1>7 DEF Promise!Next

LEMMA InsertSchedules ==
    ASSUME IInv, EInv, workerCrashes = 0 => Once, NEW w \in Workers, ScheduleInsert(w)
    PROVE  Promise!Next
<1>1. /\ worker[w] # Idle /\ worker[w].pc = "insert"
      /\ worker[w].job.type = "ScheduleDelayedAutomation"
      /\ UNCHANGED <<stage, entries, announced, executions, workerCrashes>>
  BY DEF ScheduleInsert, At
<1>2. PICK r \in RunIds : r = FreshRun /\ runs[r] = NoRun
  BY DEF ScheduleInsert, FreshRun
<1>3. PICK j \in Job : j = worker[w].job /\ j \in InFlight /\ IsSchedule(j)
  BY <1>1 DEF IInv, TypeOK, Busy, InFlight, IsSchedule
<1> DEFINE new == InitRun(j.automation, j.pub, j.entry)
           D == {q \in RunIds : runs[q] # NoRun}
<1>runs. runs' = [runs EXCEPT ![r] = new]
  BY <1>2, <1>3 DEF ScheduleInsert
<1>4. /\ j.automation \in Automations /\ j.pub \in Pubs /\ j.entry \in Nat
      /\ FitsEntry(j)
  BY <1>3, ScheduleJobTyped DEF ScheduleJob, EInv
<1>5. workerCrashes = 0 => \A q \in RunIds : ~Made(q, j)
  BY <1>1, <1>3 DEF Once, TakenNotMade, Scheduling
<1>6. /\ new \in Run /\ new.automation = j.automation /\ new.pub = j.pub
      /\ new.entry = j.entry /\ new.status = "scheduled"
  <2>1. new.status = Aggregate(AllRows(j.automation, "scheduled")) /\ new.entry = j.entry
    BY DEF InitRun
  <2> QED
    BY <1>4, <2>1, InitRunType, AllScheduled
<1> HIDE DEF new
<1>7. /\ runs'[r] = new /\ new # NoRun
      /\ \A q \in RunIds : q # r => runs'[q] = runs[q]
  BY <1>2, <1>6, <1>runs, SentinelAssumption DEF IInv, TypeOK
<1>8. DOMAIN SeenRuns = D /\ r \notin D /\ \A q \in D : SeenRuns[q] = Seen(q)
  BY <1>2 DEF SeenRuns
<1>9. {q \in RunIds : runs'[q] # NoRun} = D \union {r}
  BY <1>2, <1>7
<1>10. SeenRuns' = [q \in D \union {r} |-> Seen(q)']
  BY <1>9 DEF SeenRuns
<1>11. \A q \in D : Seen(q)' = SeenRuns[q]
  <2>1. \A q \in D : runs'[q] = runs[q]
    BY <1>2, <1>7
  <2> QED
    BY <1>8, <2>1 DEF Seen
<1>12. Seen(r)' = [automation |-> j.automation, pub |-> j.pub, entry |-> j.entry,
                   status |-> "scheduled"]
  BY <1>6, <1>7 DEF Seen
<1>13. workerCrashes = 0 => \A q \in DOMAIN SeenRuns :
           <<j.automation, j.pub, j.entry>>
               # <<SeenRuns[q].automation, SeenRuns[q].pub, SeenRuns[q].entry>>
  <2>1. SUFFICES ASSUME workerCrashes = 0, NEW q \in DOMAIN SeenRuns
                 PROVE  ~(/\ SeenRuns[q].automation = j.automation
                          /\ SeenRuns[q].pub = j.pub /\ SeenRuns[q].entry = j.entry)
    OBVIOUS
  <2>2. q \in RunIds /\ runs[q] # NoRun /\ SeenRuns[q] = Seen(q)
    BY <1>8
  <2>3. ~Made(q, j)
    BY <1>5, <2>1, <2>2
  <2> QED
    BY <2>2, <2>3 DEF Made, Seen
<1> HIDE DEF D
<1>14. SeenRuns' = [q \in D \union {r} |->
                       IF q = r THEN [automation |-> j.automation, pub |-> j.pub,
                                      entry |-> j.entry, status |-> "scheduled"]
                                ELSE SeenRuns[q]]
  BY <1>8, <1>10, <1>11, <1>12
<1>15. Promise!Schedule(r, j.automation, j.pub, j.entry)
  BY <1>1, <1>4, <1>8, <1>13, <1>14 DEF Promise!Schedule, FitsEntry
<1> QED
  BY <1>2, <1>4, <1>15 DEF Promise!Next, FitsEntry

\* With all the results there are, the outcome is success or failure.
LEMMA ResultsDecide ==
    ASSUME NEW results \in Seq(Outcome), NEW n \in Nat \ {0}, ~(Len(results) < n)
    PROVE  Aggregate(results) \in Outcome
<1>1. /\ Len(results) \in Nat /\ Len(results) >= 1 /\ DOMAIN results = 1..Len(results)
      /\ \A i \in DOMAIN results : results[i] \in Outcome
  OBVIOUS
<1> QED
  BY <1>1 DEF Aggregate, Outcome

LEMMA StepKeepsPromise ==
    ASSUME IInv, DInv, EInv, workerCrashes = 0 => Once, [Next]_vars
    PROVE  [Promise!Next]_Promise!all
<1>seen. runs' = runs => SeenRuns' = SeenRuns
  BY DEF SeenRuns, Seen
<1>quiet. UNCHANGED <<stage, entries, runs, announced, executions, workerCrashes>>
              => UNCHANGED Promise!all
  BY <1>seen DEF Promise!all
<1>1. ASSUME NEW p \in Pubs, NEW s \in Stages, stage[p] # s, MoveTo(p, s),
             UNCHANGED <<runs, announced, executions, workerCrashes>>
      PROVE  Promise!Next
  <2>1. Promise!Enter(p, s)
    BY <1>1, <1>seen DEF MoveTo, Promise!Enter
  <2> QED
    BY <2>1 DEF Promise!Next
<1>2. ASSUME NEW p \in Pubs, RemoveFromStage(p) PROVE Promise!Next
  <2>1. Promise!Leave(p)
    BY <1>2, <1>seen DEF RemoveFromStage, Promise!Leave
  <2> QED
    BY <2>1 DEF Promise!Next
<1>3. ASSUME NEW w \in Workers, NEW j, NEW o,
             \/ Pick(w, j) \/ ScheduleCheck(w) \/ ScheduleRefused(w) \/ ScheduleArm(w)
             \/ CancelScheduled(w) \/ RunCheck(w) \/ RunNotMet(w) \/ RunAction(w, o)
             \/ CoreFault(w)
      PROVE  UNCHANGED Promise!all
  BY <1>3, <1>quiet DEF Pick, ScheduleCheck, ScheduleRefused, ScheduleArm, CancelScheduled,
         RunCheck, RunNotMet, RunAction, CoreFault
<1>4. ASSUME NEW w \in Workers, RunCheckError(w) PROVE [Promise!Next]_Promise!all
  <2> DEFINE rows == AllRows(worker[w].job.automation, "failure")
  <2>1. worker[w] # Idle /\ worker[w].job.type = "RunDelayedAutomation"
    BY <1>4 DEF RunCheckError, At
  <2>2. worker[w].job.automation \in Automations
    BY <2>1, HandlerKnows
  <2>3. rows \in Seq(Status)
    BY <2>2, AllRowsType DEF Status, Outcome
  <2>4. Aggregate(rows) = "failure"
    <3>1. 1 \in 1..NActions[worker[w].job.automation]
      BY <2>2, ConstantsAssumption
    <3>2. 1 \in DOMAIN rows /\ rows[1] = "failure"
      BY <3>1 DEF AllRows
    <3> QED
      BY <3>2 DEF Aggregate
  <2>5. /\ WriteRows(worker[w].job.run, rows)
        /\ worker[w].job.automation \in ChecksOnExecution
        /\ UNCHANGED <<stage, entries, executions, workerCrashes>>
    BY <1>4 DEF RunCheckError
  <2> HIDE DEF rows
  <2> QED
    BY <2>1, <2>3, <2>4, <2>5, WriteEnds DEF Outcome
<1>5. ASSUME NEW w \in Workers, RunFinish(w) PROVE [Promise!Next]_Promise!all
  <2> DEFINE rows == worker[w].results
  <2>1. worker[w] # Idle /\ worker[w].job.type = "RunDelayedAutomation" /\ Executes(w)
    BY <1>5 DEF RunFinish, At, Executes
  <2>2. worker[w] \in Busy /\ worker[w].job.automation \in Automations /\ rows \in Seq(Status)
    BY <2>1, HandlerKnows
  <2>3. Aggregate(rows) \in Outcome
    BY <1>5, <2>2, ResultsDecide, ConstantsAssumption DEF RunFinish, MoreActions, Busy
  <2>4. executions[worker[w].job.run] # 0
    BY <2>1 DEF EInv
  <2>5. /\ WriteRows(worker[w].job.run, rows)
        /\ UNCHANGED <<stage, entries, executions, workerCrashes>>
    BY <1>5 DEF RunFinish
  <2> HIDE DEF rows
  <2> QED
    BY <2>1, <2>2, <2>3, <2>4, <2>5, WriteEnds
<1>6. ASSUME NEW w \in Workers, NEW s \in Stages, RunMove(w, s) PROVE Promise!Next
  <2>1. worker[w].job.pub \in Pubs
    BY <1>6, HandlerKnows DEF RunMove, At
  <2> QED
    BY <1>1, <1>6, <2>1 DEF RunMove
<1>7. ASSUME NEW w \in Workers, WorkerCrash(w) PROVE Promise!Next
  <2>1. Promise!Crash
    BY <1>7, <1>seen DEF WorkerCrash, Promise!Crash
  <2> QED
    BY <2>1 DEF Promise!Next
<1>8. CASE UNCHANGED vars
  BY <1>8, <1>quiet DEF vars
<1>9. CASE Move
  <2>1. ASSUME NEW p \in Pubs, NEW s \in Stages, MovePub(p, s) PROVE Promise!Next
    BY <1>1, <2>1 DEF MovePub
  <2> QED
    BY <1>2, <1>9, <2>1 DEF Move
<1>10. ASSUME NEW w \in Workers, Handle(w) PROVE [Promise!Next]_Promise!all
  BY <1>3, <1>4, <1>5, <1>6, <1>10, InsertSchedules, MarkBegins DEF Handle
<1> QED
  BY <1>3, <1>7, <1>8, <1>9, <1>10 DEF Next, PickAny, Fault

\* Delayed automations implement DelayedRuns, for any pubs, automations, workers
\* and faults.
THEOREM Implements == Spec => ImplementsDelayedRuns
<1>1. Init => Promise!Init
  <2> SUFFICES ASSUME Init PROVE Promise!Init
    OBVIOUS
  <2>1. {q \in RunIds : runs[q] # NoRun} = {}
    BY DEF Init
  <2>2. SeenRuns = [r \in {} |-> {}]
    BY <2>1 DEF SeenRuns
  <2> QED
    BY <2>2 DEF Init, Promise!Init
<1>2. Init => KInv
  BY DEF Init, KInv, KeysOwnedOnce, OneJobPerKey, Owns, RunJobsIn
<1>3. IInv /\ DInv /\ EInv /\ (workerCrashes = 0 => Once) /\ [Next]_vars
          => [Promise!Next]_Promise!all
  BY StepKeepsPromise
<1> QED
  BY <1>1, <1>2, <1>3, InitIInv, StepIInv, StepKInv, InitDInv, StepDInv, InitEInv, StepEInv,
     OnceAlways, PTL DEF Spec, ImplementsDelayedRuns, Promise!Spec

=============================================================================
