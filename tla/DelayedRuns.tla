----------------------------- MODULE DelayedRuns -----------------------------
(***************************************************************************)
(* What delayed automations promise, seen from the pubs and the stored     *)
(* runs: a run is stored for an entry of its pub into the automation's     *)
(* stage, and it is begun and ended once, and once more for every crash    *)
(* that delivers its job again.  A run succeeds only if its actions were   *)
(* started.  There are no jobs, no keys and no handlers here, and nothing  *)
(* is lost; DelayedAutomation implements this specification.               *)
(***************************************************************************)
EXTENDS Naturals, Sequences

CONSTANTS Pubs, Stages, Automations, RunIds, StageOf, ChecksOnExecution, NoStage

VARIABLES
    stage,      \* the stage of each pub
    entries,    \* how often each pub has entered one
    runs,       \* the stored runs
    announced,  \* the outcomes each run has announced
    executions, \* how often each run was begun
    crashes     \* deliveries that are repeated

all == <<stage, entries, runs, announced, executions, crashes>>

Init ==
    /\ stage = [p \in Pubs |-> NoStage]
    /\ entries = [p \in Pubs |-> 0]
    /\ runs = [r \in {} |-> {}]
    /\ announced = [r \in RunIds |-> <<>>]
    /\ executions = [r \in RunIds |-> 0]
    /\ crashes = 0

Enter(p, s) ==
    /\ stage[p] # s
    /\ stage' = [stage EXCEPT ![p] = s]
    /\ entries' = [entries EXCEPT ![p] = @ + 1]
    /\ UNCHANGED <<runs, announced, executions, crashes>>

Leave(p) ==
    /\ stage[p] # NoStage
    /\ stage' = [stage EXCEPT ![p] = NoStage]
    /\ UNCHANGED <<entries, runs, announced, executions, crashes>>

\* A run for an entry that has happened; if it was the last one, the pub is in
\* the automation's stage or has been removed from it.
Schedule(r, a, p, e) ==
    /\ r \notin DOMAIN runs
    /\ e \in 1..entries[p]
    /\ e = entries[p] => stage[p] \in {StageOf[a], NoStage}
    /\ crashes = 0 => \A q \in DOMAIN runs :
           <<a, p, e>> # <<runs[q].automation, runs[q].pub, runs[q].entry>>
    /\ runs' = [q \in DOMAIN runs \union {r} |->
                   IF q = r THEN [automation |-> a, pub |-> p, entry |-> e,
                                  status |-> "scheduled"]
                            ELSE runs[q]]
    /\ UNCHANGED <<stage, entries, announced, executions, crashes>>

\* Each beginning and each outcome of r is paid for by a delivery.
Delivered(r) == r \in DOMAIN runs /\ Len(announced[r]) <= crashes

Begin(r) ==
    /\ Delivered(r) /\ executions[r] <= crashes
    /\ executions' = [executions EXCEPT ![r] = @ + 1]
    /\ runs' = [runs EXCEPT ![r].status = "scheduled"]
    /\ UNCHANGED <<stage, entries, announced, crashes>>

\* A run that was never begun can only fail, when its condition cannot be
\* evaluated.
End(r, o) ==
    /\ Delivered(r) /\ runs[r].status # o
    /\ executions[r] = 0 => o = "failure" /\ runs[r].automation \in ChecksOnExecution
    /\ runs' = [runs EXCEPT ![r].status = o]
    /\ announced' = [announced EXCEPT ![r] = Append(@, o)]
    /\ UNCHANGED <<stage, entries, executions, crashes>>

Crash == crashes' = crashes + 1 /\ UNCHANGED <<stage, entries, runs, announced, executions>>

Next ==
    \/ \E p \in Pubs : Leave(p) \/ \E s \in Stages : Enter(p, s)
    \/ \E r \in RunIds :
        \/ \E a \in Automations, p \in Pubs : \E e \in 1..entries[p] : Schedule(r, a, p, e)
        \/ Begin(r) \/ \E o \in {"success", "failure"} : End(r, o)
    \/ Crash

Spec == Init /\ [][Next]_all
=============================================================================
