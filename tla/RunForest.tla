------------------------------ MODULE RunForest ------------------------------
(***************************************************************************)
(* What automations that start each other promise: their runs form a       *)
(* forest.  A run without a source is begun at any time; a run follows an  *)
(* ended run on a pub, on a pub as well, if its automation watches that    *)
(* outcome and the line of runs before it has room for one more.  There    *)
(* are no queue, no events and no stacks here, and nothing fails;          *)
(* AutomationChain implements this specification.                          *)
(***************************************************************************)
EXTENDS ChainedAutomations

CONSTANTS RunIds, OnSuccess, OnFailure, NoRun

VARIABLE runs

Init == runs = [r \in RunIds |-> NoRun]

\* s is a line of runs from one without a source, each the source of the next.
Line(s) ==
    /\ \A i \in 1..Len(s) : runs[s[i]] # NoRun
    /\ runs[s[1]].source = NoRun
    /\ \A i \in 1..(Len(s) - 1) : runs[s[i + 1]].source = s[i]

\* q has fewer than MaxStackDepth runs before it.
HasRoom(q) == \E n \in 1..MaxStackDepth : \E s \in [1..n -> RunIds] : Line(s) /\ s[n] = q

Watches(b, a, o) ==
    \/ o = "success" /\ a \in OnSuccess[b]
    \/ o = "failure" /\ a \in OnFailure[b]

New(r, b, source, input) ==
    /\ runs[r] = NoRun
    /\ runs' = [runs EXCEPT ![r] = [automation |-> b, source |-> source,
                                    input |-> input, status |-> "scheduled"]]

Begin == \E r \in RunIds, b \in Automations, input \in {"pub", "json"} : New(r, b, NoRun, input)

Follow ==
    \E r, q \in RunIds, b \in Automations :
        /\ New(r, b, q, "pub")
        /\ runs[q] # NoRun /\ runs[q].input = "pub"
        /\ Watches(b, runs[q].automation, runs[q].status)
        /\ HasRoom(q)

\* A run that has ended keeps its outcome.
End ==
    \E r \in RunIds, o \in {"success", "failure"} :
        /\ runs[r] # NoRun
        /\ runs[r].status = "scheduled"
        /\ runs' = [runs EXCEPT ![r].status = o]

Next == Begin \/ Follow \/ End

Spec == Init /\ [][Next]_runs
=============================================================================
