---------------------------- MODULE OrderedSchema ----------------------------
(***************************************************************************)
(* What the migrations at startup promise to those who rely on them: the   *)
(* schema grows by one migration at a time, in their order, and a replica  *)
(* begins to serve only on the schema of its image.  There are no locks,   *)
(* records or errors here; Migrations implements this specification.       *)
(***************************************************************************)
EXTENDS Naturals

CONSTANTS Replicas, N, Latest

VARIABLES
    schema,     \* how much of each migration the schema contains
    serving     \* replicas that serve

Init ==
    /\ schema = [m \in 1..N |-> "none"]
    /\ serving = {}

Complete(m) == \A k \in 1..m : schema[k] = "all"

\* The next migration is applied, all of it or a part.
Grow ==
    \E m \in 1..N :
        /\ Complete(m - 1) /\ schema[m] # "all"
        /\ \/ schema' = [schema EXCEPT ![m] = "all"]
           \/ schema[m] = "none" /\ schema' = [schema EXCEPT ![m] = "part"]

Serve ==
    \E r \in Replicas :
        /\ Complete(Latest[r])
        /\ serving' = serving \union {r}

Leave == \E r \in serving : serving' = serving \ {r}

\* A replica may die while its SQL is run.
Next ==
    \/ Grow /\ (Leave \/ UNCHANGED serving)
    \/ (Serve \/ Leave) /\ UNCHANGED schema

vars == <<schema, serving>>

Spec == Init /\ [][Next]_vars
=============================================================================
