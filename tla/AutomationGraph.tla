--------------------------- MODULE AutomationGraph ---------------------------
(***************************************************************************)
(* The configuration of chained automations.  An automation may be         *)
(* triggered by the success or failure of others of its stage; its         *)
(* automation_triggers name those source automations.  Saving an           *)
(* automation first walks the stored triggers to refuse cycles and overly  *)
(* long sequences and only then, in a transaction of its own, replaces the *)
(* automation and its triggers.  Several users edit at the same time, so   *)
(* that the triggers may have changed between a walk and the write.        *)
(***************************************************************************)
EXTENDS ChainedAutomations

CONSTANTS Editors, NoRequest,
          MaxTriggers       \* bound: triggers stored or being saved

\* What an editor is saving: sources are the sourceAutomationIds of the chaining
\* triggers, unchecked those the loop over them has not come to.
SaveRequest == [id : Automations, sources : SUBSET Automations,
                unchecked : SUBSET Automations]

ASSUME NoRequestAssumption == NoRequest \notin SaveRequest
ASSUME MaxTriggersAssumption == MaxTriggers \in Nat

VARIABLES
    automations,    \* ids in the table automations
    triggers,       \* automation_triggers: the sources of each automation
    request         \* what each editor is saving

\* History, for the properties; no guard reads it.
VARIABLES
    overtaken,      \* what others stored since the first check of an editor's save
    raced           \* <<a, b>>: b was stored between the check and the write of a

history == <<overtaken, raced>>
graphVars == <<automations, triggers, request, history>>

-----------------------------------------------------------------------------
(* wouldCreateCycle *)

Paths == UNION {[1..n -> Automations] : n \in 1..(MaxStackDepth + 1)}

Chained(p) == \A i \in 1..(Len(p) - 1) : p[i] \in triggers[p[i + 1]]

\* Mutant of ClosesCycle: only automations already on the path count.
ClosesOnPath(p, j, source) == \E i \in 1..(j - 1) : p[i] = p[j]

\* isCycle of the row that path p has once its j-th automation is appended.
ClosesCycle(p, j, source) == p[j] = source \/ \E i \in 1..(j - 1) : p[i] = p[j]

\* The rows of the recursive query: paths along stored triggers from the
\* automation to be saved.  A row with isCycle is not extended, and one deeper
\* than maxStackDepth is not either.
AutomationPath(id, source) ==
    {p \in Paths : /\ p[1] = id
                   /\ Chained(p)
                   /\ \A j \in 2..(Len(p) - 1) : ~ClosesCycle(p, j, source)}

\* Mutant of TooDeep: one automation too many is let through.
TooDeepByOne(p) == Len(p) > MaxStackDepth

\* Mutant of TooDeep: the limit is one too low.
TooDeepEarly(p) == Len(p) + 1 >= MaxStackDepth

TooDeep(p) == Len(p) >= MaxStackDepth

\* Neither a cycle nor a sequence that exceeds the depth is found.  Without a
\* stored automation to start from the query has no rows.
Accepted(id, source) ==
    id \in automations =>
        \A p \in AutomationPath(id, source) :
            /\ ~TooDeep(p)
            /\ Len(p) > 1 => ~ClosesCycle(p, Len(p), source)

-----------------------------------------------------------------------------
(* addOrUpdateAutomation, duplicateAutomation, deleteAutomation *)

GraphInit ==
    /\ automations = {}
    /\ triggers = [a \in Automations |-> {}]
    /\ request = [e \in Editors |-> NoRequest]
    /\ overtaken = [e \in Editors |-> {}]
    /\ raced = {}

Saving(e) == request[e] # NoRequest

\* Bound: the triggers stored and those being saved are not more than MaxTriggers.
Room(sources) ==
    LET stored == {t \in Automations \X Automations : t[2] \in triggers[t[1]]}
        saving == {t \in Editors \X Automations : Saving(t[1]) /\ t[2] \in request[t[1]].sources}
    IN  Cardinality(stored) + Cardinality(saving) + Cardinality(sources) <= MaxTriggers

\* The server takes any stored automation as a source, the edited one as well:
\* only the form refuses that one.
Edit(e, id, sources) ==
    /\ request[e] = NoRequest
    /\ id \in automations
    /\ sources \subseteq automations /\ Room(sources)
    /\ request' = [request EXCEPT ![e] = [id |-> id, sources |-> sources, unchecked |-> sources]]
    /\ UNCHANGED <<automations, triggers, history>>

\* Without an id nothing is checked: the id is drawn by upsertAutomation.
Create(e, id, sources) ==
    /\ request[e] = NoRequest
    /\ id \notin automations
    /\ \A f \in Editors : request[f] # NoRequest => request[f].id # id
    /\ sources \subseteq automations /\ Room(sources)
    /\ request' = [request EXCEPT ![e] = [id |-> id, sources |-> sources, unchecked |-> {}]]
    /\ UNCHANGED <<automations, triggers, history>>

\* duplicateAutomation saves a copy, with the triggers the original has now.
Duplicate(e, original, id) ==
    /\ original \in automations
    /\ Create(e, id, triggers[original])

EndSave(e) == request' = [request EXCEPT ![e] = NoRequest]

Forget(e) == overtaken' = [overtaken EXCEPT ![e] = {}] /\ UNCHANGED raced

Check(e, source) ==
    /\ Saving(e) /\ source \in request[e].unchecked
    /\ Accepted(request[e].id, source)
    /\ request' = [request EXCEPT ![e].unchecked = @ \ {source}]
    /\ UNCHANGED <<automations, triggers, history>>

RefuseSave(e, source) ==
    /\ Saving(e) /\ source \in request[e].unchecked
    /\ EndSave(e) /\ Forget(e)
    /\ ~Accepted(request[e].id, source)
    /\ UNCHANGED <<automations, triggers>>

\* A check of the save has walked the triggers of the stored automation.
HasChecked(e) ==
    /\ Saving(e) /\ request[e].id \in automations
    /\ request[e].unchecked # request[e].sources

\* The saves that have already checked miss what is stored now, and its own
\* triggers were checked without what others have stored.
RecordRace(e) ==
    LET id == request[e].id IN
    /\ overtaken' = [f \in Editors |-> CASE f = e -> {}
                                         [] f # e /\ HasChecked(f) -> overtaken[f] \union {id}
                                         [] OTHER -> overtaken[f]]
    /\ raced' = {r \in raced : id \notin {r[1], r[2]}}
                    \union {<<id, b>> : b \in overtaken[e] \ {id}}

\* upsertAutomation: an automation deleted in the meantime is inserted again.
Store(e) ==
    /\ Saving(e) /\ request[e].unchecked = {}
    /\ request[e].sources \subseteq automations
    /\ automations' = automations \union {request[e].id}
    /\ triggers' = [triggers EXCEPT ![request[e].id] = request[e].sources]
    /\ EndSave(e) /\ RecordRace(e)

\* A source has been deleted: its foreign key fails and all is rolled back.
StoreFails(e) ==
    /\ Saving(e) /\ request[e].unchecked = {}
    /\ ~(request[e].sources \subseteq automations)
    /\ EndSave(e) /\ Forget(e)
    /\ UNCHANGED <<automations, triggers>>

\* Mutant of WithoutSource: the triggers keep the id of the deleted automation.
KeepSource(id) == [triggers EXCEPT ![id] = {}]

\* The triggers of a deleted automation go with it (cascade), in those of others
\* sourceAutomationId becomes null and they no longer chain.
WithoutSource(id) ==
    [a \in Automations |-> IF a = id THEN {} ELSE triggers[a] \ {id}]

Remove(id) ==
    /\ id \in automations
    /\ automations' = automations \ {id}
    /\ triggers' = WithoutSource(id)
    /\ overtaken' = [e \in Editors |-> overtaken[e] \ {id}]
    /\ raced' = {r \in raced : id \notin {r[1], r[2]}}
    /\ UNCHANGED request

GraphNext ==
    \/ \E e \in Editors, id \in Automations, sources \in SUBSET Automations :
          Edit(e, id, sources) \/ Create(e, id, sources)
    \/ \E e \in Editors, original, id \in Automations : Duplicate(e, original, id)
    \/ \E e \in Editors, source \in Automations : Check(e, source) \/ RefuseSave(e, source)
    \/ \E e \in Editors : Store(e) \/ StoreFails(e)
    \/ \E id \in Automations : Remove(id)

GraphSpec == GraphInit /\ [][GraphNext]_graphVars

-----------------------------------------------------------------------------
(* Properties *)

\* Only stored automations have triggers, and these name stored automations.
GraphTypeOK ==
    /\ automations \subseteq Automations
    /\ triggers \in [Automations -> SUBSET automations]
    /\ \A a \in Automations \ automations : triggers[a] = {}
    /\ request \in [Editors -> SaveRequest \union {NoRequest}]
    /\ overtaken \in [Editors -> SUBSET Automations]
    /\ raced \subseteq Automations \X Automations

\* In a graph (the sources of each automation), each automation of the set starts
\* another one of the set.
Circle(graph, S) == S # {} /\ \A x \in S : \E y \in S : x \in graph[y]

Acyclic(graph) == \A S \in SUBSET Automations : ~Circle(graph, S)

\* However many users edit at once, the stored triggers only close a circle in the
\* two ways wouldCreateCycle leaves open: an automation of the circle names
\* itself, or one of them was saved while another one of them, stored by somebody
\* else, came between its check and its write.
CirclesAreRaced ==
    \A S \in SUBSET Automations :
        Circle(triggers, S) =>
            \/ \E x \in S : x \in triggers[x]
            \/ \E x, y \in S : <<x, y>> \in raced

\* Saving an edited automation stores no sequence of more than MaxStackDepth
\* automations that begins with one of its sources, unless it goes on through
\* automations that others stored after the check, or the automation names itself.
EditedChainFits ==
    [][\A e \in Editors :
          (/\ Store(e)
           /\ request[e].id \in automations \ request[e].sources) =>
              \A p \in Chains(MaxStackDepth + 1) :
                  (/\ p[1] \in request[e].sources /\ p[2] = request[e].id
                   /\ \A i \in 3..(MaxStackDepth + 1) : p[i] \notin overtaken[e])
                      => ~IsChain(triggers', p)]_graphVars

\* An edit is only refused when storing it would leave a circle or a sequence of
\* more than MaxStackDepth automations, or when the stored triggers hold a circle:
\* the walk follows that one even if the edit is the one that would open it.
NoFalseAlarm ==
    [][\A e \in Editors, source \in Automations :
          RefuseSave(e, source) =>
              LET graph == [triggers EXCEPT ![request[e].id] = request[e].sources] IN
              \/ ~Acyclic(graph)
              \/ \E p \in Chains(MaxStackDepth + 1) : IsChain(graph, p)
              \/ ~Acyclic(triggers)]_graphVars
=============================================================================
