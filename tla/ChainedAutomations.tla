------------------------- MODULE ChainedAutomations -------------------------
(***************************************************************************)
(* What the configuration of chained automations (AutomationGraph) and     *)
(* their runs (AutomationChain) have in common: the automations of a stage *)
(* and MAX_STACK_DEPTH, which limits the one and the other.                *)
(***************************************************************************)
EXTENDS Naturals, Sequences, FiniteSets

CONSTANTS Automations, MaxStackDepth

ASSUME DepthAssumption == MaxStackDepth \in Nat \ {0}

\* Automations that start each other one after the other, in a graph that has
\* the sources of each automation.
IsChain(graph, p) == \A i \in 1..(Len(p) - 1) : p[i] \in graph[p[i + 1]]

Chains(n) == [1..n -> Automations]
=============================================================================
