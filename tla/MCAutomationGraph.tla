-------------------------- MODULE MCAutomationGraph --------------------------
(***************************************************************************)
(* TLC instance of AutomationGraph: four automations, a stack depth of     *)
(* three, two users who save at the same time.                             *)
(***************************************************************************)
EXTENDS AutomationGraph, TLC

CONSTANTS a1, a2, a3, a4, e1, e2

FourAutomations == {a1, a2, a3, a4}
TwoEditors == {e1, e2}

GraphSymmetry == Permutations(FourAutomations) \union Permutations(TwoEditors)
=============================================================================
