-------------------------- MODULE MCAutomationChain --------------------------
(***************************************************************************)
(* TLC instances of AutomationChain: a and b start each other when they    *)
(* succeed, c is started when a fails or b succeeds.                       *)
(***************************************************************************)
EXTENDS AutomationChain, TLC

CONSTANTS a, b, c, w1, w2, q1

Three == {a, b, c}
OneRequest == {q1}
TwoWorkers == {w1, w2}
Circle == (a :> {b} @@ b :> {a} @@ c :> {b})
AFails == (a :> {} @@ b :> {} @@ c :> {a})
ThirdConditional == {c}
Runs5 == 1..5
Runs6 == 1..6
WorkerSymmetry == Permutations(TwoWorkers)
=============================================================================
