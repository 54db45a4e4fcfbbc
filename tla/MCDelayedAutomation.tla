------------------------- MODULE MCDelayedAutomation -------------------------
(***************************************************************************)
(* TLC instances of DelayedAutomation: one or two pubs that move between   *)
(* the stage s1, which carries the automation, and s2.                     *)
(***************************************************************************)
EXTENDS DelayedAutomation, TLC

CONSTANTS p1, p2, s1, s2, a1, w1, w2

OnePub == {p1}
TwoPubs == {p1, p2}
TwoStages == {s1, s2}
OneAutomation == {a1}
OneStage == {s1}
TwoWorkers == {w1, w2}
OnS1 == [a \in OneAutomation |-> s1]
OneAction == [a \in OneAutomation |-> 1]
None == {}

FirstReenters == [p \in Pubs |-> IF p = p1 THEN 2 ELSE 1]
AllReenter == [p \in Pubs |-> 2]

Runs2 == 1..2

SymmetricWorkers == Permutations(TwoWorkers)
=============================================================================
