----------------------------- MODULE MCPubTitles -----------------------------
(***************************************************************************)
(* TLC instances of PubTitles: two fields, two values, and the operations  *)
(* that upsert one field or both, create the pub, delete the values of the *)
(* other field, or remove a relation.                                      *)
(***************************************************************************)
EXTENDS PubTitles, TLC

CONSTANTS p1, p2, name, text, x, y, w1, w2

OnePub == {p1}
TwoPubs == {p1, p2}
TwoFields == {name, text}
TwoValues == {x, y}
TwoWriters == {w1, w2}

\* The values of one field or both.
SomeValues == {s \in [TwoFields -> {x, y, None}] : \E f \in TwoFields : s[f] # None}

Upserts == [pub : Pubs, create : BOOLEAN, replace : BOOLEAN, drop : {{}}, set : SomeValues]
Removals == [pub : Pubs, create : {FALSE}, replace : {FALSE}, drop : {{text}},
             set : {[f \in TwoFields |-> None]}]
AllOps == Upserts \union Removals

Symmetric == Permutations(TwoWriters) \union Permutations(Pubs) \union Permutations(TwoValues)
=============================================================================
