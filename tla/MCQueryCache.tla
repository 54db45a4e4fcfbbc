---------------------------- MODULE MCQueryCache ----------------------------
(***************************************************************************)
(* TLC instances of QueryCache: the pubs and the two tables whose triggers *)
(* change them, of which specialTables.ts names one, and the query of      *)
(* getPlainPub.                                                            *)
(***************************************************************************)
EXTENDS QueryCache, TLC

CONSTANTS plainPub, w1, w2, q1, q2

PubTables == {"pubs", "pub_values", "PubsInStages"}
ValuesAndStages == {"pub_values", "PubsInStages"}
OneKey == {plainPub}
TwoWriters == {w1, w2}
TwoQueries == {q1, q2}

PlainPubReads == plainPub :> {"pubs"}

\* trigger_pub_values_update_pub has its linked tag
PubLinks == [t \in Tables |-> IF t = "pubs" THEN {"pub_values"} ELSE {}]
\* and trigger_pubs_in_stages_update_pub has none
PubTriggers == [t \in Tables |-> IF t \in ValuesAndStages THEN {"pubs"} ELSE {}]

WriterSymmetry == Permutations(TwoWriters) \union Permutations(TwoQueries)
=============================================================================
