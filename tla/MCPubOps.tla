------------------------------ MODULE MCPubOps ------------------------------
(***************************************************************************)
(* TLC instances of PubOps: pubs with some of the relations they can have, *)
(* and the operations of the entry points.                                 *)
(***************************************************************************)
EXTENDS PubOps, TLC

CONSTANTS a, b, c, d, s1, s2, w1, w2

FourPubs == {a, b, c, d}
TwoStages == {s1, s2}
TwoWriters == {w1, w2}

Of(p) == [Stays EXCEPT !.pub = p]

\* movePub and setStage
Moves == {[Of(a) EXCEPT !.stage = s] : s \in {s1, s2, NoStage}}
\* PubOp.create and upsert of a pub that may be there, with a stage and values
Creates == {[Of(a) EXCEPT !.create = m, !.stage = s1, !.relate = {Plain, b}] :
                m \in {"create", "upsert"}}
\* unrelate of one pub; of all, with a new relation in their place
Cuts == {[Of(p) EXCEPT !.unrelate = {q}, !.deleteOrphaned = o] :
            p \in {a, b}, q \in {b, c}, o \in BOOLEAN}
Overrides == {[Of(a) EXCEPT !.unrelate = FourPubs, !.deleteOrphaned = o, !.relate = {c}] :
                  o \in BOOLEAN}
Additions == {[Of(p) EXCEPT !.relate = {c}] : p \in {a, b}}
Deletions == {[Of(p) EXCEPT !.delete = TRUE] : p \in {a, c}}

AllOps == Moves \union Creates \union Cuts \union Overrides \union Additions
          \union Deletions

\* Databases with all the pubs of P, a in the first stage, and values of some
\* of the relations in E.
Databases(P, E) ==
    {{PubRow(p) : p \in P} \union {StageRow(a, s1)} \union F :
        F \in SUBSET {Relation(e[1], e[2]) : e \in E}}

FourStart == Databases(FourPubs, {<<a, b>>, <<a, c>>, <<b, c>>, <<b, d>>, <<c, d>>, <<d, b>>})
    \union Databases(FourPubs, {<<a, b>>, <<b, b>>, <<b, c>>})

WriterSymmetry == Permutations(TwoWriters)
=============================================================================
