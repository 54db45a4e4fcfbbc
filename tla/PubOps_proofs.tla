---------------------------- MODULE PubOps_proofs ----------------------------
(***************************************************************************)
(* What the transactions of PubOps keep, for any pubs, stages, writers and *)
(* operations: no row dangles, a pub is in one stage, and the clean-up of  *)
(* orphans leaves no orphan and spares who hangs from somebody it keeps.   *)
(* A statement decides on what it sees; the invariant says, for every open *)
(* transaction, why a commit of another one does not spoil it.             *)
(***************************************************************************)
EXTENDS PubOps, TLAPS

-----------------------------------------------------------------------------
(* The inductive invariant *)

\* What every transaction sees is a database without dangling rows.
Sound == \A w \in Writers : Dangling(Visible(w)) = {}

\* No two transactions write rows of the same pub.
LocksApart == \A v, w \in Writers : v # w => Updated(v) \intersect Updated(w) = {}

\* Nobody deletes a pub that a new row of another transaction refers to.
RefsHeld ==
    \A v, w \in Writers : v # w => \A q \in Referenced(w) : PubRow(q) \notin gone[v]

\* The pub of a row that a transaction deletes is there, or is deleted as well.
Rooted ==
    \A w \in Writers : \A r \in gone[w] :
        PubRow(r[2]) \in db \union made[w] \union gone[w]

\* The relations a transaction is about to remove are there and are its pub's.
Selected ==
    \A w \in Writers : pc[w] = "unrelate" =>
        /\ doomed[w] \subseteq Visible(w) \intersect ValueRows
        /\ \A r \in doomed[w] : r[2] = op[w].pub

\* Only operations with a stage move.
Moves == \A w \in Writers : pc[w] \in {"stage", "moving"} => op[w].stage # Keep

Data == TypeOK /\ Sound /\ LocksApart /\ RefsHeld /\ Rooted /\ Selected /\ Moves

HasStage(S, p) == \E s \in Stages : StageRow(p, s) \in S

OneAtMost(S, p) == \A s, t \in Stages : StageRow(p, s) \in S /\ StageRow(p, t) \in S => s = t

\* A pub that is placed has a stage in the database, and in what every
\* transaction sees that does not take it out of its stages.
PlacedAre ==
    /\ \A p \in placed : PubRow(p) \in db /\ HasStage(db, p)
    /\ \A w \in Writers : \A p \in placed :
           PubRow(p) \in Visible(w) /\ ~(p = op[w].pub /\ op[w].stage = NoStage)
               => HasStage(Visible(w), p)

\* Once a transaction has moved its pub into a stage, the pub is in one as long
\* as it is there, and nobody else writes its rows.
Entered ==
    \A w \in Writers :
        op[w].stage \in Stages
        /\ pc[w] \in {"find", "unrelate", "orphans", "delete", "relate", "commit"}
            => /\ op[w].pub \in Updated(w)
               /\ PubRow(op[w].pub) \in Visible(w) => HasStage(Visible(w), op[w].pub)

\* Without overlapping moves nobody sees a pub in two stages.
OneSeen ==
    \A p \in Pubs \ overlapped :
        OneAtMost(db, p) /\ \A w \in Writers : OneAtMost(Visible(w), p)

\* Before its first statement a transaction has written nothing.
Fresh == \A w \in Writers : pc[w] = "create" => made[w] = {} /\ gone[w] = {}

Staged == PlacedAre /\ Entered /\ OneSeen /\ Fresh

\* The roots of w's clean-up, and the orphans it will find.
Roots(w) == {r[3] : r \in Cut(w)}
Orphans(w) == OrphanedPubs(db \ Cut(w), Roots(w))

\* The values w sees are those of S, and no committed pub is missing.
Sees(w, S) ==
    /\ Visible(w) \intersect ValueRows = S \intersect ValueRows
    /\ PubsOf(db) \subseteq PubsOf(Visible(w))

\* The orphans are gone, and of the rest everything is there.
CleanedUp(w) ==
    /\ PubsOf(db) \intersect PubsOf(Visible(w)) = PubsOf(db) \ Orphans(w)
    /\ \A r \in (db \ Cut(w)) \intersect ValueRows :
           r[2] \notin Orphans(w) /\ r[3] \notin Orphans(w) => r \in Visible(w)

\* How far the clean-up of a transaction is that nobody's commit came between.
CleaningOf(w) ==
    (op[w].deleteOrphaned /\ Cut(w) # {} /\ w \notin meddled) =>
        /\ pc[w] \in {"create", "stage", "moving", "find", "unrelate"} => Sees(w, db)
        /\ pc[w] \in {"orphans", "delete"} => Sees(w, db \ Cut(w))
        /\ pc[w] = "unrelate" => doomed[w] = Cut(w)
        /\ pc[w] \in {"unrelate", "orphans"} => roots[w] = Roots(w)
        /\ pc[w] = "delete" => doomed[w] = {PubRow(p) : p \in Orphans(w)}
        /\ pc[w] \in {"relate", "commit"} => CleanedUp(w)

CleaningUp == \A w \in Writers : CleaningOf(w)

IInv == Data /\ Staged /\ CleaningUp

-----------------------------------------------------------------------------
(* Rows *)

\* The three kinds of rows, and what is in their columns.
LEMMA PubRowFacts ==
    /\ \A p \in Pubs : /\ PubRow(p) \in PubRows /\ PubRow(p)[2] = p
                       /\ PubRow(p) \notin ValueRows /\ PubRow(p) \notin StageRows
    /\ \A r \in PubRows : r[2] \in Pubs /\ r = PubRow(r[2])
  BY DEF PubRows, ValueRows, StageRows, PubRow, Relation, StageRow

LEMMA ValueRowFacts ==
    /\ \A p \in Pubs, q \in Pubs \union {Plain} :
           /\ Relation(p, q) \in ValueRows
           /\ Relation(p, q)[2] = p /\ Relation(p, q)[3] = q
    /\ \A r \in ValueRows : /\ r[2] \in Pubs /\ r[3] \in Pubs \union {Plain}
                            /\ r \notin StageRows /\ r \notin PubRows
  BY DEF PubRows, ValueRows, StageRows, PubRow, Relation, StageRow

LEMMA StageRowFacts ==
    /\ \A p \in Pubs, s \in Stages :
           StageRow(p, s) \in StageRows /\ StageRow(p, s)[2] = p
    /\ \A p \in Pubs, s, t \in Stages : StageRow(p, s) = StageRow(p, t) => s = t
    /\ \A r \in StageRows : /\ r[2] \in Pubs /\ r \notin ValueRows /\ r \notin PubRows
                            /\ \E s \in Stages : r = StageRow(r[2], s)
  BY DEF PubRows, ValueRows, StageRows, PubRow, Relation, StageRow

LEMMA RowFacts ==
    /\ PubRows \subseteq Rows /\ ValueRows \subseteq Rows /\ StageRows \subseteq Rows
    /\ \A r \in Rows : r[2] \in Pubs
    /\ \A r \in Rows : r \in PubRows \/ r \in ValueRows \/ r \in StageRows
  BY PubRowFacts, ValueRowFacts, StageRowFacts DEF Rows

\* A row dangles if its pub is missing, or the pub it is related to.
LEMMA DanglingMeans ==
    ASSUME NEW S \in SUBSET Rows
    PROVE  Dangling(S) = {} <=>
               /\ \A r \in S : PubRow(r[2]) \in S
               /\ \A r \in S \intersect ValueRows : r[3] \in Pubs => PubRow(r[3]) \in S
  BY ValueRowFacts, PubOpsAssumption DEF Dangling

-----------------------------------------------------------------------------
(* Types *)

LEMMA StaysIsOp == Stays \in Op
  BY PubOpsAssumption DEF Stays, Op

LEMMA FollowingIs ==
    ASSUME NEW o, NEW from
    PROVE  /\ Following(o, from) \in {"create", "stage", "find", "delete", "relate", "commit"}
           /\ from # "begin" => Following(o, from) # "create"
           /\ Following(o, from) = "stage" => o.stage # Keep
  BY DEF Following

\* What a step of w writes: rows of its own transaction, and no committed ones.
Writes(w, L, E) ==
    /\ db' = db
    /\ made' = [made EXCEPT ![w] = (made[w] \ L) \union E]
    /\ gone' = [gone EXCEPT ![w] = gone[w] \union L]

LEMMA InsertWrites ==
    ASSUME NEW w \in Writers, NEW R, TypeOK, Insert(w, R), db' = db
    PROVE  Writes(w, {}, R)
  BY DEF Insert, Writes, TypeOK

LEMMA DeleteWrites ==
    ASSUME NEW w \in Writers, NEW R, TypeOK, Delete(w, R), db' = db
    PROVE  Writes(w, R, {})
  BY DEF Delete, Writes, TypeOK

LEMMA NothingWrites ==
    ASSUME NEW w \in Writers, TypeOK, UNCHANGED <<db, transaction>>
    PROVE  Writes(w, {}, {})
  BY DEF transaction, Writes, TypeOK

\* The steps of a transaction that is under way: they change nothing but its
\* own entries.
Statement(w) ==
    \/ Create(w) \/ StartMove(w) \/ Move(w) \/ FindRelations(w) \/ Unrelate(w)
    \/ FindOrphans(w) \/ DeletePubs(w) \/ Relate(w)

\* The rows that a statement deletes and inserts.
Deleted(w) ==
    CASE pc[w] = "moving" -> Left(doomed[w], {r \in Visible(w) \intersect StageRows : r[2] = op[w].pub})
      [] pc[w] = "unrelate" -> doomed[w]
      [] pc[w] = "delete" -> Cascade(Visible(w), {p \in ToDelete(w) : Exists(w, p)})
      [] OTHER -> {}

Inserted(w) ==
    CASE pc[w] = "create" -> IF Exists(w, op[w].pub) THEN {} ELSE {PubRow(op[w].pub)}
      [] pc[w] = "moving" -> IF op[w].stage = NoStage THEN {} ELSE {StageRow(op[w].pub, op[w].stage)}
      [] pc[w] = "relate" -> {Relation(op[w].pub, q) : q \in op[w].relate}
      [] OTHER -> {}

LEMMA StatementWrites ==
    ASSUME NEW w \in Writers, TypeOK, Statement(w)
    PROVE  Writes(w, Deleted(w), Inserted(w))
<1>1. CASE Create(w)
  BY <1>1, InsertWrites DEF Create, Deleted, Inserted
<1>2. CASE StartMove(w)
  BY <1>2, NothingWrites DEF StartMove, Deleted, Inserted
<1>3. CASE Move(w)
  BY <1>3 DEF Move, Deleted, Inserted, Writes, TypeOK
<1>4. CASE FindRelations(w)
  BY <1>4, NothingWrites DEF FindRelations, Deleted, Inserted
<1>5. CASE Unrelate(w)
  BY <1>5, DeleteWrites DEF Unrelate, Deleted, Inserted
<1>6. CASE FindOrphans(w)
  BY <1>6, NothingWrites DEF FindOrphans, Deleted, Inserted
<1>7. CASE DeletePubs(w)
  BY <1>7, DeleteWrites DEF DeletePubs, Deleted, Inserted
<1>8. CASE Relate(w)
  BY <1>8, InsertWrites DEF Relate, Deleted, Inserted
<1> QED
  BY <1>1, <1>2, <1>3, <1>4, <1>5, <1>6, <1>7, <1>8 DEF Statement

\* What they see before and after.
LEMMA WritesSeen ==
    ASSUME NEW w \in Writers, NEW L, NEW E, TypeOK, Writes(w, L, E)
    PROVE  /\ Visible(w)' = (Visible(w) \ L) \union E
           /\ \A v \in Writers \ {w} :
                  /\ Visible(v)' = Visible(v)
                  /\ made'[v] = made[v] /\ gone'[v] = gone[v]
           /\ made'[w] = (made[w] \ L) \union E
           /\ gone'[w] = gone[w] \union L
  BY DEF Writes, Visible, TypeOK

LEMMA VisibleTyped ==
    ASSUME NEW w \in Writers, TypeOK
    PROVE  Visible(w) \in SUBSET Rows
  BY DEF Visible, TypeOK

LEMMA DeletedIsSeen ==
    ASSUME NEW w \in Writers, TypeOK, Selected, Statement(w)
    PROVE  Deleted(w) \subseteq Visible(w)
<1>1. CASE pc[w] = "moving"
  BY <1>1 DEF Deleted, Left
<1>2. CASE pc[w] = "unrelate"
  BY <1>2 DEF Deleted, Selected
<1>3. CASE pc[w] = "delete"
  BY <1>3 DEF Deleted, Cascade
<1> QED
  BY <1>1, <1>2, <1>3 DEF Deleted

LEMMA InsertedTyped ==
    ASSUME NEW w \in Writers, TypeOK, Moves, Statement(w)
    PROVE  /\ Inserted(w) \subseteq Rows
           /\ \A r \in Inserted(w) : r[2] = op[w].pub
           /\ \A r \in Inserted(w) \intersect ValueRows :
                  pc[w] = "relate" /\ r[3] \in op[w].relate
<1> DEFINE p == op[w].pub
<1>0. op[w] \in Op /\ p \in Pubs /\ op[w].stage \in Stages \union {Keep, NoStage}
      /\ op[w].relate \subseteq Pubs \union {Plain}
  BY DEF TypeOK, Op
<1>1. CASE pc[w] = "create"
  BY <1>0, <1>1, PubRowFacts, RowFacts DEF Inserted
<1>2. CASE pc[w] = "moving"
  <2>1. op[w].stage # NoStage => op[w].stage \in Stages
    BY <1>0, <1>2 DEF Moves
  <2> QED
    BY <1>0, <1>2, <2>1, StageRowFacts, RowFacts DEF Inserted
<1>3. CASE pc[w] = "relate"
  <2>1. Inserted(w) = {Relation(p, q) : q \in op[w].relate}
    BY <1>3 DEF Inserted
  <2> QED
    BY <1>0, <1>3, <2>1, ValueRowFacts, RowFacts
<1> QED
  BY <1>1, <1>2, <1>3 DEF Inserted

LEMMA DownTyped == \A E, F : Down(E, F) \subseteq Pubs
  BY DEF Down

LEMMA OpTyped ==
    ASSUME NEW o \in Op
    PROVE  /\ o.pub \in Pubs /\ o.stage \in Stages \union {Keep, NoStage}
           /\ o.unrelate \subseteq Pubs /\ o.relate \subseteq Pubs \union {Plain}
           /\ o.delete => o.unrelate = {} /\ o.relate = {} /\ o.stage = Keep /\ o.create = "no"
  BY DEF Op

\* A statement leaves the operations and the ghosts of commits alone, and its
\* transaction open.
Stops(w) ==
    /\ \A v \in Writers \ {w} :
           pc'[v] = pc[v] /\ doomed'[v] = doomed[v] /\ roots'[v] = roots[v]
    /\ pc'[w] \in {"stage", "moving", "find", "unrelate", "orphans", "delete", "relate", "commit"}
    /\ pc'[w] = "stage" => op[w].stage # Keep
    /\ pc'[w] = "moving" => pc[w] = "stage"

LEMMA ProceedGoes ==
    ASSUME NEW w \in Writers, TypeOK, Proceed(w)
    PROVE  /\ \A v \in Writers \ {w} : pc'[v] = pc[v]
           /\ pc'[w] = Following(op[w], pc[w])
           /\ pc'[w] \in {"stage", "find", "delete", "relate", "commit"}
           /\ pc'[w] = "stage" => op[w].stage # Keep
<1>1. pc[w] # "begin"
  BY DEF TypeOK
<1> QED
  BY <1>1, FollowingIs DEF Proceed, Goto, TypeOK

LEMMA StatementStops ==
    ASSUME NEW w \in Writers, TypeOK, Statement(w)
    PROVE  Stops(w)
<1>1. CASE Create(w)
  BY <1>1, ProceedGoes DEF Create, Stops
<1>2. CASE StartMove(w)
  BY <1>2 DEF StartMove, Goto, TypeOK, Stops
<1>3. CASE Move(w)
  BY <1>3, ProceedGoes DEF Move, TypeOK, Stops
<1>4. CASE FindRelations(w)
  <2>1. Proceed(w) \/ Goto(w, "unrelate")
    BY <1>4 DEF FindRelations
  <2>2. \A v \in Writers \ {w} : doomed'[v] = doomed[v] /\ roots'[v] = roots[v]
    BY <1>4 DEF FindRelations, TypeOK
  <2> QED
    BY <2>1, <2>2, ProceedGoes DEF Goto, TypeOK, Stops
<1>5. CASE Unrelate(w)
  <2>1. Proceed(w) \/ Goto(w, "orphans")
    BY <1>5 DEF Unrelate
  <2>2. \A v \in Writers \ {w} : doomed'[v] = doomed[v] /\ roots'[v] = roots[v]
    BY <1>5 DEF Unrelate, TypeOK
  <2> QED
    BY <2>1, <2>2, ProceedGoes DEF Goto, TypeOK, Stops
<1>6. CASE FindOrphans(w)
  <2>1. Proceed(w) \/ Goto(w, "delete")
    BY <1>6 DEF FindOrphans
  <2>2. \A v \in Writers \ {w} : doomed'[v] = doomed[v] /\ roots'[v] = roots[v]
    BY <1>6 DEF FindOrphans, TypeOK
  <2> QED
    BY <2>1, <2>2, ProceedGoes DEF Goto, TypeOK, Stops
<1>7. CASE DeletePubs(w)
  BY <1>7, ProceedGoes DEF DeletePubs, TypeOK, Stops
<1>8. CASE Relate(w)
  BY <1>8, ProceedGoes DEF Relate, Stops
<1> QED
  BY <1>1, <1>2, <1>3, <1>4, <1>5, <1>6, <1>7, <1>8 DEF Statement

LEMMA StatementKeeps ==
    ASSUME NEW w \in Writers, Statement(w)
    PROVE  /\ op' = op /\ begun' = begun /\ meddled' = meddled /\ placed' = placed
           /\ overlapped \subseteq overlapped'
           /\ overlapped' \subseteq overlapped \union {op[w].pub}
  BY DEF Statement, Create, StartMove, Move, FindRelations, Unrelate, FindOrphans,
         DeletePubs, Relate, ghosts

\* The locals of a transaction are of the types they have.
LEMMA LocalsTyped ==
    ASSUME NEW w \in Writers, TypeOK, Statement(w)
    PROVE  /\ doomed' \in [Writers -> SUBSET Rows]
           /\ roots' \in [Writers -> SUBSET Pubs]
           /\ pc' \in [Writers -> {"idle", "create", "stage", "moving", "find", "unrelate",
                                   "orphans", "delete", "relate", "commit"}]
<1>1. Visible(w) \in SUBSET Rows /\ op[w].unrelate \subseteq Pubs
  BY VisibleTyped, OpTyped DEF TypeOK
<1>2. doomed' \in [Writers -> SUBSET Rows]
  <2>1. CASE StartMove(w)
    BY <1>1, <2>1 DEF StartMove, TypeOK
  <2>2. CASE FindRelations(w)
    BY <1>1, <2>2 DEF FindRelations, TypeOK
  <2>3. CASE FindOrphans(w)
    <3>1. {PubRow(p) : p \in OrphanedPubs(Visible(w), roots[w])} \subseteq Rows
      BY DownTyped, PubRowFacts, RowFacts DEF OrphanedPubs
    <3> QED
      BY <2>3, <3>1 DEF FindOrphans, TypeOK
  <2> QED
    BY <2>1, <2>2, <2>3
       DEF Statement, Create, Move, Unrelate, DeletePubs, Relate, TypeOK
<1>3. roots' \in [Writers -> SUBSET Pubs]
  <2>1. CASE FindRelations(w)
    BY <1>1, <2>1 DEF FindRelations, TypeOK
  <2> QED
    BY <2>1 DEF Statement, Create, StartMove, Move, Unrelate, FindOrphans, DeletePubs,
       Relate, TypeOK
<1>4. pc' \in [Writers -> {"idle", "create", "stage", "moving", "find", "unrelate",
                          "orphans", "delete", "relate", "commit"}]
  <2>1. Stops(w)
    BY StatementStops
  <2>2. \E s : pc' = [pc EXCEPT ![w] = s]
    BY DEF Statement, Create, StartMove, Move, FindRelations, Unrelate, FindOrphans,
       DeletePubs, Relate, Proceed, Goto
  <2> QED
    BY <2>1, <2>2 DEF Stops, TypeOK
<1> QED
  BY <1>2, <1>3, <1>4

LEMMA StatementTyped ==
    ASSUME NEW w \in Writers, TypeOK, Selected, Moves, Statement(w)
    PROVE  TypeOK'
<1>1. Writes(w, Deleted(w), Inserted(w))
  BY StatementWrites
<1>2. Deleted(w) \subseteq Rows /\ Inserted(w) \subseteq Rows
  BY DeletedIsSeen, VisibleTyped, InsertedTyped
<1>3. made' \in [Writers -> SUBSET Rows] /\ gone' \in [Writers -> SUBSET Rows] /\ db' = db
  BY <1>1, <1>2 DEF Writes, TypeOK
<1>4. \A v \in Writers : pc'[v] = "idle" =>
          made'[v] = {} /\ gone'[v] = {} /\ doomed'[v] = {} /\ roots'[v] = {}
  BY <1>1, StatementStops, WritesSeen DEF Stops, TypeOK
<1>5. op' = op /\ begun' = begun /\ meddled' = meddled /\ placed' = placed
      /\ overlapped' \subseteq Pubs
  BY StatementKeeps, OpTyped DEF TypeOK
<1> QED
  BY <1>3, <1>4, <1>5, LocalsTyped DEF TypeOK, Dangling

-----------------------------------------------------------------------------
(* A statement and the rows of others *)

LEMMA StatementAt ==
    ASSUME NEW w \in Writers, Statement(w)
    PROVE  /\ pc[w] = "create" => Create(w)
           /\ pc[w] = "stage" => StartMove(w)
           /\ pc[w] = "moving" => Move(w)
           /\ pc[w] = "find" => FindRelations(w)
           /\ pc[w] = "unrelate" => Unrelate(w)
           /\ pc[w] = "orphans" => FindOrphans(w)
           /\ pc[w] = "delete" => DeletePubs(w)
           /\ pc[w] = "relate" => Relate(w)
           /\ pc[w] \notin {"idle", "commit"}
  BY DEF Statement, Create, StartMove, Move, FindRelations, Unrelate, FindOrphans,
         DeletePubs, Relate

LEMMA SeenWhole ==
    ASSUME NEW w \in Writers, TypeOK, Sound
    PROVE  /\ \A r \in Visible(w) : r[2] \in Pubs /\ PubRow(r[2]) \in Visible(w)
           /\ \A r \in Visible(w) \intersect ValueRows :
                  r[3] \in Pubs => PubRow(r[3]) \in Visible(w)
  BY VisibleTyped, DanglingMeans, RowFacts DEF Sound

\* What a statement writes is its pub's, or the pubs' that it deletes with all
\* their rows, and none of them is another transaction's.
LEMMA WritesAlone ==
    ASSUME NEW w \in Writers, Data, Statement(w), NEW v \in Writers \ {w}
    PROVE  \A r \in Deleted(w) \union Inserted(w) : r[2] \notin Updated(v)
<1> DEFINE p == op[w].pub
           p_rows == \A r \in Deleted(w) \union Inserted(w) : r[2] = p
<1>1. CASE pc[w] = "create"
  <2>1. Create(w)
    BY <1>1, StatementAt
  <2>2. p \in Pubs
    BY OpTyped DEF Data, TypeOK
  <2>3. Deleted(w) = {} /\ Inserted(w) = IF Exists(w, p) THEN {} ELSE {PubRow(p)}
    BY <1>1 DEF Deleted, Inserted
  <2>4. ASSUME ~Exists(w, p), p \in Updated(v) PROVE FALSE
    <3>1. PubRow(p) \notin made[v] \union gone[v]
      BY <2>1 DEF Create
    <3>2. PubRow(p) \in db
      <4>1. CASE \E r \in gone[v] : r[2] = p
        BY <3>1, <4>1 DEF Data, Rooted
      <4>2. CASE \E r \in made[v] : r[2] = p
        <5>1. PubRow(p) \in Visible(v)
          <6>1. \A r \in made[v] : r \in Visible(v)
            BY DEF Visible
          <6> QED
            BY <4>2, <6>1, SeenWhole DEF Data
        <5> QED
          BY <3>1, <5>1 DEF Visible
      <4> QED
        BY <2>4, <4>1, <4>2 DEF Updated
    <3>3. PubRow(p) \in gone[w]
      BY <2>4, <3>2 DEF Exists, Visible
    <3>4. p \in Updated(w)
      BY <2>2, <3>3, PubRowFacts DEF Updated
    <3> QED
      BY <2>4, <3>4 DEF Data, LocksApart
  <2>5. CASE Exists(w, p)
    BY <2>3, <2>5
  <2>6. CASE ~Exists(w, p)
    BY <2>2, <2>3, <2>4, <2>6, PubRowFacts
  <2> QED
    BY <2>5, <2>6
<1>2. CASE pc[w] = "moving"
  <2>1. Move(w)
    BY <1>2, StatementAt
  <2>2. p_rows
    BY <1>2, InsertedTyped DEF Deleted, Left, Data
  <2>3. Deleted(w) \union Inserted(w) = {} \/ p \notin Updated(v)
    BY <1>2, <2>1 DEF Move, Unlocked, Deleted, Inserted
  <2> QED
    BY <2>2, <2>3
<1>3. CASE pc[w] = "unrelate"
  <2>1. Unrelate(w)
    BY <1>3, StatementAt
  <2>2. Deleted(w) = doomed[w] /\ Inserted(w) = {} /\ p_rows
    BY <1>3 DEF Deleted, Inserted, Data, Selected
  <2>3. Deleted(w) = {} \/ p \notin Updated(v)
    BY <2>1, <2>2 DEF Unrelate, Unlocked
  <2> QED
    BY <2>2, <2>3
<1>4. CASE pc[w] = "delete"
  <2>1. DeletePubs(w)
    BY <1>4, StatementAt
  <2>2. Inserted(w) = {} /\ {r[2] : r \in Deleted(w)} \intersect Updated(v) = {}
    BY <1>4, <2>1 DEF DeletePubs, Unlocked, Deleted, Inserted
  <2> QED
    BY <2>2
<1>5. CASE pc[w] = "relate"
  <2>1. Relate(w)
    BY <1>5, StatementAt
  <2>2. Deleted(w) = {} /\ p \notin Updated(v)
    BY <1>5, <2>1 DEF Relate, Unlocked, Deleted
  <2> QED
    BY <2>2, InsertedTyped DEF Data
<1>6. CASE pc[w] \notin {"create", "moving", "unrelate", "delete", "relate"}
  BY <1>6 DEF Deleted, Inserted
<1> QED
  BY <1>1, <1>2, <1>3, <1>4, <1>5, <1>6

\* No pub is deleted that another transaction refers to, and no new row refers
\* to a pub that another transaction has deleted.
LEMMA WritesRefer ==
    ASSUME NEW w \in Writers, Data, Statement(w), NEW v \in Writers \ {w}
    PROVE  /\ \A q \in Referenced(v) : PubRow(q) \notin Deleted(w)
           /\ \A r \in Inserted(w) \intersect ValueRows :
                  r[3] \in Pubs => PubRow(r[3]) \notin gone[v]
<1>1. \A q \in Referenced(v) : PubRow(q) \notin Deleted(w)
  <2>1. CASE pc[w] = "delete"
    <3>1. DeletePubs(w)
      BY <2>1, StatementAt
    <3> DEFINE D == {p \in ToDelete(w) : Exists(w, p)}
    <3>2. Referenced(v) \intersect D = {}
      BY <3>1 DEF DeletePubs, Unlocked
    <3>3. \A q \in Pubs : PubRow(q) \in Deleted(w) => q \in D
      BY <2>1, PubRowFacts DEF Deleted, Cascade
    <3> QED
      BY <3>2, <3>3 DEF Referenced
  <2>2. CASE pc[w] = "moving"
    BY <2>2, PubRowFacts DEF Deleted, Left, Referenced
  <2>3. CASE pc[w] = "unrelate"
    BY <2>3, PubRowFacts DEF Deleted, Data, Selected, Referenced
  <2> QED
    BY <2>1, <2>2, <2>3 DEF Deleted
<1>2. \A r \in Inserted(w) \intersect ValueRows :
         r[3] \in Pubs => PubRow(r[3]) \notin gone[v]
  <2>1. SUFFICES ASSUME NEW r \in Inserted(w) \intersect ValueRows, r[3] \in Pubs
                 PROVE  PubRow(r[3]) \notin gone[v]
    OBVIOUS
  <2>2. pc[w] = "relate" /\ r[3] \in op[w].relate
    BY InsertedTyped DEF Data
  <2>3. Relate(w)
    BY <2>2, StatementAt
  <2> QED
    BY <2>1, <2>2, <2>3 DEF Relate, Unlocked
<1> QED
  BY <1>1, <1>2

\* What a statement sees afterwards has no dangling rows.
LEMMA StatementSound ==
    ASSUME NEW w \in Writers, Data, Statement(w)
    PROVE  Dangling((Visible(w) \ Deleted(w)) \union Inserted(w)) = {}
<1> DEFINE S == Visible(w)
           T == (S \ Deleted(w)) \union Inserted(w)
           p == op[w].pub
<1>0. S \in SUBSET Rows /\ T \in SUBSET Rows /\ p \in Pubs
  BY VisibleTyped, InsertedTyped, OpTyped DEF Data, TypeOK
<1>1. /\ \A r \in S : PubRow(r[2]) \in S
      /\ \A r \in S \intersect ValueRows : r[3] \in Pubs => PubRow(r[3]) \in S
  BY SeenWhole DEF Data
<1>2. SUFFICES /\ \A r \in T : PubRow(r[2]) \in T
               /\ \A r \in T \intersect ValueRows : r[3] \in Pubs => PubRow(r[3]) \in T
  BY <1>0, DanglingMeans
<1>3. CASE pc[w] = "create"
  <2>1. Deleted(w) = {} /\ Inserted(w) = IF Exists(w, p) THEN {} ELSE {PubRow(p)}
    BY <1>3 DEF Deleted, Inserted
  <2> QED
    BY <1>0, <1>1, <2>1, PubRowFacts
<1>4. CASE pc[w] = "moving"
  <2>1. Move(w)
    BY <1>4, StatementAt
  <2>2. Deleted(w) \subseteq StageRows /\ Inserted(w) \intersect ValueRows = {}
    BY <1>4, InsertedTyped DEF Deleted, Left, Data
  <2>3. Inserted(w) # {} => PubRow(p) \in S
    BY <1>4, <2>1 DEF Move, Inserted, Exists
  <2> QED
    BY <1>0, <1>1, <2>2, <2>3, PubRowFacts, InsertedTyped, RowFacts, ValueRowFacts DEF Data
<1>5. CASE pc[w] = "unrelate"
  <2>1. Deleted(w) \subseteq ValueRows /\ Inserted(w) = {}
    BY <1>5 DEF Deleted, Inserted, Data, Selected
  <2> QED
    BY <1>0, <1>1, <2>1, PubRowFacts, RowFacts, ValueRowFacts
<1>6. CASE pc[w] = "delete"
  <2> DEFINE D == {q \in ToDelete(w) : Exists(w, q)}
  <2>1. Deleted(w) = Cascade(S, D) /\ Inserted(w) = {}
    BY <1>6 DEF Deleted, Inserted
  <2>2. \A q \in Pubs : PubRow(q) \in Cascade(S, D) => q \in D
    BY PubRowFacts DEF Cascade
  <2>3. \A r \in T : r \in S /\ r[2] \notin D /\ (r \in ValueRows => r[3] \notin D)
    BY <2>1 DEF Cascade
  <2> HIDE DEF D
  <2> QED
    BY <1>0, <1>1, <2>1, <2>2, <2>3, RowFacts
<1>7. CASE pc[w] = "relate"
  <2>1. Relate(w)
    BY <1>7, StatementAt
  <2>2. Deleted(w) = {}
    BY <1>7 DEF Deleted
  <2>3. PubRow(p) \in S /\ \A q \in op[w].relate \intersect Pubs : PubRow(q) \in S
    BY <2>1 DEF Relate, Exists
  <2> QED
    BY <1>0, <1>1, <2>2, <2>3, InsertedTyped DEF Data
<1>8. CASE pc[w] \notin {"create", "moving", "unrelate", "delete", "relate"}
  BY <1>1, <1>8 DEF Deleted, Inserted
<1> QED
  BY <1>3, <1>4, <1>5, <1>6, <1>7, <1>8

LEMMA StatementData ==
    ASSUME NEW w \in Writers, Data, Statement(w)
    PROVE  Data'
<1> DEFINE L == Deleted(w)
           E == Inserted(w)
<1>0. TypeOK /\ Sound /\ LocksApart /\ RefsHeld /\ Rooted /\ Selected /\ Moves
  BY DEF Data
<1>1. /\ Visible(w)' = (Visible(w) \ L) \union E
      /\ \A v \in Writers \ {w} :
             Visible(v)' = Visible(v) /\ made'[v] = made[v] /\ gone'[v] = gone[v]
      /\ made'[w] = (made[w] \ L) \union E
      /\ gone'[w] = gone[w] \union L
      /\ db' = db /\ op' = op
  <2>1. Writes(w, L, E)
    BY <1>0, StatementWrites
  <2> HIDE DEF L, E
  <2>2. db' = db /\ op' = op
    BY <2>1, StatementKeeps DEF Writes
  <2> QED
    BY <1>0, <2>1, <2>2, WritesSeen
<1>2. L \subseteq Visible(w) /\ L \subseteq Rows /\ E \subseteq Rows
  BY <1>0, DeletedIsSeen, VisibleTyped, InsertedTyped
<1>3. \A v \in Writers \ {w} : \A r \in L \union E : r[2] \notin Updated(v)
  BY WritesAlone
<1>4. \A v \in Writers \ {w} :
          /\ \A q \in Referenced(v) : PubRow(q) \notin L
          /\ \A r \in E \intersect ValueRows : r[3] \in Pubs => PubRow(r[3]) \notin gone[v]
  BY WritesRefer
<1>5. TypeOK'
  BY <1>0, StatementTyped
<1>6. Sound'
  <2>1. Dangling(Visible(w)') = {}
    BY <1>1, StatementSound
  <2>2. ASSUME NEW v \in Writers PROVE Dangling(Visible(v))' = {}
    <3>1. Dangling(Visible(v))' = Dangling(Visible(v)')
      BY DEF Dangling, Visible
    <3> QED
      BY <1>0, <1>1, <2>1, <3>1 DEF Sound
  <2> QED
    BY <2>2 DEF Sound
<1>7. LocksApart'
  <2>1. ASSUME NEW v \in Writers \ {w} PROVE Updated(v)' = Updated(v)
    BY <1>1 DEF Updated
  <2>2. Updated(w)' \subseteq Updated(w) \union {r[2] : r \in L \union E}
    BY <1>1 DEF Updated
  <2> QED
    BY <1>0, <1>3, <2>1, <2>2 DEF LocksApart
<1>8. RefsHeld'
  <2>1. ASSUME NEW v \in Writers \ {w}
        PROVE  Referenced(v)' = Referenced(v)
    BY <1>1 DEF Referenced
  <2>2. ASSUME NEW q \in Referenced(w)'
        PROVE  q \in Referenced(w) \/ \E r \in E \intersect ValueRows : r[3] = q /\ q \in Pubs
    BY <1>1, <2>2 DEF Referenced
  <2>3. ASSUME NEW u \in Writers, NEW v \in Writers, u # v, NEW q \in Referenced(v)'
        PROVE  PubRow(q) \notin gone'[u]
    <3>1. CASE v = w
      BY <1>0, <1>1, <1>4, <2>2, <2>3, <3>1 DEF RefsHeld
    <3>2. CASE u = w
      BY <1>0, <1>1, <1>4, <2>1, <2>3, <3>2 DEF RefsHeld
    <3>3. CASE u # w /\ v # w
      BY <1>0, <1>1, <2>1, <2>3, <3>3 DEF RefsHeld
    <3> QED
      BY <3>1, <3>2, <3>3
  <2>4. \A q : PubRow(q)' = PubRow(q)
    BY DEF PubRow
  <2> QED
    BY <2>3 DEF RefsHeld
<1>9. Rooted'
  <2>1. ASSUME NEW r \in gone'[w]
        PROVE  PubRow(r[2]) \in db' \union made'[w] \union gone'[w]
    <3>1. CASE r \in gone[w]
      BY <1>0, <1>1, <3>1 DEF Rooted
    <3>2. CASE r \in L
      <4>1. PubRow(r[2]) \in Visible(w)
        BY <1>0, <1>2, <3>2, SeenWhole
      <4> QED
        BY <1>1, <4>1 DEF Visible
    <3> QED
      BY <1>1, <2>1, <3>1, <3>2
  <2>2. ASSUME NEW v \in Writers \ {w}, NEW r \in gone'[v]
        PROVE  PubRow(r[2]) \in db' \union made'[v] \union gone'[v]
    BY <1>0, <1>1, <2>2 DEF Rooted
  <2> QED
    BY <2>1, <2>2 DEF Rooted
<1>10. Stops(w)
  BY <1>0, StatementStops
<1>11. Selected'
  <2>1. ASSUME pc'[w] = "unrelate"
        PROVE  /\ doomed'[w] \subseteq Visible(w)' \intersect ValueRows
               /\ \A r \in doomed'[w] : r[2] = op[w].pub
    <3>1. FindRelations(w)
      BY <1>0, <2>1, ProceedGoes DEF Statement, Create, StartMove, Move, FindRelations, Unrelate,
         FindOrphans, DeletePubs, Relate, Goto, TypeOK
    <3>2. doomed'[w] = {r \in Visible(w) \intersect ValueRows :
                            r[2] = op[w].pub /\ r[3] \in op[w].unrelate}
      BY <1>0, <3>1 DEF FindRelations, TypeOK
    <3>3. L = {}
      BY <3>1 DEF FindRelations, Deleted
    <3> QED
      BY <1>1, <3>2, <3>3
  <2>2. ASSUME NEW v \in Writers, pc'[v] = "unrelate"
        PROVE  /\ doomed'[v] \subseteq Visible(v)' \intersect ValueRows
               /\ \A r \in doomed'[v] : r[2] = op'[v].pub
    <3>1. CASE v = w
      BY <1>1, <2>1, <2>2, <3>1
    <3>2. CASE v # w
      BY <1>0, <1>1, <1>10, <2>2, <3>2 DEF Selected, Stops
    <3> QED
      BY <3>1, <3>2
  <2>3. ValueRows' = ValueRows
    BY DEF ValueRows, Relation
  <2> QED
    BY <2>2, <2>3 DEF Selected
<1>12. Moves'
  BY <1>0, <1>1, <1>10 DEF Moves, Stops
<1> QED
  BY <1>5, <1>6, <1>7, <1>8, <1>9, <1>11, <1>12 DEF Data

-----------------------------------------------------------------------------
(* Begin, abort and commit *)

LEMMA DataInit == Init => Data
<1>1. SUFFICES ASSUME Init PROVE Data
  OBVIOUS
<1>2. db \in Start /\ db \subseteq Rows /\ Dangling(db) = {}
  BY <1>1, PubOpsAssumption DEF Init
<1>3. placed \subseteq Pubs /\ overlapped \subseteq Pubs
  BY <1>1, StageRowFacts DEF Init, InStage, InTwoStages
<1>4. TypeOK
  BY <1>1, <1>2, <1>3, StaysIsOp, PubOpsAssumption DEF Init, TypeOK
<1>5. \A w \in Writers : Visible(w) = db /\ gone[w] = {} /\ made[w] = {}
  BY <1>1 DEF Init, Visible
<1>6. Sound /\ LocksApart /\ RefsHeld /\ Rooted
  BY <1>2, <1>5 DEF Sound, LocksApart, RefsHeld, Rooted, Updated, Referenced
<1>7. Selected /\ Moves
  BY <1>1 DEF Init, Selected, Moves
<1> QED
  BY <1>4, <1>6, <1>7 DEF Data

LEMMA BeginData ==
    ASSUME NEW w \in Writers, Data, Begin(w)
    PROVE  Data'
<1>0. TypeOK /\ Sound /\ LocksApart /\ RefsHeld /\ Rooted /\ Selected /\ Moves
  BY DEF Data
<1>1. UNCHANGED <<db, made, gone, doomed, roots, meddled, placed, overlapped>>
      /\ begun' = begun + 1 /\ begun < MaxOps /\ pc[w] = "idle"
  BY DEF Begin, transaction, ghosts
<1>2. PICK o \in Ops : op' = [op EXCEPT ![w] = o]
                       /\ pc' = [pc EXCEPT ![w] = Following(o, "begin")]
  BY DEF Begin, Goto
<1>3. o \in Op
  BY PubOpsAssumption
<1>4. pc'[w] \in {"create", "stage", "find", "delete", "relate", "commit"}
      /\ (pc'[w] = "stage" => o.stage # Keep)
  BY <1>0, <1>2, FollowingIs DEF TypeOK
<1>5. TypeOK'
  <2>1. begun' \in 0..MaxOps
    BY <1>0, <1>1, PubOpsAssumption DEF TypeOK
  <2>2. pc' \in [Writers -> {"idle", "create", "stage", "moving", "find", "unrelate",
                             "orphans", "delete", "relate", "commit"}]
    BY <1>0, <1>2, <1>4 DEF TypeOK
  <2>3. op' \in [Writers -> Op]
    BY <1>0, <1>2, <1>3 DEF TypeOK
  <2>4. \A v \in Writers : pc'[v] = "idle" => pc[v] = "idle"
    BY <1>0, <1>2, <1>4 DEF TypeOK
  <2> QED
    BY <1>0, <1>1, <2>1, <2>2, <2>3, <2>4 DEF TypeOK, Dangling
<1>6. Sound' /\ LocksApart' /\ RefsHeld' /\ Rooted'
  BY <1>0, <1>1 DEF Sound, LocksApart, RefsHeld, Rooted, Visible, Updated, Referenced, Dangling
<1>7. Selected' /\ Moves'
  <2>1. \A v \in Writers \ {w} : pc'[v] = pc[v] /\ op'[v] = op[v]
    BY <1>0, <1>2 DEF TypeOK
  <2>2. pc'[w] # "unrelate" /\ pc'[w] # "moving" /\ op'[w] = o
    BY <1>0, <1>2, <1>4 DEF TypeOK
  <2> QED
    BY <1>0, <1>1, <1>4, <2>1, <2>2 DEF Selected, Moves, Visible
<1> QED
  BY <1>5, <1>6, <1>7 DEF Data

\* A transaction that is over leaves nothing of its own.
LEMMA OverClears ==
    ASSUME NEW w \in Writers, TypeOK, Over(w)
    PROVE  /\ \A v \in Writers \ {w} : /\ pc'[v] = pc[v] /\ op'[v] = op[v]
                                      /\ made'[v] = made[v] /\ gone'[v] = gone[v]
                                      /\ roots'[v] = roots[v]
           /\ pc'[w] = "idle" /\ op'[w] = Stays
           /\ made'[w] = {} /\ gone'[w] = {} /\ roots'[w] = {}
           /\ pc' \in [Writers -> {"idle", "create", "stage", "moving", "find", "unrelate",
                                   "orphans", "delete", "relate", "commit"}]
           /\ op' \in [Writers -> Op]
           /\ made' \in [Writers -> SUBSET Rows] /\ gone' \in [Writers -> SUBSET Rows]
           /\ roots' \in [Writers -> SUBSET Pubs]
  BY StaysIsOp DEF Over, Goto, TypeOK

LEMMA AbortData ==
    ASSUME NEW w \in Writers, Data, Abort(w)
    PROVE  Data'
<1>0. TypeOK /\ Sound /\ LocksApart /\ RefsHeld /\ Rooted /\ Selected /\ Moves
  BY DEF Data
<1>1. /\ UNCHANGED <<db, begun, placed, overlapped>> /\ Over(w)
      /\ doomed' = [doomed EXCEPT ![w] = {}] /\ meddled' = meddled \ {w}
  BY DEF Abort
<1>2. TypeOK'
  BY <1>0, <1>1, OverClears DEF TypeOK, Dangling
<1>3. /\ \A v \in Writers \ {w} : Visible(v)' = Visible(v)
      /\ Visible(w)' = db
  BY <1>0, <1>1, OverClears DEF Visible
<1>4. Sound'
  BY <1>0, <1>3 DEF Sound, Dangling, TypeOK
<1>5. LocksApart' /\ RefsHeld' /\ Rooted'
  <2>1. \A v \in Writers \ {w} : Updated(v)' = Updated(v) /\ Referenced(v)' = Referenced(v)
    BY <1>0, <1>1, OverClears DEF Updated, Referenced
  <2>2. Updated(w)' = {} /\ Referenced(w)' = {}
    BY <1>0, <1>1, OverClears DEF Updated, Referenced
  <2>3. \A v \in Writers : gone'[v] \subseteq gone[v]
    BY <1>0, <1>1, OverClears
  <2>4. LocksApart'
    BY <1>0, <2>1, <2>2 DEF LocksApart
  <2>5. RefsHeld'
    BY <1>0, <2>1, <2>2, <2>3 DEF RefsHeld
  <2>6. Rooted'
    BY <1>0, <1>1, OverClears DEF Rooted
  <2> QED
    BY <2>4, <2>5, <2>6
<1>6. Selected' /\ Moves'
  BY <1>0, <1>1, <1>3, OverClears DEF Selected, Moves, TypeOK
<1> QED
  BY <1>2, <1>4, <1>5, <1>6 DEF Data

\* What a commit of v leaves to another transaction w: the rows of w's own pubs
\* are as it sees them, all others are as v has committed them.
LEMMA CommitSeen ==
    ASSUME NEW v \in Writers, Data, Commit(v), NEW w \in Writers \ {v}
    PROVE  /\ db' = Visible(v)
           /\ made'[w] = made[w] /\ gone'[w] = gone[w]
           /\ \A r : r[2] \in Updated(w) => (r \in Visible(w)' <=> r \in Visible(w))
           /\ \A r : r[2] \notin Updated(w) => (r \in Visible(w)' <=> r \in db')
           /\ \A r : r[2] \in Updated(w) => (r \in db' <=> r \in db)
<1>1. db' = Visible(v) /\ made'[w] = made[w] /\ gone'[w] = gone[w]
  BY OverClears DEF Commit, Data
<1>2. \A r : r[2] \in Updated(w) => r \notin made[v] /\ r \notin gone[v]
  BY DEF Data, LocksApart, Updated
<1>3. \A r : r[2] \notin Updated(w) => r \notin made[w] /\ r \notin gone[w]
  BY DEF Updated
<1>4. Visible(w)' = (db' \ gone'[w]) \union made'[w]
  BY DEF Visible
<1> QED
  BY <1>1, <1>2, <1>3, <1>4 DEF Visible

LEMMA CommitSound ==
    ASSUME NEW v \in Writers, Data, Commit(v), NEW w \in Writers \ {v}
    PROVE  Dangling(Visible(w)') = {}
<1> DEFINE T == Visible(w)'
<1>0. TypeOK /\ Sound /\ LocksApart /\ RefsHeld
  BY DEF Data
<1>1. /\ db' = Visible(v)
      /\ made'[w] = made[w] /\ gone'[w] = gone[w]
      /\ \A r : r[2] \in Updated(w) => (r \in T <=> r \in Visible(w))
      /\ \A r : r[2] \notin Updated(w) => (r \in T <=> r \in db')
      /\ \A r : r[2] \in Updated(w) => (r \in db' <=> r \in db)
  BY CommitSeen
<1>2. T \in SUBSET Rows
  BY <1>0, <1>1, VisibleTyped DEF Visible, TypeOK
<1>3. \A r \in T : r \in Visible(w) \/ r \in Visible(v)
  BY <1>1
<1>4. /\ \A r \in Visible(w) : r[2] \in Pubs /\ PubRow(r[2]) \in Visible(w)
      /\ \A r \in Visible(w) \intersect ValueRows : r[3] \in Pubs => PubRow(r[3]) \in Visible(w)
      /\ \A r \in Visible(v) : r[2] \in Pubs /\ PubRow(r[2]) \in Visible(v)
      /\ \A r \in Visible(v) \intersect ValueRows : r[3] \in Pubs => PubRow(r[3]) \in Visible(v)
  BY <1>0, SeenWhole
<1> HIDE DEF T
<1>5. \A r \in T : PubRow(r[2]) \in T
  BY <1>1, <1>3, <1>4, PubRowFacts
<1>6. ASSUME NEW r \in T \intersect ValueRows, r[3] \in Pubs
      PROVE  PubRow(r[3]) \in T
  <2> DEFINE q == r[3]
  <2>0. PubRow(q)[2] = q
    BY <1>6, PubRowFacts
  <2>1. CASE q \in Updated(w)
    <3>1. CASE r \in Visible(w)
      BY <1>1, <1>4, <1>6, <2>0, <2>1, <3>1
    <3>2. CASE r \notin Visible(w)
      <4>1. r[2] \notin Updated(w) /\ r \in Visible(v)
        BY <1>1, <1>3, <3>2
      <4>2. r \notin gone[w] /\ r \notin db
        BY <3>2, <4>1 DEF Visible, Updated
      <4>3. r \in made[v]
        BY <4>1, <4>2 DEF Visible
      <4>4. q \in Referenced(v)
        BY <1>6, <4>3 DEF Referenced
      <4>5. PubRow(q) \notin gone[w]
        BY <1>0, <4>4 DEF RefsHeld
      <4>6. PubRow(q) \in db'
        BY <1>1, <1>4, <1>6, <4>1
      <4>7. PubRow(q) \in db
        BY <1>1, <2>0, <2>1, <4>6
      <4>8. PubRow(q) \in Visible(w)
        BY <4>5, <4>7 DEF Visible
      <4> QED
        BY <1>1, <2>0, <2>1, <4>8
    <3> QED
      BY <3>1, <3>2
  <2>2. CASE q \notin Updated(w)
    <3>1. CASE r \in Visible(v)
      BY <1>1, <1>4, <1>6, <2>0, <2>2, <3>1
    <3>2. CASE r \notin Visible(v)
      <4>1. r \in Visible(w) /\ r \notin db'
        BY <1>1, <1>3, <3>2
      <4>2. r[2] \in Updated(w)
        BY <1>1, <1>6, <4>1
      <4>3. r \in made[w]
        BY <1>1, <4>1, <4>2 DEF Visible
      <4>4. q \in Referenced(w)
        BY <1>6, <4>3 DEF Referenced
      <4>5. PubRow(q) \notin gone[v]
        BY <1>0, <4>4 DEF RefsHeld
      <4>6. PubRow(q) \in Visible(w)
        BY <1>4, <1>6, <4>1
      <4>7. PubRow(q) \notin made[w]
        BY <2>0, <2>2 DEF Updated
      <4>8. PubRow(q) \in db'
        BY <1>1, <4>5, <4>6, <4>7 DEF Visible
      <4> QED
        BY <1>1, <2>0, <2>2, <4>8
    <3> QED
      BY <3>1, <3>2
  <2> QED
    BY <2>1, <2>2
<1> QED
  BY <1>2, <1>5, <1>6, DanglingMeans DEF T

LEMMA CommitData ==
    ASSUME NEW v \in Writers, Data, Commit(v)
    PROVE  Data'
<1>0. TypeOK /\ Sound /\ LocksApart /\ RefsHeld /\ Rooted /\ Selected /\ Moves
  BY DEF Data
<1>1. /\ db' = Visible(v) /\ Over(v) /\ pc[v] = "commit"
      /\ doomed' = [w \in Writers |-> IF w = v THEN {} ELSE doomed[w] \ gone[v]]
      /\ meddled' = {w \in Writers \ {v} : pc[w] # "idle"}
      /\ placed' \subseteq Pubs
      /\ UNCHANGED <<begun, overlapped>>
  BY DEF Commit
<1>2. Visible(v)' = db'
  BY <1>0, <1>1, OverClears DEF Visible
<1>3. TypeOK'
  <2>1. db' \subseteq Rows /\ Dangling(db') = {}
    BY <1>0, <1>1, VisibleTyped DEF Sound
  <2>2. Dangling(db)' = Dangling(db')
    BY DEF Dangling, ValueRows, PubRow, Relation
  <2>3. doomed' \in [Writers -> SUBSET Rows]
    BY <1>0, <1>1 DEF TypeOK
  <2>4. \A w \in Writers : pc'[w] = "idle" =>
            made'[w] = {} /\ gone'[w] = {} /\ doomed'[w] = {} /\ roots'[w] = {}
    BY <1>0, <1>1, OverClears DEF TypeOK
  <2> QED
    BY <1>0, <1>1, <2>1, <2>2, <2>3, <2>4, OverClears DEF TypeOK
<1>4. Sound'
  <2>1. ASSUME NEW w \in Writers PROVE Dangling(Visible(w)') = {}
    BY <1>0, <1>1, <1>2, CommitSound DEF Sound
  <2>2. ASSUME NEW w \in Writers PROVE Dangling(Visible(w))' = Dangling(Visible(w)')
    BY DEF Dangling, ValueRows, PubRow, Relation, Visible
  <2> QED
    BY <2>1, <2>2 DEF Sound
<1>5. /\ \A w \in Writers \ {v} : /\ made'[w] = made[w] /\ gone'[w] = gone[w]
                                 /\ pc'[w] = pc[w] /\ op'[w] = op[w]
      /\ made'[v] = {} /\ gone'[v] = {} /\ pc'[v] = "idle"
  BY <1>0, <1>1, OverClears
<1>6. LocksApart' /\ RefsHeld'
  <2>1. \A w \in Writers \ {v} : Updated(w)' = Updated(w) /\ Referenced(w)' = Referenced(w)
    BY <1>5 DEF Updated, Referenced
  <2>2. Updated(v)' = {} /\ Referenced(v)' = {}
    BY <1>5 DEF Updated, Referenced
  <2>3. LocksApart'
    BY <1>0, <2>1, <2>2 DEF LocksApart
  <2>4. RefsHeld'
    BY <1>0, <1>5, <2>1, <2>2 DEF RefsHeld
  <2> QED
    BY <2>3, <2>4
<1>7. Rooted'
  <2>1. ASSUME NEW w \in Writers \ {v}, NEW r \in gone[w]
        PROVE  PubRow(r[2]) \in db' \union made[w] \union gone[w]
    <3>1. r[2] \in Pubs /\ r[2] \in Updated(w)
      BY <1>0, RowFacts DEF TypeOK, Updated
    <3>2. PubRow(r[2]) \in db <=> PubRow(r[2]) \in db'
      BY <1>1, <3>1, CommitSeen, PubRowFacts
    <3> QED
      BY <1>0, <3>2 DEF Rooted
  <2> QED
    BY <1>5, <2>1 DEF Rooted
<1>8. Selected' /\ Moves'
  <2>1. ASSUME NEW w \in Writers \ {v}, pc[w] = "unrelate"
        PROVE  /\ doomed'[w] \subseteq Visible(w)' \intersect ValueRows
               /\ \A r \in doomed'[w] : r[2] = op[w].pub
    <3>1. doomed'[w] = doomed[w] \ gone[v]
      BY <1>1
    <3>2. \A r \in Visible(w) : r \notin gone[v] => r \in Visible(w)'
      BY <1>1, <1>5 DEF Visible
    <3> QED
      BY <1>0, <2>1, <3>1, <3>2 DEF Selected
  <2>2. Selected'
    BY <1>5, <2>1 DEF Selected
  <2> QED
    BY <1>0, <1>5, <2>2 DEF Moves
<1> QED
  BY <1>3, <1>4, <1>6, <1>7, <1>8 DEF Data

LEMMA DataNext == Data /\ [Next]_vars => Data'
<1>1. SUFFICES ASSUME Data, [Next]_vars PROVE Data'
  OBVIOUS
<1>2. CASE UNCHANGED vars
  BY <1>1, <1>2 DEF vars, Data, TypeOK, Sound, LocksApart, RefsHeld, Rooted, Selected, Moves,
     Dangling, Visible, Updated, Referenced
<1>3. CASE Next
  <2>1. PICK w \in Writers : Begin(w) \/ Statement(w) \/ Commit(w) \/ Abort(w)
    BY <1>3 DEF Next, Statement
  <2> QED
    BY <1>1, <2>1, BeginData, StatementData, CommitData, AbortData
<1> QED
  BY <1>1, <1>2, <1>3

LEMMA DataAlways == Spec => []Data
  BY DataInit, DataNext, PTL DEF Spec

\* No row ever dangles: neither is a pub deleted under a relation that another
\* transaction adds, nor do two transactions together leave half of a cascade.
THEOREM TypeCorrect == Spec => []TypeOK
<1>1. Data => TypeOK
  BY DEF Data
<1> QED
  BY <1>1, DataAlways, PTL

-----------------------------------------------------------------------------
(* Stages *)

\* An operation with a stage moves before it does anything else to its pub.
LEMMA MovesFirst ==
    ASSUME NEW o, o.stage # Keep
    PROVE  /\ Following(o, "begin") \in {"create", "stage"}
           /\ Following(o, "create") = "stage"
  BY DEF Following

LEMMA StagedInit == Init => Staged
<1>1. SUFFICES ASSUME Init PROVE Staged
  OBVIOUS
<1>2. Data
  BY <1>1, DataInit
<1>3. \A w \in Writers : Visible(w) = db /\ pc[w] = "idle"
  BY <1>1 DEF Init, Visible
<1>4. \A r \in db : PubRow(r[2]) \in db
  BY <1>2, DanglingMeans DEF Data, TypeOK
<1>5. \A p \in placed : PubRow(p) \in db /\ HasStage(db, p)
  BY <1>1, <1>4, StageRowFacts DEF Init, InStage, HasStage
<1>6. \A p \in Pubs \ overlapped : OneAtMost(db, p)
  BY <1>1 DEF Init, InTwoStages, OneAtMost
<1> QED
  BY <1>3, <1>5, <1>6 DEF Staged, PlacedAre, Entered, OneSeen, Fresh

\* Only a create inserts pubs.
LEMMA NewPubs ==
    ASSUME NEW w \in Writers, Data, NEW p \in Pubs, PubRow(p) \in Inserted(w)
    PROVE  pc[w] = "create"
<1>0. op[w].pub \in Pubs /\ op[w].relate \subseteq Pubs \union {Plain}
      /\ op[w].stage \in Stages \union {Keep, NoStage}
  BY OpTyped DEF Data, TypeOK
<1>1. CASE pc[w] = "moving"
  BY <1>0, <1>1, PubRowFacts, StageRowFacts DEF Inserted, Data, Moves
<1>2. CASE pc[w] = "relate"
  <2>1. Inserted(w) = {Relation(op[w].pub, q) : q \in op[w].relate}
    BY <1>2 DEF Inserted
  <2> QED
    BY <1>0, <2>1, PubRowFacts, ValueRowFacts
<1> QED
  BY <1>1, <1>2 DEF Inserted

\* A statement that is no move gives no pub a stage, and takes its stages only
\* from a pub that it deletes.
LEMMA OthersKeepStages ==
    ASSUME NEW w \in Writers, Data, Statement(w), pc[w] # "moving", NEW p \in Pubs
    PROVE  /\ \A s \in Stages : StageRow(p, s) \in Visible(w)' => StageRow(p, s) \in Visible(w)
           /\ PubRow(p) \in Visible(w)' =>
                  \A s \in Stages : StageRow(p, s) \in Visible(w) => StageRow(p, s) \in Visible(w)'
<1> DEFINE L == Deleted(w)
           E == Inserted(w)
<1>1. Visible(w)' = (Visible(w) \ L) \union E
  BY StatementWrites, WritesSeen DEF Data
<1>2. E \intersect StageRows = {}
  <2>1. pc[w] = "create" => E \subseteq PubRows
    BY PubRowFacts, OpTyped DEF Inserted, Data, TypeOK
  <2>2. pc[w] = "relate" => E \subseteq ValueRows
    <3>1. op[w].pub \in Pubs /\ op[w].relate \subseteq Pubs \union {Plain}
      BY OpTyped DEF Data, TypeOK
    <3>2. pc[w] = "relate" => E = {Relation(op[w].pub, q) : q \in op[w].relate}
      BY DEF Inserted
    <3> QED
      BY <3>1, <3>2, ValueRowFacts
  <2> QED
    BY <2>1, <2>2, StageRowFacts DEF Inserted
<1>3. \A s \in Stages : StageRow(p, s) \in L => PubRow(p) \in L \/ PubRow(p) \notin Visible(w)
  <2>1. SUFFICES ASSUME NEW s \in Stages, StageRow(p, s) \in L, PubRow(p) \in Visible(w)
                 PROVE  PubRow(p) \in L
    OBVIOUS
  <2>2. pc[w] = "delete"
    BY <2>1, StageRowFacts DEF Deleted, Data, Selected
  <2> QED
    BY <2>1, <2>2, StageRowFacts, PubRowFacts DEF Deleted, Cascade
<1>4. PubRow(p) \in E => PubRow(p) \notin Visible(w)
  <2>1. pc[w] = "create" => E = IF Exists(w, op[w].pub) THEN {} ELSE {PubRow(op[w].pub)}
    BY DEF Inserted
  <2>2. PubRow(p) \in E => pc[w] = "create"
    BY NewPubs
  <2> QED
    BY <2>1, <2>2 DEF Exists
<1>5. \A s \in Stages : StageRow(p, s) \in Visible(w) => PubRow(p) \in Visible(w)
  BY SeenWhole, StageRowFacts DEF Data
<1> HIDE DEF L, E
<1> QED
  BY <1>1, <1>2, <1>3, <1>4, <1>5, StageRowFacts

\* A move leaves its pub in its stage alone, if the move has seen all there are.
LEMMA MoveStages ==
    ASSUME NEW w \in Writers, Data, Statement(w), pc[w] = "moving", NEW p \in Pubs
    PROVE  /\ PubRow(p) \in Visible(w)' <=> PubRow(p) \in Visible(w)
           /\ p # op[w].pub =>
                  \A s \in Stages : StageRow(p, s) \in Visible(w)' <=> StageRow(p, s) \in Visible(w)
           /\ p = op[w].pub /\ op[w].stage \in Stages => StageRow(p, op[w].stage) \in Visible(w)'
           /\ p \notin overlapped' =>
                  \/ \A s \in Stages : StageRow(p, s) \in Visible(w)' <=> StageRow(p, s) \in Visible(w)
                  \/ \A s \in Stages : StageRow(p, s) \in Visible(w)' => s = op[w].stage
<1> DEFINE L == Deleted(w)
           E == Inserted(w)
           there == {r \in Visible(w) \intersect StageRows : r[2] = op[w].pub}
<1>1. Visible(w)' = (Visible(w) \ L) \union E
  BY StatementWrites, WritesSeen DEF Data
<1>2. Move(w)
  BY StatementAt
<1>3. L = doomed[w] \intersect there
  BY DEF Deleted, Left
<1>4. E = IF op[w].stage = NoStage THEN {} ELSE {StageRow(op[w].pub, op[w].stage)}
  BY DEF Inserted
<1>5. op[w].pub \in Pubs /\ op[w].stage \in Stages \union {NoStage} /\ NoStage \notin Stages
  BY OpTyped, PubOpsAssumption DEF Data, TypeOK, Moves
<1>6. overlapped' = IF there \subseteq doomed[w] THEN overlapped ELSE overlapped \union {op[w].pub}
  BY <1>2 DEF Move
<1>7. L \subseteq StageRows /\ E \subseteq StageRows /\ \A r \in L \union E : r[2] = op[w].pub
  BY <1>3, <1>4, <1>5, StageRowFacts
<1>8. PubRow(p) \in Visible(w)' <=> PubRow(p) \in Visible(w)
  BY <1>1, <1>7, PubRowFacts
<1>9. p # op[w].pub =>
         \A s \in Stages : StageRow(p, s) \in Visible(w)' <=> StageRow(p, s) \in Visible(w)
  BY <1>1, <1>7, StageRowFacts
<1>10. p = op[w].pub /\ op[w].stage \in Stages => StageRow(p, op[w].stage) \in Visible(w)'
  BY <1>1, <1>4, <1>5
<1>11. ASSUME p \notin overlapped', p = op[w].pub
       PROVE  \A s \in Stages : StageRow(p, s) \in Visible(w)' => s = op[w].stage
  <2>1. L = there
    BY <1>3, <1>6, <1>11
  <2>2. \A s \in Stages : StageRow(p, s) \in Visible(w) => StageRow(p, s) \in L
    BY <1>11, <2>1, StageRowFacts
  <2>3. \A s \in Stages : StageRow(p, s) \in E => s = op[w].stage
    BY <1>4, <1>5, <1>11, StageRowFacts
  <2> HIDE DEF L, E
  <2> QED
    BY <1>1, <2>2, <2>3
<1> QED
  BY <1>8, <1>9, <1>10, <1>11

LEMMA HasStageKept ==
    ASSUME NEW S, NEW T, NEW p, HasStage(S, p),
           \A s \in Stages : StageRow(p, s) \in S => StageRow(p, s) \in T
    PROVE  HasStage(T, p)
  BY DEF HasStage

LEMMA StatementStaged ==
    ASSUME NEW w \in Writers, Data, Staged, Statement(w)
    PROVE  Staged'
<1>0. TypeOK /\ PlacedAre /\ Entered /\ OneSeen /\ Fresh
  BY DEF Data, Staged
<1>1. /\ db' = db /\ op' = op /\ placed' = placed /\ overlapped \subseteq overlapped'
      /\ \A v \in Writers \ {w} : /\ Visible(v)' = Visible(v) /\ made'[v] = made[v]
                                 /\ gone'[v] = gone[v] /\ pc'[v] = pc[v]
  BY <1>0, StatementWrites, StatementKeeps, StatementStops, WritesSeen DEF Writes, Stops
<1>2. \A v \in Writers \ {w} : Updated(v)' = Updated(v)
  BY <1>1 DEF Updated
<1>3. op[w].pub \in Pubs /\ op[w].stage \in Stages \union {Keep, NoStage} /\ placed \subseteq Pubs
  BY <1>0, OpTyped DEF TypeOK
<1>4. \A p, S : HasStage(S, p)' = HasStage(S', p)
  BY DEF HasStage, StageRow
<1>5. PlacedAre'
  <2>1. ASSUME NEW p \in placed, PubRow(p) \in Visible(w)',
               ~(p = op[w].pub /\ op[w].stage = NoStage)
        PROVE  HasStage(Visible(w)', p)
    <3>1. p \in Pubs /\ PubRow(p) \in db
      BY <1>0, <1>3 DEF PlacedAre
    <3>2. CASE pc[w] = "moving"
      <4>1. PubRow(p) \in Visible(w)
        BY <2>1, <3>1, <3>2, MoveStages
      <4>2. HasStage(Visible(w), p)
        BY <1>0, <2>1, <4>1 DEF PlacedAre
      <4>3. CASE p = op[w].pub
        <5>1. op[w].stage \in Stages
          BY <1>3, <2>1, <3>2, <4>3 DEF Data, Moves
        <5>2. StageRow(p, op[w].stage) \in Visible(w)'
          BY <3>1, <3>2, <4>3, <5>1, MoveStages
        <5> QED
          BY <5>1, <5>2 DEF HasStage
      <4>4. CASE p # op[w].pub
        <5>1. \A s \in Stages : StageRow(p, s) \in Visible(w) => StageRow(p, s) \in Visible(w)'
          BY <3>1, <3>2, <4>4, MoveStages
        <5> QED
          BY <4>2, <5>1, HasStageKept
      <4> QED
        BY <4>3, <4>4
    <3>3. CASE pc[w] # "moving"
      <4>1. PubRow(p) \in Visible(w)
        <5>1. Visible(w)' = (Visible(w) \ Deleted(w)) \union Inserted(w)
          BY <1>0, StatementWrites, WritesSeen
        <5>2. PubRow(p) \in Inserted(w) => pc[w] = "create"
          BY <3>1, NewPubs
        <5>3. pc[w] = "create" => Visible(w) = db
          BY <1>0 DEF Fresh, Visible
        <5> QED
          BY <2>1, <3>1, <5>1, <5>2, <5>3
      <4>2. HasStage(Visible(w), p)
        BY <1>0, <2>1, <4>1 DEF PlacedAre
      <4>3. \A s \in Stages : StageRow(p, s) \in Visible(w) => StageRow(p, s) \in Visible(w)'
        BY <2>1, <3>1, <3>3, OthersKeepStages
      <4> QED
        BY <4>2, <4>3, HasStageKept
    <3> QED
      BY <3>2, <3>3
  <2>2. ASSUME NEW v \in Writers, NEW p \in placed, PubRow(p) \in Visible(v)',
               ~(p = op[v].pub /\ op[v].stage = NoStage)
        PROVE  HasStage(Visible(v)', p)
    <3>1. CASE v = w
      BY <2>1, <2>2, <3>1
    <3>2. CASE v # w
      BY <1>0, <1>1, <2>2, <3>2 DEF PlacedAre
    <3> QED
      BY <3>1, <3>2
  <2>3. \A p : PubRow(p)' = PubRow(p)
    BY DEF PubRow
  <2>4. \A v \in Writers : \A p : HasStage(Visible(v), p)' = HasStage(Visible(v)', p)
    BY DEF HasStage, StageRow
  <2>5. \A p : HasStage(db, p)' = HasStage(db, p)
    BY <1>1 DEF HasStage, StageRow
  <2> QED
    BY <1>0, <1>1, <2>2, <2>3, <2>4, <2>5 DEF PlacedAre
<1>6. Entered'
  <2> DEFINE Later == {"find", "unrelate", "orphans", "delete", "relate", "commit"}
             p == op[w].pub
  <2>1. ASSUME op[w].stage \in Stages, pc'[w] \in Later
        PROVE  /\ p \in Updated(w)'
               /\ PubRow(p) \in Visible(w)' => HasStage(Visible(w)', p)
    <3>1. CASE pc[w] = "moving"
      <4>1. StageRow(p, op[w].stage) \in Visible(w)'
        BY <1>3, <2>1, <3>1, MoveStages
      <4>2. StageRow(p, op[w].stage) \in Inserted(w)
        BY <1>3, <2>1, <3>1, PubOpsAssumption DEF Inserted
      <4>3. Inserted(w) \subseteq made'[w]
        BY <1>0, StatementWrites, WritesSeen
      <4>4. p \in Updated(w)'
        BY <1>3, <2>1, <4>2, <4>3, StageRowFacts DEF Updated
      <4> QED
        BY <2>1, <4>1, <4>4 DEF HasStage
    <3>2. CASE pc[w] \in Later
      <4>1. p \in Updated(w) /\ (PubRow(p) \in Visible(w) => HasStage(Visible(w), p))
        BY <1>0, <2>1, <3>2 DEF Entered
      <4>2. made[w] \union gone[w] \subseteq made'[w] \union gone'[w]
        <5>1. made'[w] = (made[w] \ Deleted(w)) \union Inserted(w)
              /\ gone'[w] = gone[w] \union Deleted(w)
          BY <1>0, StatementWrites, WritesSeen
        <5> QED
          BY <5>1
      <4>3. p \in Updated(w)'
        BY <4>1, <4>2 DEF Updated
      <4>4. ASSUME PubRow(p) \in Visible(w)'
            PROVE  HasStage(Visible(w)', p)
        <5>1. PubRow(p) \in Visible(w)
          <6>1. Visible(w)' = (Visible(w) \ Deleted(w)) \union Inserted(w)
            BY <1>0, StatementWrites, WritesSeen
          <6>2. PubRow(p) \notin Inserted(w)
            BY <1>3, <3>2, NewPubs
          <6> QED
            BY <4>4, <6>1, <6>2
        <5>2. \A s \in Stages : StageRow(p, s) \in Visible(w) => StageRow(p, s) \in Visible(w)'
          BY <1>3, <3>2, <4>4, OthersKeepStages
        <5> QED
          BY <4>1, <5>1, <5>2, HasStageKept
      <4> QED
        BY <4>3, <4>4
    <3>3. pc[w] # "create" /\ pc[w] # "stage"
      <4>1. pc[w] = "create" => pc'[w] = "stage"
        BY <1>0, <2>1, StatementAt, ProceedGoes, MovesFirst, PubOpsAssumption DEF Create
      <4>2. pc[w] = "stage" => pc'[w] = "moving"
        BY <1>0, StatementAt DEF StartMove, Goto, TypeOK
      <4> QED
        BY <2>1, <4>1, <4>2
    <3>4. pc[w] \notin {"idle", "commit"}
      BY StatementAt
    <3> QED
      BY <1>0, <3>1, <3>2, <3>3, <3>4 DEF TypeOK
  <2>2. \A v \in Writers : \A q : HasStage(Visible(v), q)' = HasStage(Visible(v)', q)
    BY DEF HasStage, StageRow
  <2>3. \A q : PubRow(q)' = PubRow(q)
    BY DEF PubRow
  <2>4. ASSUME NEW v \in Writers, op[v].stage \in Stages, pc'[v] \in Later
        PROVE  /\ op[v].pub \in Updated(v)'
               /\ PubRow(op[v].pub) \in Visible(v)' => HasStage(Visible(v)', op[v].pub)
    <3>1. CASE v = w
      BY <2>1, <2>4, <3>1
    <3>2. CASE v # w
      BY <1>0, <1>1, <1>2, <2>4, <3>2 DEF Entered
    <3> QED
      BY <3>1, <3>2
  <2> QED
    BY <1>1, <2>2, <2>3, <2>4 DEF Entered
<1>7. OneSeen'
  <2>1. ASSUME NEW p \in Pubs \ overlapped'
        PROVE  OneAtMost(Visible(w)', p)
    <3>1. OneAtMost(Visible(w), p)
      BY <1>0, <1>1, <2>1 DEF OneSeen
    <3>2. CASE pc[w] = "moving"
      <4>1. \/ \A s \in Stages : StageRow(p, s) \in Visible(w)' <=> StageRow(p, s) \in Visible(w)
            \/ \A s \in Stages : StageRow(p, s) \in Visible(w)' => s = op[w].stage
        BY <2>1, <3>2, MoveStages
      <4> QED
        BY <3>1, <4>1 DEF OneAtMost
    <3>3. CASE pc[w] # "moving"
      <4>1. \A s \in Stages : StageRow(p, s) \in Visible(w)' => StageRow(p, s) \in Visible(w)
        BY <2>1, <3>3, OthersKeepStages
      <4> QED
        BY <3>1, <4>1 DEF OneAtMost
    <3> QED
      BY <3>2, <3>3
  <2>2. \A v \in Writers : \A q : OneAtMost(Visible(v), q)' = OneAtMost(Visible(v)', q)
    BY DEF OneAtMost, StageRow
  <2>3. \A q : OneAtMost(db, q)' = OneAtMost(db, q)
    BY <1>1 DEF OneAtMost, StageRow
  <2>4. ASSUME NEW p \in Pubs \ overlapped', NEW v \in Writers
        PROVE  OneAtMost(Visible(v)', p)
    BY <1>0, <1>1, <2>1 DEF OneSeen
  <2> QED
    BY <1>0, <1>1, <2>2, <2>3, <2>4 DEF OneSeen
<1>8. Fresh'
  BY <1>0, <1>1, StatementStops DEF Fresh, Stops
<1> QED
  BY <1>5, <1>6, <1>7, <1>8 DEF Staged

LEMMA BeginStaged ==
    ASSUME NEW w \in Writers, Data, Staged, Begin(w)
    PROVE  Staged'
<1>0. TypeOK /\ PlacedAre /\ Entered /\ OneSeen /\ Fresh
  BY DEF Data, Staged
<1>1. UNCHANGED <<db, made, gone, placed, overlapped>> /\ pc[w] = "idle"
  BY DEF Begin, transaction, ghosts
<1>2. PICK o \in Ops : op' = [op EXCEPT ![w] = o]
                       /\ pc' = [pc EXCEPT ![w] = Following(o, "begin")]
  BY DEF Begin, Goto
<1>3. /\ \A v \in Writers \ {w} : pc'[v] = pc[v] /\ op'[v] = op[v]
      /\ op'[w] = o /\ pc'[w] = Following(o, "begin")
  BY <1>0, <1>2 DEF TypeOK
<1>4. Visible(w) = db /\ made[w] = {} /\ gone[w] = {}
  BY <1>0, <1>1 DEF TypeOK, Visible
<1>5. PlacedAre'
  BY <1>0, <1>1, <1>3, <1>4 DEF PlacedAre, Visible, HasStage
<1>6. Entered'
  <2>1. o.stage \in Stages => pc'[w] \in {"create", "stage"}
    BY <1>3, MovesFirst, PubOpsAssumption
  <2> QED
    BY <1>0, <1>1, <1>3, <2>1 DEF Entered, Visible, HasStage, Updated
<1>7. OneSeen'
  BY <1>0, <1>1 DEF OneSeen, Visible, OneAtMost
<1>8. Fresh'
  BY <1>0, <1>1, <1>3, <1>4 DEF Fresh
<1> QED
  BY <1>5, <1>6, <1>7, <1>8 DEF Staged

LEMMA AbortStaged ==
    ASSUME NEW w \in Writers, Data, Staged, Abort(w)
    PROVE  Staged'
<1>0. TypeOK /\ PlacedAre /\ Entered /\ OneSeen /\ Fresh
  BY DEF Data, Staged
<1>1. UNCHANGED <<db, placed, overlapped>> /\ Over(w)
  BY DEF Abort
<1>2. /\ \A v \in Writers \ {w} : /\ pc'[v] = pc[v] /\ op'[v] = op[v]
                                 /\ made'[v] = made[v] /\ gone'[v] = gone[v]
      /\ pc'[w] = "idle" /\ made'[w] = {} /\ gone'[w] = {}
  BY <1>0, <1>1, OverClears
<1>3. Visible(w)' = db /\ \A v \in Writers \ {w} : Visible(v)' = Visible(v) /\ Updated(v)' = Updated(v)
  BY <1>1, <1>2 DEF Visible, Updated
<1>4. \A v \in Writers : \A p :
          /\ HasStage(Visible(v), p)' = HasStage(Visible(v)', p)
          /\ OneAtMost(Visible(v), p)' = OneAtMost(Visible(v)', p)
          /\ HasStage(db, p)' = HasStage(db, p)
          /\ OneAtMost(db, p)' = OneAtMost(db, p)
          /\ PubRow(p)' = PubRow(p)
  BY <1>1 DEF HasStage, OneAtMost, StageRow, PubRow
<1>5. PlacedAre'
  <2>1. \A p \in placed : PubRow(p)' \in db' /\ HasStage(db, p)'
    BY <1>0, <1>1 DEF PlacedAre, PubRow, HasStage, StageRow
  <2>2. ASSUME NEW v \in Writers, NEW p \in placed,
               PubRow(p) \in Visible(v)', ~(p = op'[v].pub /\ op'[v].stage = NoStage)
        PROVE  HasStage(Visible(v)', p)
    <3>1. CASE v = w
      BY <1>0, <1>3, <3>1 DEF PlacedAre
    <3>2. CASE v # w
      BY <1>0, <1>2, <1>3, <2>2, <3>2 DEF PlacedAre
    <3> QED
      BY <3>1, <3>2
  <2> QED
    BY <1>1, <1>4, <2>1, <2>2 DEF PlacedAre
<1>6. Entered'
  BY <1>0, <1>2, <1>3, <1>4 DEF Entered
<1>7. OneSeen'
  <2>1. ASSUME NEW p \in Pubs \ overlapped
        PROVE  OneAtMost(db, p) /\ \A v \in Writers : OneAtMost(Visible(v)', p)
    BY <1>0, <1>3 DEF OneSeen
  <2>2. \A p \in Pubs : OneAtMost(db, p)' = OneAtMost(db, p)
    BY <1>1 DEF OneAtMost, StageRow
  <2> QED
    BY <1>1, <1>4, <2>1, <2>2 DEF OneSeen
<1>8. Fresh'
  BY <1>0, <1>2 DEF Fresh
<1> QED
  BY <1>5, <1>6, <1>7, <1>8 DEF Staged

LEMMA CommitStaged ==
    ASSUME NEW v \in Writers, Data, Staged, Commit(v)
    PROVE  Staged'
<1>0. TypeOK /\ PlacedAre /\ Entered /\ OneSeen /\ Fresh
  BY DEF Data, Staged
<1> DEFINE o == op[v]
<1>1. /\ db' = Visible(v) /\ Over(v) /\ pc[v] = "commit" /\ overlapped' = overlapped
      /\ placed' = {p \in Pubs :
             /\ PubRow(p) \in db'
             /\ \/ p # o.pub /\ p \in placed
                \/ p = o.pub /\ o.stage \in Stages
                \/ p = o.pub /\ o.stage = Keep /\ p \in placed}
  BY DEF Commit
<1>2. /\ \A w \in Writers \ {v} : /\ pc'[w] = pc[w] /\ op'[w] = op[w]
                                 /\ made'[w] = made[w] /\ gone'[w] = gone[w]
                                 /\ Updated(w)' = Updated(w)
      /\ pc'[v] = "idle" /\ made'[v] = {} /\ gone'[v] = {} /\ Visible(v)' = db'
  BY <1>0, <1>1, OverClears DEF Updated, Visible
<1>3. \A w \in Writers \ {v} :
         /\ \A r : r[2] \in Updated(w) => (r \in Visible(w)' <=> r \in Visible(w))
         /\ \A r : r[2] \notin Updated(w) => (r \in Visible(w)' <=> r \in db')
         /\ \A r : r[2] \in Updated(w) => (r \in db' <=> r \in db)
  BY CommitSeen
<1>4. Keep \notin Stages /\ NoStage \notin Stages /\ Keep # NoStage /\ o.pub \in Pubs
      /\ o.stage \in Stages \union {Keep, NoStage}
  BY <1>0, OpTyped, PubOpsAssumption DEF TypeOK
<1>5. ASSUME NEW p \in placed'
      PROVE  p \in Pubs /\ PubRow(p) \in db' /\ HasStage(db', p)
  <2>1. p \in Pubs /\ PubRow(p) \in Visible(v)
    BY <1>1
  <2>2. CASE p = o.pub /\ o.stage \in Stages
    BY <1>0, <1>1, <2>1, <2>2 DEF Entered
  <2>3. CASE p \in placed /\ ~(p = o.pub /\ o.stage = NoStage)
    BY <1>0, <1>1, <2>1, <2>3 DEF PlacedAre
  <2> QED
    BY <1>1, <1>4, <2>1, <2>2, <2>3, PubOpsAssumption
\* Who has put a pub into a stage has the rows of that pub.
<1>6. ASSUME NEW w \in Writers \ {v}, NEW p \in placed', p \in Updated(w)
      PROVE  p \in placed
  <2>1. CASE p = o.pub /\ o.stage \in Stages
    <3>1. p \in Updated(v)
      BY <1>0, <1>1, <2>1 DEF Entered
    <3> QED
      BY <1>6, <3>1 DEF Data, LocksApart
  <2> QED
    BY <1>1, <2>1
<1>7. ASSUME NEW w \in Writers \ {v}, NEW p \in Pubs, p \in Updated(w)
      PROVE  /\ PubRow(p) \in Visible(w)' <=> PubRow(p) \in Visible(w)
             /\ \A s \in Stages : StageRow(p, s) \in Visible(w)' <=> StageRow(p, s) \in Visible(w)
  BY <1>3, <1>7, PubRowFacts, StageRowFacts
<1>8. ASSUME NEW w \in Writers \ {v}, NEW p \in Pubs, p \notin Updated(w)
      PROVE  /\ PubRow(p) \in Visible(w)' <=> PubRow(p) \in db'
             /\ \A s \in Stages : StageRow(p, s) \in Visible(w)' <=> StageRow(p, s) \in db'
  BY <1>3, <1>8, PubRowFacts, StageRowFacts
<1>9. \A w \in Writers : \A p :
          /\ HasStage(Visible(w), p)' = HasStage(Visible(w)', p)
          /\ OneAtMost(Visible(w), p)' = OneAtMost(Visible(w)', p)
          /\ PubRow(p)' = PubRow(p)
  BY DEF HasStage, OneAtMost, StageRow, PubRow
<1>10. \A p : HasStage(db, p)' = HasStage(db', p) /\ OneAtMost(db, p)' = OneAtMost(db', p)
              /\ PubRow(p)' = PubRow(p)
  BY DEF HasStage, OneAtMost, StageRow, PubRow
<1>11. PlacedAre'
  <2>1. ASSUME NEW w \in Writers, NEW p \in placed', PubRow(p) \in Visible(w)',
               ~(p = op'[w].pub /\ op'[w].stage = NoStage)
        PROVE  HasStage(Visible(w)', p)
    <3>0. p \in Pubs /\ HasStage(db', p)
      BY <1>5
    <3>1. CASE w = v
      BY <1>2, <3>0, <3>1
    <3>2. CASE w # v /\ p \in Updated(w)
      <4>1. HasStage(Visible(w), p)
        BY <1>0, <1>2, <1>6, <1>7, <2>1, <3>0, <3>2 DEF PlacedAre
      <4> QED
        BY <1>7, <3>0, <3>2, <4>1, HasStageKept
    <3>3. CASE w # v /\ p \notin Updated(w)
      BY <1>8, <3>0, <3>3, HasStageKept
    <3> QED
      BY <3>1, <3>2, <3>3
  <2> QED
    BY <1>5, <1>9, <1>10, <2>1 DEF PlacedAre
<1>12. Entered'
  <2>1. ASSUME NEW w \in Writers, op'[w].stage \in Stages,
               pc'[w] \in {"find", "unrelate", "orphans", "delete", "relate", "commit"}
        PROVE  /\ op'[w].pub \in Updated(w)'
               /\ PubRow(op'[w].pub) \in Visible(w)' => HasStage(Visible(w)', op'[w].pub)
    <3> DEFINE p == op[w].pub
    <3>1. w # v /\ op'[w] = op[w] /\ pc'[w] = pc[w]
      BY <1>2, <2>1
    <3>2. p \in Updated(w) /\ (PubRow(p) \in Visible(w) => HasStage(Visible(w), p))
      BY <1>0, <2>1, <3>1 DEF Entered
    <3>3. p \in Pubs
      BY <1>0, OpTyped DEF TypeOK
    <3>4. PubRow(p) \in Visible(w)' => HasStage(Visible(w)', p)
      BY <1>7, <3>1, <3>2, <3>3, HasStageKept
    <3> QED
      BY <1>2, <3>1, <3>2, <3>4
  <2> QED
    BY <1>9, <2>1 DEF Entered
<1>13. OneSeen'
  <2>1. ASSUME NEW p \in Pubs \ overlapped PROVE OneAtMost(db', p)
    BY <1>0, <1>1 DEF OneSeen
  <2>2. ASSUME NEW p \in Pubs \ overlapped, NEW w \in Writers PROVE OneAtMost(Visible(w)', p)
    <3>1. CASE w = v
      BY <1>2, <2>1, <3>1
    <3>2. CASE w # v /\ p \in Updated(w)
      <4>1. OneAtMost(Visible(w), p)
        BY <1>0 DEF OneSeen
      <4> QED
        BY <1>7, <3>2, <4>1 DEF OneAtMost
    <3>3. CASE w # v /\ p \notin Updated(w)
      BY <1>8, <2>1, <3>3 DEF OneAtMost
    <3> QED
      BY <3>1, <3>2, <3>3
  <2> QED
    BY <1>1, <1>9, <1>10, <2>1, <2>2 DEF OneSeen
<1>14. Fresh'
  BY <1>0, <1>2 DEF Fresh
<1> QED
  BY <1>11, <1>12, <1>13, <1>14 DEF Staged

LEMMA StagedNext == Data /\ Staged /\ [Next]_vars => Staged'
<1>1. SUFFICES ASSUME Data, Staged, [Next]_vars PROVE Staged'
  OBVIOUS
<1>2. CASE UNCHANGED vars
  BY <1>1, <1>2 DEF vars, Staged, PlacedAre, Entered, OneSeen, Fresh, Visible, Updated,
     HasStage, OneAtMost
<1>3. CASE Next
  <2>1. PICK w \in Writers : Begin(w) \/ Statement(w) \/ Commit(w) \/ Abort(w)
    BY <1>3 DEF Next, Statement
  <2> QED
    BY <1>1, <2>1, BeginStaged, StatementStaged, CommitStaged, AbortStaged
<1> QED
  BY <1>1, <1>2, <1>3

LEMMA StagedAlways == Spec => []Staged
  BY DataInit, StagedInit, DataNext, StagedNext, PTL DEF Spec

\* A pub that was last put into a stage is in one, and in no second one unless
\* two of its moves overlapped: whatever other transactions do to the pub, its
\* values and its stages in the meantime.
THEOREM PubsAreInOneStage == Spec => []OneStage
<1>1. Staged => OneStage
  <2>1. SUFFICES ASSUME Staged, NEW p \in Pubs, PubRow(p) \in db
                 PROVE  LET stages == {s \in Stages : StageRow(p, s) \in db}
                        IN  /\ p \in placed => stages # {}
                            /\ p \notin overlapped => \A s, t \in stages : s = t
    BY DEF OneStage
  <2>2. p \in placed => \E s \in Stages : StageRow(p, s) \in db
    BY <2>1 DEF Staged, PlacedAre, HasStage
  <2>3. p \notin overlapped => \A s, t \in Stages : StageRow(p, s) \in db /\ StageRow(p, t) \in db => s = t
    BY <2>1 DEF Staged, OneSeen, OneAtMost
  <2> QED
    BY <2>2, <2>3
<1> QED
  BY <1>1, StagedAlways, PTL

-----------------------------------------------------------------------------
(* Orphans *)

\* Down(E, F) is the least set of pubs around F that E does not lead out of.
LEMMA DownContains ==
    ASSUME NEW E, NEW F, F \subseteq Pubs
    PROVE  F \subseteq Down(E, F)
  BY DEF Down

LEMMA DownClosed ==
    ASSUME NEW E, NEW F, NEW e \in E, e[1] \in Down(E, F), e[2] \in Pubs
    PROVE  e[2] \in Down(E, F)
  BY DEF Down

LEMMA DownLeast ==
    ASSUME NEW E, NEW F, NEW C \in SUBSET Pubs, F \subseteq C,
           \A e \in E : e[1] \in C => e[2] \in C
    PROVE  Down(E, F) \subseteq C
  BY DEF Down

\* The edges are the relations.
LEMMA RelatedFacts ==
    ASSUME NEW S
    PROVE  /\ \A e \in Related(S) : /\ e[1] \in Pubs /\ e[2] \in Pubs
                                    /\ \E r \in S \intersect ValueRows : r[2] = e[1] /\ r[3] = e[2]
           /\ \A r \in S \intersect ValueRows : r[3] # Plain =>
                  \E e \in Related(S) : e[1] = r[2] /\ e[2] = r[3]
<1>1. ASSUME NEW e \in Related(S)
      PROVE  /\ e[1] \in Pubs /\ e[2] \in Pubs
             /\ \E r \in S \intersect ValueRows : r[2] = e[1] /\ r[3] = e[2]
  <2>1. PICK r \in S \intersect ValueRows : r[3] # Plain /\ e = <<r[2], r[3]>>
    BY DEF Related
  <2>2. r[2] \in Pubs /\ r[3] \in Pubs
    BY <2>1, ValueRowFacts
  <2> QED
    BY <2>1, <2>2
<1>2. ASSUME NEW r \in S \intersect ValueRows, r[3] # Plain
      PROVE  \E e \in Related(S) : e[1] = r[2] /\ e[2] = r[3]
  <2>1. <<r[2], r[3]>> \in Related(S)
    BY <1>2 DEF Related
  <2> QED
    BY <2>1
<1> QED
  BY <1>1, <1>2

\* A smaller database has no other edges.
LEMMA OrphansOfValues ==
    ASSUME NEW S, NEW T, NEW R, S \intersect ValueRows = T \intersect ValueRows
    PROVE  OrphanedPubs(S, R) = OrphanedPubs(T, R)
<1>1. Related(S) = Related(T)
  BY DEF Related
<1>2. AffectedPubs(S, R) = AffectedPubs(T, R)
  BY <1>1 DEF AffectedPubs
<1>3. SafePubs(S, R) = SafePubs(T, R)
  BY <1>1, <1>2 DEF SafePubs
<1> QED
  BY <1>1, <1>2, <1>3 DEF OrphanedPubs

\* The tree below the disconnected pubs consists of the affected pubs and of
\* those disconnected ones that have no values.
LEMMA TreeIs ==
    ASSUME NEW S, NEW R \in SUBSET Pubs
    PROVE  /\ AffectedPubs(S, R) \subseteq Down(Related(S), R)
           /\ \A p \in Down(Related(S), R) :
                  (\E r \in S \intersect ValueRows : r[2] = p) => p \in AffectedPubs(S, R)
           /\ \A e \in Related(S) : e[1] \in AffectedPubs(S, R) => e[2] \in AffectedPubs(S, R)
<1> DEFINE E == Related(S)
           V == {p \in R : \E r \in S \intersect ValueRows : r[2] = p}
           A == AffectedPubs(S, R)
           C == A \union (R \ V)
<1>0. A = Down(E, V) /\ A \subseteq Pubs
  BY DownTyped DEF AffectedPubs
<1>1. \A e \in E : /\ e[1] \in Pubs /\ e[2] \in Pubs
                   /\ \E r \in S \intersect ValueRows : r[2] = e[1]
  BY RelatedFacts
<1> HIDE DEF E, A
<1>2. \A e \in E : e[1] \in A => e[2] \in A
  BY <1>0, <1>1, DownClosed
<1>3. A \subseteq Down(E, R)
  <2>1. V \subseteq Down(E, R)
    BY DownContains
  <2>2. \A e \in E : e[1] \in Down(E, R) => e[2] \in Down(E, R)
    BY <1>1, DownClosed
  <2>3. Down(E, R) \in SUBSET Pubs
    BY DownTyped
  <2> QED
    BY <1>0, <2>1, <2>2, <2>3, DownLeast
<1>4. Down(E, R) \subseteq C
  <2>1. R \subseteq C
    BY <1>0, DownContains
  <2>2. \A e \in E : e[1] \in C => e[2] \in C
    BY <1>1, <1>2
  <2>3. C \in SUBSET Pubs
    BY <1>0
  <2> HIDE DEF C
  <2> QED
    BY <2>1, <2>2, <2>3, DownLeast
<1>5. \A p \in Down(E, R) : (\E r \in S \intersect ValueRows : r[2] = p) => p \in A
  BY <1>4
<1> QED
  BY <1>2, <1>3, <1>5 DEF E, A

\* The orphans lie in the tree and are related from nowhere else.
LEMMA OrphansBelow ==
    ASSUME NEW S, NEW R \in SUBSET Pubs
    PROVE  /\ OrphanedPubs(S, R) \subseteq Down(Related(S), R)
           /\ \A e \in Related(S) : e[2] \in OrphanedPubs(S, R) => e[1] \in Down(Related(S), R)
<1> DEFINE A == AffectedPubs(S, R)
           U == A \ SafePubs(S, R)
           E == {e \in Related(S) : e[1] \in U /\ e[2] \in U}
           F == {p \in R \intersect U : \E r \in S \intersect ValueRows : r[2] = p}
           O == OrphanedPubs(S, R)
<1>1. O = Down(E, F)
  BY DEF OrphanedPubs
<1>2. A \subseteq Pubs
  BY DownTyped DEF AffectedPubs
<1>3. O \subseteq U
  <2>1. F \subseteq U /\ U \in SUBSET Pubs /\ \A e \in E : e[1] \in U => e[2] \in U
    BY <1>2
  <2> HIDE DEF E, F, U, O
  <2> QED
    BY <1>1, <2>1, DownLeast
<1>4. \A e \in Related(S) : e[2] \in U => e[1] \in A
  BY DEF SafePubs
<1>5. A \subseteq Down(Related(S), R)
  BY TreeIs
<1> QED
  BY <1>3, <1>4, <1>5

\* The orphans hang from roots that are orphans, by relations of orphans.
LEMMA OrphansHang ==
    ASSUME NEW S, NEW R \in SUBSET Pubs
    PROVE  OrphanedPubs(S, R)
               \subseteq Down({e \in Related(S) : {e[1], e[2]} \subseteq OrphanedPubs(S, R)},
                              R \intersect OrphanedPubs(S, R))
<1> DEFINE U == AffectedPubs(S, R) \ SafePubs(S, R)
           E == {e \in Related(S) : e[1] \in U /\ e[2] \in U}
           F == {p \in R \intersect U : \E r \in S \intersect ValueRows : r[2] = p}
           O == OrphanedPubs(S, R)
           H == {e \in Related(S) : {e[1], e[2]} \subseteq O}
           X == Down(H, R \intersect O)
<1>1. O = Down(E, F) /\ O \subseteq Pubs /\ F \subseteq R
  BY DownTyped DEF OrphanedPubs
<1>2. X \subseteq O
  <2>1. \A e \in H : e[1] \in O => e[2] \in O
    OBVIOUS
  <2> HIDE DEF O, H
  <2> QED
    BY <1>1, <2>1, DownLeast
<1>3. F \subseteq X
  <2>1. F \subseteq R \intersect O
    <3> HIDE DEF E, F, O
    <3> QED
      BY <1>1, DownContains
  <2> HIDE DEF F, O, H
  <2> QED
    BY <1>1, <2>1, DownContains
<1>4. ASSUME NEW e \in E, e[1] \in X PROVE e[2] \in X
  <2>1. e[2] \in Pubs /\ e \in Related(S)
    BY RelatedFacts
  <2>2. e[1] \in O
    BY <1>2, <1>4
  <2>3. e[2] \in O
    <3> HIDE DEF E, F, O
    <3> QED
      BY <1>1, <1>4, <2>1, <2>2, DownClosed
  <2>4. e \in H
    BY <2>1, <2>2, <2>3
  <2> HIDE DEF H, O
  <2> QED
    BY <1>4, <2>1, <2>4, DownClosed
<1>5. X \in SUBSET Pubs
  BY <1>1, <1>2
<1>6. O \subseteq X
  <2> HIDE DEF E, F, O, X
  <2> QED
    BY <1>1, <1>3, <1>4, <1>5, DownLeast
<1> QED
  BY <1>6

\* What is left of the tree, and has values, can be reached from outside of it
\* when the orphans are gone.
LEMMA OthersReached ==
    ASSUME NEW S, NEW R \in SUBSET Pubs, NEW T, NEW P \in SUBSET Pubs,
           \A e \in Related(S) : e[1] \in P,
           \A r \in S \intersect ValueRows :
               r[2] \notin OrphanedPubs(S, R) /\ r[3] \notin OrphanedPubs(S, R) => r \in T,
           NEW p \in Down(Related(S), R), p \notin OrphanedPubs(S, R),
           \E r \in S \intersect ValueRows : r[2] = p
    PROVE  p \in Down(Related(T), P \ Down(Related(S), R))
<1> DEFINE A == AffectedPubs(S, R)
           Safe == SafePubs(S, R)
           U == A \ Safe
           E == {e \in Related(S) : e[1] \in U /\ e[2] \in U}
           V == {q \in R : \E r \in S \intersect ValueRows : r[2] = q}
           F == {q \in R \intersect U : \E r \in S \intersect ValueRows : r[2] = q}
           O == OrphanedPubs(S, R)
           outside == P \ Down(Related(S), R)
           C == Down(Related(T), outside)
<1>1. O = Down(E, F) /\ A = Down(Related(S), V) /\ A \subseteq Pubs /\ C \subseteq Pubs
  BY DownTyped DEF OrphanedPubs, AffectedPubs
<1>2. O \subseteq U /\ F \subseteq O
  <2>1. F \subseteq U /\ U \in SUBSET Pubs /\ \A e \in E : e[1] \in U => e[2] \in U
    BY <1>1
  <2> HIDE DEF E, F, U, O
  <2>2. O \subseteq U
    BY <1>1, <2>1, DownLeast
  <2>3. F \subseteq O
    BY <1>1, <2>1, DownContains
  <2> QED
    BY <2>2, <2>3
\* An edge between pubs that are no orphans is still there.
<1>3. ASSUME NEW e \in Related(S), e[1] \notin O, e[2] \notin O
      PROVE  e[1] \in C => e[2] \in C
  <2>1. PICK r \in S \intersect ValueRows : r[2] = e[1] /\ r[3] = e[2]
    BY RelatedFacts
  <2>2. e[2] \in Pubs /\ r \in T \intersect ValueRows /\ r[3] # Plain
    BY <1>3, <2>1, RelatedFacts, PubOpsAssumption
  <2>3. PICK f \in Related(T) : f[1] = e[1] /\ f[2] = e[2]
    BY <2>1, <2>2, RelatedFacts
  <2> QED
    BY <2>2, <2>3, DownClosed
<1>4. outside \subseteq C
  BY DownContains
\* A safe pub has a relation from outside of the tree.
<1>5. Safe \subseteq C
  <2>1. SUFFICES ASSUME NEW q \in Safe PROVE q \in C
    OBVIOUS
  <2>2. PICK e \in Related(S) : e[2] = q /\ e[1] \notin A
    BY <2>1 DEF SafePubs
  <2>3. e[1] \notin Down(Related(S), R)
    BY <2>2, RelatedFacts, TreeIs
  <2>4. e[1] \in outside
    BY <2>3
  <2>5. e[1] \notin O /\ e[2] \notin O
    BY <1>2, <2>1, <2>2
  <2> QED
    BY <1>3, <1>4, <2>2, <2>4, <2>5
<1>6. A \subseteq O \union C
  <2>1. V \subseteq A
    <3>1. V \subseteq Pubs
      OBVIOUS
    <3> HIDE DEF A, V
    <3> QED
      BY <1>1, <3>1, DownContains
  <2>2. V \subseteq O \union C
    BY <1>2, <1>5, <2>1
  <2>3. ASSUME NEW e \in Related(S), e[1] \in A /\ e[1] \in O \union C
        PROVE  e[2] \in A /\ e[2] \in O \union C
    <3>1. e[2] \in A
      BY <2>3, TreeIs
    <3>2. CASE e[2] \in Safe
      BY <1>5, <3>1, <3>2
    <3>3. CASE e[2] \notin Safe /\ e[1] \in O
      <4>1. e \in E /\ e[2] \in Pubs
        BY <1>1, <1>2, <3>1, <3>3
      <4> HIDE DEF E, O
      <4> QED
        BY <1>1, <3>1, <3>3, <4>1, DownClosed
    <3>4. CASE e[1] \notin O
      BY <1>3, <2>3, <3>1, <3>4
    <3> QED
      BY <3>2, <3>3, <3>4
  <2> DEFINE X == A \intersect (O \union C)
  <2>4. V \subseteq X /\ X \in SUBSET Pubs /\ \A e \in Related(S) : e[1] \in X => e[2] \in X
    BY <1>1, <2>1, <2>2, <2>3
  <2>5. A \subseteq X
    <3> HIDE DEF X, A, V
    <3> QED
      BY <1>1, <2>4, DownLeast
  <2> QED
    BY <2>5
<1>7. p \in A
  BY TreeIs
<1> QED
  BY <1>6, <1>7

-----------------------------------------------------------------------------
(* The clean-up *)

\* An operation that removes relations goes through every statement of the
\* clean-up, and adds its values after it.
LEMMA CutFollows ==
    ASSUME NEW o \in Op, o.unrelate # {}
    PROVE  /\ Following(o, "begin") \in {"create", "stage", "find"}
           /\ Following(o, "create") \in {"stage", "find"}
           /\ Following(o, "moving") = "find"
           /\ \A s \in {"find", "unrelate", "orphans", "delete", "relate"} :
                  Following(o, s) \in {"relate", "commit"}
<1>1. ~o.delete
  BY OpTyped
<1> QED
  BY <1>1 DEF Following

\* What the clean-up is about is a matter of the committed rows and of the
\* operation.
LEMMA OrphansPrimed ==
    ASSUME NEW w
    PROVE  Orphans(w)' = OrphanedPubs(db' \ Cut(w)', Roots(w)')
  BY DEF Orphans, OrphanedPubs, AffectedPubs, SafePubs, Down, Related, ValueRows, Relation

LEMMA CutKept ==
    ASSUME NEW w, db' = db, op'[w] = op[w]
    PROVE  /\ Cut(w)' = Cut(w)
           /\ Roots(w)' = Roots(w)
           /\ Orphans(w)' = Orphans(w)
<1>1. Cut(w)' = Cut(w)
  BY DEF Cut, ValueRows, Relation
<1>2. Roots(w)' = Roots(w)
  BY <1>1 DEF Roots
<1> QED
  BY <1>1, <1>2, OrphansPrimed DEF Orphans

LEMMA PubsOfPrimed == PubsOf(db)' = PubsOf(db')
  BY DEF PubsOf, PubRow

LEMMA CleaningKept ==
    ASSUME NEW w \in Writers, CleaningOf(w), db' = db, op'[w] = op[w], pc'[w] = pc[w],
           doomed'[w] = doomed[w], roots'[w] = roots[w], Visible(w)' = Visible(w),
           w \in meddled' <=> w \in meddled
    PROVE  CleaningOf(w)'
<1>1. Cut(w)' = Cut(w) /\ Roots(w)' = Roots(w) /\ Orphans(w)' = Orphans(w)
  BY CutKept
<1>2. Sees(w, db)' <=> Sees(w, db)
  BY DEF Sees, PubsOf, PubRow, ValueRows, Relation
<1>3. Sees(w, db \ Cut(w))' <=> Sees(w, db \ Cut(w))
  BY <1>1 DEF Sees, PubsOf, PubRow, ValueRows, Relation
<1>4. CleanedUp(w)' <=> CleanedUp(w)
  BY <1>1 DEF CleanedUp, PubsOf, PubRow, ValueRows, Relation
<1>5. {PubRow(p) : p \in Orphans(w)}' = {PubRow(p) : p \in Orphans(w)}
  BY <1>1 DEF PubRow
<1> QED
  BY <1>1, <1>2, <1>3, <1>4, <1>5 DEF CleaningOf

LEMMA CleaningInit == Init => CleaningUp
<1>1. SUFFICES ASSUME Init, NEW w \in Writers PROVE CleaningOf(w)
  BY DEF CleaningUp
<1>2. pc[w] = "idle"
  BY <1>1 DEF Init
<1> QED
  BY <1>2 DEF CleaningOf

LEMMA CutTyped ==
    ASSUME NEW w \in Writers, TypeOK
    PROVE  /\ Cut(w) \subseteq db \intersect ValueRows
           /\ Roots(w) \subseteq Pubs
           /\ Cut(w) # {} => op[w].unrelate # {} /\ Roots(w) # {}
           /\ Orphans(w) \subseteq Pubs
<1>1. op[w].unrelate \subseteq Pubs
  BY OpTyped DEF TypeOK
<1>2. Orphans(w) \subseteq Pubs
  BY DownTyped DEF Orphans, OrphanedPubs
<1> QED
  BY <1>1, <1>2 DEF Cut, Roots

LEMMA BeginCleaning ==
    ASSUME NEW w \in Writers, TypeOK, CleaningUp, Begin(w)
    PROVE  CleaningUp'
<1>1. db' = db /\ made' = made /\ gone' = gone /\ doomed' = doomed /\ roots' = roots
      /\ meddled' = meddled
  BY DEF Begin, transaction, ghosts
<1>2. PICK o \in Ops : op' = [op EXCEPT ![w] = o] /\ pc' = [pc EXCEPT ![w] = Following(o, "begin")]
  BY DEF Begin, Goto
<1>3. o \in Op /\ op'[w] = o /\ pc'[w] = Following(o, "begin")
  BY <1>2, PubOpsAssumption DEF TypeOK
<1>4. ASSUME NEW v \in Writers \ {w} PROVE CleaningOf(v)'
  <2>1. op'[v] = op[v] /\ pc'[v] = pc[v]
    BY <1>2 DEF TypeOK
  <2>2. Visible(v)' = Visible(v)
    BY <1>1 DEF Visible
  <2> QED
    BY <1>1, <2>1, <2>2, CleaningKept DEF CleaningUp
<1>5. CleaningOf(w)'
  <2>1. SUFFICES ASSUME Cut(w)' # {} PROVE CleaningOf(w)'
    BY DEF CleaningOf
  <2>2. o.unrelate # {}
    BY <1>3, <2>1 DEF Cut
  <2>3. pc'[w] \in {"create", "stage", "find"}
    BY <1>3, <2>2, CutFollows
  <2>4. Visible(w)' = db'
    BY <1>1 DEF Visible, Begin, TypeOK
  <2>5. Sees(w, db)'
    BY <2>4 DEF Sees
  <2> QED
    BY <2>3, <2>5 DEF CleaningOf
<1> QED
  BY <1>4, <1>5 DEF CleaningUp

\* What an aborted or committed transaction leaves behind is idle.
LEMMA OverCleaning ==
    ASSUME NEW w \in Writers, TypeOK, Over(w)
    PROVE  CleaningOf(w)'
<1>1. pc'[w] = "idle"
  BY DEF Over, Goto, TypeOK
<1> QED
  BY <1>1 DEF CleaningOf

LEMMA AbortCleaning ==
    ASSUME NEW w \in Writers, TypeOK, CleaningUp, Abort(w)
    PROVE  CleaningUp'
<1>1. ASSUME NEW v \in Writers \ {w} PROVE CleaningOf(v)'
  <2>1. /\ op'[v] = op[v] /\ pc'[v] = pc[v] /\ made'[v] = made[v] /\ gone'[v] = gone[v]
        /\ doomed'[v] = doomed[v] /\ roots'[v] = roots[v] /\ db' = db
        /\ v \in meddled' <=> v \in meddled
    BY DEF Abort, Over, Goto, TypeOK
  <2>2. Visible(v)' = Visible(v)
    BY <2>1 DEF Visible
  <2> QED
    BY <2>1, <2>2, CleaningKept DEF CleaningUp
<1> QED
  BY <1>1, OverCleaning DEF CleaningUp, Abort

\* A commit comes between the statements of everybody else.
LEMMA CommitCleaning ==
    ASSUME NEW w \in Writers, TypeOK, Commit(w)
    PROVE  CleaningUp'
<1>1. ASSUME NEW v \in Writers \ {w} PROVE CleaningOf(v)'
  <2>1. pc'[v] = pc[v] /\ (v \in meddled' <=> pc[v] # "idle")
    BY DEF Commit, Over, Goto, TypeOK
  <2> QED
    BY <2>1 DEF CleaningOf
<1> QED
  BY <1>1, OverCleaning DEF CleaningUp, Commit

\* What the statements of a clean-up do to what it sees.
LEMMA SeesMore ==
    ASSUME NEW w \in Writers, NEW S, Data, Statement(w), Sees(w, S), NEW T,
           T \intersect ValueRows = (S \intersect ValueRows) \ Deleted(w),
           Inserted(w) \intersect ValueRows = {}, Deleted(w) \intersect PubRows = {}
    PROVE  /\ Visible(w)' \intersect ValueRows = T \intersect ValueRows
           /\ PubsOf(db) \subseteq PubsOf(Visible(w)')
<1>1. Visible(w)' = (Visible(w) \ Deleted(w)) \union Inserted(w)
  BY StatementWrites, WritesSeen DEF Data
<1>2. Visible(w) \intersect ValueRows = S \intersect ValueRows
      /\ PubsOf(db) \subseteq PubsOf(Visible(w))
  BY DEF Sees
<1>3. Visible(w)' \intersect ValueRows = T \intersect ValueRows
  BY <1>1, <1>2
<1>4. PubsOf(db) \subseteq PubsOf(Visible(w)')
  BY <1>1, <1>2, PubRowFacts DEF PubsOf
<1> QED
  BY <1>3, <1>4

LEMMA StatementCleaning ==
    ASSUME NEW w \in Writers, Data, CleaningOf(w), Statement(w)
    PROVE  CleaningOf(w)'
<1>1. SUFFICES ASSUME op[w].deleteOrphaned, Cut(w) # {}, w \notin meddled
               PROVE  CleaningOf(w)'
  BY StatementKeeps, StatementWrites, CutKept DEF CleaningOf, Data, Writes
<1>2. TypeOK /\ op[w] \in Op /\ op[w].unrelate # {} /\ ~op[w].delete
  BY <1>1, CutTyped, OpTyped DEF Data, TypeOK
<1>3. db' = db /\ op' = op
  BY <1>2, StatementKeeps, StatementWrites DEF Writes
<1>4. Cut(w)' = Cut(w) /\ Roots(w)' = Roots(w) /\ Orphans(w)' = Orphans(w)
  BY <1>3, CutKept
<1>5. /\ Cut(w) \subseteq db \intersect ValueRows /\ Roots(w) # {}
      /\ Roots(w) \subseteq Pubs /\ Orphans(w) \subseteq Pubs
  BY <1>1, <1>2, CutTyped
<1>6. Visible(w)' = (Visible(w) \ Deleted(w)) \union Inserted(w)
  BY <1>2, StatementWrites, WritesSeen
<1>7. Proceed(w) => pc'[w] = Following(op[w], pc[w])
  BY <1>2, ProceedGoes
\* The three things that are to be shown of what w sees, in unprimed words.
<1>8. ASSUME Visible(w)' \intersect ValueRows = db \intersect ValueRows,
             PubsOf(db) \subseteq PubsOf(Visible(w)')
      PROVE  Sees(w, db)'
  BY <1>3, <1>8 DEF Sees, PubsOf, PubRow, ValueRows, Relation
<1>9. ASSUME Visible(w)' \intersect ValueRows = (db \ Cut(w)) \intersect ValueRows,
             PubsOf(db) \subseteq PubsOf(Visible(w)')
      PROVE  Sees(w, db \ Cut(w))'
  BY <1>3, <1>4, <1>9 DEF Sees, PubsOf, PubRow, ValueRows, Relation
<1>10. ASSUME PubsOf(db) \intersect PubsOf(Visible(w)') = PubsOf(db) \ Orphans(w),
              \A r \in (db \ Cut(w)) \intersect ValueRows :
                  r[2] \notin Orphans(w) /\ r[3] \notin Orphans(w) => r \in Visible(w)'
       PROVE  CleanedUp(w)'
  BY <1>3, <1>4, <1>10 DEF CleanedUp, PubsOf, PubRow, ValueRows, Relation
\* Before the relations are removed nothing changes the values.
<1>11. CASE pc[w] \in {"create", "stage", "moving"}
  <2>1. Sees(w, db)
    BY <1>1, <1>11 DEF CleaningOf
  <2>2. Inserted(w) \intersect ValueRows = {}
    BY <1>11, InsertedTyped DEF Data
  <2>3. Deleted(w) \subseteq StageRows
    BY <1>11 DEF Deleted, Left
  <2>4. db \intersect ValueRows = (db \intersect ValueRows) \ Deleted(w)
        /\ Deleted(w) \intersect PubRows = {}
    BY <2>3, StageRowFacts
  <2>5. Sees(w, db)'
    BY <1>8, <2>1, <2>2, <2>4, SeesMore
  <2>6. pc'[w] \in {"stage", "moving", "find"}
    <3>1. CASE pc[w] = "create"
      BY <1>2, <1>7, <3>1, StatementAt, CutFollows DEF Create
    <3>2. CASE pc[w] = "stage"
      BY <1>2, <3>2, StatementAt DEF StartMove, Goto, TypeOK
    <3>3. CASE pc[w] = "moving"
      BY <1>2, <1>7, <3>3, StatementAt, CutFollows DEF Move
    <3> QED
      BY <1>11, <3>1, <3>2, <3>3
  <2> QED
    BY <2>5, <2>6 DEF CleaningOf
<1>12. CASE pc[w] = "find"
  <2>1. Sees(w, db) /\ FindRelations(w)
    BY <1>1, <1>12, StatementAt DEF CleaningOf
  <2> DEFINE found == {r \in Visible(w) \intersect ValueRows :
                           r[2] = op[w].pub /\ r[3] \in op[w].unrelate}
  <2>2. found = Cut(w)
    BY <2>1 DEF Sees, Cut
  <2>3. /\ doomed' = [doomed EXCEPT ![w] = found]
        /\ roots' = [roots EXCEPT ![w] = {r[3] : r \in found}]
        /\ IF found = {} THEN Proceed(w) ELSE Goto(w, "unrelate")
    BY <1>1, <2>1 DEF FindRelations
  <2> HIDE DEF found
  <2>4. doomed'[w] = Cut(w) /\ roots'[w] = Roots(w) /\ pc'[w] = "unrelate"
    BY <1>1, <1>2, <2>2, <2>3 DEF Goto, Roots, TypeOK
  <2>5. Deleted(w) = {} /\ Inserted(w) = {}
    BY <1>12 DEF Deleted, Inserted
  <2>6. Sees(w, db)'
    BY <1>8, <2>1, <2>5, SeesMore
  <2> QED
    BY <1>4, <2>4, <2>6 DEF CleaningOf
<1>13. CASE pc[w] = "unrelate"
  <2>1. /\ Sees(w, db) /\ doomed[w] = Cut(w) /\ roots[w] = Roots(w)
        /\ Unrelate(w)
    BY <1>1, <1>13, StatementAt DEF CleaningOf
  <2>2. pc'[w] = "orphans" /\ roots'[w] = Roots(w)
    BY <1>2, <1>5, <2>1 DEF Unrelate, Goto, TypeOK
  <2>3. Deleted(w) = Cut(w) /\ Inserted(w) = {}
    BY <1>13, <2>1 DEF Deleted, Inserted
  <2>4. (db \ Cut(w)) \intersect ValueRows = (db \intersect ValueRows) \ Deleted(w)
        /\ Deleted(w) \intersect PubRows = {}
    BY <1>5, <2>3, ValueRowFacts
  <2>5. Sees(w, db \ Cut(w))'
    BY <1>9, <2>1, <2>3, <2>4, SeesMore
  <2> QED
    BY <1>4, <2>2, <2>5 DEF CleaningOf
<1>14. CASE pc[w] = "orphans"
  <2>1. Sees(w, db \ Cut(w)) /\ roots[w] = Roots(w) /\ FindOrphans(w)
    BY <1>1, <1>14, StatementAt DEF CleaningOf
  <2>2. OrphanedPubs(Visible(w), roots[w]) = Orphans(w)
    BY <2>1, OrphansOfValues DEF Sees, Orphans
  <2>3. /\ doomed' = [doomed EXCEPT ![w] = {PubRow(p) : p \in Orphans(w)}]
        /\ IF Orphans(w) = {} THEN Proceed(w) ELSE Goto(w, "delete")
    BY <2>1, <2>2 DEF FindOrphans
  <2>4. doomed'[w] = {PubRow(p) : p \in Orphans(w)}
    BY <1>2, <2>3 DEF TypeOK
  <2>5. Deleted(w) = {} /\ Inserted(w) = {} /\ Visible(w)' = Visible(w)
    <3>1. Deleted(w) = {} /\ Inserted(w) = {}
      BY <1>14 DEF Deleted, Inserted
    <3> QED
      BY <1>6, <3>1
  <2>6. Sees(w, db \ Cut(w))'
    BY <1>9, <2>1, <2>5, SeesMore
  <2>7. CASE Orphans(w) = {}
    <3>1. pc'[w] \in {"relate", "commit"}
      BY <1>2, <1>7, <1>14, <2>3, <2>7, CutFollows
    <3>2. CleanedUp(w)'
      BY <1>10, <2>1, <2>5, <2>7 DEF Sees
    <3> QED
      BY <3>1, <3>2 DEF CleaningOf
  <2>8. CASE Orphans(w) # {}
    <3>1. pc'[w] = "delete"
      BY <1>2, <2>3, <2>8 DEF Goto, TypeOK
    <3>2. {PubRow(p) : p \in Orphans(w)}' = {PubRow(p) : p \in Orphans(w)}
      BY <1>4 DEF PubRow
    <3> QED
      BY <2>4, <2>6, <3>1, <3>2 DEF CleaningOf
  <2> QED
    BY <2>7, <2>8
<1>15. CASE pc[w] = "delete"
  <2>1. /\ Sees(w, db \ Cut(w)) /\ doomed[w] = {PubRow(p) : p \in Orphans(w)}
        /\ DeletePubs(w)
    BY <1>1, <1>15, StatementAt DEF CleaningOf
  <2>2. ToDelete(w) = Orphans(w)
    BY <1>2, <1>5, <2>1, PubRowFacts DEF ToDelete
  <2> DEFINE D == {p \in Orphans(w) : Exists(w, p)}
  <2>3. Visible(w)' = Visible(w) \ Cascade(Visible(w), D)
    BY <1>6, <1>15, <2>2 DEF Deleted, Inserted
  <2>4. \A p \in PubsOf(db) : PubRow(p) \in Visible(w)' <=> p \notin Orphans(w)
    <3>1. \A p \in PubsOf(db) : p \in Pubs /\ PubRow(p) \in Visible(w)
      BY <2>1 DEF Sees, PubsOf
    <3>2. \A p \in Pubs : PubRow(p) \in Cascade(Visible(w), D)
                              <=> PubRow(p) \in Visible(w) /\ p \in D
      BY PubRowFacts DEF Cascade
    <3> QED
      BY <2>3, <3>1, <3>2 DEF Exists
  <2>5. PubsOf(db) \intersect PubsOf(Visible(w)') = PubsOf(db) \ Orphans(w)
    BY <2>4 DEF PubsOf
  <2>6. \A r \in (db \ Cut(w)) \intersect ValueRows :
            r[2] \notin Orphans(w) /\ r[3] \notin Orphans(w) => r \in Visible(w)'
    BY <2>1, <2>3 DEF Sees, Cascade
  <2>7. CleanedUp(w)'
    BY <1>10, <2>5, <2>6
  <2>8. pc'[w] \in {"relate", "commit"}
    BY <1>2, <1>7, <1>15, <2>1, CutFollows DEF DeletePubs
  <2> QED
    BY <2>7, <2>8 DEF CleaningOf
<1>16. CASE pc[w] = "relate"
  <2>1. CleanedUp(w) /\ Relate(w)
    BY <1>1, <1>16, StatementAt DEF CleaningOf
  <2>2. Deleted(w) = {} /\ Inserted(w) = {Relation(op[w].pub, q) : q \in op[w].relate}
    BY <1>16 DEF Deleted, Inserted
  <2>3. Inserted(w) \subseteq ValueRows
    BY <1>2, <2>2, OpTyped, ValueRowFacts
  <2>4. PubsOf(Visible(w)') = PubsOf(Visible(w)) /\ Visible(w) \subseteq Visible(w)'
    BY <1>6, <2>2, <2>3, PubRowFacts DEF PubsOf
  <2>5. CleanedUp(w)'
    BY <1>10, <2>1, <2>4 DEF CleanedUp
  <2>6. pc'[w] \in {"relate", "commit"}
    BY <1>2, <1>7, <1>16, <2>1, CutFollows DEF Relate
  <2> QED
    BY <2>5, <2>6 DEF CleaningOf
<1> QED
  BY <1>2, <1>11, <1>12, <1>13, <1>14, <1>15, <1>16, StatementAt DEF TypeOK

LEMMA CleaningNext == Data /\ CleaningUp /\ [Next]_vars => CleaningUp'
<1>1. SUFFICES ASSUME Data, CleaningUp, [Next]_vars PROVE CleaningUp'
  OBVIOUS
<1>0. TypeOK
  BY <1>1 DEF Data
<1>2. CASE UNCHANGED vars
  <2>1. ASSUME NEW v \in Writers PROVE CleaningOf(v)'
    <3>1. db' = db /\ Visible(v)' = Visible(v) /\ meddled' = meddled
      BY <1>2 DEF vars, transaction, ghosts, Visible
    <3>2. op'[v] = op[v] /\ pc'[v] = pc[v] /\ doomed'[v] = doomed[v] /\ roots'[v] = roots[v]
      BY <1>2 DEF vars
    <3> QED
      BY <1>1, <3>1, <3>2, CleaningKept DEF CleaningUp
  <2>2. \A v \in Writers : CleaningOf(v)'
    BY <2>1
  <2> QED
    BY <2>2 DEF CleaningUp
<1>3. ASSUME NEW w \in Writers, Statement(w) PROVE CleaningUp'
  <2>1. ASSUME NEW v \in Writers \ {w} PROVE CleaningOf(v)'
    <3>0. Writes(w, Deleted(w), Inserted(w))
      BY <1>0, <1>3, StatementWrites
    <3>1. db' = db /\ Visible(v)' = Visible(v)
      <4>1. db' = db
        BY <3>0 DEF Writes
      <4> QED
        BY <1>0, <3>0, <4>1, WritesSeen
    <3>2. op' = op /\ meddled' = meddled
          /\ pc'[v] = pc[v] /\ doomed'[v] = doomed[v] /\ roots'[v] = roots[v]
      BY <1>0, <1>3, StatementKeeps, StatementStops DEF Stops
    <3> QED
      BY <1>1, <3>1, <3>2, CleaningKept DEF CleaningUp
  <2> QED
    <3>1. CleaningOf(w)'
      BY <1>1, <1>3, StatementCleaning DEF CleaningUp
    <3>2. \A v \in Writers : CleaningOf(v)'
      BY <2>1, <3>1
    <3> QED
      BY <3>2 DEF CleaningUp
<1>4. ASSUME NEW w \in Writers, Begin(w) \/ Abort(w) \/ Commit(w) PROVE CleaningUp'
  BY <1>0, <1>1, <1>4, BeginCleaning, AbortCleaning, CommitCleaning
<1> QED
  BY <1>1, <1>2, <1>3, <1>4 DEF Next, Statement

LEMMA CleaningAlways == Spec => []CleaningUp
<1>1. Init => CleaningUp
  BY CleaningInit
<1>2. Data /\ CleaningUp /\ [Next]_vars => CleaningUp'
  BY CleaningNext
<1> QED
  BY <1>1, <1>2, DataAlways, PTL DEF Spec

\* What a clean-up deletes, if nobody's commit came between, are the orphans.
LEMMA OrphansGo ==
    ASSUME Data, CleaningUp, NEW w \in Writers, CleansUp(w)
    PROVE  /\ DeletedPubs = Orphans(w)
           /\ \A r \in (db \ Cut(w)) \intersect ValueRows :
                  r[2] \notin Orphans(w) /\ r[3] \notin Orphans(w) => r \in db'
           /\ Tree(w) = Down(Related(db \ Cut(w)), Roots(w))
           /\ Orphans(w) = OrphanedPubs(db \ Cut(w), Roots(w))
           /\ Beside(w) = Related(db \ Cut(w))
           /\ Roots(w) \in SUBSET Pubs /\ PubsOf(db) \in SUBSET Pubs
           /\ \A e \in Related(db \ Cut(w)) : e[1] \in PubsOf(db)
<1> DEFINE S == db \ Cut(w)
           O == Orphans(w)
<1>1. db' = Visible(w) /\ CleanedUp(w)
  BY DEF CleansUp, CleaningUp, CleaningOf
<1>2. Tree(w) = Down(Related(S), Roots(w)) /\ Beside(w) = Related(S)
      /\ O = OrphanedPubs(S, Roots(w)) /\ Roots(w) \in SUBSET Pubs /\ PubsOf(db) \in SUBSET Pubs
  BY CutTyped DEF Tree, Beside, Roots, Orphans, Data, PubsOf
<1>3. DeletedPubs = PubsOf(db) \intersect O
  BY <1>1 DEF CleanedUp, DeletedPubs
<1>4. \A r \in S \intersect ValueRows :
          r[2] \in PubsOf(db) /\ (r[3] # Plain => r[3] \in PubsOf(db))
  BY SeenWhole, DanglingMeans, ValueRowFacts DEF Data, TypeOK, PubsOf
<1>5. \A e \in Related(S) : e[1] \in PubsOf(db) /\ e[2] \in PubsOf(db)
  <2> HIDE DEF S
  <2> QED
    BY <1>4, RelatedFacts, PubOpsAssumption
<1>6. O \subseteq PubsOf(db)
  <2> DEFINE U == AffectedPubs(S, Roots(w)) \ SafePubs(S, Roots(w))
             E == {e \in Related(S) : e[1] \in U /\ e[2] \in U}
             F == {p \in Roots(w) \intersect U : \E r \in S \intersect ValueRows : r[2] = p}
  <2>1. O = Down(E, F)
    BY <1>2 DEF OrphanedPubs
  <2>2. F \subseteq PubsOf(db) /\ \A e \in E : e[1] \in PubsOf(db) => e[2] \in PubsOf(db)
    BY <1>4, <1>5
  <2> HIDE DEF E, F, O
  <2> QED
    BY <1>2, <2>1, <2>2, DownLeast
<1>7. \A r \in S \intersect ValueRows : r[2] \notin O /\ r[3] \notin O => r \in db'
  BY <1>1 DEF CleanedUp
<1> QED
  BY <1>2, <1>3, <1>5, <1>6, <1>7

LEMMA NothingCleansUp ==
    ASSUME NEW w \in Writers, UNCHANGED vars
    PROVE  ~CleansUp(w)
  BY DEF CleansUp, vars

\* OrphansAreDeleted (processRelations, cleanupOrphanedPubs): what a clean-up that had
\* the database for itself leaves of the tree has no values, or a path of relations
\* from outside.
THEOREM NoOrphanIsLeft == Spec => OrphansAreDeleted
<1>1. ASSUME Data, CleaningUp, Next, NEW w \in Writers, CleansUp(w)
      PROVE  DeletesOrphans(w)
  <2>1. SUFFICES ASSUME NEW p \in Tree(w) \intersect PubsOf(db'),
                        \E r \in (db \ Cut(w)) \intersect ValueRows : r[2] = p
                 PROVE  p \in Down(Related(db'), PubsOf(db) \ Tree(w))
    BY DEF DeletesOrphans
  <2> DEFINE S == db \ Cut(w)
             R == Roots(w)
  <2>2. /\ \A r \in S \intersect ValueRows :
               r[2] \notin OrphanedPubs(S, R) /\ r[3] \notin OrphanedPubs(S, R) => r \in db'
        /\ Tree(w) = Down(Related(S), R) /\ R \in SUBSET Pubs /\ PubsOf(db) \in SUBSET Pubs
        /\ \A e \in Related(S) : e[1] \in PubsOf(db)
    BY <1>1, OrphansGo
  <2>3. p \notin OrphanedPubs(S, R)
    BY <1>1, <2>1, OrphansGo DEF DeletedPubs
  <2> HIDE DEF S, R
  <2> QED
    BY <2>1, <2>2, <2>3, OthersReached DEF S
<1>2. Data /\ CleaningUp /\ [Next]_vars =>
          [\A w \in Writers : CleansUp(w) => DeletesOrphans(w)]_vars
  BY <1>1, NothingCleansUp
<1> QED
  BY <1>2, DataAlways, CleaningAlways, PTL DEF Spec, OrphansAreDeleted

\* RelatedPubsAreSpared (processRelations, cleanupOrphanedPubs): such a clean-up
\* deletes pubs of the tree only, none that is related from outside of it, and
\* none that lies below the disconnected pubs only by way of somebody it keeps.
THEOREM CleanupsSpare == Spec => RelatedPubsAreSpared
<1>1. ASSUME Data, CleaningUp, Next, NEW w \in Writers, CleansUp(w)
      PROVE  SparesRelated(w)
  <2> DEFINE S == db \ Cut(w)
             O == OrphanedPubs(S, Roots(w))
  <2>1. /\ DeletedPubs = O /\ Tree(w) = Down(Related(S), Roots(w))
        /\ Beside(w) = Related(S) /\ Roots(w) \in SUBSET Pubs
    BY <1>1, OrphansGo
  <2>2. O \subseteq Tree(w) /\ \A e \in Beside(w) : e[2] \in O => e[1] \in Tree(w)
    <3> HIDE DEF S
    <3> QED
      BY <2>1, OrphansBelow
  <2>3. O \subseteq Down({e \in Beside(w) : {e[1], e[2]} \subseteq O}, Roots(w) \intersect O)
    <3> HIDE DEF S
    <3> QED
      BY <2>1, OrphansHang
  <2> QED
    <3> HIDE DEF O
    <3> QED
      BY <2>1, <2>2, <2>3 DEF SparesRelated, Roots
<1>2. Data /\ CleaningUp /\ [Next]_vars =>
          [\A w \in Writers : CleansUp(w) => SparesRelated(w)]_vars
  BY <1>1, NothingCleansUp
<1> QED
  BY <1>2, DataAlways, CleaningAlways, PTL DEF Spec, RelatedPubsAreSpared

=============================================================================
