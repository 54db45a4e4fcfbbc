------------------------------- MODULE PubOps -------------------------------
(***************************************************************************)
(* The operations on pubs: PubOp (create, upsert, update), the older       *)
(* functions of pub.ts (updatePub, replacePubRelationsBySlug,              *)
(* removePubRelations, deletePub) and movePub.  Each runs in a Postgres    *)
(* transaction of several statements under READ COMMITTED: a statement     *)
(* reads what was committed when it began and what its own transaction     *)
(* did, and waits for the other transactions whose rows it would write.    *)
(*                                                                         *)
(* The database is a set of rows: pubs, the values of pubs (with one       *)
(* relation field, of which a pub has a row per related pub, and one row   *)
(* for all its ordinary values) and PubsInStages.                          *)
(***************************************************************************)
EXTENDS Naturals, FiniteSets

CONSTANTS
    Pubs,       \* the pub ids
    Stages,
    Writers,    \* requests, actions and jobs that write pubs at one time
    Ops,        \* bound: the operations they ask for
    Start,      \* bound: the databases it starts from
    MaxOps,     \* bound on the number of operations
    Keep,       \* op.stage === undefined
    NoStage,    \* op.stage === null
    Plain       \* relatedPubId IS NULL

PubRow(p) == <<"pubs", p, p>>
Relation(p, q) == <<"pub_values", p, q>>
StageRow(p, s) == <<"PubsInStages", p, s>>

PubRows == {PubRow(p) : p \in Pubs}
ValueRows == {Relation(p, q) : p \in Pubs, q \in Pubs \union {Plain}}
StageRows == {StageRow(p, s) : p \in Pubs, s \in Stages}
Rows == PubRows \union ValueRows \union StageRows

\* What an operation does to its pub.  unrelate has the targets whose
\* relations it removes, all of them for a clear or an override.  deletePub is
\* no part of a PubOp, it does nothing else.
Op == {o \in [pub : Pubs, create : {"no", "create", "upsert"},
              stage : Stages \union {Keep, NoStage},
              unrelate : SUBSET Pubs, deleteOrphaned : BOOLEAN,
              delete : BOOLEAN, relate : SUBSET (Pubs \union {Plain})] :
          o.delete => /\ o.create = "no" /\ o.stage = Keep
                      /\ o.unrelate = {} /\ o.relate = {}}

\* The rows of a set whose pub or related pub is missing.
Dangling(S) ==
    {r \in S : \/ PubRow(r[2]) \notin S
                \/ /\ r \in ValueRows /\ r[3] # Plain
                   /\ PubRow(r[3]) \notin S}

ASSUME PubOpsAssumption ==
    /\ Pubs # {} /\ Plain \notin Pubs
    /\ Keep \notin Stages /\ NoStage \notin Stages /\ Keep # NoStage
    /\ Ops \subseteq Op
    /\ MaxOps \in Nat
    /\ \A S \in Start : S \subseteq Rows /\ Dangling(S) = {}

VARIABLES
    db,         \* the committed rows
    pc,         \* the statement each writer is at
    op,         \* its operation
    made,       \* rows its transaction inserted or updated
    gone,       \* rows its transaction deleted
    doomed,     \* rows a statement of it selected, to delete them
    roots,      \* relationsToCheckForOrphans of each
    begun,
    meddled,    \* ghost: writers that somebody else's commit came between
    placed,     \* ghost: pubs whose last committed change of stage was into one
    overlapped  \* ghost: pubs in two stages at the start, or moved by a
                \* statement begun before another move of them was committed

vars == <<db, pc, op, made, gone, doomed, roots, begun, meddled, placed, overlapped>>
transaction == <<made, gone>>
ghosts == <<meddled, placed, overlapped>>

TypeOK ==
    /\ db \subseteq Rows /\ Dangling(db) = {}
    /\ pc \in [Writers -> {"idle", "create", "stage", "moving", "find", "unrelate",
                           "orphans", "delete", "relate", "commit"}]
    /\ op \in [Writers -> Op]
    /\ made \in [Writers -> SUBSET Rows] /\ gone \in [Writers -> SUBSET Rows]
    /\ doomed \in [Writers -> SUBSET Rows] /\ roots \in [Writers -> SUBSET Pubs]
    /\ begun \in 0..MaxOps
    /\ meddled \subseteq Writers /\ placed \subseteq Pubs /\ overlapped \subseteq Pubs
    /\ \A w \in Writers : pc[w] = "idle" =>
           made[w] = {} /\ gone[w] = {} /\ doomed[w] = {} /\ roots[w] = {}

Stays == [pub |-> CHOOSE p \in Pubs : TRUE, create |-> "no", stage |-> Keep,
          unrelate |-> {}, deleteOrphaned |-> FALSE, delete |-> FALSE, relate |-> {}]

InStage(S) == {r[2] : r \in S \intersect StageRows}
InTwoStages(S) ==
    {p \in Pubs : \E s, t \in Stages : s # t /\ {StageRow(p, s), StageRow(p, t)} \subseteq S}

Init ==
    /\ db \in Start
    /\ pc = [w \in Writers |-> "idle"]
    /\ op = [w \in Writers |-> Stays]
    /\ made = [w \in Writers |-> {}] /\ gone = [w \in Writers |-> {}]
    /\ doomed = [w \in Writers |-> {}] /\ roots = [w \in Writers |-> {}]
    /\ begun = 0
    /\ meddled = {} /\ placed = InStage(db) /\ overlapped = InTwoStages(db)

-----------------------------------------------------------------------------
(* What a statement reads, and what it waits for.                          *)

\* The rows that a statement of w reads.
Visible(w) == (db \ gone[w]) \union made[w]

Exists(w, p) == PubRow(p) \in Visible(w)

\* The pubs whose rows w has locked: it writes them, or the triggers on
\* pub_values and PubsInStages update their updatedAt.
Updated(w) == {r[2] : r \in made[w] \union gone[w]}

\* The pubs that foreign keys of w's rows keep from being deleted.
Referenced(w) == {r[3] : r \in made[w] \intersect ValueRows} \intersect Pubs

\* Nobody else holds the rows of the pubs in P, nor those in D against a
\* deletion, nor has deleted those in K, which w's rows refer to.
Unlocked(w, P, D, K) ==
    \A v \in Writers \ {w} :
        /\ Updated(v) \intersect (P \union D) = {}
        /\ Referenced(v) \intersect D = {}
        /\ \A p \in K : PubRow(p) \notin gone[v]

Insert(w, R) ==
    /\ made' = [made EXCEPT ![w] = @ \union R]
    /\ UNCHANGED gone

Delete(w, R) ==
    /\ made' = [made EXCEPT ![w] = @ \ R]
    /\ gone' = [gone EXCEPT ![w] = @ \union R]

-----------------------------------------------------------------------------
(* The statements of an operation, in the order of executeWithTrx.         *)

\* The statement after a finished one: those of parts the operation has not
\* are left out.
Following(o, from) ==
    LET creates == o.create # "no"
        moves == o.stage # Keep
        cuts == o.unrelate # {}
        relates == o.relate # {}
        AfterCut == IF o.delete THEN "delete" ELSE IF relates THEN "relate" ELSE "commit"
        AfterMove == IF cuts THEN "find" ELSE AfterCut
        AfterCreate == IF moves THEN "stage" ELSE AfterMove
    IN  CASE from = "begin" -> IF creates THEN "create" ELSE AfterCreate
          [] from = "create" -> AfterCreate
          [] from = "moving" -> AfterMove
          [] from = "delete" -> IF relates THEN "relate" ELSE "commit"
          [] from = "relate" -> "commit"
          [] OTHER -> AfterCut

Goto(w, s) == pc' = [pc EXCEPT ![w] = s]
Proceed(w) == Goto(w, Following(op[w], pc[w]))

\* The transaction is over; its locals are cleared.
Over(w) ==
    /\ Goto(w, "idle")
    /\ op' = [op EXCEPT ![w] = Stays]
    /\ made' = [made EXCEPT ![w] = {}]
    /\ gone' = [gone EXCEPT ![w] = {}]
    /\ roots' = [roots EXCEPT ![w] = {}]

\* An error: of the database (a constraint, a deadlock, the connection), of
\* PubOp, of the server.
Abort(w) ==
    /\ pc[w] # "idle"
    /\ Over(w)
    /\ doomed' = [doomed EXCEPT ![w] = {}]
    /\ meddled' = meddled \ {w}
    /\ UNCHANGED <<db, begun, placed, overlapped>>

\* An operation is asked for.  PubOp does not look whether the pub exists.
Begin(w) ==
    /\ pc[w] = "idle" /\ begun < MaxOps
    /\ begun' = begun + 1
    /\ \E o \in Ops :
           /\ op' = [op EXCEPT ![w] = o]
           /\ Goto(w, Following(o, "begin"))
    /\ UNCHANGED <<db, transaction, doomed, roots, ghosts>>

\* createAllPubs: INSERT ... ON CONFLICT DO NOTHING.  A create of an existing
\* pub is an error, which is Abort's.
Create(w) ==
    LET p == op[w].pub
    IN  /\ pc[w] = "create"
        /\ \A v \in Writers \ {w} : PubRow(p) \notin made[v] \union gone[v]
        /\ op[w].create = "create" => ~Exists(w, p)
        /\ Insert(w, IF Exists(w, p) THEN {} ELSE {PubRow(p)})
        /\ Proceed(w)
    /\ UNCHANGED <<db, op, doomed, roots, begun, ghosts>>

\* The statement of movePub, processStages and createPubRecursiveNew begins:
\* it will delete the rows that it sees now.
StartMove(w) ==
    /\ pc[w] = "stage"
    /\ doomed' = [doomed EXCEPT ![w] =
           {r \in Visible(w) \intersect StageRows : r[2] = op[w].pub}]
    /\ Goto(w, "moving")
    /\ UNCHANGED <<db, op, transaction, roots, begun, ghosts>>

\* Mutant of Left: leave_stage is dropped.
NothingLeft(seen, there) == {}

\* What the CTE deletes of the rows it saw: those that are still there.
Left(seen, there) == seen \intersect there

\* It has got its locks.  The row is inserted before the CTE deletes, so a move
\* to the stage that the pub is in breaks the unique key: the transaction is
\* aborted, also where updatePub goes on after the error.
Move(w) ==
    LET o == op[w]
        p == o.pub
        there == {r \in Visible(w) \intersect StageRows : r[2] = p}
        entered == IF o.stage = NoStage THEN {} ELSE {StageRow(p, o.stage)}
        left == Left(doomed[w], there)
    IN  /\ pc[w] = "moving"
        /\ Unlocked(w, IF entered \union left = {} THEN {} ELSE {p}, {}, {})
        /\ entered # {} => Exists(w, p)
        /\ entered \intersect there = {}
        /\ made' = [made EXCEPT ![w] = (@ \ left) \union entered]
        /\ gone' = [gone EXCEPT ![w] = @ \union left]
        /\ doomed' = [doomed EXCEPT ![w] = {}]
        /\ overlapped' = IF there \subseteq doomed[w] THEN overlapped ELSE overlapped \union {p}
        /\ Proceed(w)
        /\ UNCHANGED <<db, op, roots, begun, meddled, placed>>

\* processRelations: the relations to remove are selected.
FindRelations(w) ==
    LET found == {r \in Visible(w) \intersect ValueRows :
                      r[2] = op[w].pub /\ r[3] \in op[w].unrelate}
    IN  /\ pc[w] = "find"
        /\ doomed' = [doomed EXCEPT ![w] = found]
        /\ roots' = [roots EXCEPT ![w] =
               IF op[w].deleteOrphaned THEN {r[3] : r \in found} ELSE {}]
        /\ IF found = {} THEN Proceed(w) ELSE Goto(w, "unrelate")
        /\ UNCHANGED <<db, op, transaction, begun, ghosts>>

\* deletePubValuesByValueId.
Unrelate(w) ==
    /\ pc[w] = "unrelate"
    /\ Unlocked(w, IF doomed[w] = {} THEN {} ELSE {op[w].pub}, {}, {})
    /\ Delete(w, doomed[w])
    /\ doomed' = [doomed EXCEPT ![w] = {}]
    /\ IF roots[w] # {} THEN Goto(w, "orphans") ELSE Proceed(w)
    /\ UNCHANGED <<db, op, roots, begun, ghosts>>

-----------------------------------------------------------------------------
(* cleanupOrphanedPubs.                                                    *)

Related(S) == {<<r[2], r[3]>> : r \in {v \in S \intersect ValueRows : v[3] # Plain}}

\* The pubs on paths of relations from those of F.
Down(E, F) ==
    {p \in Pubs : \A C \in SUBSET Pubs :
        (F \subseteq C /\ \A e \in E : e[1] \in C => e[2] \in C) => p \in C}

\* affected_pubs starts from the rows of pub_values that the roots have, so a
\* root without any value is not in it.
AffectedPubs(S, R) ==
    Down(Related(S), {p \in R : \E r \in S \intersect ValueRows : r[2] = p})

\* Mutants of SafePubs: nothing is safe; everything is that is related from a
\* pub which is not a root.
NothingSafe(S, R) == {}
NotFromRoots(S, R) ==
    {q \in AffectedPubs(S, R) : \E e \in Related(S) : e[2] = q /\ e[1] \notin R}

\* safe_pubs: affected pubs with a relation from a pub that is not affected.
SafePubs(S, R) ==
    {q \in AffectedPubs(S, R) :
        \E e \in Related(S) : e[2] = q /\ e[1] \notin AffectedPubs(S, R)}

\* The affected pubs with a path from a root on which no pub is safe.
OrphanedPubs(S, R) ==
    LET unsafe == AffectedPubs(S, R) \ SafePubs(S, R)
        E == {e \in Related(S) : e[1] \in unsafe /\ e[2] \in unsafe}
    IN  Down(E, {p \in R \intersect unsafe : \E r \in S \intersect ValueRows : r[2] = p})

FindOrphans(w) ==
    LET found == OrphanedPubs(Visible(w), roots[w])
    IN  /\ pc[w] = "orphans"
        /\ doomed' = [doomed EXCEPT ![w] = {PubRow(p) : p \in found}]
        /\ IF found = {} THEN Proceed(w) ELSE Goto(w, "delete")
        /\ UNCHANGED <<db, op, transaction, roots, begun, ghosts>>

\* The pubs that deletePub is called with: the orphans, or the operation's own.
ToDelete(w) ==
    {r[2] : r \in doomed[w]} \union (IF op[w].delete THEN {op[w].pub} ELSE {})

\* Mutant of Cascade: the rows of the pubs themselves.
OwnRows(S, D) == {r \in S : r[2] \in D}

\* The foreign keys of pub_values and PubsInStages cascade.
Cascade(S, D) == {r \in S : r[2] \in D \/ (r \in ValueRows /\ r[3] \in D)}

\* deletePub: DELETE, with all the rows there are when it has its locks.
DeletePubs(w) ==
    LET D == {p \in ToDelete(w) : Exists(w, p)}
        cascade == Cascade(Visible(w), D)
    IN  /\ pc[w] = "delete"
        /\ Unlocked(w, {r[2] : r \in cascade}, D, {})
        /\ Delete(w, cascade)
        /\ doomed' = [doomed EXCEPT ![w] = {}]
        /\ Proceed(w)
        /\ UNCHANGED <<db, op, roots, begun, ghosts>>

\* processValues: values and relations are upserted; the foreign keys hold.
Relate(w) ==
    LET targets == op[w].relate \intersect Pubs
    IN  /\ pc[w] = "relate"
        /\ Unlocked(w, {op[w].pub}, {}, targets)
        /\ \A p \in targets \union {op[w].pub} : Exists(w, p)
        /\ Insert(w, {Relation(op[w].pub, q) : q \in op[w].relate})
        /\ Proceed(w)
        /\ UNCHANGED <<db, op, doomed, roots, begun, ghosts>>

\* The transaction commits.  Rows that others selected are not those that are
\* inserted again in their place.
Commit(w) ==
    LET o == op[w]
    IN  /\ pc[w] = "commit"
        /\ db' = Visible(w)
        /\ doomed' = [v \in Writers |-> IF v = w THEN {} ELSE doomed[v] \ gone[w]]
        /\ Over(w)
        /\ meddled' = {v \in Writers \ {w} : pc[v] # "idle"}
        /\ placed' = {p \in Pubs :
               /\ PubRow(p) \in db'
               /\ \/ p # o.pub /\ p \in placed
                  \/ p = o.pub /\ o.stage \in Stages
                  \/ p = o.pub /\ o.stage = Keep /\ p \in placed}
    /\ UNCHANGED <<begun, overlapped>>

Next == \E w \in Writers :
    \/ Begin(w) \/ Create(w) \/ StartMove(w) \/ Move(w)
    \/ FindRelations(w) \/ Unrelate(w) \/ FindOrphans(w)
    \/ DeletePubs(w) \/ Relate(w) \/ Commit(w) \/ Abort(w)

Spec == Init /\ [][Next]_vars

-----------------------------------------------------------------------------
(* Properties.                                                             *)

\* A pub that was last put into a stage is in one, and in no second one unless
\* two moves of it overlapped: movePub deletes only the rows that it saw when
\* it began.
OneStage ==
    \A p \in Pubs : PubRow(p) \in db =>
        LET stages == {s \in Stages : StageRow(p, s) \in db}
        IN  /\ p \in placed => stages # {}
            /\ p \notin overlapped => \A s, t \in stages : s = t

\* The relations that w's operation removes, those that are beside them, and
\* the pubs down from the disconnected ones.
Cut(w) == {r \in db \intersect ValueRows : r[2] = op[w].pub /\ r[3] \in op[w].unrelate}
Beside(w) == Related(db \ Cut(w))
Tree(w) == Down(Beside(w), {r[3] : r \in Cut(w)})

\* w commits a clean-up that had the database for itself.
CleansUp(w) ==
    /\ pc[w] = "commit" /\ op[w].deleteOrphaned /\ Cut(w) # {}
    /\ w \notin meddled
    /\ db' = Visible(w) /\ pc'[w] = "idle"

PubsOf(S) == {p \in Pubs : PubRow(p) \in S}

\* The pubs that the commit deletes.
DeletedPubs == PubsOf(db) \ PubsOf(db')

\* Whoever is kept of the tree can still be reached from outside of it, or has
\* no value at all: the clean-up never sees a disconnected pub without values.
DeletesOrphans(w) ==
    \A p \in Tree(w) \intersect PubsOf(db') :
        \/ p \in Down(Related(db'), PubsOf(db) \ Tree(w))
        \/ ~\E r \in (db \ Cut(w)) \intersect ValueRows : r[2] = p

\* Whoever is deleted is of the tree, is not itself the target of a relation
\* from outside, and hangs from a disconnected pub by relations of deleted pubs.
SparesRelated(w) ==
    /\ DeletedPubs \subseteq Tree(w)
    /\ \A e \in Beside(w) : e[2] \in DeletedPubs => e[1] \in Tree(w)
    /\ DeletedPubs \subseteq Down({e \in Beside(w) : {e[1], e[2]} \subseteq DeletedPubs},
                                  {r[3] : r \in Cut(w)} \intersect DeletedPubs)

\* deleteOrphaned (processRelations, cleanupOrphanedPubs) leaves no orphan behind,
\* whatever circles and diamonds there are below the disconnected pubs: an orphan
\* does not save another one, nor itself by a circle.
OrphansAreDeleted == [][\A w \in Writers : CleansUp(w) => DeletesOrphans(w)]_vars

\* deleteOrphaned spares who is related from outside the tree, and who lies below
\* the disconnected pubs only by way of somebody who is spared.  It is less than
\* the second rule of cleanupOrphanedPubs, "not reachable from any other pub not in
\* the tree", which the code does not keep: a pub with two ways down to it, one
\* through a spared pub and one beside it, is deleted although it is reachable.
RelatedPubsAreSpared == [][\A w \in Writers : CleansUp(w) => SparesRelated(w)]_vars
=============================================================================
