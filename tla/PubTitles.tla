------------------------------ MODULE PubTitles ------------------------------
(***************************************************************************)
(* The title of a pub, which two database triggers derive: one on          *)
(* pub_values sets it from the value of the title field, one on            *)
(* _PubFieldToPubType sets it anew when the title field of the pub type    *)
(* changes.  Pubs are written by PubOp and the functions of pub.ts, the    *)
(* pub type by updatePubType, in transactions under READ COMMITTED.        *)
(*                                                                         *)
(* A statement that changes rows is two steps here: the rows, with what    *)
(* its trigger reads to work out the titles; and the trigger's UPDATE of   *)
(* pubs, which waits for the rows of pubs that others have locked and then *)
(* writes what was worked out before the wait.                             *)
(***************************************************************************)
EXTENDS Naturals

CONSTANTS
    Pubs,       \* pubs of one type
    Fields,     \* its fields
    Values,     \* values of the fields, and titles
    Writers,    \* transactions at one time
    ValueOps,   \* bound: what is asked of PubOp
    MaxOps,     \* bound on the number of transactions
    None        \* no row, SQL NULL, no field is the title

Maybe == Values \union {None}

\* What a transaction does to the values of a pub: it creates the pub or not,
\* deletes the values of other fields (deleteExistingValues) or of the fields
\* of drop (relations), and upserts those of set.
ValueOp == [pub : Pubs, create : BOOLEAN, replace : BOOLEAN,
            drop : SUBSET Fields, set : [Fields -> Maybe]]

ASSUME PubTitlesAssumption ==
    /\ None \notin Values /\ None \notin Fields
    /\ ValueOps \subseteq ValueOp
    /\ MaxOps \in Nat

VARIABLES
    pubs,       \* the committed rows of pubs
    title,      \* their title
    value,      \* pub_values, None where there is no row
    titleField, \* the field of the type that isTitle
    pc,         \* the statement each writer is at
    op,         \* of values, or the new title field of the type
    draft,      \* the rows its transaction has written
    doomed,     \* fields whose values it selected, to delete them
    tmp,        \* tmp_affected_pubs: <<>>, or the value of the pub's title row
    pending,    \* the titles its trigger worked out and is about to write
    begun,
    raced,      \* ghost: pubs whose title was worked out before a commit of
                \* somebody else's and written after it
    restored    \* ghost: pubs whose title value was deleted by a transaction
                \* that went on to write other values

committed == <<pubs, title, value, titleField>>
locals == <<op, draft, doomed, tmp, pending>>
vars == <<committed, pc, locals, begun, raced, restored>>

Rows == Pubs \X Fields
Partial(S, T) == UNION {[D -> T] : D \in SUBSET S}
NoRows == [x \in {} |-> None]

\* field is a sequence of at most one: the rows of _PubFieldToPubType are not
\* written, or name this title field.
Untouched == [pubs |-> {}, title |-> NoRows, value |-> NoRows, field |-> <<>>]

AtMostOne(S) == {<<>>} \union {<<x>> : x \in S}

TypeOK ==
    /\ pubs \subseteq Pubs
    /\ title \in [Pubs -> Maybe] /\ value \in [Rows -> Maybe]
    /\ titleField \in Fields \union {None}
    /\ pc \in [Writers -> {"idle", "create", "find", "clear", "upsert", "unset", "set",
                           "commit", "title after clear", "title after upsert",
                           "title after unset"}]
    /\ \A w \in Writers :
           /\ draft[w].pubs \subseteq Pubs
           /\ draft[w].title \in Partial(Pubs, Maybe)
           /\ draft[w].value \in Partial(Rows, Maybe)
           /\ draft[w].field \in AtMostOne(Fields \union {None})
           /\ doomed[w] \subseteq Fields
           /\ tmp[w] \in AtMostOne(Values)
           /\ pending[w] \in Partial(Pubs, Maybe)
           /\ pc[w] = "idle" => draft[w] = Untouched /\ tmp[w] = <<>>
    /\ begun \in 0..MaxOps
    /\ raced \subseteq Pubs /\ restored \subseteq Pubs

\* Any pubs with any values, whose titles are right.
Init ==
    /\ pubs \in SUBSET Pubs
    /\ value \in {v \in [Rows -> Maybe] : \A r \in Rows : r[1] \notin pubs => v[r] = None}
    /\ titleField \in Fields \union {None}
    /\ title = [p \in Pubs |-> IF titleField = None THEN None ELSE value[p, titleField]]
    /\ pc = [w \in Writers |-> "idle"]
    /\ op = [w \in Writers |-> None]
    /\ draft = [w \in Writers |-> Untouched]
    /\ doomed = [w \in Writers |-> {}]
    /\ tmp = [w \in Writers |-> <<>>]
    /\ pending = [w \in Writers |-> NoRows]
    /\ begun = 0 /\ raced = {} /\ restored = {}

-----------------------------------------------------------------------------
(* What a statement of w reads, and the rows others have locked.           *)

Onto(f, g) == [x \in DOMAIN f \union DOMAIN g |-> IF x \in DOMAIN f THEN f[x] ELSE g[x]]

SeenPubs(w) == pubs \union draft[w].pubs
SeenTitle(w, p) == Onto(draft[w].title, title)[p]
SeenValue(w, p, f) == Onto(draft[w].value, value)[p, f]
SeenField(w) == IF draft[w].field = <<>> THEN titleField ELSE draft[w].field[1]

PubsFree(w, P) == \A v \in Writers \ {w} : P \intersect (DOMAIN draft[v].title \union draft[v].pubs) = {}
ValuesFree(w, R) == \A v \in Writers \ {w} : R \intersect DOMAIN draft[v].value = {}
TypeFree(w) == \A v \in Writers \ {w} : draft[v].field = <<>>

Goto(w, s) == pc' = [pc EXCEPT ![w] = s]

\* The statement of a value operation after s.
AfterFind(o) == IF \E f \in Fields : o.set[f] # None THEN "upsert" ELSE "commit"
AfterCreate(o) == IF o.replace \/ o.drop # {} THEN "find" ELSE AfterFind(o)

WriteValues(w, f) == draft' = [draft EXCEPT ![w].value = Onto(f, @)]
WriteField(w, f) == draft' = [draft EXCEPT ![w].field = <<f>>]

-----------------------------------------------------------------------------
(* Transactions.                                                           *)

\* An upsert of a pub that is there already inserts nothing.
BeginValues(w) ==
    /\ pc[w] = "idle" /\ begun < MaxOps
    /\ begun' = begun + 1
    /\ \E o \in ValueOps :
           /\ o.create = (o.pub \notin pubs)
           /\ op' = [op EXCEPT ![w] = o]
           /\ Goto(w, IF o.create THEN "create" ELSE AfterCreate(o))
    /\ UNCHANGED <<committed, draft, doomed, tmp, pending, raced, restored>>

\* updatePubType with the flags of all fields: with a title among them they
\* are all unset first.
BeginType(w) ==
    /\ pc[w] = "idle" /\ begun < MaxOps
    /\ begun' = begun + 1
    /\ \E f \in Fields \union {None} :
           /\ op' = [op EXCEPT ![w] = f]
           /\ Goto(w, IF f # None THEN "unset" ELSE "set")
    /\ UNCHANGED <<committed, draft, doomed, tmp, pending, raced, restored>>

\* Mutant of Dropped: the temporary table outlives the transaction.
TableKept(t) == t

\* tmp_affected_pubs is ON COMMIT DROP.
Dropped(t) == <<>>

Over(w) ==
    /\ Goto(w, "idle")
    /\ op' = [op EXCEPT ![w] = None]
    /\ draft' = [draft EXCEPT ![w] = Untouched]
    /\ doomed' = [doomed EXCEPT ![w] = {}]
    /\ tmp' = [tmp EXCEPT ![w] = Dropped(@)]
    /\ pending' = [pending EXCEPT ![w] = NoRows]

\* A constraint, a deadlock, a lost connection.
Abort(w) ==
    /\ pc[w] # "idle"
    /\ Over(w)
    /\ UNCHANGED <<committed, begun, raced, restored>>

\* The pubs that others are about to write titles of, and this commit changes;
\* and pubs inserted by one of two overlapping transactions of which the other
\* changes the title field, neither of which sees what the other does.
Overtaken(w) ==
    {p \in Pubs : \E v \in Writers \ {w} :
        \/ p \in DOMAIN pending[v] /\ p \in DOMAIN draft[w].title
        \/ p \in DOMAIN pending[v] \union draft[v].pubs /\ draft[w].field # <<>>
        \/ p \in draft[w].pubs /\ draft[v].field # <<>> /\ pc[v] # "set"}

Commit(w) ==
    /\ pc[w] = "commit"
    /\ pubs' = SeenPubs(w)
    /\ title' = Onto(draft[w].title, title)
    /\ value' = Onto(draft[w].value, value)
    /\ titleField' = SeenField(w)
    /\ raced' = raced \union Overtaken(w)
    /\ Over(w)
    /\ UNCHANGED <<begun, restored>>

-----------------------------------------------------------------------------
(* update_pub_for_value_changes.                                           *)

\* Mutant of NewTitle: as it was before migration 20241219131700.
TitleOfRows(t, old, deletes) == IF deletes \/ t = <<>> THEN None ELSE t[1]

\* The title of a pub, from its row of the temporary table, its old title and
\* whether the statement is a DELETE.
NewTitle(t, old, deletes) ==
    IF t = <<>> THEN old ELSE IF deletes THEN None ELSE t[1]

\* The trigger has the rows of op's pub, for these fields: the value that the
\* title field's row has, or had, goes to the temporary table and stays there.
ValuesTrigger(w, fields, rows, deletes) ==
    LET p == op[w].pub
        f == SeenField(w)
        t == IF f \in fields THEN <<rows[p, f]>> ELSE tmp[w]
    IN  /\ tmp' = [tmp EXCEPT ![w] = t]
        /\ pending' = [pending EXCEPT ![w] =
               [q \in {p} |-> NewTitle(t, SeenTitle(w, p), deletes)]]

\* UPDATE "pubs", when nobody else has the rows locked.
SetTitles(w) ==
    /\ pc[w] \in {"title after clear", "title after upsert", "title after unset"}
    /\ PubsFree(w, DOMAIN pending[w])
    /\ draft' = [draft EXCEPT ![w].title = Onto(pending[w], @)]
    /\ pending' = [pending EXCEPT ![w] = NoRows]
    /\ Goto(w, CASE pc[w] = "title after clear" -> AfterFind(op[w])
                 [] pc[w] = "title after unset" -> "set"
                 [] OTHER -> "commit")
    /\ UNCHANGED <<committed, op, doomed, tmp, begun, raced, restored>>

-----------------------------------------------------------------------------
(* Statements on values.                                                   *)

\* createAllPubs: INSERT ... ON CONFLICT DO NOTHING, which waits for another
\* insert of the same pub.  For a create the conflict is an error, as in Abort.
CreatePub(w) ==
    /\ pc[w] = "create"
    /\ \A v \in Writers \ {w} : op[w].pub \notin draft[v].pubs
    /\ draft' = [draft EXCEPT ![w].pubs = @ \union ({op[w].pub} \ pubs)]
    /\ Goto(w, AfterCreate(op[w]))
    /\ UNCHANGED <<committed, op, doomed, tmp, pending, begun, raced, restored>>

\* processValues selects the values that are not updated, if values are to be
\* deleted; processRelations the relations to remove.
FindValues(w) ==
    LET o == op[w]
        found == {f \in Fields : /\ SeenValue(w, o.pub, f) # None
                                 /\ \/ o.replace /\ o.set[f] = None
                                    \/ f \in o.drop}
    IN  /\ pc[w] = "find"
        /\ doomed' = [doomed EXCEPT ![w] = found]
        /\ Goto(w, IF found = {} THEN AfterFind(o) ELSE "clear")
        /\ UNCHANGED <<committed, op, draft, tmp, pending, begun, raced, restored>>

\* deletePubValuesByValueId: DELETE, of what is still there.
ClearValues(w) ==
    LET p == op[w].pub
        there == {f \in doomed[w] : SeenValue(w, p, f) # None}
        old == [r \in {p} \X there |-> SeenValue(w, p, r[2])]
    IN  /\ pc[w] = "clear"
        /\ ValuesFree(w, {p} \X doomed[w])
        /\ WriteValues(w, [r \in {p} \X there |-> None])
        /\ IF there = {}
           THEN Goto(w, AfterFind(op[w])) /\ UNCHANGED <<tmp, pending>>
           ELSE Goto(w, "title after clear") /\ ValuesTrigger(w, there, old, TRUE)
        /\ doomed' = [doomed EXCEPT ![w] = {}]
        /\ UNCHANGED <<committed, op, begun, raced, restored>>

\* upsertPubValues: INSERT ... ON CONFLICT DO UPDATE.  The triggers for the
\* inserted and for the updated rows come to the same as one for all of them.
UpsertValues(w) ==
    LET p == op[w].pub
        fields == {f \in Fields : op[w].set[f] # None}
        new == [r \in {p} \X fields |-> op[w].set[r[2]]]
    IN  /\ pc[w] = "upsert"
        /\ ValuesFree(w, {p} \X fields)
        /\ WriteValues(w, new)
        /\ ValuesTrigger(w, fields, new, FALSE)
        /\ Goto(w, "title after upsert")
        /\ restored' = IF tmp[w] # <<>> /\ SeenField(w) \notin fields
                       THEN restored \union {p} ELSE restored
        /\ UNCHANGED <<committed, op, doomed, begun, raced>>

-----------------------------------------------------------------------------
(* updatePubType and update_pub_title_for_pub_type.                        *)

\* The trigger runs if a row's isTitle has changed, for all pubs it can see.
TypeTrigger(w, f) ==
    pending' = [pending EXCEPT ![w] =
        IF f = SeenField(w) THEN NoRows
        ELSE [p \in SeenPubs(w) |-> IF f = None THEN None ELSE SeenValue(w, p, f)]]

\* UPDATE ... SET "isTitle" = false for all fields of the type
UnsetTitle(w) ==
    /\ pc[w] = "unset"
    /\ TypeFree(w)
    /\ WriteField(w, None)
    /\ TypeTrigger(w, None)
    /\ Goto(w, "title after unset")
    /\ UNCHANGED <<committed, op, doomed, tmp, begun, raced, restored>>

\* INSERT ... ON CONFLICT DO UPDATE with the flags
SetTitleField(w) ==
    /\ pc[w] = "set"
    /\ TypeFree(w)
    /\ WriteField(w, op[w])
    /\ TypeTrigger(w, op[w])
    /\ Goto(w, "title after upsert")
    /\ UNCHANGED <<committed, op, doomed, tmp, begun, raced, restored>>

Next == \E w \in Writers :
    \/ BeginValues(w) \/ BeginType(w) \/ CreatePub(w) \/ FindValues(w)
    \/ ClearValues(w) \/ UpsertValues(w) \/ UnsetTitle(w) \/ SetTitleField(w)
    \/ SetTitles(w) \/ Commit(w) \/ Abort(w)

Spec == Init /\ [][Next]_vars

-----------------------------------------------------------------------------
(* Properties.                                                             *)

\* The title of a pub is the value of its type's title field.  Two exceptions,
\* and no other way to a wrong title: another transaction on the pub, or on its
\* type, committed while a trigger waited for the pub or while the pub was not
\* committed yet; and a transaction deleted the title's value and then wrote
\* other values, when its temporary table still has the deleted one.
TitleFollowsValue ==
    \A p \in pubs \ (raced \union restored) :
        title[p] = IF titleField = None THEN None ELSE value[p, titleField]
=============================================================================
