--------------------------- MODULE PubTitles_proofs ---------------------------
(***************************************************************************)
(* Proofs about PubTitles, for any pubs, fields, values and writers: every *)
(* variable keeps its type, and the title of a pub follows the value of    *)
(* the title field but for the two exceptions that TitleFollowsValue names.*)
(***************************************************************************)
EXTENDS PubTitles, TLAPS

-----------------------------------------------------------------------------
(* The inductive invariant.                                                *)

Draft == [pubs : SUBSET Pubs, title : Partial(Pubs, Maybe),
          value : Partial(Rows, Maybe), field : AtMostOne(Fields \union {None})]

Statements ==
    {"idle", "create", "find", "clear", "upsert", "unset", "set", "commit",
     "title after clear", "title after upsert", "title after unset"}

Types ==
    /\ pubs \subseteq Pubs
    /\ title \in [Pubs -> Maybe] /\ value \in [Rows -> Maybe]
    /\ titleField \in Fields \union {None}
    /\ pc \in [Writers -> Statements]
    /\ op \in [Writers -> ValueOps \union Fields \union {None}]
    /\ draft \in [Writers -> Draft]
    /\ doomed \in [Writers -> SUBSET Fields]
    /\ tmp \in [Writers -> AtMostOne(Values)]
    /\ pending \in [Writers -> Partial(Pubs, Maybe)]
    /\ begun \in 0..MaxOps
    /\ raced \subseteq Pubs /\ restored \subseteq Pubs

\* What one transaction has locked no other one writes.
Locks ==
    /\ \A v, w \in Writers : v # w =>
           /\ DOMAIN draft[v].title \intersect DOMAIN draft[w].title = {}
           /\ draft[v].pubs \intersect draft[w].pubs = {}
           /\ draft[v].field = <<>> \/ draft[w].field = <<>>
    /\ \A w \in Writers : draft[w].pubs \intersect pubs = {}

\* Who is not there has neither title nor values.
Absent == \A p \in Pubs \ pubs : title[p] = None /\ \A f \in Fields : value[p, f] = None

Bad == raced \union restored

RightTitle(f, rows, p) == IF f = None THEN None ELSE rows[p, f]

View(w) == Onto(draft[w].value, value)

OfType(w) == pc[w] \in {"unset", "title after unset", "set"} \/ draft[w].field # <<>>
OfValues(w) == pc[w] # "idle" /\ ~OfType(w)

Before == {"create", "find", "clear"}
Awaiting == {"title after clear", "title after upsert"}
Between == {"upsert", "commit"}

\* A transaction writes about pubs that it sees.
Seen(w) ==
    /\ DOMAIN draft[w].title \subseteq SeenPubs(w)
    /\ DOMAIN pending[w] \subseteq SeenPubs(w)
    /\ \A p \in Pubs, f \in Fields : <<p, f>> \in DOMAIN draft[w].value => p \in SeenPubs(w)

\* A value operation keeps to its pub; what it has written of values it has
\* written a title for, or is about to.
ValuesShape(w) ==
    OfValues(w) =>
        /\ op[w] \in ValueOps
        /\ pc[w] \in Before \union Awaiting \union Between
        /\ pc[w] # "create" => op[w].pub \in SeenPubs(w)
        /\ draft[w].pubs \subseteq {op[w].pub}
        /\ DOMAIN draft[w].title \subseteq {op[w].pub}
        /\ \A p \in Pubs, f \in Fields : <<p, f>> \in DOMAIN draft[w].value => p = op[w].pub
        /\ pc[w] \in Before =>
               tmp[w] = <<>> /\ DOMAIN draft[w].title = {} /\ DOMAIN draft[w].value = {}
        /\ pc[w] \in Before \union Between => DOMAIN pending[w] = {}
        /\ pc[w] \in Awaiting => DOMAIN pending[w] = {op[w].pub}
        /\ pc[w] \in Between /\ DOMAIN draft[w].title = {} => DOMAIN draft[w].value = {}

\* The title it is about to write, or has written, is right in its own view.
ValuesView(w) ==
    OfValues(w) /\ op[w].pub \notin Bad =>
        /\ pc[w] \in Awaiting =>
               pending[w][op[w].pub] = RightTitle(titleField, View(w), op[w].pub)
        /\ pc[w] \in Between /\ op[w].pub \in DOMAIN draft[w].title =>
               draft[w].title[op[w].pub] = RightTitle(titleField, View(w), op[w].pub)

TypeShape(w) ==
    OfType(w) =>
        /\ op[w] \in Fields \union {None}
        /\ pc[w] \in {"unset", "title after unset", "set", "title after upsert", "commit"}
        /\ draft[w].pubs = {} /\ DOMAIN draft[w].value = {}
        /\ pc[w] = "unset" => /\ op[w] # None /\ draft[w].field = <<>>
                              /\ DOMAIN draft[w].title = {}
        /\ pc[w] = "title after unset" => op[w] # None /\ draft[w].field = <<None>>
        /\ pc[w] = "set" => \/ op[w] # None /\ draft[w].field = <<None>>
                            \/ /\ op[w] = None /\ draft[w].field = <<>>
                               /\ DOMAIN draft[w].title = {}
        /\ pc[w] \in {"unset", "set", "commit"} => DOMAIN pending[w] = {}

\* A new title field that does change something comes with the titles of all pubs.
TypeView(w) ==
    draft[w].field # <<>> =>
        LET f == draft[w].field[1]
        IN  \/ f = None /\ titleField = None /\ DOMAIN pending[w] = {} /\ DOMAIN draft[w].title = {}
            \/ \A p \in pubs \ Bad :
                   /\ pc[w] = "title after upsert" =>
                          p \in DOMAIN pending[w] /\ pending[w][p] = RightTitle(f, value, p)
                   /\ pc[w] = "commit" =>
                          p \in DOMAIN draft[w].title /\ draft[w].title[p] = RightTitle(f, value, p)

AtRest(w) ==
    pc[w] = "idle" => draft[w] = Untouched /\ tmp[w] = <<>> /\ DOMAIN pending[w] = {}

Each(w) == Seen(w) /\ ValuesShape(w) /\ ValuesView(w) /\ TypeShape(w) /\ TypeView(w) /\ AtRest(w)

IInv == Types /\ Locks /\ Absent /\ TitleFollowsValue /\ \A w \in Writers : Each(w)

-----------------------------------------------------------------------------
(* Data.                                                                   *)

\* A partial function is a function from part of the set.
LEMMA PartialIs ==
  ASSUME NEW S, NEW T, NEW f
  PROVE  f \in Partial(S, T) <=> DOMAIN f \subseteq S /\ f \in [DOMAIN f -> T]
BY DEF Partial

\* Nothing is a partial function.
LEMMA NoRowsIs ==
  ASSUME NEW S, NEW T
  PROVE  NoRows \in Partial(S, T) /\ DOMAIN NoRows = {}
BY PartialIs DEF NoRows

\* What Onto gives: f where it is defined, else g.
LEMMA OntoPartial ==
  ASSUME NEW S, NEW T, NEW f \in Partial(S, T), NEW g \in Partial(S, T)
  PROVE  /\ Onto(f, g) \in Partial(S, T)
         /\ DOMAIN Onto(f, g) = DOMAIN f \union DOMAIN g
         /\ \A x \in DOMAIN f : Onto(f, g)[x] = f[x]
         /\ \A x \in DOMAIN g \ DOMAIN f : Onto(f, g)[x] = g[x]
BY PartialIs DEF Onto

LEMMA OntoTotal ==
  ASSUME NEW S, NEW T, NEW f \in Partial(S, T), NEW g \in [S -> T]
  PROVE  /\ Onto(f, g) \in [S -> T]
         /\ \A x \in DOMAIN f : Onto(f, g)[x] = f[x]
         /\ \A x \in S \ DOMAIN f : Onto(f, g)[x] = g[x]
BY PartialIs DEF Onto

\* Of a draft one part is changed.
LEMMA TitleWritten ==
  ASSUME draft \in [Writers -> Draft], NEW w \in Writers, NEW x \in Partial(Pubs, Maybe),
         draft' = [draft EXCEPT ![w].title = x]
  PROVE  /\ draft' \in [Writers -> Draft]
         /\ \A v \in Writers : v # w => draft'[v] = draft[v]
         /\ draft'[w].title = x /\ draft'[w].pubs = draft[w].pubs
         /\ draft'[w].value = draft[w].value /\ draft'[w].field = draft[w].field
<1> DEFINE P == Partial(Pubs, Maybe)
           R == Partial(Rows, Maybe)
           F == AtMostOne(Fields \union {None})
<1>1. Draft = [pubs : SUBSET Pubs, title : P, value : R, field : F]  BY DEF Draft
<1> HIDE DEF P, R, F
<1>2. x \in P  BY DEF P
<1> QED  BY <1>1, <1>2

LEMMA ValueWritten ==
  ASSUME draft \in [Writers -> Draft], NEW w \in Writers, NEW x \in Partial(Rows, Maybe),
         draft' = [draft EXCEPT ![w].value = x]
  PROVE  /\ draft' \in [Writers -> Draft]
         /\ \A v \in Writers : v # w => draft'[v] = draft[v]
         /\ draft'[w].value = x /\ draft'[w].pubs = draft[w].pubs
         /\ draft'[w].title = draft[w].title /\ draft'[w].field = draft[w].field
<1> DEFINE P == Partial(Pubs, Maybe)
           R == Partial(Rows, Maybe)
           F == AtMostOne(Fields \union {None})
<1>1. Draft = [pubs : SUBSET Pubs, title : P, value : R, field : F]  BY DEF Draft
<1> HIDE DEF P, R, F
<1>2. x \in R  BY DEF R
<1> QED  BY <1>1, <1>2

LEMMA PubsWritten ==
  ASSUME draft \in [Writers -> Draft], NEW w \in Writers, NEW x \in SUBSET Pubs,
         draft' = [draft EXCEPT ![w].pubs = x]
  PROVE  /\ draft' \in [Writers -> Draft]
         /\ \A v \in Writers : v # w => draft'[v] = draft[v]
         /\ draft'[w].pubs = x /\ draft'[w].title = draft[w].title
         /\ draft'[w].value = draft[w].value /\ draft'[w].field = draft[w].field
<1> DEFINE P == Partial(Pubs, Maybe)
           R == Partial(Rows, Maybe)
           F == AtMostOne(Fields \union {None})
<1>1. Draft = [pubs : SUBSET Pubs, title : P, value : R, field : F]  BY DEF Draft
<1> HIDE DEF P, R, F
<1> QED  BY <1>1

LEMMA FieldWritten ==
  ASSUME draft \in [Writers -> Draft], NEW w \in Writers, NEW x \in Fields \union {None},
         draft' = [draft EXCEPT ![w].field = <<x>>]
  PROVE  /\ draft' \in [Writers -> Draft]
         /\ \A v \in Writers : v # w => draft'[v] = draft[v]
         /\ draft'[w].field = <<x>> /\ draft'[w].pubs = draft[w].pubs
         /\ draft'[w].value = draft[w].value /\ draft'[w].title = draft[w].title
<1> DEFINE P == Partial(Pubs, Maybe)
           R == Partial(Rows, Maybe)
           F == AtMostOne(Fields \union {None})
<1>1. Draft = [pubs : SUBSET Pubs, title : P, value : R, field : F]  BY DEF Draft
<1>2. <<x>> \in F  BY DEF AtMostOne, F
<1> HIDE DEF P, R, F
<1> QED  BY <1>1, <1>2

LEMMA UntouchedIs ==
  /\ Untouched \in Draft
  /\ Untouched.pubs = {} /\ DOMAIN Untouched.title = {} /\ DOMAIN Untouched.value = {}
  /\ Untouched.field = <<>>
<1>1. NoRows \in Partial(Pubs, Maybe) /\ NoRows \in Partial(Rows, Maybe) /\ DOMAIN NoRows = {}
  BY NoRowsIs
<1>2. <<>> \in AtMostOne(Fields \union {None})  BY DEF AtMostOne
<1> QED  BY <1>1, <1>2 DEF Untouched, Draft

\* The parts of a draft.
LEMMA DraftIs ==
  ASSUME Types, NEW w \in Writers
  PROVE  /\ draft[w].pubs \subseteq Pubs
         /\ draft[w].title \in Partial(Pubs, Maybe)
         /\ draft[w].value \in Partial(Rows, Maybe)
         /\ draft[w].field \in AtMostOne(Fields \union {None})
BY DEF Types, Draft

LEMMA TypesOK == Types /\ (\A w \in Writers : AtRest(w)) => TypeOK
<1> SUFFICES ASSUME Types, \A w \in Writers : AtRest(w)  PROVE TypeOK
  OBVIOUS
<1>1. ASSUME NEW w \in Writers
      PROVE  /\ draft[w].pubs \subseteq Pubs
             /\ draft[w].title \in Partial(Pubs, Maybe)
             /\ draft[w].value \in Partial(Rows, Maybe)
             /\ draft[w].field \in AtMostOne(Fields \union {None})
             /\ doomed[w] \subseteq Fields
             /\ tmp[w] \in AtMostOne(Values)
             /\ pending[w] \in Partial(Pubs, Maybe)
             /\ pc[w] = "idle" => draft[w] = Untouched /\ tmp[w] = <<>>
  BY <1>1, DraftIs DEF Types, AtRest
<1> QED  BY <1>1 DEF Types, TypeOK, Statements

-----------------------------------------------------------------------------
(* Steps that commit nothing.                                              *)

\* Initially nobody has begun and the titles are right.
LEMMA InitIInv == Init => IInv
<1> SUFFICES ASSUME Init PROVE IInv
  OBVIOUS
<1> USE PubTitlesAssumption
<1>1. Types
  <2>1. title \in [Pubs -> Maybe]  BY DEF Init, Rows, Maybe
  <2>2. NoRows \in Partial(Pubs, Maybe)  BY NoRowsIs
  <2>3. <<>> \in AtMostOne(Values)  BY DEF AtMostOne
  <2>4. draft \in [Writers -> Draft]  BY UntouchedIs DEF Init
  <2>5. pc \in [Writers -> Statements] /\ doomed \in [Writers -> SUBSET Fields]
    BY DEF Init, Statements
  <2>6. op \in [Writers -> ValueOps \union Fields \union {None}]
    BY DEF Init
  <2>7. tmp \in [Writers -> AtMostOne(Values)] /\ pending \in [Writers -> Partial(Pubs, Maybe)]
    BY <2>2, <2>3 DEF Init
  <2>8. value \in [Rows -> Maybe]  BY DEF Init
  <2>9. begun \in 0..MaxOps
    <3>1. MaxOps \in Nat  OBVIOUS
    <3>2. begun = 0  BY DEF Init
    <3> QED  BY <3>1, <3>2, SMT
  <2> QED  BY <2>1, <2>4, <2>5, <2>6, <2>7, <2>8, <2>9 DEF Init, Types
<1>2. \A w \in Writers : draft[w] = Untouched /\ pc[w] = "idle" /\ tmp[w] = <<>> /\ pending[w] = NoRows
  BY DEF Init
<1>3. Locks /\ \A w \in Writers : Each(w)
  BY <1>2, UntouchedIs, NoRowsIs
     DEF Locks, Each, Seen, ValuesShape, ValuesView, TypeShape, TypeView, AtRest, OfType, OfValues
<1>4. Absent
  BY DEF Init, Absent, Rows
<1>5. TitleFollowsValue
  BY DEF Init, TitleFollowsValue
<1> QED  BY <1>1, <1>3, <1>4, <1>5 DEF IInv

\* A step of w in its transaction.
Moves(w) ==
    /\ UNCHANGED <<pubs, title, value, titleField, raced>> /\ restored \subseteq restored'
    /\ \A v \in Writers \ {w} :
           /\ pc'[v] = pc[v] /\ op'[v] = op[v] /\ draft'[v] = draft[v]
           /\ tmp'[v] = tmp[v] /\ pending'[v] = pending[v]
           /\ DOMAIN draft'[w].title \intersect DOMAIN draft[v].title = {}
           /\ draft'[w].pubs \intersect draft[v].pubs = {}
           /\ draft'[w].field = <<>> \/ draft[v].field = <<>>
    /\ draft'[w].pubs \intersect pubs = {}

\* It disturbs nobody else.
LEMMA Moved ==
  ASSUME IInv, NEW w \in Writers, Types', Moves(w), Each(w)'
  PROVE  IInv'
<1>1. Locks'
  BY DEF IInv, Locks, Moves
<1>2. Absent' /\ TitleFollowsValue'
  BY DEF IInv, Absent, TitleFollowsValue, Moves
<1>3. ASSUME NEW v \in Writers, v # w  PROVE Each(v)'
  <2>1. Each(v) /\ v \in Writers \ {w}  BY <1>3 DEF IInv
  <2>2. /\ pubs' = pubs /\ title' = title /\ value' = value /\ titleField' = titleField
        /\ pc'[v] = pc[v] /\ op'[v] = op[v] /\ draft'[v] = draft[v]
        /\ tmp'[v] = tmp[v] /\ pending'[v] = pending[v]
        /\ Bad \subseteq Bad'
    BY <2>1 DEF Moves, Bad
  <2>3. Seen(v)' /\ ValuesShape(v)' /\ TypeShape(v)' /\ AtRest(v)'
    BY <2>1, <2>2 DEF Each, Seen, SeenPubs, ValuesShape, TypeShape, AtRest, OfType, OfValues
  <2>4. ValuesView(v)'
    BY <2>1, <2>2 DEF Each, ValuesView, View, OfType, OfValues
  <2>5. TypeView(v)'
    BY <2>1, <2>2 DEF Each, TypeView
  <2> QED  BY <2>3, <2>4, <2>5 DEF Each
<1> QED  BY <1>1, <1>2, <1>3 DEF IInv

\* What AfterCreate and AfterFind choose.
LEMMA NextStatements ==
  ASSUME NEW o
  PROVE  AfterFind(o) \in Between /\ AfterCreate(o) \in {"find", "upsert", "commit"}
BY DEF AfterFind, AfterCreate, Between

LEMMA OpIs ==
  ASSUME NEW o \in ValueOps
  PROVE  o.pub \in Pubs /\ o.set \in [Fields -> Maybe]
BY PubTitlesAssumption DEF ValueOp

LEMMA BeginValuesIInv ==
  ASSUME IInv, NEW w \in Writers, BeginValues(w)
  PROVE  IInv'
<1>1. PICK o \in ValueOps : /\ o.create = (o.pub \notin pubs)
                           /\ op' = [op EXCEPT ![w] = o]
                           /\ Goto(w, IF o.create THEN "create" ELSE AfterCreate(o))
  BY DEF BeginValues
<1>2. Types /\ Locks /\ Each(w)  BY DEF IInv
<1>3. /\ pc[w] = "idle" /\ begun < MaxOps /\ begun' = begun + 1
      /\ UNCHANGED <<pubs, title, value, titleField, draft, doomed, tmp, pending, raced, restored>>
  BY DEF BeginValues, committed
<1>4. draft[w] = Untouched /\ tmp[w] = <<>> /\ DOMAIN pending[w] = {}
  BY <1>2, <1>3 DEF Each, AtRest
<1>5. /\ o.pub \in Pubs
      /\ pc'[w] \in {"create", "find", "upsert", "commit"}
      /\ pc'[w] # "create" => o.pub \in pubs
      /\ pc' \in [Writers -> Statements] /\ \A v \in Writers \ {w} : pc'[v] = pc[v]
  BY <1>1, <1>2, NextStatements, OpIs DEF Goto, Types, Statements, Between
<1>6. /\ op'[w] = o /\ op' \in [Writers -> ValueOps \union Fields \union {None}]
      /\ \A v \in Writers \ {w} : op'[v] = op[v]
  BY <1>1, <1>2 DEF Types
<1>7. begun' \in 0..MaxOps
  BY <1>2, <1>3, PubTitlesAssumption, SMT DEF Types
<1>8. Types'
  BY <1>2, <1>3, <1>5, <1>6, <1>7 DEF Types
<1>9. Moves(w)
  BY <1>2, <1>3, <1>4, <1>5, <1>6, UntouchedIs DEF Moves, Locks
<1>10. Each(w)'
  <2>1. Seen(w)' /\ AtRest(w)' /\ TypeView(w)'
    BY <1>3, <1>4, <1>5, UntouchedIs DEF Seen, AtRest, TypeView
  <2>2. ~OfType(w)'
    BY <1>3, <1>4, <1>5, UntouchedIs DEF OfType
  <2>3. ValuesShape(w)'
    BY <1>1, <1>3, <1>4, <1>5, <1>6, UntouchedIs
       DEF ValuesShape, Before, Between, Awaiting, SeenPubs
  <2>4. ValuesView(w)'
    BY <1>3, <1>4, <1>5, UntouchedIs DEF ValuesView, Awaiting
  <2> QED  BY <2>1, <2>2, <2>3, <2>4 DEF Each, TypeShape
<1> QED  BY <1>8, <1>9, <1>10, Moved

LEMMA BeginTypeIInv ==
  ASSUME IInv, NEW w \in Writers, BeginType(w)
  PROVE  IInv'
<1>1. PICK f \in Fields \union {None} : /\ op' = [op EXCEPT ![w] = f]
                                       /\ Goto(w, IF f # None THEN "unset" ELSE "set")
  BY DEF BeginType
<1>2. Types /\ Locks /\ Each(w)  BY DEF IInv
<1>3. /\ pc[w] = "idle" /\ begun < MaxOps /\ begun' = begun + 1
      /\ UNCHANGED <<pubs, title, value, titleField, draft, doomed, tmp, pending, raced, restored>>
  BY DEF BeginType, committed
<1>4. draft[w] = Untouched /\ tmp[w] = <<>> /\ DOMAIN pending[w] = {}
  BY <1>2, <1>3 DEF Each, AtRest
<1>5. /\ pc'[w] = IF f # None THEN "unset" ELSE "set"
      /\ pc' \in [Writers -> Statements] /\ \A v \in Writers \ {w} : pc'[v] = pc[v]
  BY <1>1, <1>2 DEF Goto, Types, Statements
<1>6. /\ op'[w] = f /\ op' \in [Writers -> ValueOps \union Fields \union {None}]
      /\ \A v \in Writers \ {w} : op'[v] = op[v]
  BY <1>1, <1>2 DEF Types
<1>7. begun' \in 0..MaxOps
  BY <1>2, <1>3, PubTitlesAssumption, SMT DEF Types
<1>8. Types'
  BY <1>2, <1>3, <1>5, <1>6, <1>7 DEF Types
<1>9. Moves(w)
  BY <1>2, <1>3, <1>4, <1>5, <1>6, UntouchedIs DEF Moves, Locks
<1>10. Each(w)'
  <2>1. Seen(w)' /\ AtRest(w)' /\ TypeView(w)'
    BY <1>3, <1>4, <1>5, UntouchedIs DEF Seen, AtRest, TypeView
  <2>2. OfType(w)'
    BY <1>5 DEF OfType
  <2>3. TypeShape(w)'
    BY <1>3, <1>4, <1>5, <1>6, UntouchedIs DEF TypeShape
  <2> QED  BY <2>1, <2>2, <2>3 DEF Each, ValuesShape, ValuesView, OfValues
<1> QED  BY <1>8, <1>9, <1>10, Moved

LEMMA Went ==
  ASSUME Types, NEW w \in Writers, NEW s \in Statements, Goto(w, s)
  PROVE  /\ pc' \in [Writers -> Statements] /\ pc'[w] = s
         /\ \A v \in Writers \ {w} : pc'[v] = pc[v]
BY DEF Types, Goto

LEMMA CreatePubIInv ==
  ASSUME IInv, NEW w \in Writers, CreatePub(w)
  PROVE  IInv'
<1> DEFINE p == op[w].pub
           s == AfterCreate(op[w])
<1>1. Types /\ Locks /\ Each(w)  BY DEF IInv
<1>2. /\ pc[w] = "create" /\ \A v \in Writers \ {w} : p \notin draft[v].pubs
      /\ Goto(w, s)
      /\ draft' = [draft EXCEPT ![w].pubs = draft[w].pubs \union ({p} \ pubs)]
      /\ UNCHANGED <<pubs, title, value, titleField, op, doomed, tmp, pending, begun, raced, restored>>
  BY DEF CreatePub, committed
<1>3. OfValues(w) /\ pc[w] \in Before
  BY <1>1, <1>2 DEF Each, TypeShape, OfType, OfValues, Before
<1>4. /\ op[w] \in ValueOps /\ draft[w].pubs \subseteq {p} /\ draft[w].field = <<>>
      /\ tmp[w] = <<>> /\ DOMAIN draft[w].title = {} /\ DOMAIN draft[w].value = {}
      /\ DOMAIN pending[w] = {}
  BY <1>1, <1>3 DEF Each, ValuesShape, OfValues, OfType
<1>5. p \in Pubs  BY <1>4, OpIs
<1>6. s \in {"find", "upsert", "commit"}  BY NextStatements
<1>7. /\ pc' \in [Writers -> Statements] /\ pc'[w] = s
      /\ \A v \in Writers \ {w} : pc'[v] = pc[v]
  BY <1>1, <1>2, <1>6, Went DEF Statements
<1>8. draft \in [Writers -> Draft] /\ draft[w].pubs \union ({p} \ pubs) \in SUBSET Pubs
  BY <1>1, <1>4, <1>5 DEF Types
<1>9. /\ draft' \in [Writers -> Draft]
      /\ \A v \in Writers : v # w => draft'[v] = draft[v]
      /\ draft'[w].pubs = draft[w].pubs \union ({p} \ pubs) /\ draft'[w].title = draft[w].title
      /\ draft'[w].value = draft[w].value /\ draft'[w].field = draft[w].field
  BY <1>2, <1>8, PubsWritten
<1>10. Types'
  BY <1>1, <1>2, <1>7, <1>9 DEF Types
<1>11. Moves(w)
  BY <1>1, <1>2, <1>4, <1>7, <1>9 DEF Moves, Locks
<1>12. Each(w)'
  <2>1. Seen(w)' /\ AtRest(w)' /\ TypeView(w)'
    BY <1>2, <1>4, <1>6, <1>7, <1>9 DEF Seen, AtRest, TypeView
  <2>2. ~OfType(w)'
    BY <1>4, <1>6, <1>7, <1>9 DEF OfType
  <2>3. ValuesShape(w)'
    BY <1>2, <1>4, <1>6, <1>7, <1>9 DEF ValuesShape, Before, Between, Awaiting, SeenPubs
  <2>4. ValuesView(w)'
    BY <1>4, <1>6, <1>7, <1>9 DEF ValuesView, Awaiting
  <2> QED  BY <2>1, <2>2, <2>3, <2>4 DEF Each, TypeShape
<1> QED  BY <1>10, <1>11, <1>12, Moved

LEMMA FindValuesIInv ==
  ASSUME IInv, NEW w \in Writers, FindValues(w)
  PROVE  IInv'
<1>1. Types /\ Locks /\ Each(w)  BY DEF IInv
<1>2. /\ pc[w] = "find"
      /\ UNCHANGED <<pubs, title, value, titleField, op, draft, tmp, pending, begun, raced, restored>>
  BY DEF FindValues, committed
<1>3. PICK found \in SUBSET Fields :
          /\ doomed' = [doomed EXCEPT ![w] = found]
          /\ Goto(w, IF found = {} THEN AfterFind(op[w]) ELSE "clear")
  <2> DEFINE F == {f \in Fields : /\ SeenValue(w, op[w].pub, f) # None
                                 /\ \/ op[w].replace /\ op[w].set[f] = None
                                    \/ f \in op[w].drop}
  <2>1. F \in SUBSET Fields  OBVIOUS
  <2> QED  BY <2>1 DEF FindValues
<1>4. OfValues(w) /\ pc[w] \in Before
  BY <1>1, <1>2 DEF Each, TypeShape, OfType, OfValues, Before
<1>5. /\ op[w] \in ValueOps /\ draft[w].pubs \subseteq {op[w].pub} /\ draft[w].field = <<>>
      /\ tmp[w] = <<>> /\ DOMAIN draft[w].title = {} /\ DOMAIN draft[w].value = {}
      /\ DOMAIN pending[w] = {} /\ op[w].pub \in SeenPubs(w)
  BY <1>1, <1>2, <1>4 DEF Each, ValuesShape, OfValues, OfType
<1>6. /\ pc' \in [Writers -> Statements] /\ pc'[w] \in {"clear", "upsert", "commit"}
      /\ \A v \in Writers \ {w} : pc'[v] = pc[v]
  BY <1>1, <1>3, NextStatements, Went DEF Statements, Between
<1>7. doomed' \in [Writers -> SUBSET Fields]
  BY <1>1, <1>3 DEF Types
<1>8. Types'
  BY <1>1, <1>2, <1>6, <1>7 DEF Types
<1>9. Moves(w)
  BY <1>1, <1>2, <1>6 DEF Moves, Locks
<1>10. Each(w)'
  <2>1. Seen(w)' /\ AtRest(w)' /\ TypeView(w)'
    BY <1>2, <1>5, <1>6 DEF Seen, AtRest, TypeView
  <2>2. ~OfType(w)'
    BY <1>2, <1>5, <1>6 DEF OfType
  <2>3. ValuesShape(w)'
    BY <1>2, <1>5, <1>6 DEF ValuesShape, Before, Between, Awaiting, SeenPubs
  <2>4. ValuesView(w)'
    BY <1>2, <1>5, <1>6 DEF ValuesView, Awaiting
  <2> QED  BY <2>1, <2>2, <2>3, <2>4 DEF Each, TypeShape
<1> QED  BY <1>8, <1>9, <1>10, Moved

\* After Over a transaction has left nothing.
LEMMA OverIs ==
  ASSUME Types, NEW w \in Writers, Over(w)
  PROVE  /\ pc' \in [Writers -> Statements] /\ draft' \in [Writers -> Draft]
         /\ op' \in [Writers -> ValueOps \union Fields \union {None}]
         /\ doomed' \in [Writers -> SUBSET Fields]
         /\ tmp' \in [Writers -> AtMostOne(Values)]
         /\ pending' \in [Writers -> Partial(Pubs, Maybe)]
         /\ \A v \in Writers \ {w} :
                /\ pc'[v] = pc[v] /\ op'[v] = op[v] /\ draft'[v] = draft[v]
                /\ tmp'[v] = tmp[v] /\ pending'[v] = pending[v]
         /\ draft'[w] = Untouched
         /\ Each(w)'
<1>1. /\ pc' \in [Writers -> Statements] /\ pc'[w] = "idle"
      /\ \A v \in Writers \ {w} : pc'[v] = pc[v]
  BY Went DEF Over, Statements
<1>2. /\ draft' \in [Writers -> Draft] /\ draft'[w] = Untouched
      /\ \A v \in Writers \ {w} : draft'[v] = draft[v]
  BY UntouchedIs DEF Over, Types
<1>3. /\ op' \in [Writers -> ValueOps \union Fields \union {None}]
      /\ \A v \in Writers \ {w} : op'[v] = op[v]
  BY DEF Over, Types
<1>4. doomed' \in [Writers -> SUBSET Fields]
  BY DEF Over, Types
<1>5. /\ tmp' \in [Writers -> AtMostOne(Values)] /\ tmp'[w] = <<>>
      /\ \A v \in Writers \ {w} : tmp'[v] = tmp[v]
  BY DEF Over, Types, Dropped, AtMostOne
<1>6. /\ pending' \in [Writers -> Partial(Pubs, Maybe)] /\ DOMAIN pending'[w] = {}
      /\ \A v \in Writers \ {w} : pending'[v] = pending[v]
  BY NoRowsIs DEF Over, Types
<1>7. Each(w)'
  BY <1>1, <1>2, <1>5, <1>6, UntouchedIs
     DEF Each, Seen, ValuesShape, ValuesView, TypeShape, TypeView, AtRest, OfType, OfValues
<1> QED  BY <1>1, <1>2, <1>3, <1>4, <1>5, <1>6, <1>7

LEMMA AbortIInv ==
  ASSUME IInv, NEW w \in Writers, Abort(w)
  PROVE  IInv'
<1>1. Types /\ Locks  BY DEF IInv
<1>2. Over(w) /\ UNCHANGED <<pubs, title, value, titleField, begun, raced, restored>>
  BY DEF Abort, committed
<1>3. Types'
  BY <1>1, <1>2, OverIs DEF Types
<1>4. Each(w)'
  BY <1>1, <1>2, OverIs
<1>5. Moves(w)
  BY <1>1, <1>2, OverIs, UntouchedIs DEF Moves, Locks
<1> QED  BY <1>3, <1>4, <1>5, Moved

LEMMA SetTitlesIInv ==
  ASSUME IInv, NEW w \in Writers, SetTitles(w)
  PROVE  IInv'
<1> DEFINE new == Onto(pending[w], draft[w].title)
           s == CASE pc[w] = "title after clear" -> AfterFind(op[w])
                  [] pc[w] = "title after unset" -> "set"
                  [] OTHER -> "commit"
<1>1. Types /\ Locks /\ Each(w)  BY DEF IInv
<1>2. /\ pc[w] \in {"title after clear", "title after upsert", "title after unset"}
      /\ PubsFree(w, DOMAIN pending[w])
      /\ draft' = [draft EXCEPT ![w].title = new]
      /\ pending' = [pending EXCEPT ![w] = NoRows]
      /\ Goto(w, s)
      /\ UNCHANGED <<pubs, title, value, titleField, op, doomed, tmp, begun, raced, restored>>
  BY DEF SetTitles, committed
<1>3. /\ pc[w] = "title after clear" => s \in Between
      /\ pc[w] = "title after unset" => s = "set"
      /\ pc[w] = "title after upsert" => s = "commit"
  BY <1>2, NextStatements
<1>4. /\ pc' \in [Writers -> Statements] /\ pc'[w] = s
      /\ \A v \in Writers \ {w} : pc'[v] = pc[v]
  <2>1. s \in Statements  BY <1>2, <1>3 DEF Between, Statements
  <2> HIDE DEF s
  <2> QED  BY <1>1, <1>2, <2>1, Went
<1> HIDE DEF s
<1>5. /\ new \in Partial(Pubs, Maybe)
      /\ DOMAIN new = DOMAIN pending[w] \union DOMAIN draft[w].title
      /\ \A x \in DOMAIN pending[w] : new[x] = pending[w][x]
      /\ \A x \in DOMAIN draft[w].title \ DOMAIN pending[w] : new[x] = draft[w].title[x]
  <2>1. pending[w] \in Partial(Pubs, Maybe) /\ draft[w].title \in Partial(Pubs, Maybe)
    BY <1>1, DraftIs DEF Types
  <2>2. ASSUME NEW f \in Partial(Pubs, Maybe), NEW g \in Partial(Pubs, Maybe)
        PROVE  /\ Onto(f, g) \in Partial(Pubs, Maybe)
               /\ DOMAIN Onto(f, g) = DOMAIN f \union DOMAIN g
               /\ \A x \in DOMAIN f : Onto(f, g)[x] = f[x]
               /\ \A x \in DOMAIN g \ DOMAIN f : Onto(f, g)[x] = g[x]
    BY <2>2, OntoPartial
  <2> QED  BY <2>1, <2>2
<1> HIDE DEF new
<1>6. /\ draft' \in [Writers -> Draft]
      /\ \A v \in Writers : v # w => draft'[v] = draft[v]
      /\ draft'[w].title = new /\ draft'[w].pubs = draft[w].pubs
      /\ draft'[w].value = draft[w].value /\ draft'[w].field = draft[w].field
  BY <1>1, <1>2, <1>5, TitleWritten DEF Types
<1>7. /\ pending' \in [Writers -> Partial(Pubs, Maybe)] /\ DOMAIN pending'[w] = {}
      /\ \A v \in Writers \ {w} : pending'[v] = pending[v]
  BY <1>1, <1>2, NoRowsIs DEF Types
<1>8. Types'
  BY <1>1, <1>2, <1>4, <1>6, <1>7 DEF Types
<1>9. Moves(w)
  <2>1. \A v \in Writers \ {w} : DOMAIN pending[w] \intersect DOMAIN draft[v].title = {}
    BY <1>2 DEF PubsFree
  <2>2. \A v \in Writers \ {w} : DOMAIN draft'[w].title \intersect DOMAIN draft[v].title = {}
    BY <1>1, <1>5, <1>6, <2>1 DEF Locks
  <2> QED  BY <1>1, <1>2, <1>4, <1>6, <1>7, <2>2 DEF Moves, Locks
<1>10. Seen(w)' /\ AtRest(w)'
  <2>1. pc'[w] # "idle"  BY <1>2, <1>3, <1>4 DEF Between
  <2> QED  BY <1>1, <1>2, <1>5, <1>6, <1>7, <2>1 DEF Each, Seen, SeenPubs, AtRest
<1>11. CASE OfType(w)
  <2>1. TypeShape(w)' /\ OfType(w)'
    BY <1>1, <1>2, <1>3, <1>4, <1>6, <1>7, <1>11 DEF Each, TypeShape, OfType
  <2>2. TypeView(w)'
    <3>1. CASE pc[w] = "title after unset"
      BY <1>3, <1>4, <3>1 DEF TypeView
    <3>2. CASE pc[w] = "title after upsert"
      <4> DEFINE f == draft[w].field[1]
      <4>1. SUFFICES ASSUME draft[w].field # <<>>  PROVE TypeView(w)'
        BY <1>6 DEF TypeView
      <4>2. pc'[w] = "commit" /\ draft'[w].field = draft[w].field
        BY <1>3, <1>4, <1>6, <3>2
      <4>3. \/ f = None /\ titleField = None /\ DOMAIN pending[w] = {} /\ DOMAIN draft[w].title = {}
            \/ \A p \in pubs \ Bad : p \in DOMAIN pending[w] /\ pending[w][p] = RightTitle(f, value, p)
        BY <1>1, <3>2, <4>1 DEF Each, TypeView
      <4>4. CASE f = None /\ titleField = None /\ DOMAIN pending[w] = {} /\ DOMAIN draft[w].title = {}
        BY <1>2, <1>5, <1>6, <1>7, <4>2, <4>4 DEF TypeView
      <4>5. CASE \A p \in pubs \ Bad : p \in DOMAIN pending[w] /\ pending[w][p] = RightTitle(f, value, p)
        <5>1. \A p \in pubs \ Bad : p \in DOMAIN new /\ new[p] = RightTitle(f, value, p)
          BY <1>5, <4>5
        <5>2. Bad' = Bad /\ pubs' = pubs /\ value' = value  BY <1>2 DEF Bad
        <5>3. \A p \in (pubs \ Bad)' : p \in DOMAIN draft'[w].title
                                      /\ draft'[w].title[p] = RightTitle(draft'[w].field[1], value', p)
          BY <1>6, <4>2, <5>1, <5>2
        <5> QED  BY <4>2, <5>3 DEF TypeView, RightTitle
      <4> QED  BY <4>3, <4>4, <4>5
    <3>3. TypeShape(w)  BY <1>1 DEF Each
    <3>4. pc[w] # "title after clear"  BY <1>11, <3>3 DEF TypeShape
    <3> QED  BY <1>2, <3>1, <3>2, <3>4
  <2> QED  BY <1>8, <1>9, <1>10, <2>1, <2>2, Moved DEF Each, ValuesShape, ValuesView, OfValues
<1>12. CASE ~OfType(w)
  <2>1. OfValues(w) /\ pc[w] \in Awaiting /\ draft[w].field = <<>>
    BY <1>2, <1>12 DEF OfValues, OfType, Awaiting
  <2>2. pc'[w] \in Between
    BY <1>2, <1>3, <1>4, <2>1 DEF Awaiting, Between
  <2>3. ~OfType(w)' /\ OfValues(w)'
    BY <1>6, <2>1, <2>2 DEF OfType, OfValues, Between
  <2>4. DOMAIN pending[w] = {op[w].pub} /\ DOMAIN draft[w].title \subseteq {op[w].pub}
    BY <1>1, <2>1 DEF Each, ValuesShape
  <2>5. ValuesShape(w)'
    BY <1>1, <1>2, <1>5, <1>6, <1>7, <2>1, <2>2, <2>4
       DEF Each, ValuesShape, SeenPubs, Before, Between, Awaiting
  <2>6. ValuesView(w)'
    <3>1. View(w)' = View(w)  BY <1>2, <1>6 DEF View
    <3> QED
      BY <1>1, <1>2, <1>5, <1>6, <2>1, <2>2, <2>4, <3>1
         DEF Each, ValuesView, Bad, Between, Awaiting, RightTitle
  <2>7. TypeView(w)'
    BY <1>6, <2>1 DEF TypeView
  <2> QED  BY <1>8, <1>9, <1>10, <2>3, <2>5, <2>6, <2>7, Moved DEF Each, TypeShape
<1> QED  BY <1>11, <1>12

-----------------------------------------------------------------------------
(* Statements on values.                                                   *)

\* The committed title of a pub that has not gone wrong, or is not there yet.
LEMMA CommittedRight ==
  ASSUME IInv, NEW p \in Pubs \ Bad
  PROVE  title[p] = RightTitle(titleField, value, p)
<1>1. CASE p \in pubs
  BY <1>1 DEF IInv, TitleFollowsValue, Bad, RightTitle
<1>2. CASE p \notin pubs
  <2>1. title[p] = None /\ \A f \in Fields : value[p, f] = None
    BY <1>2 DEF IInv, Absent
  <2>2. titleField \in Fields \union {None}  BY DEF IInv, Types
  <2> QED  BY <2>1, <2>2 DEF RightTitle
<1> QED  BY <1>1, <1>2

\* What a transaction sees after it has written W.
LEMMA ViewWritten ==
  ASSUME Types, NEW w \in Writers, NEW W \in Partial(Rows, Maybe),
         draft' = [draft EXCEPT ![w].value = Onto(W, draft[w].value)], value' = value
  PROVE  /\ draft' \in [Writers -> Draft]
         /\ \A v \in Writers : v # w => draft'[v] = draft[v]
         /\ draft'[w].pubs = draft[w].pubs /\ draft'[w].title = draft[w].title
         /\ draft'[w].field = draft[w].field
         /\ DOMAIN draft'[w].value = DOMAIN W \union DOMAIN draft[w].value
         /\ \A r \in Rows : View(w)'[r] = IF r \in DOMAIN W THEN W[r] ELSE View(w)[r]
<1> DEFINE X == Onto(W, draft[w].value)
<1>1. draft[w].value \in Partial(Rows, Maybe)  BY DraftIs
<1>2. ASSUME NEW f \in Partial(Rows, Maybe), NEW g \in Partial(Rows, Maybe)
      PROVE  /\ Onto(f, g) \in Partial(Rows, Maybe)
             /\ DOMAIN Onto(f, g) = DOMAIN f \union DOMAIN g
             /\ \A x \in DOMAIN f : Onto(f, g)[x] = f[x]
             /\ \A x \in DOMAIN g \ DOMAIN f : Onto(f, g)[x] = g[x]
  BY <1>2, OntoPartial
<1>3. /\ X \in Partial(Rows, Maybe) /\ DOMAIN X = DOMAIN W \union DOMAIN draft[w].value
      /\ \A x \in DOMAIN W : X[x] = W[x]
      /\ \A x \in DOMAIN draft[w].value \ DOMAIN W : X[x] = draft[w].value[x]
  BY <1>1, <1>2
<1> HIDE DEF X
<1>4. draft' = [draft EXCEPT ![w].value = X]  BY DEF X
<1>5. /\ draft' \in [Writers -> Draft]
      /\ \A v \in Writers : v # w => draft'[v] = draft[v]
      /\ draft'[w].value = X /\ draft'[w].pubs = draft[w].pubs
      /\ draft'[w].title = draft[w].title /\ draft'[w].field = draft[w].field
  BY <1>3, <1>4, ValueWritten DEF Types
<1>6. ASSUME NEW f \in Partial(Rows, Maybe)
      PROVE  /\ \A x \in DOMAIN f : Onto(f, value)[x] = f[x]
             /\ \A x \in Rows \ DOMAIN f : Onto(f, value)[x] = value[x]
  <2>1. value \in [Rows -> Maybe]  BY DEF Types
  <2> QED  BY <1>6, <2>1, OntoTotal
<1>7. View(w)' = Onto(X, value) /\ View(w) = Onto(draft[w].value, value)
  BY <1>5 DEF View
<1>8. ASSUME NEW r \in Rows
      PROVE  View(w)'[r] = IF r \in DOMAIN W THEN W[r] ELSE View(w)[r]
  BY <1>1, <1>3, <1>6, <1>7
<1> QED  BY <1>3, <1>5, <1>8

\* What the trigger leaves.
LEMMA Triggered ==
  ASSUME Types, NEW w \in Writers, op[w].pub \in Pubs, NEW F \in SUBSET Fields, NEW rows,
         \A f \in F : rows[op[w].pub, f] \in Values, NEW deletes \in BOOLEAN,
         draft[w].field = <<>>, ValuesTrigger(w, F, rows, deletes)
  PROVE  /\ tmp' \in [Writers -> AtMostOne(Values)]
         /\ pending' \in [Writers -> Partial(Pubs, Maybe)]
         /\ \A v \in Writers \ {w} : tmp'[v] = tmp[v] /\ pending'[v] = pending[v]
         /\ tmp'[w] = IF titleField \in F THEN <<rows[op[w].pub, titleField]>> ELSE tmp[w]
         /\ DOMAIN pending'[w] = {op[w].pub}
         /\ pending'[w][op[w].pub] = NewTitle(tmp'[w], SeenTitle(w, op[w].pub), deletes)
<1> DEFINE p == op[w].pub
           t == IF titleField \in F THEN <<rows[p, titleField]>> ELSE tmp[w]
           n == NewTitle(t, SeenTitle(w, p), deletes)
<1>1. SeenField(w) = titleField  BY DEF SeenField
<1>2. /\ tmp' = [tmp EXCEPT ![w] = t]
      /\ pending' = [pending EXCEPT ![w] = [q \in {p} |-> n]]
  BY <1>1 DEF ValuesTrigger
<1>3. t \in AtMostOne(Values)
  <2>1. tmp[w] \in AtMostOne(Values)  BY DEF Types
  <2> QED  BY <2>1 DEF AtMostOne
<1>4. SeenTitle(w, p) \in Maybe
  <2>1. draft[w].title \in Partial(Pubs, Maybe) /\ title \in [Pubs -> Maybe]
    BY DraftIs DEF Types
  <2>2. ASSUME NEW f \in Partial(Pubs, Maybe), NEW g \in [Pubs -> Maybe]
        PROVE  Onto(f, g) \in [Pubs -> Maybe]
    BY <2>2, OntoTotal
  <2>3. Onto(draft[w].title, title) \in [Pubs -> Maybe]  BY <2>1, <2>2
  <2> QED  BY <2>3 DEF SeenTitle
<1> HIDE DEF t
<1>5. n \in Maybe
  <2>1. \A x \in Values : <<x>>[1] = x  OBVIOUS
  <2>2. t = <<>> \/ t[1] \in Values  BY <1>3, <2>1 DEF AtMostOne
  <2>3. NewTitle(t, SeenTitle(w, p), deletes) \in Maybe  BY <1>4, <2>2 DEF NewTitle, Maybe
  <2> QED  BY <2>3
<1> HIDE DEF n
<1>6. [q \in {p} |-> n] \in Partial(Pubs, Maybe)
  BY <1>5, PartialIs
<1>7. /\ tmp' \in [Writers -> AtMostOne(Values)] /\ tmp'[w] = t
      /\ \A v \in Writers \ {w} : tmp'[v] = tmp[v]
  BY <1>2, <1>3 DEF Types
<1>8. /\ pending' \in [Writers -> Partial(Pubs, Maybe)] /\ pending'[w] = [q \in {p} |-> n]
      /\ \A v \in Writers \ {w} : pending'[v] = pending[v]
  BY <1>2, <1>6 DEF Types
<1>9. DOMAIN pending'[w] = {p} /\ pending'[w][p] = n
  BY <1>8
<1>10. n = NewTitle(tmp'[w], SeenTitle(w, p), deletes)
  BY <1>7 DEF n
<1>11. tmp'[w] = IF titleField \in F THEN <<rows[p, titleField]>> ELSE tmp[w]
  BY <1>7 DEF t
<1> QED  BY <1>7, <1>8, <1>9, <1>10, <1>11

\* The part a value operation's own transaction plays in any of its statements.
LEMMA OwnValues ==
  ASSUME IInv, NEW w \in Writers, OfValues(w), pc[w] # "create"
  PROVE  /\ op[w] \in ValueOps /\ op[w].pub \in Pubs /\ op[w].set \in [Fields -> Maybe]
         /\ draft[w].field = <<>> /\ op[w].pub \in SeenPubs(w)
         /\ draft[w].pubs \subseteq {op[w].pub}
         /\ DOMAIN draft[w].title \subseteq {op[w].pub}
         /\ \A p \in Pubs, f \in Fields : <<p, f>> \in DOMAIN draft[w].value => p = op[w].pub
         /\ pc[w] \in Before =>
                tmp[w] = <<>> /\ DOMAIN draft[w].title = {} /\ DOMAIN draft[w].value = {}
         /\ pc[w] \in Before \union Between => DOMAIN pending[w] = {}
         /\ pc[w] \in Between /\ DOMAIN draft[w].title = {} => DOMAIN draft[w].value = {}
<1>1. ValuesShape(w)  BY DEF IInv, Each
<1>2. op[w] \in ValueOps  BY <1>1 DEF ValuesShape
<1>3. op[w].pub \in Pubs /\ op[w].set \in [Fields -> Maybe]  BY <1>2, OpIs
<1>4. draft[w].field = <<>>  BY DEF OfValues, OfType
<1> QED  BY <1>1, <1>2, <1>3, <1>4 DEF ValuesShape

\* Who has written no values sees the committed ones.
LEMMA ViewUnwritten ==
  ASSUME Types, NEW w \in Writers, DOMAIN draft[w].value = {}, NEW r \in Rows
  PROVE  View(w)[r] = value[r]
<1>1. draft[w].value \in Partial(Rows, Maybe) /\ value \in [Rows -> Maybe]
  BY DraftIs DEF Types
<1>2. ASSUME NEW f \in Partial(Rows, Maybe), NEW g \in [Rows -> Maybe]
      PROVE  \A x \in Rows \ DOMAIN f : Onto(f, g)[x] = g[x]
  BY <1>2, OntoTotal
<1> QED  BY <1>1, <1>2 DEF View

\* Before a statement on values the title it sees is right for the values it sees.
LEMMA SeenRight ==
  ASSUME IInv, NEW w \in Writers, OfValues(w), pc[w] \in {"clear", "upsert"},
         op[w].pub \notin Bad
  PROVE  SeenTitle(w, op[w].pub) = RightTitle(titleField, View(w), op[w].pub)
<1> DEFINE p == op[w].pub
<1>1. Types /\ Each(w)  BY DEF IInv
<1>2. pc[w] \in Before \union Between /\ pc[w] # "create"  BY DEF Before, Between
<1>3. p \in Pubs  BY <1>2, OwnValues
<1>4. ASSUME NEW f \in Partial(Pubs, Maybe), NEW g \in [Pubs -> Maybe]
      PROVE  /\ \A x \in DOMAIN f : Onto(f, g)[x] = f[x]
             /\ \A x \in Pubs \ DOMAIN f : Onto(f, g)[x] = g[x]
  BY <1>4, OntoTotal
<1>5. draft[w].title \in Partial(Pubs, Maybe) /\ title \in [Pubs -> Maybe]
  BY <1>1, DraftIs DEF Types
<1>6. CASE p \in DOMAIN draft[w].title
  <2>1. SeenTitle(w, p) = draft[w].title[p]  BY <1>4, <1>5, <1>6 DEF SeenTitle
  <2>2. pc[w] \in Between  BY <1>2, <1>6, OwnValues
  <2> QED  BY <1>1, <1>6, <2>1, <2>2 DEF Each, ValuesView
<1>7. CASE p \notin DOMAIN draft[w].title
  <2>1. SeenTitle(w, p) = title[p]  BY <1>3, <1>4, <1>5, <1>7 DEF SeenTitle
  <2>2. DOMAIN draft[w].title = {}  BY <1>2, <1>7, OwnValues
  <2>3. DOMAIN draft[w].value = {}  BY <1>2, <2>2, OwnValues
  <2>4. \A r \in Rows : View(w)[r] = value[r]
    BY <1>1, <2>3, ViewUnwritten
  <2>5. title[p] = RightTitle(titleField, value, p)  BY <1>3, CommittedRight
  <2>6. titleField \in Fields \union {None}  BY <1>1 DEF Types
  <2>7. RightTitle(titleField, View(w), p) = RightTitle(titleField, value, p)
    BY <1>3, <2>4, <2>6 DEF RightTitle, Rows
  <2> QED  BY <2>1, <2>5, <2>7
<1> QED  BY <1>6, <1>7

\* A statement that has written W and whose trigger has worked out a right title
\* preserves the invariant.
LEMMA ValuesStep ==
  ASSUME IInv, NEW w \in Writers, OfValues(w), pc[w] \in {"clear", "upsert"},
         NEW W \in Partial(Rows, Maybe),
         \A p \in Pubs, f \in Fields : <<p, f>> \in DOMAIN W => p = op[w].pub,
         draft' = [draft EXCEPT ![w].value = Onto(W, draft[w].value)],
         UNCHANGED <<pubs, title, value, titleField, op, begun, raced>>,
         doomed' \in [Writers -> SUBSET Fields],
         restored \subseteq restored', restored' \subseteq Pubs,
         NEW s \in Awaiting, Goto(w, s),
         tmp' \in [Writers -> AtMostOne(Values)],
         pending' \in [Writers -> Partial(Pubs, Maybe)],
         \A v \in Writers \ {w} : tmp'[v] = tmp[v] /\ pending'[v] = pending[v],
         DOMAIN pending'[w] = {op[w].pub},
         op[w].pub \notin Bad' =>
             pending'[w][op[w].pub] = RightTitle(titleField, View(w)', op[w].pub)
  PROVE  IInv'
<1>1. Types /\ Locks /\ Each(w)  BY DEF IInv
<1>2. /\ draft' \in [Writers -> Draft]
      /\ \A v \in Writers : v # w => draft'[v] = draft[v]
      /\ draft'[w].pubs = draft[w].pubs /\ draft'[w].title = draft[w].title
      /\ draft'[w].field = draft[w].field
      /\ DOMAIN draft'[w].value = DOMAIN W \union DOMAIN draft[w].value
  BY <1>1, ViewWritten
<1>3. /\ pc' \in [Writers -> Statements] /\ pc'[w] = s
      /\ \A v \in Writers \ {w} : pc'[v] = pc[v]
  BY <1>1, Went DEF Statements, Awaiting
<1>4. /\ op[w] \in ValueOps /\ draft[w].field = <<>> /\ op[w].pub \in SeenPubs(w)
      /\ draft[w].pubs \subseteq {op[w].pub} /\ DOMAIN draft[w].title \subseteq {op[w].pub}
      /\ \A p \in Pubs, f \in Fields : <<p, f>> \in DOMAIN draft[w].value => p = op[w].pub
  BY OwnValues
<1>5. Types'
  BY <1>1, <1>2, <1>3 DEF Types
<1>6. Moves(w)
  BY <1>1, <1>2, <1>3 DEF Moves, Locks
<1>7. Seen(w)' /\ AtRest(w)' /\ TypeView(w)'
  BY <1>2, <1>3, <1>4 DEF Seen, SeenPubs, AtRest, TypeView, Awaiting
<1>8. OfValues(w)' /\ ~OfType(w)'
  BY <1>2, <1>3, <1>4 DEF OfValues, OfType, Awaiting
<1>9. ValuesShape(w)'
  BY <1>2, <1>3, <1>4 DEF ValuesShape, SeenPubs, Before, Between, Awaiting
<1>10. ValuesView(w)'
  BY <1>3 DEF ValuesView, Between, Awaiting
<1> QED  BY <1>5, <1>6, <1>7, <1>8, <1>9, <1>10, Moved DEF Each, TypeShape

LEMMA ClearValuesIInv ==
  ASSUME IInv, NEW w \in Writers, ClearValues(w)
  PROVE  IInv'
<1> DEFINE p == op[w].pub
           there == {f \in doomed[w] : SeenValue(w, p, f) # None}
           old == [r \in {p} \X there |-> SeenValue(w, p, r[2])]
           W == [r \in {p} \X there |-> None]
<1>1. Types /\ Locks /\ Each(w)  BY DEF IInv
<1>2. /\ pc[w] = "clear"
      /\ draft' = [draft EXCEPT ![w].value = Onto(W, draft[w].value)]
      /\ IF there = {} THEN Goto(w, AfterFind(op[w])) /\ UNCHANGED <<tmp, pending>>
                       ELSE Goto(w, "title after clear") /\ ValuesTrigger(w, there, old, TRUE)
      /\ doomed' = [doomed EXCEPT ![w] = {}]
      /\ UNCHANGED <<pubs, title, value, titleField, op, begun, raced, restored>>
  BY DEF ClearValues, WriteValues, committed
<1>3. OfValues(w) /\ pc[w] \in Before
  BY <1>1, <1>2 DEF Each, TypeShape, OfType, OfValues, Before
<1>4. /\ op[w] \in ValueOps /\ p \in Pubs /\ draft[w].field = <<>> /\ p \in SeenPubs(w)
      /\ draft[w].pubs \subseteq {p} /\ tmp[w] = <<>> /\ DOMAIN draft[w].title = {}
      /\ DOMAIN draft[w].value = {} /\ DOMAIN pending[w] = {}
  BY <1>2, <1>3, OwnValues
<1>5. doomed' \in [Writers -> SUBSET Fields] /\ there \in SUBSET Fields
  BY <1>1, <1>2 DEF Types
<1>6. ASSUME NEW f \in Fields
      PROVE  SeenValue(w, p, f) = View(w)[p, f] /\ SeenValue(w, p, f) \in Maybe
  <2>1. draft[w].value \in Partial(Rows, Maybe) /\ value \in [Rows -> Maybe]
    BY <1>1, DraftIs DEF Types
  <2>2. ASSUME NEW g \in Partial(Rows, Maybe), NEW h \in [Rows -> Maybe]
        PROVE  Onto(g, h) \in [Rows -> Maybe]
    BY <2>2, OntoTotal
  <2>3. View(w) \in [Rows -> Maybe]  BY <2>1, <2>2 DEF View
  <2>4. SeenValue(w, p, f) = View(w)[p, f]  BY DEF SeenValue, View
  <2>5. <<p, f>> \in Rows  BY <1>4 DEF Rows
  <2> QED  BY <2>3, <2>4, <2>5
<1>7. \A f \in there : old[p, f] \in Values
  <2>1. \A f \in there : SeenValue(w, p, f) \in Values  BY <1>5, <1>6 DEF Maybe
  <2> HIDE DEF there
  <2> QED  BY <2>1
<1> HIDE DEF there
<1>8. /\ W \in Partial(Rows, Maybe)
      /\ \A q \in Pubs, f \in Fields : <<q, f>> \in DOMAIN W <=> q = p /\ f \in there
      /\ \A r \in DOMAIN W : W[r] = None
  <2>1. {p} \X there \subseteq Rows  BY <1>4, <1>5 DEF Rows
  <2>2. W \in [{p} \X there -> Maybe] /\ DOMAIN W = {p} \X there  BY DEF Maybe
  <2>3. W \in Partial(Rows, Maybe)  BY <2>1, <2>2, PartialIs
  <2> QED  BY <2>3
<1> HIDE DEF W, old
<1>9. CASE there = {}
  <2> DEFINE s == AfterFind(op[w])
  <2>1. s \in Between  BY NextStatements
  <2>2. /\ pc' \in [Writers -> Statements] /\ pc'[w] = s
        /\ \A v \in Writers \ {w} : pc'[v] = pc[v]
    BY <1>1, <1>2, <1>9, <2>1, Went DEF Statements, Between
  <2> HIDE DEF s
  <2>3. /\ draft' \in [Writers -> Draft]
        /\ \A v \in Writers : v # w => draft'[v] = draft[v]
        /\ draft'[w].pubs = draft[w].pubs /\ draft'[w].title = draft[w].title
        /\ draft'[w].field = draft[w].field
        /\ DOMAIN draft'[w].value = DOMAIN W \union DOMAIN draft[w].value
    BY <1>1, <1>2, <1>8, ViewWritten
  <2>4. DOMAIN draft'[w].value = {}
    <3>1. DOMAIN W \subseteq Rows  BY <1>8, PartialIs
    <3>2. \A r \in Rows : \E q \in Pubs, f \in Fields : r = <<q, f>>  BY DEF Rows
    <3>3. \A r \in DOMAIN W : FALSE
      <4>1. SUFFICES ASSUME NEW r \in DOMAIN W  PROVE FALSE
        OBVIOUS
      <4>2. PICK q \in Pubs, f \in Fields : r = <<q, f>>  BY <3>1, <3>2
      <4>3. <<q, f>> \in DOMAIN W  BY <4>2
      <4>4. f \in there  BY <1>8, <4>3
      <4> QED  BY <1>9, <4>4
    <3> QED  BY <1>4, <2>3, <3>3
  <2>5. tmp' = tmp /\ pending' = pending  BY <1>2, <1>9
  <2>6. Types'
    BY <1>1, <1>2, <1>5, <2>2, <2>3, <2>5 DEF Types
  <2>7. Moves(w)
    BY <1>1, <1>2, <2>2, <2>3, <2>5 DEF Moves, Locks
  <2>8. Seen(w)' /\ AtRest(w)' /\ TypeView(w)'
    BY <1>2, <1>4, <2>1, <2>2, <2>3, <2>4, <2>5 DEF Seen, AtRest, TypeView, Between
  <2>9. ~OfType(w)'
    BY <1>4, <2>1, <2>2, <2>3 DEF OfType, Between
  <2>10. ValuesShape(w)'
    BY <1>2, <1>4, <2>1, <2>2, <2>3, <2>4, <2>5 DEF ValuesShape, Before, Between, Awaiting, SeenPubs
  <2>11. ValuesView(w)'
    BY <1>2, <1>4, <2>1, <2>2, <2>3 DEF ValuesView, Awaiting, Between
  <2> QED  BY <2>6, <2>7, <2>8, <2>9, <2>10, <2>11, Moved DEF Each, TypeShape
<1>10. CASE there # {}
  <2>1. ValuesTrigger(w, there, old, TRUE) /\ Goto(w, "title after clear")
    BY <1>2, <1>10
  <2>2. /\ tmp' \in [Writers -> AtMostOne(Values)]
        /\ pending' \in [Writers -> Partial(Pubs, Maybe)]
        /\ \A v \in Writers \ {w} : tmp'[v] = tmp[v] /\ pending'[v] = pending[v]
        /\ tmp'[w] = IF titleField \in there THEN <<old[p, titleField]>> ELSE tmp[w]
        /\ DOMAIN pending'[w] = {p}
        /\ pending'[w][p] = NewTitle(tmp'[w], SeenTitle(w, p), TRUE)
    BY <1>1, <1>4, <1>5, <1>7, <2>1, Triggered
  <2>3. \A r \in Rows : View(w)'[r] = IF r \in DOMAIN W THEN None ELSE View(w)[r]
    BY <1>1, <1>2, <1>8, ViewWritten
  <2>4. titleField \in Fields \union {None} /\ None \notin Fields
    BY <1>1, PubTitlesAssumption DEF Types
  <2>5. ASSUME p \notin Bad'
        PROVE  pending'[w][p] = RightTitle(titleField, View(w)', p)
    <3>1. Bad' = Bad  BY <1>2 DEF Bad
    <3>2. CASE titleField \in there
      <4>1. pending'[w][p] = None
        <5> DEFINE x == old[p, titleField]
        <5>1. tmp'[w] = <<x>> /\ pending'[w][p] = NewTitle(tmp'[w], SeenTitle(w, p), TRUE)
          BY <2>2, <3>2
        <5> HIDE DEF x
        <5>2. <<x>> # <<>>  OBVIOUS
        <5> QED  BY <5>1, <5>2 DEF NewTitle
      <4>2. <<p, titleField>> \in DOMAIN W /\ <<p, titleField>> \in Rows
        BY <1>4, <1>5, <1>8, <3>2 DEF Rows
      <4>3. View(w)'[p, titleField] = None  BY <2>3, <4>2
      <4> QED  BY <4>1, <4>3 DEF RightTitle
    <3>3. CASE titleField \notin there
      <4>1. pending'[w][p] = SeenTitle(w, p)  BY <1>4, <2>2, <3>3 DEF NewTitle
      <4>2. SeenTitle(w, p) = RightTitle(titleField, View(w), p)
        BY <1>2, <1>3, <2>5, <3>1, SeenRight
      <4>3. titleField \in Fields => View(w)'[p, titleField] = View(w)[p, titleField]
        <5>1. titleField \in Fields => <<p, titleField>> \in Rows /\ <<p, titleField>> \notin DOMAIN W
          BY <1>4, <1>8, <3>3 DEF Rows
        <5> QED  BY <2>3, <5>1
      <4> QED  BY <2>4, <4>1, <4>2, <4>3 DEF RightTitle
    <3> QED  BY <3>2, <3>3
  <2>6. "title after clear" \in Awaiting  BY DEF Awaiting
  <2>7. \A q \in Pubs, f \in Fields : <<q, f>> \in DOMAIN W => q = p  BY <1>8
  <2>8. restored' \subseteq Pubs /\ restored \subseteq restored'  BY <1>1, <1>2 DEF Types
  <2> QED
    BY <1>2, <1>3, <1>5, <1>8, <2>1, <2>2, <2>5, <2>6, <2>7, <2>8, ValuesStep
<1> QED  BY <1>9, <1>10

LEMMA UpsertValuesIInv ==
  ASSUME IInv, NEW w \in Writers, UpsertValues(w)
  PROVE  IInv'
<1> DEFINE p == op[w].pub
           fields == {f \in Fields : op[w].set[f] # None}
           W == [r \in {p} \X fields |-> op[w].set[r[2]]]
<1>1. Types /\ Locks /\ Each(w)  BY DEF IInv
<1>2. /\ pc[w] = "upsert"
      /\ draft' = [draft EXCEPT ![w].value = Onto(W, draft[w].value)]
      /\ ValuesTrigger(w, fields, W, FALSE)
      /\ Goto(w, "title after upsert")
      /\ restored' = IF tmp[w] # <<>> /\ SeenField(w) \notin fields
                     THEN restored \union {p} ELSE restored
      /\ UNCHANGED <<pubs, title, value, titleField, op, doomed, begun, raced>>
  BY DEF UpsertValues, WriteValues, committed
<1>3. OfValues(w) /\ pc[w] # "create"
  BY <1>1, <1>2 DEF Each, TypeShape, OfType, OfValues
<1>4. p \in Pubs /\ op[w].set \in [Fields -> Maybe] /\ draft[w].field = <<>>
  BY <1>3, OwnValues
<1>5. SeenField(w) = titleField  BY <1>4 DEF SeenField
<1>6. /\ fields \in SUBSET Fields
      /\ \A f \in fields : op[w].set[f] \in Values
  BY <1>4 DEF Maybe
<1> HIDE DEF fields
<1>7. /\ W \in Partial(Rows, Maybe)
      /\ \A q \in Pubs, f \in Fields : <<q, f>> \in DOMAIN W <=> q = p /\ f \in fields
      /\ \A f \in fields : W[p, f] = op[w].set[f]
  <2>1. {p} \X fields \subseteq Rows  BY <1>4, <1>6 DEF Rows
  <2>2. W \in [{p} \X fields -> Maybe] /\ DOMAIN W = {p} \X fields  BY <1>6 DEF Maybe
  <2>3. W \in Partial(Rows, Maybe)  BY <2>1, <2>2, PartialIs
  <2> QED  BY <2>3
<1>8. \A f \in fields : W[p, f] \in Values
  BY <1>6, <1>7
<1> HIDE DEF W
<1>9. /\ tmp' \in [Writers -> AtMostOne(Values)]
      /\ pending' \in [Writers -> Partial(Pubs, Maybe)]
      /\ \A v \in Writers \ {w} : tmp'[v] = tmp[v] /\ pending'[v] = pending[v]
      /\ tmp'[w] = IF titleField \in fields THEN <<W[p, titleField]>> ELSE tmp[w]
      /\ DOMAIN pending'[w] = {p}
      /\ pending'[w][p] = NewTitle(tmp'[w], SeenTitle(w, p), FALSE)
  BY <1>1, <1>2, <1>4, <1>6, <1>8, Triggered
<1>10. \A r \in Rows : View(w)'[r] = IF r \in DOMAIN W THEN W[r] ELSE View(w)[r]
  BY <1>1, <1>2, <1>7, ViewWritten
<1>11. titleField \in Fields \union {None} /\ None \notin Fields
  BY <1>1, PubTitlesAssumption DEF Types
<1>12. restored' \subseteq Pubs /\ restored \subseteq restored'
  BY <1>1, <1>2, <1>4 DEF Types
<1>13. ASSUME p \notin Bad'
       PROVE  pending'[w][p] = RightTitle(titleField, View(w)', p)
  <2>1. p \notin Bad /\ (tmp[w] = <<>> \/ titleField \in fields)
    BY <1>2, <1>5, <1>12, <1>13 DEF Bad
  <2>2. CASE titleField \in fields
    <3>1. pending'[w][p] = W[p, titleField]
      <4> DEFINE x == W[p, titleField]
      <4>1. tmp'[w] = <<x>> /\ pending'[w][p] = NewTitle(tmp'[w], SeenTitle(w, p), FALSE)
        BY <1>9, <2>2
      <4> HIDE DEF x
      <4>2. <<x>> # <<>> /\ <<x>>[1] = x  OBVIOUS
      <4>3. pending'[w][p] = x  BY <4>1, <4>2 DEF NewTitle
      <4> QED  BY <4>3 DEF x
    <3>2. <<p, titleField>> \in DOMAIN W /\ <<p, titleField>> \in Rows
      BY <1>4, <1>6, <1>7, <2>2 DEF Rows
    <3>3. View(w)'[p, titleField] = W[p, titleField]  BY <1>10, <3>2
    <3> QED  BY <1>6, <1>11, <2>2, <3>1, <3>3 DEF RightTitle
  <2>3. CASE titleField \notin fields
    <3>1. pending'[w][p] = SeenTitle(w, p)  BY <1>9, <2>1, <2>3 DEF NewTitle
    <3>2. SeenTitle(w, p) = RightTitle(titleField, View(w), p)
      BY <1>2, <1>3, <2>1, SeenRight
    <3>3. titleField \in Fields => View(w)'[p, titleField] = View(w)[p, titleField]
      <4>1. titleField \in Fields => <<p, titleField>> \in Rows /\ <<p, titleField>> \notin DOMAIN W
        BY <1>4, <1>7, <2>3 DEF Rows
      <4> QED  BY <1>10, <4>1
    <3> QED  BY <1>11, <3>1, <3>2, <3>3 DEF RightTitle
  <2> QED  BY <2>2, <2>3
<1>14. "title after upsert" \in Awaiting  BY DEF Awaiting
<1>15. \A q \in Pubs, f \in Fields : <<q, f>> \in DOMAIN W => q = p  BY <1>7
<1>16. doomed' \in [Writers -> SUBSET Fields]  BY <1>1, <1>2 DEF Types
<1> QED
  BY <1>2, <1>3, <1>7, <1>9, <1>12, <1>13, <1>14, <1>15, <1>16, ValuesStep

-----------------------------------------------------------------------------
(* Statements on the type.                                                 *)

\* A statement that has written the flags and whose trigger has worked out the
\* titles of all pubs preserves the invariant.
LEMMA FieldStep ==
  ASSUME IInv, NEW w \in Writers, NEW x \in Fields \union {None},
         NEW s \in {"title after unset", "title after upsert"}, pc[w] \in {"unset", "set"},
         s = "title after unset" => x = None /\ pc[w] = "unset",
         s = "title after upsert" => x = op[w] /\ pc[w] = "set",
         TypeFree(w), WriteField(w, x), TypeTrigger(w, x), Goto(w, s),
         UNCHANGED <<pubs, title, value, titleField, op, doomed, tmp, begun, raced, restored>>
  PROVE  IInv'
<1>1. Types /\ Locks /\ Each(w)  BY DEF IInv
<1>2. /\ draft[w].pubs = {} /\ DOMAIN draft[w].value = {} /\ DOMAIN pending[w] = {}
      /\ OfType(w) /\ op[w] \in Fields \union {None}
      /\ pc[w] = "unset" => op[w] # None
      /\ pc[w] = "set" => \/ op[w] # None /\ draft[w].field = <<None>>
                          \/ op[w] = None /\ draft[w].field = <<>> /\ DOMAIN draft[w].title = {}
  BY <1>1 DEF Each, TypeShape, OfType
<1>3. /\ draft' \in [Writers -> Draft]
      /\ \A v \in Writers : v # w => draft'[v] = draft[v]
      /\ draft'[w].field = <<x>> /\ draft'[w].pubs = draft[w].pubs
      /\ draft'[w].value = draft[w].value /\ draft'[w].title = draft[w].title
      /\ draft'[w].field # <<>> /\ draft'[w].field[1] = x
  <2>1. <<x>> # <<>> /\ <<x>>[1] = x  OBVIOUS
  <2>2. /\ draft' \in [Writers -> Draft]
        /\ \A v \in Writers : v # w => draft'[v] = draft[v]
        /\ draft'[w].field = <<x>> /\ draft'[w].pubs = draft[w].pubs
        /\ draft'[w].value = draft[w].value /\ draft'[w].title = draft[w].title
    BY <1>1, FieldWritten DEF WriteField, Types
  <2> QED  BY <2>1, <2>2
<1>4. /\ pc' \in [Writers -> Statements] /\ pc'[w] = s
      /\ \A v \in Writers \ {w} : pc'[v] = pc[v]
  BY <1>1, Went DEF Statements
<1>5. SeenPubs(w) = pubs  BY <1>2 DEF SeenPubs
<1>6. ASSUME NEW p \in pubs, NEW f \in Fields
      PROVE  SeenValue(w, p, f) = value[p, f] /\ value[p, f] \in Maybe
  <2>1. value \in [Rows -> Maybe] /\ p \in Pubs  BY <1>1 DEF Types
  <2>2. <<p, f>> \in Rows  BY <2>1 DEF Rows
  <2>3. View(w)[<<p, f>>] = value[<<p, f>>]  BY <1>1, <1>2, <2>2, ViewUnwritten
  <2> QED  BY <2>1, <2>2, <2>3 DEF SeenValue, View
<1> DEFINE new == [p \in pubs |-> IF x = None THEN None ELSE SeenValue(w, p, x)]
<1>7. /\ new \in Partial(Pubs, Maybe) /\ DOMAIN new = pubs
      /\ \A p \in pubs : new[p] = RightTitle(x, value, p)
  <2>1. \A p \in pubs : new[p] = RightTitle(x, value, p) /\ new[p] \in Maybe
    BY <1>6 DEF RightTitle, Maybe
  <2>2. new \in [pubs -> Maybe] /\ DOMAIN new = pubs  BY <2>1
  <2>3. pubs \subseteq Pubs  BY <1>1 DEF Types
  <2> QED  BY <2>1, <2>2, <2>3, PartialIs
<1>8. pending' = [pending EXCEPT ![w] = IF x = SeenField(w) THEN NoRows ELSE new]
  BY <1>5 DEF TypeTrigger
<1> HIDE DEF new
<1>9. /\ pending' \in [Writers -> Partial(Pubs, Maybe)]
      /\ pending'[w] = (IF x = SeenField(w) THEN NoRows ELSE new)
      /\ \A v \in Writers \ {w} : pending'[v] = pending[v]
  <2>1. NoRows \in Partial(Pubs, Maybe)  BY NoRowsIs
  <2> QED  BY <1>1, <1>7, <1>8, <2>1 DEF Types
<1>10. DOMAIN pending'[w] \subseteq pubs
  BY <1>7, <1>9, NoRowsIs
<1>11. Types'
  BY <1>1, <1>3, <1>4, <1>9 DEF Types
<1>12. Moves(w)
  <2>1. \A v \in Writers \ {w} : draft[v].field = <<>>  BY DEF TypeFree
  <2> QED  BY <1>1, <1>3, <1>4, <1>9, <2>1 DEF Moves, Locks
<1>13. OfType(w)' /\ draft'[w].field # <<>>
  BY <1>3 DEF OfType
<1>14. Seen(w)' /\ AtRest(w)'
  BY <1>1, <1>3, <1>4, <1>5, <1>10 DEF Each, Seen, SeenPubs, AtRest
<1>15. TypeShape(w)'
  BY <1>2, <1>3, <1>4 DEF TypeShape
<1>16. TypeView(w)'
  <2>1. draft'[w].field[1] = x  BY <1>3
  <2>2. CASE s = "title after unset"
    BY <1>4, <2>2 DEF TypeView
  <2>3. CASE s = "title after upsert" /\ x # SeenField(w)
    <3>1. \A p \in (pubs \ Bad)' : p \in DOMAIN pending'[w] /\ pending'[w][p] = RightTitle(x, value', p)
      BY <1>7, <1>9, <2>3
    <3> QED  BY <1>4, <2>1, <2>3, <3>1 DEF TypeView, RightTitle
  <2>4. CASE s = "title after upsert" /\ x = SeenField(w)
    <3>1. <<None>> # <<>> /\ <<None>>[1] = None  OBVIOUS
    <3>2. op[w] = None /\ draft[w].field = <<>> /\ DOMAIN draft[w].title = {}
      BY <1>2, <2>4, <3>1 DEF SeenField
    <3>3. x = None /\ titleField = None  BY <2>4, <3>2 DEF SeenField
    <3>4. DOMAIN pending'[w] = {}  BY <1>9, <2>4, NoRowsIs
    <3>5. titleField' = None /\ DOMAIN draft'[w].title = {}  BY <1>3, <3>2, <3>3
    <3> QED  BY <2>1, <3>3, <3>4, <3>5 DEF TypeView
  <2> QED  BY <2>2, <2>3, <2>4
<1> QED  BY <1>11, <1>12, <1>13, <1>14, <1>15, <1>16, Moved DEF Each, ValuesShape, ValuesView, OfValues

LEMMA UnsetTitleIInv ==
  ASSUME IInv, NEW w \in Writers, UnsetTitle(w)
  PROVE  IInv'
<1>1. /\ pc[w] = "unset" /\ TypeFree(w) /\ WriteField(w, None) /\ TypeTrigger(w, None)
      /\ Goto(w, "title after unset")
      /\ UNCHANGED <<pubs, title, value, titleField, op, doomed, tmp, begun, raced, restored>>
  BY DEF UnsetTitle, committed
<1> QED  BY <1>1, FieldStep

LEMMA SetTitleFieldIInv ==
  ASSUME IInv, NEW w \in Writers, SetTitleField(w)
  PROVE  IInv'
<1>1. /\ pc[w] = "set" /\ TypeFree(w) /\ WriteField(w, op[w]) /\ TypeTrigger(w, op[w])
      /\ Goto(w, "title after upsert")
      /\ UNCHANGED <<pubs, title, value, titleField, op, doomed, tmp, begun, raced, restored>>
  BY DEF SetTitleField, committed
<1>2. op[w] \in Fields \union {None}
  BY <1>1 DEF IInv, Each, TypeShape, OfType
<1> QED  BY <1>1, <1>2, FieldStep

-----------------------------------------------------------------------------
(* Commits.                                                                *)

\* What a commit does not write others still see as they did.
LEMMA ViewKept ==
  ASSUME Types, value' \in [Rows -> Maybe], NEW v \in Writers, draft'[v] = draft[v],
         NEW r \in Rows, value'[r] = value[r]
  PROVE  View(v)'[r] = View(v)[r]
<1>1. draft[v].value \in Partial(Rows, Maybe) /\ value \in [Rows -> Maybe]
  BY DraftIs DEF Types
<1>2. ASSUME NEW f \in Partial(Rows, Maybe), NEW g \in [Rows -> Maybe]
      PROVE  /\ \A x \in DOMAIN f : Onto(f, g)[x] = f[x]
             /\ \A x \in Rows \ DOMAIN f : Onto(f, g)[x] = g[x]
  BY <1>2, OntoTotal
<1>3. View(v)' = Onto(draft[v].value, value') /\ View(v) = Onto(draft[v].value, value)
  BY DEF View
<1> QED  BY <1>1, <1>2, <1>3

\* A transaction that commits has a title for every pub whose values it has written.
LEMMA ValuesWithTitle ==
  ASSUME IInv, NEW w \in Writers, pc[w] = "commit", NEW p \in Pubs, NEW f \in Fields,
         <<p, f>> \in DOMAIN draft[w].value
  PROVE  p \in DOMAIN draft[w].title
<1>1. ValuesShape(w) /\ TypeShape(w)  BY DEF IInv, Each
<1>2. OfValues(w)  BY <1>1 DEF TypeShape, OfValues
<1>3. p = op[w].pub /\ DOMAIN draft[w].title \subseteq {p} /\ DOMAIN draft[w].title # {}
  BY <1>1, <1>2 DEF ValuesShape, Between
<1> QED  BY <1>3

\* What a commit makes of the committed rows.
LEMMA Committed ==
  ASSUME IInv, NEW w \in Writers, Commit(w)
  PROVE  /\ pubs' = pubs \union draft[w].pubs /\ pubs' \subseteq Pubs
         /\ title' \in [Pubs -> Maybe] /\ value' \in [Rows -> Maybe] /\ value' = View(w)
         /\ \A p \in DOMAIN draft[w].title : title'[p] = draft[w].title[p]
         /\ \A p \in Pubs \ DOMAIN draft[w].title :
                title'[p] = title[p] /\ \A f \in Fields : value'[p, f] = value[p, f]
         /\ titleField' \in Fields \union {None}
         /\ draft[w].field = <<>> => titleField' = titleField
         /\ draft[w].field # <<>> => titleField' = draft[w].field[1]
<1>1. Types  BY DEF IInv
<1>2. /\ draft[w].title \in Partial(Pubs, Maybe) /\ title \in [Pubs -> Maybe]
      /\ draft[w].value \in Partial(Rows, Maybe) /\ value \in [Rows -> Maybe]
      /\ draft[w].field \in AtMostOne(Fields \union {None}) /\ draft[w].pubs \subseteq Pubs
      /\ pubs \subseteq Pubs /\ titleField \in Fields \union {None}
  BY <1>1, DraftIs DEF Types
<1>3. /\ pc[w] = "commit" /\ pubs' = pubs \union draft[w].pubs
      /\ title' = Onto(draft[w].title, title) /\ value' = Onto(draft[w].value, value)
      /\ titleField' = SeenField(w)
  BY DEF Commit, SeenPubs
<1>4. ASSUME NEW f \in Partial(Pubs, Maybe), NEW g \in [Pubs -> Maybe]
      PROVE  /\ Onto(f, g) \in [Pubs -> Maybe]
             /\ \A x \in DOMAIN f : Onto(f, g)[x] = f[x]
             /\ \A x \in Pubs \ DOMAIN f : Onto(f, g)[x] = g[x]
  BY <1>4, OntoTotal
<1>5. ASSUME NEW f \in Partial(Rows, Maybe), NEW g \in [Rows -> Maybe]
      PROVE  /\ Onto(f, g) \in [Rows -> Maybe]
             /\ \A x \in DOMAIN f : Onto(f, g)[x] = f[x]
             /\ \A x \in Rows \ DOMAIN f : Onto(f, g)[x] = g[x]
  BY <1>5, OntoTotal
<1>6. /\ title' \in [Pubs -> Maybe]
      /\ \A p \in DOMAIN draft[w].title : title'[p] = draft[w].title[p]
      /\ \A p \in Pubs \ DOMAIN draft[w].title : title'[p] = title[p]
  BY <1>2, <1>3, <1>4
<1>7. /\ value' \in [Rows -> Maybe]
      /\ \A r \in Rows \ DOMAIN draft[w].value : value'[r] = value[r]
  BY <1>2, <1>3, <1>5
<1>8. ASSUME NEW p \in Pubs \ DOMAIN draft[w].title, NEW f \in Fields
      PROVE  value'[p, f] = value[p, f]
  <2>1. <<p, f>> \in Rows \ DOMAIN draft[w].value  BY <1>3, ValuesWithTitle DEF Rows
  <2> QED  BY <1>7, <2>1
<1>9. /\ titleField' \in Fields \union {None}
      /\ draft[w].field = <<>> => titleField' = titleField
      /\ draft[w].field # <<>> => titleField' = draft[w].field[1]
  <2>1. \A x \in Fields \union {None} : <<x>> # <<>> /\ <<x>>[1] = x  OBVIOUS
  <2>2. draft[w].field = <<>> \/ \E x \in Fields \union {None} : draft[w].field = <<x>>
    BY <1>2 DEF AtMostOne
  <2>3. draft[w].field # <<>> => draft[w].field[1] \in Fields \union {None}
    BY <2>1, <2>2
  <2> QED  BY <1>2, <1>3, <2>3 DEF SeenField
<1> QED  BY <1>2, <1>3, <1>6, <1>7, <1>8, <1>9 DEF View

\* A commit leaves the titles of the pubs it is not about right, and those it is about.
LEMMA CommitTitles ==
  ASSUME IInv, NEW w \in Writers, Commit(w)
  PROVE  TitleFollowsValue'
<1>1. SUFFICES ASSUME NEW p \in pubs', p \notin Bad'
               PROVE  title'[p] = RightTitle(titleField', value', p)
  BY DEF TitleFollowsValue, Bad, RightTitle
<1>2. Types /\ Each(w) /\ pc[w] = "commit"  BY DEF IInv, Commit
<1>2a. /\ pubs' \subseteq Pubs /\ value' = View(w)
      /\ \A q \in Pubs \ DOMAIN draft[w].title :
             title'[q] = title[q] /\ \A f \in Fields : value'[q, f] = value[q, f]
  BY Committed
<1>3. p \in Pubs \ Bad
  <2>1. Bad \subseteq Bad' /\ pubs' \subseteq Pubs  BY Committed DEF Commit, Bad
  <2> QED  BY <1>1, <2>1
<1>4. title[p] = RightTitle(titleField, value, p)  BY <1>3, CommittedRight
<1>5. titleField \in Fields \union {None} /\ titleField' \in Fields \union {None}
  BY <1>2, Committed DEF Types
<1>6. CASE draft[w].field = <<>>
  <2>1. titleField' = titleField  BY <1>6, Committed
  <2>2. CASE p \in DOMAIN draft[w].title
    <3>1. OfValues(w)  BY <1>2, <1>6 DEF OfValues, OfType
    <3>2. p = op[w].pub  BY <1>2, <2>2, <3>1 DEF Each, ValuesShape
    <3>3. draft[w].title[p] = RightTitle(titleField, View(w), p)
      BY <1>2, <1>3, <2>2, <3>1, <3>2 DEF Each, ValuesView, Between
    <3> QED  BY <2>1, <2>2, <3>3, Committed
  <2>3. CASE p \notin DOMAIN draft[w].title
    <3>1. title'[p] = title[p] /\ \A f \in Fields : value'[p, f] = value[p, f]
      BY <1>3, <1>2a, <2>3
    <3> QED  BY <1>4, <1>5, <2>1, <3>1 DEF RightTitle
  <2> QED  BY <2>2, <2>3
<1>7. CASE draft[w].field # <<>>
  <2> DEFINE f == draft[w].field[1]
  <2>1. OfType(w)  BY <1>7 DEF OfType
  <2>2. draft[w].pubs = {} /\ DOMAIN draft[w].value = {}
    BY <1>2, <2>1 DEF Each, TypeShape
  <2>3. p \in pubs /\ titleField' = f  BY <1>1, <1>7, <2>2, Committed
  <2>4. RightTitle(f, value', p) = RightTitle(f, value, p)
    <3>1. \A g \in Fields : <<p, g>> \in Rows  BY <1>3 DEF Rows
    <3>2. \A g \in Fields : value'[p, g] = value[p, g]
      BY <1>2, <1>2a, <2>2, <3>1, ViewUnwritten
    <3> QED  BY <1>5, <2>3, <3>2 DEF RightTitle
  <2>5. \/ f = None /\ titleField = None /\ DOMAIN draft[w].title = {}
        \/ p \in DOMAIN draft[w].title /\ draft[w].title[p] = RightTitle(f, value, p)
    BY <1>2, <1>3, <1>7, <2>3 DEF Each, TypeView
  <2>6. CASE f = None /\ titleField = None /\ DOMAIN draft[w].title = {}
    <3>1. title'[p] = title[p]  BY <1>3, <1>2a, <2>6
    <3> QED  BY <1>4, <2>3, <2>6, <3>1 DEF RightTitle
  <2>7. CASE p \in DOMAIN draft[w].title /\ draft[w].title[p] = RightTitle(f, value, p)
    BY <2>3, <2>4, <2>7, Committed
  <2> QED  BY <2>5, <2>6, <2>7
<1> QED  BY <1>6, <1>7

\* Another transaction keeps what it knows, but about the pubs that are Overtaken.
LEMMA CommitOthers ==
  ASSUME IInv, NEW w \in Writers, Commit(w), NEW v \in Writers \ {w}
  PROVE  Each(v)'
<1>1. Types /\ Locks /\ Each(w) /\ Each(v) /\ v \in Writers /\ pc[w] = "commit" /\ Over(w)
  BY DEF IInv, Commit
<1>2. /\ pc'[v] = pc[v] /\ op'[v] = op[v] /\ draft'[v] = draft[v]
      /\ tmp'[v] = tmp[v] /\ pending'[v] = pending[v]
  BY <1>1, OverIs
<1>3. /\ pubs' = pubs \union draft[w].pubs /\ value' \in [Rows -> Maybe]
      /\ \A q \in Pubs \ DOMAIN draft[w].title : \A f \in Fields : value'[q, f] = value[q, f]
      /\ titleField \in Fields \union {None}
      /\ draft[w].field = <<>> => titleField' = titleField
      /\ draft[w].field # <<>> => titleField' = draft[w].field[1]
  BY <1>1, Committed DEF Types
<1>4. ASSUME NEW q \in Pubs, q \notin Bad'
      PROVE  /\ q \notin Bad
             /\ ~(q \in DOMAIN pending[v] /\ q \in DOMAIN draft[w].title)
             /\ ~(q \in DOMAIN pending[v] \union draft[v].pubs /\ draft[w].field # <<>>)
             /\ ~(q \in draft[w].pubs /\ draft[v].field # <<>> /\ pc[v] # "set")
  BY <1>4 DEF Commit, Bad, Overtaken
<1>5. SeenPubs(v) \subseteq SeenPubs(v)'
  BY <1>2, <1>3 DEF SeenPubs
<1>6. Seen(v)' /\ ValuesShape(v)' /\ TypeShape(v)' /\ AtRest(v)'
  BY <1>1, <1>2, <1>5 DEF Each, Seen, ValuesShape, TypeShape, AtRest, OfType, OfValues
<1>7. ASSUME NEW q \in Pubs \ DOMAIN draft[w].title, titleField' = titleField
      PROVE  RightTitle(titleField', View(v)', q) = RightTitle(titleField, View(v), q)
  <2>1. \A f \in Fields : <<q, f>> \in Rows /\ value'[q, f] = value[q, f]
    BY <1>3 DEF Rows
  <2>2. \A f \in Fields : View(v)'[q, f] = View(v)[q, f]
    BY <1>1, <1>2, <1>3, <2>1, ViewKept
  <2> QED  BY <1>3, <1>7, <2>2 DEF RightTitle
<1>8. ValuesView(v)'
  <2> DEFINE p == op[v].pub
  <2>1. SUFFICES ASSUME OfValues(v), p \notin Bad'  PROVE ValuesView(v)'
    BY <1>2 DEF ValuesView, OfValues, OfType
  <2>2. p \in Pubs  BY <1>1, <2>1, OpIs DEF Each, ValuesShape
  <2>3. p \notin Bad  BY <1>4, <2>1, <2>2
  <2>4. ASSUME pc[v] \in Awaiting
        PROVE  pending'[v][p] = RightTitle(titleField', View(v)', p)
    <3>1. p \in DOMAIN pending[v]  BY <1>1, <2>1, <2>4 DEF Each, ValuesShape
    <3>2. p \notin DOMAIN draft[w].title /\ titleField' = titleField
      BY <1>3, <1>4, <2>1, <2>2, <3>1
    <3>3. pending[v][p] = RightTitle(titleField, View(v), p)
      BY <1>1, <2>1, <2>3, <2>4 DEF Each, ValuesView
    <3> QED  BY <1>2, <1>7, <2>2, <3>2, <3>3
  <2>5. ASSUME pc[v] \in Between, p \in DOMAIN draft[v].title
        PROVE  draft'[v].title[p] = RightTitle(titleField', View(v)', p)
    <3>1. p \notin DOMAIN draft[w].title  BY <1>1, <2>5 DEF Locks
    <3>2. titleField' = titleField
      <4>1. CASE draft[w].field = <<>>  BY <1>3, <4>1
      <4>2. CASE draft[w].field # <<>>
        <5>1. p \in SeenPubs(v)  BY <1>1, <2>5 DEF Each, Seen
        <5>2. p \in pubs \ Bad  BY <1>4, <2>1, <2>2, <2>3, <4>2, <5>1 DEF SeenPubs
        <5>3. draft[w].field[1] = None /\ titleField = None
          BY <1>1, <3>1, <4>2, <5>2 DEF Each, TypeView
        <5> QED  BY <1>3, <4>2, <5>3
      <4> QED  BY <4>1, <4>2
    <3>3. draft[v].title[p] = RightTitle(titleField, View(v), p)
      BY <1>1, <2>1, <2>3, <2>5 DEF Each, ValuesView
    <3> QED  BY <1>2, <1>7, <2>2, <3>1, <3>2, <3>3
  <2> QED  BY <1>2, <2>4, <2>5 DEF ValuesView
<1>9. TypeView(v)'
  <2> DEFINE f == draft[v].field[1]
  <2>1. SUFFICES ASSUME draft[v].field # <<>>, pc[v] \in {"title after upsert", "commit"}
                 PROVE  TypeView(v)'
    BY <1>2 DEF TypeView
  <2>2. draft[w].field = <<>> /\ titleField' = titleField
    BY <1>1, <1>3, <2>1 DEF Locks
  <2>3. f \in Fields \union {None}
    <3>1. draft[v].field \in AtMostOne(Fields \union {None})  BY <1>1, DraftIs
    <3>2. \A x \in Fields \union {None} : <<x>>[1] = x  OBVIOUS
    <3> QED  BY <2>1, <3>1, <3>2 DEF AtMostOne
  <2>4. CASE f = None /\ titleField = None /\ DOMAIN pending[v] = {} /\ DOMAIN draft[v].title = {}
    BY <1>2, <2>2, <2>4 DEF TypeView
  <2>5. CASE \A q \in pubs \ Bad :
                 /\ pc[v] = "title after upsert" =>
                        q \in DOMAIN pending[v] /\ pending[v][q] = RightTitle(f, value, q)
                 /\ pc[v] = "commit" =>
                        q \in DOMAIN draft[v].title /\ draft[v].title[q] = RightTitle(f, value, q)
    <3>1. SUFFICES ASSUME NEW q \in pubs', q \notin Bad'
                   PROVE  /\ pc[v] = "title after upsert" =>
                                 q \in DOMAIN pending[v] /\ pending[v][q] = RightTitle(f, value', q)
                          /\ pc[v] = "commit" =>
                                 q \in DOMAIN draft[v].title /\ draft[v].title[q] = RightTitle(f, value', q)
      BY <1>2 DEF TypeView, RightTitle
    <3>2. pubs' \subseteq Pubs  BY Committed
    <3>3. q \in pubs \ Bad /\ q \in Pubs  BY <1>3, <1>4, <2>1, <3>1, <3>2
    <3>4. q \notin DOMAIN draft[w].title
      <4>1. CASE pc[v] = "title after upsert"  BY <1>4, <2>5, <3>1, <3>3, <4>1
      <4>2. CASE pc[v] = "commit"  BY <1>1, <2>5, <3>3, <4>2 DEF Locks
      <4> QED  BY <2>1, <4>1, <4>2
    <3>5. RightTitle(f, value', q) = RightTitle(f, value, q)
      BY <1>3, <2>3, <3>3, <3>4 DEF RightTitle
    <3> QED  BY <2>5, <3>3, <3>5
  <2> QED  BY <1>1, <2>1, <2>4, <2>5 DEF Each, TypeView
<1> QED  BY <1>6, <1>8, <1>9 DEF Each

LEMMA CommitIInv ==
  ASSUME IInv, NEW w \in Writers, Commit(w)
  PROVE  IInv'
<1>1. Types /\ Locks /\ Absent /\ Each(w) /\ Over(w)
  BY DEF IInv, Commit
<1>2. /\ begun' = begun /\ restored' = restored /\ raced' = raced \union Overtaken(w)
      /\ Overtaken(w) \subseteq Pubs
  BY DEF Commit, Overtaken
<1>3. /\ pubs' = pubs \union draft[w].pubs /\ pubs' \subseteq Pubs
      /\ title' \in [Pubs -> Maybe] /\ value' \in [Rows -> Maybe]
      /\ \A p \in Pubs \ DOMAIN draft[w].title :
             title'[p] = title[p] /\ \A f \in Fields : value'[p, f] = value[p, f]
      /\ titleField' \in Fields \union {None}
  BY Committed
<1>4. Types'
  BY <1>1, <1>2, <1>3, OverIs DEF Types
<1>5. Locks'
  <2>1. \A v \in Writers \ {w} : draft'[v] = draft[v]  BY <1>1, OverIs
  <2>2. draft'[w] = Untouched  BY <1>1, OverIs
  <2>3. /\ draft'[w].pubs = {} /\ DOMAIN draft'[w].title = {} /\ draft'[w].field = <<>>
    BY <2>2, UntouchedIs
  <2>4. ASSUME NEW u \in Writers, NEW v \in Writers, u # v
        PROVE  /\ DOMAIN draft'[u].title \intersect DOMAIN draft'[v].title = {}
               /\ draft'[u].pubs \intersect draft'[v].pubs = {}
               /\ draft'[u].field = <<>> \/ draft'[v].field = <<>>
    <3>1. CASE u = w \/ v = w  BY <2>3, <3>1
    <3>2. CASE u # w /\ v # w  BY <1>1, <2>1, <2>4, <3>2 DEF Locks
    <3> QED  BY <3>1, <3>2
  <2>5. ASSUME NEW v \in Writers  PROVE draft'[v].pubs \intersect pubs' = {}
    <3>1. CASE v = w  BY <2>3, <3>1
    <3>2. CASE v # w  BY <1>1, <1>3, <2>1, <3>2 DEF Locks
    <3> QED  BY <3>1, <3>2
  <2> QED  BY <2>4, <2>5 DEF Locks
<1>6. Absent'
  <2>1. \A p \in Pubs \ pubs' : p \notin DOMAIN draft[w].title
    BY <1>1, <1>3 DEF Each, Seen, SeenPubs
  <2>2. ASSUME NEW p \in Pubs \ pubs'
        PROVE  title'[p] = None /\ \A f \in Fields : value'[p, f] = None
    <3>1. title[p] = None /\ \A f \in Fields : value[p, f] = None
      BY <1>1, <1>3 DEF Absent
    <3> QED  BY <1>3, <2>1, <3>1
  <2> QED  BY <2>2 DEF Absent
<1>7. TitleFollowsValue'  BY CommitTitles
<1>8. \A v \in Writers : Each(v)'
  <2>1. Each(w)'  BY <1>1, OverIs
  <2>2. \A v \in Writers \ {w} : Each(v)'  BY CommitOthers
  <2> QED  BY <2>1, <2>2
<1> QED  BY <1>4, <1>5, <1>6, <1>7, <1>8 DEF IInv

-----------------------------------------------------------------------------
(* Theorems.                                                               *)

LEMMA NextIInv == IInv /\ [Next]_vars => IInv'
<1> SUFFICES ASSUME IInv, [Next]_vars  PROVE IInv'
  OBVIOUS
<1>1. CASE UNCHANGED vars
  <2>1. UNCHANGED <<pubs, title, value, titleField, pc, op, draft, doomed, tmp, pending,
                    begun, raced, restored>>
    BY <1>1 DEF vars, committed, locals
  <2>2. Types' /\ Locks' /\ Absent' /\ TitleFollowsValue'
    BY <2>1 DEF IInv, Types, Locks, Absent, TitleFollowsValue
  <2>3. ASSUME NEW w \in Writers  PROVE Each(w)'
    <3>1. Each(w)  BY DEF IInv
    <3>2. Seen(w)' /\ TypeShape(w)' /\ AtRest(w)' /\ ValuesShape(w)'
      BY <2>1, <3>1 DEF Each, Seen, SeenPubs, ValuesShape, TypeShape, AtRest, OfType, OfValues
    <3>3. ValuesView(w)' /\ TypeView(w)'
      BY <2>1, <3>1 DEF Each, ValuesView, TypeView, View, OfType, OfValues, Bad
    <3> QED  BY <3>2, <3>3 DEF Each
  <2> QED  BY <2>2, <2>3 DEF IInv
<1>2. CASE Next
  <2>1. PICK w \in Writers :
            \/ BeginValues(w) \/ BeginType(w) \/ CreatePub(w) \/ FindValues(w)
            \/ ClearValues(w) \/ UpsertValues(w) \/ UnsetTitle(w) \/ SetTitleField(w)
            \/ SetTitles(w) \/ Commit(w) \/ Abort(w)
    BY <1>2 DEF Next
  <2>2. CASE BeginValues(w)  BY <2>2, BeginValuesIInv
  <2>3. CASE BeginType(w)  BY <2>3, BeginTypeIInv
  <2>4. CASE CreatePub(w)  BY <2>4, CreatePubIInv
  <2>5. CASE FindValues(w)  BY <2>5, FindValuesIInv
  <2>6. CASE ClearValues(w)  BY <2>6, ClearValuesIInv
  <2>7. CASE UpsertValues(w)  BY <2>7, UpsertValuesIInv
  <2>8. CASE UnsetTitle(w)  BY <2>8, UnsetTitleIInv
  <2>9. CASE SetTitleField(w)  BY <2>9, SetTitleFieldIInv
  <2>10. CASE SetTitles(w)  BY <2>10, SetTitlesIInv
  <2>11. CASE Commit(w)  BY <2>11, CommitIInv
  <2>12. CASE Abort(w)  BY <2>12, AbortIInv
  <2> QED
    BY <2>1, <2>2, <2>3, <2>4, <2>5, <2>6, <2>7, <2>8, <2>9, <2>10, <2>11, <2>12
<1> QED  BY <1>1, <1>2

\* Every variable keeps its type, and an idle writer has written nothing and
\* keeps no temporary table.
THEOREM TypeCorrect == Spec => []TypeOK
<1>1. IInv => TypeOK
  BY TypesOK DEF IInv, Each
<1> QED  BY <1>1, InitIInv, NextIInv, PTL DEF Spec

\* However the statements and the waits of any number of transactions
\* interleave, a committed title is the value of the title field, but for a pub
\* on which a commit overtook a trigger, and one whose deleted title value
\* outlived its statement in the temporary table.
THEOREM TitlesFollowValues == Spec => []TitleFollowsValue
<1>1. IInv => TitleFollowsValue
  BY DEF IInv
<1> QED  BY <1>1, InitIInv, NextIInv, PTL DEF Spec
=============================================================================
