-------------------------- MODULE Automations_proofs --------------------------
(***************************************************************************)
(* Automations that start each other, their configuration and their runs.  *)
(*                                                                         *)
(* Runs: the stack that build_automation_run_stack rebuilds is the one the *)
(* run was started with, so every event carries its complete line of runs, *)
(* and the check in runAutomation bounds the depth of every run, whatever  *)
(* circles the triggers contain.                                           *)
(*                                                                         *)
(* Configuration: the check of a save keeps its worth for whatever nobody  *)
(* else stored before the write, so that every circle in the stored        *)
(* triggers holds two automations whose saves overlapped, or one that      *)
(* names itself, whatever the number of editors, automations and the limit *)
(* are.                                                                    *)
(*                                                                         *)
(* Both: an event is refused at run time only where the triggers hold a    *)
(* circle or a sequence longer than the check of the configuration accepts.*)
(***************************************************************************)
EXTENDS AutomationChain, AutomationGraph, SequenceTheorems, WellFoundedInduction, TLAPS

-----------------------------------------------------------------------------
(* Lines of runs *)

LEMMA SmallestNat ==
  ASSUME NEW T \in SUBSET Nat, T # {}
  PROVE  \E m \in T : \A n \in T : m <= n
<1>1. IsWellFoundedOn(OpToRel(<, Nat), Nat)
  BY NatLessThanWellFounded
<1>2. PICK m \in T : \A n \in T : ~(<<n, m>> \in OpToRel(<, Nat))
  BY <1>1, WFMin
<1>3. \A n \in T : <<n, m>> \in OpToRel(<, Nat) <=> n < m
  BY DEF OpToRel
<1>4. \A n \in T : ~(n < m) /\ n \in Nat /\ m \in Nat
  BY <1>2, <1>3
<1>5. \A n \in T : m <= n
  BY <1>4
<1> QED
  BY <1>5

\* Two linked sequences with the same last run agree as far back as both go.
LEMMA LinkedAgree ==
  ASSUME TypeOK,
         NEW s \in Seq(RunIds), NEW t \in Seq(RunIds), s # <<>>, t # <<>>,
         Linked(s), Linked(t), s[Len(s)] = t[Len(t)],
         NEW k \in Nat, k < Len(s), k < Len(t)
  PROVE  s[Len(s) - k] = t[Len(t) - k]
<1> DEFINE m == Len(s)
           n == Len(t)
           Differ == {i \in Nat : i < m /\ i < n /\ s[m - i] # t[n - i]}
<1>0. m \in Nat /\ n \in Nat /\ m > 0 /\ n > 0
  BY LenProperties, EmptySeq
<1>1. \A i \in 1..(m - 1) : runs[s[i + 1]].source = s[i]
  BY DEF Linked
<1>2. \A i \in 1..(n - 1) : runs[t[i + 1]].source = t[i]
  BY DEF Linked
<1>3. s[m] = t[n]
  OBVIOUS
<1> HIDE DEF m, n
<1>4. Differ = {}
  <2> SUFFICES ASSUME Differ # {} PROVE FALSE
    OBVIOUS
  <2>1. PICK i \in Differ : \A j \in Differ : i <= j
    <3>1. Differ \in SUBSET Nat
      OBVIOUS
    <3> HIDE DEF Differ
    <3> QED
      BY <3>1, SmallestNat
  <2>2. i \in Nat /\ i < m /\ i < n /\ s[m - i] # t[n - i]
    OBVIOUS
  <2>3. i # 0
    BY <2>2, <1>0, <1>3
  <2>4. i - 1 \in Nat /\ i - 1 < m /\ i - 1 < n /\ ~(i <= i - 1)
    BY <1>0, <2>2, <2>3
  <2>5. s[m - (i - 1)] = t[n - (i - 1)]
    BY <2>1, <2>4
  <2>6. /\ m - i \in 1..(m - 1) /\ (m - i) + 1 = m - (i - 1)
        /\ n - i \in 1..(n - 1) /\ (n - i) + 1 = n - (i - 1)
    BY <1>0, <2>2, <2>3
  <2>7. s[m - i] = runs[s[m - (i - 1)]].source
    BY <1>1, <2>6
  <2>8. t[n - i] = runs[t[n - (i - 1)]].source
    BY <1>2, <2>6
  <2> QED
    BY <2>2, <2>5, <2>7, <2>8
<1>5. k < m /\ k < n
  BY DEF m, n
<1>6. s[m - k] = t[n - k]
  BY <1>4, <1>5
<1> QED
  BY <1>6 DEF m, n

\* The walk from a run finds exactly the line that ends with its source, as long
\* as that line is not longer than the walk goes.
LEMMA WalkUnique ==
  ASSUME TypeOK, NEW r \in RunIds, runs[r].source # NoRun,
         NEW s \in Seq(RunIds), IsWalk(s, r),
         NEW t \in Seq(RunIds), t # <<>>, IsLine(t), t[Len(t)] = runs[r].source,
         Len(t) <= WalkDepth
  PROVE  s = t
<1>1. /\ s # <<>> /\ Linked(s) /\ s[Len(s)] = t[Len(t)]
      /\ runs[s[1]].source = NoRun \/ Len(s) = WalkDepth + 1
  BY DEF IsWalk
<1>2. Linked(t) /\ runs[t[1]].source = NoRun
  BY DEF IsLine
<1> DEFINE m == Len(s)
           n == Len(t)
<1>3. m \in Nat /\ n \in Nat /\ m > 0 /\ n > 0 /\ WalkDepth \in Nat /\ n <= WalkDepth
  BY <1>1, LenProperties, EmptySeq, ConstantsAssumption
<1>4. \A k \in Nat : k < m /\ k < n => s[m - k] = t[n - k]
  BY <1>1, <1>2, LinkedAgree
<1>5. \A i \in 1..(m - 1) : runs[s[i + 1]].source = s[i] /\ s[i] \in RunIds
  BY ElementOfSeq, <1>1, <1>3 DEF Linked
<1>6. \A i \in 1..(n - 1) : runs[t[i + 1]].source = t[i] /\ t[i] \in RunIds
  BY ElementOfSeq, <1>2, <1>3 DEF Linked
<1>7. \A i \in 1..m, j \in 1..n : m - i = n - j => s[i] = t[j]
  <2> SUFFICES ASSUME NEW i \in 1..m, NEW j \in 1..n, m - i = n - j PROVE s[i] = t[j]
    OBVIOUS
  <2> HIDE DEF m, n
  <2> DEFINE k == m - i
  <2>1. k \in Nat /\ k < m /\ k < n /\ m - k = i /\ n - k = j
    BY <1>3
  <2>2. s[m - k] = t[n - k]
    BY <2>1, <1>4
  <2> QED
    BY <2>1, <2>2
<1>8. runs[s[1]].source = NoRun \/ m = WalkDepth + 1
  BY <1>1
<1> HIDE DEF m, n
<1>9. ~(m > n)
  <2> SUFFICES ASSUME m > n PROVE FALSE
    OBVIOUS
  <2>1. m - n \in 1..(m - 1) /\ (m - n) + 1 \in 1..m /\ m - ((m - n) + 1) = n - 1 /\ 1 \in 1..n
    BY <1>3
  <2>2. s[(m - n) + 1] = t[1]
    BY <2>1, <1>7
  <2>3. runs[s[(m - n) + 1]].source \in RunIds
    BY <2>1, <1>5
  <2> QED
    BY <2>2, <2>3, <1>2, ConstantsAssumption
<1>10. ~(n > m)
  <2> SUFFICES ASSUME n > m PROVE FALSE
    OBVIOUS
  <2>1. runs[s[1]].source = NoRun
    BY <1>3, <1>8
  <2>2. n - m \in 1..(n - 1) /\ (n - m) + 1 \in 1..n /\ n - ((n - m) + 1) = m - 1 /\ 1 \in 1..m
    BY <1>3
  <2>3. s[1] = t[(n - m) + 1]
    BY <2>2, <1>7
  <2>4. runs[t[(n - m) + 1]].source \in RunIds
    BY <2>2, <1>6
  <2> QED
    BY <2>1, <2>3, <2>4, ConstantsAssumption
<1>11. m = n
  BY <1>3, <1>9, <1>10
<1>12. \A i \in 1..m : s[i] = t[i]
  BY <1>7, <1>11
<1> QED
  BY <1>11, <1>12, SeqEqual DEF m, n

\* What the database rebuilds for a run is the stack it was started with.
LEMMA StackRebuilt ==
  ASSUME TypeOK, NEW r \in RunIds, Stored(r),
         NEW t \in Seq(RunIds), IsLine(t), runs[r].source = SourceOf(t),
         Len(t) <= MaxStackDepth
  PROVE  RunStack(r) = t
<1>0. Len(t) \in Nat /\ t \in [1..Len(t) -> RunIds] /\ Len(t) \in 0..(WalkDepth + 1)
      /\ Len(t) <= WalkDepth
  BY LenProperties, ConstantsAssumption, DepthAssumption
<1>1. t \in Walks
  BY <1>0 DEF Walks
<1>2. IsWalk(t, r)
  <2>1. CASE t = <<>>
    BY <2>1 DEF IsWalk, SourceOf
  <2>2. CASE t # <<>>
    <3>1. t[Len(t)] \in RunIds
      BY <2>2, <1>0, EmptySeq, ElementOfSeq
    <3> QED
      BY <2>2, <3>1, ConstantsAssumption DEF IsWalk, SourceOf, IsLine
  <2> QED
    BY <2>1, <2>2
<1>3. RunStack(r) \in Walks /\ IsWalk(RunStack(r), r)
  BY <1>1, <1>2 DEF RunStack
<1>4. RunStack(r) \in Seq(RunIds)
  <2>1. PICK n \in 0..(WalkDepth + 1) : RunStack(r) \in [1..n -> RunIds]
    BY <1>3 DEF Walks
  <2>2. n \in Nat
    BY ConstantsAssumption
  <2> QED
    BY <2>1, <2>2, SeqDef
<1>5. CASE t = <<>>
  BY <1>3, <1>5 DEF IsWalk, SourceOf
<1>6. CASE t # <<>>
  <2>1. runs[r].source = t[Len(t)] /\ t[Len(t)] \in RunIds
    BY <1>6, <1>0, EmptySeq, ElementOfSeq DEF SourceOf
  <2> QED
    BY <1>0, <1>3, <1>4, <1>6, <2>1, WalkUnique, ConstantsAssumption
<1> QED
  BY <1>5, <1>6

-----------------------------------------------------------------------------
\* Appending a run to the line that ends with its source gives a line.
LEMMA LineExtended ==
  ASSUME TypeOK, NEW r \in RunIds, Stored(r),
         NEW t \in Seq(RunIds), IsLine(t), runs[r].source = SourceOf(t)
  PROVE  /\ Append(t, r) \in Seq(RunIds) /\ Append(t, r) # <<>>
         /\ SourceOf(Append(t, r)) = r
         /\ IsLine(Append(t, r))
<1> DEFINE u == Append(t, r)
           n == Len(t)
<1>1. n \in Nat /\ u \in Seq(RunIds) /\ Len(u) = n + 1 /\ u[n + 1] = r
      /\ \A i \in 1..n : u[i] = t[i]
  BY LenProperties, AppendProperties
<1>2. u # <<>>
  BY <1>1
<1>3. SourceOf(u) = r
  BY <1>1, <1>2 DEF SourceOf
<1>4. t = <<>> <=> n = 0
  BY EmptySeq
<1>5. t # <<>> => Stored(t[1]) /\ runs[t[1]].source = NoRun /\ Linked(t) /\ runs[r].source = t[n]
  BY DEF IsLine, SourceOf
<1>6. t = <<>> => runs[r].source = NoRun
  BY DEF SourceOf
<1>7. t # <<>> => \A i \in 1..(n - 1) : Stored(t[i + 1]) /\ runs[t[i + 1]].source = t[i]
  BY <1>5 DEF Linked
<1> HIDE DEF u, n
<1>8. Stored(u[1]) /\ runs[u[1]].source = NoRun
  <2>1. CASE n = 0
    BY <2>1, <1>1, <1>4, <1>6
  <2>2. CASE n # 0
    <3>1. u[1] = t[1]
      BY <1>1, <2>2
    <3> QED
      BY <3>1, <2>2, <1>4, <1>5
  <2> QED
    BY <2>1, <2>2
<1>9. ASSUME NEW i \in 1..n PROVE Stored(u[i + 1]) /\ runs[u[i + 1]].source = u[i]
  <2>0. n # 0 /\ t # <<>>
    BY <1>1, <1>4
  <2>1. CASE i = n
    BY <2>0, <2>1, <1>1, <1>5
  <2>2. CASE i # n
    <3>1. i \in 1..(n - 1) /\ i + 1 \in 1..n
      BY <1>1, <2>2
    <3>2. u[i] = t[i] /\ u[i + 1] = t[i + 1]
      BY <3>1, <1>1
    <3> QED
      BY <3>1, <3>2, <2>0, <1>7
  <2> QED
    BY <2>1, <2>2
<1>10. Linked(u)
  BY <1>1, <1>9 DEF Linked
<1>11. IsLine(u)
  BY <1>8, <1>10 DEF IsLine
<1> QED
  BY <1>1, <1>2, <1>3, <1>11 DEF u

-----------------------------------------------------------------------------
(* The inductive invariant *)

\* The stack of an event is a line, and its last run ended the way the automation
\* of the event watches for.
JobSound(j) ==
    /\ IsLine(j.stack)
    /\ j.stack # <<>> =>
          LET q == runs[SourceOf(j.stack)] IN
          /\ Stored(SourceOf(j.stack)) /\ q.status \in Outcome
          /\ Watches(j.automation, q.automation, q.status)

\* A slot that executes has a run of its own, stored for its job and not ended.
SlotSound(w) ==
    worker[w] # Idle =>
        /\ JobSound(worker[w].job)
        /\ worker[w].pc = "execute" =>
              LET r == worker[w].run  j == worker[w].job IN
              /\ r \in RunIds /\ Stored(r)
              /\ runs[r].source = SourceOf(j.stack)
              /\ runs[r].automation = j.automation
              /\ runs[r].status = "scheduled"
              /\ Len(j.stack) <= MaxStackDepth
              /\ \A v \in Slots : (v # w /\ At(v, "execute")) => worker[v].run # r

RunSound(r) ==
    Stored(r) =>
        /\ \E s \in Lines(MaxStackDepth) : runs[r].source = SourceOf(s)
        /\ runs[r].source # NoRun =>
              LET q == runs[runs[r].source] IN
              /\ Stored(runs[r].source) /\ q.status \in Outcome
              /\ Watches(runs[r].automation, q.automation, q.status)

IInv ==
    /\ TypeOK
    /\ \A j \in jobs : JobSound(j)
    /\ \A w \in Slots : SlotSound(w)
    /\ \A r \in RunIds : RunSound(r)

-----------------------------------------------------------------------------
(* Runs are only added, and an ended run does not change *)

Grows ==
    \A q \in RunIds :
        Stored(q) =>
            /\ Stored(q)'
            /\ runs'[q].source = runs[q].source
            /\ runs'[q].automation = runs[q].automation
            /\ runs[q].status \in Outcome => runs'[q].status = runs[q].status

LEMMA LineKept ==
  ASSUME Grows, NEW s \in Seq(RunIds), IsLine(s)
  PROVE  IsLine(s)'
<1> SUFFICES ASSUME s # <<>>
             PROVE  (Stored(s[1]) /\ runs[s[1]].source = NoRun /\ Linked(s))'
  BY DEF IsLine
<1>1. Len(s) \in Nat /\ Len(s) > 0 /\ \A i \in 1..Len(s) : s[i] \in RunIds
  BY LenProperties, EmptySeq, ElementOfSeq
<1>2. s[1] \in RunIds /\ \A i \in 1..(Len(s) - 1) : s[i + 1] \in RunIds
  BY <1>1
<1>3. Stored(s[1]) /\ runs[s[1]].source = NoRun /\ Linked(s)
  BY DEF IsLine
<1>4. (Stored(s[1]) /\ runs[s[1]].source = NoRun)'
  BY <1>2, <1>3 DEF Grows
<1>5. Linked(s)'
  BY <1>2, <1>3 DEF Grows, Linked
<1> QED
  BY <1>4, <1>5

LEMMA LastIsRun ==
  ASSUME NEW s \in Seq(RunIds), s # <<>>
  PROVE  SourceOf(s) \in RunIds /\ SourceOf(s) = s[Len(s)]
  BY LenProperties, EmptySeq, ElementOfSeq DEF SourceOf

LEMMA JobKept ==
  ASSUME Grows, NEW j \in RunAutomation, JobSound(j)
  PROVE  JobSound(j)'
<1>1. j.stack \in Seq(RunIds)
  BY DEF RunAutomation
<1>2. IsLine(j.stack)'
  BY <1>1, LineKept DEF JobSound
<1>3. ASSUME j.stack # <<>>
      PROVE  LET q == runs'[SourceOf(j.stack)] IN
             /\ Stored(SourceOf(j.stack))' /\ q.status \in Outcome
             /\ Watches(j.automation, q.automation, q.status)
  <2>1. SourceOf(j.stack) \in RunIds
    BY <1>1, <1>3, LastIsRun
  <2> QED
    BY <1>3, <2>1 DEF JobSound, Grows
<1> QED
  BY <1>2, <1>3 DEF JobSound

LEMMA RunKept ==
  ASSUME TypeOK, Grows, NEW r \in RunIds, Stored(r), RunSound(r)
  PROVE  RunSound(r)'
<1>1. PICK s \in Lines(MaxStackDepth) : runs[r].source = SourceOf(s)
  BY DEF RunSound
<1>2. s \in Seq(RunIds)
  BY SeqDef, ConstantsAssumption, DepthAssumption DEF Lines
<1>3. IsLine(s)'
  BY <1>1, <1>2, LineKept DEF Lines
<1>4. s \in Lines(MaxStackDepth)'
  BY <1>1, <1>3 DEF Lines
<1>5. runs'[r].source = runs[r].source /\ runs'[r].automation = runs[r].automation
  BY DEF Grows
<1>6. ASSUME runs[r].source # NoRun
      PROVE  LET q == runs'[runs[r].source] IN
             /\ Stored(runs[r].source)' /\ q.status \in Outcome
             /\ Watches(runs[r].automation, q.automation, q.status)
  <2>1. runs[r].source \in RunIds
    BY <1>6 DEF TypeOK, Run, Stored
  <2> QED
    BY <1>6, <2>1 DEF RunSound, Grows
<1> QED
  BY <1>1, <1>4, <1>5, <1>6 DEF RunSound

\* The slot goes on with the same job at the same place.
SameRun(w) ==
    \/ worker'[w] = Idle /\ worker[w] = Idle
    \/ /\ worker'[w] # Idle /\ worker[w] # Idle
       /\ worker'[w].job = worker[w].job /\ worker'[w].pc = worker[w].pc
       /\ worker'[w].run = worker[w].run

\* A slot that does not move is not disturbed when nobody touches its run.
LEMMA SlotKept ==
  ASSUME TypeOK, Grows, NEW w \in Slots, SlotSound(w), SameRun(w),
         At(w, "execute") => runs'[worker[w].run] = runs[worker[w].run],
         \A v \in Slots : (v # w /\ At(v, "execute")' /\ At(w, "execute")) =>
            \/ At(v, "execute") /\ worker'[v].run = worker[v].run
            \/ worker'[v].run # worker[w].run
  PROVE  SlotSound(w)'
<1> SUFFICES ASSUME worker[w] # Idle PROVE SlotSound(w)'
  BY DEF SlotSound, SameRun
<1>0. /\ worker'[w] # Idle /\ worker'[w].job = worker[w].job
      /\ worker'[w].pc = worker[w].pc /\ worker'[w].run = worker[w].run
  BY DEF SameRun
<1>1. worker[w].job \in RunAutomation
  BY DEF TypeOK, Busy
<1>2. JobSound(worker[w].job)'
  <2>1. JobSound(worker[w].job)
    BY DEF SlotSound
  <2> DEFINE j == worker[w].job
  <2>2. j' = j
    BY <1>0
  <2> HIDE DEF j
  <2>3. j \in RunAutomation /\ JobSound(j)
    BY <1>1, <2>1 DEF j
  <2>4. JobSound(j)'
    BY <2>2, <2>3, JobKept DEF JobSound
  <2> QED
    BY <2>4 DEF j
<1>3. ASSUME worker[w].pc = "execute"
      PROVE  LET r == worker[w].run  j == worker[w].job IN
              /\ r \in RunIds /\ Stored(r)'
              /\ runs'[r].source = SourceOf(j.stack)
              /\ runs'[r].automation = j.automation
              /\ runs'[r].status = "scheduled"
              /\ Len(j.stack) <= MaxStackDepth
              /\ \A v \in Slots : (v # w /\ At(v, "execute")') => worker'[v].run # r
  BY <1>0, <1>3 DEF SlotSound, At, Stored
<1> QED
  BY <1>0, <1>2, <1>3 DEF SlotSound

-----------------------------------------------------------------------------
(* The invariant is inductive *)

LEMMA InvInit == Init => IInv
  BY ConstantsAssumption, SentinelAssumption
  DEF Init, IInv, TypeOK, SlotSound, RunSound, Stored

\* A step that stores no run and in which at most one slot moves, not to "execute".
LEMMA QuietStep ==
  ASSUME IInv, TypeOK', UNCHANGED runs,
         \A j \in jobs' : j \in JobsAbout \/ (j \in RunAutomation /\ j.stack = <<>>),
         \A w \in Slots :
            \/ SameRun(w)
            \/ worker'[w] = Idle
            \/ /\ worker'[w] # Idle /\ worker'[w].pc = "start"
               /\ worker'[w].job \in jobs \/ worker'[w].job.stack = <<>>
  PROVE  IInv'
<1>1. TypeOK /\ Grows
  BY DEF IInv, Grows, Stored
<1>2. \A j \in RunAutomation : JobSound(j) => JobSound(j)'
  BY <1>1, JobKept
<1>3. \A j \in RunAutomation : j.stack = <<>> => JobSound(j)'
  BY DEF JobSound, IsLine
<1>4. \A j \in JobsAbout : j \in RunAutomation /\ JobSound(j)
  BY DEF JobsAbout, IInv, SlotSound, TypeOK, Busy
<1>5. \A j \in jobs' : JobSound(j)'
  BY <1>2, <1>3, <1>4
<1>6. \A r \in RunIds : RunSound(r)'
  <2> SUFFICES ASSUME NEW r \in RunIds PROVE RunSound(r)'
    OBVIOUS
  <2>1. CASE Stored(r)
    BY <1>1, <2>1, RunKept DEF IInv
  <2>2. CASE ~Stored(r)
    BY <2>2 DEF RunSound, Stored
  <2> QED
    BY <2>1, <2>2
<1>7. ASSUME NEW v \in Slots, At(v, "execute")'
      PROVE  At(v, "execute") /\ worker'[v].run = worker[v].run
  BY <1>7 DEF At, SameRun
<1>8. ASSUME NEW w \in Slots PROVE SlotSound(w)'
  <2>1. CASE SameRun(w)
    BY <1>1, <1>7, <2>1, SlotKept DEF IInv, At
  <2>2. CASE worker'[w] = Idle
    BY <2>2 DEF SlotSound
  <2>3. CASE /\ worker'[w] # Idle /\ worker'[w].pc = "start"
             /\ worker'[w].job \in jobs \/ worker'[w].job.stack = <<>>
    <3>1. PICK j \in RunAutomation : j = worker'[w].job
      BY <2>3 DEF TypeOK, Busy
    <3>2. JobSound(j)'
      BY <2>3, <3>1, <1>2, <1>3 DEF IInv
    <3> QED
      BY <2>3, <3>1, <3>2 DEF SlotSound, JobSound
  <2> QED
    BY <2>1, <2>2, <2>3
<1> QED
  BY <1>5, <1>6, <1>8 DEF IInv

LEMMA InsertStep ==
  ASSUME IInv, NEW w \in Slots, NEW input \in Input, InsertRun(w, input)
  PROVE  IInv'
<1>0. TypeOK /\ worker[w] \in Busy /\ worker[w] # Idle /\ worker[w].pc = "start"
  BY DEF IInv, TypeOK, InsertRun, At
<1>1. PICK j \in RunAutomation : j = worker[w].job
  BY <1>0 DEF Busy
<1>2. PICK r \in RunIds : r = FreshRun /\ ~Stored(r)
  BY DEF InsertRun, FreshRun
<1>3. PICK new : new = [automation |-> j.automation, source |-> SourceOf(j.stack),
                        input |-> input, status |-> "scheduled"]
  OBVIOUS
<1>4. /\ runs' = [runs EXCEPT ![r] = new]
      /\ worker' = [worker EXCEPT ![w].pc = "execute", ![w].run = r]
      /\ UNCHANGED <<jobs, handled, starts, coreFaults, workerCrashes>>
      /\ ~StackTooDeep(j.stack)
  BY <1>1, <1>2, <1>3 DEF InsertRun
<1>5. /\ j.stack \in Seq(RunIds) /\ Len(j.stack) \in 0..MaxStackDepth
      /\ j.stack \in [1..Len(j.stack) -> RunIds]
      /\ SourceOf(j.stack) \in RunIds \union {NoRun}
  <2>1. j.stack \in Seq(RunIds)
    BY DEF RunAutomation
  <2> QED
    BY <2>1, <1>4, LastIsRun, LenProperties, ConstantsAssumption, DepthAssumption
       DEF SourceOf, StackTooDeep
<1>6. new \in Run /\ new # NoRun
  BY <1>3, <1>5, SentinelAssumption DEF Run, RunAutomation
<1>7. JobSound(j)
  BY <1>0, <1>1 DEF IInv, SlotSound
<1>8. runs'[r] = new /\ \A q \in RunIds : q # r => runs'[q] = runs[q]
  BY <1>0, <1>4 DEF TypeOK
<1>9. Grows
  BY <1>2, <1>8 DEF Grows, Stored
<1>10. JobSound(j)'
  BY <1>7, <1>9, JobKept
<1>11. /\ worker'[w] = [worker[w] EXCEPT !.pc = "execute", !.run = r]
       /\ \A v \in Slots : v # w => worker'[v] = worker[v]
  BY <1>0, <1>4 DEF TypeOK
<1>12. /\ worker'[w] \in Busy /\ worker'[w] # Idle /\ worker'[w].job = j
       /\ worker'[w].pc = "execute" /\ worker'[w].run = r
  <2>1. worker'[w] \in Busy
    BY <1>0, <1>11, Zenon DEF Busy
  <2>2. worker'[w].job = j /\ worker'[w].pc = "execute" /\ worker'[w].run = r
    BY <1>0, <1>1, <1>11 DEF Busy
  <2> QED
    BY <2>1, <2>2, SentinelAssumption
<1>13. TypeOK'
  <2>1. runs' \in [RunIds -> Run \union {NoRun}]
    BY <1>0, <1>4, <1>6 DEF TypeOK
  <2>2. worker' \in [Slots -> Busy \union {Idle}]
    BY <1>0, <1>4, <1>11, <1>12 DEF TypeOK
  <2> QED
    BY <1>0, <1>4, <2>1, <2>2 DEF TypeOK
<1>14. \A k \in jobs' : JobSound(k)'
  BY <1>0, <1>4, <1>9, JobKept DEF IInv, TypeOK
<1>15. ASSUME NEW q \in RunIds PROVE RunSound(q)'
  <2>1. CASE Stored(q)
    BY <1>0, <1>9, <2>1, RunKept DEF IInv
  <2>2. CASE q # r /\ ~Stored(q)
    BY <1>8, <2>2 DEF RunSound, Stored
  <2>3. CASE q = r
    <3>1. IsLine(j.stack)'
      BY <1>10 DEF JobSound
    <3>2. j.stack \in Lines(MaxStackDepth)'
      BY <1>5, <3>1 DEF Lines
    <3>3. runs'[r].source = SourceOf(j.stack) /\ runs'[r].automation = j.automation
      BY <1>3, <1>8
    <3>4. SourceOf(j.stack) # NoRun => j.stack # <<>>
      BY DEF SourceOf
    <3> QED
      BY <2>3, <1>10, <3>2, <3>3, <3>4 DEF RunSound, JobSound
  <2> QED
    BY <2>1, <2>2, <2>3
<1>16. \A v \in Slots : At(v, "execute") => worker[v].run \in RunIds /\ worker[v].run # r
  BY <1>2 DEF IInv, SlotSound, At
<1>17. ASSUME NEW v \in Slots, v # w PROVE SlotSound(v)'
  <2>1. SameRun(v)
    BY <1>11, <1>17 DEF SameRun
  <2>2. At(v, "execute") => runs'[worker[v].run] = runs[worker[v].run]
    BY <1>8, <1>16
  <2>3. \A u \in Slots : (u # v /\ At(u, "execute")' /\ At(v, "execute")) =>
            \/ At(u, "execute") /\ worker'[u].run = worker[u].run
            \/ worker'[u].run # worker[v].run
    BY <1>11, <1>12, <1>16 DEF At
  <2> QED
    BY <1>0, <1>9, <2>1, <2>2, <2>3, SlotKept DEF IInv
<1>18. SlotSound(w)'
  <2>1. Stored(r)' /\ runs'[r].source = SourceOf(j.stack)
        /\ runs'[r].automation = j.automation /\ runs'[r].status = "scheduled"
    BY <1>3, <1>6, <1>8 DEF Stored
  <2>2. \A v \in Slots : (v # w /\ At(v, "execute")') => worker'[v].run # r
    BY <1>11, <1>16 DEF At
  <2>3. Len(j.stack) <= MaxStackDepth
    BY <1>5, ConstantsAssumption
  <2> QED
    BY <1>10, <1>12, <2>1, <2>2, <2>3 DEF SlotSound, JobSound
<1> QED
  BY <1>13, <1>14, <1>15, <1>17, <1>18 DEF IInv

LEMMA FinishStep ==
  ASSUME IInv, NEW w \in Slots, NEW o \in Outcome, Finish(w, o)
  PROVE  IInv'
<1>0. TypeOK /\ worker[w] \in Busy /\ worker[w] # Idle /\ At(w, "execute")
      /\ worker[w].pc = "execute" /\ SlotSound(w)
  BY DEF IInv, TypeOK, Finish, At
<1>1. PICK j \in RunAutomation : j = worker[w].job
  BY <1>0 DEF Busy
<1>2. PICK r \in RunIds : /\ r = worker[w].run /\ Stored(r)
                          /\ runs[r].source = SourceOf(j.stack)
                          /\ runs[r].status = "scheduled" /\ JobSound(j)
                          /\ Len(j.stack) <= MaxStackDepth
                          /\ \A v \in Slots : (v # w /\ At(v, "execute")) => worker[v].run # r
  BY <1>0, <1>1 DEF SlotSound
<1>3. /\ runs' = [runs EXCEPT ![r].status = o]
      /\ jobs' = jobs \union Followers(r, o)
      /\ worker' = [worker EXCEPT ![w] = Idle]
      /\ handled' = handled \union {j}
      /\ UNCHANGED <<starts, coreFaults, workerCrashes>>
  BY <1>1, <1>2 DEF Finish, Done
<1>4. j.stack \in Seq(RunIds) /\ IsLine(j.stack)
  BY <1>2 DEF RunAutomation, JobSound
<1>5. PICK u \in Seq(RunIds) : u = Append(RunStack(r), r)
                               /\ u # <<>> /\ SourceOf(u) = r /\ IsLine(u)
  <2>1. RunStack(r) = j.stack
    BY <1>0, <1>2, <1>4, StackRebuilt
  <2> QED
    BY <1>0, <1>2, <1>4, <2>1, LineExtended
<1>6. /\ runs[r] \in Run
      /\ runs'[r] = [runs[r] EXCEPT !.status = o]
      /\ \A q \in RunIds : q # r => runs'[q] = runs[q]
  BY <1>0, <1>2, <1>3 DEF TypeOK, Stored
<1>7. /\ runs'[r] \in Run /\ runs'[r] # NoRun /\ runs'[r].status = o
      /\ runs'[r].source = runs[r].source
      /\ runs'[r].automation = runs[r].automation
  BY <1>6, SentinelAssumption DEF Run
<1>8. Grows
  BY <1>2, <1>6, <1>7 DEF Grows, Stored, Outcome
<1>9. \A k \in Followers(r, o) :
         /\ k \in RunAutomation /\ k.stack = u
         /\ Watches(k.automation, runs[r].automation, o)
  <2> SUFFICES ASSUME NEW k \in Followers(r, o)
               PROVE  /\ k \in RunAutomation /\ k.stack = u
                      /\ Watches(k.automation, runs[r].automation, o)
    OBVIOUS
  <2>1. PICK b \in Watchers(runs[r].automation, o) :
          k = [automation |-> b, stack |-> u, input |-> runs[r].input, start |-> 0]
    BY <1>5 DEF Followers
  <2>2. b \in Automations /\ Watches(b, runs[r].automation, o)
    BY DEF Watchers, Watches, Outcome
  <2>3. runs[r].input \in Input
    BY <1>6 DEF Run
  <2> QED
    BY <2>1, <2>2, <2>3 DEF RunAutomation
<1>10. \A k \in jobs' : k \in RunAutomation /\ JobSound(k)'
  <2>1. ASSUME NEW k \in jobs PROVE k \in RunAutomation /\ JobSound(k)'
    BY <1>0, <1>8, JobKept DEF IInv, TypeOK
  <2>2. ASSUME NEW k \in Followers(r, o) PROVE k \in RunAutomation /\ JobSound(k)'
    <3>1. IsLine(u)'
      BY <1>5, <1>8, LineKept
    <3> QED
      BY <1>5, <1>7, <1>9, <3>1 DEF JobSound, Stored
  <2> QED
    BY <1>3, <2>1, <2>2
<1>11. \A v \in Slots : worker'[v] = IF v = w THEN Idle ELSE worker[v]
  BY <1>0, <1>3 DEF TypeOK
<1>12. TypeOK'
  <2>1. runs' \in [RunIds -> Run \union {NoRun}]
    BY <1>0, <1>3, <1>6, <1>7 DEF TypeOK
  <2>2. worker' \in [Slots -> Busy \union {Idle}]
    BY <1>0, <1>3 DEF TypeOK
  <2>3. jobs' \subseteq RunAutomation
    BY <1>10
  <2> QED
    BY <1>0, <1>3, <2>1, <2>2, <2>3 DEF TypeOK
<1>13. ASSUME NEW q \in RunIds PROVE RunSound(q)'
  <2>1. CASE Stored(q)
    BY <1>0, <1>8, <2>1, RunKept DEF IInv
  <2>2. CASE ~Stored(q)
    BY <1>2, <1>6, <2>2 DEF RunSound, Stored
  <2> QED
    BY <2>1, <2>2
<1>14. ASSUME NEW v \in Slots PROVE SlotSound(v)'
  <2>1. CASE v = w
    BY <1>11, <2>1 DEF SlotSound
  <2>2. CASE v # w
    <3>1. SameRun(v)
      BY <1>11, <2>2 DEF SameRun
    <3>2. At(v, "execute") => worker[v].run \in RunIds /\ worker[v].run # r
      BY <1>2, <2>2 DEF IInv, SlotSound, At
    <3>3. At(v, "execute") => runs'[worker[v].run] = runs[worker[v].run]
      BY <1>6, <3>2
    <3>4. \A x \in Slots : At(x, "execute")' =>
             At(x, "execute") /\ worker'[x].run = worker[x].run
      BY <1>11 DEF At
    <3> QED
      BY <1>0, <1>8, <3>1, <3>3, <3>4, SlotKept DEF IInv
  <2> QED
    BY <2>1, <2>2
<1> QED
  BY <1>10, <1>12, <1>13, <1>14 DEF IInv

\* Steps that move one slot to rest, or give it a job to start with.
LEMMA Rests ==
  ASSUME IInv, NEW w \in Slots, worker' = [worker EXCEPT ![w] = Idle],
         UNCHANGED <<runs, jobs, starts, workerCrashes>>,
         handled' \subseteq RunAutomation, coreFaults' \in Nat
  PROVE  IInv'
<1>1. TypeOK
  BY DEF IInv
<1>2. \A v \in Slots : worker'[v] = IF v = w THEN Idle ELSE worker[v]
  BY <1>1 DEF TypeOK
<1>3. TypeOK'
  BY <1>1 DEF TypeOK
<1>4. \A v \in Slots : SameRun(v) \/ worker'[v] = Idle
  BY <1>2 DEF SameRun
<1> QED
  BY <1>3, <1>4, QuietStep DEF JobsAbout

LEMMA TakeTyped ==
  ASSUME NEW j \in RunAutomation
  PROVE  Take(j) \in Busy /\ Take(j) # Idle /\ Take(j).pc = "start" /\ Take(j).job = j
<1>1. Take(j) \in Busy
  BY DEF Take, Busy
<1>2. Take(j).pc = "start" /\ Take(j).job = j
  BY DEF Take
<1> QED
  BY <1>1, <1>2, SentinelAssumption

LEMMA StartTyped ==
  ASSUME TypeOK, NEW a \in Automations, NEW input \in Input
  PROVE  Start(a, input) \in RunAutomation /\ Start(a, input).stack = <<>>
<1>1. starts + 1 \in Nat /\ <<>> \in Seq(RunIds)
  BY DEF TypeOK
<1> QED
  BY <1>1 DEF Start, RunAutomation

LEMMA Takes ==
  ASSUME IInv, NEW w \in Slots, NEW j \in RunAutomation, j \in jobs \/ j.stack = <<>>,
         worker' = [worker EXCEPT ![w] = Take(j)],
         jobs' \subseteq jobs, starts' \in Nat,
         UNCHANGED <<runs, handled, coreFaults, workerCrashes>>
  PROVE  IInv'
<1>1. TypeOK
  BY DEF IInv
<1>2. \A v \in Slots : worker'[v] = IF v = w THEN Take(j) ELSE worker[v]
  BY <1>1 DEF TypeOK
<1>3. TypeOK'
  BY <1>1, TakeTyped DEF TypeOK
<1>4. \A v \in Slots :
         \/ SameRun(v)
         \/ /\ worker'[v] # Idle /\ worker'[v].pc = "start"
            /\ worker'[v].job \in jobs \/ worker'[v].job.stack = <<>>
  BY <1>2, TakeTyped DEF SameRun
<1> QED
  BY <1>3, <1>4, QuietStep DEF JobsAbout

LEMMA CrashStep ==
  ASSUME IInv, NEW w \in Slots, WorkerCrash(w)
  PROVE  IInv'
<1>1. TypeOK /\ worker[w] \in Busy /\ worker[w] # Idle /\ worker[w].job \in RunAutomation
  BY DEF IInv, TypeOK, WorkerCrash, Busy
<1>2. /\ worker'[w] = [worker[w] EXCEPT !.delivered = FALSE]
      /\ \A v \in Slots : v # w => worker'[v] = worker[v]
  BY <1>1 DEF WorkerCrash, TypeOK
<1>3. worker'[w] \in Busy
  BY <1>1, <1>2, Zenon DEF Busy
<1>4. /\ worker'[w] # Idle /\ worker'[w].job = worker[w].job
      /\ worker'[w].pc = worker[w].pc /\ worker'[w].run = worker[w].run
  <2>1. worker'[w] # Idle
    BY <1>3, SentinelAssumption
  <2> QED
    BY <1>1, <1>2, <2>1 DEF Busy
<1>5. worker' \in [Slots -> Busy \union {Idle}]
  BY <1>1, <1>2, <1>3 DEF TypeOK, WorkerCrash
<1>6. TypeOK'
  BY <1>1, <1>5 DEF TypeOK, WorkerCrash
<1>7. \A v \in Slots : SameRun(v)
  BY <1>2, <1>4, <1>1 DEF SameRun
<1>8. \A j \in jobs' : j \in JobsAbout
  BY <1>1 DEF WorkerCrash, JobsAbout
<1>9. UNCHANGED runs
  BY DEF WorkerCrash
<1> QED
  BY <1>6, <1>7, <1>8, <1>9, QuietStep

LEMMA InvNext == IInv /\ [Next]_vars => IInv'
<1> SUFFICES ASSUME IInv, [Next]_vars PROVE IInv'
  OBVIOUS
<1>0. TypeOK
  BY DEF IInv
<1>1. ASSUME NEW a \in Automations, StageEvent(a) PROVE IInv'
  <2>1. Start(a, "pub") \in RunAutomation /\ Start(a, "pub").stack = <<>>
    BY <1>0, StartTyped DEF Input
  <2>2. TypeOK'
    BY <1>0, <1>1, <2>1 DEF TypeOK, StageEvent
  <2>3. \A j \in jobs' : j \in JobsAbout \/ (j \in RunAutomation /\ j.stack = <<>>)
    BY <1>1, <2>1 DEF StageEvent, JobsAbout
  <2>4. \A w \in Slots : SameRun(w)
    BY <1>1 DEF StageEvent, SameRun
  <2> QED
    BY <1>1, <2>2, <2>3, <2>4, QuietStep DEF StageEvent
<1>2. ASSUME NEW a \in Automations, NEW q \in Requests, NEW input \in Input, Request(q, a, input)
      PROVE  IInv'
  <2>1. Start(a, input) \in RunAutomation /\ Start(a, input).stack = <<>>
    BY <1>0, StartTyped
  <2>2. PICK j \in RunAutomation : j = Start(a, input) /\ j.stack = <<>>
    BY <2>1
  <2>3. /\ q \in Slots /\ worker' = [worker EXCEPT ![q] = Take(j)]
        /\ jobs' \subseteq jobs /\ starts' \in Nat
        /\ UNCHANGED <<runs, handled, coreFaults, workerCrashes>>
    BY <1>0, <1>2, <2>2 DEF Request, Slots, TypeOK
  <2> QED
    BY <2>2, <2>3, Takes
<1>3. ASSUME NEW w \in Workers, NEW j \in jobs, Pick(w, j) PROVE IInv'
  BY <1>0, <1>3, Takes DEF Pick, Slots, TypeOK
<1>4. ASSUME NEW w \in Slots PROVE worker[w] # Idle => worker[w].job \in RunAutomation
  BY <1>0 DEF TypeOK, Busy
<1>5. ASSUME NEW w \in Slots, Handle(w) PROVE IInv'
  <2>1. CASE RejectPayload(w)
    BY <1>0, <2>1, Rests DEF RejectPayload, TypeOK
  <2>2. CASE Refuse(w)
    BY <1>0, <1>4, <2>2, Rests DEF Refuse, Done, At, TypeOK
  <2>3. CASE NotMet(w)
    BY <1>0, <1>4, <2>3, Rests DEF NotMet, Done, At, TypeOK
  <2>4. CASE \E input \in Input : InsertRun(w, input)
    BY <2>4, InsertStep
  <2>5. CASE \E o \in Outcome : Finish(w, o)
    BY <2>5, FinishStep
  <2> QED
    BY <1>5, <2>1, <2>2, <2>3, <2>4, <2>5 DEF Handle
<1>6. ASSUME NEW w \in Slots, CoreFault(w) PROVE IInv'
  <2>1. handled' \subseteq RunAutomation /\ coreFaults' \in Nat
    BY <1>0, <1>4, <1>6 DEF CoreFault, Done, TypeOK
  <2>2. worker' = [worker EXCEPT ![w] = Idle]
        /\ UNCHANGED <<runs, jobs, starts, workerCrashes>>
    BY <1>6 DEF CoreFault, Done
  <2> QED
    BY <2>1, <2>2, Rests
<1>7. ASSUME NEW w \in Slots, WorkerCrash(w) PROVE IInv'
  BY <1>7, CrashStep
<1>8. CASE UNCHANGED vars
  BY <1>0, <1>8, QuietStep DEF vars, TypeOK, JobsAbout, SameRun
<1> QED
  BY <1>1, <1>2, <1>3, <1>5, <1>6, <1>7, <1>8 DEF Next, PickAny

THEOREM Invariance == Spec => []IInv
  BY InvInit, InvNext, PTL DEF Spec

-----------------------------------------------------------------------------
(* One follower *)

\* Two events that ask the same automation to follow the same run.
SameEvent(i, j) ==
    /\ i.stack # <<>> /\ j.stack # <<>>
    /\ i.automation = j.automation /\ SourceOf(i.stack) = SourceOf(j.stack)

\* The run is what the event asks for.
Answers(r, j) ==
    /\ Stored(r) /\ j.stack # <<>>
    /\ runs[r].automation = j.automation /\ runs[r].source = SourceOf(j.stack)

QueuedOnce == \A i, j \in jobs : SameEvent(i, j) => i = j

TakenOrQueued ==
    \A w \in Slots : worker[w] # Idle => \A j \in jobs : ~SameEvent(j, worker[w].job)

TakenOnce ==
    \A v, w \in Slots :
        (worker[v] # Idle /\ worker[w] # Idle /\ SameEvent(worker[v].job, worker[w].job))
            => v = w

\* An event that is queued, or whose handler has not stored its run, has no run.
QueuedUnanswered == \A j \in jobs, r \in RunIds : ~Answers(r, j)

TakenUnanswered ==
    \A w \in Slots, r \in RunIds : At(w, "start") => ~Answers(r, worker[w].job)

AnsweredOnce ==
    \A q, r \in RunIds :
        (Stored(q) /\ Stored(r) /\ q # r /\ runs[q].source # NoRun
         /\ runs[q].source = runs[r].source)
            => runs[q].automation # runs[r].automation

Unique ==
    /\ QueuedOnce /\ TakenOrQueued /\ TakenOnce
    /\ QueuedUnanswered /\ TakenUnanswered /\ AnsweredOnce

\* A step that stores no run, and after which everything queued or taken was so
\* before or comes from a stage event or a request.
LEMMA NoNewEvents ==
  ASSUME Unique,
         \A r \in RunIds : /\ Stored(r)' <=> Stored(r)
                           /\ Stored(r) => /\ runs'[r].automation = runs[r].automation
                                           /\ runs'[r].source = runs[r].source,
         \A j \in jobs' : j \in jobs \/ j.stack = <<>>,
         \A w \in Slots : worker'[w] # Idle =>
            worker'[w].job.stack = <<>> \/ worker'[w] = worker[w]
  PROVE  Unique'
<1>1. QueuedOnce'
  BY DEF Unique, QueuedOnce, SameEvent
<1>2. TakenOrQueued' /\ TakenOnce'
  BY DEF Unique, TakenOrQueued, TakenOnce, SameEvent
<1>3. \A r \in RunIds : \A j : Answers(r, j)' => Answers(r, j)
  BY DEF Answers
<1>4. QueuedUnanswered' /\ TakenUnanswered'
  BY <1>3 DEF Unique, QueuedUnanswered, TakenUnanswered, Answers, At
<1>5. AnsweredOnce'
  BY DEF Unique, AnsweredOnce
<1> QED
  BY <1>1, <1>2, <1>4, <1>5 DEF Unique

LEMMA PickUnique ==
  ASSUME IInv, Unique, NEW w \in Workers, NEW j \in jobs, Pick(w, j)
  PROVE  Unique'
<1>1. /\ w \in Slots /\ worker[w] = Idle
      /\ jobs' = jobs \ {j} /\ runs' = runs
      /\ \A v \in Slots : worker'[v] = IF v = w THEN Take(j) ELSE worker[v]
  BY DEF Pick, IInv, TypeOK, Slots
<1>2. Take(j) # Idle /\ Take(j).pc = "start" /\ Take(j).job = j
  BY TakeTyped DEF IInv, TypeOK
<1>3. QueuedOnce' /\ QueuedUnanswered' /\ AnsweredOnce'
  BY <1>1 DEF Unique, QueuedOnce, QueuedUnanswered, AnsweredOnce, Answers, Stored
<1>4. TakenOrQueued'
  BY <1>1, <1>2 DEF Unique, QueuedOnce, TakenOrQueued, SameEvent
<1>5. TakenOnce'
  BY <1>1, <1>2 DEF Unique, TakenOrQueued, TakenOnce, SameEvent
<1>6. TakenUnanswered'
  BY <1>1, <1>2 DEF Unique, QueuedUnanswered, TakenUnanswered, At, Answers, Stored
<1> QED
  BY <1>3, <1>4, <1>5, <1>6 DEF Unique

LEMMA InsertUnique ==
  ASSUME IInv, Unique, NEW w \in Slots, NEW input \in Input, InsertRun(w, input)
  PROVE  Unique'
<1>0. TypeOK /\ worker[w] \in Busy /\ worker[w] # Idle /\ worker[w].pc = "start"
  BY DEF IInv, TypeOK, InsertRun, At
<1>1. PICK j \in RunAutomation : j = worker[w].job
  BY <1>0 DEF Busy
<1>2. PICK r \in RunIds : r = FreshRun /\ ~Stored(r)
  BY DEF InsertRun, FreshRun
<1>3. PICK new : new = [automation |-> j.automation, source |-> SourceOf(j.stack),
                        input |-> input, status |-> "scheduled"]
  OBVIOUS
<1>4. /\ runs' = [runs EXCEPT ![r] = new]
      /\ worker' = [worker EXCEPT ![w].pc = "execute", ![w].run = r]
      /\ jobs' = jobs
  BY <1>1, <1>2, <1>3 DEF InsertRun
<1>5. /\ runs'[r] = new /\ new.automation = j.automation /\ new.source = SourceOf(j.stack)
      /\ \A q \in RunIds : q # r => runs'[q] = runs[q]
  BY <1>0, <1>3, <1>4 DEF TypeOK
<1>6. /\ worker'[w].job = j /\ worker'[w].pc = "execute"
      /\ \A v \in Slots : v # w => worker'[v] = worker[v]
  <2>1. worker'[w] = [worker[w] EXCEPT !.pc = "execute", !.run = r]
    BY <1>0, <1>4 DEF TypeOK
  <2> QED
    BY <2>1, <1>0, <1>1, <1>4 DEF TypeOK, Busy
<1>same. \A v \in Slots : /\ worker'[v] # Idle => worker[v] # Idle
                         /\ worker'[v].job = worker[v].job
  BY <1>0, <1>1, <1>6
<1>7. QueuedOnce' /\ TakenOrQueued' /\ TakenOnce'
  <2>1. QueuedOnce'
    BY <1>4 DEF Unique, QueuedOnce, SameEvent
  <2>2. ASSUME NEW v \in Slots, worker'[v] # Idle, NEW k \in jobs
        PROVE  ~SameEvent(k, worker[v].job)
    BY <2>2, <1>same DEF Unique, TakenOrQueued
  <2>3. TakenOrQueued'
    BY <2>2, <1>4, <1>same DEF TakenOrQueued, SameEvent
  <2>4. ASSUME NEW v \in Slots, NEW x \in Slots, worker'[v] # Idle, worker'[x] # Idle,
               SameEvent(worker[v].job, worker[x].job)
        PROVE  v = x
    BY <2>4, <1>same DEF Unique, TakenOnce
  <2>5. TakenOnce'
    BY <2>4, <1>same DEF TakenOnce, SameEvent
  <2> QED
    BY <2>1, <2>3, <2>5
<1>8. \A k : Answers(r, k)' => SameEvent(k, j) \/ j.stack = <<>>
  BY <1>5 DEF Answers, SameEvent
<1>9. \A q \in RunIds : \A k : q # r /\ Answers(q, k)' => Answers(q, k)
  BY <1>5 DEF Answers, Stored
<1>10. j.stack = <<>> => new.source = NoRun
  BY <1>5 DEF SourceOf
<1>11. \A k \in RunAutomation : Answers(r, k)' => SameEvent(k, j)
  <2> SUFFICES ASSUME NEW k \in RunAutomation, Answers(r, k)', j.stack = <<>> PROVE FALSE
    BY <1>8
  <2>1. k.stack \in Seq(RunIds) /\ k.stack # <<>> /\ SourceOf(k.stack) = NoRun
    BY <1>5, <1>10 DEF Answers, RunAutomation
  <2> QED
    BY <2>1, LastIsRun, ConstantsAssumption
<1>12. QueuedUnanswered'
  BY <1>0, <1>1, <1>4, <1>9, <1>11 DEF Unique, TakenOrQueued, QueuedUnanswered, TypeOK
<1>13. TakenUnanswered'
  <2> SUFFICES ASSUME NEW v \in Slots, NEW q \in RunIds, At(v, "start")',
                      Answers(q, worker[v].job)'
               PROVE  FALSE
    BY DEF TakenUnanswered
  <2>1. v # w /\ worker'[v] = worker[v] /\ At(v, "start") /\ worker[v].job \in RunAutomation
    BY <1>0, <1>6 DEF At, TypeOK, Busy
  <2>2. CASE q = r
    <3>1. SameEvent(worker[v].job, j)
      BY <2>1, <2>2, <1>11
    <3> QED
      BY <3>1, <2>1, <1>0, <1>1 DEF Unique, TakenOnce, At
  <2>3. CASE q # r
    BY <2>1, <2>3, <1>9 DEF Unique, TakenUnanswered
  <2> QED
    BY <2>2, <2>3
<1>14. \A q \in RunIds :
          Stored(q) /\ q # r /\ runs[q].source = new.source /\ new.source # NoRun
             => runs[q].automation # new.automation
  <2>1. new.source # NoRun => j.stack # <<>>
    BY <1>10
  <2> QED
    BY <2>1, <1>0, <1>1, <1>5 DEF Unique, TakenUnanswered, Answers, At
<1>15. AnsweredOnce'
  BY <1>5, <1>14 DEF Unique, AnsweredOnce, Stored
<1> QED
  BY <1>7, <1>12, <1>13, <1>15 DEF Unique

\* A run that ends has neither events nor followers yet, because those of the
\* invariant have a source that has ended.
LEMMA FinishUnique ==
  ASSUME IInv, Unique, NEW w \in Slots, NEW o \in Outcome, Finish(w, o)
  PROVE  Unique'
<1>0. TypeOK /\ worker[w] \in Busy /\ worker[w] # Idle /\ At(w, "execute")
      /\ worker[w].pc = "execute" /\ SlotSound(w)
  BY DEF IInv, TypeOK, Finish, At
<1>1. PICK j \in RunAutomation : j = worker[w].job
  BY <1>0 DEF Busy
<1>2. PICK r \in RunIds : /\ r = worker[w].run /\ Stored(r)
                          /\ runs[r].source = SourceOf(j.stack)
                          /\ runs[r].status = "scheduled" /\ JobSound(j)
                          /\ Len(j.stack) <= MaxStackDepth
  BY <1>0, <1>1 DEF SlotSound
<1>3. /\ runs' = [runs EXCEPT ![r].status = o]
      /\ jobs' = jobs \union Followers(r, o)
      /\ worker' = [worker EXCEPT ![w] = Idle]
  BY <1>1, <1>2 DEF Finish, Done
<1>4. j.stack \in Seq(RunIds) /\ IsLine(j.stack)
  BY <1>2 DEF RunAutomation, JobSound
<1>5. PICK u \in Seq(RunIds) : u = Append(RunStack(r), r) /\ u # <<>> /\ SourceOf(u) = r
  <2>1. RunStack(r) = j.stack
    BY <1>0, <1>2, <1>4, StackRebuilt
  <2> QED
    BY <1>0, <1>2, <1>4, <2>1, LineExtended
<1>6. \A k \in Followers(r, o) :
         \E b : k = [automation |-> b, stack |-> u, input |-> runs[r].input, start |-> 0]
  BY <1>5 DEF Followers
<1>7. \A k \in Followers(r, o) : k.stack = u
  BY <1>6
<1>8. \A k, l \in Followers(r, o) : k.automation = l.automation => k = l
  BY <1>6
<1>9. /\ runs[r] \in Run
      /\ runs'[r] = [runs[r] EXCEPT !.status = o]
      /\ \A q \in RunIds : q # r => runs'[q] = runs[q]
  BY <1>0, <1>2, <1>3 DEF TypeOK, Stored
<1>10. \A q \in RunIds : /\ Stored(q)' <=> Stored(q)
                         /\ Stored(q) => /\ runs'[q].automation = runs[q].automation
                                         /\ runs'[q].source = runs[q].source
  <2>1. /\ runs'[r] # NoRun /\ runs'[r].automation = runs[r].automation
        /\ runs'[r].source = runs[r].source
    BY <1>9, SentinelAssumption DEF Run
  <2> QED
    BY <2>1, <1>2, <1>9 DEF Stored
<1>11. runs[r].status \notin Outcome
  BY <1>2 DEF Outcome
<1>12. \A k \in jobs : k.stack # <<>> => SourceOf(k.stack) # r
  BY <1>11 DEF IInv, JobSound
<1>13. \A v \in Slots : worker[v] # Idle /\ worker[v].job.stack # <<>>
                          => SourceOf(worker[v].job.stack) # r
  BY <1>11 DEF IInv, SlotSound, JobSound
<1>14. \A q \in RunIds : Stored(q) => runs[q].source # r
  BY <1>11, ConstantsAssumption DEF IInv, RunSound
<1>15. \A v \in Slots : worker'[v] = IF v = w THEN Idle ELSE worker[v]
  BY <1>0, <1>3 DEF TypeOK
<1>16. QueuedOnce'
  BY <1>3, <1>5, <1>7, <1>8, <1>12 DEF Unique, QueuedOnce, SameEvent
<1>17. TakenOrQueued' /\ TakenOnce'
  <2>1. ASSUME NEW v \in Slots, worker'[v] # Idle, NEW k \in jobs'
        PROVE  ~SameEvent(k, worker[v].job)
    BY <2>1, <1>3, <1>7, <1>5, <1>13, <1>15 DEF Unique, TakenOrQueued, SameEvent
  <2>2. TakenOrQueued'
    BY <2>1, <1>15 DEF TakenOrQueued, SameEvent
  <2>3. TakenOnce'
    BY <1>15 DEF Unique, TakenOnce, SameEvent
  <2> QED
    BY <2>2, <2>3
<1>18. \A q \in RunIds : \A k : Answers(q, k)' => Answers(q, k) /\ SourceOf(k.stack) # r
  BY <1>10, <1>14 DEF Answers
<1>19. QueuedUnanswered'
  BY <1>3, <1>5, <1>7, <1>18 DEF Unique, QueuedUnanswered
<1>20. TakenUnanswered'
  <2> SUFFICES ASSUME NEW v \in Slots, NEW q \in RunIds, At(v, "start")',
                      Answers(q, worker[v].job)'
               PROVE  FALSE
    BY DEF TakenUnanswered
  <2>1. v # w /\ worker'[v] = worker[v] /\ At(v, "start")
    BY <1>15 DEF At
  <2> QED
    BY <2>1, <1>18 DEF Unique, TakenUnanswered
<1>21. AnsweredOnce'
  BY <1>10 DEF Unique, AnsweredOnce
<1> QED
  BY <1>16, <1>17, <1>19, <1>20, <1>21 DEF Unique

LEMMA UniqueNext ==
  ASSUME IInv, [Next]_vars, workerCrashes = 0 => Unique
  PROVE  (workerCrashes = 0 => Unique)'
<1>0. TypeOK
  BY DEF IInv
<1>t. workerCrashes \in Nat /\ worker \in [Slots -> Busy \union {Idle}]
  BY <1>0 DEF TypeOK
<1> SUFFICES ASSUME workerCrashes' = 0 PROVE Unique'
  OBVIOUS
<1>ended. ASSUME NEW w \in Slots, worker' = [worker EXCEPT ![w] = Idle],
                 runs' = runs, jobs' = jobs, Unique
          PROVE  Unique'
  BY <1>ended, <1>t, NoNewEvents DEF Stored
<1>1. ASSUME NEW a \in Automations, StageEvent(a) PROVE Unique'
  <2>1. Start(a, "pub").stack = <<>>
    BY DEF Start
  <2>2. workerCrashes' = workerCrashes /\ runs' = runs /\ worker' = worker
        /\ \A j \in jobs' : j \in jobs \/ j.stack = <<>>
    BY <1>1, <2>1 DEF StageEvent
  <2> QED
    BY <2>2, NoNewEvents DEF Stored
<1>2. ASSUME NEW a \in Automations, NEW q \in Requests, NEW input \in Input, Request(q, a, input)
      PROVE  Unique'
  <2>1. PICK j \in RunAutomation : j = Start(a, input) /\ j.stack = <<>>
    BY <1>0, StartTyped
  <2>2. /\ workerCrashes' = workerCrashes /\ runs' = runs /\ jobs' = jobs
        /\ q \in Slots /\ worker' = [worker EXCEPT ![q] = Take(j)]
    BY <1>2, <2>1 DEF Request, Slots
  <2>3. \A v \in Slots : worker'[v] = IF v = q THEN Take(j) ELSE worker[v]
    BY <1>t, <2>2
  <2>4. Take(j).job.stack = <<>>
    BY <2>1, TakeTyped
  <2> QED
    BY <2>2, <2>3, <2>4, NoNewEvents DEF Stored
<1>3. ASSUME NEW w \in Workers, NEW j \in jobs, Pick(w, j) PROVE Unique'
  BY <1>3, PickUnique DEF Pick
<1>5. ASSUME NEW w \in Slots, Handle(w) PROVE Unique'
  <2>1. CASE RejectPayload(w) \/ Refuse(w) \/ NotMet(w)
    BY <1>ended, <2>1 DEF RejectPayload, Refuse, NotMet, Done
  <2>2. CASE \E input \in Input : InsertRun(w, input)
    BY <2>2, InsertUnique DEF InsertRun
  <2>3. CASE \E o \in Outcome : Finish(w, o)
    BY <2>3, FinishUnique DEF Finish
  <2> QED
    BY <1>5, <2>1, <2>2, <2>3 DEF Handle
<1>6. ASSUME NEW w \in Slots, CoreFault(w) PROVE Unique'
  BY <1>ended, <1>6 DEF CoreFault, Done
<1>7. ASSUME NEW w \in Slots, WorkerCrash(w) PROVE FALSE
  BY <1>7, <1>t DEF WorkerCrash
<1>8. CASE UNCHANGED vars
  BY <1>8, NoNewEvents DEF vars, Stored
<1> QED
  BY <1>1, <1>2, <1>3, <1>5, <1>6, <1>7, <1>8 DEF Next, PickAny

-----------------------------------------------------------------------------
(* Theorems *)

\* Every variable keeps to its type.
THEOREM TypeCorrect == Spec => []TypeOK
<1>1. IInv => TypeOK
  BY DEF IInv
<1> QED
  BY <1>1, Invariance, PTL

\* Every event carries the complete line of the runs that led to it.
THEOREM StacksAreComplete == Spec => []StacksComplete
<1>1. IInv => StacksComplete
  BY DEF IInv, SlotSound, JobSound, JobsAbout, StacksComplete
<1> QED
  BY <1>1, Invariance, PTL

\* No run has more than MaxStackDepth runs before it, whatever starts what.
THEOREM DepthIsBounded == Spec => []DepthBounded
<1>1. IInv => DepthBounded
  BY DEF IInv, RunSound, DepthBounded
<1> QED
  BY <1>1, Invariance, PTL

\* A run follows a run that ended the way its automation watches for.
THEOREM FollowersMatch == Spec => []FollowersMatchOutcome
<1>1. IInv => FollowersMatchOutcome
  BY DEF IInv, RunSound, FollowersMatchOutcome
<1> QED
  BY <1>1, Invariance, PTL

\* As long as no worker crashes, whoever watches a run follows it with one run at
\* most, whatever circles the triggers contain and however many slots there are.
THEOREM FollowedOnce == Spec => []OneFollower
<1>1. Init => Unique
  BY DEF Init, Unique, QueuedOnce, TakenOrQueued, TakenOnce, QueuedUnanswered,
         TakenUnanswered, AnsweredOnce, At, Stored
<1>2. (workerCrashes = 0 => Unique) => OneFollower
  BY DEF Unique, AnsweredOnce, OneFollower
<1>3. IInv /\ (workerCrashes = 0 => Unique) /\ [Next]_vars => (workerCrashes = 0 => Unique)'
  BY UniqueNext
<1> QED
  BY <1>1, <1>2, <1>3, Invariance, PTL DEF Spec

-----------------------------------------------------------------------------
(* The forest of runs *)

\* An event of a run carries the input of that run, and a request handles no
\* event of a run.
Inherits(j) == j.stack # <<>> => j.input = runs[SourceOf(j.stack)].input

Inherited ==
    /\ \A j \in jobs : Inherits(j)
    /\ \A w \in Slots : worker[w] # Idle =>
          Inherits(worker[w].job) /\ (w \in Requests => worker[w].job.stack = <<>>)

\* A step that leaves the inputs of runs as they are, and after which an event is
\* about nothing, or was there before, or carries the input of its run.
LEMMA InheritedKept ==
  ASSUME IInv, Inherited,
         \A r \in RunIds : Stored(r) => runs'[r].input = runs[r].input,
         \A j \in jobs' :
            \/ j \in JobsAbout
            \/ j.stack = <<>>
            \/ /\ SourceOf(j.stack) \in RunIds /\ Stored(SourceOf(j.stack))
               /\ j.input = runs[SourceOf(j.stack)].input,
         \A w \in Slots : worker'[w] # Idle =>
            \/ worker[w] # Idle /\ worker'[w].job = worker[w].job
            \/ worker'[w].job.stack = <<>>
            \/ w \notin Requests /\ worker'[w].job \in jobs
  PROVE  Inherited'
<1>1. ASSUME NEW j \in JobsAbout
      PROVE  /\ Inherits(j)
             /\ j.stack # <<>> => SourceOf(j.stack) \in RunIds /\ Stored(SourceOf(j.stack))
  <2>1. j \in RunAutomation /\ JobSound(j) /\ Inherits(j)
    BY DEF JobsAbout, IInv, SlotSound, TypeOK, Busy, Inherited
  <2>2. j.stack \in Seq(RunIds)
    BY <2>1 DEF RunAutomation
  <2> QED
    BY <2>1, <2>2, LastIsRun DEF JobSound
<1>2. ASSUME NEW j \in JobsAbout PROVE Inherits(j)'
  BY <1>1 DEF Inherits, SourceOf
<1>3. ASSUME NEW j \in jobs' PROVE Inherits(j)'
  <2>1. CASE j \in JobsAbout
    BY <1>2, <2>1
  <2>2. CASE j \notin JobsAbout
    BY <2>2 DEF Inherits, SourceOf
  <2> QED
    BY <2>1, <2>2
<1>4. ASSUME NEW w \in Slots, worker'[w] # Idle
      PROVE  Inherits(worker[w].job)' /\ (w \in Requests => worker'[w].job.stack = <<>>)
  <2>1. CASE worker[w] # Idle /\ worker'[w].job = worker[w].job
    <3>1. PICK j \in JobsAbout : j = worker[w].job
      BY <2>1 DEF JobsAbout
    <3>2. Inherits(j)'
      BY <1>2
    <3>3. w \in Requests => worker[w].job.stack = <<>>
      BY <2>1 DEF Inherited
    <3> QED
      BY <2>1, <3>1, <3>2, <3>3 DEF Inherits, SourceOf
  <2>2. CASE worker'[w].job.stack = <<>>
    BY <2>2 DEF Inherits
  <2>3. CASE w \notin Requests /\ worker'[w].job \in jobs
    <3>1. PICK j \in JobsAbout : j = worker'[w].job
      BY <2>3 DEF JobsAbout
    <3>2. Inherits(j)'
      BY <1>2
    <3> QED
      BY <2>3, <3>1, <3>2 DEF Inherits, SourceOf
  <2> QED
    BY <1>4, <2>1, <2>2, <2>3
<1> QED
  BY <1>3, <1>4 DEF Inherited

LEMMA InsertInherited ==
  ASSUME IInv, Inherited, NEW w \in Slots, NEW input \in Input, InsertRun(w, input)
  PROVE  Inherited'
<1>0. TypeOK /\ worker[w] \in Busy /\ worker[w] # Idle
  BY DEF IInv, TypeOK, InsertRun, At
<1>1. PICK r \in RunIds : r = FreshRun /\ ~Stored(r)
  BY DEF InsertRun, FreshRun
<1>2. \A q \in RunIds : q # r => runs'[q] = runs[q]
  BY <1>0, <1>1 DEF InsertRun, TypeOK
<1>3. worker' = [worker EXCEPT ![w].pc = "execute", ![w].run = r] /\ jobs' = jobs
  BY <1>1 DEF InsertRun
<1>4. \A v \in Slots : worker'[v] # Idle => worker[v] # Idle /\ worker'[v].job = worker[v].job
  <2>1. worker'[w] = [worker[w] EXCEPT !.pc = "execute", !.run = r]
        /\ \A v \in Slots : v # w => worker'[v] = worker[v]
    BY <1>0, <1>3 DEF TypeOK
  <2>2. worker'[w].job = worker[w].job
    BY <1>0, <2>1 DEF Busy
  <2> QED
    BY <1>0, <2>1, <2>2
<1> QED
  BY <1>1, <1>2, <1>3, <1>4, InheritedKept DEF JobsAbout

LEMMA FinishInherited ==
  ASSUME IInv, Inherited, NEW w \in Slots, NEW o \in Outcome, Finish(w, o)
  PROVE  Inherited'
<1>0. TypeOK /\ worker[w] \in Busy /\ worker[w] # Idle /\ At(w, "execute")
      /\ worker[w].pc = "execute" /\ SlotSound(w)
  BY DEF IInv, TypeOK, Finish, At
<1>1. PICK j \in RunAutomation : j = worker[w].job
  BY <1>0 DEF Busy
<1>2. PICK r \in RunIds : /\ r = worker[w].run /\ Stored(r)
                          /\ runs[r].source = SourceOf(j.stack)
                          /\ JobSound(j) /\ Len(j.stack) <= MaxStackDepth
  BY <1>0, <1>1 DEF SlotSound
<1>3. /\ runs' = [runs EXCEPT ![r].status = o]
      /\ jobs' = jobs \union Followers(r, o)
      /\ worker' = [worker EXCEPT ![w] = Idle]
  BY <1>1, <1>2 DEF Finish, Done
<1>4. j.stack \in Seq(RunIds) /\ IsLine(j.stack)
  BY <1>2 DEF RunAutomation, JobSound
<1>5. SourceOf(Append(RunStack(r), r)) = r
  <2>1. RunStack(r) = j.stack
    BY <1>0, <1>2, <1>4, StackRebuilt
  <2> QED
    BY <1>0, <1>2, <1>4, <2>1, LineExtended
<1>6. \A k \in Followers(r, o) : SourceOf(k.stack) = r /\ k.input = runs[r].input
  <2>1. \A k \in Followers(r, o) :
            k.stack = Append(RunStack(r), r) /\ k.input = runs[r].input
    BY DEF Followers
  <2>2. SUFFICES ASSUME NEW k \in Followers(r, o)
                 PROVE  SourceOf(k.stack) = r
    BY <2>1
  <2>3. k.stack = Append(RunStack(r), r)
    BY <2>1, <2>2
  <2> QED
    BY <1>5, <2>3
<1>7. \A q \in RunIds : Stored(q) => runs'[q].input = runs[q].input
  <2>1. runs[r] \in Run /\ runs'[r] = [runs[r] EXCEPT !.status = o]
        /\ \A q \in RunIds : q # r => runs'[q] = runs[q]
    BY <1>0, <1>2, <1>3 DEF TypeOK, Stored
  <2>2. runs'[r].input = runs[r].input
    BY <2>1 DEF Run
  <2> QED
    BY <2>1, <2>2
<1>8. \A v \in Slots : worker'[v] = IF v = w THEN Idle ELSE worker[v]
  BY <1>0, <1>3 DEF TypeOK
<1>9. \A k \in jobs' : k \in JobsAbout
          \/ (SourceOf(k.stack) \in RunIds /\ Stored(SourceOf(k.stack))
              /\ k.input = runs[SourceOf(k.stack)].input)
  BY <1>2, <1>3, <1>6 DEF JobsAbout
<1> QED
  BY <1>7, <1>8, <1>9, InheritedKept

LEMMA InheritedNext == IInv /\ Inherited /\ [Next]_vars => Inherited'
<1> SUFFICES ASSUME IInv, Inherited, [Next]_vars PROVE Inherited'
  OBVIOUS
<1>0. TypeOK /\ worker \in [Slots -> Busy \union {Idle}]
  BY DEF IInv, TypeOK
<1>ended. ASSUME NEW w \in Slots, worker' = [worker EXCEPT ![w] = Idle],
                 runs' = runs, jobs' = jobs
          PROVE  Inherited'
  <2>1. \A v \in Slots : worker'[v] = IF v = w THEN Idle ELSE worker[v]
    BY <1>0, <1>ended
  <2> QED
    BY <1>ended, <2>1, InheritedKept DEF JobsAbout
<1>1. ASSUME NEW a \in Automations, StageEvent(a) PROVE Inherited'
  <2>1. Start(a, "pub").stack = <<>>
    BY DEF Start
  <2>2. runs' = runs /\ worker' = worker /\ \A j \in jobs' : j \in jobs \/ j.stack = <<>>
    BY <1>1, <2>1 DEF StageEvent
  <2> QED
    BY <2>2, InheritedKept DEF JobsAbout
<1>2. ASSUME NEW a \in Automations, NEW q \in Requests, NEW input \in Input, Request(q, a, input)
      PROVE  Inherited'
  <2>1. PICK j \in RunAutomation : j = Start(a, input) /\ j.stack = <<>>
    BY <1>0, StartTyped
  <2>2. runs' = runs /\ jobs' = jobs /\ q \in Slots /\ worker' = [worker EXCEPT ![q] = Take(j)]
    BY <1>2, <2>1 DEF Request, Slots
  <2>3. \A v \in Slots : worker'[v] = IF v = q THEN Take(j) ELSE worker[v]
    BY <1>0, <2>2
  <2>4. Take(j).job.stack = <<>>
    BY <2>1, TakeTyped
  <2> QED
    BY <2>2, <2>3, <2>4, InheritedKept DEF JobsAbout
<1>3. ASSUME NEW w \in Workers, NEW j \in jobs, Pick(w, j) PROVE Inherited'
  <2>1. /\ runs' = runs /\ jobs' \subseteq jobs /\ w \in Slots /\ w \notin Requests
        /\ worker' = [worker EXCEPT ![w] = Take(j)]
    BY <1>3, ConstantsAssumption DEF Pick, Slots
  <2>2. \A v \in Slots : worker'[v] = IF v = w THEN Take(j) ELSE worker[v]
    BY <1>0, <2>1
  <2>3. Take(j).job = j
    BY <1>0, TakeTyped DEF TypeOK
  <2> QED
    BY <2>1, <2>2, <2>3, InheritedKept DEF JobsAbout
<1>4. ASSUME NEW w \in Slots, Handle(w) PROVE Inherited'
  <2>1. CASE RejectPayload(w) \/ Refuse(w) \/ NotMet(w)
    BY <1>ended, <2>1 DEF RejectPayload, Refuse, NotMet, Done
  <2>2. CASE \E input \in Input : InsertRun(w, input)
    BY <2>2, InsertInherited
  <2>3. CASE \E o \in Outcome : Finish(w, o)
    BY <2>3, FinishInherited
  <2> QED
    BY <1>4, <2>1, <2>2, <2>3 DEF Handle
<1>5. ASSUME NEW w \in Slots, CoreFault(w) PROVE Inherited'
  BY <1>ended, <1>5 DEF CoreFault, Done
<1>6. ASSUME NEW w \in Slots, WorkerCrash(w) PROVE Inherited'
  <2>1. worker[w] \in Busy /\ worker[w] # Idle /\ runs' = runs
        /\ jobs' = jobs \union {worker[w].job}
        /\ worker'[w] = [worker[w] EXCEPT !.delivered = FALSE]
        /\ \A v \in Slots : v # w => worker'[v] = worker[v]
    BY <1>0, <1>6 DEF WorkerCrash
  <2>2. worker'[w].job = worker[w].job
    BY <2>1 DEF Busy
  <2>3. \A j \in jobs' : j \in JobsAbout
    BY <2>1 DEF JobsAbout
  <2> QED
    BY <2>1, <2>2, <2>3, InheritedKept
<1>7. CASE UNCHANGED vars
  BY <1>7, InheritedKept DEF vars, JobsAbout
<1> QED
  BY <1>1, <1>2, <1>3, <1>4, <1>5, <1>6, <1>7 DEF Next, PickAny

LEMMA InheritedAlways == Spec => []Inherited
<1>1. Init => Inherited
  BY DEF Init, Inherited
<1> QED
  BY <1>1, InheritedNext, Invariance, PTL DEF Spec

\* The stack that the depth check lets through shows that there is room.
LEMMA StackShowsRoom ==
  ASSUME TypeOK, NEW s \in Seq(RunIds), s # <<>>, IsLine(s), Len(s) <= MaxStackDepth
  PROVE  Forest!HasRoom(SourceOf(s))
<1>1. /\ Len(s) \in 1..MaxStackDepth /\ s \in [1..Len(s) -> RunIds]
      /\ SourceOf(s) = s[Len(s)]
  BY EmptySeq, LenProperties, LastIsRun, DepthAssumption
<1>2. Linked(s) /\ Stored(s[1]) /\ runs[s[1]].source = NoRun
  BY DEF IsLine
<1>3. ASSUME NEW i \in 1..Len(s) PROVE runs[s[i]] # NoRun
  <2>1. CASE i = 1
    BY <1>2, <2>1 DEF Stored
  <2>2. CASE i # 1
    <3>1. i - 1 \in 1..(Len(s) - 1) /\ (i - 1) + 1 = i
      BY <1>1, <2>2
    <3> QED
      BY <1>2, <3>1 DEF Linked, Stored
  <2> QED
    BY <2>1, <2>2
<1>4. Forest!Line(s)
  BY <1>2, <1>3 DEF Forest!Line, Linked
<1> QED
  BY <1>1, <1>4 DEF Forest!HasRoom

LEMMA InsertImplements ==
  ASSUME IInv, Inherited, NEW w \in Slots, NEW input \in Input, InsertRun(w, input)
  PROVE  Forest!Begin \/ Forest!Follow
<1>0. TypeOK /\ worker[w] \in Busy /\ worker[w] # Idle /\ SlotSound(w) /\ ~InvalidPayload(w)
  BY DEF IInv, TypeOK, InsertRun, At
<1>1. PICK j \in RunAutomation : j = worker[w].job
  BY <1>0 DEF Busy
<1>2. PICK r \in RunIds : r = FreshRun /\ ~Stored(r)
  BY DEF InsertRun, FreshRun
<1>3. /\ Forest!New(r, j.automation, SourceOf(j.stack), input)
      /\ ~StackTooDeep(j.stack) /\ input \in ResolvedInputs(j)
  BY <1>1, <1>2 DEF InsertRun, Forest!New, Stored
<1>4. j.stack \in Seq(RunIds) /\ j.automation \in Automations
  BY DEF RunAutomation
<1>5. CASE j.stack = <<>>
  <2>1. SourceOf(j.stack) = NoRun
    BY <1>5 DEF SourceOf
  <2> QED
    BY <1>3, <1>4, <2>1 DEF Forest!Begin, Input
<1>6. CASE j.stack # <<>>
  <2> DEFINE q == SourceOf(j.stack)
  <2>1. q \in RunIds /\ runs[q] # NoRun /\ Watches(j.automation, runs[q].automation, runs[q].status)
        /\ IsLine(j.stack)
    BY <1>0, <1>1, <1>4, <1>6, LastIsRun DEF SlotSound, JobSound, Stored
  <2>2. w \in Workers /\ j.input = runs[q].input
    BY <1>0, <1>1, <1>6 DEF Inherited, Inherits, Slots
  <2>3. j.input = "pub" /\ input = "pub"
    BY <1>0, <1>1, <1>3, <2>2 DEF InvalidPayload, ResolvedInputs
  <2>4. Forest!HasRoom(q)
    <3>1. Len(j.stack) \in Nat /\ Len(j.stack) <= MaxStackDepth
      BY <1>3, <1>4, LenProperties, DepthAssumption DEF StackTooDeep
    <3> QED
      BY <1>0, <1>4, <1>6, <2>1, <3>1, StackShowsRoom
  <2>5. Forest!Watches(j.automation, runs[q].automation, runs[q].status)
    BY <2>1 DEF Watches, Forest!Watches
  <2> HIDE DEF q
  <2> QED
    BY <1>3, <1>4, <2>1, <2>2, <2>3, <2>4, <2>5 DEF Forest!Follow, q
<1> QED
  BY <1>5, <1>6

LEMMA StepImplementsForest ==
  ASSUME IInv, Inherited, [Next]_vars
  PROVE  [Forest!Next]_runs
<1>1. ASSUME NEW w \in Slots, NEW input \in Input, InsertRun(w, input) PROVE Forest!Next
  BY <1>1, InsertImplements DEF Forest!Next
<1>2. ASSUME NEW w \in Slots, NEW o \in Outcome, Finish(w, o) PROVE Forest!Next
  <2>1. worker[w] # Idle /\ worker[w].pc = "execute" /\ SlotSound(w)
    BY <1>2 DEF IInv, Finish, At
  <2>2. PICK r \in RunIds : r = worker[w].run /\ Stored(r) /\ runs[r].status = "scheduled"
    BY <2>1 DEF SlotSound
  <2>3. runs' = [runs EXCEPT ![r].status = o]
    BY <1>2, <2>2 DEF Finish
  <2> QED
    BY <2>2, <2>3 DEF Forest!Next, Forest!End, Stored, Outcome
<1>3. ASSUME NEW w \in Slots, RejectPayload(w) \/ Refuse(w) \/ NotMet(w) PROVE runs' = runs
  BY <1>3 DEF RejectPayload, Refuse, NotMet
<1>4. ASSUME NEW w \in Slots, CoreFault(w) \/ WorkerCrash(w) PROVE runs' = runs
  BY <1>4 DEF CoreFault, WorkerCrash
<1>5. ASSUME PickAny \/ \E a \in Automations :
                 StageEvent(a) \/ \E q \in Requests, input \in Input : Request(q, a, input)
      PROVE  runs' = runs
  BY <1>5 DEF PickAny, Pick, StageEvent, Request
<1>6. CASE UNCHANGED vars
  BY <1>6 DEF vars
<1> QED
  BY <1>1, <1>2, <1>3, <1>4, <1>5, <1>6 DEF Next, Handle

\* Automations that start each other implement RunForest, for any triggers,
\* workers, requests and faults.
THEOREM Implements == Spec => ImplementsRunForest
<1>1. Init => Forest!Init
  BY DEF Init, Forest!Init
<1>2. IInv /\ Inherited /\ [Next]_vars => [Forest!Next]_runs
  BY StepImplementsForest
<1> QED
  BY <1>1, <1>2, Invariance, InheritedAlways, PTL DEF Spec, ImplementsRunForest, Forest!Spec

-----------------------------------------------------------------------------
(* The configuration: the inductive invariant *)

\* A set that whatever its automations start belongs to, others' saves left aside.
Shut(graph, taken, T) ==
    \A x \in T, y \in Automations \ taken : x \in graph[y] => y \in T

\* A sequence that goes on through automations that others did not store.
Leads(graph, taken, n, q) ==
    \A k \in 1..(n - 1) : q[k] \in graph[q[k + 1]] /\ q[k + 1] \notin taken

\* What a check of source s for the automation id is still worth.
CheckHolds(graph, taken, id, s) ==
    /\ s # id => \E T \in SUBSET Automations : id \in T /\ s \notin T /\ Shut(graph, taken, T)
    /\ \A n \in Nat \ {0, 1}, q \in Seq(Automations) :
          (Len(q) = n /\ q[1] = id /\ Leads(graph, taken, n, q)) => n < MaxStackDepth

ChecksHold ==
    \A e \in Editors :
        Saving(e) =>
            \A s \in request[e].sources \ request[e].unchecked :
                CheckHolds(triggers, overtaken[e], request[e].id, s)

GraphInv == GraphTypeOK /\ CirclesAreRaced /\ ChecksHold

\* A set of automations closed under "starts".
Closed(graph, T) ==
    \A x \in T, y \in Automations : x \in graph[y] => y \in T

-----------------------------------------------------------------------------
(* The typing invariant *)

LEMMA GraphTypeInit == GraphInit => GraphTypeOK
  BY DEF GraphInit, GraphTypeOK

LEMMA GraphTypeNext == GraphTypeOK /\ [GraphNext]_graphVars => GraphTypeOK'
<1> USE DEF GraphTypeOK, SaveRequest
<1> SUFFICES ASSUME GraphTypeOK, [GraphNext]_graphVars PROVE GraphTypeOK'
  OBVIOUS
<1>1. ASSUME NEW e \in Editors, NEW id \in Automations,
             NEW sources \in SUBSET Automations, Edit(e, id, sources)
      PROVE  GraphTypeOK'
  BY <1>1 DEF Edit, history
<1>2. ASSUME NEW e \in Editors, NEW id \in Automations,
             NEW sources \in SUBSET Automations, Create(e, id, sources)
      PROVE  GraphTypeOK'
  BY <1>2 DEF Create, history
<1>3. ASSUME NEW e \in Editors, NEW original \in Automations, NEW id \in Automations,
             Duplicate(e, original, id)
      PROVE  GraphTypeOK'
  BY <1>3, <1>2 DEF Duplicate
<1>4. ASSUME NEW e \in Editors, NEW source \in Automations, Check(e, source)
      PROVE  GraphTypeOK'
  BY <1>4 DEF Check, Saving, history
<1>5. ASSUME NEW e \in Editors, NEW source \in Automations, RefuseSave(e, source)
      PROVE  GraphTypeOK'
  BY <1>5 DEF RefuseSave, EndSave, Forget
<1>6. ASSUME NEW e \in Editors, Store(e)
      PROVE  GraphTypeOK'
  <2>1. request[e] \in SaveRequest
    BY <1>6 DEF Store, Saving
  <2>2. automations' \subseteq Automations
    BY <1>6, <2>1 DEF Store
  <2>3. triggers' \in [Automations -> SUBSET automations']
    BY <1>6, <2>1 DEF Store
  <2>4. \A a \in Automations \ automations' : triggers'[a] = {}
    BY <1>6, <2>1 DEF Store
  <2>5. overtaken' \in [Editors -> SUBSET Automations]
    BY <1>6, <2>1 DEF Store, RecordRace
  <2>6. raced' \subseteq Automations \X Automations
    BY <1>6, <2>1 DEF Store, RecordRace
  <2> QED
    BY <1>6, <2>2, <2>3, <2>4, <2>5, <2>6 DEF Store, EndSave
<1>7. ASSUME NEW e \in Editors, StoreFails(e)
      PROVE  GraphTypeOK'
  BY <1>7 DEF StoreFails, EndSave, Forget
<1>8. ASSUME NEW id \in Automations, Remove(id)
      PROVE  GraphTypeOK'
  BY <1>8 DEF Remove, WithoutSource
<1>9. CASE UNCHANGED graphVars
  BY <1>9 DEF graphVars, history
<1> QED
  BY <1>1, <1>2, <1>3, <1>4, <1>5, <1>6, <1>7, <1>8, <1>9 DEF GraphNext

\* No trigger ever names an automation that does not exist: deleting one clears
\* the triggers of the others, and saving fails when a source is gone.
THEOREM GraphTypeCorrect == GraphSpec => []GraphTypeOK
  BY GraphTypeInit, GraphTypeNext, PTL DEF GraphSpec

-----------------------------------------------------------------------------
(* What the recursive query finds *)

\* The paths the query looks at are the functions on 1..n.
LEMMA PathOf ==
  ASSUME NEW n \in 1..(MaxStackDepth + 1), NEW p \in [1..n -> Automations]
  PROVE  p \in Paths /\ Len(p) = n
<1>1. p \in Paths
  BY DEF Paths
<1>2. n \in Nat
  BY DepthAssumption
<1>3. p \in Seq(Automations)
  BY <1>2, SeqDef
<1>4. Len(p) \in Nat /\ DOMAIN p = 1..Len(p)
  BY <1>3, LenProperties
<1>5. 1..n = 1..Len(p)
  BY <1>4
<1>6. Len(p) = n
  BY <1>2, <1>4, <1>5
<1> QED
  BY <1>1, <1>6

LEMMA PathLen ==
  ASSUME NEW p \in Paths
  PROVE  Len(p) \in 1..(MaxStackDepth + 1) /\ p \in [1..Len(p) -> Automations]
<1>1. PICK n \in 1..(MaxStackDepth + 1) : p \in [1..n -> Automations]
  BY DEF Paths
<1> QED
  BY <1>1, PathOf

\* If the query accepts a source, then some set of automations that contains the
\* saved one and everything it starts does not contain the source.
LEMMA AcceptedSeparates ==
  ASSUME GraphTypeOK, NEW id \in automations, NEW source \in Automations, source # id,
         Accepted(id, source)
  PROVE  \E T \in SUBSET Automations :
            id \in T /\ source \notin T /\ Closed(triggers, T)
<1> DEFINE Rows == AutomationPath(id, source)
           T == {p[Len(p)] : p \in Rows}
<1>1. \A p \in Rows : /\ p \in Paths
                      /\ Len(p) \in 1..(MaxStackDepth + 1)
                      /\ p \in [1..Len(p) -> Automations]
  BY PathLen DEF AutomationPath
<1>2. id \in Automations
  BY DEF GraphTypeOK
<1>3. T \in SUBSET Automations
  BY <1>1
<1>4. id \in T
  <2> DEFINE p == [i \in 1..1 |-> id]
  <2>0. 1 \in 1..(MaxStackDepth + 1) /\ p \in [1..1 -> Automations]
    BY <1>2, DepthAssumption
  <2>1. p \in Paths /\ Len(p) = 1
    BY <2>0, PathOf
  <2>2. p[1] = id
    OBVIOUS
  <2>3. p \in Rows
    BY <2>1, <2>2 DEF AutomationPath, Chained
  <2> HIDE DEF p
  <2> QED
    BY <2>1, <2>2, <2>3
<1>5. source \notin T
  <2> SUFFICES ASSUME NEW p \in Rows, p[Len(p)] = source PROVE FALSE
    OBVIOUS
  <2>1. Len(p) > 1
    BY <1>1 DEF AutomationPath
  <2> QED
    BY <2>1 DEF Accepted, ClosesCycle
<1>6. Closed(triggers, T)
  <2> SUFFICES ASSUME NEW p \in Rows, NEW y \in Automations, p[Len(p)] \in triggers[y]
               PROVE  y \in T
    BY DEF Closed
  <2> DEFINE n == Len(p)
             q == [i \in 1..(n + 1) |-> IF i <= n THEN p[i] ELSE y]
  <2>1. n \in Nat /\ n >= 1 /\ n + 1 <= MaxStackDepth + 1 /\ p \in [1..n -> Automations]
    BY <1>1, DepthAssumption DEF Accepted, TooDeep
  <2>0. n = Len(p)
    OBVIOUS
  <2> HIDE DEF n
  <2>2. q \in [1..(n + 1) -> Automations]
    BY <2>1
  <2>3. n + 1 \in 1..(MaxStackDepth + 1)
    BY <2>1, DepthAssumption
  <2>4. q \in Paths /\ Len(q) = n + 1
    BY <2>2, <2>3, PathOf
  <2>5. (\A i \in 1..n : q[i] = p[i]) /\ q[n + 1] = y
    BY <2>1
  <2> HIDE DEF q
  <2>6. q[1] = id
    BY <2>1, <2>5 DEF AutomationPath
  <2>7. Chained(q)
    <3> SUFFICES ASSUME NEW i \in 1..n PROVE q[i] \in triggers[q[i + 1]]
      BY <2>1, <2>4 DEF Chained
    <3>1. CASE i = n
      BY <3>1, <2>0, <2>1, <2>5
    <3>2. CASE i # n
      <4>1. i \in 1..(n - 1) /\ i + 1 \in 1..n
        BY <3>2, <2>1
      <4>2. p[i] \in triggers[p[i + 1]]
        BY <4>1, <2>0 DEF AutomationPath, Chained
      <4> QED
        BY <4>1, <4>2, <2>5
    <3> QED
      BY <3>1, <3>2
  <2>8. ASSUME NEW j \in 2..n PROVE ~ClosesCycle(q, j, source)
    <3>1. ~ClosesCycle(p, j, source)
      <4>1. CASE j = n
        BY <4>1, <2>0, <2>1 DEF Accepted
      <4>2. CASE j # n
        <5>1. j \in 2..(n - 1)
          BY <4>2, <2>1
        <5> QED
          BY <5>1, <2>0 DEF AutomationPath
      <4> QED
        BY <4>1, <4>2
    <3>2. q[j] = p[j] /\ \A i \in 1..(j - 1) : q[i] = p[i]
      BY <2>1, <2>5
    <3> QED
      BY <3>1, <3>2 DEF ClosesCycle
  <2>9. q \in Rows
    BY <2>1, <2>4, <2>6, <2>7, <2>8 DEF AutomationPath
  <2> QED
    BY <2>4, <2>5, <2>9
<1> HIDE DEF T
<1> QED
  BY <1>3, <1>4, <1>5, <1>6

\* Of a sequence that starts with the saved automation and is as long as the limit,
\* the query finds the beginning that closes a cycle, or all of it.
LEMMA AcceptedIsShort ==
  ASSUME GraphTypeOK, NEW id \in automations, NEW source, Accepted(id, source),
         NEW n \in Nat \ {0, 1}, NEW q \in Seq(Automations), Len(q) = n, q[1] = id,
         \A k \in 1..(n - 1) : q[k] \in triggers[q[k + 1]]
  PROVE  n < MaxStackDepth
<1> DEFINE M == MaxStackDepth
<1>0. M \in Nat /\ M >= 1 /\ \A i \in 1..n : q[i] \in Automations
  BY DepthAssumption, ElementOfSeq
<1> SUFFICES ASSUME n >= M PROVE FALSE
  BY <1>0
\* The query has the row of the first m automations unless one before closes a cycle.
<1>1. ASSUME NEW m \in 1..(M + 1), m <= n,
             \A j \in 2..(m - 1) : ~ClosesCycle(q, j, source)
      PROVE  /\ m < M
             /\ m > 1 => ~ClosesCycle(q, m, source)
  <2> DEFINE p == [i \in 1..m |-> q[i]]
  <2>1. p \in [1..m -> Automations] /\ m \in Nat /\ m >= 1
    BY <1>0, <1>1
  <2>2. p \in Paths /\ Len(p) = m
    BY <2>1, <1>1, PathOf
  <2>3. \A i \in 1..m : p[i] = q[i]
    OBVIOUS
  <2> HIDE DEF p
  <2>4. p[1] = id
    BY <2>1, <2>3
  <2>5. Chained(p)
    <3> SUFFICES ASSUME NEW k \in 1..(m - 1) PROVE p[k] \in triggers[p[k + 1]]
      BY <2>2 DEF Chained
    <3>1. k \in 1..m /\ k + 1 \in 1..m /\ k \in 1..(n - 1)
      BY <1>0, <1>1
    <3> QED
      BY <2>3, <3>1
  <2>6. \A j \in 1..m : ClosesCycle(p, j, source) <=> ClosesCycle(q, j, source)
    <3> SUFFICES ASSUME NEW j \in 1..m
                 PROVE  ClosesCycle(p, j, source) <=> ClosesCycle(q, j, source)
      OBVIOUS
    <3>1. \A i \in 1..(j - 1) : i \in 1..m
      BY <2>1
    <3> QED
      BY <2>3, <3>1 DEF ClosesCycle
  <2>7. p \in AutomationPath(id, source)
    <3>1. \A j \in 2..(m - 1) : j \in 1..m
      BY <2>1
    <3> QED
      BY <1>1, <2>2, <2>4, <2>5, <2>6, <3>1 DEF AutomationPath
  <2>8. ~TooDeep(p) /\ (m > 1 => ~ClosesCycle(p, m, source))
    BY <2>2, <2>7 DEF Accepted
  <2>9. m \in 1..m
    BY <2>1
  <2> QED
    BY <1>0, <2>1, <2>2, <2>6, <2>8, <2>9 DEF TooDeep
<1> DEFINE K == {j \in Nat : j \in 2..(M - 1) /\ ClosesCycle(q, j, source)}
<1>2. K = {}
  <2> SUFFICES ASSUME K # {} PROVE FALSE
    OBVIOUS
  <2>1. PICK m \in K : \A j \in K : m <= j
    <3>1. K \in SUBSET Nat
      OBVIOUS
    <3> HIDE DEF K
    <3> QED
      BY <3>1, SmallestNat
  <2>2. m \in 1..(M + 1) /\ m <= n /\ m > 1 /\ m \in Nat /\ m <= M - 1
    BY <1>0
  <2>3. \A j \in 2..(m - 1) : j \in Nat /\ j \in 2..(M - 1) /\ ~(m <= j)
    BY <1>0, <2>2
  <2>4. \A j \in 2..(m - 1) : ~ClosesCycle(q, j, source)
    BY <2>1, <2>3
  <2>5. ClosesCycle(q, m, source)
    BY <2>1
  <2> HIDE DEF K
  <2> QED
    BY <1>1, <2>2, <2>4, <2>5
<1>3. M \in 1..(M + 1) /\ M <= n /\ \A j \in 2..(M - 1) : j \in Nat /\ ~ClosesCycle(q, j, source)
  BY <1>0, <1>2
<1> HIDE DEF M, K
<1>4. M < M
  BY <1>1, <1>3
<1> QED
  BY <1>0, <1>4

-----------------------------------------------------------------------------
(* What a check is worth until the write *)

LEMMA AcceptedHolds ==
  ASSUME GraphTypeOK, NEW id \in automations, NEW s \in Automations, Accepted(id, s),
         NEW taken
  PROVE  CheckHolds(triggers, taken, id, s)
<1>1. ASSUME s # id
      PROVE  \E T \in SUBSET Automations : id \in T /\ s \notin T /\ Shut(triggers, taken, T)
  <2>1. PICK T \in SUBSET Automations : id \in T /\ s \notin T /\ Closed(triggers, T)
    BY <1>1, AcceptedSeparates
  <2> QED
    BY <2>1 DEF Closed, Shut
<1>2. ASSUME NEW n \in Nat \ {0, 1}, NEW q \in Seq(Automations), Len(q) = n, q[1] = id,
             Leads(triggers, taken, n, q)
      PROVE  n < MaxStackDepth
  <2>1. \A k \in 1..(n - 1) : q[k] \in triggers[q[k + 1]]
    BY <1>2 DEF Leads
  <2> QED
    BY <1>2, <2>1, AcceptedIsShort
<1> QED
  BY <1>1, <1>2 DEF CheckHolds

\* An automation that no trigger names starts nothing.
LEMMA UnnamedHolds ==
  ASSUME NEW graph, NEW taken, NEW id \in Automations, NEW s,
         \A y \in Automations : id \notin graph[y]
  PROVE  CheckHolds(graph, taken, id, s)
<1>1. ASSUME s # id
      PROVE  \E T \in SUBSET Automations : id \in T /\ s \notin T /\ Shut(graph, taken, T)
  <2>1. {id} \in SUBSET Automations /\ id \in {id} /\ s \notin {id} /\ Shut(graph, taken, {id})
    BY <1>1 DEF Shut
  <2> QED
    BY <2>1
<1>2. ASSUME NEW n \in Nat \ {0, 1}, NEW q \in Seq(Automations), Len(q) = n, q[1] = id,
             Leads(graph, taken, n, q)
      PROVE  FALSE
  <2>1. 1 \in 1..(n - 1) /\ 2 \in 1..n /\ 1 + 1 = 2
    OBVIOUS
  <2>2. q[2] \in Automations
    BY <1>2, <2>1, ElementOfSeq
  <2>3. q[1] \in graph[q[2]]
    BY <1>2, <2>1 DEF Leads
  <2> QED
    BY <1>2, <2>2, <2>3
<1> QED
  BY <1>1, <1>2 DEF CheckHolds

\* Fewer triggers, and others only where somebody else has stored, leave the check
\* what it is worth.
LEMMA CheckKept ==
  ASSUME NEW graph, NEW taken, NEW id, NEW s, CheckHolds(graph, taken, id, s),
         NEW graph2, NEW taken2,
         \A y \in Automations \ taken2 :
            /\ graph2[y] \subseteq graph[y]
            /\ y \in taken => graph2[y] = {}
  PROVE  CheckHolds(graph2, taken2, id, s)
<1>1. ASSUME s # id
      PROVE  \E T \in SUBSET Automations : id \in T /\ s \notin T /\ Shut(graph2, taken2, T)
  <2>1. PICK T \in SUBSET Automations : id \in T /\ s \notin T /\ Shut(graph, taken, T)
    BY <1>1 DEF CheckHolds
  <2>2. Shut(graph2, taken2, T)
    <3> SUFFICES ASSUME NEW x \in T, NEW y \in Automations \ taken2, x \in graph2[y]
                 PROVE  y \in T
      BY DEF Shut
    <3>1. x \in graph[y] /\ y \notin taken
      OBVIOUS
    <3> QED
      BY <2>1, <3>1 DEF Shut
  <2> QED
    BY <2>1, <2>2
<1>2. ASSUME NEW n \in Nat \ {0, 1}, NEW q \in Seq(Automations), Len(q) = n, q[1] = id,
             Leads(graph2, taken2, n, q)
      PROVE  n < MaxStackDepth
  <2>1. ASSUME NEW k \in 1..(n - 1)
        PROVE  q[k] \in graph[q[k + 1]] /\ q[k + 1] \notin taken
    <3>1. k + 1 \in 1..n
      OBVIOUS
    <3>2. q[k + 1] \in Automations
      BY <1>2, <3>1, ElementOfSeq
    <3>3. q[k] \in graph2[q[k + 1]] /\ q[k + 1] \notin taken2
      BY <1>2 DEF Leads
    <3> QED
      BY <3>2, <3>3
  <2>2. Leads(graph, taken, n, q)
    BY <2>1 DEF Leads
  <2> QED
    BY <1>2, <2>2 DEF CheckHolds
<1> QED
  BY <1>1, <1>2 DEF CheckHolds

-----------------------------------------------------------------------------
(* Storing closes no circle that is not raced *)

\* In a circle that passes through the stored automation and through nothing others
\* stored, what it leads to would be a circle already, as its sources are not there.
LEMMA StoreClosesNone ==
  ASSUME NEW id \in Automations, NEW sources, id \notin sources, NEW taken,
         \A s \in sources : CheckHolds(triggers, taken, id, s),
         NEW graph, graph[id] = sources,
         \A y \in Automations : y # id => graph[y] = triggers[y],
         NEW S \in SUBSET Automations, Circle(graph, S), id \in S,
         \A y \in S : y # id => y \notin taken
  PROVE  \E R \in SUBSET S : id \notin R /\ Circle(triggers, R)
<1>1. /\ graph[id] = sources
      /\ \A y \in Automations : y # id => graph[y] = triggers[y]
  OBVIOUS
<1>2. \A x \in S : \E y \in S : x \in graph[y]
  BY DEF Circle
<1> DEFINE Reach == {x \in S : \A T \in SUBSET Automations :
                         (id \in T /\ Shut(triggers, taken, T)) => x \in T}
           R == Reach \ {id}
<1>3. \A x \in Reach : x \notin sources
  <2> SUFFICES ASSUME NEW x \in Reach, x \in sources PROVE FALSE
    OBVIOUS
  <2>1. x # id /\ CheckHolds(triggers, taken, id, x)
    OBVIOUS
  <2>2. PICK T \in SUBSET Automations : id \in T /\ x \notin T /\ Shut(triggers, taken, T)
    BY <2>1 DEF CheckHolds
  <2> QED
    BY <2>2
<1>4. ASSUME NEW x \in Reach PROVE \E y \in R : x \in triggers[y]
  <2>1. PICK y \in S : x \in graph[y]
    BY <1>2
  <2>2. y # id /\ x \in triggers[y] /\ y \in Automations \ taken
    BY <1>1, <1>3, <2>1
  <2>3. y \in Reach
    BY <2>2 DEF Shut
  <2> QED
    BY <2>2, <2>3
<1>5. id \in Reach
  OBVIOUS
<1>6. R # {} /\ \A x \in R : \E y \in R : x \in triggers[y]
  BY <1>4, <1>5
<1>7. R \in SUBSET S /\ id \notin R
  OBVIOUS
<1> HIDE DEF R
<1> QED
  BY <1>6, <1>7 DEF Circle

LEMMA StoreKeepsRaced ==
  ASSUME GraphInv, NEW e \in Editors, Store(e)
  PROVE  CirclesAreRaced'
<1>0. GraphTypeOK /\ CirclesAreRaced /\ ChecksHold
  BY DEF GraphInv
<1>1. PICK id, sources, taken, graph :
         /\ id = request[e].id /\ sources = request[e].sources
         /\ taken = overtaken[e] /\ graph = [triggers EXCEPT ![id] = sources]
  OBVIOUS
<1>2. request[e] \in SaveRequest
  BY <1>0 DEF GraphTypeOK, Store, Saving
<1>3. /\ id \in Automations /\ sources \in SUBSET Automations
      /\ triggers' = graph
      /\ raced' = {r \in raced : id \notin {r[1], r[2]}} \union {<<id, b>> : b \in taken \ {id}}
      /\ \A s \in sources : CheckHolds(triggers, taken, id, s)
  <2>1. /\ id \in Automations /\ sources \in SUBSET Automations
        /\ triggers' = graph
        /\ raced' = {r \in raced : id \notin {r[1], r[2]}} \union {<<id, b>> : b \in taken \ {id}}
    BY <1>1, <1>2 DEF Store, RecordRace, SaveRequest
  <2>2. Saving(e) /\ request[e].unchecked = {}
    BY DEF Store
  <2>3. \A s \in sources : CheckHolds(triggers, taken, id, s)
    BY <1>0, <1>1, <2>2 DEF ChecksHold
  <2> QED
    BY <2>1, <2>3
<1> SUFFICES ASSUME NEW S \in SUBSET Automations, Circle(graph, S),
                    \A x \in S : x \notin graph[x],
                    \A x, y \in S : <<x, y>> \notin raced'
             PROVE  FALSE
  BY <1>3 DEF CirclesAreRaced, Circle
<1>4. /\ graph[id] = sources
      /\ \A y \in Automations : y # id => graph[y] = triggers[y]
  BY <1>0, <1>1, <1>3 DEF GraphTypeOK
\* Away from id nothing has changed.
<1>5. ASSUME NEW R \in SUBSET S, id \notin R, Circle(triggers, R) PROVE FALSE
  <2>1. \A x \in R : x \notin triggers[x]
    BY <1>4, <1>5
  <2>2. \A x, y \in R : <<x, y>> \notin raced
    <3> SUFFICES ASSUME NEW x \in R, NEW y \in R, <<x, y>> \in raced PROVE FALSE
      OBVIOUS
    <3>1. x # id /\ y # id
      BY <1>5
    <3>2. <<x, y>> \in raced'
      BY <1>3, <3>1
    <3> QED
      BY <3>2
  <2>3. R \in SUBSET Automations
    OBVIOUS
  <2> QED
    BY <1>0, <1>5, <2>1, <2>2, <2>3 DEF CirclesAreRaced
<1>6. CASE id \notin S
  <2>1. Circle(triggers, S)
    BY <1>4, <1>6 DEF Circle
  <2> QED
    BY <1>5, <1>6, <2>1
<1>7. CASE id \in S
  <2>1. id \notin sources
    BY <1>4, <1>7
  <2>2. ASSUME NEW y \in S, y # id PROVE y \notin taken
    BY <1>3, <1>7, <2>2
  <2>3. \E R \in SUBSET S : id \notin R /\ Circle(triggers, R)
    <3>1. \A y \in S : y # id => y \notin taken
      BY <2>2
    <3>2. id \in Automations /\ \A s \in sources : CheckHolds(triggers, taken, id, s)
      BY <1>3
    <3> QED
      BY <1>4, <1>7, <2>1, <3>1, <3>2, StoreClosesNone
  <2> QED
    BY <1>5, <2>3
<1> QED
  BY <1>6, <1>7

\* A check of another save that has walked the triggers misses only what is stored
\* now; the others have found no automation that starts anything.
LEMMA StoreKeepsChecks ==
  ASSUME GraphInv, NEW e \in Editors, Store(e)
  PROVE  ChecksHold'
<1>0. GraphTypeOK /\ ChecksHold
  BY DEF GraphInv
<1>1. PICK id, sources : id = request[e].id /\ sources = request[e].sources
  OBVIOUS
<1>2. request[e] \in SaveRequest
  BY <1>0 DEF GraphTypeOK, Store, Saving
<1>3. /\ id \in Automations /\ sources \subseteq automations
      /\ triggers' = [triggers EXCEPT ![id] = sources]
      /\ request' = [request EXCEPT ![e] = NoRequest]
      /\ \A f \in Editors : f # e =>
            overtaken'[f] = IF HasChecked(f) THEN overtaken[f] \union {id} ELSE overtaken[f]
  BY <1>1, <1>2 DEF Store, RecordRace, EndSave, SaveRequest
<1>4. /\ triggers'[id] = sources
      /\ \A y \in Automations : y # id => triggers'[y] = triggers[y]
      /\ \A y \in Automations : triggers[y] \subseteq automations
  BY <1>0, <1>3 DEF GraphTypeOK
<1> SUFFICES ASSUME NEW f \in Editors, Saving(f)',
                    NEW s \in request'[f].sources \ request'[f].unchecked
             PROVE  CheckHolds(triggers', overtaken'[f], request'[f].id, s)
  BY DEF ChecksHold
<1>5. f # e /\ request'[f] = request[f] /\ Saving(f) /\ request[f] \in SaveRequest
  BY <1>0, <1>3 DEF Saving, GraphTypeOK
<1>6. PICK fid : fid = request[f].id
  OBVIOUS
<1>7. fid \in Automations
  BY <1>5, <1>6 DEF SaveRequest
<1>8. CASE HasChecked(f)
  <2>1. CheckHolds(triggers, overtaken[f], fid, s)
    BY <1>0, <1>5, <1>6 DEF ChecksHold
  <2>2. overtaken'[f] = overtaken[f] \union {id}
    BY <1>3, <1>5, <1>8
  <2>3. \A y \in Automations \ overtaken'[f] :
           /\ triggers'[y] \subseteq triggers[y]
           /\ y \in overtaken[f] => triggers'[y] = {}
    BY <1>4, <2>2
  <2> QED
    BY <1>5, <1>6, <2>1, <2>3, CheckKept
<1>9. CASE ~HasChecked(f)
  <2>1. fid \notin automations
    BY <1>5, <1>6, <1>9 DEF HasChecked
  <2>2. \A y \in Automations : fid \notin triggers'[y]
    BY <1>3, <1>4, <2>1
  <2> QED
    BY <1>5, <1>6, <1>7, <2>2, UnnamedHolds
<1> QED
  BY <1>8, <1>9

LEMMA RemoveKeeps ==
  ASSUME GraphInv, NEW id \in Automations, Remove(id)
  PROVE  CirclesAreRaced' /\ ChecksHold'
<1>0. GraphTypeOK /\ CirclesAreRaced /\ ChecksHold
  BY DEF GraphInv
<1>1. /\ request' = request
      /\ triggers' = [a \in Automations |-> IF a = id THEN {} ELSE triggers[a] \ {id}]
      /\ raced' = {r \in raced : id \notin {r[1], r[2]}}
      /\ \A e \in Editors : overtaken'[e] = overtaken[e] \ {id}
  BY DEF Remove, WithoutSource
<1>2. CirclesAreRaced'
  <2> SUFFICES ASSUME NEW S \in SUBSET Automations, Circle(triggers', S)
               PROVE  \/ \E x \in S : x \in triggers'[x]
                      \/ \E x, y \in S : <<x, y>> \in raced'
    BY DEF CirclesAreRaced, Circle
  <2>1. id \notin S
    BY <1>1 DEF Circle
  <2>2. \A x \in S : \A y \in S : x \in triggers'[y] <=> x \in triggers[y]
    BY <1>1, <2>1
  <2>3. Circle(triggers, S)
    BY <2>2 DEF Circle
  <2>4. CASE \E x \in S : x \in triggers[x]
    BY <2>2, <2>4
  <2>5. CASE \E x, y \in S : <<x, y>> \in raced
    <3>1. PICK x, y \in S : <<x, y>> \in raced
      BY <2>5
    <3>2. <<x, y>> \in raced'
      BY <1>1, <2>1, <3>1
    <3> QED
      BY <3>2
  <2> QED
    BY <1>0, <2>3, <2>4, <2>5 DEF CirclesAreRaced
<1>3. ChecksHold'
  <2> SUFFICES ASSUME NEW e \in Editors, Saving(e)',
                      NEW s \in request'[e].sources \ request'[e].unchecked
               PROVE  CheckHolds(triggers', overtaken'[e], request'[e].id, s)
    BY DEF ChecksHold
  <2>1. CheckHolds(triggers, overtaken[e], request[e].id, s)
    BY <1>0, <1>1 DEF ChecksHold, Saving
  <2>2. \A y \in Automations \ overtaken'[e] :
           /\ triggers'[y] \subseteq triggers[y]
           /\ y \in overtaken[e] => triggers'[y] = {}
    BY <1>1
  <2>3. CheckHolds(triggers', overtaken'[e], request[e].id, s)
    BY <2>1, <2>2, CheckKept
  <2> QED
    BY <1>1, <2>3
<1> QED
  BY <1>2, <1>3

-----------------------------------------------------------------------------
(* The invariant of the configuration *)

LEMMA GraphInvInit == GraphInit => GraphInv
<1> SUFFICES ASSUME GraphInit PROVE GraphInv
  OBVIOUS
<1>1. CirclesAreRaced
  BY DEF GraphInit, CirclesAreRaced, Circle
<1>2. ChecksHold
  BY DEF GraphInit, ChecksHold, Saving
<1> QED
  BY <1>1, <1>2, GraphTypeInit DEF GraphInv

LEMMA GraphInvNext == GraphInv /\ [GraphNext]_graphVars => GraphInv'
<1> SUFFICES ASSUME GraphInv, [GraphNext]_graphVars PROVE GraphInv'
  OBVIOUS
<1>0. GraphTypeOK /\ GraphTypeOK' /\ CirclesAreRaced /\ ChecksHold
  BY GraphTypeNext DEF GraphInv
<1> SUFFICES CirclesAreRaced' /\ ChecksHold'
  BY <1>0 DEF GraphInv
<1>U. ASSUME UNCHANGED <<triggers, raced>> PROVE CirclesAreRaced'
  BY <1>0, <1>U DEF CirclesAreRaced, Circle
<1>D. ASSUME NEW e \in Editors, EndSave(e), Forget(e), UNCHANGED <<automations, triggers>>
      PROVE  CirclesAreRaced' /\ ChecksHold'
  <2>1. CirclesAreRaced'
    BY <1>D, <1>U DEF Forget
  <2>2. \A f \in Editors :
           IF f = e THEN ~Saving(f)' ELSE request'[f] = request[f] /\ overtaken'[f] = overtaken[f]
    BY <1>0, <1>D DEF EndSave, Forget, Saving, GraphTypeOK
  <2>3. ChecksHold'
    BY <1>0, <1>D, <2>2 DEF ChecksHold, Saving
  <2> QED
    BY <2>1, <2>3
<1>E. ASSUME NEW e \in Editors, NEW r \in SaveRequest,
             request' = [request EXCEPT ![e] = r],
             UNCHANGED <<automations, triggers, history>>,
             \A s \in r.sources \ r.unchecked : CheckHolds(triggers, overtaken[e], r.id, s)
      PROVE  CirclesAreRaced' /\ ChecksHold'
  <2>1. triggers' = triggers /\ overtaken' = overtaken /\ raced' = raced
    BY <1>E DEF history
  <2>2. request'[e] = r /\ \A f \in Editors : f # e => request'[f] = request[f]
    BY <1>0, <1>E DEF GraphTypeOK
  <2>3. ChecksHold'
    <3> SUFFICES ASSUME NEW f \in Editors, Saving(f)',
                        NEW s \in request'[f].sources \ request'[f].unchecked
                 PROVE  CheckHolds(triggers', overtaken'[f], request'[f].id, s)
      BY DEF ChecksHold
    <3>1. CASE f = e
      BY <1>E, <2>1, <2>2, <3>1
    <3>2. CASE f # e
      <4>1. Saving(f) /\ s \in request[f].sources \ request[f].unchecked
        BY <2>2, <3>2 DEF Saving
      <4>2. CheckHolds(triggers, overtaken[f], request[f].id, s)
        BY <1>0, <4>1 DEF ChecksHold
      <4> QED
        BY <2>1, <2>2, <3>2, <4>2
    <3> QED
      BY <3>1, <3>2
  <2> QED
    BY <1>U, <2>1, <2>3
<1>1. ASSUME NEW e \in Editors, NEW id \in Automations,
             NEW sources \in SUBSET Automations, Edit(e, id, sources)
      PROVE  CirclesAreRaced' /\ ChecksHold'
  <2>1. PICK r \in SaveRequest : r = [id |-> id, sources |-> sources, unchecked |-> sources]
    BY DEF SaveRequest
  <2>2. /\ request' = [request EXCEPT ![e] = r]
        /\ UNCHANGED <<automations, triggers, history>>
        /\ r.sources \ r.unchecked = {}
    BY <1>1, <2>1 DEF Edit
  <2> QED
    BY <1>E, <2>2
<1>2. ASSUME NEW e \in Editors, NEW id \in Automations,
             NEW sources \in SUBSET Automations, Create(e, id, sources)
      PROVE  CirclesAreRaced' /\ ChecksHold'
  <2>1. PICK r \in SaveRequest : r = [id |-> id, sources |-> sources, unchecked |-> {}]
    BY DEF SaveRequest
  <2>2. /\ request' = [request EXCEPT ![e] = r] /\ r.id = id
        /\ UNCHANGED <<automations, triggers, history>>
        /\ \A y \in Automations : id \notin triggers[y]
    BY <1>0, <1>2, <2>1 DEF Create, GraphTypeOK
  <2>3. \A s \in r.sources \ r.unchecked : CheckHolds(triggers, overtaken[e], r.id, s)
    BY <2>2, UnnamedHolds
  <2> QED
    BY <1>E, <2>2, <2>3
<1>3. ASSUME NEW e \in Editors, NEW original \in Automations, NEW id \in Automations,
             Duplicate(e, original, id)
      PROVE  CirclesAreRaced' /\ ChecksHold'
  <2>1. triggers[original] \in SUBSET Automations
    BY <1>0 DEF GraphTypeOK
  <2> QED
    BY <1>2, <1>3, <2>1 DEF Duplicate
<1>4. ASSUME NEW e \in Editors, NEW source \in Automations, Check(e, source)
      PROVE  CirclesAreRaced' /\ ChecksHold'
  <2>1. PICK q \in SaveRequest : q = request[e]
    BY <1>0, <1>4 DEF GraphTypeOK, Check, Saving
  <2>2. PICK r \in SaveRequest : r = [q EXCEPT !.unchecked = @ \ {source}]
    BY <2>1 DEF SaveRequest
  <2>3. r.id = q.id /\ r.sources = q.sources /\ r.unchecked = q.unchecked \ {source}
        /\ q.id \in Automations
    BY <2>1, <2>2 DEF SaveRequest
  <2>4. request' = [request EXCEPT ![e] = r] /\ UNCHANGED <<automations, triggers, history>>
        /\ Saving(e) /\ Accepted(q.id, source)
    BY <1>0, <1>4, <2>1, <2>2 DEF Check, GraphTypeOK
  <2>5. CheckHolds(triggers, overtaken[e], q.id, source)
    <3>1. CASE q.id \in automations
      BY <1>0, <2>4, <3>1, AcceptedHolds
    <3>2. CASE q.id \notin automations
      <4>1. \A y \in Automations : q.id \notin triggers[y]
        BY <1>0, <3>2 DEF GraphTypeOK
      <4> QED
        BY <2>3, <4>1, UnnamedHolds
    <3> QED
      BY <3>1, <3>2
  <2>6. \A s \in q.sources \ q.unchecked : CheckHolds(triggers, overtaken[e], q.id, s)
    BY <1>0, <2>1, <2>4 DEF ChecksHold
  <2>7. \A s \in r.sources \ r.unchecked : s = source \/ s \in q.sources \ q.unchecked
    BY <2>3
  <2>8. \A s \in r.sources \ r.unchecked : CheckHolds(triggers, overtaken[e], r.id, s)
    BY <2>3, <2>5, <2>6, <2>7
  <2> QED
    BY <1>E, <2>4, <2>8
<1>5. ASSUME NEW e \in Editors, NEW source \in Automations, RefuseSave(e, source)
      PROVE  CirclesAreRaced' /\ ChecksHold'
  BY <1>5, <1>D DEF RefuseSave
<1>6. ASSUME NEW e \in Editors, Store(e)
      PROVE  CirclesAreRaced' /\ ChecksHold'
  BY <1>6, StoreKeepsRaced, StoreKeepsChecks
<1>7. ASSUME NEW e \in Editors, StoreFails(e)
      PROVE  CirclesAreRaced' /\ ChecksHold'
  BY <1>7, <1>D DEF StoreFails
<1>8. ASSUME NEW id \in Automations, Remove(id)
      PROVE  CirclesAreRaced' /\ ChecksHold'
  BY <1>8, RemoveKeeps
<1>9. CASE UNCHANGED graphVars
  BY <1>0, <1>9, <1>U DEF graphVars, history, ChecksHold, Saving
<1> QED
  BY <1>1, <1>2, <1>3, <1>4, <1>5, <1>6, <1>7, <1>8, <1>9 DEF GraphNext

\* However many users save at once, a circle in the stored triggers has an automation
\* that names itself or two of which one was stored between the check and the write
\* of the other: neither the depth at which the walk of wouldCreateCycle stops, nor
\* the sources being checked one by one, nor deletions let another one through.
THEOREM OnlyRacesCloseCircles == GraphSpec => []CirclesAreRaced
<1>1. GraphInv => CirclesAreRaced
  BY DEF GraphInv
<1> QED
  BY <1>1, GraphInvInit, GraphInvNext, PTL DEF GraphSpec

-----------------------------------------------------------------------------
(* Sequences in an acyclic graph *)

\* An automation that came twice in a sequence would start itself.
LEMMA NoneComesTwice ==
  ASSUME NEW graph, Acyclic(graph), NEW n \in Nat, NEW p \in [1..n -> Automations],
         \A k \in 1..(n - 1) : p[k] \in graph[p[k + 1]],
         NEW i \in 1..n, NEW j \in 1..n, i < j
  PROVE  p[i] # p[j]
<1> SUFFICES ASSUME p[i] = p[j] PROVE FALSE
  OBVIOUS
<1> DEFINE S == {p[k] : k \in i..(j - 1)}
<1>1. /\ i \in i..(j - 1)
      /\ \A k \in i..(j - 1) : k \in 1..(n - 1) /\ k \in 1..n /\ (k + 1 \in i..(j - 1) \/ k + 1 = j)
  OBVIOUS
<1>2. S \in SUBSET Automations /\ p[i] \in S
  BY <1>1
<1>3. ASSUME NEW k \in i..(j - 1) PROVE \E y \in S : p[k] \in graph[y]
  <2>1. p[k] \in graph[p[k + 1]]
    BY <1>1
  <2>2. p[k + 1] \in S
    BY <1>1, <1>2
  <2> QED
    BY <2>1, <2>2
<1>4. \A x \in S : \E y \in S : x \in graph[y]
  BY <1>3
<1> HIDE DEF S
<1> QED
  BY <1>2, <1>4 DEF Acyclic, Circle

-----------------------------------------------------------------------------
(* The length of what is stored *)

\* A sequence through the stored automation that is too long is one its check knew.
LEMMA StoredFits ==
  ASSUME GraphTypeOK, MaxStackDepth > 1,
         NEW id \in Automations, NEW sources \in SUBSET Automations, id \notin sources,
         NEW taken, \A s \in sources : CheckHolds(triggers, taken, id, s),
         NEW graph, graph = [triggers EXCEPT ![id] = sources],
         NEW p \in Chains(MaxStackDepth + 1), p[1] \in sources, p[2] = id,
         \A i \in 3..(MaxStackDepth + 1) : p[i] \notin taken
  PROVE  ~IsChain(graph, p)
<1> SUFFICES ASSUME IsChain(graph, p) PROVE FALSE
  OBVIOUS
<1> DEFINE m == MaxStackDepth
           q == [i \in 1..m |-> p[i + 1]]
<1>1. m \in Nat /\ m >= 2 /\ m + 1 \in Nat
  BY DepthAssumption
<1>2. p \in [1..(m + 1) -> Automations] /\ Len(p) = m + 1
  <2>1. m + 1 \in 1..(MaxStackDepth + 1)
    BY <1>1
  <2> QED
    BY <2>1, PathOf DEF Chains
<1>3. \A k \in 1..m : p[k] \in graph[p[k + 1]]
  <2>1. 1..(Len(p) - 1) = 1..m
    BY <1>1, <1>2
  <2> QED
    BY <2>1 DEF IsChain
<1>4. \A i \in 3..(m + 1) : p[i] \notin taken
  OBVIOUS
<1> HIDE DEF m
<1>5. graph[id] = sources /\ \A y \in Automations : y # id => graph[y] = triggers[y]
  BY DEF GraphTypeOK
\* It does not come back to id: a source its check reached would come before.
<1>6. \A k \in 3..(m + 1) : p[k] # id
  <2> DEFINE K == {k \in Nat : k \in 3..(m + 1) /\ p[k] = id}
  <2> SUFFICES ASSUME K # {} PROVE FALSE
    BY <1>1
  <2>1. PICK k \in K : \A i \in K : k <= i
    <3>1. K \in SUBSET Nat
      OBVIOUS
    <3> HIDE DEF K
    <3> QED
      BY <3>1, SmallestNat
  <2>2. k \in 3..(m + 1) /\ k \in Nat /\ p[k] = id
    OBVIOUS
  <2>3. \A i \in 3..(k - 1) : p[i] # id
    <3>1. \A i \in 3..(k - 1) : i \in Nat /\ i \in 3..(m + 1) /\ ~(k <= i)
      BY <1>1, <2>2
    <3> QED
      BY <2>1, <3>1
  <2> HIDE DEF K
  <2>4. k - 1 \in 1..m /\ (k - 1) + 1 = k /\ k - 1 \in 2..(k - 1)
    BY <1>1, <2>2
  <2>5. p[k - 1] \in sources
    BY <1>3, <1>5, <2>2, <2>4
  <2>6. PICK T \in SUBSET Automations : id \in T /\ p[k - 1] \notin T /\ Shut(triggers, taken, T)
    <3>1. p[k - 1] # id /\ CheckHolds(triggers, taken, id, p[k - 1])
      BY <2>5
    <3> QED
      BY <3>1 DEF CheckHolds
  <2> DEFINE Out == {i \in Nat : i \in 2..(k - 1) /\ p[i] \notin T}
  <2>7. Out # {}
    BY <2>2, <2>4, <2>6
  <2>8. PICK i \in Out : \A j \in Out : i <= j
    <3>1. Out \in SUBSET Nat
      OBVIOUS
    <3> HIDE DEF Out
    <3> QED
      BY <3>1, <2>7, SmallestNat
  <2>9. i \in Nat /\ i \in 2..(k - 1) /\ p[i] \notin T
    OBVIOUS
  <2>10. i # 2
    BY <2>6, <2>9
  <2>11. i \in 3..(k - 1) /\ i \in 3..(m + 1) /\ i \in 1..(m + 1) /\ i - 1 \in 1..m
         /\ (i - 1) + 1 = i /\ i - 1 \in 2..(k - 1) /\ i - 1 \in Nat /\ ~(i <= i - 1)
    BY <1>1, <2>2, <2>9, <2>10
  <2>12. p[i - 1] \in T
    BY <2>8, <2>11
  <2>13. p[i] \in Automations \ taken /\ p[i] # id
    BY <1>2, <1>4, <2>3, <2>11
  <2>14. p[i - 1] \in triggers[p[i]]
    BY <1>3, <1>5, <2>11, <2>13
  <2> QED
    BY <2>6, <2>9, <2>12, <2>13, <2>14 DEF Shut
<1>7. q \in [1..m -> Automations] /\ \A i \in 1..m : q[i] = p[i + 1]
  BY <1>1, <1>2
<1>8. q \in Seq(Automations) /\ Len(q) = m
  <2>1. q \in Seq(Automations)
    BY <1>1, <1>7, SeqDef
  <2>2. m \in 1..(MaxStackDepth + 1)
    BY <1>1 DEF m
  <2> QED
    BY <1>7, <2>1, <2>2, PathOf
<1> HIDE DEF q
<1>9. q[1] = id
  BY <1>1, <1>7
<1>10. Leads(triggers, taken, m, q)
  <2> SUFFICES ASSUME NEW i \in 1..(m - 1)
               PROVE  q[i] \in triggers[q[i + 1]] /\ q[i + 1] \notin taken
    BY DEF Leads
  <2>1. i + 1 \in 1..m /\ i + 2 \in 3..(m + 1) /\ i + 2 \in 1..(m + 1) /\ i \in 1..m
        /\ (i + 1) + 1 = i + 2
    BY <1>1
  <2>2. q[i] = p[i + 1] /\ q[i + 1] = p[i + 2]
    BY <1>7, <2>1
  <2>3. p[i + 2] # id /\ p[i + 2] \in Automations \ taken
    BY <1>2, <1>4, <1>6, <2>1
  <2>4. p[i + 1] \in graph[p[i + 2]]
    BY <1>3, <2>1
  <2> QED
    BY <1>5, <2>2, <2>3, <2>4
<1>11. m < m
  <2>1. CheckHolds(triggers, taken, id, p[1]) /\ m \in Nat \ {0, 1}
    BY <1>1
  <2> QED
    BY <1>8, <1>9, <1>10, <2>1 DEF CheckHolds, m
<1> QED
  BY <1>1, <1>11

\* However many users save at once, an edit that is saved leaves no sequence that is
\* too long behind its sources, save through what others stored after the check.
\* (With a limit of one, wouldCreateCycle would refuse every source.)
THEOREM EditsFit ==
  ASSUME MaxStackDepth > 1
  PROVE  GraphSpec => EditedChainFits
<1> DEFINE Fit == \A e \in Editors :
             (/\ Store(e)
              /\ request[e].id \in automations \ request[e].sources) =>
                 \A p \in Chains(MaxStackDepth + 1) :
                     (/\ p[1] \in request[e].sources /\ p[2] = request[e].id
                      /\ \A i \in 3..(MaxStackDepth + 1) : p[i] \notin overtaken[e])
                         => ~IsChain(triggers', p)
<1>1. GraphInv => Fit
  <2> SUFFICES ASSUME GraphInv, NEW e \in Editors, Store(e),
                      request[e].id \in automations \ request[e].sources,
                      NEW p \in Chains(MaxStackDepth + 1),
                      p[1] \in request[e].sources, p[2] = request[e].id,
                      \A i \in 3..(MaxStackDepth + 1) : p[i] \notin overtaken[e]
               PROVE  ~IsChain(triggers', p)
    OBVIOUS
  <2>0. GraphTypeOK /\ ChecksHold
    BY DEF GraphInv
  <2>1. request[e] \in SaveRequest /\ Saving(e) /\ request[e].unchecked = {}
        /\ triggers' = [triggers EXCEPT ![request[e].id] = request[e].sources]
    BY <2>0 DEF GraphTypeOK, Store, Saving
  <2>2. /\ request[e].sources \in SUBSET Automations /\ request[e].id \in Automations
        /\ request[e].id \notin request[e].sources
        /\ \A s \in request[e].sources : CheckHolds(triggers, overtaken[e], request[e].id, s)
    BY <2>0, <2>1 DEF SaveRequest, ChecksHold
  <2> QED
    BY <2>0, <2>1, <2>2, StoredFits
<1>2. GraphInv /\ [GraphNext]_graphVars => [Fit]_graphVars
  BY <1>1
<1> QED
  BY <1>2, GraphInvInit, GraphInvNext, PTL DEF GraphSpec, EditedChainFits

-----------------------------------------------------------------------------
(* Refusals *)

\* The loop over the triggers only comes to triggers that are being saved.
UncheckedAreSources == \A e \in Editors : Saving(e) => request[e].unchecked \subseteq request[e].sources

LEMMA UncheckedNext == GraphTypeOK /\ UncheckedAreSources /\ [GraphNext]_graphVars => UncheckedAreSources'
<1> SUFFICES ASSUME GraphTypeOK, UncheckedAreSources, [GraphNext]_graphVars PROVE UncheckedAreSources'
  OBVIOUS
<1>0. request \in [Editors -> SaveRequest \union {NoRequest}]
  BY DEF GraphTypeOK
<1>1. ASSUME NEW e \in Editors, NEW id, NEW sources,
             Edit(e, id, sources) \/ Create(e, id, sources)
      PROVE  UncheckedAreSources'
  BY <1>0, <1>1 DEF Edit, Create, UncheckedAreSources, Saving
<1>2. ASSUME NEW e \in Editors, NEW source, Check(e, source)
      PROVE  UncheckedAreSources'
  <2>1. request[e] \in SaveRequest
    BY <1>0, <1>2 DEF Check, Saving
  <2>2. /\ request'[e].sources = request[e].sources
        /\ request'[e].unchecked = request[e].unchecked \ {source}
        /\ \A f \in Editors : f # e => request'[f] = request[f]
    BY <1>0, <1>2, <2>1 DEF Check, SaveRequest
  <2> QED
    BY <1>2, <2>2 DEF UncheckedAreSources, Saving, Check
<1>3. ASSUME NEW e \in Editors, EndSave(e) PROVE UncheckedAreSources'
  BY <1>0, <1>3 DEF EndSave, UncheckedAreSources, Saving
<1>4. ASSUME request' = request PROVE UncheckedAreSources'
  BY <1>4 DEF UncheckedAreSources, Saving
<1> QED
  BY <1>1, <1>2, <1>3, <1>4 DEF GraphNext, Duplicate, RefuseSave, Store, StoreFails, Remove, graphVars

\* What makes the query refuse a source is a circle or a long sequence in the triggers
\* as they would be stored: the stored ones have no circle of their own.
LEMMA RefusedWithReason ==
  ASSUME GraphTypeOK, Acyclic(triggers), NEW id \in Automations,
         NEW sources \in SUBSET Automations, NEW source \in sources, ~Accepted(id, source),
         NEW graph, graph = [triggers EXCEPT ![id] = sources], Acyclic(graph)
  PROVE  \E c \in Chains(MaxStackDepth + 1) : IsChain(graph, c)
<1>1. PICK p \in AutomationPath(id, source) :
         TooDeep(p) \/ (Len(p) > 1 /\ ClosesCycle(p, Len(p), source))
  BY DEF Accepted
<1> DEFINE n == Len(p)
<1>2. /\ n \in 1..(MaxStackDepth + 1) /\ n \in Nat /\ p \in [1..n -> Automations]
      /\ MaxStackDepth \in Nat /\ MaxStackDepth >= 1
  BY PathLen, DepthAssumption DEF AutomationPath
<1>3. p[1] = id /\ \A k \in 1..(n - 1) : p[k] \in triggers[p[k + 1]]
  BY DEF AutomationPath, Chained
<1>len. n = Len(p)
  OBVIOUS
<1> HIDE DEF n
<1>4. \A i, j \in 1..n : i < j => p[i] # p[j]
  BY <1>2, <1>3, NoneComesTwice
<1>5. ASSUME NEW k \in 1..(n - 1) PROVE p[k] \in graph[p[k + 1]]
  <2>1. k + 1 \in 1..n /\ 1 \in 1..n /\ 1 < k + 1
    BY <1>2
  <2>2. p[k + 1] # id /\ p[k + 1] \in Automations
    BY <1>2, <1>3, <1>4, <2>1
  <2>3. graph[p[k + 1]] = triggers[p[k + 1]]
    BY <2>2 DEF GraphTypeOK
  <2> QED
    BY <1>3, <2>3
<1>6. graph[id] = sources
  BY DEF GraphTypeOK
<1>7. p[n] # source
  <2> SUFFICES ASSUME p[n] = source PROVE FALSE
    OBVIOUS
  <2> DEFINE S == {p[k] : k \in 1..n}
  <2>1. S \in SUBSET Automations /\ p[1] \in S
    BY <1>2
  <2>2. ASSUME NEW k \in 1..n PROVE \E y \in S : p[k] \in graph[y]
    <3>1. CASE k = n
      BY <1>3, <1>6, <2>1, <3>1
    <3>2. CASE k # n
      <4>1. k \in 1..(n - 1) /\ k + 1 \in 1..n
        BY <1>2, <3>2
      <4> QED
        BY <1>5, <4>1
    <3> QED
      BY <3>1, <3>2
  <2>3. \A x \in S : \E y \in S : x \in graph[y]
    BY <2>2
  <2> HIDE DEF S
  <2> QED
    BY <2>1, <2>3 DEF Acyclic, Circle
<1>8. TooDeep(p)
  <2> SUFFICES ASSUME n > 1, ClosesCycle(p, n, source) PROVE FALSE
    BY <1>1, <1>len
  <2>1. PICK i \in 1..(n - 1) : p[i] = p[n]
    BY <1>7 DEF ClosesCycle
  <2>2. i \in 1..n /\ n \in 1..n /\ i < n
    BY <1>2
  <2> QED
    BY <1>4, <2>1, <2>2
<1>9. n >= MaxStackDepth
  BY <1>8, <1>len DEF TooDeep
<1> DEFINE m == MaxStackDepth
           c == [i \in 1..(m + 1) |-> IF i = 1 THEN source ELSE p[i - 1]]
<1>10. c \in [1..(m + 1) -> Automations]
  <2> SUFFICES ASSUME NEW i \in 1..(m + 1), i # 1 PROVE p[i - 1] \in Automations
    OBVIOUS
  <2>1. i - 1 \in 1..n
    BY <1>2, <1>9
  <2> QED
    BY <1>2, <2>1
<1>11. c[1] = source /\ \A i \in 1..m : c[i + 1] = p[i]
  BY <1>2
<1>12. c \in Chains(MaxStackDepth + 1) /\ Len(c) = m + 1
  <2>1. m + 1 \in 1..(MaxStackDepth + 1)
    BY <1>2
  <2> QED
    BY <1>10, <2>1, PathOf DEF Chains
<1> HIDE DEF c, m
<1>13. ASSUME NEW k \in 1..m PROVE c[k] \in graph[c[k + 1]]
  <2>1. CASE k = 1
    BY <1>3, <1>6, <1>11, <2>1
  <2>2. CASE k # 1
    <3>1. k - 1 \in 1..m /\ k - 1 \in 1..(n - 1) /\ (k - 1) + 1 = k
      BY <1>2, <1>9, <2>2 DEF m
    <3>2. c[k] = p[k - 1] /\ c[k + 1] = p[k]
      BY <1>11, <3>1
    <3>3. p[k - 1] \in graph[p[(k - 1) + 1]]
      BY <1>5, <3>1
    <3> QED
      BY <3>1, <3>2, <3>3
  <2> QED
    BY <2>1, <2>2
<1>14. IsChain(graph, c)
  BY <1>2, <1>12, <1>13 DEF IsChain, m
<1> QED
  BY <1>12, <1>14

\* However many users save at once, an edit is refused only if saving it would leave a
\* circle or a sequence that is too long, or if the stored triggers hold a circle.
THEOREM RefusedForAReason == GraphSpec => NoFalseAlarm
<1> DEFINE Reason == \A e \in Editors, source \in Automations :
             RefuseSave(e, source) =>
                 LET graph == [triggers EXCEPT ![request[e].id] = request[e].sources] IN
                 \/ ~Acyclic(graph)
                 \/ \E p \in Chains(MaxStackDepth + 1) : IsChain(graph, p)
                 \/ ~Acyclic(triggers)
<1>1. GraphTypeOK /\ UncheckedAreSources => Reason
  <2> SUFFICES ASSUME GraphTypeOK, UncheckedAreSources,
                      NEW e \in Editors, NEW source \in Automations, RefuseSave(e, source),
                      Acyclic([triggers EXCEPT ![request[e].id] = request[e].sources]),
                      Acyclic(triggers)
               PROVE  \E p \in Chains(MaxStackDepth + 1) :
                         IsChain([triggers EXCEPT ![request[e].id] = request[e].sources], p)
    OBVIOUS
  <2>1. request[e] \in SaveRequest
    BY DEF GraphTypeOK, RefuseSave, Saving
  <2>2. request[e].id \in Automations /\ request[e].sources \in SUBSET Automations
    BY <2>1 DEF SaveRequest
  <2>3. source \in request[e].sources /\ ~Accepted(request[e].id, source)
    BY DEF RefuseSave, UncheckedAreSources
  <2> QED
    BY <2>2, <2>3, RefusedWithReason
<1>2. GraphInit => GraphTypeOK /\ UncheckedAreSources
  BY GraphTypeInit DEF GraphInit, UncheckedAreSources, Saving
<1>3. GraphTypeOK /\ UncheckedAreSources /\ [GraphNext]_graphVars
         => GraphTypeOK' /\ UncheckedAreSources'
  BY GraphTypeNext, UncheckedNext
<1>4. GraphTypeOK /\ UncheckedAreSources /\ [GraphNext]_graphVars => [Reason]_graphVars
  BY <1>1
<1> QED
  BY <1>2, <1>3, <1>4, PTL DEF GraphSpec, NoFalseAlarm

-----------------------------------------------------------------------------
(* The configuration and the runs *)

\* The sources of each automation, as AutomationGraph stores them.
Configured == [b \in Automations |-> OnSuccess[b] \union OnFailure[b]]

\* The last runs of a line, and who watches the last of them.
LEMMA LineIsChain ==
  ASSUME TypeOK, \A r \in RunIds : RunSound(r),
         NEW s \in Seq(RunIds), IsLine(s), Len(s) > MaxStackDepth, Stored(SourceOf(s)),
         NEW b \in Automations, runs[SourceOf(s)].automation \in Configured[b]
  PROVE  \E p \in Chains(MaxStackDepth + 2) : IsChain(Configured, p) /\ p[MaxStackDepth + 2] = b
<1> DEFINE M == MaxStackDepth
           first == Len(s) - M - 1
           p == [i \in 1..(M + 2) |-> IF i = M + 2 THEN b ELSE runs[s[first + i]].automation]
<1>1. /\ M \in Nat /\ Len(s) \in Nat /\ first \in Nat
      /\ \A i \in 1..Len(s) : s[i] \in RunIds
  BY DepthAssumption, LenProperties, ElementOfSeq
<1>2. s # <<>> /\ Linked(s) /\ Stored(s[1]) /\ SourceOf(s) = s[Len(s)]
  BY <1>1, EmptySeq, LastIsRun DEF IsLine
<1>3. ASSUME NEW i \in 1..(M + 1)
      PROVE  first + i \in 1..Len(s) /\ (i # M + 1 => first + i \in 1..(Len(s) - 1))
  BY <1>1
<1>4. \A i \in 1..Len(s) : Stored(s[i]) /\ runs[s[i]] \in Run
  <2>1. SUFFICES ASSUME NEW i \in 1..Len(s) PROVE Stored(s[i])
    BY <1>1 DEF Stored, TypeOK
  <2>2. CASE i = 1
    BY <1>2, <2>2
  <2>3. CASE i # 1
    <3>1. i - 1 \in 1..(Len(s) - 1) /\ (i - 1) + 1 = i
      BY <1>1, <2>3
    <3> QED
      BY <1>2, <3>1 DEF Linked
  <2> QED
    BY <2>2, <2>3
<1>5. p \in Chains(M + 2)
  <2>1. \A i \in 1..(M + 2) : i = M + 2 \/ i \in 1..(M + 1)
    BY <1>1
  <2> HIDE DEF first
  <2> QED
    BY <1>3, <1>4, <2>1 DEF Chains, Run
\* A run with a source belongs to a watcher of the source's automation.
<1>6. ASSUME NEW k \in 1..(Len(s) - 1)
      PROVE  runs[s[k]].automation \in Configured[runs[s[k + 1]].automation]
  <2>1. k \in 1..Len(s) /\ k + 1 \in 1..Len(s)
    BY <1>1
  <2>2. runs[s[k + 1]].source = s[k] /\ Stored(s[k + 1]) /\ s[k] \in RunIds /\ s[k + 1] \in RunIds
    BY <1>1, <1>2, <2>1 DEF Linked
  <2>3. s[k] # NoRun
    BY <2>2, ConstantsAssumption
  <2>4. Watches(runs[s[k + 1]].automation, runs[s[k]].automation, runs[s[k]].status)
    BY <2>2, <2>3 DEF RunSound
  <2>5. runs[s[k + 1]].automation \in Automations
    BY <1>4, <2>1 DEF Run
  <2> QED
    BY <2>4, <2>5 DEF Watches, Configured
<1>7. IsChain(Configured, p)
  <2>1. SUFFICES ASSUME NEW i \in 1..(Len(p) - 1) PROVE p[i] \in Configured[p[i + 1]]
    BY DEF IsChain
  <2>2. Len(p) = M + 2
    <3>1. M + 2 \in Nat
      BY <1>1
    <3> QED
      BY <3>1, <1>5, LenProperties, SeqDef DEF Chains
  <2>3. i \in 1..(M + 1) /\ i \in 1..(M + 2) /\ i + 1 \in 1..(M + 2) /\ i # M + 2
    BY <1>1, <2>2
  <2>4. p[i] = runs[s[first + i]].automation
    BY <2>3
  <2>5. CASE i = M + 1
    <3>1. first + i = Len(s) /\ i + 1 = M + 2
      BY <1>1, <2>5
    <3>2. p[i + 1] = b
      BY <2>3, <3>1
    <3> QED
      BY <1>2, <2>4, <3>1, <3>2
  <2>6. CASE i # M + 1
    <3>1. first + i \in 1..(Len(s) - 1) /\ i + 1 # M + 2 /\ first + (i + 1) = (first + i) + 1
      BY <1>1, <1>3, <2>3, <2>6
    <3>2. p[i + 1] = runs[s[(first + i) + 1]].automation
      BY <2>3, <3>1
    <3> HIDE DEF first, p
    <3> QED
      BY <1>6, <2>4, <3>1, <3>2
  <2> QED
    BY <2>5, <2>6
<1>8. p[M + 2] = b
  BY <1>1
<1> HIDE DEF p
<1> QED
  BY <1>5, <1>7, <1>8

LEMMA RefusedHasChain ==
  ASSUME IInv, NEW w \in Slots, Refuse(w)
  PROVE  \E p \in Chains(MaxStackDepth + 2) : IsChain(Configured, p)
<1> DEFINE j == worker[w].job
           s == j.stack
<1>1. /\ worker[w] # Idle /\ TypeOK /\ SlotSound(w) /\ \A r \in RunIds : RunSound(r)
      /\ StackTooDeep(s)
  BY DEF IInv, Refuse, At
<1>2. j \in RunAutomation
  BY <1>1 DEF TypeOK, Busy
<1>3. s \in Seq(RunIds) /\ j.automation \in Automations /\ Len(s) > MaxStackDepth
  BY <1>1, <1>2 DEF RunAutomation, StackTooDeep
<1>4. s # <<>>
  BY <1>3, EmptySeq, DepthAssumption
<1>5. /\ IsLine(s) /\ Stored(SourceOf(s))
      /\ Watches(j.automation, runs[SourceOf(s)].automation, runs[SourceOf(s)].status)
  BY <1>1, <1>4 DEF SlotSound, JobSound
<1>6. runs[SourceOf(s)].automation \in Configured[j.automation]
  BY <1>3, <1>5 DEF Watches, Configured
<1> QED
  BY <1>1, <1>3, <1>5, <1>6, LineIsChain

\* MAX_STACK_DEPTH at run time (runAutomation): an event is refused for the depth
\* of its stack only where the triggers hold a circle, or a sequence of
\* MaxStackDepth + 2 different automations: wouldCreateCycle refuses one of more
\* than MaxStackDepth (EditsFit), so the two limits never contradict each other.
THEOREM RefusedOnlyInLongChains ==
  Spec => [][\A w \in Slots :
                Refuse(w) =>
                    \/ ~Acyclic(Configured)
                    \/ \E p \in Chains(MaxStackDepth + 2) :
                          /\ IsChain(Configured, p)
                          /\ \A i, j \in 1..(MaxStackDepth + 2) : i # j => p[i] # p[j]]_vars
<1>1. ASSUME Acyclic(Configured), NEW p \in Chains(MaxStackDepth + 2), IsChain(Configured, p)
      PROVE  \A i, j \in 1..(MaxStackDepth + 2) : i # j => p[i] # p[j]
  <2>1. PICK n \in Nat : n = MaxStackDepth + 2
    BY DepthAssumption
  <2>2. p \in [1..n -> Automations]
    BY <2>1 DEF Chains
  <2>3. Len(p) = n
    BY <2>2, SeqDef, LenProperties
  <2>4. \A k \in 1..(n - 1) : p[k] \in Configured[p[k + 1]]
    BY <1>1, <2>3 DEF IsChain
  <2>5. ASSUME NEW i \in 1..n, NEW j \in 1..n, i # j PROVE p[i] # p[j]
    <3>1. i < j \/ j < i
      BY <2>5
    <3> QED
      BY <1>1, <2>2, <2>4, <3>1, NoneComesTwice
  <2> QED
    BY <2>1, <2>5
<1>2. IInv /\ [Next]_vars =>
          [\A w \in Slots :
              Refuse(w) =>
                  \/ ~Acyclic(Configured)
                  \/ \E p \in Chains(MaxStackDepth + 2) :
                        /\ IsChain(Configured, p)
                        /\ \A i, j \in 1..(MaxStackDepth + 2) : i # j => p[i] # p[j]]_vars
  BY <1>1, RefusedHasChain
<1> QED
  BY <1>2, Invariance, PTL DEF Spec
=============================================================================
