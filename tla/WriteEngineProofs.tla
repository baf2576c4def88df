------------------------- MODULE WriteEngineProofs -------------------------
EXTENDS WriteEngine, TLAPS, SequenceTheorems, FiniteSetTheorems, WellFoundedInduction

(***************************************************************************)
(* A non-empty set of positions of a sequence has a last element, so the   *)
(* update that LastValue picks exists.                                     *)
(***************************************************************************)
LEMMA LastExists ==
    ASSUME NEW n \in Nat, NEW S \in SUBSET (1..n), S # {}
    PROVE  \E i \in S : \A j \in S : j <= i
<1> DEFINE T == {n - i : i \in S}
<1>1. T \subseteq Nat /\ T # {}
  <2>1. \A i \in S : n - i \in Nat
    OBVIOUS
  <2>2. PICK i \in S : TRUE
    OBVIOUS
  <2> QED BY <2>1, <2>2
<1>2. PICK x \in T : \A y \in T : ~ (<<y, x>> \in OpToRel(<, Nat))
  <2> HIDE DEF T
  <2> QED BY ONLY <1>1, NatLessThanWellFounded, WFMin, Zenon
<1>3. \A y \in T : ~ (y < x)
  BY <1>1, <1>2 DEF OpToRel
<1>4. PICK i \in S : x = n - i
  OBVIOUS
<1>5. ASSUME NEW j \in S PROVE j <= i
  <2>1. n - j \in T
    OBVIOUS
  <2>2. ~ (n - j < n - i)
    BY <2>1, <1>3, <1>4
  <2> QED BY <2>2
<1> QED BY <1>5

LEMMA EmptyRowType ==
    ASSUME NEW life \in {"unborn", "live", "dead"} PROVE EmptyRow(life) \in Row
BY WriteConstants DEF EmptyRow, Row, Value

\* What one transaction leaves behind is a database again.
LEMMA MutateType ==
    ASSUME NEW d \in Store, NEW ops \in Seq(Op), NEW fresh
    PROVE  Mutate(d, ops, fresh) \in Store
<1>1. ASSUME NEW f \in Fields
      PROVE  f \in [DOMAIN f -> Value] /\ DOMAIN f \subseteq Cols
  <2>1. PICK S \in SUBSET Cols : f \in [S -> Value]
    BY DEF Fields
  <2> QED BY <2>1
<1>2. ASSUME NEW r \in Rows, NEW c \in Cols
      PROVE  LastValue(d, ops, r, c) \in Value
  <2> DEFINE W == {i \in Touching(ops, "update", r) : c \in DOMAIN ops[i].fields}
             last == CHOOSE i \in W : \A j \in W : j <= i
  <2>1. CASE W = {}
    BY <2>1 DEF LastValue, Store, Row
  <2>2. CASE W # {}
    <3>1. W \in SUBSET (1..Len(ops)) /\ Len(ops) \in Nat
      BY LenProperties DEF Touching
    <3>2. \E i \in W : \A j \in W : j <= i
      BY ONLY <3>1, <2>2, LastExists
    <3>3. last \in W
      BY <3>2
    <3>4. ops[last] \in Op /\ c \in DOMAIN ops[last].fields
      BY <3>3, <3>1, ElementOfSeq
    <3>5. ops[last].fields \in Fields
      BY <3>4 DEF Op
    <3>6. ops[last].fields[c] \in Value
      BY <3>4, <3>5, <1>1
    <3> QED BY <2>2, <3>6 DEF LastValue
  <2> QED BY <2>1, <2>2
<1>3. ASSUME NEW i \in Creates(ops)
      PROVE  Merge(EmptyRow("live").col, ops[i].fields) \in [Cols -> Value]
  <2>1. ops[i] \in Op
    BY LenProperties, ElementOfSeq DEF Creates
  <2>2. ops[i].fields \in Fields
    BY <2>1 DEF Op
  <2>3. EmptyRow("live").col \in [Cols -> Value]
    BY EmptyRowType DEF Row
  <2> QED BY <2>2, <2>3, <1>1 DEF Merge
<1>4. EmptyRow("dead") \in Row
  BY EmptyRowType
<1>5. ASSUME NEW r \in Rows PROVE Mutate(d, ops, fresh)[r] \in Row
  <2> DEFINE made == \E i \in Creates(ops) : fresh[i] = r
  <2>1. CASE made
    BY <2>1, <1>3 DEF Mutate, Row
  <2>2. CASE ~ made
    BY <2>2, <1>2, <1>4 DEF Mutate, Store, Row
  <2> QED BY <2>1, <2>2
<1> QED BY <1>5 DEF Mutate, Store

\* What the server keeps is live, and held by another row it keeps.
LEMMA KeptHolds ==
    ASSUME NEW d
    PROVE  /\ Kept(d) \subseteq LiveRows(d)
           /\ \A r \in Kept(d) \ Roots : \E q \in Kept(d) \ {r} : r \in StrongRefs(d, q)
BY DEF Kept

\* It keeps every set of live rows that hold each other.
LEMMA KeptIsLargest ==
    ASSUME NEW d, NEW S \in SUBSET LiveRows(d),
           \A r \in S \ Roots : \E q \in S \ {r} : r \in StrongRefs(d, q)
    PROVE  S \subseteq Kept(d)
BY DEF Kept

\* A root row is kept, and so is what a kept row refers to.
LEMMA KeptGrows ==
    ASSUME NEW d, NEW r \in LiveRows(d),
           r \in Roots \/ \E q \in Kept(d) : r \in StrongRefs(d, q)
    PROVE  r \in Kept(d)
<1> SUFFICES ASSUME r \notin Kept(d) PROVE FALSE
  OBVIOUS
<1> DEFINE S == Kept(d) \cup {r}
<1>1. S \in SUBSET LiveRows(d)
  BY KeptHolds
<1>2. \A x \in S \ Roots : \E q \in S \ {x} : x \in StrongRefs(d, q)
  <2> SUFFICES ASSUME NEW x \in S \ Roots PROVE \E q \in S \ {x} : x \in StrongRefs(d, q)
    OBVIOUS
  <2>1. CASE x \in Kept(d)
    <3>1. \E q \in Kept(d) \ {x} : x \in StrongRefs(d, q)
      BY <2>1, KeptHolds
    <3> QED BY <3>1
  <2>2. CASE x = r
    BY <2>2
  <2> QED BY <2>1, <2>2
<1> HIDE DEF S
<1>3. S \subseteq Kept(d)
  BY <1>1, <1>2, KeptIsLargest
<1> QED BY <1>3 DEF S

\* A kept row keeps its strong references, any other row is not live any more.
LEMMA CollectRows ==
    ASSUME NEW d \in Store
    PROVE  /\ Collect(d) \in Store
           /\ LiveRows(Collect(d)) = Kept(d)
           /\ \A q \in Kept(d) : StrongRefs(Collect(d), q) = StrongRefs(d, q)
<1>1. Kept(d) \subseteq Rows /\ \A r \in Kept(d) : Live(d, r)
  BY KeptHolds DEF LiveRows
<1>2. EmptyRow("dead") \in Row /\ EmptyRow("dead").life = "dead"
  BY EmptyRowType DEF EmptyRow
<1>3. ASSUME NEW r \in Rows PROVE Collect(d)[r] \in Row
  <2>1. d[r] \in Row
    BY DEF Store
  <2>2. \A c \in Cols : Purged(Kept(d), c, d[r].col[c]) \in Value
    BY <1>1, <2>1 DEF Purged, Row, Value
  <2> QED BY <1>2, <2>1, <2>2 DEF Collect, Row
<1>4. \A r \in Rows : Live(Collect(d), r) <=> r \in Kept(d)
  <2> SUFFICES ASSUME NEW r \in Rows PROVE Live(Collect(d), r) <=> r \in Kept(d)
    OBVIOUS
  <2>1. d[r] \in Row
    BY DEF Store
  <2> QED BY <1>1, <1>2, <2>1 DEF Collect, Live, Row
<1>5. ASSUME NEW q \in Kept(d), NEW c \in Strong PROVE Collect(d)[q].col[c] = d[q].col[c]
  <2>1. d[q] \in Row /\ c \in Cols /\ c \notin Weak /\ q \in Rows
    BY <1>1, WriteConstants DEF Store
  <2> QED BY <1>5, <2>1 DEF Collect, Purged, Row
<1>6. Collect(d) \in Store
  BY <1>3 DEF Collect, Store
<1> QED BY <1>1, <1>4, <1>5, <1>6 DEF StrongRefs, LiveRows

\* What the server leaves is settled: nothing more is to be collected.
LEMMA CollectSettles ==
    ASSUME NEW d \in Store PROVE Settled(Collect(d))
BY KeptHolds, CollectRows DEF Settled

---------------------------------------------------------------------------
(* Types *)

LEMMA IntervalGrows == \A m, n \in Nat : m <= n => 1..m \subseteq 1..n
OBVIOUS

LEMMA NoJobType == NoJob \in Job
BY DEF NoJob, Job

\* A well-typed jump leaves the handlers well typed.
LEMMA GotoType ==
    ASSUME TypeOK, NEW h \in Handlers, NEW stage \in Stages, NEW j \in Job, Goto(h, stage, j)
    PROVE  pc' \in [Handlers -> Stages] /\ job' \in [Handlers -> Job]
BY DEF TypeOK, Goto

LEMMA ReturnType ==
    ASSUME TypeOK, NEW h \in Handlers, Return(h)
    PROVE  pc' \in [Handlers -> Stages] /\ job' \in [Handlers -> Job]
BY GotoType, NoJobType DEF Return, Stages

LEMMA SnapshotType ==
    ASSUME TypeOK, TakeSnapshot PROVE snaps' \in Seq(Store)
BY DEF TypeOK, TakeSnapshot

LEMMA AuditType ==
    ASSUME TypeOK, NEW p \in Plans, NEW result \in {"success", "error"}, NEW snap \in Nat,
           RecordAudit(p, result, snap)
    PROVE  audit' \in Seq(AuditEntry) /\ blurred' \subseteq Plans
<1>1. [plan |-> p, result |-> result, snap |-> snap] \in AuditEntry
  BY DEF AuditEntry
<1>2. audit' \in Seq(AuditEntry)
  <2>1. Append(audit, [plan |-> p, result |-> result, snap |-> snap]) \in Seq(AuditEntry)
    BY <1>1, AppendProperties DEF TypeOK
  <2> QED BY <2>1 DEF TypeOK, RecordAudit
<1>3. blurred' \subseteq Plans
  BY DEF TypeOK, RecordAudit
<1> QED BY <1>2, <1>3

LEMMA AuditedPlans ==
    ASSUME TypeOK PROVE \A i \in DOMAIN audit : audit[i].plan \in Plans
<1> SUFFICES ASSUME NEW i \in DOMAIN audit PROVE audit[i].plan \in Plans
  OBVIOUS
<1>1. i \in 1..Len(audit) /\ audit \in Seq(AuditEntry)
  BY LenProperties DEF TypeOK
<1>2. audit[i] \in AuditEntry
  BY <1>1, ElementOfSeq
<1> QED BY <1>2 DEF AuditEntry

\* Rollback proposes well-typed updates.
LEMMA RestoreType ==
    ASSUME TypeOK, NEW s \in DOMAIN snaps, NEW r \in Rows
    PROVE  RestoreOp(s, r) \in Op
<1> DEFINE C == {c \in Cols : snaps[s][r].col[c] # cache[r].col[c]}
           f == [c \in C |-> snaps[s][r].col[c]]
<1>1. snaps[s] \in Store
  BY LenProperties, ElementOfSeq DEF TypeOK
<1>2. f \in [C -> Value] /\ C \in SUBSET Cols
  BY <1>1 DEF Store, Row
<1>3. f \in Fields
  BY <1>2 DEF Fields
<1> QED BY <1>3 DEF RestoreOp, Op

LEMMA RequestType ==
    ASSUME TypeOK, NEW h \in Handlers, Request(h)
    PROVE  TypeOK'
<1>1. ASSUME NEW ops \in Requests, Preview(h, ops) PROVE TypeOK'
  <2>1. [NoJob EXCEPT !.ops = ops] \in Job
    BY WriteConstants, NoJobType DEF Job
  <2>2. pc' \in [Handlers -> Stages] /\ job' \in [Handlers -> Job]
    BY <1>1, <2>1, GotoType DEF Preview, Stages
  <2> QED BY <1>1, <2>2 DEF TypeOK, Preview, world, ghosts
<1>2. ASSUME NEW s \in DOMAIN snaps, Rollback(h, s) PROVE TypeOK'
  <2>1. PICK order \in [1..Cardinality(Changed(s)) -> Changed(s)] :
           Goto(h, "preview",
                [NoJob EXCEPT !.warnings = Vanished(s),
                              !.ops = [i \in DOMAIN order |-> RestoreOp(s, order[i])]])
    BY <1>2 DEF Rollback
  <2> DEFINE n == Cardinality(Changed(s))
             o == [i \in 1..n |-> RestoreOp(s, order[i])]
  <2>2. n \in Nat
    <3>1. Changed(s) \subseteq Rows /\ IsFiniteSet(Rows)
      BY WriteConstants DEF Changed
    <3> QED BY <3>1, FS_Subset, FS_CardinalityType
  <2>3. \A i \in 1..n : RestoreOp(s, order[i]) \in Op
    BY RestoreType DEF Changed
  <2>4. o \in Seq(Op)
    <3> HIDE DEF n
    <3> QED BY <2>2, <2>3
  <2>5. [NoJob EXCEPT !.warnings = Vanished(s), !.ops = o] \in Job
    BY <2>4, NoJobType DEF Job, Vanished
  <2>6. DOMAIN order = 1..n
    OBVIOUS
  <2>7. pc' \in [Handlers -> Stages] /\ job' \in [Handlers -> Job]
    BY <2>1, <2>5, <2>6, GotoType DEF Stages
  <2> QED BY <1>2, <2>7 DEF TypeOK, Rollback, world, ghosts
<1>3. ASSUME NEW p \in Plans, CancelGet(h, p) PROVE TypeOK'
  <2>1. [NoJob EXCEPT !.plan = p] \in Job
    BY NoJobType DEF Job
  <2>2. pc' \in [Handlers -> Stages] /\ job' \in [Handlers -> Job]
    BY <1>3, <2>1, GotoType DEF CancelGet, Stages
  <2> QED BY <1>3, <2>2 DEF TypeOK, CancelGet, world, ghosts
<1>4. ASSUME NEW p \in Plans, NEW tok \in Plans \cup {NoPlan}, ApplyGet(h, p, tok)
      PROVE  TypeOK'
  <2>1. [NoJob EXCEPT !.plan = p, !.tok = tok] \in Job
    BY NoJobType DEF Job
  <2>2. pc' \in [Handlers -> Stages] /\ job' \in [Handlers -> Job]
    BY <1>4, <2>1, GotoType DEF ApplyGet, Stages, Locked
  <2> QED BY <1>4, <2>2 DEF TypeOK, ApplyGet, world, ghosts
<1> QED BY <1>1, <1>2, <1>3, <1>4 DEF Request

LEMMA PreviewStepType ==
    ASSUME TypeOK, NEW h \in Handlers,
           \/ RollbackNoChanges(h) \/ PreviewDiff(h) \/ PreviewDrop(h)
           \/ \E p \in Plans : PreviewStore(h, p)
    PROVE  TypeOK'
<1>1. CASE RollbackNoChanges(h)
  BY <1>1, ReturnType DEF TypeOK, RollbackNoChanges, world, ghosts
<1>2. CASE PreviewDrop(h)
  BY <1>2, ReturnType DEF TypeOK, PreviewDrop, world, ghosts
<1>3. CASE PreviewDiff(h)
  <2> DEFINE ops == job[h].ops
             base(i) == [before |-> IF ops[i].action = "create" THEN EmptyRow("unborn")
                                    ELSE cache[ops[i].row]]
             diffs == [i \in DOMAIN ops |-> base(i)]
             found == \A i \in DOMAIN ops : ops[i].action # "create" => Live(cache, ops[i].row)
  <2>1. CASE Return(h)
    BY <1>3, <2>1, ReturnType DEF TypeOK, PreviewDiff, world, ghosts
  <2>2. CASE found /\ Goto(h, "diffed", [job[h] EXCEPT !.diffs = diffs])
    <3>1. job[h] \in Job /\ ops \in Seq(Op)
      BY DEF TypeOK, Job
    <3>2. \A i \in DOMAIN ops : base(i) \in Diff
      <4> SUFFICES ASSUME NEW i \in DOMAIN ops PROVE base(i) \in Diff
        OBVIOUS
      <4>1. ops[i] \in Op
        BY <3>1, LenProperties, ElementOfSeq
      <4>2. ops[i].action = "create" \/ cache[ops[i].row] \in Row
        BY <4>1 DEF Op, TypeOK, Store
      <4> QED BY <4>2, EmptyRowType DEF Diff
    <3>3. diffs \in Seq(Diff)
      <4> HIDE DEF base
      <4> QED BY <3>1, <3>2, LenProperties
    <3>4. [job[h] EXCEPT !.diffs = diffs] \in Job
      BY <3>1, <3>3 DEF Job
    <3>5. pc' \in [Handlers -> Stages] /\ job' \in [Handlers -> Job]
      BY <2>2, <3>4, GotoType DEF Stages
    <3> QED BY <1>3, <3>5 DEF TypeOK, PreviewDiff, world, ghosts
  <2> QED BY <1>3, <2>1, <2>2 DEF PreviewDiff
<1>4. ASSUME NEW p \in Plans, PreviewStore(h, p) PROVE TypeOK'
  <2>1. job[h] \in Job /\ Len(snaps) \in Nat
    BY DEF TypeOK
  <2>2. [ops |-> job[h].ops, diffs |-> job[h].diffs, snap |-> Len(snaps) + 1,
         expires |-> now + TTL, warnings |-> job[h].warnings] \in PlanRec
    <3>1. Len(snaps) + 1 \in Nat /\ now + TTL \in Nat
      BY <2>1, WriteConstants DEF TypeOK
    <3> QED BY <2>1, <3>1 DEF Job, PlanRec
  <2>3. plan' \in [Plans -> PlanRec]
    BY <1>4, <2>2 DEF PreviewStore, TypeOK
  <2> QED BY <1>4, <2>3, ReturnType, SnapshotType DEF TypeOK, PreviewStore, world, ghosts
<1> QED BY <1>1, <1>2, <1>3, <1>4

LEMMA ApplyStepType ==
    ASSUME TypeOK, HeldInv, NEW h \in Handlers,
           \/ CancelDelete(h) \/ ApplyDelete(h) \/ ApplyReady(h) \/ ApplyValidate(h)
           \/ ApplySnapshot(h) \/ ApplySnapshotFails(h)
           \/ ApplyCommit(h) \/ ApplyReject(h) \/ ApplyAudit(h)
    PROVE  TypeOK'
<1> DEFINE p == job[h].plan
<1>0. job[h] \in Job /\ Locked \subseteq Stages /\ Len(snaps) \in Nat
  BY DEF TypeOK, Stages
<1>1. CASE CancelDelete(h)
  <2>1. p \in Plans
    BY <1>1 DEF HeldInv, CancelDelete
  <2> QED BY <1>1, <2>1, ReturnType DEF TypeOK, CancelDelete, world
<1>2. CASE ApplyDelete(h)
  <2>1. pc' \in [Handlers -> Stages] /\ job' \in [Handlers -> Job]
    BY <1>0, <1>2, ReturnType, GotoType DEF ApplyDelete, Locked
  <2> QED BY <1>2, <2>1 DEF TypeOK, ApplyDelete, world, ghosts
<1>3. CASE ApplyReady(h)
  <2>1. [job[h] EXCEPT !.auth = NbReady] \in Job
    BY <1>0 DEF Job, NbReady
  <2>2. pc' \in [Handlers -> Stages] /\ job' \in [Handlers -> Job]
    BY <1>0, <1>3, <2>1, GotoType DEF ApplyReady, Locked
  <2> QED BY <1>3, <2>2 DEF TypeOK, ApplyReady, world, ghosts
<1>4. CASE ApplyValidate(h)
  <2>1. p \in Plans
    BY <1>4 DEF HeldInv, ApplyValidate, Locked
  <2>2. pc' \in [Handlers -> Stages] /\ job' \in [Handlers -> Job]
    BY <1>0, <1>4, ReturnType, GotoType DEF ApplyValidate, Locked
  <2>3. audit' \in Seq(AuditEntry) /\ blurred' \subseteq Plans
    BY <1>4, <2>1, AuditType DEF ApplyValidate, TypeOK
  <2> QED BY <1>4, <2>2, <2>3 DEF TypeOK, ApplyValidate, world
<1>5. CASE ApplySnapshot(h)
  <2>1. [job[h] EXCEPT !.snap = Len(snaps) + 1] \in Job
    <3>1. Len(snaps) + 1 \in Nat
      BY <1>0
    <3> HIDE DEF p
    <3> QED BY <1>0, <3>1 DEF Job
  <2>2. pc' \in [Handlers -> Stages] /\ job' \in [Handlers -> Job]
    BY <1>0, <1>5, <2>1, GotoType DEF ApplySnapshot, Locked
  <2> QED BY <1>5, <2>2, SnapshotType DEF TypeOK, ApplySnapshot, world, ghosts
<1>6. CASE ApplySnapshotFails(h)
  BY <1>6, ReturnType DEF TypeOK, ApplySnapshotFails, world, ghosts
<1>7. CASE ApplyCommit(h)
  <2>1. p \in Plans /\ plan[p].ops \in Seq(Op)
    BY <1>7 DEF HeldInv, ApplyCommit, Locked, TypeOK, PlanRec
  <2>2. db' \in Store
    BY <1>7, <2>1, MutateType, CollectRows DEF ApplyCommit, ServerTakes, TypeOK
  <2>3. \A r \in {"ok", "error"} : [job[h] EXCEPT !.reply = r] \in Job
    BY <1>0 DEF Job
  <2>4. pc' \in [Handlers -> Stages] /\ job' \in [Handlers -> Job]
    BY <1>0, <1>7, <2>3, GotoType DEF ApplyCommit, Locked
  <2>5. commits' \in [Plans -> Nat] /\ blurred' \subseteq Plans
    BY <1>7, <2>1 DEF ApplyCommit, TypeOK
  <2> QED BY <1>7, <2>2, <2>4, <2>5 DEF TypeOK, ApplyCommit
<1>8. CASE ApplyReject(h)
  <2>1. [job[h] EXCEPT !.reply = "error"] \in Job
    BY <1>0 DEF Job
  <2>2. pc' \in [Handlers -> Stages] /\ job' \in [Handlers -> Job]
    BY <1>0, <1>8, <2>1, GotoType DEF ApplyReject, Locked
  <2> QED BY <1>8, <2>2 DEF TypeOK, ApplyReject, world, ghosts
<1>9. CASE ApplyAudit(h)
  <2>1. p \in Plans
    BY <1>9 DEF HeldInv, ApplyAudit, Locked
  <2>2. job[h].snap \in Nat
    BY <1>0 DEF Job
  <2>3. audit' \in Seq(AuditEntry) /\ blurred' \subseteq Plans
    BY <1>9, <2>1, <2>2, AuditType DEF ApplyAudit
  <2> QED BY <1>9, <2>3, ReturnType DEF TypeOK, ApplyAudit, world
<1> QED BY <1>1, <1>2, <1>3, <1>4, <1>5, <1>6, <1>7, <1>8, <1>9

LEMMA CacheStepType ==
    ASSUME TypeOK, Cleanup \/ \E p \in Plans : EvictOnGet(p)
    PROVE  TypeOK'
BY DEF TypeOK, Cleanup, EvictOnGet, world, ghosts

\* Another client writes a database too.
LEMMA WrittenType ==
    ASSUME TypeOK, NEW r \in Rows, OtherWriter(r)
    PROVE  \E x \in Store : db' = Collect(x)
<1>1. ASSUME NEW d, d \in Store, ServerTakes(d) PROVE \E x \in Store : db' = Collect(x)
  BY <1>1 DEF ServerTakes
<1>2. ASSUME NEW c \in Cols, NEW v \in Schema[r][c]
      PROVE  [db EXCEPT ![r].col[c] = v] \in Store
  <2>1. v \in Value
    BY WriteConstants
  <2> QED BY <2>1 DEF TypeOK, Store, Row
<1>3. \A life \in {"dead", "live"} : [db EXCEPT ![r] = EmptyRow(life)] \in Store
  BY EmptyRowType DEF TypeOK, Store
<1>4. ASSUME NEW q \in LiveRows(db), NEW c \in Strong,
             db[q].col[c] \cup {r} \in Schema[q][c], ~ Live(db, r)
      PROVE  [db EXCEPT ![r] = EmptyRow("live"), ![q].col[c] = @ \cup {r}] \in Store
  <2> DEFINE d == [db EXCEPT ![r] = EmptyRow("live")]
  <2>1. q \in Rows /\ q # r /\ c \in Cols
    BY <1>4, WriteConstants DEF LiveRows
  <2>2. db[q].col[c] \cup {r} \in Value
    BY <1>4, <2>1, WriteConstants
  <2>3. d \in Store /\ d[q] = db[q]
    BY <1>3, <2>1 DEF TypeOK, Store
  <2>4. [d EXCEPT ![q].col[c] = db[q].col[c] \cup {r}] \in Store
    <3> HIDE DEF d
    <3> QED BY <2>1, <2>2, <2>3 DEF Store, Row
  <2>5. [db EXCEPT ![r] = EmptyRow("live"), ![q].col[c] = @ \cup {r}]
          = [d EXCEPT ![q].col[c] = db[q].col[c] \cup {r}]
    BY <2>1 DEF TypeOK, Store
  <2> QED BY <2>4, <2>5
<1>5. db[r].life = "unborn" => ~ Live(db, r)
  BY DEF Live
<1> QED BY <1>1, <1>2, <1>3, <1>4, <1>5 DEF OtherWriter

LEMMA EnvironmentType ==
    ASSUME TypeOK, HeldInv, Environment
    PROVE  TypeOK'
<1>1. ASSUME NEW r \in Rows, OtherWriter(r) PROVE TypeOK'
  <2>1. db' \in Store
    BY <1>1, WrittenType, CollectRows
  <2> QED BY <1>1, <2>1 DEF TypeOK, OtherWriter, ghosts
<1>2. ASSUME NEW r \in Rows, MonitorUpdate(r) PROVE TypeOK'
  BY <1>2 DEF TypeOK, MonitorUpdate, Store, ghosts
<1>3. CASE LinkFault
  <2>1. [r \in Rows |-> EmptyRow("unborn")] \in Store
    BY EmptyRowType DEF Store
  <2> QED BY <1>3, <2>1 DEF TypeOK, LinkFault, ghosts
<1>4. CASE LinkUp
  BY <1>4 DEF TypeOK, LinkUp, ghosts
<1>5. CASE Tick
  BY <1>5 DEF TypeOK, Tick, ghosts
<1>6. CASE Crash
  <2>1. \A h \in Handlers : pc[h] = "replied" => job[h].plan \in Plans
    BY DEF HeldInv, Locked
  <2>2. blurred' \subseteq Plans
    BY <1>6, <2>1 DEF Crash, TypeOK
  <2>3. pc' \in [Handlers -> Stages] /\ job' \in [Handlers -> Job]
    BY <1>6, NoJobType DEF Crash, Stages
  <2> QED BY <1>6, <2>2, <2>3 DEF TypeOK, Crash
<1> QED BY <1>1, <1>2, <1>3, <1>4, <1>5, <1>6 DEF Environment

LEMMA TypeStep ==
    ASSUME TypeOK, HeldInv, [Next]_vars
    PROVE  TypeOK'
<1>1. ASSUME NEW h \in Handlers, HandlerStep(h) PROVE TypeOK'
  BY <1>1, PreviewStepType, ApplyStepType DEF HandlerStep
<1>2. CASE UNCHANGED vars
  BY <1>2 DEF TypeOK, vars
<1> QED BY <1>1, <1>2, RequestType, CacheStepType, EnvironmentType DEF Next

---------------------------------------------------------------------------
(* The inductive invariant *)

(* Steps that keep plans, mutex, snapshots, audit table and outcomes, take *)
(* nothing but plans out of the cache, and move handlers outside the       *)
(* locked stages only.                                                     *)
Quiet ==
    /\ UNCHANGED <<plan, mu, snaps, audit, commits, blurred>>
    /\ cached' \subseteq cached
    /\ \A h \in Handlers :
          \/ pc'[h] = pc[h] /\ job'[h] = job[h]
          \/ pc[h] \notin Locked /\ pc'[h] \notin Locked \cup {"cancel"}
          \/ pc[h] \notin Locked /\ pc'[h] = "cancel" /\ job'[h].plan \in cached

LEMMA QuietKeepsInv ==
    ASSUME IInv, TypeOK', Quiet
    PROVE  IInv'
<1> USE DEF Quiet
<1>0. cached \subseteq Plans /\ pc' \in [Handlers -> Stages]
  BY DEF IInv, TypeOK
<1>1. LockInv'
  BY DEF IInv, LockInv, Locked
<1>2. PlanInv'
  BY DEF IInv, PlanInv
<1>3. HeldInv'
  BY <1>0 DEF IInv, HeldInv, PlanInv, Locked
<1>4. AuditInv'
  BY DEF IInv, AuditInv, Locked
<1>5. AuditTruth'
  BY DEF IInv, AuditTruth
<1>6. CommitRecorded'
  BY DEF IInv, CommitRecorded, Locked
<1>7. RollbackBase'
  BY DEF IInv, RollbackBase
<1> QED BY <1>1, <1>2, <1>3, <1>4, <1>5, <1>6, <1>7 DEF IInv

LEMMA QuietSteps ==
    ASSUME IInv, NEW h \in Handlers,
           \/ RollbackNoChanges(h) \/ PreviewDiff(h) \/ PreviewDrop(h) \/ CancelDelete(h)
           \/ \E ops \in Requests : Preview(h, ops)
           \/ \E s \in DOMAIN snaps : Rollback(h, s)
           \/ \E p \in Plans : CancelGet(h, p)
    PROVE  Quiet
<1> USE DEF IInv, TypeOK, Goto, Return, Locked, ghosts
<1>1. CASE RollbackNoChanges(h)
  BY <1>1 DEF RollbackNoChanges, Quiet
<1>2. CASE PreviewDiff(h)
  BY <1>2 DEF PreviewDiff, Quiet
<1>3. CASE PreviewDrop(h)
  BY <1>3 DEF PreviewDrop, Quiet
<1>4. CASE CancelDelete(h)
  BY <1>4 DEF CancelDelete, Quiet
<1>5. ASSUME NEW ops \in Requests, Preview(h, ops) PROVE Quiet
  BY <1>5 DEF Preview, Quiet
<1>6. ASSUME NEW s \in DOMAIN snaps, Rollback(h, s) PROVE Quiet
  BY <1>6 DEF Rollback, Quiet
<1>7. ASSUME NEW p \in Plans, CancelGet(h, p) PROVE Quiet
  <2>1. job'[h].plan = p
    BY <1>7 DEF CancelGet, NoJob
  <2> QED BY <1>7, <2>1 DEF CancelGet, Quiet, Gettable
<1> QED BY <1>1, <1>2, <1>3, <1>4, <1>5, <1>6, <1>7

LEMMA QuietWorld ==
    ASSUME IInv,
           \/ Cleanup \/ (\E p \in Plans : EvictOnGet(p))
           \/ (\E r \in Rows : OtherWriter(r) \/ MonitorUpdate(r))
           \/ LinkFault \/ LinkUp \/ Tick \/ UNCHANGED vars
    PROVE  Quiet
BY DEF Cleanup, EvictOnGet, OtherWriter, MonitorUpdate, LinkFault, LinkUp, Tick, vars,
       ghosts, Quiet

(* A handler in a locked stage is the only one there. *)
LEMMA OnlyHolder ==
    ASSUME IInv, NEW h \in Handlers, pc[h] \in Locked
    PROVE  mu = h /\ \A g \in Handlers \ {h} : pc[g] \notin Locked
BY DEF IInv, LockInv

\* Apply locks the engine: nobody was in a locked stage.
LEMMA ApplyGetInv ==
    ASSUME IInv, TypeOK', NEW h \in Handlers, NEW p \in Plans, NEW tok \in Plans \cup {NoPlan},
           ApplyGet(h, p, tok)
    PROVE  IInv'
<1> USE DEF ApplyGet, Goto, ghosts
<1>0. /\ pc' = [pc EXCEPT ![h] = "got"] /\ pc \in [Handlers -> Stages]
      /\ job'[h].plan = p /\ \A g \in Handlers \ {h} : job'[g] = job[g]
      /\ UNCHANGED <<cached, plan, snaps, audit, commits, blurred>>
      /\ p \in cached /\ pc[h] = "idle" /\ mu = NoHandler /\ mu' = h
  BY DEF IInv, TypeOK, NoJob, Gettable
<1>1. \A g \in Handlers : pc[g] \notin Locked
  BY <1>0, WriteConstants DEF IInv, LockInv
<1>2. LockInv'
  BY <1>0, <1>1 DEF LockInv, Locked
<1>3. PlanInv'
  BY <1>0 DEF IInv, PlanInv
<1>4. HeldInv'
  BY <1>0 DEF IInv, HeldInv, PlanInv, Locked
<1>5. AuditInv'
  BY <1>0, <1>1 DEF IInv, AuditInv, Locked
<1>6. AuditTruth' /\ RollbackBase'
  BY <1>0 DEF IInv, AuditTruth, RollbackBase
<1>7. CommitRecorded'
  BY <1>0, <1>1 DEF IInv, CommitRecorded, Locked
<1> QED BY <1>2, <1>3, <1>4, <1>5, <1>6, <1>7 DEF IInv

\* The handler moves on inside Apply; plans, mutex and outcomes stay.
Proceed(h, from, to) ==
    /\ pc[h] = from /\ pc' = [pc EXCEPT ![h] = to]
    /\ job'[h].plan = job[h].plan /\ \A g \in Handlers \ {h} : job'[g] = job[g]
    /\ UNCHANGED <<plan, mu, audit, commits, blurred>>

LEMMA ProceedInv ==
    ASSUME IInv, TypeOK', NEW h \in Handlers,
           \/ /\ Proceed(h, "got", "taken")
              /\ cached' = cached \ {job[h].plan} /\ UNCHANGED snaps
           \/ Proceed(h, "taken", "asked") /\ UNCHANGED <<cached, snaps>>
           \/ Proceed(h, "asked", "valid") /\ UNCHANGED <<cached, snaps>>
           \/ /\ Proceed(h, "valid", "snapped") /\ UNCHANGED cached
              /\ Len(snaps') = Len(snaps) + 1 /\ job'[h].snap = Len(snaps) + 1
           \/ /\ Proceed(h, "snapped", "replied") /\ UNCHANGED <<cached, snaps>>
              /\ job'[h].snap = job[h].snap /\ job'[h].reply = "error"
    PROVE  IInv'
<1> USE DEF Proceed, Locked
<1>0. /\ pc \in [Handlers -> Stages] /\ job[h].plan \in Plans /\ pc[h] \in Locked
      /\ cached' \subseteq cached /\ Len(snaps) \in Nat /\ Len(snaps') \in Nat
      /\ Len(snaps) <= Len(snaps')
      /\ \A g \in Handlers \ {h} : pc'[g] = pc[g] /\ job'[g] = job[g]
      /\ pc'[h] \in Locked /\ job'[h].plan = job[h].plan
  BY DEF IInv, TypeOK, HeldInv
<1>1. mu = h /\ \A g \in Handlers \ {h} : pc[g] \notin Locked
  BY <1>0, OnlyHolder
<1>2. LockInv'
  BY <1>0, <1>1 DEF IInv, LockInv
<1>3. PlanInv'
  <2>1. \A q \in Plans : plan[q].snap \in Nat
    BY DEF IInv, TypeOK, PlanRec
  <2> QED BY <1>0, <2>1 DEF IInv, PlanInv
<1>4. HeldInv'
  <2>1. ASSUME NEW g \in Handlers \ {h} PROVE HeldInv!(g)'
    BY <1>0, <1>1, <2>1 DEF IInv, HeldInv
  <2>2. plan[job[h].plan].snap \in Nat /\ plan[job[h].plan].snap <= Len(snaps)
    BY <1>0 DEF IInv, TypeOK, PlanRec, PlanInv
  <2>3. HeldInv!(h)'
    BY <1>0, <2>2 DEF IInv, HeldInv
  <2> QED BY <2>1, <2>3 DEF HeldInv
<1>5. AuditInv'
  BY <1>0 DEF IInv, AuditInv
<1>6. AuditTruth'
  BY DEF IInv, AuditTruth
<1>7. RollbackBase'
  <2>1. DOMAIN snaps = 1..Len(snaps) /\ DOMAIN snaps' = 1..Len(snaps')
    BY LenProperties DEF IInv, TypeOK
  <2>2. DOMAIN snaps \subseteq DOMAIN snaps'
    BY ONLY <1>0, <2>1, IntervalGrows
  <2> QED BY <1>0, <2>2 DEF IInv, RollbackBase
<1>8. CommitRecorded'
  BY <1>0 DEF IInv, CommitRecorded
<1> QED BY <1>2, <1>3, <1>4, <1>5, <1>6, <1>7, <1>8 DEF IInv
\* The handler leaves Apply and unlocks; its plan is not put back.
Release(h) ==
    /\ pc[h] \in Locked /\ pc' = [pc EXCEPT ![h] = "idle"]
    /\ \A g \in Handlers \ {h} : job'[g] = job[g]
    /\ mu' = NoHandler
    /\ cached' = cached \ {job[h].plan}
    /\ UNCHANGED <<plan, snaps, commits>>

LEMMA ReleaseInv ==
    ASSUME IInv, TypeOK', NEW h \in Handlers, Release(h),
           \/ UNCHANGED <<audit, blurred>> /\ commits[job[h].plan] = 0
           \/ audit' = audit /\ blurred' = blurred \cup {job[h].plan}
           \/ /\ UNCHANGED blurred
              /\ \E result \in {"success", "error"}, snap \in Nat :
                   /\ audit' = Append(audit, [plan |-> job[h].plan, result |-> result,
                                              snap |-> snap])
                   /\ result = "success" =>
                         /\ commits[job[h].plan] = 1
                         /\ snap \in DOMAIN snaps /\ plan[job[h].plan].snap < snap
                   /\ result = "error" /\ commits[job[h].plan] > 0 => job[h].plan \in blurred
    PROVE  IInv'
<1> DEFINE p == job[h].plan
<1> USE DEF Release
<1>0. /\ pc \in [Handlers -> Stages] /\ p \in Plans /\ plan[p] # NoRec
      /\ \A g \in Handlers \ {h} : pc'[g] = pc[g] /\ job'[g] = job[g]
      /\ pc'[h] = "idle" /\ commits[p] \in Nat
  BY DEF IInv, TypeOK, HeldInv, Locked
<1>1. mu = h /\ \A g \in Handlers \ {h} : pc[g] \notin Locked
  BY <1>0, OnlyHolder
<1>2. LockInv'
  BY <1>0, <1>1, WriteConstants DEF LockInv, Locked
<1>3. PlanInv'
  BY DEF IInv, PlanInv
<1>4. HeldInv'
  BY <1>0, <1>1 DEF IInv, HeldInv, Locked
<1>5. \A i \in DOMAIN audit : audit[i].plan # p
  BY <1>0 DEF IInv, AuditInv
<1>6. CASE audit' = audit /\ blurred \subseteq blurred' /\ (commits[p] = 0 \/ p \in blurred')
  <2>1. AuditInv' /\ AuditTruth' /\ RollbackBase'
    BY <1>0, <1>6 DEF IInv, AuditInv, AuditTruth, RollbackBase, Locked
  <2>2. CommitRecorded'
    <3>1. SUFFICES ASSUME NEW q \in Plans, commits[q] > 0 PROVE CommitRecorded!(q)'
      BY DEF CommitRecorded
    <3>2. CASE q = p
      BY <3>1, <3>2, <1>0, <1>6
    <3>3. CASE q # p
      BY <3>1, <3>3, <1>0, <1>6 DEF IInv, CommitRecorded
    <3> QED BY <3>2, <3>3
  <2> QED BY <1>2, <1>3, <1>4, <2>1, <2>2 DEF IInv
<1>7. ASSUME NEW result \in {"success", "error"}, NEW snap \in Nat,
             blurred' = blurred,
             audit' = Append(audit, [plan |-> p, result |-> result, snap |-> snap]),
             result = "success" =>
                 commits[p] = 1 /\ snap \in DOMAIN snaps /\ plan[p].snap < snap,
             result = "error" /\ commits[p] > 0 => p \in blurred
      PROVE  IInv'
  <2> DEFINE e == [plan |-> p, result |-> result, snap |-> snap]
             n == Len(audit)
  <2>1. e \in AuditEntry /\ n \in Nat /\ audit \in Seq(AuditEntry)
    BY <1>0 DEF AuditEntry, IInv, TypeOK
  <2>2. e.plan = p /\ e.result = result /\ e.snap = snap
    OBVIOUS
  <2>3. /\ DOMAIN audit = 1..n /\ DOMAIN audit' = 1..(n + 1)
        /\ \A i \in 1..n : audit'[i] = audit[i]
        /\ audit'[n + 1] = e
    <3> HIDE DEF e
    <3> QED BY <1>7, <2>1, AppendProperties, LenProperties DEF e
  <2>4. \A i \in DOMAIN audit' :
           \/ i \in DOMAIN audit /\ audit'[i] = audit[i]
           \/ i = n + 1 /\ audit'[i] = e
    <3> HIDE DEF e, n
    <3> QED BY <2>1, <2>3
  <2>5. n + 1 \in DOMAIN audit' /\ DOMAIN audit \subseteq DOMAIN audit'
    <3> HIDE DEF e, n
    <3> QED BY <2>1, <2>3
  <2> HIDE DEF e, n
  <2>6. AuditInv'
    BY <1>0, <1>1, <2>2, <2>4 DEF IInv, AuditInv, Locked
  <2>7. AuditTruth'
    <3>1. \A i \in DOMAIN audit' : audit'[i].result = "success" => commits[audit'[i].plan] = 1
      BY <1>7, <2>2, <2>4 DEF IInv, AuditTruth
    <3>2. \A i \in DOMAIN audit' : audit'[i].result = "error" /\ commits[audit'[i].plan] > 0
                                      => audit'[i].plan \in blurred
      BY <1>7, <2>2, <2>4 DEF IInv, AuditTruth
    <3>3. \A i, j \in DOMAIN audit' : audit'[i].plan = audit'[j].plan => i = j
      BY <1>5, <2>2, <2>4 DEF IInv, AuditTruth
    <3> QED BY <1>7, <3>1, <3>2, <3>3 DEF AuditTruth
  <2>8. RollbackBase'
    <3> SUFFICES ASSUME NEW i \in DOMAIN audit', audit'[i].result = "success"
                 PROVE  audit'[i].snap \in DOMAIN snaps /\ plan[audit'[i].plan].snap < audit'[i].snap
      BY DEF RollbackBase
    <3> QED BY <1>7, <2>2, <2>4 DEF IInv, RollbackBase
  <2>9. CommitRecorded'
    <3>1. SUFFICES ASSUME NEW q \in Plans, commits[q] > 0 PROVE CommitRecorded!(q)'
      BY DEF CommitRecorded
    <3>2. CASE q = p
      <4>1. CASE result = "error"
        BY <1>7, <3>1, <3>2, <4>1
      <4>2. CASE result = "success"
        <5>1. e = [plan |-> q, result |-> "success", snap |-> e.snap]
          BY <3>2, <4>2, <2>2 DEF e
        <5> QED BY <5>1, <2>3, <2>5
      <4> QED BY <4>1, <4>2
    <3>3. CASE q # p
      <4>1. \/ q \in blurred
            \/ \E g \in Handlers : pc[g] = "replied" /\ job[g].plan = q
            \/ \E i \in DOMAIN audit : audit[i] = [plan |-> q, result |-> "success",
                                                   snap |-> audit[i].snap]
        BY <3>1 DEF IInv, CommitRecorded
      <4>2. ASSUME NEW g \in Handlers, pc[g] = "replied" /\ job[g].plan = q
            PROVE  pc'[g] = "replied" /\ job'[g].plan = q
        BY <4>2, <3>3, <1>0
      <4>3. \A i \in DOMAIN audit : i \in DOMAIN audit' /\ audit'[i] = audit[i]
        BY <2>3, <2>5
      <4> QED BY <4>1, <4>2, <4>3, <1>7
    <3> QED BY <3>2, <3>3
  <2> QED BY <1>2, <1>3, <1>4, <2>6, <2>7, <2>8, <2>9 DEF IInv
<1> QED BY <1>6, <1>7

\* A preview adds a plan nobody has seen: no handler holds it, nothing names it.
LEMMA PreviewStoreInv ==
    ASSUME IInv, TypeOK', NEW h \in Handlers, NEW p \in Plans, PreviewStore(h, p)
    PROVE  IInv'
<1>0. /\ pc[h] = "diffed" /\ pc' = [pc EXCEPT ![h] = "idle"] /\ plan[p] = NoRec
      /\ \A g \in Handlers \ {h} : pc'[g] = pc[g] /\ job'[g] = job[g]
      /\ pc'[h] = "idle"
      /\ cached' = cached \cup {p}
      /\ \A q \in Plans \ {p} : plan'[q] = plan[q]
      /\ plan'[p].snap = Len(snaps) + 1
      /\ UNCHANGED <<mu, audit, commits, acked, blurred>>
  BY DEF PreviewStore, Return, Goto, ghosts, IInv, TypeOK
<1>1. Len(snaps) \in Nat /\ Len(snaps') = Len(snaps) + 1
  BY DEF PreviewStore, TakeSnapshot, IInv, TypeOK
<1>2. plan'[p] # NoRec
  BY <1>0, <1>1 DEF NoRec
<1>3. \A q \in Plans : plan[q].snap \in Nat
  BY DEF IInv, TypeOK, PlanRec
<1>4. LockInv'
  BY <1>0 DEF IInv, LockInv, Locked
<1>5. PlanInv'
  BY <1>0, <1>1, <1>2, <1>3 DEF IInv, PlanInv
<1>6. HeldInv'
  <2>1. ASSUME NEW g \in Handlers \ {h}, pc[g] \in Locked \cup {"cancel"}
        PROVE  job[g].plan \in Plans \ {p}
    BY <1>0, <2>1 DEF IInv, HeldInv
  <2>2. \A g \in Handlers : job[g].snap \in Nat
    BY DEF IInv, TypeOK, Job
  <2>3. ASSUME NEW g \in Handlers \ {h} PROVE HeldInv!(g)'
    BY <1>0, <1>1, <2>1, <2>2 DEF IInv, HeldInv, Locked
  <2>4. HeldInv!(h)'
    BY <1>0 DEF Locked
  <2> QED BY <2>3, <2>4 DEF HeldInv
<1>7. \A i \in DOMAIN audit : audit[i].plan \in Plans \ {p}
  <2>1. \A i \in DOMAIN audit : audit[i].plan \in Plans
    BY AuditedPlans DEF IInv
  <2> QED BY <1>0, <2>1 DEF IInv, AuditInv
<1>8. AuditInv'
  BY <1>0, <1>7 DEF IInv, AuditInv, Locked
<1>9. AuditTruth'
  BY <1>0 DEF IInv, AuditTruth
<1>10. RollbackBase'
  <2>1. DOMAIN snaps = 1..Len(snaps) /\ DOMAIN snaps' = 1..Len(snaps')
    BY LenProperties DEF IInv, TypeOK
  <2>2. DOMAIN snaps \subseteq DOMAIN snaps'
    BY ONLY <1>1, <2>1, IntervalGrows
  <2> QED BY <1>0, <1>7, <2>2 DEF IInv, RollbackBase
<1>11. CommitRecorded'
  BY <1>0 DEF IInv, CommitRecorded
<1> QED BY <1>4, <1>5, <1>6, <1>8, <1>9, <1>10, <1>11 DEF IInv

\* The commit itself: the plan was taken, so this is its first transaction.
LEMMA ApplyCommitInv ==
    ASSUME IInv, TypeOK', NEW h \in Handlers, ApplyCommit(h)
    PROVE  IInv'
<1> DEFINE p == job[h].plan
<1>0. /\ pc[h] = "snapped" /\ pc' = [pc EXCEPT ![h] = "replied"]
      /\ \A g \in Handlers \ {h} : pc'[g] = pc[g] /\ job'[g] = job[g]
      /\ pc'[h] = "replied" /\ job'[h].plan = p /\ job'[h].snap = job[h].snap
      /\ \/ job'[h].reply = "ok" /\ blurred' = blurred
         \/ job'[h].reply = "error" /\ blurred' = blurred \cup {p}
      /\ UNCHANGED <<cached, plan, mu, snaps, audit>>
  <2>1. job \in [Handlers -> Job] /\ pc \in [Handlers -> Stages] /\ job[h] \in Job
    BY DEF IInv, TypeOK
  <2>2. \A r \in {"ok", "error"} :
           LET j == [job[h] EXCEPT !.reply = r]
           IN  j.plan = p /\ j.snap = job[h].snap /\ j.reply = r
    BY <2>1 DEF Job
  <2>3. \E r \in {"ok", "error"} :
           /\ Goto(h, "replied", [job[h] EXCEPT !.reply = r])
           /\ blurred' = IF r = "ok" THEN blurred ELSE blurred \cup {p}
    BY DEF ApplyCommit
  <2>4. pc[h] = "snapped" /\ UNCHANGED <<cached, plan, mu, snaps, audit>>
    BY DEF ApplyCommit
  <2> QED BY <2>1, <2>2, <2>3, <2>4 DEF Goto
<1>1. /\ p \in Plans /\ plan[p] # NoRec /\ commits[p] = 0 /\ p \notin cached
      /\ plan[p].snap < job[h].snap /\ job[h].snap <= Len(snaps)
  BY <1>0 DEF IInv, HeldInv, Locked
<1>2. commits'[p] = 1 /\ \A q \in Plans \ {p} : commits'[q] = commits[q]
  BY <1>1 DEF ApplyCommit, IInv, TypeOK
<1>3. mu = h /\ \A g \in Handlers \ {h} : pc[g] \notin Locked
  BY <1>0, OnlyHolder DEF Locked
<1>4. \A i \in DOMAIN audit : audit[i].plan \in Plans \ {p}
  <2>1. \A i \in DOMAIN audit : audit[i].plan \in Plans
    BY AuditedPlans DEF IInv
  <2> QED BY <1>0, <2>1 DEF IInv, AuditInv, Locked
<1> HIDE DEF p
<1>5. LockInv'
  BY <1>0, <1>3 DEF IInv, LockInv, Locked
<1>6. PlanInv'
  BY <1>0, <1>1, <1>2 DEF IInv, PlanInv
<1>7. HeldInv'
  <2>1. ASSUME NEW g \in Handlers \ {h} PROVE HeldInv!(g)'
    BY <1>0, <1>3 DEF IInv, HeldInv, Locked
  <2>2. HeldInv!(h)'
    BY <1>0, <1>1, <1>2 DEF Locked
  <2> QED BY <2>1, <2>2 DEF HeldInv
<1>8. AuditInv'
  BY <1>0, <1>3, <1>4 DEF IInv, AuditInv, Locked
<1>9. AuditTruth'
  BY <1>0, <1>2, <1>4 DEF IInv, AuditTruth
<1>10. RollbackBase'
  BY <1>0 DEF IInv, RollbackBase
<1>11. CommitRecorded'
  <2>1. SUFFICES ASSUME NEW q \in Plans, commits'[q] > 0 PROVE CommitRecorded!(q)'
    BY DEF CommitRecorded
  <2>2. CASE q = p
    BY <2>2, <1>0
  <2>3. CASE q # p
    BY <2>1, <2>3, <1>0, <1>2 DEF IInv, CommitRecorded
  <2> QED BY <2>2, <2>3
<1> QED BY <1>5, <1>6, <1>7, <1>8, <1>9, <1>10, <1>11 DEF IInv

\* A restart forgets plans and handlers; what was unrecorded becomes blurred.
LEMMA CrashInv ==
    ASSUME IInv, TypeOK', Crash
    PROVE  IInv'
<1>0. /\ cached' = {} /\ mu' = NoHandler /\ \A h \in Handlers : pc'[h] = "idle"
      /\ blurred' = blurred \cup {job[h].plan : h \in {h \in Handlers : pc[h] = "replied"}}
      /\ UNCHANGED <<plan, snaps, audit, commits>>
  BY DEF Crash
<1>1. LockInv'
  BY <1>0, WriteConstants DEF LockInv, Locked
<1>2. PlanInv'
  BY <1>0 DEF IInv, PlanInv
<1>3. HeldInv'
  BY <1>0 DEF HeldInv, Locked
<1>4. AuditInv' /\ AuditTruth' /\ RollbackBase'
  BY <1>0 DEF IInv, AuditInv, AuditTruth, RollbackBase, Locked
<1>5. CommitRecorded'
  BY <1>0 DEF IInv, CommitRecorded
<1> QED BY <1>1, <1>2, <1>3, <1>4, <1>5 DEF IInv

\* The remaining steps of Apply either move on or let go of the plan.
LEMMA ApplyStepInv ==
    ASSUME IInv, TypeOK', NEW h \in Handlers,
           \/ ApplyDelete(h) \/ ApplyReady(h) \/ ApplyValidate(h) \/ ApplySnapshot(h)
           \/ ApplySnapshotFails(h) \/ ApplyReject(h) \/ ApplyAudit(h)
    PROVE  IInv'
<1> DEFINE p == job[h].plan
<1>0. /\ pc \in [Handlers -> Stages] /\ job \in [Handlers -> Job] /\ job[h] \in Job
      /\ snaps \in Seq(Store) /\ Len(snaps) \in Nat
  BY DEF IInv, TypeOK
<1>1. CASE ApplyDelete(h)
  <2>1. CASE job[h].tok = p
    BY <1>0, <1>1, <2>1, ProceedInv DEF ApplyDelete, Goto, Proceed, ghosts
  <2>2. CASE job[h].tok # p
    <3>1. Release(h) /\ UNCHANGED <<audit, blurred>>
      BY <1>0, <1>1, <2>2 DEF ApplyDelete, Return, Goto, Release, Locked, ghosts
    <3>2. commits[p] = 0
      BY <1>1 DEF ApplyDelete, IInv, HeldInv, Locked
    <3> QED BY <3>1, <3>2, ReleaseInv
  <2> QED BY <2>1, <2>2
<1>2. CASE ApplyReady(h)
  <2>1. Proceed(h, "taken", "asked") /\ UNCHANGED <<cached, snaps>>
    BY <1>0, <1>2 DEF ApplyReady, Goto, Proceed, Job, ghosts
  <2> QED BY <2>1, ProceedInv
<1>3. CASE ApplyValidate(h)
  <2>1. CASE Validates(job[h].auth, plan[p].ops)
    <3>1. Proceed(h, "asked", "valid") /\ UNCHANGED <<cached, snaps>>
      BY <1>0, <1>3, <2>1 DEF ApplyValidate, Goto, Proceed, ghosts
    <3> QED BY <3>1, ProceedInv
  <2>2. CASE ~ Validates(job[h].auth, plan[p].ops)
    <3>1. p \notin cached /\ commits[p] = 0
      BY <1>3 DEF ApplyValidate, IInv, HeldInv, Locked
    <3>2. Release(h) /\ RecordAudit(p, "error", 0)
      BY <1>0, <1>3, <2>2, <3>1 DEF ApplyValidate, Return, Goto, Release, Locked
    <3>3. CASE audit' = audit /\ blurred' = blurred \cup {p}
      BY <3>2, <3>3, ReleaseInv
    <3>4. CASE /\ audit' = Append(audit, [plan |-> p, result |-> "error", snap |-> 0])
               /\ UNCHANGED blurred
      BY <3>1, <3>2, <3>4, ReleaseInv
    <3> QED BY <3>2, <3>3, <3>4 DEF RecordAudit
  <2> QED BY <2>1, <2>2
<1>4. CASE ApplySnapshot(h)
  <2>1. Proceed(h, "valid", "snapped") /\ UNCHANGED cached
    BY <1>0, <1>4 DEF ApplySnapshot, Goto, Proceed, Job, ghosts
  <2>2. Len(snaps') = Len(snaps) + 1 /\ job'[h].snap = Len(snaps) + 1
    BY <1>0, <1>4 DEF ApplySnapshot, TakeSnapshot, Goto, Job, IInv, TypeOK
  <2> QED BY <2>1, <2>2, ProceedInv
<1>5. CASE ApplySnapshotFails(h)
  <2>1. p \notin cached /\ commits[p] = 0
    BY <1>5 DEF ApplySnapshotFails, IInv, HeldInv, Locked
  <2>2. Release(h) /\ UNCHANGED <<audit, blurred>>
    BY <1>0, <1>5, <2>1 DEF ApplySnapshotFails, Return, Goto, Release, Locked, ghosts
  <2> QED BY <2>1, <2>2, ReleaseInv
<1>6. CASE ApplyReject(h)
  <2>1. Proceed(h, "snapped", "replied") /\ UNCHANGED <<cached, snaps>>
    BY <1>0, <1>6 DEF ApplyReject, Goto, Proceed, Job, ghosts
  <2>2. job'[h].snap = job[h].snap /\ job'[h].reply = "error"
    BY <1>0, <1>6 DEF ApplyReject, Goto, Job
  <2> QED BY <2>1, <2>2, ProceedInv
<1>7. CASE ApplyAudit(h)
  <2> DEFINE result == IF job[h].reply = "ok" THEN "success" ELSE "error"
  <2>1. /\ p \notin cached /\ job[h].snap \in Nat
        /\ plan[p].snap < job[h].snap /\ job[h].snap <= Len(snaps)
        /\ result = "success" => commits[p] = 1
        /\ result = "error" /\ commits[p] > 0 => p \in blurred
    BY <1>0, <1>7 DEF ApplyAudit, IInv, HeldInv, Locked, Job
  <2>2. Release(h) /\ RecordAudit(p, result, job[h].snap)
    BY <1>0, <1>7, <2>1 DEF ApplyAudit, Return, Goto, Release, Locked
  <2>3. job[h].snap \in DOMAIN snaps
    <3>1. plan[p].snap \in Nat
      BY <1>7 DEF ApplyAudit, IInv, HeldInv, Locked, TypeOK, PlanRec
    <3> QED BY <1>0, <2>1, <3>1, LenProperties
  <2>4. CASE audit' = audit /\ blurred' = blurred \cup {p}
    BY <2>2, <2>4, ReleaseInv
  <2>5. CASE /\ audit' = Append(audit, [plan |-> p, result |-> result, snap |-> job[h].snap])
             /\ UNCHANGED blurred
    <3>1. result \in {"success", "error"}
      OBVIOUS
    <3> HIDE DEF result
    <3> QED BY <2>1, <2>2, <2>3, <2>5, <3>1, ReleaseInv
  <2> QED BY <2>2, <2>4, <2>5 DEF RecordAudit
<1> QED BY <1>1, <1>2, <1>3, <1>4, <1>5, <1>6, <1>7

LEMMA InitInv == Init => IInv
<1> SUFFICES ASSUME Init PROVE IInv
  OBVIOUS
<1>1. TypeOK
  <2>1. db \in Store /\ cache \in Store
    BY WriteConstants DEF Init
  <2>2. NoRec \in PlanRec
    BY DEF NoRec, PlanRec
  <2>3. pc \in [Handlers -> Stages] /\ job \in [Handlers -> Job]
    BY NoJobType DEF Init, Stages
  <2>4. snaps \in Seq(Store)
    BY WriteConstants DEF Init
  <2>5. audit \in Seq(AuditEntry)
    BY DEF Init
  <2> QED BY <2>1, <2>2, <2>3, <2>4, <2>5 DEF Init, TypeOK
<1>2. LockInv /\ HeldInv
  BY WriteConstants DEF Init, LockInv, HeldInv, Locked
<1>3. PlanInv /\ AuditInv /\ AuditTruth /\ CommitRecorded /\ RollbackBase
  BY <1>1 DEF TypeOK, Init, PlanInv, AuditInv, AuditTruth, CommitRecorded, RollbackBase, NoRec
<1> QED BY <1>1, <1>2, <1>3 DEF IInv

LEMMA StepInv ==
    ASSUME IInv, [Next]_vars
    PROVE  IInv'
<1>1. TypeOK'
  BY TypeStep DEF IInv
<1>2. ASSUME NEW h \in Handlers, HandlerStep(h) PROVE IInv'
  BY <1>1, <1>2, QuietSteps, QuietKeepsInv, PreviewStoreInv, ApplyCommitInv, ApplyStepInv
  DEF HandlerStep
<1>3. ASSUME NEW h \in Handlers, Request(h) PROVE IInv'
  BY <1>1, <1>3, QuietSteps, QuietKeepsInv, ApplyGetInv DEF Request
<1>4. CASE Cleanup \/ (\E p \in Plans : EvictOnGet(p)) \/ UNCHANGED vars
  BY <1>1, <1>4, QuietWorld, QuietKeepsInv
<1>5. CASE Environment
  BY <1>1, <1>5, QuietWorld, QuietKeepsInv, CrashInv DEF Environment
<1> QED BY <1>2, <1>3, <1>4, <1>5 DEF Next

---------------------------------------------------------------------------
(* Theorems *)

(* The write engine keeps its inductive invariant, in particular its types *)
(* (internal/write/engine.go:113-350).                                     *)
THEOREM InvariantHolds == Spec => []IInv
<1>1. IInv /\ [Next]_vars => IInv'
  BY StepInv
<1> QED BY <1>1, InitInv, PTL DEF Spec

\* Every reachable state is well typed: Spec => []TypeOK.
THEOREM TypeCorrect == Spec => []TypeOK
<1>1. IInv => TypeOK
  BY DEF IInv
<1> QED BY <1>1, InvariantHolds, PTL

(* No plan is transacted twice, for any number of handlers and plans       *)
(* (Engine.Apply, engine.go:156-164).                                      *)
THEOREM PlanAppliedOnce == Spec => []AtMostOnce
<1>1. IInv => AtMostOnce
  BY DEF IInv, PlanInv, AtMostOnce
<1> QED BY <1>1, InvariantHolds, PTL

(* The audit table never claims a success that did not happen, never has   *)
(* two entries for one plan, and calls a committed plan an error only when *)
(* the reply of the server was lost (engine.go:188-194, 648-651).          *)
THEOREM AuditIsTrue == Spec => []AuditTruth
<1>1. IInv => AuditTruth
  BY DEF IInv
<1> QED BY <1>1, InvariantHolds, PTL

(* A committed plan has its audit entry once Apply has returned, and the   *)
(* entry of a success names a snapshot newer than the preview's to roll    *)
(* back to (engine.go:151-195).                                            *)
THEOREM RecordsAreComplete == Spec => []RecordsHold
<1>1. IInv => RecordsHold
  BY DEF IInv, RecordsHold
<1> QED BY <1>1, InvariantHolds, PTL

(* Steps that leave every plan and the cancels alone and offer no plan. *)
CancelsKept == UNCHANGED <<plan, acked>> /\ cached' \subseteq cached

LEMMA HandlerKeepsCancels ==
    ASSUME IInv, NEW h \in Handlers, HandlerStep(h) \/ Request(h), ~ CancelDelete(h),
           \A p \in Plans : ~ PreviewStore(h, p)
    PROVE  CancelsKept
<1> USE DEF CancelsKept, ghosts
<1>1. CASE HandlerStep(h)
  BY <1>1 DEF HandlerStep, RollbackNoChanges, PreviewDiff, PreviewDrop, ApplyDelete,
     ApplyReady, ApplyValidate, ApplySnapshot, ApplySnapshotFails, ApplyCommit,
     ApplyReject, ApplyAudit
<1>2. CASE Request(h)
  BY <1>2 DEF Request, Preview, Rollback, CancelGet, ApplyGet
<1> QED BY <1>1, <1>2

\* A cancelled plan stays stored and off the cache.
LEMMA StepCancelInv ==
    ASSUME IInv, CancelInv, [Next]_vars
    PROVE  CancelInv'
<1>1. CASE CancelsKept
  BY <1>1 DEF CancelsKept, CancelInv
<1>2. ASSUME NEW h \in Handlers, CancelDelete(h) PROVE CancelInv'
  <2>1. plan[job[h].plan] # NoRec
    BY <1>2 DEF CancelDelete, IInv, HeldInv
  <2> QED BY <1>2, <2>1 DEF CancelDelete, CancelInv
<1>3. ASSUME NEW h \in Handlers, NEW p \in Plans, PreviewStore(h, p) PROVE CancelInv'
  <2>1. p \notin acked
    BY <1>3 DEF PreviewStore, CancelInv
  <2>2. acked \subseteq Plans /\ acked' = acked /\ cached' = cached \cup {p}
        /\ \A q \in Plans \ {p} : plan'[q] = plan[q]
    BY <1>3 DEF PreviewStore, IInv, TypeOK, ghosts
  <2> QED BY <2>1, <2>2 DEF CancelInv
<1>4. ASSUME NEW h \in Handlers, HandlerStep(h) \/ Request(h) PROVE CancelInv'
  BY <1>1, <1>2, <1>3, <1>4, HandlerKeepsCancels
<1>5. CASE Cleanup \/ (\E p \in Plans : EvictOnGet(p)) \/ Environment \/ UNCHANGED vars
  BY <1>1, <1>5 DEF CancelsKept, Cleanup, EvictOnGet, Environment, OtherWriter,
     MonitorUpdate, LinkFault, LinkUp, Tick, Crash, vars, ghosts
<1> QED BY <1>4, <1>5 DEF Next

\* A handler enters the locked stages by ApplyGet only, which needs the plan on offer.
LEMMA LockedByGet ==
    ASSUME IInv, [Next]_vars, NEW h \in Handlers, pc[h] = "idle", pc'[h] \in Locked
    PROVE  job'[h].plan \in cached
<1> USE DEF Goto, Return, Locked
<1>0. pc \in [Handlers -> Stages] /\ job \in [Handlers -> Job]
  BY DEF IInv, TypeOK
<1>1. ASSUME NEW g \in Handlers, HandlerStep(g) PROVE FALSE
  BY <1>0, <1>1 DEF HandlerStep, RollbackNoChanges, PreviewDiff, PreviewDrop, PreviewStore,
     CancelDelete, ApplyDelete, ApplyReady, ApplyValidate, ApplySnapshot,
     ApplySnapshotFails, ApplyCommit, ApplyReject, ApplyAudit
<1>2. ASSUME NEW g \in Handlers, Request(g) PROVE job'[h].plan \in cached
  <2>1. CASE (\E ops \in Requests : Preview(g, ops)) \/ (\E q \in Plans : CancelGet(g, q))
    BY <1>0, <2>1 DEF Preview, CancelGet
  <2>2. CASE \E s \in DOMAIN snaps : Rollback(g, s)
    BY <1>0, <2>2 DEF Rollback
  <2>3. ASSUME NEW q \in Plans, NEW tok \in Plans \cup {NoPlan}, ApplyGet(g, q, tok)
        PROVE  job'[h].plan \in cached
    <3>1. g = h
      BY <1>0, <2>3 DEF ApplyGet
    <3>2. job'[h] = [NoJob EXCEPT !.plan = q, !.tok = tok]
      BY <1>0, <2>3, <3>1 DEF ApplyGet
    <3>3. job'[h].plan = q
      BY <3>2 DEF NoJob
    <3>4. q \in cached
      BY <2>3 DEF ApplyGet, Gettable
    <3> QED BY <3>3, <3>4, Zenon
  <2> QED BY <1>2, <2>1, <2>2, <2>3 DEF Request
<1>3. CASE Cleanup \/ (\E p \in Plans : EvictOnGet(p)) \/ Environment \/ UNCHANGED vars
  BY <1>3 DEF Cleanup, EvictOnGet, Environment, OtherWriter, MonitorUpdate, LinkFault,
     LinkUp, Tick, Crash, vars
<1> QED BY <1>1, <1>2, <1>3 DEF Next

(* Once a cancel was answered with success no apply gets the plan, however *)
(* many handlers race for it (CancelPlan, engine.go:342-350).              *)
THEOREM CancelsAreFinal == Spec => CancelIsFinal
<1>1. Init => CancelInv
  BY DEF Init, CancelInv
<1>2. IInv /\ CancelInv /\ [Next]_vars => CancelInv'
  BY StepCancelInv
<1>3. IInv /\ CancelInv /\ [Next]_vars =>
        [\A h \in Handlers, p \in acked :
           pc[h] = "idle" /\ pc'[h] \in Locked => job'[h].plan # p]_vars
  BY LockedByGet DEF CancelInv
<1> QED BY <1>1, <1>2, <1>3, InvariantHolds, PTL DEF Spec, CancelIsFinal

\* Only a commit step changes the commit count of a plan.
LEMMA CommitSteps ==
    ASSUME IInv, [Next]_vars, NEW p \in Plans, commits'[p] # commits[p]
    PROVE  \E h \in Handlers : ApplyCommit(h) /\ job[h].plan = p
<1>1. ASSUME NEW h \in Handlers, HandlerStep(h), ~ ApplyCommit(h) PROVE UNCHANGED commits
  BY <1>1 DEF HandlerStep, RollbackNoChanges, PreviewDiff, PreviewDrop, PreviewStore,
     CancelDelete, ApplyDelete, ApplyReady, ApplyValidate, ApplySnapshot,
     ApplySnapshotFails, ApplyReject, ApplyAudit, ghosts
<1>2. ASSUME NEW h \in Handlers, Request(h) PROVE UNCHANGED commits
  BY <1>2 DEF Request, Preview, Rollback, CancelGet, ApplyGet, ghosts
<1>3. ASSUME Cleanup \/ (\E q \in Plans : EvictOnGet(q)) \/ UNCHANGED vars PROVE UNCHANGED commits
  BY <1>3 DEF Cleanup, EvictOnGet, vars, ghosts
<1>4. ASSUME Environment PROVE UNCHANGED commits
  BY <1>4 DEF Environment, OtherWriter, MonitorUpdate, LinkFault, LinkUp, Tick, Crash, ghosts
<1>5. PICK h \in Handlers : ApplyCommit(h)
  BY <1>1, <1>2, <1>3, <1>4 DEF Next
<1>6. job[h].plan = p
  BY <1>5 DEF ApplyCommit, IInv, TypeOK
<1> QED BY <1>5, <1>6

\* The database changes by what the server makes of somebody's transaction.
LEMMA DatabaseSteps ==
    ASSUME IInv, [Next]_vars
    PROVE  db' = db \/ \E d \in Store : db' = Collect(d)
<1>1. ASSUME NEW h \in Handlers, HandlerStep(h), ~ ApplyCommit(h) PROVE UNCHANGED db
  BY <1>1 DEF HandlerStep, RollbackNoChanges, PreviewDiff, PreviewDrop, PreviewStore,
     CancelDelete, ApplyDelete, ApplyReady, ApplyValidate, ApplySnapshot,
     ApplySnapshotFails, ApplyReject, ApplyAudit, world
<1>2. ASSUME NEW h \in Handlers, Request(h) PROVE UNCHANGED db
  BY <1>2 DEF Request, Preview, Rollback, CancelGet, ApplyGet, world
<1>3. ASSUME Cleanup \/ (\E q \in Plans : EvictOnGet(q)) \/ UNCHANGED vars PROVE UNCHANGED db
  BY <1>3 DEF Cleanup, EvictOnGet, vars, world
<1>4. ASSUME NEW h \in Handlers, ApplyCommit(h) PROVE \E d \in Store : db' = Collect(d)
  <2>1. plan[job[h].plan].ops \in Seq(Op) /\ db \in Store
    BY <1>4 DEF ApplyCommit, IInv, HeldInv, Locked, TypeOK, PlanRec
  <2>2. PICK fresh : db' = Collect(Mutate(db, plan[job[h].plan].ops, fresh))
    BY <1>4 DEF ApplyCommit, ServerTakes
  <2> QED BY <2>1, <2>2, MutateType
<1>5. ASSUME NEW r \in Rows, OtherWriter(r) PROVE \E d \in Store : db' = Collect(d)
  BY <1>5, WrittenType DEF IInv
<1>6. ASSUME Environment PROVE UNCHANGED db \/ \E r \in Rows : OtherWriter(r)
  BY <1>6 DEF Environment, MonitorUpdate, LinkFault, LinkUp, Tick, Crash
<1> QED BY <1>1, <1>2, <1>3, <1>4, <1>5, <1>6 DEF Next

\* Whatever is neither deleted nor cut off by the plan is held as before.
LEMMA HangingIsCollected ==
    ASSUME NEW d \in Store, Settled(d), NEW ops \in Seq(Op), NEW fresh,
           \A i \in Creates(ops) : fresh[i] \in Rows /\ ~ Live(d, fresh[i]),
           NEW r \in LiveRows(d), r \notin Kept(Mutate(d, ops, fresh)),
           Touching(ops, "delete", r) = {}
    PROVE  r \in Hanging(d, Cut(ops))
<1> DEFINE m == Mutate(d, ops, fresh)
<1> SUFFICES ASSUME NEW S \in SUBSET Rows, Cut(ops) \subseteq S,
                    \A q \in S : StrongRefs(d, q) \cap Rows \subseteq S, r \notin S
             PROVE  FALSE
  BY DEF Hanging, LiveRows
<1> DEFINE T == LiveRows(d) \ S
<1>1. ASSUME NEW q \in T PROVE Live(m, q) /\ StrongRefs(m, q) = StrongRefs(d, q)
  <2>1. /\ q \in Rows /\ Live(d, q) /\ q \notin Cut(ops)
        /\ \A i \in Creates(ops) : fresh[i] # q
    BY DEF LiveRows
  <2>2. Touching(ops, "delete", q) = {}
    BY <2>1 DEF Cut
  <2>3. m[q] = [life |-> "live", col |-> [c \in Cols |-> LastValue(d, ops, q, c)]]
    BY <2>1, <2>2 DEF Mutate
  <2>4. ASSUME NEW c \in Strong PROVE m[q].col[c] = d[q].col[c]
    <3>1. c \in Cols
      BY WriteConstants
    <3>2. {i \in Touching(ops, "update", q) : c \in DOMAIN ops[i].fields} = {}
      BY <2>1 DEF Cut
    <3>3. LastValue(d, ops, q, c) = d[q].col[c]
      BY <3>2 DEF LastValue
    <3> QED BY <2>3, <3>1, <3>3
  <2>5. StrongRefs(m, q) = StrongRefs(d, q)
    <3> HIDE DEF m
    <3> QED BY <2>4 DEF StrongRefs
  <2> QED BY <2>3, <2>5 DEF Live
<1>2. T \subseteq LiveRows(m)
  BY <1>1 DEF LiveRows
<1>3. \A t \in T \ Roots : \E q \in T \ {t} : t \in StrongRefs(m, q)
  <2> SUFFICES ASSUME NEW t \in T \ Roots PROVE \E q \in T \ {t} : t \in StrongRefs(m, q)
    OBVIOUS
  <2>1. PICK q \in LiveRows(d) \ {t} : t \in StrongRefs(d, q)
    BY DEF Settled
  <2>2. q \notin S
    BY <2>1 DEF LiveRows
  <2>3. q \in T \ {t}
    BY <2>1, <2>2
  <2> QED BY <1>1, <2>1, <2>3
<1> HIDE DEF T
<1>4. T \subseteq Kept(m)
  BY <1>2, <1>3, KeptIsLargest
<1> QED BY <1>4 DEF T

\* An update that passed its wait leaves a value the diff shows.
LEMMA UpdatesAreShown ==
    ASSUME NEW p \in Plans, plan[p].ops \in Seq(Op), NEW d, WaitsHold(d, plan[p]),
           NEW r \in Rows, NEW c \in Cols
    PROVE  LastValue(d, plan[p].ops, r, c) \in Shown(p, d, r, c)
<1> DEFINE ops == plan[p].ops
           W == {i \in Touching(ops, "update", r) : c \in DOMAIN ops[i].fields}
           last == CHOOSE i \in W : \A j \in W : j <= i
<1>1. CASE W = {}
  BY <1>1 DEF LastValue, Shown
<1>2. CASE W # {}
  <2>1. W \in SUBSET (1..Len(ops)) /\ Len(ops) \in Nat
    BY LenProperties DEF Touching
  <2>2. last \in W
    <3>1. \E i \in W : \A j \in W : j <= i
      BY ONLY <1>2, <2>1, LastExists
    <3> QED BY <3>1
  <2>3. LastValue(d, ops, r, c) = ops[last].fields[c]
    BY <1>2 DEF LastValue
  <2>4. last \in DOMAIN ops /\ ops[last].action = "update" /\ ops[last].row = r
        /\ c \in DOMAIN ops[last].fields
    BY <2>2 DEF Touching
  <2>5. WaitHolds(d, ops[last], plan[p].diffs[last])
    BY <2>4 DEF WaitsHold
  <2>6. plan[p].diffs[last].before.col[c] = d[r].col[c]
    BY <2>4, <2>5 DEF WaitHolds
  <2> HIDE DEF last
  <2> QED BY <2>2, <2>3, <2>4, <2>6 DEF Shown
<1> QED BY <1>1, <1>2

(* What the operator reviewed is what runs: a committed plan overwrites a  *)
(* column only if it still holds the previewed value, and whatever changes *)
(* without its diff saying so is what the server collects because the plan *)
(* let go of it, or a weak reference to a row that is gone                 *)
(* (engine.go:637-726, registry.go:176-201).                               *)
THEOREM ReviewedIsWhatRuns == Spec => ApprovedChange
<1>1. Init => Settled(db)
  BY WriteConstants DEF Init
<1>2. IInv /\ Settled(db) /\ [Next]_vars => Settled(db)'
  <2> SUFFICES ASSUME IInv, Settled(db), [Next]_vars PROVE Settled(db')
    BY DEF Settled, LiveRows, Live, StrongRefs
  <2> QED BY DatabaseSteps, CollectSettles
<1>3. ASSUME IInv, Settled(db), [Next]_vars
      PROVE  [\A p \in Plans : commits'[p] # commits[p] =>
                \A r \in Rows : db'[r] # db[r] => ApprovedRow(p, db, db', r)]_vars
  <2> SUFFICES ASSUME NEW p \in Plans, commits'[p] # commits[p], NEW r \in Rows, db'[r] # db[r]
               PROVE  ApprovedRow(p, db, db', r)
    OBVIOUS
  <2> DEFINE ops == plan[p].ops
  <2>1. PICK h \in Handlers : ApplyCommit(h) /\ job[h].plan = p
    BY <1>3, CommitSteps
  <2>2. PICK fresh \in [Creates(ops) -> {s \in Rows : db[s].life = "unborn"}] :
           db' = Collect(Mutate(db, ops, fresh)) /\ Referential(Mutate(db, ops, fresh))
    BY <2>1 DEF ApplyCommit, ServerTakes
  <2>3. ops \in Seq(Op) /\ db \in Store /\ WaitsHold(db, plan[p])
    BY <1>3, <2>1 DEF ApplyCommit, IInv, TypeOK, PlanRec
  <2> DEFINE m == Mutate(db, ops, fresh)
             made == \E i \in Creates(ops) : fresh[i] = r
             k == CHOOSE i \in Creates(ops) : fresh[i] = r
  <2>4. m \in Store /\ Kept(m) \subseteq LiveRows(m) /\ LiveRows(db') = Kept(m)
        /\ \A q \in Kept(m) : StrongRefs(db', q) = StrongRefs(m, q)
    BY <2>2, <2>3, MutateType, KeptHolds, CollectRows
  <2>5. \A i \in Creates(ops) : fresh[i] \in Rows /\ ~ Live(db, fresh[i])
    BY <2>2 DEF Live
  <2>6. made => /\ k \in Creates(ops) /\ db[r].life = "unborn"
                /\ m[r].col = Merge(EmptyRow("live").col, ops[k].fields)
    BY <2>2 DEF Mutate
  <2>7. ~ made /\ Live(m, r) =>
          /\ Live(db, r) /\ Touching(ops, "delete", r) = {}
          /\ \A c \in Cols : m[r].col[c] = LastValue(db, ops, r, c)
    BY DEF Mutate, Live, EmptyRow
  <2>8. CASE r \in Kept(m)
    <3>1. Live(m, r) /\ Live(db', r)
      BY <2>4, <2>8 DEF LiveRows
    <3>2. \A c \in Cols : db'[r].col[c] = Purged(LiveRows(db'), c, m[r].col[c])
      BY <2>2, <2>4, <2>8 DEF Collect, Store, Row
    <3>3. CASE made
      BY <2>6, <3>1, <3>2, <3>3 DEF ApprovedRow
    <3>4. CASE ~ made
      <4>1. \A c \in Cols : m[r].col[c] \in Shown(p, db, r, c)
        BY <2>3, <2>7, <3>1, <3>4, UpdatesAreShown
      <4> HIDE DEF m
      <4> QED BY <2>7, <3>1, <3>2, <3>4, <4>1 DEF ApprovedRow
    <3> QED BY <3>3, <3>4
  <2>9. CASE r \notin Kept(m) /\ Live(m, r)
    <3>1. r \in LiveRows(m) /\ db'[r].life = "dead"
      BY <2>2, <2>9 DEF Collect, EmptyRow, LiveRows
    <3>2. r \notin Roots /\ \A q \in Kept(m) : r \notin StrongRefs(m, q)
      BY <2>9, <3>1, KeptGrows
    <3>3. \A q \in LiveRows(db') : r \notin StrongRefs(db', q)
      BY <2>4, <3>2
    <3>4. made => ~ Live(db, r) /\ Creates(ops) # {}
      BY <2>6 DEF Live
    <3>5. ~ made => Live(db, r) /\ r \in Hanging(db, Cut(ops))
      BY <1>3, <2>3, <2>5, <2>7, <2>9, HangingIsCollected DEF LiveRows
    <3> QED BY <3>1, <3>2, <3>3, <3>4, <3>5 DEF ApprovedRow
  <2>10. CASE r \notin Kept(m) /\ ~ Live(m, r)
    <3>1. db'[r] = m[r]
      BY <2>2, <2>10 DEF Collect
    <3>2. ~ made
      BY <2>10 DEF Mutate, Live
    <3>3. Touching(ops, "delete", r) # {} /\ m[r] = EmptyRow("dead")
      BY <2>10, <3>1, <3>2 DEF Mutate, Live
    <3> QED BY <3>1, <3>3 DEF ApprovedRow, EmptyRow
  <2> QED BY <2>8, <2>9, <2>10
<1> QED BY <1>1, <1>2, <1>3, InvariantHolds, PTL DEF Spec, ApprovedChange

---------------------------------------------------------------------------
(* The plan life cycle *)

\* Some apply has p in its hands.
Claimed(p) == \E h \in Handlers : pc[h] \in Locked /\ job[h].plan = p

Statuses == [p \in Plans |-> Status(p)]

\* A plan that an apply lets go of is not on offer any more.
Loses ==
    /\ UNCHANGED <<plan, commits>> /\ cached' \subseteq cached
    /\ \A p \in Plans : /\ Claimed(p)' => Claimed(p)
                        /\ Claimed(p) /\ p \in cached' => Claimed(p)'

LEMMA LosesRetires ==
    ASSUME IInv, Loses
    PROVE  [Lifecycle!Next]_Statuses
<1> DEFINE S == {p \in Plans : Status(p)' # Status(p)}
<1>1. ASSUME NEW p \in Plans
      PROVE  \/ Status(p)' = Status(p)
             \/ Status(p) \in {"offered", "claimed"} /\ Status(p)' = "retired"
  <2>1. /\ p \in cached => plan[p] # NoRec
        /\ Claimed(p) => plan[p] # NoRec
    BY DEF IInv, PlanInv, HeldInv, Claimed
  <2>2. UNCHANGED <<plan, commits>> /\ (p \in cached' => p \in cached)
    BY DEF Loses
  <2>3. (Claimed(p)' => Claimed(p)) /\ (Claimed(p) /\ p \in cached' => Claimed(p)')
    BY DEF Loses
  <2>4. CASE commits[p] > 0
    BY <2>2, <2>4 DEF Status
  <2>5. CASE ~ (commits[p] > 0) /\ Claimed(p)
    BY <2>1, <2>2, <2>3, <2>5 DEF Status, Claimed
  <2>6. CASE ~ (commits[p] > 0) /\ ~ Claimed(p)
    BY <2>1, <2>2, <2>3, <2>6 DEF Status, Claimed
  <2> QED  BY <2>4, <2>5, <2>6
<1>2. Statuses' = [p \in Plans |-> Status(p)']
  BY DEF Statuses
<1>3. CASE S = {}
  BY <1>2, <1>3 DEF Statuses
<1>4. CASE S # {}
  <2>1. S \in (SUBSET {p \in Plans : Statuses[p] \in {"offered", "claimed"}}) \ {{}}
    BY <1>1, <1>4 DEF Statuses
  <2>2. Statuses' = [p \in Plans |-> IF p \in S THEN "retired" ELSE Statuses[p]]
    BY <1>1, <1>2 DEF Statuses
  <2>3. Lifecycle!Retire
    BY <2>1, <2>2 DEF Lifecycle!Retire, Statuses
  <2> QED  BY <2>3 DEF Lifecycle!Next
<1> QED  BY <1>3, <1>4

\* One plan moves, the others stay.
LEMMA OneMoves ==
    ASSUME NEW p \in Plans, NEW from, NEW to, Status(p) = from, Status(p)' = to,
           \A q \in Plans \ {p} : Status(q)' = Status(q)
    PROVE  Lifecycle!Move(p, from, to)
<1>1. Statuses' = [q \in Plans |-> Status(q)'] /\ Statuses[p] = from
  BY DEF Statuses
<1>2. Statuses' = [Statuses EXCEPT ![p] = to]
  BY <1>1 DEF Statuses
<1> QED  BY <1>1, <1>2 DEF Lifecycle!Move, Statuses

\* Steps outside the locked stages, and steps of an apply that go on, lose nothing more
\* than plans on offer.
LEMMA QuietLoses ==
    ASSUME IInv, Quiet
    PROVE  Loses
<1>1. \A h \in Handlers :
         \/ pc'[h] = pc[h] /\ job'[h] = job[h]
         \/ pc[h] \notin Locked /\ pc'[h] \notin Locked
  BY DEF Quiet, Locked
<1>2. \A p : Claimed(p)' <=> Claimed(p)
  BY <1>1 DEF Claimed
<1> QED  BY <1>2 DEF Quiet, Loses

LEMMA ApplyLoses ==
    ASSUME IInv, NEW h \in Handlers,
           \/ ApplyDelete(h) \/ ApplyReady(h) \/ ApplyValidate(h) \/ ApplySnapshot(h)
           \/ ApplySnapshotFails(h) \/ ApplyReject(h) \/ ApplyAudit(h)
    PROVE  Loses
<1>0. pc \in [Handlers -> Stages] /\ job \in [Handlers -> Job]
  BY DEF IInv, TypeOK
<1>1. /\ UNCHANGED <<plan, commits>> /\ cached' \subseteq cached
      /\ pc[h] \in Locked
      /\ \A g \in Handlers \ {h} : pc'[g] = pc[g] /\ job'[g] = job[g]
  BY <1>0 DEF ApplyDelete, ApplyReady, ApplyValidate, ApplySnapshot, ApplySnapshotFails,
     ApplyReject, ApplyAudit, Goto, Return, Locked, ghosts
<1>2. (pc'[h] \in Locked /\ job'[h].plan = job[h].plan)
      \/ (pc'[h] = "idle" /\ job[h].plan \notin cached')
  <2>1. pc[h] \in Locked \ {"got"} => job[h].plan \notin cached
    BY DEF IInv, HeldInv
  <2>2. job[h] \in Job
    BY <1>0
  <2>3. CASE ApplyDelete(h)
    BY <1>0, <2>3 DEF ApplyDelete, Goto, Return, Locked
  <2>4. CASE ApplyReady(h)
    BY <1>0, <2>2, <2>4 DEF ApplyReady, Goto, Locked, Job
  <2>5. CASE ApplyValidate(h)
    BY <1>0, <2>1, <2>5 DEF ApplyValidate, Goto, Return, Locked
  <2>6. CASE ApplySnapshot(h)
    BY <1>0, <2>2, <2>6 DEF ApplySnapshot, Goto, Locked, Job
  <2>7. CASE ApplySnapshotFails(h)
    BY <1>0, <2>1, <2>7 DEF ApplySnapshotFails, Goto, Return, Locked
  <2>8. CASE ApplyReject(h)
    BY <1>0, <2>2, <2>8 DEF ApplyReject, Goto, Locked, Job
  <2>9. CASE ApplyAudit(h)
    BY <1>0, <2>1, <2>9 DEF ApplyAudit, Goto, Return, Locked
  <2> QED  BY <2>3, <2>4, <2>5, <2>6, <2>7, <2>8, <2>9
<1>3. "idle" \notin Locked
  BY DEF Locked
<1>4. \A p \in Plans : Claimed(p)' => Claimed(p)
  BY <1>1, <1>2, <1>3 DEF Claimed
<1>5. \A p \in Plans : Claimed(p) /\ p \in cached' => Claimed(p)'
  BY <1>1, <1>2 DEF Claimed
<1> QED  BY <1>1, <1>4, <1>5 DEF Loses

LEMMA CrashLoses ==
    ASSUME IInv, Crash
    PROVE  Loses
<1>1. \A p : ~ Claimed(p)'
  BY DEF Crash, Claimed, Locked
<1> QED  BY <1>1 DEF Crash, Loses

\* The three steps that move a plan forward.
LEMMA StoreOffers ==
    ASSUME IInv, NEW h \in Handlers, NEW p \in Plans, PreviewStore(h, p)
    PROVE  Lifecycle!Offer(p)
<1>1. /\ pc' = [pc EXCEPT ![h] = "idle"] /\ \A g \in Handlers \ {h} : job'[g] = job[g]
      /\ pc[h] = "diffed" /\ pc \in [Handlers -> Stages]
      /\ cached' = cached \cup {p} /\ UNCHANGED commits /\ plan[p] = NoRec
      /\ \A q \in Plans \ {p} : plan'[q] = plan[q]
  BY DEF PreviewStore, Goto, Return, IInv, TypeOK, ghosts
<1>2. \A q : Claimed(q)' <=> Claimed(q)
  BY <1>1 DEF Claimed, Locked
<1>3. ~ Claimed(p) /\ commits[p] = 0 /\ p \notin cached
  BY <1>1 DEF Claimed, IInv, HeldInv, PlanInv
<1>4. Status(p) = "absent" /\ Status(p)' = "offered"
  BY <1>1, <1>2, <1>3 DEF Status, Claimed
<1>5. ASSUME NEW q \in Plans \ {p}  PROVE Status(q)' = Status(q)
  BY <1>1, <1>2 DEF Status, Claimed
<1> QED  BY <1>4, <1>5, OneMoves DEF Lifecycle!Offer

LEMMA GetClaims ==
    ASSUME IInv, NEW h \in Handlers, NEW p \in Plans, NEW tok \in Plans \cup {NoPlan},
           ApplyGet(h, p, tok)
    PROVE  Lifecycle!Claim(p)
<1>1. /\ pc' = [pc EXCEPT ![h] = "got"] /\ pc \in [Handlers -> Stages]
      /\ job'[h].plan = p /\ \A g \in Handlers \ {h} : job'[g] = job[g]
      /\ UNCHANGED <<cached, plan, commits>>
      /\ p \in cached /\ mu = NoHandler
  BY DEF IInv, TypeOK, NoJob, Gettable, ApplyGet, Goto, ghosts
<1>2. \A g \in Handlers : pc[g] \notin Locked
  BY <1>1, WriteConstants DEF IInv, LockInv, WriteConstants
<1>3. Claimed(p)' /\ \A q \in Plans \ {p} : ~ Claimed(q)'
  BY <1>1, <1>2 DEF Claimed, Locked
<1>4. \A q : ~ Claimed(q)
  BY <1>2 DEF Claimed
<1>5. commits[p] = 0
  BY <1>1 DEF IInv, PlanInv
<1>6. Status(p) = "offered" /\ Status(p)' = "claimed"
  BY <1>1, <1>3, <1>4, <1>5 DEF Status, Claimed
<1>7. ASSUME NEW q \in Plans \ {p}  PROVE Status(q)' = Status(q)
  BY <1>1, <1>3, <1>4 DEF Status, Claimed
<1> QED  BY <1>6, <1>7, OneMoves DEF Lifecycle!Claim

LEMMA CommitCommits ==
    ASSUME IInv, NEW h \in Handlers, ApplyCommit(h)
    PROVE  Lifecycle!Commit(job[h].plan)
<1> PICK p : p = job[h].plan
  OBVIOUS
<1>1. /\ pc[h] = "snapped" /\ pc' = [pc EXCEPT ![h] = "replied"] /\ pc \in [Handlers -> Stages]
      /\ \A g \in Handlers \ {h} : job'[g] = job[g]
      /\ UNCHANGED <<cached, plan>>
      /\ commits' = [commits EXCEPT ![p] = commits[p] + 1]
  BY DEF ApplyCommit, Goto, IInv, TypeOK
<1>2. job'[h].plan = p
  BY DEF ApplyCommit, Goto, IInv, TypeOK, Job
<1>3. p \in Plans /\ commits[p] = 0 /\ commits \in [Plans -> Nat]
  BY <1>1 DEF IInv, TypeOK, HeldInv, Locked
<1>4. \A q : Claimed(q)' <=> Claimed(q)
  BY <1>1, <1>2 DEF Claimed, Locked
<1>5. Claimed(p)
  BY <1>1 DEF Claimed, Locked
<1>6. commits'[p] = 1 /\ \A q \in Plans \ {p} : commits'[q] = commits[q]
  BY <1>1, <1>3
<1>7. Status(p) = "claimed" /\ Status(p)' = "committed"
  BY <1>3, <1>5, <1>6 DEF Status, Claimed
<1>8. ASSUME NEW q \in Plans \ {p}  PROVE Status(q)' = Status(q)
  BY <1>1, <1>4, <1>6 DEF Status, Claimed
<1>9. Lifecycle!Commit(p)
  BY <1>3, <1>7, <1>8, OneMoves DEF Lifecycle!Commit
<1> QED  BY <1>9

(* The engine implements the plan life cycle, for any number of handlers   *)
(* and plans: every step of the engine is a step of one plan, retires      *)
(* plans, or changes no plan's status (engine.go:113-350).                 *)
THEOREM EngineImplementsLifecycle == Spec => PlanLifecycleHolds
<1>1. Init => Lifecycle!Init
  <2>1. ASSUME Init, NEW p \in Plans  PROVE Status(p) = "absent"
    BY <2>1 DEF Init, Status, Locked
  <2> QED  BY <2>1 DEF Lifecycle!Init
<1>2. ASSUME IInv, [Next]_vars  PROVE [Lifecycle!Next]_Statuses
  <2>1. ASSUME Loses  PROVE [Lifecycle!Next]_Statuses
    BY <1>2, <2>1, LosesRetires
  <2>2. ASSUME NEW h \in Handlers, HandlerStep(h)  PROVE [Lifecycle!Next]_Statuses
    <3>1. CASE RollbackNoChanges(h) \/ PreviewDiff(h) \/ PreviewDrop(h) \/ CancelDelete(h)
      BY <1>2, <2>1, <3>1, QuietSteps, QuietLoses
    <3>2. ASSUME NEW p \in Plans, PreviewStore(h, p)  PROVE Lifecycle!Next
      BY <1>2, <3>2, StoreOffers DEF Lifecycle!Next
    <3>3. CASE \/ ApplyDelete(h) \/ ApplyReady(h) \/ ApplyValidate(h) \/ ApplySnapshot(h)
               \/ ApplySnapshotFails(h) \/ ApplyReject(h) \/ ApplyAudit(h)
      BY <1>2, <2>1, <3>3, ApplyLoses
    <3>4. CASE ApplyCommit(h)
      <4>1. job[h].plan \in Plans
        BY <1>2, <3>4 DEF ApplyCommit, IInv, HeldInv, Locked
      <4> QED  BY <1>2, <3>4, <4>1, CommitCommits DEF Lifecycle!Next
    <3> QED  BY <2>2, <3>1, <3>2, <3>3, <3>4 DEF HandlerStep
  <2>3. ASSUME NEW h \in Handlers, Request(h)  PROVE [Lifecycle!Next]_Statuses
    <3>1. ASSUME NEW p \in Plans, NEW tok \in Plans \cup {NoPlan}, ApplyGet(h, p, tok)
          PROVE  Lifecycle!Next
      BY <1>2, <3>1, GetClaims DEF Lifecycle!Next
    <3>2. CASE \/ \E ops \in Requests : Preview(h, ops)
               \/ \E s \in DOMAIN snaps : Rollback(h, s)
               \/ \E p \in Plans : CancelGet(h, p)
      BY <1>2, <2>1, <3>2, QuietSteps, QuietLoses
    <3> QED  BY <2>3, <3>1, <3>2 DEF Request
  <2>4. CASE Cleanup \/ (\E p \in Plans : EvictOnGet(p)) \/ UNCHANGED vars
    BY <1>2, <2>1, <2>4, QuietWorld, QuietLoses
  <2>5. CASE Environment
    BY <1>2, <2>1, <2>5, QuietWorld, QuietLoses, CrashLoses DEF Environment
  <2> QED  BY <1>2, <2>2, <2>3, <2>4, <2>5 DEF Next
<1>3. IInv /\ [Next]_vars => [Lifecycle!Next]_[p \in Plans |-> Status(p)]
  BY <1>2 DEF Statuses
<1> QED  BY <1>1, <1>3, InvariantHolds, PTL DEF Spec, PlanLifecycleHolds, Lifecycle!Spec

=============================================================================
