---------------------------- MODULE WriteEngine ----------------------------
(***************************************************************************)
(* The two-phase write engine of internal/write: Preview reads the client  *)
(* cache, records a plan with its diff, snapshot and apply token, and      *)
(* parks it in a TTL cache; Apply takes the plan out of the cache under    *)
(* the engine mutex, re-validates, snapshots, and sends one OVSDB          *)
(* transaction whose wait operations assert the previewed values; the      *)
(* outcome is written to the audit table.  CancelPlan, the cleanup ticker  *)
(* and expired reads remove plans without the engine mutex.                *)
(*                                                                         *)
(* Every request runs in a goroutine (a handler) and is split at each      *)
(* point where other goroutines, the OVSDB server, other writers or a      *)
(* crash can come in between.  Rate limiting is the module RateLimiter: a  *)
(* refused request changes nothing here.                                   *)
(***************************************************************************)
EXTENDS Integers, Sequences, FiniteSets

CONSTANTS
    Handlers,      \* goroutines serving the write API
    NoHandler,     \* the engine mutex is free
    Plans,         \* plan ids; generateID never repeats one
    NoPlan,        \* no plan, or a token that was issued for no plan
    Rows,          \* row UUIDs of the Northbound database
    NoRow,         \* the row of a create operation: the server picks it
    Cols, Vals,    \* columns, and the plain values a column can hold
    Strong, Weak,  \* the columns that hold strong and weak references to rows
    DefaultVal,    \* value of a plain column a create leaves out
    Schema,        \* Schema[r][c]: the values the table of r allows in column c
    Roots,         \* rows of root tables: they exist without being referred to
    Deployments,   \* databases the engine may find when it first starts
    Histories,     \* and contents of the history store it may find
    Requests,      \* operation lists that clients submit
    TTL,           \* --write-plan-ttl
    MaxTime,       \* bound on the clock
    MaxSnaps,      \* bound on the snapshots in the history store
    MaxWrites,     \* bound on writes by other OVSDB clients
    MaxFaults      \* bound on link faults, suspensions and crashes

VARIABLES
    db,        \* db[r]: the row as the OVSDB server holds it
    cache,     \* cache[r]: the row in the libovsdb client cache
    link,      \* "live", "suspended" (monitors off, cache purged) or "down"
    now,       \* the clock PlanCache.now reads
    cached,    \* ids of the plans in PlanCache.plans
    plan,      \* plan[p]: the contents of plan p, once stored
    mu,        \* the holder of Engine.mu
    pc, job,   \* where each handler is, and its local variables
    snaps,     \* the history store: snapshot ids are positions
    audit,     \* the audit table
    writes, faults,            \* bounded counters of the environment
    commits, acked, blurred    \* observation only, see below

vars == <<db, cache, link, now, cached, plan, mu, pc, job, snaps, audit,
          writes, faults, commits, acked, blurred>>

(* commits[p] counts the transactions of plan p that the server committed, *)
(* acked holds the plans whose cancel was answered with success, blurred   *)
(* the plans whose outcome was hidden by a lost reply, a failed audit      *)
(* insert or a crash.                                                      *)
ghosts == <<commits, acked, blurred>>
world  == <<db, cache, link, now, writes, faults>>

---------------------------------------------------------------------------
(* Types *)

Value  == Vals \cup SUBSET Rows
Fields == UNION {[S -> Value] : S \in SUBSET Cols}
Row    == [life : {"unborn", "live", "dead"}, col : [Cols -> Value]]
Op     == [action : {"create"}, row : {NoRow}, fields : Fields]
          \cup [action : {"update", "delete"}, row : Rows, fields : Fields]
Store  == [Rows -> Row]
Diff   == [before : Row]

PlanRec == [ops : Seq(Op), diffs : Seq(Diff), snap : Nat, expires : Nat,
            warnings : SUBSET Rows]
NoRec   == [ops |-> <<>>, diffs |-> <<>>, snap |-> 0, expires |-> 0,
            warnings |-> {}]

(* Locals of a handler: the plan it works on, the token it presents (named *)
(* by the plan it was issued for), whether the cache was authoritative     *)
(* when it asked, the pre-apply snapshot, and how the transaction ended.   *)
Job   == [plan : Plans \cup {NoPlan}, tok : Plans \cup {NoPlan},
          ops : Seq(Op), diffs : Seq(Diff), warnings : SUBSET Rows,
          auth : BOOLEAN, snap : Nat, reply : {"none", "ok", "error"}]
NoJob == [plan |-> NoPlan, tok |-> NoPlan, ops |-> <<>>, diffs |-> <<>>,
          warnings |-> {}, auth |-> FALSE, snap |-> 0, reply |-> "none"]

AuditEntry == [plan : Plans, result : {"success", "error"}, snap : Nat]

\* Stages of Apply during which the handler holds Engine.mu.
Locked == {"got", "taken", "asked", "valid", "snapped", "replied"}
Stages == {"idle", "preview", "diffed", "cancel"} \cup Locked

---------------------------------------------------------------------------
(* The database server and the client cache *)

EmptyRow(life) ==
    [life |-> life,
     col  |-> [c \in Cols |-> IF c \in Strong \cup Weak THEN {} ELSE DefaultVal]]

Live(d, r)  == d[r].life = "live"
LiveRows(d) == {r \in Rows : Live(d, r)}

\* The rows that row q refers to strongly.
StrongRefs(d, q) == UNION {d[q].col[c] : c \in Strong}

\* The server refuses a transaction that leaves a strong reference to no row.
Referential(d) == \A q \in LiveRows(d) : StrongRefs(d, q) \subseteq LiveRows(d)

\* Every row of a non-root table is referred to strongly by a different row.
Settled(d) ==
    \A r \in LiveRows(d) \ Roots : \E q \in LiveRows(d) \ {r} : r \in StrongRefs(d, q)

(* Before it commits, the server collects the rows of non-root tables that *)
(* nothing refers to strongly any more, and with them what only they       *)
(* referred to; then it drops weak references to rows that are gone.       *)
Kept(d) ==
    UNION {S \in SUBSET LiveRows(d) :
              \A r \in S \ Roots : \E q \in S \ {r} : r \in StrongRefs(d, q)}

Purged(rows, c, v) == IF c \in Weak THEN v \cap rows ELSE v

Collect(d) ==
    LET kept == Kept(d) IN
    [r \in Rows |->
        IF r \in kept
        THEN [d[r] EXCEPT !.col = [c \in Cols |-> Purged(kept, c, d[r].col[c])]]
        ELSE IF Live(d, r) THEN EmptyRow("dead") ELSE d[r]]

ASSUME WriteConstants ==
    /\ NoHandler \notin Handlers /\ NoPlan \notin Plans /\ NoRow \notin Rows
    /\ Strong \subseteq Cols /\ Weak \subseteq Cols \ Strong
    /\ DefaultVal \in Vals
    /\ Schema \in [Rows -> [Cols -> SUBSET Value]]
    /\ IsFiniteSet(Rows) /\ Roots \subseteq Rows
    /\ Deployments \subseteq Store
    /\ \A d \in Deployments : Referential(d) /\ Settled(d)
    /\ Histories \subseteq Seq(Store)
    /\ Requests \subseteq Seq(Op)
    /\ {TTL, MaxTime, MaxSnaps, MaxWrites, MaxFaults} \subseteq Nat

\* The column values an operation leaves in a live row.
Merge(col, fields) ==
    [c \in Cols |-> IF c \in DOMAIN fields THEN fields[c] ELSE col[c]]

\* Positions of the operations of the given kind on row r.
Touching(ops, action, r) ==
    {i \in DOMAIN ops : ops[i].action = action /\ ops[i].row = r}
Creates(ops) == {i \in DOMAIN ops : ops[i].action = "create"}

\* Value of column c of row r after the updates of ops, the last one wins.
LastValue(d, ops, r, c) ==
    LET writers == {i \in Touching(ops, "update", r) : c \in DOMAIN ops[i].fields}
        last    == CHOOSE i \in writers : \A j \in writers : j <= i
    IN  IF writers = {} THEN d[r].col[c] ELSE ops[last].fields[c]

(* The database after the mutations of ops, when fresh[i] is the UUID the  *)
(* server gives to the row that operation i creates.                       *)
Mutate(d, ops, fresh) ==
    [r \in Rows |->
        IF \E i \in Creates(ops) : fresh[i] = r
        THEN LET i == CHOOSE i \in Creates(ops) : fresh[i] = r
             IN  [life |-> "live", col |-> Merge(EmptyRow("live").col, ops[i].fields)]
        ELSE IF ~ Live(d, r) THEN d[r]
        ELSE IF Touching(ops, "delete", r) # {} THEN EmptyRow("dead")
        ELSE [life |-> "live", col |-> [c \in Cols |-> LastValue(d, ops, r, c)]]]

\* What the server does with the database a transaction would leave.
ServerTakes(d) == Referential(d) /\ db' = Collect(d)

(* buildWaitOps: an update asserts the columns it changes, a delete only   *)
(* that the row is there, a create nothing.                                *)
WaitHolds(d, op, diff) ==
    CASE op.action = "update" ->
            /\ Live(d, op.row)
            /\ \A c \in DOMAIN op.fields : d[op.row].col[c] = diff.before.col[c]
      [] op.action = "delete" -> Live(d, op.row)
      [] OTHER -> TRUE

\* Mutant: only the first operation of a list gets its wait.
WaitsHold_FirstOnly(d, p) == p.ops # <<>> => WaitHolds(d, p.ops[1], p.diffs[1])

WaitsHold(d, p) ==
    \A i \in DOMAIN p.ops : WaitHolds(d, p.ops[i], p.diffs[i])

\* The rows that the fields of an operation refer to.
Refs(op) == UNION {op.fields[c] : c \in DOMAIN op.fields \cap (Strong \cup Weak)}

\* validateOps: references are looked up in the cache when it is authoritative.
Validates(auth, ops) ==
    auth => \A i \in DOMAIN ops : Refs(ops[i]) \subseteq LiveRows(cache)

\* SetReadyFunc(OVNDatabases.Ready)
NbReady == link = "live"

---------------------------------------------------------------------------
(* Initial state: a deployment, and an engine that just started.           *)

Init ==
    /\ db \in Deployments
    /\ cache = db
    /\ link = "live"
    /\ now = 0
    /\ cached = {}
    /\ plan = [p \in Plans |-> NoRec]
    /\ mu = NoHandler
    /\ pc = [h \in Handlers |-> "idle"]
    /\ job = [h \in Handlers |-> NoJob]
    /\ snaps \in Histories
    /\ audit = <<>>
    /\ writes = 0 /\ faults = 0
    /\ commits = [p \in Plans |-> 0]
    /\ acked = {} /\ blurred = {}

Goto(h, stage, j) ==
    /\ pc' = [pc EXCEPT ![h] = stage]
    /\ job' = [job EXCEPT ![h] = j]

Return(h) == Goto(h, "idle", NoJob)

\* TakeSnapshot stores what the cache holds.
TakeSnapshot == Len(snaps) < MaxSnaps /\ snaps' = Append(snaps, cache)

---------------------------------------------------------------------------
(* Preview, DryRun and Rollback.  None of them takes Engine.mu.            *)

Preview(h, ops) ==
    /\ pc[h] = "idle"
    /\ Goto(h, "preview", [NoJob EXCEPT !.ops = ops])
    /\ UNCHANGED <<world, cached, plan, mu, snaps, audit, ghosts>>

(* Rollback compares snapshot s with the cache, row by row: an update for  *)
(* each live row that differs (in map iteration order), a warning for each *)
(* row the cache does not have.                                            *)
RestoreOp(s, r) ==
    [action |-> "update", row |-> r,
     fields |-> [c \in {c \in Cols : snaps[s][r].col[c] # cache[r].col[c]}
                   |-> snaps[s][r].col[c]]]

Changed(s)  == {r \in Rows : Live(snaps[s], r) /\ Live(cache, r)
                             /\ snaps[s][r] # cache[r]}
Vanished(s) == {r \in Rows : Live(snaps[s], r) /\ ~ Live(cache, r)}

Rollback(h, s) ==
    /\ pc[h] = "idle"
    /\ \E order \in [1..Cardinality(Changed(s)) -> Changed(s)] :
         /\ \A r \in Changed(s) : \E i \in DOMAIN order : order[i] = r
         /\ Goto(h, "preview",
                 [NoJob EXCEPT !.warnings = Vanished(s),
                               !.ops = [i \in DOMAIN order |-> RestoreOp(s, order[i])]])
    /\ UNCHANGED <<world, cached, plan, mu, snaps, audit, ghosts>>

\* Nothing to restore: Rollback answers with a "no-changes" plan and stores none.
RollbackNoChanges(h) ==
    /\ pc[h] = "preview" /\ job[h].ops = <<>>
    /\ Return(h)
    /\ UNCHANGED <<world, cached, plan, mu, snaps, audit, ghosts>>

\* validateOps and computeDiffs: every update or delete target must be cached.
PreviewDiff(h) ==
    LET ops == job[h].ops IN
    /\ pc[h] = "preview" /\ ops # <<>>
    /\ IF /\ Validates(NbReady, ops)
          /\ \A i \in DOMAIN ops : ops[i].action # "create" => Live(cache, ops[i].row)
       THEN Goto(h, "diffed", [job[h] EXCEPT !.diffs =
              [i \in DOMAIN ops |->
                 [before |-> IF ops[i].action = "create" THEN EmptyRow("unborn")
                             ELSE cache[ops[i].row]]]])
       ELSE Return(h)
    /\ UNCHANGED <<world, cached, plan, mu, snaps, audit, ghosts>>

\* Snapshot, token and PlanCache.Store; rollback warnings ride on the plan.
PreviewStore(h, p) ==
    /\ pc[h] = "diffed"
    /\ plan[p] = NoRec
    /\ TakeSnapshot
    /\ plan' = [plan EXCEPT ![p] =
                  [ops |-> job[h].ops, diffs |-> job[h].diffs, snap |-> Len(snaps) + 1,
                   expires |-> now + TTL, warnings |-> job[h].warnings]]
    /\ cached' = cached \cup {p}
    /\ Return(h)
    /\ UNCHANGED <<world, mu, audit, ghosts>>

\* DryRun ends here, and so does a preview whose snapshot fails.
PreviewDrop(h) ==
    /\ pc[h] = "diffed"
    /\ Return(h)
    /\ UNCHANGED <<world, cached, plan, mu, snaps, audit, ghosts>>

---------------------------------------------------------------------------
(* The plan cache *)

Expired(p) == now > plan[p].expires
Gettable(p) == p \in cached /\ ~ Expired(p)

\* PlanCache.Get of an expired plan removes it and reports it missing.
EvictOnGet(p) ==
    /\ p \in cached /\ Expired(p)
    /\ cached' = cached \ {p}
    /\ UNCHANGED <<world, plan, mu, pc, job, snaps, audit, ghosts>>

\* Mutant: the filter keeps what it should drop.
Cleanup_KeepsExpired ==
    /\ \E p \in cached : Expired(p)
    /\ cached' = {p \in cached : Expired(p)}
    /\ UNCHANGED <<world, plan, mu, pc, job, snaps, audit, ghosts>>

\* PlanCache.Cleanup, run by the ticker of StartCleanup.
Cleanup ==
    /\ \E p \in cached : Expired(p)
    /\ cached' = {p \in cached : ~ Expired(p)}
    /\ UNCHANGED <<world, plan, mu, pc, job, snaps, audit, ghosts>>

\* Mutant: the status of the copy that Get returned is changed, and no more.
CancelDelete_MarksCopy(h) ==
    /\ pc[h] = "cancel"
    /\ acked' = acked \cup {job[h].plan}
    /\ Return(h)
    /\ UNCHANGED <<world, cached, plan, mu, snaps, audit, commits, blurred>>

\* CancelPlan: Get and Delete are two critical sections of the plan cache.
CancelGet(h, p) ==
    /\ pc[h] = "idle"
    /\ Gettable(p)
    /\ Goto(h, "cancel", [NoJob EXCEPT !.plan = p])
    /\ UNCHANGED <<world, cached, plan, mu, snaps, audit, ghosts>>

CancelDelete(h) ==
    /\ pc[h] = "cancel"
    /\ cached' = cached \ {job[h].plan}
    /\ acked' = acked \cup {job[h].plan}
    /\ Return(h)
    /\ UNCHANGED <<world, plan, mu, snaps, audit, commits, blurred>>

---------------------------------------------------------------------------
(* Apply *)

\* Lock the engine and Get the plan, with the token issued for plan tok.
ApplyGet(h, p, tok) ==
    /\ pc[h] = "idle"
    /\ mu = NoHandler
    /\ Gettable(p)
    /\ mu' = h
    /\ Goto(h, "got", [NoJob EXCEPT !.plan = p, !.tok = tok])
    /\ UNCHANGED <<world, cached, plan, snaps, audit, ghosts>>

\* Mutant: the plan stays in the cache while it is applied.
ApplyDelete_Keeps(h) ==
    /\ pc[h] = "got"
    /\ IF job[h].tok = job[h].plan
       THEN Goto(h, "taken", job[h]) /\ UNCHANGED mu
       ELSE Return(h) /\ mu' = NoHandler
    /\ UNCHANGED <<world, cached, plan, snaps, audit, ghosts>>

\* Mutant: a wrong token leaves the plan on offer.
ApplyDelete_Forgiving(h) ==
    /\ pc[h] = "got"
    /\ IF job[h].tok = job[h].plan
       THEN Goto(h, "taken", job[h]) /\ cached' = cached \ {job[h].plan} /\ UNCHANGED mu
       ELSE Return(h) /\ mu' = NoHandler /\ UNCHANGED cached
    /\ UNCHANGED <<world, plan, snaps, audit, ghosts>>

\* Delete the plan, then compare tokens: a wrong one has used the plan up.
ApplyDelete(h) ==
    /\ pc[h] = "got"
    /\ cached' = cached \ {job[h].plan}
    /\ IF job[h].tok = job[h].plan
       THEN Goto(h, "taken", job[h]) /\ UNCHANGED mu
       ELSE Return(h) /\ mu' = NoHandler
    /\ UNCHANGED <<world, plan, snaps, audit, ghosts>>

\* validateOps asks for readiness first and reads the cache afterwards.
ApplyReady(h) ==
    /\ pc[h] = "taken"
    /\ Goto(h, "asked", [job[h] EXCEPT !.auth = NbReady])
    /\ UNCHANGED <<world, cached, plan, mu, snaps, audit, ghosts>>

\* recordAudit: a failed insert is logged and otherwise ignored.
RecordAudit(p, result, snap) ==
    \/ /\ audit' = Append(audit, [plan |-> p, result |-> result, snap |-> snap])
       /\ UNCHANGED blurred
    \/ /\ audit' = audit
       /\ blurred' = blurred \cup {p}

ApplyValidate(h) ==
    LET p == job[h].plan IN
    /\ pc[h] = "asked"
    /\ IF Validates(job[h].auth, plan[p].ops)
       THEN Goto(h, "valid", job[h]) /\ UNCHANGED <<mu, audit, blurred>>
       ELSE Return(h) /\ mu' = NoHandler /\ RecordAudit(p, "error", 0)
    /\ UNCHANGED <<world, cached, plan, snaps, commits, acked>>

\* Mutant: the entry names the preview's snapshot instead of the fresh one.
ApplySnapshot_Reuses(h) ==
    /\ pc[h] = "valid"
    /\ TakeSnapshot
    /\ Goto(h, "snapped", [job[h] EXCEPT !.snap = plan[job[h].plan].snap])
    /\ UNCHANGED <<world, cached, plan, mu, audit, ghosts>>

ApplySnapshot(h) ==
    /\ pc[h] = "valid"
    /\ TakeSnapshot
    /\ Goto(h, "snapped", [job[h] EXCEPT !.snap = Len(snaps) + 1])
    /\ UNCHANGED <<world, cached, plan, mu, audit, ghosts>>

\* Mutant: the early return does not unlock.
ApplySnapshotFails_StaysLocked(h) ==
    /\ pc[h] = "valid"
    /\ Return(h)
    /\ UNCHANGED <<world, cached, plan, mu, snaps, audit, ghosts>>

\* The pre-apply snapshot fails: Apply returns without an audit entry.
ApplySnapshotFails(h) ==
    /\ pc[h] = "valid"
    /\ Return(h) /\ mu' = NoHandler
    /\ UNCHANGED <<world, cached, plan, snaps, audit, ghosts>>

(* transactOps.  The server commits the transaction when every wait holds  *)
(* and no strong reference is left to a missing row, and collects the rows *)
(* nothing holds any more; the reply can still be lost.                    *)
ApplyCommit(h) ==
    LET p == job[h].plan IN
    /\ pc[h] = "snapped"
    /\ link # "down"
    /\ WaitsHold(db, plan[p])
    /\ \E fresh \in [Creates(plan[p].ops) -> {r \in Rows : db[r].life = "unborn"}] :
         /\ \A i, j \in Creates(plan[p].ops) : fresh[i] = fresh[j] => i = j
         /\ ServerTakes(Mutate(db, plan[p].ops, fresh))
    /\ commits' = [commits EXCEPT ![p] = @ + 1]
    /\ \/ Goto(h, "replied", [job[h] EXCEPT !.reply = "ok"]) /\ UNCHANGED blurred
       \/ /\ Goto(h, "replied", [job[h] EXCEPT !.reply = "error"])
          /\ blurred' = blurred \cup {p}
    /\ UNCHANGED <<cache, link, now, writes, faults, cached, plan, mu, snaps, audit, acked>>

(* Nothing is committed: building an operation failed, a wait or a server  *)
(* constraint failed, or the transaction did not reach the server.         *)
ApplyReject(h) ==
    /\ pc[h] = "snapped"
    /\ Goto(h, "replied", [job[h] EXCEPT !.reply = "error"])
    /\ UNCHANGED <<world, cached, plan, mu, snaps, audit, ghosts>>

\* Mutant: the error of the transaction is not looked at.
ApplyAudit_AlwaysSuccess(h) ==
    /\ pc[h] = "replied"
    /\ RecordAudit(job[h].plan, "success", job[h].snap)
    /\ Return(h) /\ mu' = NoHandler
    /\ UNCHANGED <<world, cached, plan, snaps, commits, acked>>

ApplyAudit(h) ==
    /\ pc[h] = "replied"
    /\ RecordAudit(job[h].plan, IF job[h].reply = "ok" THEN "success" ELSE "error",
                   job[h].snap)
    /\ Return(h) /\ mu' = NoHandler
    /\ UNCHANGED <<world, cached, plan, snaps, commits, acked>>

---------------------------------------------------------------------------
(* The environment: other OVSDB clients, the monitor stream, link faults,  *)
(* snapshot sessions, the clock, and a crash of the process.               *)

\* Another client changes, deletes or inserts a row, or inserts it with the
\* reference that holds it; the server does the rest, as for a plan.
OtherWriter(r) ==
    /\ writes < MaxWrites /\ writes' = writes + 1
    /\ \/ /\ Live(db, r)
          /\ \/ \E c \in Cols : \E v \in Schema[r][c] \ {db[r].col[c]} :
                   ServerTakes([db EXCEPT ![r].col[c] = v])
             \/ ServerTakes([db EXCEPT ![r] = EmptyRow("dead")])
       \/ /\ db[r].life = "unborn"
          /\ \/ r \in Roots /\ ServerTakes([db EXCEPT ![r] = EmptyRow("live")])
             \/ \E q \in LiveRows(db), c \in Strong :
                   /\ db[q].col[c] \cup {r} \in Schema[q][c]
                   /\ ServerTakes([db EXCEPT ![r] = EmptyRow("live"), ![q].col[c] = @ \cup {r}])
    /\ UNCHANGED <<cache, link, now, faults, cached, plan, mu, pc, job, snaps, audit, ghosts>>

\* The monitor delivers the newest version of row r to the cache.
MonitorUpdate(r) ==
    /\ link = "live" /\ cache[r] # db[r]
    /\ cache' = [cache EXCEPT ![r] = db[r]]
    /\ UNCHANGED <<db, link, now, writes, faults, cached, plan, mu, pc, job, snaps, audit, ghosts>>

LinkFault ==
    /\ link = "live" /\ faults < MaxFaults /\ faults' = faults + 1
    /\ \/ link' = "down" /\ UNCHANGED cache
       \/ link' = "suspended" /\ cache' = [r \in Rows |-> EmptyRow("unborn")]
    /\ UNCHANGED <<db, now, writes, cached, plan, mu, pc, job, snaps, audit, ghosts>>

LinkUp ==
    /\ link # "live"
    /\ link' = "live" /\ cache' = db
    /\ UNCHANGED <<db, now, writes, faults, cached, plan, mu, pc, job, snaps, audit, ghosts>>

Tick ==
    /\ now < MaxTime /\ now' = now + 1
    /\ UNCHANGED <<db, cache, link, writes, faults, cached, plan, mu, pc, job, snaps, audit, ghosts>>

\* The process dies and starts again: memory is lost, the tables are not.
Crash ==
    /\ faults < MaxFaults /\ faults' = faults + 1
    /\ blurred' = blurred \cup {job[h].plan : h \in {h \in Handlers : pc[h] = "replied"}}
    /\ cached' = {}
    /\ mu' = NoHandler
    /\ pc' = [h \in Handlers |-> "idle"]
    /\ job' = [h \in Handlers |-> NoJob]
    /\ link' = "live" /\ cache' = db
    /\ UNCHANGED <<db, now, plan, snaps, audit, writes, commits, acked>>

---------------------------------------------------------------------------

HandlerStep(h) ==
    \/ RollbackNoChanges(h) \/ PreviewDiff(h) \/ PreviewDrop(h) \/ (\E p \in Plans : PreviewStore(h, p))
    \/ CancelDelete(h)
    \/ ApplyDelete(h) \/ ApplyReady(h) \/ ApplyValidate(h)
    \/ ApplySnapshot(h) \/ ApplySnapshotFails(h)
    \/ ApplyCommit(h) \/ ApplyReject(h) \/ ApplyAudit(h)

Request(h) ==
    \/ \E ops \in Requests : Preview(h, ops)
    \/ \E s \in DOMAIN snaps : Rollback(h, s)
    \/ \E p \in Plans : CancelGet(h, p)
    \/ \E p \in Plans, tok \in Plans \cup {NoPlan} : ApplyGet(h, p, tok)

Environment ==
    \/ \E r \in Rows : OtherWriter(r) \/ MonitorUpdate(r)
    \/ LinkFault \/ LinkUp \/ Tick \/ Crash

Next ==
    \/ \E h \in Handlers : HandlerStep(h) \/ Request(h)
    \/ \E p \in Plans : EvictOnGet(p)
    \/ Cleanup
    \/ Environment

Spec == Init /\ [][Next]_vars

(* A handler's goroutine runs until it returns, and the cleanup ticker     *)
(* keeps firing.  A transaction has no deadline in the code: that it       *)
(* returns, answered or with the connection broken, is assumed of the      *)
(* OVSDB server.                                                           *)
Fairness == (\A h \in Handlers : WF_vars(HandlerStep(h))) /\ WF_vars(Cleanup)
FairSpec == Spec /\ Fairness

---------------------------------------------------------------------------
(* Properties *)

\* Every variable has its type; in particular diffs stay 1:1 with operations.
TypeOK ==
    /\ db \in Store /\ cache \in Store
    /\ link \in {"live", "suspended", "down"}
    /\ now \in Nat
    /\ cached \subseteq Plans
    /\ plan \in [Plans -> PlanRec]
    /\ mu \in Handlers \cup {NoHandler}
    /\ pc \in [Handlers -> Stages]
    /\ job \in [Handlers -> Job]
    /\ snaps \in Seq(Store)
    /\ audit \in Seq(AuditEntry)
    /\ writes \in Nat /\ faults \in Nat
    /\ commits \in [Plans -> Nat]
    /\ acked \subseteq Plans /\ blurred \subseteq Plans

(* No plan is ever transacted twice, however Apply, CancelPlan, expiry and *)
(* a restart interleave: Apply takes the plan out of the cache under       *)
(* Engine.mu before it does anything else (engine.go:156-164).             *)
AtMostOnce == \A p \in Plans : commits[p] <= 1

(* What the operator reviewed is what runs: whatever a committed plan      *)
(* changes was announced in its diff, and every column it overwrites held  *)
(* the value the preview showed (buildWaitOps, engine.go:669-726).  What   *)
(* the diff does not name is the server's: rows of non-root tables that a  *)
(* deleted row, or a reference column the plan overwrites, held until then *)
(* and that no row holds any more, and weak references to rows that are    *)
(* gone (the tables of registry.go:176-201).  A row that a plan creates in *)
(* a non-root table is among them: no operation can refer to it.           *)

\* The values the diff shows for column c of row r: the old one, and an
\* update's when the preview showed the old one.
Shown(p, d, r, c) ==
    {d[r].col[c]} \cup
    {plan[p].ops[i].fields[c] : i \in {i \in Touching(plan[p].ops, "update", r) :
        c \in DOMAIN plan[p].ops[i].fields /\ plan[p].diffs[i].before.col[c] = d[r].col[c]}}

\* The rows whose strong references the plan cuts, and all that hangs on them.
Cut(ops) == {r \in Rows : \/ Touching(ops, "delete", r) # {}
                          \/ \E i \in Touching(ops, "update", r) :
                                DOMAIN ops[i].fields \cap Strong # {}}

Hanging(d, top) == {r \in Rows : \A S \in SUBSET Rows :
    top \subseteq S /\ (\A q \in S : StrongRefs(d, q) \cap Rows \subseteq S) => r \in S}

ApprovedRow(p, d, e, r) ==
    LET ops == plan[p].ops IN
    \/ /\ Live(d, r) /\ Live(e, r)
       /\ \A c \in Cols : \E v \in Shown(p, d, r, c) : e[r].col[c] = Purged(LiveRows(e), c, v)
    \/ /\ d[r].life = "unborn" /\ Live(e, r)
       /\ \E i \in Creates(ops) : \A c \in Cols :
             e[r].col[c] = Purged(LiveRows(e), c, Merge(EmptyRow("live").col, ops[i].fields)[c])
    \/ e[r].life = "dead" /\ Touching(ops, "delete", r) # {}
    \/ /\ e[r].life = "dead" /\ r \notin Roots
       /\ \A q \in LiveRows(e) : r \notin StrongRefs(e, q)
       /\ IF Live(d, r) THEN r \in Hanging(d, Cut(ops)) ELSE Creates(ops) # {}

ApprovedChange ==
    [][\A p \in Plans : commits'[p] # commits[p] =>
          \A r \in Rows : db'[r] # db[r] => ApprovedRow(p, db, db', r)]_vars

(* A cancel that was answered with success is final: no apply gets the     *)
(* plan any more, and only one that had it already can still commit it,    *)
(* since CancelPlan does not take Engine.mu (engine.go:342-350).           *)
CancelIsFinal ==
    [][\A h \in Handlers, p \in acked :
          pc[h] = "idle" /\ pc'[h] \in Locked => job'[h].plan # p]_vars

(* The audit table tells the truth: one entry per plan at most, "success"  *)
(* only for a committed plan, and "error" for a committed one only when    *)
(* the reply of the server was lost (engine.go:188-194, 648-651).          *)
AuditTruth ==
    /\ \A i \in DOMAIN audit : audit[i].result = "success" => commits[audit[i].plan] = 1
    /\ \A i \in DOMAIN audit :
          audit[i].result = "error" /\ commits[audit[i].plan] > 0 => audit[i].plan \in blurred
    /\ \A i, j \in DOMAIN audit : audit[i].plan = audit[j].plan => i = j

(* "Every applied mutation is recorded" (docs/explanation/write-safety.md) *)
(* once Apply has returned, unless the insert itself failed, the reply was *)
(* lost or the process died in between (engine.go:188-194, 551-573).       *)
CommitRecorded ==
    \A p \in Plans : commits[p] > 0 =>
        \/ p \in blurred
        \/ \E h \in Handlers : pc[h] = "replied" /\ job[h].plan = p
        \/ \E i \in DOMAIN audit : audit[i] = [plan |-> p, result |-> "success",
                                               snap |-> audit[i].snap]

(* A recorded success names a pre-apply snapshot that exists and is newer  *)
(* than the one its preview took, so there is a state to roll back to      *)
(* (engine.go:126-132, 178-193).                                           *)
RollbackBase ==
    \A i \in DOMAIN audit : audit[i].result = "success" =>
        /\ audit[i].snap \in DOMAIN snaps
        /\ plan[audit[i].plan].snap < audit[i].snap

(* The records of a write are complete: a committed plan has its audit     *)
(* entry once Apply has returned, and an entry of a success names a        *)
(* snapshot newer than the preview's to roll back to (engine.go:151-195).  *)
RecordsHold == CommitRecorded /\ RollbackBase

(* Why the above holds.  Engine.mu is held by the one handler in the       *)
(* locked stages of Apply; a plan in the cache is uncommitted; a plan that *)
(* Apply took is out of the cache for good and uncommitted until its reply *)
(* is in; an audited plan is neither on offer nor in work; a cancelled     *)
(* plan was stored and is not on offer.                                    *)
LockInv == \A h \in Handlers : pc[h] \in Locked <=> mu = h

PlanInv == \A p \in Plans :
    /\ p \in cached => plan[p] # NoRec /\ commits[p] = 0
    /\ plan[p] = NoRec => commits[p] = 0
    /\ commits[p] <= 1
    /\ plan[p].snap <= Len(snaps)

HeldInv == \A h \in Handlers : LET p == job[h].plan IN
    /\ pc[h] \in Locked \cup {"cancel"} => p \in Plans /\ plan[p] # NoRec
    /\ pc[h] \in Locked \ {"replied"} => commits[p] = 0
    /\ pc[h] \in Locked \ {"got"} => p \notin cached
    /\ pc[h] \in {"snapped", "replied"} => plan[p].snap < job[h].snap /\ job[h].snap <= Len(snaps)
    /\ pc[h] = "replied" =>
         /\ job[h].reply = "ok" => commits[p] = 1
         /\ job[h].reply # "ok" /\ commits[p] > 0 => p \in blurred

AuditInv == \A i \in DOMAIN audit : LET p == audit[i].plan IN
    /\ p \notin cached /\ plan[p] # NoRec
    /\ \A h \in Handlers : pc[h] \in Locked => job[h].plan # p

CancelInv == \A p \in acked : plan[p] # NoRec /\ p \notin cached

(* The inductive invariant behind AtMostOnce, AuditTruth, CommitRecorded   *)
(* and RollbackBase (engine.go:151-195).                                   *)
IInv == /\ TypeOK /\ LockInv /\ PlanInv /\ HeldInv /\ AuditInv
        /\ AuditTruth /\ CommitRecorded /\ RollbackBase

\* Status of a plan in PlanLifecycle.
Status(p) ==
    IF commits[p] > 0 THEN "committed"
    ELSE IF \E h \in Handlers : pc[h] \in Locked /\ job[h].plan = p THEN "claimed"
    ELSE IF p \in cached THEN "offered"
    ELSE IF plan[p] = NoRec THEN "absent" ELSE "retired"

Lifecycle == INSTANCE PlanLifecycle WITH status <- [p \in Plans |-> Status(p)]

(* The engine implements the plan life cycle: a plan is claimed by one     *)
(* apply at most, committed only while claimed, and never offered again    *)
(* after it was cancelled, expired or burned by a wrong token.             *)
PlanLifecycleHolds == Lifecycle!Spec

(* Every request is answered and gives Engine.mu back, whichever of its    *)
(* steps fails (engine.go:151-195).                                        *)
RequestsEnd ==
    \A h \in Handlers : pc[h] # "idle" \/ mu = h ~> pc[h] = "idle" /\ mu # h

(* An expired plan leaves the cache even if nobody asks for it             *)
(* (plan_cache.go:65-89).                                                  *)
ExpiredPlansLeave == \A p \in Plans : p \in cached /\ Expired(p) ~> p \notin cached

---------------------------------------------------------------------------
(* What comments and documents of the repository say, refuted by the code. *)

(* docs/explanation/write-safety.md:34: "If a targeted row changed or was  *)
(* deleted in the meantime, apply aborts".  The waits look at the columns  *)
(* an update changes and at nothing but existence for a delete.            *)
TargetRowsUnmoved ==
    [][\A p \in Plans : commits'[p] # commits[p] =>
          \A i \in DOMAIN plan[p].ops : plan[p].ops[i].action # "create" =>
              db[plan[p].ops[i].row] = plan[p].diffs[i].before]_vars

=============================================================================
