-------------------------- MODULE WriteValidation --------------------------
(***************************************************************************)
(* Validation of a write request, from validateOps in write/engine.go,     *)
(* write/validate.go and the registry: the shape of every operation, one   *)
(* database per plan, then the references of each operation, looked up in  *)
(* a cache that a reconnect or a snapshot session may empty meanwhile.     *)
(***************************************************************************)
EXTENDS Integers, Sequences, FiniteSets

CONSTANTS
    NRows,          \* rows that may be referred to, 1..NRows; 0 is an empty reference
    MaxPriority,    \* 32767
    MaxCacheEvents  \* bound: changes of the database and of the connection

VARIABLES
    ops,            \* the operations of the request
    target,         \* rows of the database
    nbRows,         \* rows of the Northbound cache
    nbReady,        \* the monitors are live
    cacheEvents,    \* counter of the bound
    vpc,            \* "shape", "ready", or the operation whose references are checked
    authoritative,  \* cacheAuthoritative
    verdict,        \* "none", "ok", "shape", "mixed", "missing", "duplicate", "range"
    always,         \* observation: rows that were in the database all the time
    unsettled       \* observation: the cache was not the database since readiness was read

validationVars == <<ops, target, nbRows, nbReady, cacheEvents, vpc, authoritative, verdict,
                    always, unsettled>>

NbTables == {"LS", "LSP", "NAT", "ACL"}
WriteTables == NbTables \cup {"Chassis"}        \* the registry; Chassis stands for its SB tables

\* An operation: does it name a row, which fields it sets ("col" is the column its table's check
\* is about, with a value) and a table that may not be writable.
Requests == [action : {"create", "update", "delete"}, table : WriteTables, uuid : BOOLEAN,
             fields : {{}, {"col"}, {"col", "_uuid"}, {"alien"}}, value : {0, NRows}]
            \cup [action : {"upsert"}, table : {"LS"}, uuid : {TRUE}, fields : {{"col"}}, value : {0}]
            \cup [action : {"delete"}, table : {"unknown"}, uuid : {TRUE}, fields : {{}}, value : {0}]

---------------------------------------------------------------------------
(* The registry and the shape of an operation *)

Get(t) == t \in WriteTables
Database(t) == IF t \in NbTables THEN "nb" ELSE "sb"
DeleteOnly(t) == t \notin NbTables
ReadOnlyFields == {"_uuid"}
ColumnsOf(t) == {"col", "_uuid"}

ValidateFields(op) == op.fields \cap ReadOnlyFields = {} /\ op.fields \subseteq ColumnsOf(op.table)

ValidateOperation(op) ==
    /\ op.action \in {"create", "update", "delete"} /\ Get(op.table)
    /\ DeleteOnly(op.table) => op.action = "delete"
    /\ op.action = "create" => ~ op.uuid /\ op.fields # {}
    /\ op.action = "update" => op.uuid /\ op.fields # {}
    /\ op.action = "delete" => op.uuid
    /\ ValidateFields(op)

ValidateSingleDatabase == Cardinality({Database(ops[i].table) : i \in DOMAIN ops}) <= 1

---------------------------------------------------------------------------
(* References *)

checkRefExists(v) == v = 0 \/ v \in nbRows

\* validateUUIDReferences and validateLSPReferences look for a row that must be there.
MissingRef(op) == op.table \in {"LS", "LSP"} /\ "col" \in op.fields /\ ~ checkRefExists(op.value)
\* validateNATReferences looks for one that must not.
DuplicateNAT(op) == /\ op.table = "NAT" /\ op.action = "create" /\ "col" \in op.fields
                    /\ op.value # 0 /\ op.value \in nbRows
\* validateACLReferences looks at the value only.
OutOfRange(op) == op.table = "ACL" /\ "col" \in op.fields /\ op.value \notin 0..MaxPriority

\* Mutant: the lookups do not ask whether the cache is authoritative.
ValidateReferences_Always(op) ==
    CASE MissingRef(op)   -> "missing"
      [] DuplicateNAT(op) -> "duplicate"
      [] OutOfRange(op)   -> "range"
      [] OTHER -> "ok"

ValidateReferences(op) ==
    CASE authoritative /\ MissingRef(op)   -> "missing"
      [] authoritative /\ DuplicateNAT(op) -> "duplicate"
      [] OutOfRange(op) -> "range"
      [] OTHER -> "ok"

---------------------------------------------------------------------------
(* validateOps *)

ValidationInit ==
    /\ ops \in {<<a>> : a \in Requests}
           \cup {<<a, b>> : a \in {r \in Requests : ValidateOperation(r)}, b \in {r \in Requests : ValidateOperation(r)}}
    /\ target \in SUBSET (1..NRows) /\ nbRows = target /\ nbReady = TRUE /\ cacheEvents = 0
    /\ vpc = "shape" /\ authoritative = FALSE /\ verdict = "none"
    /\ always = target /\ unsettled = FALSE

Cache == <<target, nbRows, nbReady, cacheEvents, always>>

Shape ==
    /\ vpc = "shape"
    /\ IF \E i \in DOMAIN ops : ~ ValidateOperation(ops[i]) THEN vpc' = "end" /\ verdict' = "shape"
       ELSE IF ~ ValidateSingleDatabase THEN vpc' = "end" /\ verdict' = "mixed"
       ELSE vpc' = "ready" /\ UNCHANGED verdict
    /\ UNCHANGED <<ops, authoritative, unsettled, Cache>>

\* Read once, before the first lookup.
ReadReady ==
    /\ vpc = "ready" /\ authoritative' = nbReady /\ vpc' = "refs1" /\ unsettled' = (nbRows # target)
    /\ UNCHANGED <<ops, verdict, Cache>>

CheckReferences ==
    \E i \in DOMAIN ops :
      /\ vpc = (IF i = 1 THEN "refs1" ELSE "refs2")
      /\ LET v == IF Database(ops[i].table) = "sb" THEN "ok" ELSE ValidateReferences(ops[i])
         IN  IF v # "ok" THEN verdict' = v /\ vpc' = "end"
             ELSE IF i = Len(ops) THEN verdict' = "ok" /\ vpc' = "end"
             ELSE vpc' = "refs2" /\ UNCHANGED verdict
      /\ UNCHANGED <<ops, authoritative, unsettled, Cache>>

---------------------------------------------------------------------------
(* External: the database and its client *)

Event == vpc # "end" /\ cacheEvents < MaxCacheEvents /\ cacheEvents' = cacheEvents + 1
Settled == unsettled' = (unsettled \/ nbRows' # target') /\ UNCHANGED <<ops, vpc, authoritative, verdict>>

RowChanges == /\ Event /\ \E r \in 1..NRows : target' = IF r \in target THEN target \ {r} ELSE target \cup {r}
              /\ always' = always \cap target' /\ UNCHANGED <<nbRows, nbReady>> /\ Settled
UpdateArrives == /\ nbReady /\ nbRows # target /\ vpc # "end" /\ nbRows' = target
                 /\ UNCHANGED <<target, nbReady, cacheEvents, always>> /\ Settled
Purge == /\ Event /\ nbReady /\ nbReady' = FALSE /\ nbRows' = {} /\ UNCHANGED <<target, always>> /\ Settled
CacheRestored == /\ ~ nbReady /\ vpc # "end" /\ nbReady' = TRUE /\ nbRows' = target
           /\ UNCHANGED <<target, cacheEvents, always>> /\ Settled

ValidationNext == \/ Shape \/ ReadReady \/ CheckReferences
                  \/ RowChanges \/ UpdateArrives \/ Purge \/ CacheRestored

ValidationSpec == ValidationInit /\ [][ValidationNext]_validationVars

---------------------------------------------------------------------------
(* Properties *)

(* validateOps (engine.go:591): a request whose references exist all along *)
(* is refused for a missing one only when the cache stopped being the      *)
(* database between the readiness flag and the lookup, and never while the *)
(* flag said that the cache does not count.                                *)
NoFalseMissing ==
    verdict = "missing" => /\ authoritative
                           /\ (\A i \in DOMAIN ops : ops[i].value \in always \cup {0}) => unsettled

(* What is accepted can be applied in one transaction: all operations are  *)
(* of one database and none writes a Southbound row.                       *)
AcceptedIsOneTransaction ==
    verdict = "ok" => \A i, j \in DOMAIN ops :
        /\ (ops[i].table \in NbTables) = (ops[j].table \in NbTables)
        /\ ops[i].table \notin NbTables => ops[i].action = "delete"
=============================================================================
