----------------------------- MODULE OVNClients -----------------------------
(***************************************************************************)
(* The Northbound and Southbound clients of internal/ovsdb/client.go.      *)
(* Connect creates two clients, connects and monitors them concurrently    *)
(* and hands out both or closes both.  A monitor is known by the attempt   *)
(* that made it and the tables it covers; a staged load makes one per      *)
(* table.  SuspendMonitors cancels the monitors whose cookies were kept    *)
(* and purges the caches, ResumeMonitors makes new ones, first for the     *)
(* Northbound database.  libovsdb (external) keeps the monitors across a   *)
(* lost connection and reloads them before it is connected again.          *)
(***************************************************************************)
EXTENDS Integers, FiniteSets, SequencesExt

CONSTANTS
    Tables, SkipTables,     \* the model's tables, MonitorOptions.SkipTables
    Staged,                 \* BatchDelay > 0
    MaxMonFaults,           \* bound on failing requests
    MaxDrops,               \* bound on lost connections
    MaxAttempts             \* bound on connects and resumes

VARIABLES
    cli,            \* database -> "none", "new", "up", "down", "closed"
    closings,       \* observation: how often a client was closed
    held,           \* monitors the library holds for the database
    rows,           \* tables whose rows are in the cache
    at,             \* position in startMonitor: 0, 1.., Failed
    fresh,          \* cookies collected by the startMonitor under way
    cookies,        \* nbCookies, sbCookies
    oper,           \* the operation under way, under OVNDatabases.mu
    handed,         \* Connect returned the handle
    susp,           \* OVNDatabases.suspended
    attempt, monFaults, drops

clientVars == <<cli, closings, held, rows, at, fresh, cookies, oper, handed, susp,
                attempt, monFaults, drops>>

Both   == {"nb", "sb"}
Failed == -1

ASSUME ClientConstants ==
    /\ IsFiniteSet(Tables) /\ SkipTables \subseteq Tables /\ Staged \in BOOLEAN
    /\ {MaxMonFaults, MaxDrops, MaxAttempts} \subseteq Nat

\* monitoredTables: what is left of the model after the skip list.
Wanted == Tables \ SkipTables

\* startMonitor's requests: all tables at once, or one after the other.
Requested == IF Staged THEN SetToSeq({{t} : t \in Wanted}) ELSE <<Wanted>>

Loaded(d) == at[d] = Len(Requested) + 1

ClientsInit ==
    /\ cli = [d \in Both |-> "none"] /\ closings = [d \in Both |-> 0]
    /\ held = [d \in Both |-> {}] /\ rows = [d \in Both |-> {}]
    /\ at = [d \in Both |-> 0] /\ fresh = [d \in Both |-> {}] /\ cookies = [d \in Both |-> {}]
    /\ oper = "none" /\ handed = FALSE /\ susp = FALSE
    /\ attempt = 0 /\ monFaults = 0 /\ drops = 0

Fault == monFaults < MaxMonFaults /\ monFaults' = monFaults + 1

CloseClients(D) ==
    /\ cli' = [d \in Both |-> IF d \in D THEN "closed" ELSE cli[d]]
    /\ closings' = [d \in Both |-> closings[d] + IF d \in D THEN 1 ELSE 0]
    /\ held' = [d \in Both |-> IF d \in D THEN {} ELSE held[d]]

---------------------------------------------------------------------------
(* Connect *)

\* Both clients are created, or the first is closed when the second fails.
NewClients ==
    /\ cli = [d \in Both |-> "none"]
    /\ \/ /\ cli' = [d \in Both |-> "new"] /\ oper' = "connect"
          /\ UNCHANGED <<closings, held, monFaults>>
       \/ Fault /\ CloseClients({"nb"}) /\ UNCHANGED oper
    /\ UNCHANGED <<rows, at, fresh, cookies, handed, susp, attempt, drops>>

\* connectAndMonitor dials.
Dial(d) ==
    /\ oper = "connect" /\ cli[d] = "new" /\ at[d] = 0
    /\ \/ cli' = [cli EXCEPT ![d] = "up"] /\ at' = [at EXCEPT ![d] = 1] /\ UNCHANGED monFaults
       \/ Fault /\ at' = [at EXCEPT ![d] = Failed] /\ UNCHANGED cli
    /\ UNCHANGED <<closings, held, rows, fresh, cookies, oper, handed, susp, attempt, drops>>

Collect(d, m) == fresh[d] \cup {m}

\* startMonitor returns no cookies when one of its requests fails.
Refused(d) ==
    /\ at' = [at EXCEPT ![d] = Failed]
    /\ fresh' = [fresh EXCEPT ![d] = {}]

\* The next request of startMonitor.  It fails with the connection, and a
\* table whose rows are already cached may be refused as inconsistent.
MonitorNext(d) ==
    LET tables == Requested[at[d]]
        m      == [by |-> attempt, tables |-> tables] IN
    /\ oper \in {"connect", "resume"} /\ at[d] \in 1..Len(Requested)
    /\ \/ /\ cli[d] = "up"
          /\ held'  = [held EXCEPT ![d] = @ \cup {m}]
          /\ rows'  = [rows EXCEPT ![d] = @ \cup tables]
          /\ fresh' = [fresh EXCEPT ![d] = Collect(d, m)]
          /\ at'    = [at EXCEPT ![d] = @ + 1]
          /\ UNCHANGED monFaults
       \/ /\ \/ cli[d] = "up" /\ Fault
             \/ (cli[d] # "up" \/ tables \cap rows[d] # {}) /\ UNCHANGED monFaults
          /\ Refused(d)
          /\ UNCHANGED <<held, rows>>
    /\ UNCHANGED <<cli, closings, cookies, oper, handed, susp, attempt, drops>>

\* Mutant: only the client that failed is closed.
ToClose_Failed == {d \in Both : at[d] = Failed}

ToClose == Both

\* Both goroutines are done: hand out the pair, or close it.
ConnectEnds ==
    /\ oper = "connect" /\ \A d \in Both : at[d] = Failed \/ Loaded(d)
    /\ oper' = "none"
    /\ \/ /\ \A d \in Both : Loaded(d)
          /\ handed' = TRUE /\ cookies' = fresh
          /\ UNCHANGED <<cli, closings, held>>
       \/ /\ \E d \in Both : at[d] = Failed
          /\ CloseClients(ToClose)
          /\ UNCHANGED <<handed, cookies>>
    /\ at' = [d \in Both |-> 0] /\ fresh' = [d \in Both |-> {}]
    /\ UNCHANGED <<rows, susp, attempt, monFaults, drops>>

---------------------------------------------------------------------------
(* SuspendMonitors, ResumeMonitors, Close *)

\* Every cookie is cancelled; a cancel may fail, and is not tried again.
SuspendMonitors ==
    /\ handed /\ oper = "none" /\ ~ susp /\ cli["nb"] # "closed"
    /\ \E kept \in {[d \in Both |-> {}]} \cup
                   {[e \in Both |-> IF e = d THEN {m} ELSE {}] : d \in Both, m \in cookies["nb"] \cup cookies["sb"]} :
          /\ \A d \in Both : kept[d] \subseteq cookies[d]
          /\ IF kept = [d \in Both |-> {}] THEN UNCHANGED monFaults ELSE Fault
          /\ held' = [d \in Both |-> held[d] \ (cookies[d] \ kept[d])]
    /\ cookies' = [d \in Both |-> {}] /\ rows' = [d \in Both |-> {}]
    /\ susp' = TRUE
    /\ UNCHANGED <<cli, closings, at, fresh, oper, handed, attempt, drops>>

ResumeMonitors ==
    /\ handed /\ oper = "none" /\ susp /\ attempt < MaxAttempts /\ cli["nb"] # "closed"
    /\ oper' = "resume" /\ attempt' = attempt + 1
    /\ at' = [at EXCEPT !["nb"] = 1]
    /\ UNCHANGED <<cli, closings, held, rows, fresh, cookies, handed, susp, monFaults, drops>>

\* The Northbound tables are back: go on with the Southbound ones.
ResumeSecond ==
    /\ oper = "resume" /\ Loaded("nb") /\ at["sb"] = 0
    /\ at' = [at EXCEPT !["sb"] = 1]
    /\ UNCHANGED <<cli, closings, held, rows, fresh, cookies, oper, handed, susp, attempt, monFaults, drops>>

ResumeOK == \A d \in Both : Loaded(d)

\* A failure returns at once and leaves the flag and the old cookies alone.
ResumeEnds ==
    /\ oper = "resume"
    /\ at["nb"] = Failed \/ at["sb"] = Failed \/ \A d \in Both : Loaded(d)
    /\ oper' = "none"
    /\ IF ResumeOK THEN cookies' = fresh /\ susp' = FALSE ELSE UNCHANGED <<cookies, susp>>
    /\ at' = [d \in Both |-> 0] /\ fresh' = [d \in Both |-> {}]
    /\ UNCHANGED <<cli, closings, held, rows, handed, attempt, monFaults, drops>>

\* OVNDatabases.Close, without the mutex.
CloseDatabases ==
    /\ handed /\ cli["nb"] # "closed"
    /\ CloseClients(Both)
    /\ UNCHANGED <<rows, at, fresh, cookies, oper, handed, susp, attempt, monFaults, drops>>

---------------------------------------------------------------------------
(* libovsdb *)

\* The connection is lost, then re-established with every monitor reloaded.
Drop(d) ==
    /\ cli[d] = "up" /\ drops < MaxDrops /\ drops' = drops + 1
    /\ cli' = [cli EXCEPT ![d] = "down"]
    /\ UNCHANGED <<closings, held, rows, at, fresh, cookies, oper, handed, susp, attempt, monFaults>>

Reconnect(d) ==
    /\ cli[d] = "down" /\ cli' = [cli EXCEPT ![d] = "up"]
    /\ rows' = [rows EXCEPT ![d] = UNION {m.tables : m \in held[d]}]
    /\ UNCHANGED <<closings, held, at, fresh, cookies, oper, handed, susp, attempt, monFaults, drops>>

ClientsNext ==
    \/ NewClients \/ ConnectEnds
    \/ SuspendMonitors \/ ResumeMonitors \/ ResumeSecond \/ ResumeEnds \/ CloseDatabases
    \/ \E d \in Both : Dial(d) \/ MonitorNext(d) \/ Drop(d) \/ Reconnect(d)

ClientsSpec == ClientsInit /\ [][ClientsNext]_clientVars

---------------------------------------------------------------------------

Ready == /\ \A d \in Both : cli[d] = "up"
         /\ ~ susp

\* States are well typed and a client is closed at most once.
ClientsTypeOK ==
    /\ cli \in [Both -> {"none", "new", "up", "down", "closed"}]
    /\ \A d \in Both : closings[d] <= 1 /\ at[d] \in Failed..(Len(Requested) + 1)
    /\ rows \in [Both -> SUBSET Wanted]
    /\ oper \in {"none", "connect", "resume"} /\ susp \in BOOLEAN

\* Connect is all or nothing (client.go:158-183): once it returned, either
\* both clients are in the caller's hands or both that were made are closed.
ConnectAllOrNothing ==
    oper = "none" /\ ~ handed => \A d \in Both : cli[d] \in {"none", "closed"}

\* A ready handle has every wanted table of both databases in its caches,
\* whatever failed, was lost or was retried before (client.go:407-409).
ReadyIsWhole ==
    handed /\ Ready => \A d \in Both : rows[d] = Wanted

\* While no request failed, every monitor a server holds is one that
\* SuspendMonitors can cancel: nothing streams unseen (client.go:419-424).
NoOrphanMonitor ==
    handed /\ oper = "none" /\ monFaults = 0 /\ drops = 0 =>
        \A d \in Both : held[d] \subseteq cookies[d]

(* The database clients: both connect or neither stays, a client is ready  *)
(* only when all its tables are monitored, and no monitor outlives its     *)
(* bookkeeping, with failing calls, lost connections and sessions.         *)
ClientsHold == ClientsTypeOK /\ ConnectAllOrNothing /\ ReadyIsWhole /\ NoOrphanMonitor
=============================================================================
