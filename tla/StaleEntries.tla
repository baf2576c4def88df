---------------------------- MODULE StaleEntries ----------------------------
(***************************************************************************)
(* The stale-entry report, from internal/debug/stale.go: it compares       *)
(* Southbound rows with the rows that justify them, table after table,     *)
(* while ports come and go, ovn-northd follows, the Northbound cache       *)
(* trails the Northbound database, and a reconnect or a snapshot session   *)
(* purges the caches, whose tables come back one by one.  bound and fdb    *)
(* are the Southbound rows as far as their updates have reached this       *)
(* client; sb tells which of the two tables are in its cache.              *)
(***************************************************************************)
EXTENDS Integers, Sequences, FiniteSets

CONSTANTS
    Lsps, Lrps,     \* names of switch ports and of router ports
    Special,        \* switch ports whose bindings have an exempt type
    MaxPortChanges  \* bound: ports created or deleted

VARIABLES
    nbDb, nbCache,  \* Northbound ports: in the database, in the cache
    bound,          \* Port_Binding rows, by logical port
    fdb,            \* FDB rows, by the port binding that their key names
    sb,             \* Southbound tables in the cache
    changes,        \* counter of the bound
    lapsed,         \* observation: rows that lost what justifies them after they were made
    pos,            \* the next step of DetectAll
    got,            \* the rows that the current check looks at
    names,          \* knownPorts
    blind,          \* observation: Port_Binding was not in the cache when FDB rows were judged
    trailing,       \* observation: the Northbound cache trailed at a read
    wrong           \* observation: reported rows that had not lapsed

staleVars == <<nbDb, nbCache, bound, fdb, sb, changes, lapsed, pos, got, names, blind, trailing, wrong>>

\* External: ovn-northd binds a switch port, and a router port and its redirect port.
BindingsOf(e) == IF e \in Lsps THEN {<<"port", e>>} ELSE {<<"port", e>>, <<"cr", e>>}
Fdb(b) == <<"fdb", b[2]>>

\* What a list of table t answers: nothing when the cache was purged.
Listed(t, rows) == IF t \in sb THEN rows ELSE {}

StaleEntriesInit ==
    /\ nbDb = {} /\ nbCache = {} /\ bound = {} /\ fdb = {} /\ sb = {"FDB", "Port_Binding"}
    /\ changes = 0 /\ lapsed = {}
    /\ pos = 1 /\ got = {} /\ names = {} /\ blind = FALSE /\ trailing = FALSE /\ wrong = {}

---------------------------------------------------------------------------
(* External: the databases *)

Reading == <<pos, got, names, blind, trailing, wrong>>

PortChange ==
    /\ changes < MaxPortChanges /\ changes' = changes + 1
    /\ \E e \in Lsps \cup Lrps :
         IF e \in nbDb THEN nbDb' = nbDb \ {e} /\ lapsed' = lapsed \cup (BindingsOf(e) \cap bound)
         ELSE nbDb' = nbDb \cup {e} /\ UNCHANGED lapsed
    /\ UNCHANGED <<nbCache, bound, fdb, sb, Reading>>

Northd ==
    /\ \/ \E e \in nbDb : /\ ~ BindingsOf(e) \subseteq bound /\ bound' = bound \cup BindingsOf(e)
                          /\ lapsed' = lapsed \ (BindingsOf(e) \ (bound \cup got))
       \/ \E e \in (Lsps \cup Lrps) \ nbDb :
            /\ BindingsOf(e) \cap bound # {} /\ bound' = bound \ BindingsOf(e)
            /\ lapsed' = lapsed \cup ({Fdb(b) : b \in BindingsOf(e)} \cap fdb)
    /\ UNCHANGED <<nbDb, nbCache, fdb, sb, changes, Reading>>

Learn == \E b \in bound : /\ Fdb(b) \notin fdb /\ fdb' = fdb \cup {Fdb(b)}
                          /\ UNCHANGED <<nbDb, nbCache, bound, sb, changes, lapsed, Reading>>

Deliver == nbCache # nbDb /\ nbCache' = nbDb /\ UNCHANGED <<nbDb, bound, fdb, sb, changes, lapsed, Reading>>

\* One client reconnects, or a session suspends both; the tables come back.
PurgeCaches ==
    /\ \/ sb # {} /\ sb' = {} /\ nbCache' \in {nbCache, {}}
       \/ nbCache # {} /\ nbCache' = {} /\ UNCHANGED sb
    /\ UNCHANGED <<nbDb, bound, fdb, changes, lapsed, Reading>>

Reload(t) == t \notin sb /\ sb' = sb \cup {t} /\ UNCHANGED <<nbDb, nbCache, bound, fdb, changes, lapsed, Reading>>

---------------------------------------------------------------------------
(* DetectAll *)

\* The lists of detectOrphanedFDB and of detectOrphanedPortBindings, in their order.
Lists == <<"fdb", "keys", "bindings", "lsps", "lrps", "orphans">>

At(s) == pos <= Len(Lists) /\ Lists[pos] = s /\ pos' = pos + 1
         /\ UNCHANGED <<nbDb, nbCache, bound, fdb, sb, changes, lapsed>>

ListFdb == At("fdb") /\ got' = Listed("FDB", fdb) /\ UNCHANGED <<names, blind, trailing, wrong>>

\* An FDB row whose port key no binding has.
detectOrphanedFDB == /\ At("keys") /\ got' = {} /\ blind' = ("Port_Binding" \notin sb)
                     /\ wrong' = (got \ {Fdb(b) : b \in Listed("Port_Binding", bound)}) \ lapsed
                     /\ UNCHANGED <<names, trailing>>

ListBindings == At("bindings") /\ got' = Listed("Port_Binding", bound) /\ UNCHANGED <<names, blind, trailing, wrong>>

ListPorts(s, kind) ==
    /\ At(s) /\ names' = names \cup UNION {BindingsOf(e) : e \in kind \cap nbCache}
    /\ trailing' = (trailing \/ nbCache # nbDb) /\ UNCHANGED <<got, blind, wrong>>

\* Localnet, gateway, local and vtep ports are left out.
Exempt(b) == b[2] \in Special

detectOrphanedPortBindings ==
    /\ At("orphans") /\ got' = {} /\ names' = {}
    /\ wrong' = wrong \cup ({b \in got \ names : ~ Exempt(b)} \ lapsed)
    /\ UNCHANGED <<blind, trailing>>

StaleEntriesNext == \/ PortChange \/ Northd \/ Learn \/ Deliver
                    \/ PurgeCaches \/ (\E t \in {"FDB", "Port_Binding"} : Reload(t))
                    \/ ListFdb \/ detectOrphanedFDB \/ ListBindings \/ ListPorts("lsps", Lsps)
                    \/ ListPorts("lrps", Lrps) \/ detectOrphanedPortBindings

StaleEntriesSpec == StaleEntriesInit /\ [][StaleEntriesNext]_staleVars

---------------------------------------------------------------------------
(* Properties *)

(* DetectAll (stale.go:44) lists rows before what justifies them, so that  *)
(* what changes in between hides orphans and makes none: a row whose port  *)
(* or binding did not go away after it was made is reported only if        *)
(* - it is an FDB row and Port_Binding had been purged from the cache      *)
(*   between the two lists (stale.go:111-116), when every FDB row is; or   *)
(* - it is a binding and the Northbound cache, trailing or purged, did not *)
(*   show its port.                                                        *)
OrphansLapsed == \A x \in wrong : IF x[1] = "fdb" THEN blind ELSE trailing
=============================================================================
