------------------------------ MODULE MCStores ------------------------------
(* The stores side by side: the bounded ones in memory, the snapshots of   *)
(* the history, and the priorities that a drain leaves in the Northbound   *)
(* database.  They share nothing, so a behaviour moves one of them and the *)
(* others keep their initial state.                                        *)
EXTENDS Stores, HistoryStore, HAFailover, TLC

CONSTANTS k1, k2, c1, c2, c3, ga, gb, a1, a2, b1, b3

\* A table with two rows and one without; the second column is optional, null in the row
\* k1 that the collector reads, missing in its k2 and in the k1 of a file.
Short == "name" :> "x"
Null  == ("name" :> "x") @@ ("tag" :> "null")
Long  == ("name" :> "x") @@ ("tag" :> "y")
Contents == (k1 :> {Null}) @@ (k2 :> {Short})
InTable  == (k1 :> "T1") @@ (k2 :> "T1")
ReadOrder == <<"T1", "T2">>
\* A file that holds a row twice, and one that differs in both rows.
Imported == {{<<k1, Short>>, <<k1, Long>>}, {<<k1, Short>>, <<k2, Long>>}}

\* Two gateways that share chassis c1, known by name or by an SB name.
HostOf  == (a1 :> c1) @@ (a2 :> c2) @@ (b1 :> c1) @@ (b3 :> c3)
InGroup == (a1 :> ga) @@ (a2 :> ga) @@ (b1 :> gb) @@ (b3 :> gb)
Named   == (ga :> "ha") @@ (gb :> "lrp")
SbNamed == ("ha" :> {}) @@ ("lrp" :> {}) @@ ("sb" :> {c1, c2})
Prios   == (a1 :> 2) @@ (a2 :> 1) @@ (b1 :> 1) @@ (b3 :> 2)
Before  == {{}, {c1}}

VARIABLE part

all == <<part, vars, ringVars, cacheVars, traceVars, reportVars, historyVars, haVars>>

StoresInit ==
    /\ part \in {"limiter", "ring", "cache", "trace", "event", "inventory", "health",
                 "history", "failover"}
    /\ Init /\ RingInit /\ CacheInit /\ TraceInit /\ ReportInit /\ HistoryInit /\ HAInit
    /\ part # "failover" => \A r \in HARows : nb[r].mark = NoMark

StoresNext ==
    /\ UNCHANGED part
    /\ \/ part = "limiter" /\ Next
          /\ UNCHANGED <<ringVars, cacheVars, traceVars, reportVars, historyVars, haVars>>
       \/ part = "ring" /\ RingNext
          /\ UNCHANGED <<vars, cacheVars, traceVars, reportVars, historyVars, haVars>>
       \/ part = "cache" /\ CacheNext
          /\ UNCHANGED <<vars, ringVars, traceVars, reportVars, historyVars, haVars>>
       \/ ((part = "trace" /\ TraceNext) \/ (part = "event" /\ EventNext))
          /\ UNCHANGED <<vars, ringVars, cacheVars, reportVars, historyVars, haVars>>
       \/ ((part = "inventory" /\ InventoryNext) \/ (part = "health" /\ HealthNext))
          /\ UNCHANGED <<vars, ringVars, cacheVars, traceVars, historyVars, haVars>>
       \/ part = "history" /\ HistoryNext
          /\ UNCHANGED <<vars, ringVars, cacheVars, traceVars, reportVars, haVars>>
       \/ part = "failover" /\ HANext
          /\ UNCHANGED <<vars, ringVars, cacheVars, traceVars, reportVars, historyVars>>

StoresSpec == StoresInit /\ [][StoresNext]_all

\* The configuration lists the properties of Stores (StoresHold, StoresSteps),
\* HistoryStore (HistoryHolds, HistorySteps) and HAFailover (FailoverHolds, FailoverSteps).
=============================================================================
