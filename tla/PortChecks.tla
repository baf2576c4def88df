----------------------------- MODULE PortChecks -----------------------------
(***************************************************************************)
(* internal/debug/diagnostics.go and connectivity.go: two analyses of      *)
(* logical switch ports, each a list of checks folded into one verdict.    *)
(*                                                                         *)
(* db is what the NB and SB caches hold: db.lsp, the existing ports;       *)
(* db.type, db.peer (the router-port or peer option), db.sw (the switch    *)
(* that lists the port), db.up, db.enabled, db.addressed; db.lrp, existing *)
(* router ports, and db.router, the router that lists one; db.pb[p], the   *)
(* binding of a port or NoBinding; db.chassis, existing chassis, and       *)
(* db.encaps, those with a tunnel endpoint; db.deny, pairs of a switch or  *)
(* port group and a port that a drop or reject ACL attached there names;   *)
(* db.pgroup[g], the ports of a port group.                                *)
(***************************************************************************)
EXTENDS Integers, Sequences, FiniteSets

CONSTANT None               \* a nil pointer or an absent option

NoBinding == [type |-> "", chassis |-> None, up |-> FALSE, exists |-> FALSE]

\* What the caches hold.
IsNetwork(db) == IsFiniteSet(db.lsp) /\ None \notin db.lrp

-----------------------------------------------------------------------------
\* diagnostics.go.  Each check yields a severity.

checkBinding(db, p) ==
    IF db.pb[p].exists THEN "healthy" ELSE IF db.type[p] = "" THEN "error" ELSE "warning"

checkPortState(db, p) == IF db.enabled[p] /\ db.up[p] THEN "healthy" ELSE "warning"

checkChassisHealth(db, p) ==
    IF db.pb[p].chassis = None
    THEN IF db.type[p] = "" THEN "error" ELSE "healthy"
    ELSE IF db.pb[p].chassis \in db.chassis THEN "healthy" ELSE "error"

typesConsistent(lspType, pbType) ==
    \/ lspType = pbType
    \/ lspType = "router" /\ pbType \in {"patch", "l3gateway", "chassisredirect"}
checkTypeConsistency(db, p) ==
    IF typesConsistent(db.type[p], db.pb[p].type) THEN "healthy" ELSE "warning"

checkAddresses(db, p) == IF db.type[p] = "" /\ ~ db.addressed[p] THEN "warning" ELSE "healthy"
checkRouterPeer(db, p) == IF db.peer[p] \in db.lrp THEN "healthy" ELSE "error"
checkPatchPeer(db, p)  == IF db.peer[p] \in db.lsp THEN "healthy" ELSE "error"
checkStaleChassis(db, p) == IF db.pb[p].chassis \in db.chassis THEN "healthy" ELSE "error"

\* addCheck folds the severities to the worst one.
Worst(sevs, levels) == levels[CHOOSE i \in DOMAIN levels :
                                /\ levels[i] \in sevs \/ i = Len(levels)
                                /\ \A j \in 1..(i - 1) : levels[j] \notin sevs]

\* diagnose: the checks that apply to the port, given the binding found for it.
diagnose(db, p) ==
    Worst({checkBinding(db, p), checkPortState(db, p), checkAddresses(db, p)}
          \cup (IF db.pb[p].exists
                THEN {checkChassisHealth(db, p), checkTypeConsistency(db, p)} ELSE {})
          \cup (IF db.type[p] = "router" THEN {checkRouterPeer(db, p)} ELSE {})
          \cup (IF db.type[p] = "patch" THEN {checkPatchPeer(db, p)} ELSE {})
          \cup (IF db.pb[p].chassis # None THEN {checkStaleChassis(db, p)} ELSE {}),
          <<"error", "warning", "healthy">>)

\* DiagnosePort: a port that is gone is an error of the request, not a verdict.
DiagnosePort(db, p) == IF p \in db.lsp THEN diagnose(db, p) ELSE "not found"

\* DiagnoseAll: the counters of the summary (the list is sorted by severity).
DiagnoseAll(db) ==
    LET n(sev) == Cardinality({p \in db.lsp : diagnose(db, p) = sev})
    IN  [total |-> Cardinality(db.lsp), error |-> n("error"),
         warning |-> n("warning"), healthy |-> n("healthy")]

-----------------------------------------------------------------------------
\* connectivity.go.

\* Router ports named by the router-type ports that a switch lists.
findRouterPortsOnSwitch(db, sw) ==
    {db.peer[p] : p \in {q \in db.lsp : db.sw[q] = sw /\ db.type[q] = "router"
                                        /\ db.peer[q] # None}}
findParentRouter(db, l) == IF l \in db.lrp THEN db.router[l] ELSE None

\* Mutant: two router ports without a known router count as one router.
findConnectingRouter_NilMatches(db, a, b) ==
    \E l \in findRouterPortsOnSwitch(db, a), m \in findRouterPortsOnSwitch(db, b) :
        findParentRouter(db, l) = findParentRouter(db, m)

\* Is there a router with a port on both switches?  An unknown switch has none.
findConnectingRouter(db, a, b) ==
    /\ a # None /\ b # None
    /\ \E l \in findRouterPortsOnSwitch(db, a), m \in findRouterPortsOnSwitch(db, b) :
        findParentRouter(db, l) # None /\ findParentRouter(db, l) = findParentRouter(db, m)

L2Check(db, src, dst) ==
    IF (db.sw[src] # None /\ db.sw[src] = db.sw[dst])
       \/ findConnectingRouter(db, db.sw[src], db.sw[dst])
    THEN "pass" ELSE "fail"

\* The router was just read from the same cache; it may be gone by now.
checkL3Connectivity(db, src, dst) ==
    IF db.sw[src] # db.sw[dst] /\ findConnectingRouter(db, db.sw[src], db.sw[dst])
    THEN {"pass", "warning"} ELSE {"skipped"}

checkACLs(db, src, dst) ==
    LET owners == ({db.sw[src], db.sw[dst]} \ {None})
                  \cup {g \in DOMAIN db.pgroup : {src, dst} \cap db.pgroup[g] # {}}
    IN  IF \E o \in owners : <<o, src>> \in db.deny \/ <<o, dst>> \in db.deny
        THEN "warning" ELSE "pass"

checkPhysicalRealization(db, p) ==
    CASE db.type[p] # "" -> "pass"
      [] db.type[p] = "" /\ db.pb[p].chassis = None -> "fail"
      [] OTHER -> IF db.pb[p].up THEN "pass" ELSE "warning"

checkEncapTunnel(db, src, dst) ==
    LET a == db.pb[src].chassis
        b == db.pb[dst].chassis
    IN  CASE a = None \/ b = None \/ a = b -> "skipped"
          [] OTHER -> IF {a, b} \subseteq db.chassis \cap db.encaps THEN "pass" ELSE "warning"

\* Check: the possible verdicts (the L3 check reads the cache once more).
Check(db, src, dst) ==
    IF src \notin db.lsp \/ dst \notin db.lsp THEN {"fail"}
    ELSE {Worst({L2Check(db, src, dst), l3, checkACLs(db, src, dst),
                 checkPhysicalRealization(db, src), checkPhysicalRealization(db, dst),
                 checkEncapTunnel(db, src, dst)},
                <<"fail", "warning", "pass">>) : l3 \in checkL3Connectivity(db, src, dst)}

-----------------------------------------------------------------------------
\* Reference: what the diagram of the network says.
SharesSegment(db, p, q) == db.sw[p] # None /\ db.sw[p] = db.sw[q]
SharesRouter(db, p, q) ==
    \E r, t \in {x \in db.lsp : db.type[x] = "router" /\ db.peer[x] \in db.lrp} :
        /\ db.sw[r] # None /\ db.sw[t] # None
        /\ SharesSegment(db, r, p) /\ SharesSegment(db, t, q)
        /\ db.router[db.peer[r]] # None
        /\ db.router[db.peer[r]] = db.router[db.peer[t]]

(* The two analyses, which read different columns and were written         *)
(* separately, do not contradict each other: when the connectivity check   *)
(* fails although the ports share a switch or a router, the diagnosis of   *)
(* one of the ports is an error, and the summary over all ports counts it. *)
FailureHasACause(db, src, dst) ==
    Check(db, src, dst) = {"fail"} =>
        \/ /\ "error" \in {DiagnosePort(db, src), DiagnosePort(db, dst)}
           /\ DiagnoseAll(db).error > 0
        \/ "not found" \in {DiagnosePort(db, src), DiagnosePort(db, dst)}
        \/ ~ SharesSegment(db, src, dst) /\ ~ SharesRouter(db, src, dst)

(* A verdict other than fail means the ports share a switch or a router.   *)
PassIsConnected(db, src, dst) ==
    Check(db, src, dst) # {"fail"} =>
        SharesSegment(db, src, dst) \/ SharesRouter(db, src, dst)

(* The question is symmetric although the code treats the source first:    *)
(* exchanging the ports does not change the verdict.                       *)
VerdictIsSymmetric(db, src, dst) == Check(db, src, dst) = Check(db, dst, src)
=============================================================================
