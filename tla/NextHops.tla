------------------------------ MODULE NextHops ------------------------------
(***************************************************************************)
(* internal/router/nexthop.go: for a static route, the MAC its router has  *)
(* cached or pinned for the next hop, and whether a changed MAC would ever *)
(* be noticed.                                                             *)
(*                                                                         *)
(* s describes one route: s.lrps, the router's ports in list order, a      *)
(* listed port may have no row (s.rows); s.net[p], the addresses inside    *)
(* the subnets of a port; s.out, the route's output_port or None; s.hop,   *)
(* its next hop [addr, form]: one address has several spellings, one that  *)
(* does not parse has addr = NoAddr and is its spelling; s.macs and        *)
(* s.stats, the rows of MAC_Binding and Static_MAC_Binding; s.opt and      *)
(* s.global, the two mac_binding_age_threshold options; s.now.             *)
(***************************************************************************)
EXTENDS Integers, Sequences, FiniteSets, SequencesExt, FiniteSetsExt

CONSTANTS Nil, NoAddr

\* What buildIndex reads for a route.
IsRoute(s) ==
    /\ s.lrps \in Seq(ToSet(s.lrps)) /\ Nil \notin ToSet(s.lrps)
    /\ {s.opt, s.global} \subseteq Int \cup {Nil} /\ s.now \in Int
    /\ \A b \in s.macs : b # Nil /\ b.ts \in Int
    /\ Nil \notin s.stats

\* parseThreshold: Nil stands for an empty, malformed or negative option.
parseThreshold(o) == o # Nil /\ o >= 0

threshold(s) ==
    IF parseThreshold(s.opt) THEN s.opt
    ELSE IF parseThreshold(s.global) THEN s.global ELSE 0

canonicalIP(ip) == IF ip.addr = NoAddr THEN ip.form ELSE ip.addr

\* buildIndex drops listed ports without a row: the positions of the others.
routerLRPs(s) == {i \in DOMAIN s.lrps : s.lrps[i] \in s.rows}

\* The first port of the router that is in the set, or Nil.
First(s, ports) ==
    LET hits == {i \in routerLRPs(s) : s.lrps[i] \in ports}
    IN  IF hits = {} THEN Nil ELSE s.lrps[Min(hits)]

\* The port named by the route when the router has it, else by the next hop.
resolveEgressLRP(s) ==
    IF s.out # Nil /\ First(s, {s.out}) # Nil THEN s.out
    ELSE IF s.hop.addr = NoAddr THEN Nil
    ELSE First(s, {p \in s.rows : s.hop.addr \in s.net[p]})

candidatePorts(s) ==
    IF resolveEgressLRP(s) # Nil THEN {resolveEgressLRP(s)} ELSE {s.lrps[i] : i \in routerLRPs(s)}

Matching(rows, s) == {b \in rows : canonicalIP(b.ip) = canonicalIP(s.hop)}

(* lookupMAC and lookupStatic: the rows that may be returned.  Two rows of *)
(* a port that spell the address differently share an index key, and the   *)
(* one listed last survives.  Without any port the row must be the only    *)
(* one with the address.                                                   *)
Lookup(rows, s) ==
    LET on(p) == {b \in Matching(rows, s) : b.port = p}
        port  == First(s, {p \in candidatePorts(s) : on(p) # {}})
    IN  CASE port # Nil -> on(port)
          [] port = Nil /\ candidatePorts(s) = {}
                /\ Cardinality(Matching(rows, s)) = 1 -> Matching(rows, s)
          [] OTHER -> {}

OrNil(set) == IF set = {} THEN {Nil} ELSE set

\* classify: the case order is the code's; dyn and stat are rows or Nil.
Age(s, dyn) == IF dyn.ts > s.now THEN 0 ELSE s.now - dyn.ts
classify(s, dyn, stat) ==
    LET aging == threshold(s) > 0
    IN  CASE stat # Nil /\ dyn # Nil /\ stat.mac # dyn.mac /\ ~ stat.override -> "mac-conflict"
          [] stat # Nil /\ ~ (dyn # Nil /\ stat.mac # dyn.mac /\ ~ stat.override) -> "pinned"
          [] stat = Nil /\ dyn = Nil -> "unresolved"
          [] OTHER -> IF aging /\ dyn.ts > 0 /\ Age(s, dyn) > threshold(s) THEN "stale"
                      ELSE IF ~ aging THEN "no-aging" ELSE "ok"

Severity(status) ==
    IF status \in {"mac-conflict", "stale", "no-aging"} THEN "warning" ELSE "healthy"

\* analyzeNextHop: a route without a next hop is left out of the report.
analyzeNextHop(s) ==
    {[status |-> classify(s, d, t), dyn |-> d, stat |-> t] :
        d \in OrNil(Lookup(s.macs, s)), t \in OrNil(Lookup(s.stats, s))}
Analyze(s) == IF s.hop.form \in {"", "discard"} THEN {} ELSE analyzeNextHop(s)

-----------------------------------------------------------------------------
(* A binding reported for a route was learned or pinned on a port of the   *)
(* route's own router: with overlapping addresses behind two routers, the  *)
(* MAC of the other one is never shown.  A router without ports is the     *)
(* only exception.                                                         *)
BindingIsOfThisRouter(s) ==
    \A h \in Analyze(s) : \A b \in {h.dyn, h.stat} \ {Nil} :
        b.port \in s.rows \cap ToSet(s.lrps) \/ routerLRPs(s) = {}

(* "healthy" is a promise: unless an override pins it, the MAC in use will *)
(* be aged out by ovn-northd, because the option that applies to this      *)
(* router, its own before the global one, sets a positive threshold that   *)
(* the row has not already outlived.                                       *)
HealthyIsRefreshed(s) ==
    \A h \in Analyze(s) :
        (Severity(h.status) = "healthy" /\ h.dyn # Nil /\ h.stat = Nil) =>
            LET applies == IF s.opt # Nil /\ s.opt >= 0 THEN s.opt ELSE s.global
            IN  /\ applies # Nil /\ applies > 0
                /\ h.dyn.ts > 0 => s.now - h.dyn.ts <= applies

(* When the route leaves through one port, learned and pinned MAC are      *)
(* compared on that port, so a conflict is a conflict of the two rows that *)
(* answer for the same (port, address).                                    *)
ConflictIsOnThePort(s) ==
    \A h \in Analyze(s) :
        h.status = "mac-conflict" =>
            \/ h.dyn.port = h.stat.port /\ canonicalIP(h.dyn.ip) = canonicalIP(h.stat.ip)
            \/ resolveEgressLRP(s) = Nil
=============================================================================
