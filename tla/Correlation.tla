---------------------------- MODULE Correlation ----------------------------
(***************************************************************************)
(* The joins of Northbound intent and Southbound state: the correlator     *)
(* (internal/correlate), the OVS correlator (internal/ovscorrelate) and    *)
(* the chassis inventory (internal/inventory).  Each was written with its  *)
(* own lookups; the properties say that they describe one network.         *)
(*                                                                         *)
(* n.lsp and n.lrp: existing switch and router ports; n.parent[x]: the     *)
(* switch or router that lists port x, or Nobody; n.pb[l]: the binding     *)
(* with logical_port l, [chassis, dp, up, type], for l in DOMAIN n.pb;     *)
(* n.chassis[u]: the existing chassis, [name, encaps]; n.encap: existing   *)
(* Encap rows; n.dp: existing datapaths.  The logical port of the gateway  *)
(* redirect of a router port l is Cr(l).                                   *)
(***************************************************************************)
EXTENDS Integers, Sequences, FiniteSets

CONSTANTS Nobody,
          CrName            \* CrName[l]: the name of router port l with the prefix "cr-"

Cr(l) == CrName[l]

\* What the caches hold; the schema has an index on the name of a chassis.
IsJoined(n) ==
    /\ Nobody \notin DOMAIN n.pb /\ Nobody \notin DOMAIN n.chassis
    /\ \A u, v \in DOMAIN n.chassis : n.chassis[u].name = n.chassis[v].name => u = v

-----------------------------------------------------------------------------
\* correlate.go.

\* Get of a chassis by the reference in a binding, which may dangle.
BoundChassis(n, pb) == IF pb.chassis \in DOMAIN n.chassis THEN pb.chassis ELSE Nobody

resolveBindingDetails(n, pb) ==
    LET ch == BoundChassis(n, pb)
    IN  [chassis |-> ch,
         encaps  |-> IF ch = Nobody THEN {} ELSE n.chassis[ch].encaps \cap n.encap,
         dp      |-> IF pb.dp \in n.dp THEN pb.dp ELSE Nobody]

NoDetails == [chassis |-> Nobody, encaps |-> {}, dp |-> Nobody]

\* A chain: the port on each side and what the binding leads to.
Chain(n, lsp, lrp, l) ==
    [lsp |-> lsp, lrp |-> lrp, pb |-> l, parent |-> Nobody,
     at  |-> IF l = Nobody THEN NoDetails ELSE resolveBindingDetails(n, n.pb[l])]

findPortBinding(n, l) == IF l \in DOMAIN n.pb THEN l ELSE Nobody

lspChain(n, p) == Chain(n, p, Nobody, findPortBinding(n, p))

lrpChain(n, p) ==
    Chain(n, Nobody, p, IF p \in DOMAIN n.pb THEN p ELSE findPortBinding(n, Cr(p)))

\* LSPDetail and LRPDetail, for a port that exists.
LSPDetail(n, p) == [lspChain(n, p) EXCEPT !.parent = n.parent[p]]
LRPDetail(n, p) == [lrpChain(n, p) EXCEPT !.parent = n.parent[p]]

\* SwitchDetail and RouterDetail: the chains of the listed ports that exist.
SwitchDetail(n, sw) == {lspChain(n, p) : p \in {q \in n.lsp : n.parent[q] = sw}}
RouterDetail(n, r)  == {lrpChain(n, p) : p \in {q \in n.lrp : n.parent[q] = r}}

\* The other direction: from a binding to its port, switch ports first.
PortBindingDetail(n, l) ==
    IF l \in n.lsp THEN [Chain(n, l, Nobody, l) EXCEPT !.parent = n.parent[l]]
    ELSE IF l \in n.lrp THEN [Chain(n, Nobody, l, l) EXCEPT !.parent = n.parent[l]]
    ELSE Chain(n, Nobody, Nobody, l)

\* ChassisDetail: the bindings hosted on a chassis, by the UUID they name.
ChassisDetail(n, u) == {l \in DOMAIN n.pb : n.pb[l].chassis = u}

-----------------------------------------------------------------------------
\* inventory.go.

\* loadCaches groups the bindings by the chassis UUID they name.
portsByChassis(n, u) == {l \in DOMAIN n.pb : n.pb[l].chassis # Nobody /\ n.pb[l].chassis = u}

summarizePorts(n, u) ==
    [total |-> Cardinality(portsByChassis(n, u)),
     up    |-> Cardinality({l \in portsByChassis(n, u) : n.pb[l].up})]
summarize(n, u) ==
    [name |-> n.chassis[u].name, encaps |-> n.chassis[u].encaps \cap n.encap,
     ports |-> summarizePorts(n, u)]

-----------------------------------------------------------------------------
\* ovscorrelate.go: an interface of the node sysid with the given iface-id.

Unbound(iface) == [iface |-> iface, bound |-> FALSE, chassis |-> Nobody,
                   here |-> FALSE, drift |-> FALSE]

resolveChassis(n, pb, sysid) ==
    LET ch == BoundChassis(n, pb)
    IN  IF ch = Nobody THEN [chassis |-> Nobody, here |-> FALSE]
        ELSE [chassis |-> n.chassis[ch].name, here |-> n.chassis[ch].name = sysid]

\* drift: the database says up while the link is down or reports an error.
drift(pb, link) == pb.up /\ link # "up"

ForInterface(n, sysid, iface, link) ==
    IF iface = Nobody \/ iface \notin DOMAIN n.pb THEN Unbound(iface)
    ELSE LET at == resolveChassis(n, n.pb[iface], sysid)
         IN  [iface |-> iface, bound |-> TRUE, chassis |-> at.chassis, here |-> at.here,
              drift |-> drift(n.pb[iface], link)]

-----------------------------------------------------------------------------
(* Following a port to its binding and back leads to the same port, parent *)
(* and chassis.  A router port reached through its redirect binding is the *)
(* exception: PortBindingDetail does not undo the "cr-" prefix.            *)
ChainsRoundTrip(n) ==
    /\ \A p \in n.lsp : LSPDetail(n, p).pb # Nobody =>
            PortBindingDetail(n, LSPDetail(n, p).pb) = LSPDetail(n, p)
    /\ \A p \in n.lrp : p \in DOMAIN n.pb /\ p \notin n.lsp =>
            PortBindingDetail(n, LRPDetail(n, p).pb) = LRPDetail(n, p)
    /\ \A p \in n.lsp : \A c \in SwitchDetail(n, n.parent[p]) :
            [c EXCEPT !.parent = n.parent[p]] = LSPDetail(n, c.lsp)
    /\ \A p \in n.lrp : \A c \in RouterDetail(n, n.parent[p]) :
            [c EXCEPT !.parent = n.parent[p]] = LRPDetail(n, c.lrp)

(* The correlated view of a chassis, the inventory and the chains of the   *)
(* ports count the same ports on every chassis.                            *)
ViewsAgreeOnChassis(n) ==
    \A u \in DOMAIN n.chassis :
        /\ Cardinality(ChassisDetail(n, u)) = summarize(n, u).ports.total
        /\ \A p \in n.lsp : LSPDetail(n, p).at.chassis = u => p \in ChassisDetail(n, u)
        /\ \A p \in n.lsp : LSPDetail(n, p).at.chassis = u =>
                LSPDetail(n, p).at.encaps = summarize(n, u).encaps

(* An interface is shown as bound on its own node exactly when the         *)
(* inventory counts its port on the chassis of that name, also when a      *)
(* chassis was removed and another row now has its name.                   *)
BoundHereIsInventoried(n) ==
    \A p \in DOMAIN n.pb, u \in DOMAIN n.chassis :
        ForInterface(n, n.chassis[u].name, p, "up").here <=> p \in portsByChassis(n, u)
=============================================================================
