------------------------------- MODULE OVNSim -------------------------------
(***************************************************************************)
(* The lab's load generator, from internal/ovnsim and cmd/ovnsim: seed,    *)
(* run, bind, unbind and clean, one command at a time, against a           *)
(* Northbound database that also holds rows of others and chassis whose    *)
(* OVS ports bind the logical ports.  A command is a list of transactions  *)
(* and ovs-vsctl calls; any of them may fail, before or after its effect.  *)
(***************************************************************************)
EXTENDS Integers, Sequences, FiniteSets, FiniteSetsExt, SequencesExt

CONSTANTS
    Switches, Routers, PortsPerSwitch,  \* Options
    NChassis,       \* len(Options.Chassis) and of the binder's list
    MaxIndex,       \* bound: the index of a switch or router run creates
    MaxEvents       \* bound: simulator actions and failed calls, together

VARIABLES
    db,             \* the Northbound rows
    ovs,            \* the OVS ports on the chassis: <<chassis, logical port>>
    cmd,            \* the command that runs, or "idle"
    todo,           \* what is left of it
    binder,         \* run was started with --bind-ports
    seq,            \* Simulator.seq
    steps, faults,  \* counters of the bounds
    last,           \* observation: the last command but run, and how it ended
    pristine        \* observation: only seed and a completed clean since the start

simVars == <<db, ovs, cmd, todo, binder, seq, steps, faults, last, pristine>>

ASSUME SimConstants == /\ {Switches, Routers, NChassis} \subseteq Nat \ {0}
                       /\ PortsPerSwitch \in Nat /\ MaxIndex >= Switches

LabChassis == 1..NChassis
Nowhere == 0

---------------------------------------------------------------------------
(* External: the Northbound database, by the schema in internal/ovsdb/nb.  *)
(* A row has a table, a name, a copy number that tells rows of one name    *)
(* apart, the row that holds it (a non-root row without one is collected), *)
(* the simulator's nw-kind marker ("" when it is not the simulator's), one *)
(* mutable column and the nw-bound-chassis marker.                         *)

Roots == {"LS", "LR", "LB", "LBG", "PG", "AS", "Meter", "DHCP", "DNS", "Copp", "HAG"}
Indexed == {"LSP", "LRP", "LBG", "PG", "AS", "Meter", "Copp", "HAG", "GC"}

Key(r) == <<r.t, r.n, r.k>>
NewKey(t, n) == LET used == {r.k : r \in {x \in db : x.t = t /\ x.n = n}}
                IN  <<t, n, Min({k \in 0..Cardinality(used) : k \notin used})>>
Row(t, n, of, kind) == [t |-> t, n |-> n, k |-> NewKey(t, n)[3], of |-> of, kind |-> kind,
                        val |-> 1, at |-> Nowhere]
Top == <<>>

Table(t)  == {r \in db : r.t = t}
Kids(p)   == {r \in db : r.of = Key(p)}
Orphans(rows) == LET keys == {Key(p) : p \in rows} \cup {Top}
                 IN  {r \in rows : r.of \notin keys}
Collect(rows) == LET once == rows \ Orphans(rows) IN once \ Orphans(once)

\* An index has a second row of the name.
Clash(new) == \E a \in new : a.t \in Indexed
                 /\ \E b \in (db \cup new) \ {a} : b.t = a.t /\ b.n = a.n
\* Logical_Router_Port.ha_chassis_group is a strong reference.
Referred(r) == r.t = "HAG" /\ \E p \in Table("LRP") : p.n = <<"gw", r.n[2]>>

---------------------------------------------------------------------------
(* Ownership and lists *)

owned(r) == r.kind # ""
listOwned(t) == {r \in Table(t) : owned(r)}
hasOwned(t) == listOwned(t) # {}
nameSet(t) == {r.n : r \in Table(t)}
Others == {<<"other">>, <<"other", 1>>}     \* names without the prefix
Vifs == {r \in listOwned("LSP") : r.kind = "vif"}

usedIndices(rows, prefix) == {r.n[2] : r \in {x \in rows : x.n[1] = prefix}}

freeIndex(used) == CHOOSE i \in 1..(Cardinality(used) + 1) : i \notin used /\ 1..(i - 1) \subseteq used

routerForSwitch(s) == ((s - 1) % Routers) + 1

---------------------------------------------------------------------------
(* What each transaction of seed inserts *)

useHA(r) == r % 2 = 0

RouterRows(r) ==
    LET lr == NewKey("LR", <<"lr", r>>)  grp == NewKey("HAG", <<"hag", r>>)
        gw == NewKey("LRP", <<"gw", r>>) pub == NewKey("LS", <<"pub", r>>)
        mine == {s \in 1..Switches : routerForSwitch(s) = r}
    IN  {Row("LR", <<"lr", r>>, Top, "router"), Row("LRP", <<"gw", r>>, lr, "gateway-port"),
         Row("Route", <<"route", r>>, lr, "route"), Row("Policy", <<"policy", r>>, lr, "policy"),
         Row("LS", <<"pub", r>>, Top, "ext-switch"),
         Row("LSP", <<"ln", r>>, pub, "localnet"), Row("LSP", <<"rl", r>>, pub, "router-link")}
        \cup {Row("LRP", <<"lrp", r, s>>, lr, "router-port") : s \in mine}
        \cup {Row("NAT", <<"nat", r, s>>, lr, "nat") : s \in mine}
        \cup IF useHA(r)
             THEN {Row("HAG", <<"hag", r>>, Top, "ha-chassis-group")}
                  \cup {[Row("HC", <<"hc", c>>, grp, "ha-chassis") EXCEPT !.val = 10 - c] : c \in LabChassis}
             ELSE {Row("GC", <<"gc", r>>, gw, "gateway-chassis")}

SwitchRows(s) ==
    LET ls == NewKey("LS", <<"ls", s>>)
    IN  {Row("DHCP", <<"dhcp", s>>, Top, "dhcp"), Row("LS", <<"ls", s>>, Top, "switch"),
         Row("LSP", <<"up", s>>, ls, "router-link"), Row("ACL", <<"acl", s>>, ls, "acl"),
         Row("QoS", <<"qos", s>>, ls, "qos")}
        \cup {Row("LSP", <<"vif", s, p>>, ls, "vif") : p \in 1..PortsPerSwitch}

ExtraUnits == <<"pg", "as-web", "as-db", "lb", "meter", "dns", "copp">>

SecurityRows(u) ==
    IF u = "pg" THEN {Row("PG", <<"pg">>, Top, "port-group"),
                      Row("ACL", <<"http">>, NewKey("PG", <<"pg">>), "acl"),
                      Row("ACL", <<"drop">>, NewKey("PG", <<"pg">>), "acl")}
    ELSE {Row("AS", <<u>>, Top, "address-set")}

ServiceRows(u) ==
    CASE u = "lb"    -> {Row("LB", <<"lb", i>>, Top, "load-balancer") : i \in 1..2}
                        \cup {Row("LBG", <<"lb-group">>, Top, "")}  \* it has no external_ids
      [] u = "meter" -> {Row("Meter", <<"meter">>, Top, "meter")}
      [] u = "dns"   -> {Row("DNS", <<"dns">>, Top, "dns")}
      [] u = "copp"  -> {Row("Copp", <<"copp">>, Top, "copp")}

ExtraRows(u) == IF u \in {"pg", "as-web", "as-db"} THEN SecurityRows(u) ELSE ServiceRows(u)

Present(u) == CASE u = "pg" -> <<"pg">> \in nameSet("PG")
                [] u \in {"as-web", "as-db"} -> <<u>> \in nameSet("AS")
                [] u = "lb" -> <<"lb", 1>> \in nameSet("LB")
                [] u = "meter" -> <<"meter">> \in nameSet("Meter")
                [] u = "dns" -> hasOwned("DNS")
                [] u = "copp" -> <<"copp">> \in nameSet("Copp")

\* One unit of seed; the names of routers and switches were checked at its start.
UnitRows(op) ==
    CASE op.do = "router" -> RouterRows(op.c)
      [] op.do = "switch" -> SwitchRows(op.c)
      [] OTHER -> IF Present(op.do) THEN {} ELSE ExtraRows(op.do)

---------------------------------------------------------------------------
(* Commands *)

Op(do, n, c) == [do |-> do, n |-> n, c |-> c]
Units == {"router", "switch"} \cup ToSet(ExtraUnits)

SimInit ==
    /\ db = {[t |-> t, n |-> n, k |-> 0, of |-> Top, kind |-> "", val |-> 1, at |-> Nowhere] :
                <<t, n>> \in {<<"LS", <<"ls", Switches + 1>> >>, <<"LR", <<"other">> >>,
                              <<"LBG", <<"other">> >>, <<"DNS", <<"other">> >>, <<"HAG", <<"other", 1>> >>}}
            \cup {[t |-> t, n |-> <<"other">>, k |-> 0, of |-> of, kind |-> "", val |-> 1, at |-> Nowhere] :
                <<t, of>> \in {<<"LSP", <<"LS", <<"ls", Switches + 1>>, 0>> >>,
                               <<"NAT", <<"LR", <<"other">>, 0>> >>,
                               <<"HC", <<"HAG", <<"other", 1>>, 0>> >>}}
    /\ ovs = {} /\ cmd = "idle" /\ todo = <<>> /\ binder = FALSE /\ seq = 0
    /\ steps = 0 /\ faults = 0 /\ last = <<"none", "ok">> /\ pristine = TRUE

Start(c, ops, p) ==
    /\ cmd = "idle" /\ cmd' = c /\ todo' = ops /\ pristine' = p /\ last' = <<"none", "ok">>
    /\ UNCHANGED <<db, ovs, seq, steps, faults>>

Missing(t, prefix, n) == SelectSeq([i \in 1..n |-> i], LAMBDA i : <<prefix, i>> \notin nameSet(t))

Seed ==
    LET rs == Missing("LR", "lr", Routers)  ss == Missing("LS", "ls", Switches)
    IN  Start("seed", [i \in DOMAIN rs |-> Op("router", Top, rs[i])]
                      \o [i \in DOMAIN ss |-> Op("switch", Top, ss[i])]
                      \o [i \in DOMAIN ExtraUnits |-> Op(ExtraUnits[i], Top, 0)], pristine)
        /\ UNCHANGED binder

\* The VIFs of a command's list, in some order; BindAll goes round the chassis.
BindOps(vs) == FlattenSeq([i \in DOMAIN vs |->
    LET c == ((i - 1) % NChassis) + 1 IN <<Op("bind", vs[i].n, c), Op("mark", vs[i].n, c)>>])
UnbindOps(vs) == FlattenSeq([i \in DOMAIN vs |->
    <<Op("unbind", vs[i].n, vs[i].at), Op("mark", vs[i].n, Nowhere)>>])

UnboundVifs == {v \in Vifs : v.at = Nowhere}

BindAll   == UnboundVifs # {} /\ Start("bind", BindOps(SetToSeq(UnboundVifs)), pristine) /\ UNCHANGED binder
UnbindAll == /\ Vifs \ UnboundVifs # {}
             /\ Start("unbind", UnbindOps(SetToSeq(Vifs \ UnboundVifs)), pristine) /\ UNCHANGED binder

\* Mutant: the HA groups, whose members no router deletion collects, are left out.
CleanSteps_NoGroups == <<"LS", "LR", "LB", "PG", "AS", "Meter", "DHCP", "DNS", "Copp", "LBG">>

CleanSteps == <<"LS", "LR", "LB", "PG", "AS", "Meter", "DHCP", "DNS", "Copp", "HAG", "LBG">>

Clean == Start("clean", [i \in DOMAIN CleanSteps |-> Op("clean", <<CleanSteps[i]>>, 0)], FALSE)
         /\ UNCHANGED binder

\* cmdRun: with --bind-ports the unbound VIFs are bound first.
StartRun ==
    /\ \E b \in BOOLEAN : binder' = b /\ todo' = IF b THEN BindOps(SetToSeq(UnboundVifs)) ELSE <<>>
    /\ cmd = "idle" /\ cmd' = "run" /\ seq' = 0 /\ pristine' = FALSE /\ last' = <<"none", "ok">>
    /\ UNCHANGED <<db, ovs, steps, faults>>

\* Ctrl-C between two steps.
StopRun == cmd = "run" /\ todo = <<>> /\ cmd' = "idle" /\ binder' = FALSE /\ seq' = 0
           /\ UNCHANGED <<db, ovs, todo, steps, faults, last, pristine>>

---------------------------------------------------------------------------
(* One transaction or ovs-vsctl call *)

Ends(how) == /\ cmd' = IF cmd = "run" THEN "run" ELSE "idle"
             /\ todo' = <<>> /\ last' = IF cmd = "run" THEN last ELSE <<cmd, how>>
             /\ pristine' = (pristine \/ (cmd = "clean" /\ how = "ok"))

Advance == IF Len(todo) = 1 THEN Ends("ok")
           ELSE todo' = Tail(todo) /\ UNCHANGED <<cmd, last, pristine>>

\* Load_Balancer_Group has no external_ids and is matched by its name.
Victims(t) == IF t = "LBG" THEN {r \in Table(t) : r.n \notin Others} ELSE listOwned(t)

\* recordBoundChassis rewrites the external_ids of one VIF.
Marked(rows, n, c) == {IF r.t = "LSP" /\ r.n = n THEN [r EXCEPT !.at = c, !.kind = "vif"] ELSE r : r \in rows}

\* --may-exist add-port and --if-exists del-port.
Plugged(op) == IF op.do = "bind" THEN ovs \cup {<<op.c, op.n>>} ELSE ovs \ {<<op.c, op.n>>}

\* The effect of the first operation of the list; r is the row clean deletes.
Effect(op, r) ==
    /\ db' = CASE op.do \in Units   -> db \cup UnitRows(op)
               [] op.do = "clean"  -> Collect(db \ {r})
               [] op.do = "mark"   -> Marked(db, op.n, op.c)
               [] OTHER -> db
    /\ ovs' = IF op.do \in {"bind", "unbind"} THEN Plugged(op) ELSE ovs

Refused(op, r) == (op.do \in Units /\ Clash(UnitRows(op))) \/ (op.do = "clean" /\ Referred(r))

\* The rows of a table go in some order.
Pick(op) == IF op.do # "clean" THEN {Top}
            ELSE IF Victims(op.n[1]) = {} THEN {} ELSE {CHOOSE r \in Victims(op.n[1]) : TRUE}

Do ==
    /\ todo # <<>>
    /\ LET op == Head(todo) IN
       \/ Pick(op) = {} /\ Advance /\ UNCHANGED <<db, ovs>>
       \/ \E r \in Pick(op) : /\ ~ Refused(op, r) /\ Effect(op, r)
                              /\ IF op.do = "clean" THEN UNCHANGED <<cmd, todo, last, pristine>> ELSE Advance
       \/ \E r \in Pick(op) : Refused(op, r) /\ Ends("conflict") /\ UNCHANGED <<db, ovs>>
    /\ UNCHANGED <<binder, seq, steps, faults>>

\* A failed call ends the command; its effect may have happened.
Fail ==
    /\ todo # <<>> /\ steps + faults < MaxEvents /\ faults' = faults + 1
    /\ \/ UNCHANGED <<db, ovs>>
       \/ \E r \in Pick(Head(todo)) : ~ Refused(Head(todo), r) /\ Effect(Head(todo), r)
    /\ Ends("fault") /\ UNCHANGED <<binder, seq, steps>>

---------------------------------------------------------------------------
(* Simulator.Step: chooseAction may choose any of the actions *)

Running == cmd = "run" /\ todo = <<>> /\ steps + faults < MaxEvents

RunStep(next) == /\ Running /\ steps' = steps + 1
              /\ db' = next /\ UNCHANGED <<ovs, cmd, binder, faults, last, pristine>>

createSwitch ==
    LET i == freeIndex(usedIndices(listOwned("LS"), "ls")) IN
    /\ i <= MaxIndex /\ ~ Clash(SwitchRows(i)) /\ RunStep(db \cup SwitchRows(i))
    /\ \E f \in [1..PortsPerSwitch -> LabChassis] :
         todo' = IF binder THEN FlattenSeq([p \in 1..PortsPerSwitch |->
                    <<Op("bind", <<"vif", i, p>>, f[p]), Op("mark", <<"vif", i, p>>, f[p])>>]) ELSE <<>>
    /\ UNCHANGED seq

deleteSwitch == /\ Cardinality(listOwned("LS")) > 1
                /\ \E sw \in listOwned("LS") : RunStep(Collect(db \ {sw}))
                /\ UNCHANGED <<todo, seq>>

createRouter ==
    LET i  == freeIndex(usedIndices(listOwned("LR"), "lr"))
        lr == NewKey("LR", <<"lr", i>>)
        new == {Row("LR", <<"lr", i>>, Top, "router"), Row("LRP", <<"lr-p", i>>, lr, "router-port"),
                Row("NAT", <<"nat", i>>, lr, "nat")}
    IN  /\ i <= MaxIndex /\ ~ Clash(new) /\ RunStep(db \cup new) /\ UNCHANGED <<todo, seq>>

deleteRouter == /\ \E r \in listOwned("LR") : RunStep(Collect(db \ {r}))
                /\ UNCHANGED <<todo, seq>>

addPort ==
    \E sw \in listOwned("LS"), c \in (IF binder THEN LabChassis ELSE {Nowhere}) :
      LET name == <<"p", sw.n, seq + 1>>
          new  == {[Row("LSP", name, Key(sw), "vif") EXCEPT !.at = c]}
      IN  /\ IF Clash(new) THEN RunStep(db) /\ todo' = <<>>     \* the transaction is refused
             ELSE /\ RunStep(db \cup new)
                  /\ todo' = IF c = Nowhere THEN <<>> ELSE <<Op("bind", name, c)>>
          /\ seq' = seq + 1

removePort == /\ \E v \in Vifs : v.of \in {Key(sw) : sw \in listOwned("LS")} /\ RunStep(db \ {v})
              /\ UNCHANGED <<todo, seq>>

Flip(r) == {r2 \in db : r2 # r} \cup {[r EXCEPT !.val = 1 - r.val]}
togglePort == (\E v \in Vifs : RunStep(Flip(v))) /\ UNCHANGED <<todo, seq>>
toggleACL  == (\E a \in listOwned("ACL") : RunStep(Flip(a))) /\ UNCHANGED <<todo, seq>>

addNAT == /\ \E r \in listOwned("LR") : RunStep(db \cup {Row("NAT", <<"dnat", seq + 1>>, Key(r), "nat")})
          /\ seq' = seq + 1 /\ UNCHANGED todo

removeNAT == /\ \E r \in listOwned("LR") : \E nat \in {x \in Kids(r) : x.t = "NAT"} : RunStep(db \ {nat})
             /\ UNCHANGED <<todo, seq>>

Set(r, v) == (db \ {r}) \cup {[r EXCEPT !.val = v]}
addLBVip    == (\E lb \in listOwned("LB") : RunStep(Set(lb, lb.val + 1))) /\ seq' = seq + 1 /\ UNCHANGED todo
removeLBVip == (\E lb \in listOwned("LB") : lb.val > 1 /\ RunStep(Set(lb, lb.val - 1))) /\ UNCHANGED <<todo, seq>>

---------------------------------------------------------------------------
(* HA chassis groups and bindings *)

ownedMembers(g) == {h \in listOwned("HC") : h.of = Key(g)}

\* Mutant: the demoted member is any other than the highest.
highestLowest_Any(g) == {p \in ownedMembers(g) \X ownedMembers(g) :
    p[1].val > p[2].val}

\* The first highest and the first lowest member, of equals any; none when all are equal.
highestLowest(g) == {p \in ownedMembers(g) \X ownedMembers(g) :
    /\ p[1].val > p[2].val
    /\ \A h \in ownedMembers(g) : p[2].val <= h.val /\ h.val <= p[1].val}

haFailover ==
    /\ \E g \in listOwned("HAG") : \E p \in highestLowest(g) :
         RunStep((db \ {p[1], p[2]}) \cup {[p[1] EXCEPT !.val = p[2].val], [p[2] EXCEPT !.val = p[1].val]})
    /\ UNCHANGED <<todo, seq>>

haMemberChurn ==
    /\ \E g \in listOwned("HAG") :
         \/ \E c \in LabChassis \ {h.n[2] : h \in ownedMembers(g)} :
              RunStep(db \cup {[Row("HC", <<"hc", c>>, Key(g), "ha-chassis") EXCEPT !.val = 5]})
         \/ Cardinality(Kids(g)) > 1 /\ \E h \in Kids(g) : RunStep(db \ {h})
    /\ UNCHANGED <<todo, seq>>

bindPort ==
    /\ binder /\ \E v \in UnboundVifs, c \in LabChassis : todo' = <<Op("bind", v.n, c), Op("mark", v.n, c)>>
    /\ RunStep(db) /\ UNCHANGED seq

\* Migrate, then the marker.
Migrate(v, to) == <<Op("unbind", v.n, v.at), Op("bind", v.n, to), Op("mark", v.n, to)>>

migratePort ==
    /\ binder /\ \E v \in Vifs \ UnboundVifs : \E to \in LabChassis \ {v.at} : todo' = Migrate(v, to)
    /\ RunStep(db) /\ UNCHANGED seq

SimStep == /\ Running
           /\ \/ createSwitch \/ deleteSwitch \/ createRouter \/ deleteRouter
              \/ addPort \/ removePort \/ togglePort \/ addNAT \/ removeNAT
              \/ toggleACL \/ addLBVip \/ removeLBVip \/ haFailover \/ haMemberChurn
              \/ bindPort \/ migratePort

SimNext == Seed \/ BindAll \/ UnbindAll \/ Clean \/ StartRun \/ StopRun \/ Do \/ Fail \/ SimStep

SimSpec == SimInit /\ [][SimNext]_simVars

---------------------------------------------------------------------------
(* Properties *)

Owned == {r \in db : owned(r)}
Has(t, n) == \E r \in Table(t) : r.n = n

SimTypeOK ==
    /\ \A r \in db : r.k \in Nat /\ r.at \in {Nowhere} \cup LabChassis /\ (r.t \in Roots) = (r.of = Top)
    /\ \A o \in ovs : o[1] \in LabChassis
    /\ cmd \in {"idle", "seed", "run", "bind", "unbind", "clean"}
    /\ cmd = "idle" => todo = <<>>

(* createSwitch and createRouter (scenarios.go) look for a free index in   *)
(* what is there, seed for a name: switches and routers are never doubled. *)
SimNamesUnique ==
    \A t \in {"LS", "LR"} : Cardinality({r.n : r \in listOwned(t)}) = Cardinality(listOwned(t))

(* Seed (seed.go:71) "re-running it only creates what is missing": on what *)
(* interrupted seeds and complete cleans leave it never meets a row it     *)
(* cannot create, and once it is done every switch's uplink leads to a     *)
(* router port and every gateway port to its redundancy.                   *)
SeedRestores ==
    last[1] = "seed" /\ pristine =>
        /\ last[2] # "conflict"
        /\ last[2] = "ok" =>
            /\ \A s \in 1..Switches : Has("LSP", <<"up", s>>) /\ Has("LRP", <<"lrp", routerForSwitch(s), s>>)
            /\ \A r \in 1..Routers : Has("LSP", <<"rl", r>>) /\ Has("LRP", <<"gw", r>>)
                 /\ IF useHA(r) THEN \E g \in Table("HAG") : g.n = <<"hag", r>> /\ Cardinality(Kids(g)) = NChassis
                    ELSE Has("GC", <<"gc", r>>)
            /\ Cardinality(Vifs) = Switches * PortsPerSwitch

(* Clean (clean.go:15) deletes the roots and leaves the rest to collection:*)
(* no reference ever stops it, and when it is done no row of the simulator *)
(* is left, whatever was created and deleted before.                       *)
CleanRestores ==
    last[1] = "clean" => /\ last[2] # "conflict"
                         /\ last[2] = "ok" => Owned = {} /\ \A r \in Table("LBG") : r.n \in Others

(* Between two steps, and as long as no call has failed, the chassis that  *)
(* a VIF's marker names is one that has its OVS port (bind.go, addPort,    *)
(* migratePort): what unbind and migrate will remove.                      *)
MarkersAreTrue ==
    faults = 0 /\ todo = <<>> => \A v \in Vifs : v.at # Nowhere => <<v.at, v.n>> \in ovs

(* haMemberChurn (ha.go:89) never leaves a gateway without a candidate.    *)
GroupsAreManned == \A g \in listOwned("HAG") : Kids(g) # {}

(* "it never mutates foreign rows" (scenarios.go:31), where no one put     *)
(* rows of his own under a row of the simulator.                           *)
ForeignKept == [][{r \in db' : ~ owned(r) /\ r.n # <<"lb-group">>}
                  = {r \in db : ~ owned(r) /\ r.n # <<"lb-group">>}]_simVars

(* haFailover (ha.go:26): the member that is demoted does not stay at the  *)
(* top of its group, and it gives its priority to the last in line.        *)
FailoverDemotes ==
    [][\A h \in Table("HC"), x \in {r \in db' : r.t = "HC"} :
          Key(x) = Key(h) /\ x.of = h.of /\ x.val < h.val =>
             LET group == {r \in db' : r.t = "HC" /\ r.of = h.of}
             IN  (\E y \in group : y.val = h.val) /\ \A y \in group : y.val >= x.val]_simVars
=============================================================================
