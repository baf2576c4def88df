---------------------------- MODULE MCAnalyses ----------------------------
(* The analyses that answer one question from one state of the caches: a    *)
(* behaviour asks one question about one input, and every input of the      *)
(* small sets below is asked.  And the requests that read a changing        *)
(* database in several steps: validation, snapshot files, the stale-entry   *)
(* report and the commands of the lab's load generator.                     *)
(* They share nothing, so a behaviour moves one of them, its topic.         *)
EXTENDS Analyses, Impact, Search, OVNSim

asked == <<topic, in>>

Ask(name, inputs) == topic = name /\ in = Nil /\ in' \in inputs /\ UNCHANGED topic

-----------------------------------------------------------------------------
\* Two chassis, a gateway with two members, one with a member, one without.
Acks == {NoPriv, [cfg |-> 2, age |-> 0], [cfg |-> 2, age |-> 9],
         [cfg |-> 1, age |-> 1], [cfg |-> 1, age |-> 9]}
MCOrder == ("g1" :> <<"a", "b">>) @@ ("g2" :> <<>>) @@ ("g3" :> <<"b">>)
MCNetworks == ("g1" :> {"n1"}) @@ ("g2" :> {"n1", "n2"}) @@ ("g3" :> {})
MCRouterOf == ("g1" :> "r") @@ ("g3" :> "r")
MCNatIPs == "r" :> {"e1"}

Deployments ==
    [present : SUBSET Chassis, nbCfg : {2}, priv : [Chassis -> Acks],
     prio : {("g1" :> <<i, j>>) @@ ("g2" :> <<>>) @@ ("g3" :> <<1>>) : i, j \in 1..2},
     owner : [Gateways -> Chassis \cup {NoChassis}]]
AskGateways == Ask("gateways", Deployments)

-----------------------------------------------------------------------------
\* Three ACLs on a switch, two of them also on a port group that lists a missing one.
Matches == {Always, Match(<<"a">>, {}), Match(<<"b">>, {}), Match(<<"a", "b">>, {}),
            Match(<<"b", "a">>, {}), Match(<<"a", "c">>, {}), Match(<<"a", "b">>, {1})}
Rules(actions, lanes) == [prio : 1..2, action : actions, lane : lanes, match : Matches]

RuleSets ==
    {[acl |-> (1 :> x) @@ (2 :> y) @@ (3 :> z),
      attach |-> ("ls" :> <<1, 2, 3>>) @@ ("pg" :> <<4, 2, 3>>)] :
        x \in Rules({"allow"}, {"in"}), y \in Rules({"allow", "drop"}, {"in"}),
        z \in Rules({"allow", "drop"}, {"in", "out"})}
AskACLs == Ask("acls", RuleSets)

(* ReportSizeIsStable on every rule set of the instance. *)
AclReportIsStable == Asked("acls") => ReportSizeIsStable(in)

-----------------------------------------------------------------------------
\* Two ports, a router port on each of two switches, up to two routers.
Bound(c, up) == [type |-> "", chassis |-> c, up |-> up, exists |-> TRUE]
Bindings == {NoBinding, Bound(None, FALSE), Bound("c1", TRUE), Bound("c1", FALSE), Bound("c2", TRUE)}

PortNetworks ==
    {[lsp |-> {"p", "q", "x", "y"} \ gone,
      sw |-> ("p" :> sp) @@ ("q" :> sq) @@ ("x" :> "s1") @@ ("y" :> "s2"),
      type |-> ("p" :> t) @@ ("q" :> "") @@ ("x" :> "router") @@ ("y" :> "router"),
      peer |-> ("p" :> "l1") @@ ("q" :> None) @@ ("x" :> "l1") @@ ("y" :> py),
      up |-> ("p" :> TRUE) @@ ("q" :> TRUE) @@ ("x" :> TRUE) @@ ("y" :> TRUE),
      enabled |-> ("p" :> TRUE) @@ ("q" :> TRUE) @@ ("x" :> TRUE) @@ ("y" :> TRUE),
      addressed |-> ("p" :> TRUE) @@ ("q" :> FALSE) @@ ("x" :> FALSE) @@ ("y" :> FALSE),
      lrp |-> lrps, router |-> ("l1" :> r1) @@ ("l2" :> r2),
      pb |-> ("p" :> bp) @@ ("q" :> bq) @@ ("x" :> Bound(None, TRUE)) @@ ("y" :> NoBinding),
      chassis |-> {"c1"}, encaps |-> {"c1"},
      deny |-> deny, pgroup |-> "g" :> {"q"}, src |-> "p", dst |-> "q"] :
        gone \in {{}, {"x"}}, sp \in {"s1", None}, sq \in {"s1", "s2", None}, t \in {"", "router", "patch"},
        py \in {"l1", "l2", None}, lrps \in {{"l1"}, {"l1", "l2"}}, r1 \in {"r", None},
        r2 \in {"r", "other", None}, bp \in Bindings, bq \in Bindings,
        deny \in {{}, {<<"g", "p">>}, {<<"s2", "q">>}}}
AskPorts == Ask("ports", PortNetworks)

-----------------------------------------------------------------------------
\* A router with up to two ports, and a port of another router.
A(form) == [addr |-> "a1", form |-> form]
Learned == {[port |-> "l1", ip |-> A("x"), mac |-> "m1", ts |-> 0],
            [port |-> "l1", ip |-> A("y"), mac |-> "m2", ts |-> 2],
            [port |-> "l2", ip |-> A("x"), mac |-> "m2", ts |-> 7],
            [port |-> "l9", ip |-> A("x"), mac |-> "m1", ts |-> 9]}
Pinned == {[port |-> "l1", ip |-> A("x"), mac |-> "m1", override |-> FALSE],
           [port |-> "l2", ip |-> A("y"), mac |-> "m1", override |-> TRUE],
           [port |-> "l9", ip |-> A("x"), mac |-> "m2", override |-> FALSE]}
Few(S, k) == {T \in SUBSET S : Cardinality(T) <= k}

Routes ==
    [lrps : {<<>>, <<"l1">>, <<"l1", "l2">>}, rows : {{"l1", "l2"}, {"l2"}},
     net : {("l1" :> {}) @@ ("l2" :> {"a1"}), ("l1" :> {}) @@ ("l2" :> {})},
     out : {Nil, "l1", "l9"},
     hop : {A("x"), A("y"), [addr |-> NoAddr, form |-> "discard"]},
     macs : Few(Learned, 2), stats : Few(Pinned, 1),
     opt : {Nil, 0, 2}, global : {Nil, 4}, now : {8}]
AskHops == Ask("hops", Routes)

-----------------------------------------------------------------------------
\* A switch port, a router port and its redirect; a chassis may be re-created.
Rows3 == {[chassis |-> c, dp |-> "d1", up |-> u] : c \in {"u1", "u2", Nobody}, u \in BOOLEAN}
MCCrName == "l1" :> "cr-l1"
PortNames == {"p1", "l1", Cr("l1")}

Joins ==
    {[lsp |-> lsp, lrp |-> {"l1"}, parent |-> ("p1" :> "s") @@ ("l1" :> "r"), pb |-> pb,
      chassis |-> ch, encap |-> {"e1"}, dp |-> dps] :
        lsp \in SUBSET {"p1"}, pb \in UNION {[D -> Rows3] : D \in SUBSET PortNames},
        dps \in {{}, {"d1"}},
        ch \in {"u1" :> [name |-> "n1", encaps |-> {"e1", "e2"}],
                "u3" :> [name |-> "n1", encaps |-> {"e1"}],
                ("u1" :> [name |-> "n1", encaps |-> {"e1"}]) @@ ("u2" :> [name |-> "n2", encaps |-> {"e2"}])}}
AskChains == Ask("chains", Joins)

-----------------------------------------------------------------------------
\* One row per table, every set of the references that the schema allows.
TableOf == ("ls" :> "LS") @@ ("lsp" :> "LSP") @@ ("lbg" :> "LBG") @@ ("lb" :> "LB")
           @@ ("hc" :> "HC") @@ ("hag" :> "HAG") @@ ("pg" :> "PG")
RefSets == {("ls" :> {c \in {"lsp", "lbg", "lb"} : <<"ls", c>> \in E})
            @@ ("lsp" :> {c \in {"hag"} : <<"lsp", c>> \in E})
            @@ ("lbg" :> {c \in {"lb"} : <<"lbg", c>> \in E})
            @@ ("lb" :> {c \in {"hc"} : <<"lb", c>> \in E})
            @@ ("pg" :> {c \in {"lsp"} : <<"pg", c>> \in E})
            @@ ("hc" :> {}) @@ ("hag" :> {}) :
              E \in SUBSET {<<"ls", "lsp">>, <<"ls", "lbg">>, <<"ls", "lb">>, <<"lsp", "hag">>,
                            <<"lbg", "lb">>, <<"lb", "hc">>, <<"pg", "lsp">>}}

AskImpact == Ask("impact",
    {[g |-> [table |-> TableOf, exists |-> DOMAIN TableOf \ gone, refs |-> refs,
             order |-> <<"ls", "lsp", "lbg", "lb", "hc", "hag", "pg">>, dps |-> dps],
      lim |-> [depth |-> d, entities |-> e], root |-> r] :
        gone \in {{}, {"lb"}}, refs \in RefSets, dps \in {<<>>, <<2, 1>>},
        d \in {1, 2, 4}, e \in {2, 4, 12}, r \in {"ls", "lb", "lsp"} } )

Rooted == Asked("impact") /\ in.root \in in.g.exists
(* UntruncatedIsComplete on every graph, root and limit of the instance. *)
ImpactIsComplete == Rooted => UntruncatedIsComplete(in.g, in.lim, in.root)
(* EachRowOnce on every graph, root and limit of the instance. *)
ImpactCountsRows == Rooted => EachRowOnce(in.g, in.lim, in.root)
(* SchemaTablesFit for the default depth of 5. *)
ImpactTablesFit == topic = "impact" => SchemaTablesFit(5)

-----------------------------------------------------------------------------
\* Two databases with two and one tables of up to three rows.
SearchRows == {<<{"x"}, {"n", "x"}>>, <<{"x"}>>}
SearchTables == UNION {[1..k -> SearchRows] : k \in 0..3}
AskSearch == Ask("search", [dbs : {<<<<a, b>>, <<c>>>> : a, b, c \in SearchTables}])

(* UnmarkedAnswerIsComplete on every database of the instance. *)
SearchIsComplete == Asked("search") => UnmarkedAnswerIsComplete(in)

-----------------------------------------------------------------------------
\* What is asked is something that the caches can hold.
ASSUME InputsAreInputs ==
    /\ \A s \in Deployments : IsIndex(s)
    /\ \A s \in RuleSets : IsRuleSet(s)
    /\ \A s \in Routes : IsRoute(s)
    /\ \A s \in PortNetworks : IsNetwork(s)
    /\ \A s \in Joins : IsJoined(s)

Topics == {"gateways", "acls", "ports", "hops", "chains", "impact", "search"}
Requesting == {"validation", "file", "stale", "lab"}

\* The requests that are not the topic keep one of their initial states.
AskInit ==
    /\ topic \in Topics \cup Requesting /\ in = Nil
    /\ ValidationInit
    /\ topic # "validation" => target = {} /\ ops = <<[action |-> "delete", table |-> "LS",
                                      uuid |-> TRUE, fields |-> {}, value |-> 0]>>
    /\ FileInit
    /\ topic # "file" => live = {} /\ known = SnapTables
    /\ StaleEntriesInit /\ SimInit

Answered == in # Nil /\ in' = Nil /\ UNCHANGED topic

requestVars == <<validationVars, fileVars, staleVars, simVars>>

AskNext ==
    \/ /\ AskGateways \/ AskACLs \/ AskPorts \/ AskHops \/ AskChains \/ AskImpact \/ AskSearch
          \/ Answered
       /\ UNCHANGED requestVars
    \/ /\ UNCHANGED asked
       /\ \/ topic = "validation" /\ ValidationNext /\ UNCHANGED <<fileVars, staleVars, simVars>>
          \/ topic = "file"  /\ FileNext /\ UNCHANGED <<validationVars, staleVars, simVars>>
          \/ topic = "stale" /\ StaleEntriesNext /\ UNCHANGED <<validationVars, fileVars, simVars>>
          \/ topic = "lab" /\ SimNext /\ UNCHANGED <<validationVars, fileVars, staleVars>>

AskSpec == AskInit /\ [][AskNext]_<<asked, requestVars>>

-----------------------------------------------------------------------------
(* What the configuration lists: the parts above and those of the modules. *)

(* An impact tree, a search or an ACL audit that is not marked truncated   *)
(* has all of the answer, each row once (internal/impact, internal/search, *)
(* debug/acl_audit.go).                                                    *)
ReachAnswers ==
    /\ ImpactIsComplete /\ ImpactCountsRows /\ ImpactTablesFit
    /\ SearchIsComplete /\ AclReportIsStable

(* After any sequence of seed, run, bind, unbind and clean with failing    *)
(* calls: names are unique, seed restores the lab, clean removes all of    *)
(* it, markers name the chassis that has the port, HA groups have members. *)
LabHolds ==
    topic = "lab" => /\ SimTypeOK /\ SimNamesUnique /\ SeedRestores /\ CleanRestores
                     /\ MarkersAreTrue /\ GroupsAreManned

(* What a step of the simulator may never do: touch a row of others, or    *)
(* leave the demoted gateway of haFailover at the top of its group.        *)
LabSteps == ForeignKept /\ FailoverDemotes
=============================================================================
