--------------------------- MODULE MCWriteEngine ---------------------------
(* Instances of WriteEngine for TLC. *)
EXTENDS WriteEngine, TLC

CONSTANTS sw, port, group, a, b, ports, members, v0, v1, v2

Update(r, f) == [action |-> "update", row |-> r, fields |-> f]
Delete(r)    == [action |-> "delete", row |-> r, fields |-> <<>>]
Create(f)    == [action |-> "create", row |-> NoRow, fields |-> f]

\* One root row, one plain column: every race between requests, expiry and faults.
RaceSchema      == [r \in Rows |-> [c \in Cols |-> Vals]]
RaceDeployments == {[r \in Rows |-> EmptyRow("live")]}
NoHistory       == {<<>>}
RaceRequests    == {<<Update(sw, a :> v1)>>, <<Delete(sw)>>}

(* A switch, the port it holds and a port group with that port as a weak   *)
(* member, or a group that is not there yet; operation lists whose parts   *)
(* must stand or fall together, some of which leave the port to nobody.    *)
ListSchema ==
    (sw    :> (a :> {v0} @@ ports :> {{}, {port}} @@ members :> {{}})) @@
    (port  :> (a :> {v0} @@ ports :> {{}}         @@ members :> {{}})) @@
    (group :> (a :> Vals @@ ports :> {{}}         @@ members :> {{}, {port}}))

LiveRow(ps, ms) == [life |-> "live", col |-> a :> v0 @@ ports :> ps @@ members :> ms]

ListDeployments ==
    {(sw :> LiveRow({port}, {})) @@ (port :> LiveRow({}, {})) @@ (group :> g) :
        g \in {LiveRow({}, {port}), EmptyRow("unborn")}}

\* A snapshot from before the switch had the port.
ListHistories ==
    {<<(sw :> LiveRow({}, {})) @@ (port :> EmptyRow("unborn")) @@
       (group :> [LiveRow({}, {}) EXCEPT !.col[a] = v2])>>}

ListRequests == {<<Update(group, a :> v1), Update(group, a :> v0), Delete(sw)>>,
                 <<Update(sw, ports :> {}), Update(group, a :> v1)>>,
                 <<Create(a :> v1 @@ members :> {port})>>}

Symmetry == Permutations(Plans) \cup Permutations(Handlers)
=============================================================================
