\* Operation lists over a switch, its port and a port group, one plan, fair handlers.
CONSTANTS
    Handlers = {h1}
    NoHandler = NoHandler
    Plans = {p1}
    NoPlan = NoPlan
    sw = sw
    port = port
    group = group
    a = a
    b = b
    ports = ports
    members = members
    v0 = v0
    v1 = v1
    v2 = v2
    Rows = {sw, port, group}
    NoRow = NoRow
    Cols = {a, ports, members}
    Vals = {v0, v1, v2}
    Strong = {ports}
    Weak = {members}
    DefaultVal = v0
    Schema <- ListSchema
    Roots = {sw, group}
    Deployments <- ListDeployments
    Histories <- ListHistories
    Requests <- ListRequests
    TTL = 0
    MaxTime = 1
    MaxSnaps = 3
    MaxWrites = 1
    MaxFaults = 0
SPECIFICATION FairSpec
PROPERTIES ApprovedChange RequestsEnd ExpiredPlansLeave
