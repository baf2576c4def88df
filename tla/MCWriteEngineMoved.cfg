\* The row changed between preview and apply.
CONSTANTS
    Handlers = {h1}
    NoHandler = NoHandler
    Plans = {p1}
    NoPlan = NoPlan
    sw = sw
    port = port
    group = group
    a = a
    b = b
    ports = ports
    members = members
    v0 = v0
    v1 = v1
    v2 = v2
    Rows = {sw}
    NoRow = NoRow
    Cols = {a, b}
    Vals = {v0, v1}
    Strong = {}
    Weak = {}
    DefaultVal = v0
    Schema <- RaceSchema
    Roots = {sw}
    Deployments <- RaceDeployments
    Histories <- NoHistory
    Requests <- RaceRequests
    TTL = 0
    MaxTime = 1
    MaxSnaps = 2
    MaxWrites = 1
    MaxFaults = 0
SPECIFICATION Spec
SYMMETRY Symmetry
PROPERTIES TargetRowsUnmoved
