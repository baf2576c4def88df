\* One plan, two handlers: every interleaving of requests, expiry and faults.
CONSTANTS
    Handlers = {h1, h2}
    NoHandler = NoHandler
    Plans = {p1}
    NoPlan = NoPlan
    sw = sw
    port = port
    group = group
    a = a
    b = b
    ports = ports
    members = members
    v0 = v0
    v1 = v1
    v2 = v2
    Rows = {sw}
    NoRow = NoRow
    Cols = {a}
    Vals = {v0, v1, v2}
    Strong = {}
    Weak = {}
    DefaultVal = v0
    Schema <- RaceSchema
    Roots = {sw}
    Deployments <- RaceDeployments
    Histories <- NoHistory
    Requests <- RaceRequests
    TTL = 0
    MaxTime = 1
    MaxSnaps = 3
    MaxWrites = 1
    MaxFaults = 1
SPECIFICATION Spec
SYMMETRY Symmetry
INVARIANTS AtMostOnce AuditTruth RecordsHold IInv
PROPERTIES CancelIsFinal PlanLifecycleHolds
