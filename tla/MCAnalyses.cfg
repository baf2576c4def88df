\* Every input of the sets in MCAnalyses, one question each.
CONSTANTS
    Chassis = {"a", "b"}
    NoChassis = NoChassis
    Gateways = {"g1", "g2", "g3"}
    Order <- MCOrder
    Networks <- MCNetworks
    RouterOf <- MCRouterOf
    NatIPs <- MCNatIPs
    Incapable = {"b"}
    StaleThreshold = 3
    MaxHAPriority = 2
    MaxFindings = 2
    None = None
    Nil = Nil
    NoAddr = NoAddr
    Nobody = Nobody
    CrName <- MCCrName
    MaxPerTable = 2
    MaxTotal = 4
    \* Requests of two operations; captures with two foreign transactions.
    NRows = 1
    MaxPriority = 0
    MaxCacheEvents = 2
    ParentRows = {p1}
    ChildRows = {k1}
    NewerRows = {x1}
    MaxChurn = 2
    Lsps = {l1, l2}
    Lrps = {r1}
    Special = {l2}
    MaxPortChanges = 3
    \* One switch, two routers, one of them with an HA group of three chassis.
    Switches = 1
    Routers = 2
    PortsPerSwitch = 1
    NChassis = 3
    MaxIndex = 2
    MaxEvents = 2
SPECIFICATION AskSpec
INVARIANTS GatewayAnswers PolicyAnswers PortAnswers ReachAnswers ReadersHold LabHolds
PROPERTIES LabSteps
\* Operators and commands may have nothing left to ask.
CHECK_DEADLOCK FALSE
