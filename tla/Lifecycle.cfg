\* Staged loads of two tables with failing requests and a lost connection, two chassis, two
\* clusters, two requests (one of them a WebSocket) from two addresses, a group of two hosts, three endpoints, one dead.
CONSTANTS
    Tables = {t1, t2, t3}
    SkipTables = {t3}
    Staged = TRUE
    MaxMonFaults = 2
    MaxDrops = 1
    MaxAttempts = 2
    Chassis = {i1, i2}
    PoolClients = {c1, c2, c3}
    NoClient = NoClient
    MaxFlaps = 3
    NClusters = 2
    HttpRequests = {r1, r2}
    WebSockets = {r2}
    Calls = {q1, q2}
    IPs = {ip1, ip2}
    AuthFailureLimit = 2
    AuthFailureWindow = 2
    AuthThrottleMaxIPs = 1
    MaxTick = 2
    FlowCounts = {10, 12, 13}
    ThresholdPct = 20
    HaRows = {h1, h2, h3}
    Hosts = {n1, n2}
    NUrls = 3
    DeadUrls = {2}
    AlertNames = {a1}
    MaxChanges = 4
    \* One chassis, generations 1 and 2, one removal or purge.
    TrackedChassis = {k1}
    MaxGen = 2
    MaxUpsets = 1
    TrackerBuffer = 2
    Patient = TRUE
SPECIFICATION LifeSpec
CHECK_DEADLOCK FALSE
INVARIANTS ClientsHold ProcessHolds HttpHolds RulesHold TrackerHolds
PROPERTIES LifeProgress
