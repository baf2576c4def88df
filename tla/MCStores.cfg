CONSTANTS
    \* Two operations in five ticks: the rounding loses a remainder.
    Rate = 2
    Minute = 5
    MaxTime = 11
    \* A ring of two, changes up to one tick late.
    MaxSize = 2
    MaxAge = 1
    Skew = 1
    Datapaths = {"dp"}
    RingTicks = 3
    RingAdds = 4
    \* Two lookups of three keys through two entries.
    Lookups = {l1, l2}
    CacheKeys = {"a", "b", "c"}
    MaxEntries = 2
    CacheTTL = 1
    CallTime = 1
    CacheTime = 3
    \* Two traces, a sweep every third store; two events of three ticks.
    TraceIds = {"t1", "t2", "t3"}
    MaxTraces = 2
    TraceAge = 1
    CleanupEvery = 3
    EventMax = 2
    Retention = 2
    Delay = 1
    MaxEvents = 4
    TraceTime = 4
    \* Reports live for two ticks, a computation takes up to two.
    TTL = 2
    HealthTTL = 2
    FlightTime = 2
    Requests = {"r1", "r2"}
    MaxCount = 2
    ReportTime = 3
    \* Up to three snapshots, one of: a change, a failed statement, a session.
    k1 = k1
    k2 = k2
    Keys = {k1, k2}
    Sources <- ReadOrder
    TableOf <- InTable
    Values <- Contents
    Files <- Imported
    Keep = 1
    MaxSnaps = 3
    MaxUpsets = 1
    \* Two failover plans at a time, two requests, one write by another client.
    c1 = c1
    c2 = c2
    c3 = c3
    ga = ga
    gb = gb
    a1 = a1
    a2 = a2
    b1 = b1
    b3 = b3
    HAChassis = {c1, c2, c3}
    HAGroups = {ga, gb}
    HARows = {a1, a2, b1, b3}
    Host <- HostOf
    Group <- InGroup
    Names = {"ha", "lrp", "sb"}
    NameOf <- Named
    SbMembers <- SbNamed
    Plans = {1, 2}
    MaxPrio = 2
    InitPrio <- Prios
    DrainedBefore <- Before
    MaxWrites = 1
    MaxRequests = 2
SPECIFICATION StoresSpec
INVARIANTS StoresHold HistoryHolds FailoverHolds
PROPERTIES StoresSteps HistorySteps FailoverSteps
\* Every store stops at the bound on its clock, and operators may have nothing left to ask.
CHECK_DEADLOCK FALSE
