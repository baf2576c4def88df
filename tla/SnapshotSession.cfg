\* Two handlers, three snapshots under a cap of two, two builds, a failing monitor call, shutdown.
CONSTANTS
    Handlers = {h1, h2}
    NoHandler = NoHandler
    Snapshots = {s1, s2, s3}
    Backings = {b1, b2}
    None = None
    MaxLoaded = 2
    MaxFaults = 1
SPECIFICATION FairSpec
CHECK_DEADLOCK FALSE
INVARIANTS RoutedIsAlive BackingsHold LiveHolds
PROPERTIES RequestsReturn Drained
