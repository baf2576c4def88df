\* Refutation run: the live monitors stay suspended after a failed cancel.
CONSTANTS
    Handlers = {h1, h2}
    NoHandler = NoHandler
    Snapshots = {s1, s2}
    Backings = {b1, b2, b3}
    None = None
    MaxLoaded = 2
    MaxFaults = 1
SPECIFICATION Spec
CHECK_DEADLOCK FALSE
INVARIANTS NeverLeftSuspended
