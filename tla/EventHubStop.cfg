\* Refutation run: shutdown loses a batch.
CONSTANTS
    Publishers = {p1}
    Clients = {}
    History = History
    Tables = {t1}
    BufferSize = 2
    BatchSize = 2
    MaxEvents = 2
    MaxSessions = 0
    MaxFaults = 0
SPECIFICATION Spec
CHECK_DEADLOCK FALSE
INVARIANTS GracefulStopPersists
