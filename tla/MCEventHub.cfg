\* A client that comes, filters, lags and goes with two publishers of three events; or
\* four events through the persistence goroutine with a session and a failing insert.
CONSTANTS
    Publishers = {p1, p2}
    Solo = p1
    Clients = {c1}
    History = History
    Tables = {t1}
    BufferSize = 2
    BatchSize = 2
    MaxEvents = 4
    FewEvents = 3
    MaxSessions = 1
    MaxFaults = 1
SPECIFICATION HubSpec
CHECK_DEADLOCK FALSE
INVARIANTS ChannelsHold EventsHandled
PROPERTIES ClientsInOrder HubProgress
