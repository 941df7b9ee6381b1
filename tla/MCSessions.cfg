SPECIFICATION FairSpec
CONSTANTS
    Conns = {c1}
    Callers = {c1}
    Listeners = {c1}
    Calls = {1, 2}
    MaxClients = 1
    MaxInFlight = 1
    SendQueue = 2
    EventQueue = 1
    Buffer = 1
    MaxCalls = 2
    MaxEvents = 2
    MaxFaults = 1
INVARIANTS TypeOK CallsAnswered NoGap StopIsLast
PROPERTY EverythingEnds
CHECK_DEADLOCK FALSE
