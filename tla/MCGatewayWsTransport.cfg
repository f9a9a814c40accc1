SPECIFICATION FairSpec

CONSTANTS
    Closers = {cancel, stop, route}
    Routing = {route}
    MaxMessages = 4
    MaxBeats = 2

INVARIANTS
    NoOrphanTimer
    UpIsKeptAlive

PROPERTIES
    ImplementsSession
    CallsSettle

CHECK_DEADLOCK FALSE
