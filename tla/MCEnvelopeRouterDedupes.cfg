SPECIFICATION Spec
CONSTANTS
    Required = {m1}
    Plain = {}
    Unhandled = {}
    Heartbeats = {}
    Closing = {}
    Invalid = {}
    MaxRoutes = 2
    Ttl = 2
    MaxEntries = 2
    MaxTime = 0
CHECK_DEADLOCK FALSE
INVARIANT
    Dedupes
