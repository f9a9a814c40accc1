SPECIFICATION FairSpec
CONSTANTS
    Required = {m1, m2, started}
    Plain = {i1}
    Unhandled = {started}
    Heartbeats = {hb}
    Closing = {replaced}
    Invalid = {bad}
    MaxRoutes = 4
    Ttl = 2
    MaxEntries = 3
    MaxTime = 1
CHECK_DEADLOCK FALSE
INVARIANTS
    HandledOnce
    AckMeansHandled
    HandledInOrder
PROPERTY
    RoutesSettle
