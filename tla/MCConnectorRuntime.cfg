SPECIFICATION FairSpec
CONSTANTS
    Loops = {l1, l2}
    NoLoop = NoLoop
    MaxEpoch = 2
CHECK_DEADLOCK FALSE
INVARIANTS
    NoOrphanHeartbeat
    HeartbeatTokenCurrent
    OneReconnectLoop
    ReturnedStartIsQuiet
PROPERTIES
    KeepAliveLostOnlyToLateAccept
    StoppedStatusSticks
    NeedsRegisterServed
    DroppedIsRedialled
    ImplementsLife
