SPECIFICATION PathFairSpec
CONSTANTS
    Calls = {1, 2}
    TurnIds = {1}
    TurnOf <- SharedTurn
    NoCall = NoCall
    Drains = TRUE
    MaxEvents = 2
    MaxConns = 2
CHECK_DEADLOCK FALSE
INVARIANTS
    ControllersRun
    CanBeInterrupted
    StreamHasNoGap
    TerminalIsLast
    OncePerConnection
    LostOnlyToADrop
PROPERTY
    AckedIsAnswered
