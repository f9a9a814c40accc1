SPECIFICATION Spec
CONSTANTS
    Loops = {l1, l2}
    NoLoop = NoLoop
    MaxEpoch = 2
CHECK_DEADLOCK FALSE
INVARIANT StopsCleanly
