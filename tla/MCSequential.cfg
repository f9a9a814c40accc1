SPECIFICATION SequentialSpec
CONSTANTS
    Absent = Absent
    Parts = 10
    MaxAttempt = 12
    MaxSeconds = 45
    Required = {m1, m2, m3, m4}
    Ttl = 2
    MaxEntries = 2
    MaxTime = 5
CHECK_DEADLOCK FALSE
SYMMETRY KeySymmetry
INVARIANTS
    FramesAreServed
    BackoffGrows
    SessionIsKept
    MediaIsPlayable
    UrlsOnceInOrder
    ConfiguredStarts
    RemembersTheLatest
