SPECIFICATION Spec
CONSTANTS
    Procs = {p1, p2}
    Pids = {n1, n2, n3}
    NoPid = NoPid
    Leases = {1, 2}
    MaxCrashes = 2
CHECK_DEADLOCK FALSE
SYMMETRY ProcSymmetry
INVARIANTS
    LockNamesHolder
    OneLeasePerProcess
    NoLockLeftBehind
PROPERTIES
    RefusedOnlyByHolder
