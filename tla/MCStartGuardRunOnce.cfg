SPECIFICATION Spec
CONSTANTS
    Procs = {p1, p2}
    Pids = {n1, n2}
    NoPid = NoPid
    Leases = {1, 2}
    MaxCrashes = 0
CHECK_DEADLOCK FALSE
SYMMETRY ProcSymmetry
INVARIANT
    RunOnce
