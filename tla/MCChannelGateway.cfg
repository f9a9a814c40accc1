SPECIFICATION FairSpec
CONSTANT
    MaxStarts = 3
CHECK_DEADLOCK FALSE
INVARIANTS
    OneRuntime
PROPERTIES
    RefusedOnlyWhileActive
    LeaseComesBack
