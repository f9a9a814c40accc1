SPECIFICATION FairSpec
CONSTANTS
    Calls = {1, 2, 3}
    Ids = {1, 3}
    IdOf <- SomeShare
    NoCall = NoCall
    MaxRetries = 2
CHECK_DEADLOCK FALSE
INVARIANTS
    EntriesAreTended
PROPERTY
    KeepsPromise
