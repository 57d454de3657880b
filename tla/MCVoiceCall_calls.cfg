CONSTANTS
    k1 = k1
    k2 = k2
    Calls = {k1, k2}
    MaxConcurrent = 1
    MaxReconnects = 2
    MaxFailures = 1
SPECIFICATION FairSpec
CHECK_DEADLOCK FALSE
INVARIANTS CallKept
PROPERTIES SlotFreed CallerNotAbandoned
