CONSTANTS
    MaxPids = 3
    Casts <- MCCasts
    Ports = 2
    Redis = {2}
    Faults <- MCFaults
SPECIFICATION FairSpec
CHECK_DEADLOCK FALSE
INVARIANTS StackKept
PROPERTIES LauncherObeys OrphansEnd
