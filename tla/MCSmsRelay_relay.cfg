SPECIFICATION FairSpec
CONSTANTS
    owner = owner
    ann = ann
    bob = bob
    a1 = a1
    a2 = a2
    c1 = c1
    c2 = c2
    sweep = sweep
    Phones = {owner, ann}
    Owner = owner
    Stoppers = {ann}
    Apps = {a1}
    Callers = {c1, c2}
    Sweep = sweep
    MaxRows = 2
    Batch = 2
    SweepSends = 1
    MaxAttempts = 2
    HourlyCap = 2
    DailyCap = 3
    NewRecipientCap = 2
    CooldownOn = TRUE
    SendResults = {"ok", "error"}
    MaxCrashes = 1
    Hosts = {TRUE, FALSE}
INVARIANTS OptOutRespected 
 
CHECK_DEADLOCK FALSE
