CONSTANTS
    ann = ann
    m1 = m1
    m2 = m2
    d1 = d1
    d2 = d2
    f1 = f1
    f2 = f2
    Phones = {ann}
    Messages = {m1, m2}
    Sender <- MCSender
    Scripts <- MCScripts
    Order <- MCOrder
    Deliveries = {d1, d2}
    Forms = {f1, f2}
    MaxInvites = 2
    MaxApps = 2
    MaxCrashes = 1
SPECIFICATION Spec
CHECK_DEADLOCK FALSE
INVARIANTS LinksKept EachHandledOnce NoSecondApplication
PROPERTIES SilentAfterStop
