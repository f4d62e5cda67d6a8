CONSTANTS
    m1 = m1
    m2 = m2
    m3 = m3
    h1 = h1
    h2 = h2
    t1 = t1
    t2 = t2
    t3 = t3
    Messages = {m1, m2}
    NoMessage = NoMessage
    Handlers = {h1}
    Tasks = {t1, t2}
    Rescan = Rescan
    MaxSlots = 1
    MaxPending = 2
    MaxDeliveries = 2
    MaxFaults = 0
    MaxCrashes = 1
    SlowScans = FALSE
SPECIFICATION FairSpec
PROPERTY EveryJobAttempted
