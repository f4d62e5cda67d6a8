CONSTANTS
    m1 = m1
    m2 = m2
    m3 = m3
    h1 = h1
    h2 = h2
    t1 = t1
    t2 = t2
    t3 = t3
    Messages = {m1, m2}
    NoMessage = NoMessage
    Handlers = {h1}
    Tasks = {t1, t2, t3}
    Rescan = Rescan
    MaxSlots = 2
    MaxPending = 2
    MaxDeliveries = 2
    MaxFaults = 1
    MaxCrashes = 0
    SlowScans = TRUE
SPECIFICATION Spec
SYMMETRY Symmetric
INVARIANTS
    SchedulerInv
    NoRerunOfCompleted
PROPERTY OnlySuccessRemoves
