CONSTANTS
    m1 = m1
    m2 = m2
    Messages = {m1}
    NoMessage = NoMessage
    MaxInodes = 2
    MaxPending = 1
    MaxClock = 1
    MaxIoFaults = 0
    MaxCrashes = 2
    MaxPowerLosses = 1
    MaxDamages = 0
SPECIFICATION Spec
INVARIANT AckedDurable
