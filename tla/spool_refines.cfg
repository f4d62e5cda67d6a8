CONSTANTS
    m1 = m1
    m2 = m2
    Messages = {m1, m2}
    NoMessage = NoMessage
    MaxInodes = 4
    MaxPending = 2
    MaxClock = 1
    MaxIoFaults = 1
    MaxCrashes = 0
    MaxPowerLosses = 2
    MaxDamages = 0
SPECIFICATION FairSpec
PROPERTIES
    ImplementsInbox
    StartupSucceeds
