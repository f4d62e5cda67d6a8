CONSTANTS
    m1 = m1
    m2 = m2
    Messages = {m1, m2}
    NoMessage = NoMessage
    MaxInodes = 4
    MaxPending = 1
    MaxClock = 2
    MaxIoFaults = 2
    MaxCrashes = 1
    MaxPowerLosses = 1
    MaxDamages = 1
SPECIFICATION Spec
SYMMETRY MessageSymmetry
INVARIANTS
    TypeOK
    AckedDurableUnlessInterrupted
    PublishedIsWhole
    BacklogBounded
    NotWedgedUnlessInterrupted
PROPERTIES
    MissingFileNotMasked
