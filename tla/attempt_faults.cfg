CONSTANTS
    m1 = m1  m2 = m2  f1 = f1  g2 = g2  b1 = b1  r1 = r1
    pull = pull  status = status  late = late
    source1 = source1  source2 = source2  output = output  chained = chained
    plain = plain  admin = admin  archive = archive
    NoMessage = NoMessage  NoRoom = NoRoom
    Messages = {m1, f1, m2, g2, b1, r1, pull}
    About <- MCAbout
    Policies <- SharedPolicies
    AdminRoom = admin
    MaxDeliveries = 2
    MaxCallFaults = 2
    MaxStateFaults = 1
    MaxCrashes = 1
SPECIFICATION FairSpec
INVARIANTS
    AttemptInv
    AtMostOnePost
    ProcessedIsAnswered
    ReadOnlyNeverWritten
    AnsweredForOwnSource
    PullAcknowledgedAfterSubmit
PROPERTIES
    RemovedIsSettled
    EveryJobSettles
CHECK_DEADLOCK FALSE
