CONSTANTS
    m1 = m1  m2 = m2  f1 = f1  g2 = g2  b1 = b1  r1 = r1
    pull = pull  status = status  late = late
    source1 = source1  source2 = source2  output = output  chained = chained
    plain = plain  admin = admin  archive = archive
    NoMessage = NoMessage  NoRoom = NoRoom
    Messages = {m1, late}
    About <- MCAbout
    Policies <- RelayPolicies
    AdminRoom = NoRoom
    MaxDeliveries = 2
    MaxCallFaults = 1
    MaxStateFaults = 0
    MaxCrashes = 0
SPECIFICATION Spec
INVARIANT AtMostOnePost
CHECK_DEADLOCK FALSE
