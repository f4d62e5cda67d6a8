SPECIFICATION FairSpec
CONSTANTS
  MaxFaults = 2
  ItemIds = {1, 2, 3}
  Sandboxes <- MCSandboxes
INVARIANTS
  PassIsEarned
  CanaryInv
  FixturesRemoved
PROPERTIES
  CanariesEnd
CHECK_DEADLOCK FALSE
