SPECIFICATION FairSpec
CONSTANTS
  MaxEntries = 2
  MaxDepth = 1
  MaxBytes = 2
  Paths <- MCPaths
  MaxRuns = 2
  MaxFaults = 1
  Evidences <- MCEvidences
  Settings <- MCSettings
  Hosts <- MCHosts
INVARIANTS
  ReplyFromFullEvidence
  PublishedIsClean
  ChecksAgree
  WorkspaceInv
  NoResidue
  WorkspaceOutlivesUnit
PROPERTIES
  AttemptSettles
  UnitsStop
CHECK_DEADLOCK FALSE
