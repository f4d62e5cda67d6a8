SPECIFICATION Spec
CONSTANTS
  Helpers = {h1, h2}
  Service = bot
  None = None
  MaxBoots = 2
  MaxVersions = 2
  MaxFaults = 1
SYMMETRY Symmetry
INVARIANTS
  ReceiptEarned
  TestedAfterReboot
  RenewalInv
  AdmittedRunsReceiptExecutable
CHECK_DEADLOCK FALSE
