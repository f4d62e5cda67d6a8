SPECIFICATION Spec
CONSTANTS
  a1 = a1
  a2 = a2
  a3 = a3
  a4 = a4
  Attempts = {a1, a2, a3, a4}
  p1 = p1
  p2 = p2
  Pids = {p1, p2}
  c1 = c1
  Consoles = {c1}
  Slots = 2
  Retention = 1
  MaxUrls = 2
  MaxCrashes = 1
  Nobody = Nobody
  NoPid = NoPid
SYMMETRY Symmetry
INVARIANTS
  EvidenceKept
  RootBounded
  QuotedFromFetched
  PrefetchInv
CHECK_DEADLOCK FALSE
