SPECIFICATION Spec
CONSTANTS
  Names = {n1, n2}
  Items = {i1}
  ItemOf <- OneItem
  Procs = {a1, p1, d1, r1}
  Free = Free
  Approvers = {a1}
  Loops = {}
  Dispatchers = {d1}
  Pruners = {p1}
  Reconcilers = {r1}
  Tiers = {"propose"}
  InitialKinds = {"approvable", "legacy"}
  MaxProposals = 3
  MaxTries = 1
  MaxTime = 2
  TTL = 2
  Retention = 1
  PruneLimit = 1
INVARIANTS  OneOutcomePerPayload 
PROPERTIES RetentionSparesMarkers ExpiryNeverUncovers OnlyOldExpires
CHECK_DEADLOCK FALSE
