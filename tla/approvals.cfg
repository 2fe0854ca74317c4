SPECIFICATION FairSpec
CONSTANTS
  Names = {n1}
  Items = {i1}
  ItemOf <- OneItem
  Procs = {a1, a2, l1, r1}
  Free = Free
  Approvers = {a1, a2}
  Loops = {l1}
  Dispatchers = {}
  Pruners = {}
  Reconcilers = {r1}
  Tiers = {"read", "propose", "act"}
  InitialKinds = {"approvable", "legacy"}
  MaxProposals = 2
  MaxTries = 1
  MaxTime = 0
  TTL = 1
  Retention = 1
  PruneLimit = 1
INVARIANTS TypeOK  OneRunnerPerPayload OutcomesAreEarned
PROPERTIES LocksComeBack PassesEnd GoneIsGone ImplementsProposalLife
