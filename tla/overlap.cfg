SPECIFICATION Spec
CONSTANTS
  Names = {n1, n2}
  Items = {i1}
  ItemOf <- OneItem
  Procs = {l1, l2}
  Free = Free
  Approvers = {}
  Loops = {l1, l2}
  Dispatchers = {}
  Pruners = {}
  Reconcilers = {}
  Tiers = {"propose"}
  InitialKinds = {"note"}
  MaxProposals = 2
  MaxTries = 1
  MaxTime = 0
  TTL = 1
  Retention = 1
  PruneLimit = 1
INVARIANT OneProposalPerItem
