SPECIFICATION Spec
CONSTANTS
  Newest = 2
  MaxEvents = 2
  Commands = {c1, c2}
  Nobody = Nobody
  Modes = {"auto"}
  Ceilings = {FALSE}
  PageSize = 1
  HistorySize = 1
  MaxFailures = 0
SYMMETRY AnyCommand
INVARIANT ScanWindowReconciled
