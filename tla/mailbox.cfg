SPECIFICATION Spec
CONSTANTS
  Newest = 2
  MaxEvents = 2
  Commands = {c1, c2}
  Nobody = Nobody
  Modes = {"auto", "full", "since"}
  Ceilings = {TRUE}
  PageSize = 1
  HistorySize = 1
  MaxFailures = 1
SYMMETRY AnyCommand
INVARIANTS TypeOK MirrorsMailbox BackfillStoresAll
PROPERTIES RowsLeaveWithMessages RefreshIsResumed
