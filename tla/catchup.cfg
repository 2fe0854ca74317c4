SPECIFICATION FairSpec
CONSTANTS
  Newest = 2
  MaxEvents = 2
  Commands = {c1}
  Nobody = Nobody
  Modes = {"auto", "full"}
  Ceilings = {FALSE}
  PageSize = 1
  HistorySize = 2
  MaxFailures = 1
PROPERTY CatchesUp
