SPECIFICATION Spec
CONSTANTS
  deal = deal
  deal2 = deal2
  acme = acme
  Pursuits = {deal}
  Accounts = {acme}
  AccountOf <- OneAccount
  Stages = {open, quoted, won}
  NoStage = NoStage
  Terminal = {won}
  Threshold = 1
  Tiers = {2, 3}
  SnoozeDays = 2
  SentinelDays = 2
  Shadows = {}
  Scans = {s1, s2}
  LastDay = 5
  MaxMoves = 1
  MaxUndated = 1
  MaxAcks = 1
  MaxScans = 3
  MaxTroubles = 1
  NoFile = NoFile
  NoEntry = NoEntry
SYMMETRY Interchangeable
INVARIANTS TypeOK StallsAreAnnounced
   
CHECK_DEADLOCK FALSE
