SPECIFICATION Spec
CONSTANTS
  deal = deal
  deal2 = deal2
  acme = acme
  Pursuits = {deal, deal2}
  Accounts = {acme}
  AccountOf <- OneAccount
  Stages = {open, quoted, won}
  NoStage = NoStage
  Terminal = {won}
  Threshold = 1
  Tiers = {2, 3}
  SnoozeDays = 2
  SentinelDays = 2
  Shadows <- Prefixed
  Scans = {s1}
  LastDay = 5
  MaxMoves = 1
  MaxUndated = 1
  MaxAcks = 0
  MaxScans = 3
  MaxTroubles = 0
  NoFile = NoFile
  NoEntry = NoEntry

INVARIANTS StallsAreAnnounced

CHECK_DEADLOCK FALSE
