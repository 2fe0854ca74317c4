SPECIFICATION FairSpec
CONSTANTS
  c1 = c1
  c2 = c2
  n1 = n1
  p1 = p1
  p2 = p2
  Items = {c1, c2, n1}
  Account <- Accounts2
  Severity <- Severity2
  Place <- Place2
  Filters <- Filters2
  Polls = {p1, p2}
  Cap = 2
  MaxPolls = 3
  MaxDeaths = 1
INVARIANTS CursorIsDelivered
PROPERTIES NothingTwice NoSeverityStarves
CHECK_DEADLOCK FALSE
