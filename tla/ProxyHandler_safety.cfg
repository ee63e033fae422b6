SPECIFICATION FairSpec
CONSTANTS
  p1 = p1
  p2 = p2
  r1 = r1
  r2 = r2
  Proxies = {p1, p2}
  Slow = {p2}
  Rules = {r1, r2}
  Chains <- OneEach
  MaxFaults = 1
CHECK_DEADLOCK FALSE
INVARIANT TypeOK
PROPERTIES StartedWereUp ClosedWereStopped CloseSucceeds
