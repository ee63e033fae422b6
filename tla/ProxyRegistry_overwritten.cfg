SPECIFICATION Spec
CONSTANTS
  p1 = p1
  p2 = p2
  r1 = r1
  r2 = r2
  NoRule = NoRule
  Proxies = {p1, p2}
  Rules = {r1, r2}
  Chains <- SomeChains
  UnitLists <- Lists
  MaxLate = 2
CHECK_DEADLOCK FALSE
PROPERTY OtherChainsKept
