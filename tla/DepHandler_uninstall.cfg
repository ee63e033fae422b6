SPECIFICATION Spec
CONSTANTS
  Deps = {d1}
  Clients = {c1, c2}
  Attempts = 2
  MaxCalls = 2
CHECK_DEADLOCK FALSE
PROPERTY RunningStaysInstalled
