SPECIFICATION Spec
CONSTANTS
  Ids = {id1, id2}
  Instances = {d1, d2}
  Listeners = {l1}
  Handler = handler
  None = None
CHECK_DEADLOCK FALSE
PROPERTY CloseStopsChild
