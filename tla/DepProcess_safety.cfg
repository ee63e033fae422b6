SPECIFICATION Spec
CONSTANTS
  Ids = {id1, id2}
  Instances = {d1, d2, d3}
  Listeners = {l1}
  Handler = handler
  None = None
SYMMETRY Symmetry
CHECK_DEADLOCK FALSE
INVARIANTS TypeOK IInv NoNilDereference WaitsOnItsOwn LiveChildIsRegistered SignalMeansExited
PROPERTY EntryOutlivesChild
