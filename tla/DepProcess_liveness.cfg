SPECIFICATION FairSpec
CONSTANTS
  Ids = {id1}
  Instances = {d1, d2}
  Listeners = {l1, l2}
  Handler = handler
  None = None
CHECK_DEADLOCK FALSE
PROPERTIES ExitedChildIsReaped ListenerIsSignalled Implements ImplementsLifecycle
