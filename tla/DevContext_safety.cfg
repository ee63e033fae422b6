SPECIFICATION FairSpec
CONSTANT MaxFaults = 2
INVARIANTS TypeOK KnownIsUp HandlersHaveEngine
PROPERTIES DepOutlivesProxy OnlyHalfStartedRemain CloseSucceeds
