SPECIFICATION FairSpec
CONSTANTS
    Capacity = 1
    MaxUnits = 4
INVARIANTS ClosedIsQuiet
PROPERTIES GapsOnlyAfterKeyframe CloseReturns
CHECK_DEADLOCK FALSE
