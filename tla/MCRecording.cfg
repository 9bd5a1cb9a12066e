SPECIFICATION FairSpec
CONSTANTS
    Capacity = 1
    MaxUnits = 4
INVARIANTS WrittenIsFinalized
PROPERTIES FileGapsOnlyAfterKeyframe StopTakesEffect WaitReturns
CHECK_DEADLOCK FALSE
