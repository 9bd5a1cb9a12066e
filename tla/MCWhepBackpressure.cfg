SPECIFICATION FairSpec
CONSTANTS
    Capacity = 1
    MaxUnits = 3
PROPERTIES DropWaitsForKeyframe
CHECK_DEADLOCK FALSE
