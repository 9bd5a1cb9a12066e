SPECIFICATION FairSpec
CONSTANTS
    Capacity = 1
    MaxUnits = 3
PROPERTIES ErrorStaysVisible
CHECK_DEADLOCK FALSE
