SPECIFICATION FairSpec
CONSTANTS
    Capacity = 1
    MaxUnits = 3
PROPERTIES FilesStartAtKeyframe
CHECK_DEADLOCK FALSE
