SPECIFICATION Spec
CONSTANTS
    Plan <- Picture
    Threshold = 4
    IouNum = 1
    IouDen = 2
    MaxDetections = 3
    Rules <- PersonRule
    Keep_ = 0
    MaxAlerts = 2
    MaxEvents = 2
    Frames <- Seen
    AlertCapacity = 1
    MaxFrames = 4
    MaxBoots = 2
    SizeMax = 255
    IntMax = 127
INVARIANTS
    
    AlertsEarned
    NoStaleDetections
PROPERTIES
    ErrorSurfaces
CHECK_DEADLOCK FALSE
