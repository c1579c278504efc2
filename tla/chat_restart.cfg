SPECIFICATION Spec
CONSTANTS
    MaxMsg = 1
    MaxHour = 2
    MaxRestarts = 1
    MaxFaults = 0
    Faults = {}
    Attempts = 1
    MaxStalls = 1
PROPERTIES
    LatestTakenUp
CHECK_DEADLOCK FALSE
