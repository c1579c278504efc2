SPECIFICATION Spec
CONSTANTS
    MaxMsg = 1
    MaxHour = 1
    MaxRestarts = 1
    MaxFaults = 0
    Faults = {}
    Attempts = 3
    MaxStalls = 1
INVARIANTS
    ProcessIdempotent
CHECK_DEADLOCK FALSE
