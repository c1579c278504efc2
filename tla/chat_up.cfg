SPECIFICATION Spec
CONSTANTS
    MaxMsg = 1
    MaxHour = 1
    MaxRestarts = 0
    MaxFaults = 3
    Faults = {"refuse", "lose", "giveup", "die", "drop", "send", "deny", "mute"}
    Attempts = 2
    MaxStalls = 1
INVARIANTS
    AnswerIsOnRecord
PROPERTIES
    MessageAnswered
CHECK_DEADLOCK FALSE
