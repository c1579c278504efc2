SPECIFICATION Spec
CONSTANTS
    Calls = {c1}
    None = None
    MaxInFlight = 1
    MayFail = FALSE
    HumanKp = {TRUE}
    GptStages = {"negotiation"}
    Inputs = {"turn", "decide", "question"}
    StaffBudget = 1
SYMMETRY Symmetry
PROPERTIES
    ApproveReturnsToWork
CHECK_DEADLOCK FALSE
