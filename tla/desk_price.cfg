SPECIFICATION Spec
CONSTANTS
    Calls = {c1, c2}
    None = None
    MaxInFlight = 1
    MayFail = FALSE
    HumanKp = {TRUE}
    GptStages = {"negotiation"}
    Inputs = {"turn", "resume", "question"}
    StaffBudget = 1
SYMMETRY Symmetry
INVARIANTS
    NoPriceBeforeApproval
CHECK_DEADLOCK FALSE
