SPECIFICATION Spec
CONSTANTS
    Calls = {c1, c2, c3}
    None = None
    MaxInFlight = 1
    MayFail = FALSE
    HumanKp = {TRUE}
    GptStages = {"negotiation"}
    Inputs = {"turn", "hint", "decide", "question"}
    StaffBudget = 1
SYMMETRY Symmetry
INVARIANTS
    MailedWasPreviewed
CHECK_DEADLOCK FALSE
