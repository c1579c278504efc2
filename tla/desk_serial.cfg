SPECIFICATION Spec
CONSTANTS
    Calls = {c1, c2, c3}
    None = None
    MaxInFlight = 1
    MayFail = FALSE
    HumanKp = {TRUE}
    GptStages = {"negotiation"}
    Inputs = {"turn", "hint", "resume", "decide", "approve_kp", "accept_offer", "accept_contract", "question"}
    StaffBudget = 2
SYMMETRY Symmetry
INVARIANTS
    TypeOK
    MailedOnce
PROPERTIES
    PendingBatchKept
    KeepsKpLedger
CHECK_DEADLOCK FALSE
