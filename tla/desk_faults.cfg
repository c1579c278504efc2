SPECIFICATION Spec
CONSTANTS
    Calls = {c1, c2}
    None = None
    MaxInFlight = 1
    MayFail = TRUE
    HumanKp = {TRUE}
    GptStages = {"negotiation"}
    Inputs = {"turn", "cut3", "fallback", "grey", "hard_block", "url", "ops", "customs", "restricted", "no_channels", "price_review", "pause", "resume", "takeover", "reject", "close", "escalate", "decide", "question", "recalculate"}
    StaffBudget = 1
SYMMETRY Symmetry
INVARIANTS
    FlagHasCause
    HeldKpAnnounced
CHECK_DEADLOCK FALSE
