CONSTANTS
    PlainTool = {}
    ConfirmTool = {"write_memory"}
    CostlyTool = {"generate"}
    MaxCalls <- TwoCallsLast
    Response = {a}
    Handler = {h1, h2}
    Request = {q1}
    MaxDepth = 2
    MaxRevision = 0
    MaxFaults = 0
    UsedRoute = {"respond", "authorize"}
SYMMETRY HandlerSymmetry
SPECIFICATION Spec
INVARIANTS ConsentedEffects OwnCredential OneEffectPerCall
CHECK_DEADLOCK FALSE
