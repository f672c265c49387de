CONSTANTS
    PlainTool = {}
    ConfirmTool = {"write_memory"}
    CostlyTool = {}
    MaxCalls <- OneCallEach
    Response = {a, b}
    Handler = {h1}
    Request = {q1, q2}
    MaxDepth = 1
    MaxRevision = 1
    MaxFaults = 1
    UsedRoute = {"respond", "authorize"}
SPECIFICATION FairSpec
INVARIANTS OneResumeRun
PROPERTY ResponseIsHonoured
CHECK_DEADLOCK FALSE
