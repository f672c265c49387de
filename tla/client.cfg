CONSTANTS
    Conversation = {"a"}
    Kind = {"tool", "suspended", "completed"}
    Slot = {1, 2}
    MaxPublic = 3
    MaxRuns = 2
    MaxOpens = 2
    MaxAsks = 1
    MaxFaults = 1
SPECIFICATION ClientFairSpec
INVARIANTS ShownIsPrefix
PROPERTIES EndIsShown
CHECK_DEADLOCK FALSE
