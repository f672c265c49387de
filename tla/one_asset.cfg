CONSTANTS
    Job = {1, 2}
    Item = {"x"}
    Kind = {"image", "video"}
    ItemOf <- OneItem
    KindOf <- AllImages
    CreatedAt <- InOrder
    Process = {"gw1"}
    WorkerId = {"gw1"}
    WorkerIdOf <- OwnWorkerId
    NoOwner = "nobody"
    BatchLimit = 2
    Gen = {1}
    MaxLate = 0
    MaxCrashes = 1
    MaxEdits = 0
    MaxContention = 1
SPECIFICATION WSpec
INVARIANTS
    ShownSuccessIsReal
    StatusContract
    PolledWasAccepted
