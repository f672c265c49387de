CONSTANTS
    Job = {1, 2}
    Item = {"x", "y"}
    Kind = {"image", "video"}
    ItemOf <- TwoItems
    KindOf <- AllVideos
    CreatedAt <- InOrder
    Process = {"gw1"}
    WorkerId = {"gw1"}
    WorkerIdOf <- OwnWorkerId
    NoOwner = "nobody"
    BatchLimit = 2
    Gen = {1}
    MaxLate = 0
    MaxCrashes = 1
    MaxEdits = 1
    MaxContention = 0
SPECIFICATION WSpec
INVARIANTS
    DecidedIsShown
