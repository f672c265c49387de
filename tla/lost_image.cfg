CONSTANTS
    Job = {1, 2}
    Item = {"x", "y"}
    Kind = {"image", "video"}
    ItemOf <- TwoItems
    KindOf <- AllImages
    CreatedAt <- InOrder
    Process = {"gw1"}
    WorkerId = {"gw1"}
    WorkerIdOf <- OwnWorkerId
    NoOwner = "nobody"
    BatchLimit = 2
    Gen = {1}
    MaxLate = 0
    MaxCrashes = 0
    MaxEdits = 0
    MaxContention = 0
SPECIFICATION WSpec
PROPERTY FinishedImageKept
