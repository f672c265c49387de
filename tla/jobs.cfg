CONSTANTS
    Job = {1}
    Item = {"asset", "scene"}
    Kind = {"image", "video"}
    ItemOf <- MCItemOf
    KindOf <- MCKindOf
    CreatedAt <- MCCreatedAt
    Process = {"gw1", "gw2"}
    WorkerId = {"gateway-generation-job:1"}
    WorkerIdOf <- SameWorkerId
    NoOwner = "nobody"
    BatchLimit = 1
    Gen = {1, 2}
    MaxLate = 2
    MaxCrashes = 2
SPECIFICATION FairSpec
INVARIANTS
    LeaseExclusion
PROPERTIES
    VerdictIsFinal
    LifecycleSpec
    StartResolves
    DuePollAnswered
