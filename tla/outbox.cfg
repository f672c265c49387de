CONSTANTS
    Key = {"w1"}
    Process = {"gw1"}
    WorkerId = {"gw1"}
    WorkerIdOf <- OwnWorkerId
    NoOwner = "nobody"
    Request = {"r1", "r2"}
    MaxPolls = 3
    MaxReplays = 2
    MaxFaults = 3
SPECIFICATION FairSpec
INVARIANTS
    NoAutomaticResubmit
PROPERTIES
    ReviewWaitsForOwner
    DeliveryResolves
CHECK_DEADLOCK FALSE
