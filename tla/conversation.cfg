CONSTANTS
    Reader = {a, b}
    Edit = {"edit"}
    Job = {a, b}
    Version = {"v1"}
    MaxRevision = 5
    Input = {i1, i2, i3}
    Tab = {a, b}
    Compactor = {a, b}
    MaxLeases = 2
    MaxOutcomes = 2
    Writer = {a, b}
    Deliverer = {"d1"}
    Page = 2
    MaxNotes = 1
    MaxAttempts = 2
    Msg = {a, b}
    Content = {"c1", "c2"}
    MaxJobs = 1
    MaxIds = 3
    MaxCrash = 1
SPECIFICATION MCSpec
SYMMETRY Symmetry
INVARIANTS
    RevisionNamesContent
    NoEventLost
    DeliveredInOrder
    ExecutionIsExclusive
    LeaseEndsOnce
PROPERTIES
    DraftNeverGoesBack
    InboxOrder
    FirstContentStays
CHECK_DEADLOCK FALSE
