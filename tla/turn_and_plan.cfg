CONSTANTS
    q1 = q1
    q2 = q2
    i1 = i1
    Input = {i1}
    HasMaterials = {i1}
    Request = {q1, q2}
    MaxDepth = 1
    MaxRevision = 3
    MaxSwitch = 3
    MaxFaults = 2
    Step = {"s1", "s2"}
    Consent = {"s2"}
    GivenPlan = {"planning", "running"}
    GivenStep = {"pending", "running"}
    Writer = {}
    Deliverer = {}
    Page = 2
    MaxNotes = 1
    MaxAttempts = 2
    MaxRev = 2
    MaxCards = 1
    MaxEvents = 3
SYMMETRY RequestSymmetry
SPECIFICATION MCSpec
INVARIANTS
    BoundAsAccepted
    AnsweredTurnGoesOn
    RecoveredSafely
    StepStory
    QuotaCancelIsWhole
PROPERTIES
    ReopenedStays
CHECK_DEADLOCK FALSE
