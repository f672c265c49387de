CONSTANTS
    Run = {"r1"}
    Outcome = {"completed", "limit", "error", "recovery", "suspended"}
    MaxNotes = 2
    MaxStops = 1
    Gateway = {g1, g2}
    MaxFaults = 1
SPECIFICATION MCSpec
INVARIANTS
    OneVerdict
    UnfinishedIsOwned
    OutboxFollowsLog
    VerdictComesLast
    CompletedHasReply
PROPERTIES
    ImplementsRunService
    RecordedVerdictIsShown
CHECK_DEADLOCK FALSE
