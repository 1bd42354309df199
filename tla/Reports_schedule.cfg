SPECIFICATION FairSpec
CONSTANTS
    Years = 4
    LeapYears = {2}
    Offset = 1
    Workers = {w1, w2}
    Pages = {p1}
    Gone = Gone
    Schedules <- SchedulesChosen
    EditedTo <- EditsChosen
    Times <- Nights
    MaxQueued = 1
    MaxEvents = 1
INVARIANTS
    TypeOK
    StoppedStays
PROPERTIES
    RunLeavesNotDue
    DueIsHandled
