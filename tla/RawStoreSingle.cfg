SPECIFICATION Spec
CONSTANTS
    d1 = d1
    d2 = d2
    d3 = d3
    Members = {d1}
    JournalLen = 4
    CheckpointInterval = 2
    Deferred = FALSE
    DeferJournalFlush = TRUE
    Incidents = {"crash", "fatal", "transient"}
    MaxAbsent = 0
    MaxGroup = 1
    EventsInGroup = TRUE
    MaxTxn = 5
    MaxIncidents = 1
SYMMETRY Sym
INVARIANT AckedRecoverable
PROPERTY ImplementsDurableLog
CHECK_DEADLOCK FALSE
