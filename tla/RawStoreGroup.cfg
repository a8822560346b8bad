SPECIFICATION Spec
CONSTANTS
    d1 = d1
    d2 = d2
    d3 = d3
    Members = {d1, d2, d3}
    JournalLen = 5
    CheckpointInterval = 100
    Deferred = TRUE
    DeferJournalFlush = TRUE
    Incidents = {"crash", "fatal", "transient"}
    MaxAbsent = 0
    MaxGroup = 2
    EventsInGroup = FALSE
    MaxTxn = 2
    MaxIncidents = 1
SYMMETRY Sym
INVARIANT AckedRecoverable
PROPERTY ImplementsDurableLog
CHECK_DEADLOCK FALSE
