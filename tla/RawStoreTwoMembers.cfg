SPECIFICATION Spec
CONSTANTS
    d1 = d1
    d2 = d2
    d3 = d3
    Members = {d1, d2}
    JournalLen = 4
    CheckpointInterval = 100
    Deferred = TRUE
    DeferJournalFlush = TRUE
    Incidents = {"crash"}
    MaxAbsent = 0
    MaxGroup = 1
    EventsInGroup = FALSE
    MaxTxn = 3
    MaxIncidents = 1
SYMMETRY Sym
INVARIANT AckedRecoverable
CHECK_DEADLOCK FALSE
