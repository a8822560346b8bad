SPECIFICATION EventsSpec
CONSTANTS
    Members = {d1}
    JournalLen = 8
    CheckpointInterval = 100
    Deferred = FALSE
    DeferJournalFlush = FALSE
    Incidents = {"crash"}
    MaxAbsent = 0
    MaxGroup = 1
    EventsInGroup = TRUE
    MaxTxn = 2
    MaxIncidents = 1
INVARIANT AckedRecoverable
CHECK_DEADLOCK FALSE
