SPECIFICATION Spec
CONSTANTS
    d1 = d1
    d2 = d2
    d3 = d3
    Members = {d1, d2, d3}
    JournalLen = 3
    CheckpointInterval = 100
    Deferred = FALSE
    DeferJournalFlush = FALSE
    Incidents = {"transient"}
    MaxAbsent = 1
    MaxGroup = 1
    EventsInGroup = TRUE
    MaxTxn = 1
    MaxIncidents = 1
SYMMETRY Sym
PROPERTY FenceStopsWrites
CHECK_DEADLOCK FALSE
