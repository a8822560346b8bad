SPECIFICATION Spec
CONSTANTS
    d1 = d1
    d2 = d2
    d3 = d3
    Members = {d1, d2, d3}
    JournalLen = 6
    CheckpointInterval = 100
    Deferred = FALSE
    DeferJournalFlush = FALSE
    Incidents = {"crash"}
    MaxAbsent = 0
    MaxGroup = 1
    EventsInGroup = TRUE
    MaxTxn = 3
    MaxIncidents = 1
SYMMETRY Sym
INVARIANT OlderSuffixSafe
CHECK_DEADLOCK FALSE
