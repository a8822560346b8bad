SPECIFICATION Spec
CONSTANTS
    d1 = d1
    d2 = d2
    d3 = d3
    Members = {d1, d2, d3}
    JournalLen = 4
    CheckpointInterval = 100
    Deferred = TRUE
    DeferJournalFlush = TRUE
    Incidents = {"fatal"}
    MaxAbsent = 0
    MaxGroup = 1
    EventsInGroup = FALSE
    MaxTxn = 2
    MaxIncidents = 2
SYMMETRY Sym
INVARIANT IndeterminateFences
CHECK_DEADLOCK FALSE
