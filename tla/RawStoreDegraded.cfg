SPECIFICATION Spec
CONSTANTS
    d1 = d1
    d2 = d2
    d3 = d3
    Members = {d1, d2, d3}
    JournalLen = 3
    CheckpointInterval = 100
    Deferred = FALSE
    DeferJournalFlush = FALSE
    Incidents = {"fatal", "transient", "verify"}
    MaxAbsent = 1
    MaxGroup = 1
    EventsInGroup = TRUE
    MaxTxn = 1
    MaxIncidents = 1
SYMMETRY Sym
INVARIANT FanoutSound
INVARIANT IndeterminateFences
PROPERTY AckVisible
PROPERTY FenceStopsTransactions
CHECK_DEADLOCK FALSE
