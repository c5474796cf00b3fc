CONSTANTS
    Relay = {n1, n2, n3}
    LAST = 3
    BATCH = 2
    Faults = {"database", "crash"}
SPECIFICATION FairSpec
INVARIANTS
    RelayTypeOK
    HandedBeforePublished
    RepeatedOnlyAfterFailure
PROPERTY EveryEntryPublished
CHECK_DEADLOCK FALSE
