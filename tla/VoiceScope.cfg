\* Two requests at most at once, two adapters of one document.
SPECIFICATION FairSpec
CONSTANTS
    MaxRecords = 2
    MaxAdapters = 2
    MaxActs = 4
INVARIANTS StopIsTrue
PROPERTIES NothingAfterStop EveryStopSettles
CHECK_DEADLOCK FALSE
