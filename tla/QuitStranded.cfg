\* One launch, one request to quit: the comment on faults that were fully reaped.
SPECIFICATION SpecMain
CONSTANTS
    Receipts = {r1}
    Boot = boot
    Health = health
    Legacy = {boot, health}
    Starts = {boot}
    MaxGenerations = 1
    MaxActs = 1
INVARIANTS ReapedFaultsQuit
CHECK_DEADLOCK FALSE
