\* A transcription, a health query or probe, four requests to quit, cancel or abort.
SPECIFICATION FairMain
CONSTANTS
    Receipts = {r1}
    Boot = boot
    Health = health
    Legacy = {boot, health}
    Starts = {boot}
    MaxGenerations = 2
    MaxActs = 4
INVARIANTS QuitIsClean InputOutlivesReader
PROPERTIES NothingSpawnsAfterQuit QuitEnds
CHECK_DEADLOCK FALSE
