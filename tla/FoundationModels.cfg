\* Three calls of two documents and two processes, which may hang, fail to exit or vanish.
SPECIFICATION FairSpec
CONSTANTS
    Calls = {c1, c2, c3}
    NoCall = NoCall
    Helpers = {h1, h2}
    NoHelper = NoHelper
    MaxDocuments = 2
INVARIANTS OneHelper QuitIsClean
PROPERTIES StopIsTrue AnswersAreWanted EveryCallSettles
CHECK_DEADLOCK FALSE
