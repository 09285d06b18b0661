\* A provider of either sign-in and four calls of any kind, with failing files, lost answers
\* and the end of the process.
SPECIFICATION FairSpec
CONSTANTS
    Calls = {c1, c2, c3, c4}
    NoCall = NoCall
    Flows = {"codex-device", "pkce-paste"}
    Rotating = TRUE
    Requests = {"begin", "poll", "complete", "cancel", "logout", "request"}
    Faults = {"disk", "lost", "crash"}
    MaxGrants = 3
INVARIANTS OneFlight StoredIsUsable
PROPERTIES EveryCallSettles
CHECK_DEADLOCK FALSE
