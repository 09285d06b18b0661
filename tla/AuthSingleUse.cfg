\* Two requests that find the token stale.
SPECIFICATION Spec
CONSTANTS
    Calls = {c1, c2, c3, c4}
    NoCall = NoCall
    Flows = {"pkce-paste"}
    Rotating = TRUE
    Requests = {"begin", "complete", "request"}
    Faults = {}
    MaxGrants = 3
INVARIANTS SingleUse
CHECK_DEADLOCK FALSE
