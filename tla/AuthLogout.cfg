\* A logout while a refresh is under way.
SPECIFICATION Spec
CONSTANTS
    Calls = {c1, c2, c3, c4}
    NoCall = NoCall
    Flows = {"device"}
    Rotating = TRUE
    Requests = {"begin", "poll", "logout", "request"}
    Faults = {}
    MaxGrants = 2
INVARIANTS LogoutHolds
CHECK_DEADLOCK FALSE
