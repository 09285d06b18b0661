\* A receipt and a call without one, three cancels, stops or aborts among them.
SPECIFICATION FairSpec
CONSTANTS
    Receipts = {r1}
    Legacy = {l1}
    Starts = {}
    MaxGenerations = 1
    MaxActs = 3
INVARIANTS ConfirmedIsTrue ReleasedIsUnused
PROPERTIES EverythingSettles
CHECK_DEADLOCK FALSE
