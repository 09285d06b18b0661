\* A transcription and a synthesis on Windows, where the exit of the process proves
\* nothing, revoked, lost or ended by a Quit, once or again after a failed shutdown.
SPECIFICATION FairSpec
CONSTANTS
    stt = stt
    tts = tts
    late = late
    w1 = w1
    w2 = w2
    Ops <- Pair
    Owners = {w1}
    OwnerOf <- SameDocument
    Stt <- Transcribes
    Windows = TRUE
    MaxIds = 4
    MaxOwnerIds = 4
    MaxActive = 2
    MaxOwnerActive = 2
    MaxStops = 1
    Scope = {"quit", "exit", "revoke", "handles"}
INVARIANTS RetiredOwnsNothing ContractHolds
PROPERTIES NoDispatchAfterAnswer EveryRequestAnswered QuitEnds
