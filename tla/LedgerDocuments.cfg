\* Two documents after one another on POSIX, with a ledger that overflows and a client
\* that is stopped for somebody else.
SPECIFICATION Spec
CONSTANTS
    stt = stt
    tts = tts
    late = late
    w1 = w1
    w2 = w2
    Ops <- Three
    Owners = {w1, w2}
    OwnerOf <- NextDocument
    Stt <- Transcribes
    Windows = FALSE
    MaxIds = 2
    MaxOwnerIds = 2
    MaxActive = 2
    MaxOwnerActive = 1
    MaxStops = 1
    Scope = {"close", "stop"}
INVARIANTS FallbackIsSafe FaultAnswersAll
PROPERTIES ChangesAreVisible InputOutlivesUse LifeSpec
