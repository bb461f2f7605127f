\* Three slots, so the ring holds two characters: it wraps, fills and drops.
SPECIFICATION FairSpec
CONSTANTS
    BUFFER_SIZE = 3
    Keys = {"a", "f1", "lshift"}
    Shifts = {"lshift"}
    scancode_ascii <- Lower
    scancode_ascii_shift <- Upper
    Chars = {"a", "A"}
    NUL = "nul"
    MaxQueue = 2
INVARIANTS
    TypeOK
    HandlerNeverSpins
PROPERTIES
    ImplementsQueue
    AcceptsWhileRoom
    NoWedgeAfterInit
    ReadIfTypingGoesOn
