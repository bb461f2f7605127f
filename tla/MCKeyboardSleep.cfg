\* May the shell sleep although a character is waiting?
SPECIFICATION Spec
CONSTANTS
    BUFFER_SIZE = 3
    Keys = {"a", "f1", "lshift"}
    Shifts = {"lshift"}
    scancode_ascii <- Lower
    scancode_ascii_shift <- Upper
    Chars = {"a", "A"}
    NUL = "nul"
    MaxQueue = 2
INVARIANTS
    NoSleepOnInput
