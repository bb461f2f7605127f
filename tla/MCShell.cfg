\* The last command is asked for on the last row: its line runs off the screen.
SPECIFICATION Spec
CONSTANTS
    MAX_COLS = 3
    MAX_ROWS = 2
    Memory = 40
    BufSize = 6
    MAX_ARGS = 2
    Chars <- MCChars
    Commands <- MCCommands
    LastPrompt = 3
    Prompt <- MCPrompt
    Unknown <- MCUnknown
    Message <- MCMessage
INVARIANTS
    EchoShowsLine
PROPERTIES
    ImplementsEditor
CHECK_DEADLOCK FALSE
