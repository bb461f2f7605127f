-------------------------------- MODULE Screen --------------------------------
(***************************************************************************)
(* The text screen (drivers/screen.c): what print_string and clear_screen   *)
(* do to the cells and the cursor.  The cells run on behind the last row,   *)
(* because the cursor does: the video memory ends and the writes do not.    *)
(***************************************************************************)
EXTENDS Integers, SequencesExt

CONSTANTS
    MAX_COLS, MAX_ROWS, \* 80 and 25 in the code
    Memory              \* bound: cells from VIDEO_ADDRESS on

ASSUME ScreenAssumption ==
    /\ MAX_COLS \in Nat \ {0} /\ MAX_ROWS \in Nat \ {0}
    /\ Memory \in Nat /\ Memory >= MAX_COLS * MAX_ROWS

BLANK     == " "
NEWLINE   == "NL"
BACKSPACE == "BS"
FOREIGN   == "foreign"  \* what the memory behind the screen holds

OnScreen == 0..(MAX_COLS * MAX_ROWS - 1)

clear_screen(screen) ==
    [cells  |-> [i \in DOMAIN screen.cells |->
                   IF i \in OnScreen THEN BLANK ELSE screen.cells[i]],
     cursor |-> 0]

\* A new line starts at the next row, a backspace only moves the cursor.
print_char(screen, c) ==
    CASE c = NEWLINE   -> [screen EXCEPT !.cursor = (@ \div MAX_COLS + 1) * MAX_COLS]
      [] c = BACKSPACE -> [screen EXCEPT !.cursor = IF @ > 0 THEN @ - 1 ELSE @]
      [] OTHER         -> [screen EXCEPT !.cells[screen.cursor] = c, !.cursor = @ + 1]

\* One character after the other.
print_string(screen, text) ==
    LET after[n \in 0..Len(text)] ==
          IF n = 0 THEN screen ELSE print_char(after[n - 1], text[n])
    IN  after[Len(text)]

\* The screen that main clears before it prints anything.
Cleared == clear_screen([cells |-> [i \in 0..(Memory - 1) |-> FOREIGN], cursor |-> 0])
=============================================================================
