-------------------------------- MODULE Shell --------------------------------
(***************************************************************************)
(* The shell of kernel.c: the line editor over cmd_buf and the screen, and   *)
(* command_run (kernel/command.c), which cuts the line into words in place   *)
(* and calls the handler of the first one.                                   *)
(*                                                                          *)
(* The characters come from keyboard_getc, whose promise is KeyQueue: here   *)
(* any character may come next.  One step handles one character, or runs one *)
(* command; the commands that read the disks are FileSystem's and Loader's   *)
(* and only print a line here.                                               *)
(***************************************************************************)
EXTENDS Screen

CONSTANTS
    BufSize,        \* sizeof(cmd_buf), 128
    MAX_ARGS,       \* 10
    Chars,          \* bound: characters that keyboard_getc may return
    LastPrompt,     \* bound: the last cell where a command may be asked for
    Commands,       \* command table: name -> its handler
    Prompt, Unknown, Message   \* texts: "> ", "Unknown command: ", and a line
                               \* that main or another handler prints

ASSUME ShellAssumption ==
    /\ BufSize \in Nat \ {0} /\ MAX_ARGS \in Nat \ {0}
    /\ \A name \in DOMAIN Commands : Commands[name] \in {"echo", "cls", "message"}
    /\ \A text \in {Prompt, Unknown, Message} :
         text \in Seq(Range(text) \ {NEWLINE, BACKSPACE})
    /\ "NUL" \notin Chars
    /\ LastPrompt \in Nat
    /\ LastPrompt + 4 * MAX_COLS + 2 * BufSize + Len(Prompt) + Len(Unknown) + Len(Message)
         < Memory       \* a line and what it prints have room behind it

NUL == "NUL"
DEL == "DEL"        \* 0x7F

VARIABLES
    pc,             \* "prompt", "edit": reading a line, "run": running it
    cmd_buf, cmd_idx,
    screen,
    start,          \* history: the cursor behind the prompt
    ran             \* history: the words of the command that was run

vars == <<pc, cmd_buf, cmd_idx, screen, start, ran>>

Empty == [i \in 0..(BufSize - 1) |-> NUL]

\* main has printed its greeting.
Init ==
    /\ pc = "prompt"
    /\ cmd_buf = Empty /\ cmd_idx = 0
    /\ screen = print_string(Cleared, Message \o <<NEWLINE>>) /\ start = 0
    /\ ran = <<>>

-----------------------------------------------------------------------------
(* The line editor *)

Prints(text) == screen' = print_string(screen, text)

prompt ==
    /\ pc = "prompt"
    /\ screen.cursor <= LastPrompt
    /\ Prints(Prompt)
    /\ cmd_buf' = Empty /\ cmd_idx' = 0
    /\ start' = screen.cursor + Len(Prompt)
    /\ ran' = <<>>
    /\ pc' = "edit"

new_line ==
    /\ pc = "edit"
    /\ Prints(<<NEWLINE>>)
    /\ cmd_buf' = [cmd_buf EXCEPT ![cmd_idx] = NUL]
    /\ pc' = "run"
    /\ UNCHANGED <<cmd_idx, start, ran>>

\* Slip: the cursor goes back and the character stays on the screen.
erase_Shown ==
    /\ pc = "edit"
    /\ cmd_idx > 0
    /\ cmd_idx' = cmd_idx - 1
    /\ Prints(<<BACKSPACE>>)
    /\ UNCHANGED <<pc, cmd_buf, start, ran>>

\* A backspace or DEL in a line that is not empty; cmd_buf keeps the character.
erase ==
    /\ pc = "edit"
    /\ cmd_idx > 0
    /\ cmd_idx' = cmd_idx - 1
    /\ Prints(<<BACKSPACE, BLANK, BACKSPACE>>)
    /\ UNCHANGED <<pc, cmd_buf, start, ran>>

insert(c) ==
    /\ pc = "edit"
    /\ cmd_idx < BufSize - 1
    /\ cmd_buf' = [cmd_buf EXCEPT ![cmd_idx] = c]
    /\ cmd_idx' = cmd_idx + 1
    /\ Prints(<<c>>)
    /\ UNCHANGED <<pc, start, ran>>

\* A full line takes no character, an empty one nothing off.
getc(c) ==
    \/ c = NEWLINE /\ new_line
    \/ c \in {BACKSPACE, DEL} /\ erase
    \/ c \notin {NEWLINE, BACKSPACE, DEL} /\ insert(c)

-----------------------------------------------------------------------------
(* command_run *)

\* The text at place p of a buffer.
TextAt(buf, p) ==
    LET ends == {i \in DOMAIN buf : i >= p /\ buf[i] = NUL}
    IN  [k \in 1..(Min(ends) - p) |-> buf[p + k - 1]]

\* Slip: the space behind a word is not replaced.
Scan_Uncut(t, p) ==
    IF t.inside
      THEN [t EXCEPT !.inside = t.buf[p] # BLANK]
      ELSE IF t.buf[p] # BLANK /\ Len(t.argv) < MAX_ARGS
             THEN [t EXCEPT !.argv = Append(@, p), !.inside = TRUE]
             ELSE t

\* One character of the loop: a word starts at the first character that is not a
\* space, and ends at a space, which a NUL replaces.  Behind MAX_ARGS words the
\* rest is left alone.
Scan(t, p) ==
    IF t.inside /\ t.buf[p] = BLANK
      THEN [t EXCEPT !.buf[p] = NUL, !.inside = FALSE]
    ELSE IF ~ t.inside /\ t.buf[p] # BLANK /\ Len(t.argv) < MAX_ARGS
      THEN [t EXCEPT !.argv = Append(@, p), !.inside = TRUE]
    ELSE t

Parsed ==
    LET length == Len(TextAt(cmd_buf, 0))
        scanned[n \in 0..length] ==
          IF n = 0 THEN [buf |-> cmd_buf, argv |-> <<>>, inside |-> FALSE]
          ELSE Scan(scanned[n - 1], n - 1)
    IN  scanned[length]

argv == [k \in 1..Len(Parsed.argv) |-> TextAt(Parsed.buf, Parsed.argv[k])]

\* The words with a space between two of them, and a new line.
Joined(words) ==
    LET text[n \in 0..Len(words)] ==
          IF n = 0 THEN <<>>
          ELSE text[n - 1] \o (IF text[n - 1] = <<>> THEN <<>> ELSE <<BLANK>>) \o words[n]
    IN  text[Len(words)] \o <<NEWLINE>>

\* Nothing for a line without words; else the handler with the name argv[0].
command_run ==
    /\ pc = "run"
    /\ \/ argv = <<>> /\ UNCHANGED screen
       \/ /\ argv # <<>> /\ argv[1] \notin DOMAIN Commands
          /\ Prints(Unknown \o argv[1] \o <<NEWLINE>>)
       \/ /\ argv # <<>> /\ argv[1] \in DOMAIN Commands
          /\ LET handler == Commands[argv[1]]
             IN  \/ handler = "echo" /\ Prints(Joined(Tail(argv)))
                 \/ handler = "cls" /\ screen' = clear_screen(screen)
                 \/ handler = "message" /\ Prints(Message \o <<NEWLINE>>)
    /\ cmd_buf' = Parsed.buf
    /\ ran' = argv
    /\ pc' = "prompt"
    /\ UNCHANGED <<cmd_idx, start>>

Next == prompt \/ command_run \/ \E c \in Chars : getc(c)

Spec == Init /\ [][Next]_vars

-----------------------------------------------------------------------------
(* Properties *)

\* The line as edited, or as command_run finds it.
line ==
    CASE pc = "edit" -> [k \in 1..cmd_idx |-> cmd_buf[k - 1]]
      [] pc = "run"  -> TextAt(cmd_buf, 0)
      [] OTHER       -> <<>>

\* As far as a row of the screen is left for it, the line in the buffer stands
\* behind the prompt, the cursor stands behind the line, and the rest of the screen
\* is blank: after every mixture of characters and erases, also across the end of
\* a row and where the line runs off the last one and is erased back onto it.  Of
\* what lies behind the last row nothing is said: nobody sees it, and a comment in
\* print_char says that the output wraps there, which the code does not do.
EchoShowsLine ==
    pc = "edit" =>
      /\ start + cmd_idx \in OnScreen => screen.cursor = start + cmd_idx
      /\ \A i \in OnScreen : i >= start =>
           screen.cells[i] = IF i < start + cmd_idx THEN line[i - start + 1] ELSE BLANK

\* The buffer, the index that an erase moves back over it and the parsing in
\* place run the words of the line that was edited: no character that was erased,
\* none of an earlier line.
Editor == INSTANCE LineEditor
            WITH Room <- BufSize - 1, MaxWords <- MAX_ARGS, SPACE <- BLANK,
                 Letters <- Chars \ {NEWLINE, BACKSPACE, DEL}
ImplementsEditor == Editor!Spec
=============================================================================
