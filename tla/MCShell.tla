------------------------------- MODULE MCShell -------------------------------
(* Shell with a screen of two short rows, a line of five characters and two   *)
(* words a command: "e" is echo, "c" is cls, "ec" another command.            *)
EXTENDS Shell

MCChars    == {"e", "c", BLANK, NEWLINE, BACKSPACE}
MCCommands == <<"e">> :> "echo" @@ <<"c">> :> "cls" @@ <<"e", "c">> :> "message"
MCPrompt   == <<">">>
MCUnknown  == <<"?">>
MCMessage  == <<"m">>
=============================================================================
