-------------------------------- MODULE Paths --------------------------------
(***************************************************************************)
(* Path texts and file names: the path parser (fs/path_parser.c), the name  *)
(* of a directory item (fs/fat16.c) and the comparison of the two           *)
(* (string/string.c).  A text is a sequence of characters; the terminating  *)
(* NUL is the character behind its end.                                     *)
(***************************************************************************)
EXTENDS Integers, SequencesExt

NUL     == "NUL"        \* 0x00: ends a text; first in a name: no more items
DELETED == "DELETED"    \* 0xE5: first in a name: the item is free
BLANK   == " "          \* pads the fields of a directory item

CharAt(text, i) == IF i \in 1..Len(text) THEN text[i] ELSE NUL

Digit == [c \in {"0", "1", "2", "3", "4", "5", "6", "7", "8", "9"} |->
            CHOOSE n \in 0..9 : ToString(n) = c]

-----------------------------------------------------------------------------
(* The parser *)

\* The drive of a text like "1:/...", or -1.
get_drive_no(text) ==
    IF CharAt(text, 1) \in DOMAIN Digit /\ CharAt(text, 2) = ":" /\ CharAt(text, 3) = "/"
      THEN Digit[text[1]]
      ELSE -1

\* One character of the loops of path_parser_parse and get_next_part: a part
\* ends at a slash, and a part without characters ends the path.
NextChar(p, c) ==
    IF p.ended THEN p
    ELSE IF c # "/" THEN [p EXCEPT !.part = Append(@, c)]
    ELSE IF p.part = <<>> THEN [p EXCEPT !.ended = TRUE]
    ELSE [p EXCEPT !.parts = Append(@, p.part), !.part = <<>>]

\* The parts of a text behind its drive.
path_parser_parse(text) ==
    FoldLeft(NextChar, [parts |-> <<>>, part |-> <<>>, ended |-> FALSE],
             SubSeq(text, 4, Len(text)) \o <<"/">>).parts

-----------------------------------------------------------------------------
(* Names *)

\* Slip: a field that is full loses its last character.
to_proper_string_Short(field) ==
    LET stop == SelectInSeq(field, LAMBDA c : c \in {BLANK, NUL})
    IN  SubSeq(field, 1, IF stop = 0 THEN Len(field) - 1 ELSE stop - 1)

\* The characters of a field up to its first blank.
to_proper_string(field) ==
    LET stop == SelectInSeq(field, LAMBDA c : c \in {BLANK, NUL})
    IN  IF stop = 0 THEN field ELSE SubSeq(field, 1, stop - 1)

full_relative_filename(item) ==
    to_proper_string(item.filename)
      \o (IF item.ext[1] \in {BLANK, NUL} THEN <<>>
          ELSE <<".">> \o to_proper_string(item.ext))

Capital == [a |-> "A", b |-> "B", c |-> "C", d |-> "D", e |-> "E", f |-> "F"]

toupper(c) == IF c \in DOMAIN Capital THEN Capital[c] ELSE c

\* strncasecmp(s, t, n) = 0: the first n characters agree, or all up to the end
\* of both texts.
strncasecmp_equal(s, t, n) ==
    \A i \in 1..n :
        (\A j \in 1..(i - 1) : CharAt(s, j) # NUL)
          => toupper(CharAt(s, i)) = toupper(CharAt(t, i))
=============================================================================
