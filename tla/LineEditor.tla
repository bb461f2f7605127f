------------------------------ MODULE LineEditor ------------------------------
(***************************************************************************)
(* What the shell promises to whom types: a line grows by what is typed,    *)
(* up to Room characters, an erase takes the last one off, and a new line   *)
(* runs the words of the line, at most MaxWords of them.                    *)
(***************************************************************************)
EXTENDS Integers, Sequences, FiniteSets

CONSTANTS
    Room,           \* characters of a line
    MaxWords,       \* words of a command
    Letters,        \* the characters that are kept
    SPACE           \* the one between words

VARIABLES
    line,           \* as edited so far
    ran             \* the words of the line being run

Init == line = <<>> /\ ran = <<>>

Insert ==
    /\ Len(line) < Room
    /\ \E c \in Letters : line' = Append(line, c)
    /\ UNCHANGED ran

Erase ==
    /\ line # <<>>
    /\ line' = SubSeq(line, 1, Len(line) - 1)
    /\ UNCHANGED ran

\* Where the words of a text start, and the word that starts there.
Starts(text) == {i \in 1..Len(text) : text[i] # SPACE /\ (i = 1 \/ text[i - 1] = SPACE)}
WordAt(text, i) ==
    LET ends == {j \in i..Len(text) : \A k \in i..j : text[k] # SPACE}
    IN  SubSeq(text, i, i + Cardinality(ends) - 1)

\* A word runs from its start to the next space; they are taken in order.
Words(text) ==
    LET nth(n) == CHOOSE i \in Starts(text) :
                    Cardinality({j \in Starts(text) : j <= i}) = n
        count  == Cardinality(Starts(text))
    IN  [n \in 1..(IF count < MaxWords THEN count ELSE MaxWords) |-> WordAt(text, nth(n))]

Enter ==
    /\ ran' = Words(line)
    /\ line' = <<>>

\* The command is over.
Done ==
    /\ ran' = <<>>
    /\ UNCHANGED line

Next == Insert \/ Erase \/ Enter \/ Done

Spec == Init /\ [][Next]_<<line, ran>>
=============================================================================
