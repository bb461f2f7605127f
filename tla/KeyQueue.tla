------------------------------ MODULE KeyQueue ------------------------------
(***************************************************************************)
(* What keyboard_getc promises: the characters typed come back once each,  *)
(* in order; at most Capacity of them wait, and one that finds no room is  *)
(* dropped (a step that changes nothing here).                             *)
(***************************************************************************)
EXTENDS Naturals, Sequences

CONSTANTS Capacity, Chars

VARIABLES
    queue,      \* characters typed and not yet read
    returned    \* the character keyboard_getc returned last

Init == queue = <<>> /\ returned \notin Chars

Type ==
    /\ Len(queue) < Capacity
    /\ \E c \in Chars : queue' = Append(queue, c)
    /\ UNCHANGED returned

Read ==
    /\ queue # <<>>
    /\ returned' = Head(queue)
    /\ queue' = Tail(queue)

Next == Type \/ Read

Spec == Init /\ [][Next]_<<queue, returned>>
=============================================================================
