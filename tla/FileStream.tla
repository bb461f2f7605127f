----------------------------- MODULE FileStream -----------------------------
(***************************************************************************)
(* What fread, fseek and ftell promise about one open file: a cursor over   *)
(* an immutable sequence of bytes.  A read delivers the bytes at the cursor *)
(* and moves it behind them; it delivers fewer than were asked for only at  *)
(* the end of the file or when the disk failed during that very call.       *)
(***************************************************************************)
EXTENDS Naturals, Sequences

CONSTANTS File, MaxRead

VARIABLES
    pos,        \* bytes before the cursor
    asked,      \* bytes the read in progress was asked for; 0 when there is none
    delivered,  \* what the last read delivered
    failed      \* whether the disk failed during the last read

vars == <<pos, asked, delivered, failed>>

Least(a, b) == IF a <= b THEN a ELSE b

Init == pos = 0 /\ asked = 0 /\ delivered = <<>> /\ failed = FALSE

\* A read is called for.
Ask ==
    /\ asked = 0
    /\ asked' \in 1..MaxRead
    /\ UNCHANGED <<pos, delivered, failed>>

\* It returns with all that was asked for, or all that is left, or with less
\* because the disk failed.
Deliver ==
    /\ asked > 0
    /\ asked' = 0
    /\ failed' \in BOOLEAN
    /\ \E k \in 0..Least(asked, Len(File) - pos) :
         /\ ~failed' => k = Least(asked, Len(File) - pos)
         /\ delivered' = SubSeq(File, pos + 1, pos + k)
         /\ pos' = pos + k

\* At the end of the file a read has nothing to do.
ReadNothing ==
    /\ asked = 0
    /\ pos = Len(File)
    /\ delivered' = <<>>
    /\ failed' = FALSE
    /\ UNCHANGED <<pos, asked>>

Seek ==
    /\ asked = 0
    /\ pos' \in 0..Len(File)
    /\ UNCHANGED <<asked, delivered, failed>>

Next == Ask \/ Deliver \/ ReadNothing \/ Seek

Spec == Init /\ [][Next]_vars
=============================================================================
