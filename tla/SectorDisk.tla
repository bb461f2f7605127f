------------------------------ MODULE SectorDisk ------------------------------
(***************************************************************************)
(* What ata_read_sector promises its callers: a read of a sector fails, or  *)
(* delivers that sector, or delivers the sector of an earlier read that the *)
(* driver gave up on.  One late answer spoils one read of its drive.        *)
(*                                                                          *)
(* Ata implements this; FileSystem reads its volumes through it.            *)
(***************************************************************************)
EXTENDS Integers

CONSTANTS
    Drives,         \* drives on the channel
    Sectors         \* sectors of a drive

NONE    == -1       \* no sector is owed
FAILED  == -2       \* the read failed
PENDING == -3       \* it has not returned

VARIABLES
    late,           \* per drive: the sector it still owes, or NONE
    request,        \* the drive and sector asked for
    answer          \* the sector delivered, FAILED or PENDING

vars == <<late, request, answer>>

Init ==
    /\ late = [d \in Drives |-> NONE]
    /\ request \in Drives \X {0}
    /\ answer = FAILED

\* A read of sector s of drive d returns got.  A sector that the drive does not
\* have is refused and not owed.
Gives(d, s, got) ==
    \/ /\ late[d] # NONE
       /\ got = late[d]
       /\ late' = [late EXCEPT ![d] = NONE]
    \/ /\ s \in 0..(Sectors - 1)
       /\ got = s
       /\ late' = [late EXCEPT ![d] = NONE]
    \/ /\ got = FAILED
       /\ \E owed \in {NONE} \cup ({s} \cap 0..(Sectors - 1)) :
              late' = [late EXCEPT ![d] = owed]

Ask(d, s) ==
    /\ answer # PENDING
    /\ request' = <<d, s>>
    /\ answer' = PENDING
    /\ UNCHANGED late

Reply ==
    /\ answer = PENDING
    /\ \E got \in {FAILED} \cup 0..(Sectors - 1) :
           /\ Gives(request[1], request[2], got)
           /\ answer' = got
    /\ UNCHANGED request

Next == Reply \/ \E d \in Drives, s \in 0..(Sectors - 1) : Ask(d, s)

\* What a read may give, without saying that it returns.
Safety == Init /\ [][Next]_vars

\* Every read returns.
Spec == Safety /\ WF_vars(Reply)
=============================================================================
