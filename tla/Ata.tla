-------------------------------- MODULE Ata --------------------------------
(***************************************************************************)
(* Reading the disks: diskstream_read and diskstream_seek                   *)
(* (drivers/disk_stream.c) over ata_read_sector (drivers/ata.c), against    *)
(* two drives on one channel that answer at a time of their own.            *)
(*                                                                          *)
(* The driver polls; a poll that gives up leaves the drive with a command   *)
(* it still executes.  ata_read_sector is split at every register access    *)
(* between which the drive may change its status.                           *)
(***************************************************************************)
EXTENDS Integers, Sequences

CONSTANTS
    Drives,         \* drives on the channel: {0, 1}
    SectorSize,     \* bytes of a sector (512 in the code)
    Sectors,        \* sectors of a drive
    MaxRead         \* bound: bytes asked for at once

ASSUME AtaAssumption ==
    /\ SectorSize \in Nat \ {0}
    /\ Sectors \in Nat \ {0}
    /\ MaxRead \in Nat
    /\ Drives # {}

VARIABLES
    pc,             \* "idle" between calls of diskstream_read
    stream_pos,     \* pos of the stream on each drive
    drive, sector, offset, total_to_read, out,  \* the call in progress
    selected,       \* channel: the drive the status register shows
    status, lba,    \* per drive: its status, and the sector it was told to read
    delivered,      \* result of the last call; <<>> when it failed
    owing           \* history, per drive: the sector of a command the driver gave
                    \* up on and the drive has not been asked about since

call   == <<drive, sector, offset, total_to_read, out>>
device == <<selected, status, lba>>
vars   == <<pc, stream_pos, call, device, delivered, owing>>

\* BSY; DRQ: a sector is ready; ERR: the command failed; none of them.
BSY == "busy"
DRQ == "data"
ERR == "error"
RDY == "ready"

\* No sector is owed.
NONE == -1

Init ==
    /\ pc = "idle"
    /\ stream_pos = [d \in Drives |-> 0]
    /\ drive \in Drives
    /\ sector = 0 /\ offset = 0 /\ total_to_read = 0 /\ out = <<>>
    /\ selected \in Drives
    /\ status = [d \in Drives |-> RDY]
    /\ lba = [d \in Drives |-> 0]
    /\ delivered = <<>>
    /\ owing = [d \in Drives |-> NONE]

-----------------------------------------------------------------------------
(* The drives *)

\* A busy drive finishes: it offers the sector, reports an error, or drops the
\* command and shows neither.
Answer(d) ==
    /\ status[d] = BSY
    /\ \E s \in {DRQ, ERR, RDY} : status' = [status EXCEPT ![d] = s]
    /\ UNCHANGED <<pc, stream_pos, call, selected, lba, delivered, owing>>

-----------------------------------------------------------------------------
(* The driver *)

Least(a, b) == IF a <= b THEN a ELSE b

diskstream_seek(d, pos) ==
    /\ pc = "idle"
    /\ stream_pos' = [stream_pos EXCEPT ![d] = pos]
    /\ UNCHANGED <<pc, call, device, delivered, owing>>

\* Slips: sectors are counted from 1; the first sector is taken from its start.
diskstream_read_FromOne(d, total) ==
    /\ pc = "idle"
    /\ stream_pos[d] + total <= Sectors * SectorSize
    /\ pc' = "bsy"
    /\ drive' = d
    /\ sector' = (stream_pos[d] \div SectorSize) + 1
    /\ offset' = stream_pos[d] % SectorSize
    /\ total_to_read' = total
    /\ out' = <<>>
    /\ UNCHANGED <<stream_pos, device, delivered, owing>>
diskstream_read_NoOffset(d, total) ==
    /\ pc = "idle"
    /\ stream_pos[d] + total <= Sectors * SectorSize
    /\ pc' = "bsy"
    /\ drive' = d
    /\ sector' = stream_pos[d] \div SectorSize
    /\ offset' = 0
    /\ total_to_read' = total
    /\ out' = <<>>
    /\ UNCHANGED <<stream_pos, device, delivered, owing>>

diskstream_read(d, total) ==
    /\ pc = "idle"
    /\ stream_pos[d] + total <= Sectors * SectorSize    \* callers stay on the disk
    /\ pc' = "bsy"
    /\ drive' = d
    /\ sector' = stream_pos[d] \div SectorSize
    /\ offset' = stream_pos[d] % SectorSize
    /\ total_to_read' = total
    /\ out' = <<>>
    /\ UNCHANGED <<stream_pos, device, delivered, owing>>

\* Slip: the status is read once and not looked at.
ata_wait_bsy_Once ==
    /\ pc = "bsy"
    /\ pc' = "select"
    /\ UNCHANGED <<stream_pos, call, device, delivered, owing>>

\* ata_wait_bsy: without a limit, and on the drive selected last.
ata_wait_bsy ==
    /\ pc = "bsy"
    /\ status[selected] # BSY
    /\ pc' = "select"
    /\ UNCHANGED <<stream_pos, call, device, delivered, owing>>

\* The drive and the sector number are written.
ata_select ==
    /\ pc = "select"
    /\ selected' = drive
    /\ pc' = "command"
    /\ UNCHANGED <<stream_pos, call, status, lba, delivered, owing>>

\* READ_PIO.  A drive that is busy or still offers a sector ignores it.
ata_command ==
    /\ pc = "command"
    /\ IF status[drive] \in {RDY, ERR}
         THEN /\ status' = [status EXCEPT ![drive] = BSY]
              /\ lba' = [lba EXCEPT ![drive] = sector]
         ELSE UNCHANGED <<status, lba>>
    /\ pc' = "wait_bsy"
    /\ UNCHANGED <<stream_pos, call, selected, delivered, owing>>

\* diskstream_read returns -1: the stream stays where it was.
Fail ==
    /\ pc' = "idle"
    /\ delivered' = <<>>
    /\ out' = <<>>
    /\ UNCHANGED <<stream_pos, drive, sector, offset, total_to_read, device>>

\* ata_wait_for(BSY, 0): the drive is done, or 10000 polls went by.
ata_wait_done ==
    /\ pc = "wait_bsy"
    /\ IF status[drive] = BSY
         THEN Fail /\ owing' = [owing EXCEPT ![drive] = sector]
         ELSE /\ pc' = "wait_drq"
              /\ UNCHANGED <<stream_pos, call, device, delivered, owing>>

\* ata_wait_for(DRQ, DRQ): the sector is there, or the drive reports an error, or
\* 10000 polls went by.
ata_wait_drq ==
    /\ pc = "wait_drq"
    /\ \/ /\ status[drive] = DRQ
          /\ pc' = "transfer"
          /\ UNCHANGED <<stream_pos, call, device, delivered, owing>>
       \/ /\ status[drive] \in {ERR, RDY}
          /\ Fail
          /\ owing' = [owing EXCEPT ![drive] = NONE]

\* Slip: 255 words are read, and the drive goes on offering the sector.
transfer_Short ==
    /\ pc = "transfer"
    /\ owing' = [owing EXCEPT ![drive] = NONE]
    /\ pc' = "copy"
    /\ UNCHANGED <<stream_pos, call, device, delivered>>

\* 256 words are read, which ends the command.
transfer ==
    /\ pc = "transfer"
    /\ status' = [status EXCEPT ![drive] = RDY]
    /\ owing' = [owing EXCEPT ![drive] = NONE]
    /\ pc' = "copy"
    /\ UNCHANGED <<stream_pos, call, selected, lba, delivered>>

\* diskstream_read copies its part of the sector and goes on with the next one.
copy ==
    LET n == Least(SectorSize - offset, total_to_read)
        bytes == [i \in 1..n |-> <<drive, lba[drive], offset + i - 1>>]
    IN  /\ pc = "copy"
        /\ IF n = total_to_read
             THEN /\ pc' = "idle"
                  /\ delivered' = out \o bytes
                  /\ stream_pos' = [stream_pos EXCEPT ![drive] = @ + Len(out) + n]
                  /\ out' = <<>>
                  /\ UNCHANGED <<drive, sector, offset, total_to_read>>
             ELSE /\ pc' = "bsy"
                  /\ out' = out \o bytes
                  /\ total_to_read' = total_to_read - n
                  /\ sector' = sector + 1
                  /\ offset' = 0
                  /\ UNCHANGED <<stream_pos, drive, delivered>>
        /\ UNCHANGED <<device, owing>>

Working == \/ ata_wait_bsy \/ ata_select \/ ata_command
           \/ ata_wait_done \/ ata_wait_drq \/ transfer \/ copy

Next ==
    \/ Working
    \/ \E d \in Drives : Answer(d)
    \/ \E d \in Drives, total \in 1..MaxRead : diskstream_read(d, total)
    \/ \E d \in Drives, pos \in 0..(Sectors * SectorSize) : diskstream_seek(d, pos)

Spec == Init /\ [][Next]_vars

\* The driver's loops run, and a busy drive is done at some time.
FairSpec ==
    /\ Spec
    /\ WF_vars(Working)
    /\ \A d \in Drives : WF_vars(Answer(d))

-----------------------------------------------------------------------------
(* Properties *)

Bytes == Drives \X (0..(Sectors - 1)) \X (0..(SectorSize - 1))

TypeOK ==
    /\ pc \in {"idle", "bsy", "select", "command", "wait_bsy", "wait_drq",
               "transfer", "copy"}
    /\ stream_pos \in [Drives -> 0..(Sectors * SectorSize)]
    /\ drive \in Drives
    /\ sector \in 0..(Sectors - 1)
    /\ offset \in 0..(SectorSize - 1)
    /\ total_to_read \in 0..MaxRead
    /\ out \in Seq(Bytes)
    /\ selected \in Drives
    /\ status \in [Drives -> {BSY, DRQ, ERR, RDY}]
    /\ lba \in [Drives -> 0..(Sectors - 1)]
    /\ delivered \in Seq(Bytes)
    /\ owing \in [Drives -> {NONE} \cup 0..(Sectors - 1)]

\* What ata_read_sector has told diskstream_read, which delivers nothing when
\* a sector of it failed.
answer ==
    CASE pc = "idle" /\ delivered = <<>>                        -> -2    \* failed
      [] pc = "copy" \/ (pc = "idle" /\ delivered # <<>>)       -> lba[drive]
      [] OTHER                                                  -> -3    \* pending

D == INSTANCE SectorDisk WITH late <- owing, request <- <<drive, sector>>

\* ata_read_sector gives the sector asked for, fails, or gives the sector of the
\* last command it gave up on, once: an answer that comes late is taken by the
\* next read of that drive, whatever that asked for, and by no other.
ImplementsDisk == D!Spec

\* The byte of drive d at position p.
Disk(d, p) == <<d, p \div SectorSize, p % SectorSize>>

\* A call of diskstream_read moves the stream over what it delivers, and not at
\* all when a sector fails in the middle.  It delivers the bytes behind the old
\* position; only those of the first sector may be another sector's, when that
\* read took a late answer.
StreamIsDisk ==
    [][pc # "idle" /\ pc' = "idle" =>
         /\ stream_pos' = [stream_pos EXCEPT ![drive] = @ + Len(delivered')]
         /\ \A i \in 1..Len(delivered') :
              LET right == Disk(drive, stream_pos[drive] + i - 1)
              IN  \/ delivered'[i] = right
                  \/ /\ right[2] = stream_pos[drive] \div SectorSize
                     /\ delivered'[i][1] = drive /\ delivered'[i][3] = right[3]]_vars

\* Waiting on the drive selected last is enough: the other one is never busy,
\* so no command is ever written to a busy drive.
OnlySelectedBusy ==
    /\ \A d \in Drives : status[d] = BSY => d = selected
    /\ pc \in {"select", "command"} => \A d \in Drives : status[d] # BSY
=============================================================================
