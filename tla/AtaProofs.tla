----------------------------- MODULE AtaProofs -----------------------------
(***************************************************************************)
(* Proofs about Ata for any number of drives, and disks of any size.        *)
(***************************************************************************)
EXTENDS Ata, SequenceTheorems, TLAPS

\* The drive has been told which sector to read.
Asked == pc \in {"wait_bsy", "wait_drq", "transfer"}

(* Who may be busy, at each step of the driver.                              *)
Busy ==
    /\ OnlySelectedBusy
    /\ pc = "command" \/ Asked => selected = drive
    /\ pc = "wait_drq" => status[drive] # BSY
    /\ pc = "transfer" => status[drive] = DRQ

(* A drive that is busy or offers a sector works for the call in progress,   *)
(* or on the sector that is owed.                                            *)
Owing ==
    /\ \A d \in Drives : ~ (Asked /\ d = drive) =>
         IF owing[d] = NONE THEN status[d] \in {RDY, ERR}
         ELSE status[d] \in {BSY, DRQ} => lba[d] = owing[d]
    /\ Asked => \/ lba[drive] = sector
                \/ owing[drive] # NONE /\ lba[drive] = owing[drive]
    /\ pc = "wait_bsy" /\ status[drive] = BSY => lba[drive] = sector

(* The bytes copied so far end where the next sector begins.                 *)
Place ==
    pc # "idle" =>
      /\ total_to_read > 0
      /\ stream_pos[drive] + Len(out) + total_to_read <= Sectors * SectorSize
      /\ sector * SectorSize + offset = stream_pos[drive] + Len(out)

(* Only the first sector of a call can be a late answer.                     *)
First ==
    /\ pc # "idle" /\ out # <<>> => owing[drive] = NONE
    /\ pc = "copy" => /\ owing[drive] = NONE
                      /\ lba[drive] = sector \/ out = <<>>
    /\ pc = "idle" => out = <<>>

(* What StreamIsDisk grants a byte delivered for position p.                 *)
Right(byte, p) ==
    \/ byte = Disk(drive, p)
    \/ /\ p \div SectorSize = stream_pos[drive] \div SectorSize
       /\ byte[1] = drive
       /\ byte[3] = p % SectorSize

Copied == \A i \in 1..Len(out) : Right(out[i], stream_pos[drive] + i - 1)

Inv == TypeOK /\ Busy /\ Owing /\ Place /\ First /\ Copied

-----------------------------------------------------------------------------
(* Positions and sectors *)

(* A position is a sector and a place in it.                                 *)
LEMMA SplitPosition ==
    ASSUME NEW p \in Nat
    PROVE  /\ p \div SectorSize \in Nat
           /\ p % SectorSize \in 0..(SectorSize - 1)
           /\ (p \div SectorSize) * SectorSize + (p % SectorSize) = p
BY AtaAssumption

(* ... and only one.                                                         *)
LEMMA JoinPosition ==
    ASSUME NEW s \in Nat, NEW o \in 0..(SectorSize - 1)
    PROVE  /\ s * SectorSize + o \in Nat
           /\ (s * SectorSize + o) \div SectorSize = s
           /\ (s * SectorSize + o) % SectorSize = o
BY AtaAssumption

(* A position on the disk lies in one of its sectors.                        *)
LEMMA SectorOnDisk ==
    ASSUME NEW s \in Nat, NEW o \in Nat, NEW t \in Nat, t > 0,
           s * SectorSize + o + t <= Sectors * SectorSize
    PROVE  s \in 0..(Sectors - 1)
<1> DEFINE x == o + t - 1
<1>1. x \in Nat /\ s * SectorSize + x < Sectors * SectorSize
  BY AtaAssumption
<1> HIDE DEF x
<1>2. \A a, b, k, y \in Nat : a * k + y < b * k => a < b
  OBVIOUS
<1> QED BY <1>1, <1>2, AtaAssumption

-----------------------------------------------------------------------------
(* A round of diskstream_read *)

Chunk == Least(SectorSize - offset, total_to_read)
Part  == [i \in 1..Chunk |-> <<drive, lba[drive], offset + i - 1>>]

(* What copy takes from the buffer are bytes of the sector it got, and what  *)
(* the caller then has is right up to the end of that sector.                *)
LEMMA CopyFacts ==
    ASSUME Inv, pc = "copy"
    PROVE  /\ Chunk \in 1..total_to_read
           /\ Chunk # total_to_read => Chunk = SectorSize - offset
           /\ out \o Part \in Seq(Bytes)
           /\ Len(out \o Part) = Len(out) + Chunk
           /\ \A i \in 1..(Len(out) + Chunk) :
                Right((out \o Part)[i], stream_pos[drive] + i - 1)
<1>1. /\ SectorSize \in Nat \ {0} /\ total_to_read \in Nat /\ total_to_read > 0
      /\ offset \in 0..(SectorSize - 1) /\ sector \in Nat /\ stream_pos[drive] \in Nat
      /\ out \in Seq(Bytes) /\ Len(out) \in Nat
      /\ lba[drive] \in 0..(Sectors - 1)
      /\ sector * SectorSize + offset = stream_pos[drive] + Len(out)
  BY AtaAssumption, LenProperties DEF Inv, TypeOK, Place
<1>2. /\ Chunk \in 1..total_to_read
      /\ Chunk <= SectorSize - offset
      /\ Chunk # total_to_read => Chunk = SectorSize - offset
  BY <1>1 DEF Chunk, Least
<1>3. \A i \in 1..Chunk : offset + i - 1 \in 0..(SectorSize - 1)
  BY <1>1, <1>2
<1>4. /\ Part \in Seq(Bytes)
      /\ Len(Part) = Chunk
      /\ \A i \in 1..Chunk : Part[i] = <<drive, lba[drive], offset + i - 1>>
  <2>1. Part \in [1..Chunk -> Bytes]
    BY <1>1, <1>3 DEF Part, Bytes, Inv, TypeOK
  <2>2. Part \in Seq(Bytes)
    BY <1>2, <2>1, SeqDef
  <2> QED BY <1>2, <2>1, <2>2, LenProperties DEF Part
<1>5. /\ out \o Part \in Seq(Bytes)
      /\ Len(out \o Part) = Len(out) + Chunk
      /\ \A i \in 1..(Len(out) + Chunk) :
           (out \o Part)[i] = IF i <= Len(out) THEN out[i] ELSE Part[i - Len(out)]
  BY <1>1, <1>4, ConcatProperties
<1>6. ASSUME NEW i \in 1..Chunk
      PROVE  Right(Part[i], stream_pos[drive] + (Len(out) + i) - 1)
  <2> DEFINE p == stream_pos[drive] + (Len(out) + i) - 1
  <2> DEFINE start == sector * SectorSize
  <2>1. /\ p = start + (offset + i - 1)
        /\ offset + i - 1 \in 0..(SectorSize - 1)
    <3>1. start \in Nat /\ start + offset = stream_pos[drive] + Len(out)
      BY <1>1
    <3> HIDE DEF start
    <3> QED BY <1>1, <1>2, <1>3, <3>1
  <2>2. p \div SectorSize = sector /\ p % SectorSize = offset + i - 1
    BY <1>1, <2>1, JoinPosition
  <2>3. CASE lba[drive] = sector
    BY <1>4, <2>2, <2>3 DEF Right, Disk
  <2>4. CASE out = <<>>
    <3>1. stream_pos[drive] = sector * SectorSize + offset
      BY <1>1, <2>4, EmptySeq
    <3>2. stream_pos[drive] \div SectorSize = sector
      BY <1>1, <3>1, JoinPosition
    <3> QED BY <1>4, <2>2, <3>2 DEF Right
  <2> QED BY <2>3, <2>4 DEF Inv, First
<1>7. ASSUME NEW i \in 1..(Len(out) + Chunk)
      PROVE  Right((out \o Part)[i], stream_pos[drive] + i - 1)
  <2>1. CASE i <= Len(out)
    <3>1. i \in 1..Len(out)
      BY <1>1, <2>1
    <3>2. (out \o Part)[i] = out[i]
      BY <1>5, <2>1
    <3>3. Right(out[i], stream_pos[drive] + i - 1)
      BY <3>1 DEF Inv, Copied
    <3> QED BY <3>2, <3>3 DEF Right
  <2>2. CASE i > Len(out)
    <3>1. i - Len(out) \in 1..Chunk /\ Len(out) + (i - Len(out)) = i
      BY <1>1, <1>2, <2>2
    <3>2. (out \o Part)[i] = Part[i - Len(out)]
      BY <1>1, <1>5, <2>2
    <3>3. Right(Part[i - Len(out)], stream_pos[drive] + (Len(out) + (i - Len(out))) - 1)
      BY <1>6, <3>1
    <3>4. stream_pos[drive] + (Len(out) + (i - Len(out))) - 1 = stream_pos[drive] + i - 1
      BY <1>1, <3>1
    <3>5. Right(Part[i - Len(out)], stream_pos[drive] + i - 1)
      BY <3>3, <3>4
    <3> QED BY <3>2, <3>5
  <2>3. i <= Len(out) \/ i > Len(out)
    BY <1>1, <1>2
  <2> QED BY <2>1, <2>2, <2>3
<1> QED BY <1>2, <1>5, <1>7

-----------------------------------------------------------------------------
(* Steps *)

(* A drive that answers was busy with what it was told.                      *)
LEMMA AnswerFacts ==
    ASSUME Inv, NEW d \in Drives, Answer(d)
    PROVE  Inv'
<1> USE DEF Answer, call
<1>1. TypeOK'
  BY DEF Inv, TypeOK
<1>2. Busy'
  BY <1>1 DEF Inv, TypeOK, Busy, OnlySelectedBusy, Asked, BSY, DRQ, ERR
<1>3. Owing'
  BY <1>1 DEF Inv, TypeOK, Owing, Asked, BSY, DRQ, ERR, RDY, NONE
<1>4. Place' /\ First' /\ Copied'
  BY DEF Inv, Place, First, Copied, Right, Disk
<1> QED BY <1>1, <1>2, <1>3, <1>4 DEF Inv

(* diskstream_seek runs between calls.                                       *)
LEMMA SeekFacts ==
    ASSUME Inv, NEW d \in Drives, NEW pos \in 0..(Sectors * SectorSize),
           diskstream_seek(d, pos)
    PROVE  Inv'
<1> USE DEF diskstream_seek, call, device
<1>1. TypeOK'
  BY DEF Inv, TypeOK
<1>2. Busy' /\ Owing' /\ Place' /\ First'
  BY DEF Inv, Busy, OnlySelectedBusy, Owing, Place, First, Asked
<1>3. Copied'
  <2>1. out' = <<>>
    BY DEF Inv, First
  <2> QED BY <2>1, EmptySeq DEF Copied
<1> QED BY <1>1, <1>2, <1>3 DEF Inv

(* diskstream_read begins with the sector of the stream's position.          *)
LEMMA ReadFacts ==
    ASSUME Inv, NEW d \in Drives, NEW total \in 1..MaxRead,
           diskstream_read(d, total)
    PROVE  Inv'
<1> DEFINE p == stream_pos[d]
<1>1. /\ p \in Nat
      /\ p + total <= Sectors * SectorSize
      /\ total \in Nat /\ total > 0 /\ total <= MaxRead
      /\ Sectors * SectorSize \in Nat
  BY AtaAssumption DEF Inv, TypeOK, diskstream_read
<1>2. /\ pc' = "bsy" /\ drive' = d /\ total_to_read' = total /\ out' = <<>>
      /\ sector' = p \div SectorSize /\ offset' = p % SectorSize
      /\ UNCHANGED <<stream_pos, selected, status, lba, delivered, owing>>
      /\ pc = "idle"
  BY DEF diskstream_read, device
<1>3. /\ sector' \in Nat /\ offset' \in 0..(SectorSize - 1)
      /\ sector' * SectorSize + offset' = p
  BY <1>1, <1>2, SplitPosition
<1>4. sector' \in 0..(Sectors - 1)
  <2>1. sector' * SectorSize + offset' + total <= Sectors * SectorSize
    BY <1>1, <1>3
  <2>2. offset' \in Nat
    BY <1>3, AtaAssumption
  <2> QED BY <1>1, <1>3, <2>1, <2>2, SectorOnDisk
<1>5. TypeOK'
  <2>1. out' \in Seq(Bytes) /\ total_to_read' \in 0..MaxRead /\ offset' \in 0..(SectorSize - 1)
    BY <1>1, <1>2, <1>3, AtaAssumption, EmptySeq
  <2> HIDE DEF p
  <2> QED BY <1>2, <1>4, <2>1 DEF Inv, TypeOK
<1>6. Busy' /\ Owing' /\ First'
  BY <1>2 DEF Inv, Busy, OnlySelectedBusy, Owing, First, Asked
<1>7. Place'
  BY <1>1, <1>2, <1>3, EmptySeq DEF Place
<1>8. Copied'
  BY <1>2, EmptySeq DEF Copied
<1> QED BY <1>5, <1>6, <1>7, <1>8 DEF Inv

(* Giving up leaves the drive's sector owed; an error leaves nothing owed.   *)
LEMMA FailFacts ==
    ASSUME Inv, Fail,
           \/ /\ pc = "wait_bsy" /\ status[drive] = BSY
              /\ owing' = [owing EXCEPT ![drive] = sector]
           \/ /\ pc = "wait_drq" /\ status[drive] \in {ERR, RDY}
              /\ owing' = [owing EXCEPT ![drive] = NONE]
    PROVE  Inv'
<1> USE DEF Fail, device
<1>1. TypeOK'
  BY EmptySeq DEF Inv, TypeOK
<1>2. Busy'
  BY DEF Inv, Busy, OnlySelectedBusy, Asked
<1>3. Owing'
  <2>1. CASE pc = "wait_bsy" /\ status[drive] = BSY
    BY <2>1 DEF Inv, TypeOK, Busy, OnlySelectedBusy, Owing, Asked,
                BSY, DRQ, ERR, RDY, NONE
  <2>2. CASE pc = "wait_drq" /\ status[drive] \in {ERR, RDY}
    BY <2>2 DEF Inv, TypeOK, Owing, Asked, BSY, DRQ, ERR, RDY, NONE
  <2> QED BY <2>1, <2>2
<1>4. Place' /\ First' /\ Copied'
  BY EmptySeq DEF Place, First, Copied
<1> QED BY <1>1, <1>2, <1>3, <1>4 DEF Inv

(* The register accesses before the transfer.                                *)
LEMMA CommandFacts ==
    ASSUME Inv, ata_wait_bsy \/ ata_select \/ ata_command
    PROVE  Inv'
<1>1. CASE ata_wait_bsy
  <2> USE <1>1 DEF ata_wait_bsy, call, device
  <2>1. TypeOK' /\ Place' /\ First' /\ Copied'
    BY DEF Inv, TypeOK, Place, First, Copied, Right, Disk
  <2>2. Busy'
    BY DEF Inv, TypeOK, Busy, OnlySelectedBusy, Asked
  <2>3. Owing'
    BY DEF Inv, Owing, Asked
  <2> QED BY <2>1, <2>2, <2>3 DEF Inv
<1>2. CASE ata_select
  <2> USE <1>2 DEF ata_select, call
  <2>1. TypeOK' /\ Place' /\ First' /\ Copied'
    BY DEF Inv, TypeOK, Place, First, Copied, Right, Disk
  <2>2. Busy'
    BY DEF Inv, TypeOK, Busy, OnlySelectedBusy, Asked
  <2>3. Owing'
    BY DEF Inv, Owing, Asked
  <2> QED BY <2>1, <2>2, <2>3 DEF Inv
<1>3. CASE ata_command
  <2> USE <1>3 DEF ata_command, call
  <2>1. TypeOK'
    BY DEF Inv, TypeOK
  <2>2. Place' /\ First' /\ Copied'
    BY DEF Inv, Place, First, Copied, Right, Disk
  <2>3. Busy'
    BY DEF Inv, TypeOK, Busy, OnlySelectedBusy, Asked
  <2>4. Owing'
    BY DEF Inv, TypeOK, Owing, Busy, OnlySelectedBusy, Asked, BSY, DRQ, ERR, RDY, NONE
  <2> QED BY <2>1, <2>2, <2>3, <2>4 DEF Inv
<1> QED BY <1>1, <1>2, <1>3

(* Waiting for the drive, and reading its buffer.                            *)
LEMMA TransferFacts ==
    ASSUME Inv, ata_wait_done \/ ata_wait_drq \/ transfer
    PROVE  Inv'
<1>1. CASE ata_wait_done
  <2>1. CASE status[drive] = BSY
    BY <1>1, <2>1, FailFacts DEF ata_wait_done
  <2>2. CASE status[drive] # BSY
    <3> USE <1>1, <2>2 DEF ata_wait_done, call, device
    <3>1. TypeOK' /\ Place' /\ First' /\ Copied'
      BY DEF Inv, TypeOK, Place, First, Copied, Right, Disk
    <3>2. Busy' /\ Owing'
      BY DEF Inv, Busy, OnlySelectedBusy, Owing, Asked
    <3> QED BY <3>1, <3>2 DEF Inv
  <2> QED BY <2>1, <2>2
<1>2. CASE ata_wait_drq
  <2>1. CASE status[drive] # DRQ
    BY <1>2, <2>1, FailFacts DEF ata_wait_drq
  <2>2. CASE status[drive] = DRQ
    <3> USE <1>2, <2>2 DEF ata_wait_drq, call, device, DRQ, ERR, RDY
    <3>1. TypeOK' /\ Place' /\ First' /\ Copied'
      BY DEF Inv, TypeOK, Place, First, Copied, Right, Disk
    <3>2. Busy' /\ Owing'
      BY DEF Inv, Busy, OnlySelectedBusy, Owing, Asked
    <3> QED BY <3>1, <3>2 DEF Inv
  <2> QED BY <2>1, <2>2
<1>3. CASE transfer
  <2> USE <1>3 DEF transfer, call
  <2>1. TypeOK'
    BY DEF Inv, TypeOK
  <2>2. Place' /\ Copied'
    BY DEF Inv, Place, Copied, Right, Disk
  <2>3. First'
    BY DEF Inv, TypeOK, First, Owing, Asked, NONE
  <2>4. Busy'
    BY DEF Inv, TypeOK, Busy, OnlySelectedBusy, Asked, BSY, RDY
  <2>5. Owing'
    BY DEF Inv, TypeOK, Owing, Asked, BSY, DRQ, ERR, RDY, NONE
  <2> QED BY <2>1, <2>2, <2>3, <2>4, <2>5 DEF Inv
<1> QED BY <1>1, <1>2, <1>3

(* copy ends the call, or goes on at the start of the next sector.           *)
LEMMA CopyPreserves ==
    ASSUME Inv, copy
    PROVE  /\ Inv'
           /\ pc' = "idle" =>
                /\ delivered' = out \o Part
                /\ delivered' # <<>>
                /\ stream_pos' = [stream_pos EXCEPT ![drive] = @ + Len(delivered')]
           /\ pc' # "idle" => sector' \in 0..(Sectors - 1)
<1>1. /\ Chunk \in 1..total_to_read
      /\ Chunk # total_to_read => Chunk = SectorSize - offset
      /\ out \o Part \in Seq(Bytes)
      /\ Len(out \o Part) = Len(out) + Chunk
  BY CopyFacts DEF copy
<1>2. /\ total_to_read \in Nat /\ total_to_read <= MaxRead /\ Len(out) \in Nat
      /\ stream_pos[drive] \in Nat /\ sector \in Nat /\ offset \in Nat
      /\ SectorSize \in Nat \ {0} /\ Sectors * SectorSize \in Nat
      /\ stream_pos[drive] + Len(out) + total_to_read <= Sectors * SectorSize
      /\ sector * SectorSize + offset = stream_pos[drive] + Len(out)
      /\ MaxRead \in Nat
      /\ stream_pos \in [Drives -> 0..(Sectors * SectorSize)] /\ drive \in Drives
  BY AtaAssumption, LenProperties DEF Inv, TypeOK, Place, copy
<1>3. /\ pc = "copy"
      /\ UNCHANGED <<selected, status, lba, owing>>
      /\ IF Chunk = total_to_read
           THEN /\ pc' = "idle"
                /\ delivered' = out \o Part
                /\ stream_pos' = [stream_pos EXCEPT ![drive] = @ + Len(out) + Chunk]
                /\ out' = <<>>
                /\ UNCHANGED <<drive, sector, offset, total_to_read>>
           ELSE /\ pc' = "bsy"
                /\ out' = out \o Part
                /\ total_to_read' = total_to_read - Chunk
                /\ sector' = sector + 1
                /\ offset' = 0
                /\ UNCHANGED <<stream_pos, drive, delivered>>
  BY DEF copy, device, Chunk, Part
<1> HIDE DEF Chunk, Part
<1>4. Busy' /\ Owing'
  BY <1>3 DEF Inv, TypeOK, Busy, OnlySelectedBusy, Owing, Asked
<1>5. CASE Chunk = total_to_read
  <2>1. /\ delivered' \in Seq(Bytes) /\ Len(delivered') = Len(out) + Chunk
        /\ delivered' # <<>>
    <3>1. delivered' \in Seq(Bytes) /\ Len(delivered') = Len(out) + Chunk
      BY <1>1, <1>3, <1>5
    <3>2. Len(out) + Chunk > 0
      BY <1>1, <1>2
    <3> QED BY <3>1, <3>2, EmptySeq
  <2>2. stream_pos[drive] + Len(out) + Chunk \in 0..(Sectors * SectorSize)
    <3> DEFINE z == Sectors * SectorSize
    <3>1. z \in Nat /\ stream_pos[drive] + Len(out) + total_to_read <= z
      BY <1>2
    <3> HIDE DEF z
    <3>2. stream_pos[drive] + Len(out) + Chunk \in 0..z
      BY <1>1, <1>2, <1>5, <3>1
    <3> QED BY <3>2 DEF z
  <2>3. stream_pos' = [stream_pos EXCEPT ![drive] = @ + Len(delivered')]
    BY <1>1, <1>2, <1>3, <1>5, <2>1
  <2>4. TypeOK'
    <3>1. stream_pos' \in [Drives -> 0..(Sectors * SectorSize)]
      BY <1>2, <1>3, <1>5, <2>2
    <3>2. out' \in Seq(Bytes)
      BY <1>3, <1>5, EmptySeq
    <3> QED BY <1>3, <1>5, <2>1, <3>1, <3>2 DEF Inv, TypeOK
  <2>5. Place' /\ First' /\ Copied'
    BY <1>3, <1>5, EmptySeq DEF Place, First, Copied
  <2> QED BY <1>3, <1>4, <1>5, <2>1, <2>3, <2>4, <2>5 DEF Inv
<1>6. CASE Chunk # total_to_read
  <2>1. /\ total_to_read' \in 0..MaxRead /\ total_to_read' > 0
        /\ Chunk = SectorSize - offset
        /\ Len(out') = Len(out) + Chunk
        /\ out' \in Seq(Bytes)
    <3>1. out' \in Seq(Bytes) /\ Len(out') = Len(out) + Chunk
      BY <1>1, <1>3, <1>6
    <3>2. total_to_read' = total_to_read - Chunk
      BY <1>3, <1>6
    <3> QED BY <1>1, <1>2, <1>6, <3>1, <3>2
  <2>2. sector' * SectorSize + offset' = stream_pos'[drive'] + Len(out')
    <3> DEFINE x == sector * SectorSize
               y == sector' * SectorSize
    <3>1. x \in Nat /\ x + offset = stream_pos[drive] + Len(out)
      BY <1>2
    <3>2. \A a, k \in Nat : (a + 1) * k = a * k + k
      OBVIOUS
    <3>3. y = x + SectorSize
      BY <1>2, <1>3, <1>6, <3>2
    <3> HIDE DEF x, y
    <3>4. /\ stream_pos'[drive'] = stream_pos[drive] /\ offset' = 0
          /\ Len(out') = Len(out) + (SectorSize - offset)
      BY <1>3, <1>6, <2>1
    <3>5. /\ stream_pos[drive] \in Nat /\ Len(out) \in Nat
          /\ SectorSize \in Nat /\ offset \in Nat
      BY <1>2
    <3>6. y + offset' = stream_pos'[drive'] + Len(out')
      BY <3>1, <3>3, <3>4, <3>5
    <3> QED BY <3>6 DEF y
  <2>3. stream_pos'[drive'] + Len(out') + total_to_read' <= Sectors * SectorSize
    <3> DEFINE z == Sectors * SectorSize
    <3>1. z \in Nat /\ stream_pos[drive] + Len(out) + total_to_read <= z
      BY <1>2
    <3> HIDE DEF z
    <3>2. stream_pos'[drive'] + Len(out') + total_to_read' <= z
      BY <1>1, <1>2, <1>3, <1>6, <2>1, <3>1
    <3> QED BY <3>2 DEF z
  <2>4. sector' \in 0..(Sectors - 1)
    <3>1. sector' * SectorSize + offset' + total_to_read' <= Sectors * SectorSize
      BY <2>2, <2>3
    <3>2. sector' \in Nat /\ offset' \in Nat /\ total_to_read' \in Nat
      BY <1>2, <1>3, <1>6, <2>1
    <3> QED BY <2>1, <3>1, <3>2, SectorOnDisk
  <2>5. TypeOK'
    <3>1. offset' \in 0..(SectorSize - 1)
      BY <1>2, <1>3, <1>6
    <3> QED BY <1>3, <1>6, <2>1, <2>4, <3>1 DEF Inv, TypeOK
  <2>6. Place' /\ First'
    BY <1>3, <1>6, <2>1, <2>2, <2>3 DEF Inv, Place, First
  <2>7. Copied'
    <3>1. \A i \in 1..Len(out') : Right(out'[i], stream_pos[drive] + i - 1)
      BY <1>3, <1>6, <2>1, CopyFacts
    <3> QED BY <1>3, <1>6, <3>1 DEF Copied, Right, Disk
  <2> QED BY <1>3, <1>4, <1>6, <2>4, <2>5, <2>6, <2>7 DEF Inv
<1> QED BY <1>5, <1>6

(* At boot no drive is busy and no call is in progress.                      *)
LEMMA InitEstablishes == Init => Inv
<1> SUFFICES ASSUME Init PROVE Inv
  OBVIOUS
<1>1. TypeOK
  <2>1. 0 \in 0..(Sectors * SectorSize)
    <3> DEFINE z == Sectors * SectorSize
    <3>1. z \in Nat
      BY AtaAssumption
    <3> HIDE DEF z
    <3>2. 0 \in 0..z
      BY <3>1
    <3> QED BY <3>2 DEF z
  <2>2. 0 \in 0..(Sectors - 1) /\ 0 \in 0..(SectorSize - 1) /\ 0 \in 0..MaxRead
    BY AtaAssumption
  <2> QED BY <2>1, <2>2, EmptySeq DEF Init, TypeOK
<1>2. Busy /\ Owing
  BY DEF Init, Busy, OnlySelectedBusy, Owing, Asked, BSY, RDY
<1>3. Place /\ First /\ Copied
  BY EmptySeq DEF Init, Place, First, Copied
<1> QED BY <1>1, <1>2, <1>3 DEF Inv

(* Every step, of a drive or of the driver, preserves the invariant.         *)
LEMMA NextPreserves == Inv /\ [Next]_vars => Inv'
<1> SUFFICES ASSUME Inv, [Next]_vars PROVE Inv'
  OBVIOUS
<1>1. CASE UNCHANGED vars
  <2> USE <1>1 DEF vars, call, device
  <2>1. TypeOK' /\ Place' /\ First' /\ Copied'
    BY DEF Inv, TypeOK, Place, First, Copied, Right, Disk
  <2>2. Busy' /\ Owing'
    BY DEF Inv, Busy, OnlySelectedBusy, Owing, Asked
  <2> QED BY <2>1, <2>2 DEF Inv
<1>2. CASE Working
  BY <1>2, CommandFacts, TransferFacts, CopyPreserves DEF Working
<1> QED BY <1>1, <1>2, AnswerFacts, ReadFacts, SeekFacts DEF Next

(* The invariant holds in every reachable state.                             *)
LEMMA Invariance == Spec => []Inv
BY InitEstablishes, NextPreserves, PTL DEF Spec

(* Type correctness: no sector number past the end of the disk is ever       *)
(* written to a drive, and every byte delivered is one of the disk.          *)
THEOREM TypeCorrect == Spec => []TypeOK
BY Invariance, PTL DEF Inv

(* Waiting for the drive selected last is waiting for all of them, although  *)
(* ata_wait_bsy runs before the drive of the new call is selected.           *)
THEOREM OnlySelectedIsBusy == Spec => []OnlySelectedBusy
BY Invariance, PTL DEF Inv, Busy

-----------------------------------------------------------------------------
(* What the caller of diskstream_read gets *)

(* A call that fails leaves the stream where it was, and one that returns    *)
(* moves it over the bytes delivered, of which only those of the first       *)
(* sector can be another sector's.                                           *)
THEOREM StreamDelivers == Spec => StreamIsDisk
<1> DEFINE Ends ==
      /\ stream_pos' = [stream_pos EXCEPT ![drive] = @ + Len(delivered')]
      /\ \A i \in 1..Len(delivered') : Right(delivered'[i], stream_pos[drive] + i - 1)
<1>1. ASSUME Inv, Fail
      PROVE  Ends
  <2>1. /\ stream_pos \in [Drives -> 0..(Sectors * SectorSize)]
        /\ delivered' = <<>> /\ stream_pos' = stream_pos
    BY <1>1 DEF Inv, TypeOK, Fail
  <2>2. Len(delivered') = 0
    BY <2>1, EmptySeq
  <2>3. \A d \in Drives : stream_pos[d] + 0 = stream_pos[d]
    BY <2>1, AtaAssumption
  <2> QED BY <2>1, <2>2, <2>3
<1>2. ASSUME Inv, copy, pc' = "idle"
      PROVE  Ends
  <2>1. /\ delivered' = out \o Part
        /\ stream_pos' = [stream_pos EXCEPT ![drive] = @ + Len(delivered')]
    BY <1>2, CopyPreserves
  <2> QED BY <1>2, <2>1, CopyFacts DEF copy
<1>3. ASSUME Inv, [Next]_vars, pc # "idle", pc' = "idle"
      PROVE  Ends
  <2>1. CASE Working
    <3>1. Fail \/ copy
      BY <1>3, <2>1 DEF Working, ata_wait_bsy, ata_select, ata_command,
                        ata_wait_done, ata_wait_drq, transfer
    <3> QED BY <1>1, <1>2, <1>3, <3>1
  <2> QED BY <1>3, <2>1 DEF Next, vars, Answer, diskstream_read, diskstream_seek
<1>4. Inv /\ [Next]_vars =>
        [pc # "idle" /\ pc' = "idle" =>
           /\ stream_pos' = [stream_pos EXCEPT ![drive] = @ + Len(delivered')]
           /\ \A i \in 1..Len(delivered') :
                LET right == Disk(drive, stream_pos[drive] + i - 1)
                IN  \/ delivered'[i] = right
                    \/ /\ right[2] = stream_pos[drive] \div SectorSize
                       /\ delivered'[i][1] = drive /\ delivered'[i][3] = right[3]]_vars
  BY <1>3 DEF Right, Disk
<1> QED BY <1>4, Invariance, PTL DEF Spec, StreamIsDisk

-----------------------------------------------------------------------------
(* What ata_read_sector promises *)

(* The answer of the abstract disk, case by case.                            *)
LEMMA AnswerCases ==
    /\ pc = "idle" /\ delivered = <<>> => answer = -2
    /\ pc = "copy" \/ (pc = "idle" /\ delivered # <<>>) => answer = lba[drive]
    /\ pc \notin {"idle", "copy"} => answer = -3
BY DEF answer

(* A call of ata_read_sector begins in diskstream_read and at the end of a   *)
(* sector.                                                                   *)
LEMMA AskStep ==
    ASSUME Inv, Inv', pc \in {"idle", "copy"}, pc' = "bsy", UNCHANGED owing
    PROVE  D!Next
<1>1. answer # -3
  <2>1. lba[drive] \in Nat
    BY AtaAssumption DEF Inv, TypeOK
  <2>2. answer = -2 \/ answer = lba[drive]
    BY AnswerCases
  <2> QED BY <2>1, <2>2
<1>2. answer' = -3
  BY DEF answer
<1>3. drive' \in Drives /\ sector' \in 0..(Sectors - 1)
  BY DEF Inv, TypeOK
<1>4. D!Ask(drive', sector')
  BY <1>1, <1>2 DEF D!Ask, D!PENDING
<1> QED BY <1>3, <1>4 DEF D!Next

(* It ends with a failure, or with the sector the drive was working on.      *)
LEMMA ReplyStep ==
    ASSUME Inv, pc \notin {"idle", "copy"},
           UNCHANGED <<drive, sector, lba>>,
           \/ /\ pc' = "idle" /\ delivered' = <<>>
              /\ owing' \in {[owing EXCEPT ![drive] = NONE],
                             [owing EXCEPT ![drive] = sector]}
           \/ /\ pc = "transfer" /\ pc' = "copy"
              /\ owing' = [owing EXCEPT ![drive] = NONE]
    PROVE  D!Next
<1> DEFINE r == <<drive, sector>>
<1>1. /\ answer = -3
      /\ sector \in 0..(Sectors - 1) /\ lba[drive] \in 0..(Sectors - 1)
  BY AnswerCases DEF Inv, TypeOK
<1>2. CASE pc' = "idle" /\ delivered' = <<>>
  <2>1. answer' = -2
    BY <1>2 DEF answer
  <2>2. \E owed \in {NONE} \cup ({sector} \cap 0..(Sectors - 1)) :
            owing' = [owing EXCEPT ![drive] = owed]
    BY <1>1, <1>2
  <2>3. D!Gives(drive, sector, -2)
    BY <2>2 DEF D!Gives, D!NONE, NONE, D!FAILED
  <2> QED BY <1>1, <2>1, <2>3 DEF D!Next, D!Reply, D!PENDING, D!FAILED
<1>3. CASE pc = "transfer" /\ pc' = "copy"
  <2>1. answer' = lba[drive]
    BY <1>3 DEF answer
  <2>2. owing' = [owing EXCEPT ![drive] = NONE]
    BY <1>3
  <2>3. lba[drive] = sector \/ (owing[drive] # NONE /\ lba[drive] = owing[drive])
    BY <1>3 DEF Inv, Owing, Asked
  <2>4. D!Gives(drive, sector, lba[drive])
    BY <1>1, <2>2, <2>3 DEF D!Gives, D!NONE, NONE
  <2> QED BY <1>1, <2>1, <2>4 DEF D!Next, D!Reply, D!PENDING
<1> QED BY <1>2, <1>3

(* All other steps are not seen by the caller.                               *)
LEMMA HiddenStep ==
    ASSUME Inv, [Next]_vars,
           \/ pc \notin {"idle", "copy"} /\ pc' \notin {"idle", "copy"}
           \/ pc' = pc
           \/ pc = "copy" /\ pc' = "idle"
    PROVE  UNCHANGED D!vars
<1>1. CASE UNCHANGED vars
  BY <1>1 DEF vars, call, device, D!vars, answer
<1>2. CASE \E d \in Drives : Answer(d)
  BY <1>2 DEF Answer, call, D!vars, answer
<1>3. CASE \E d \in Drives, pos \in 0..(Sectors * SectorSize) : diskstream_seek(d, pos)
  BY <1>3 DEF diskstream_seek, call, device, D!vars, answer
<1>4. CASE ata_wait_bsy \/ ata_select \/ ata_command
  BY <1>4 DEF ata_wait_bsy, ata_select, ata_command, call, device, D!vars, answer
<1>5. CASE ata_wait_done \/ ata_wait_drq \/ transfer
  BY <1>5 DEF ata_wait_done, ata_wait_drq, transfer, Fail, call, device, D!vars, answer
<1>6. CASE copy
  <2>1. pc = "copy" /\ pc' = "idle" /\ delivered' # <<>>
    BY <1>6, CopyPreserves DEF copy
  <2>2. UNCHANGED <<drive, sector, lba, owing>>
    BY <1>6, <2>1 DEF copy, device
  <2>3. answer = lba[drive] /\ answer' = lba'[drive']
    BY <2>1, AnswerCases DEF answer
  <2> QED BY <2>2, <2>3 DEF D!vars
<1>7. CASE \E d \in Drives, total \in 1..MaxRead : diskstream_read(d, total)
  BY <1>7 DEF diskstream_read
<1> QED BY <1>1, <1>2, <1>3, <1>4, <1>5, <1>6, <1>7 DEF Next, Working

(* For every number of drives and sectors: a read fails, gives the sector    *)
(* asked for, or gives the sector of the drive's last command that the       *)
(* driver gave up on, once.  (That it returns is for TLC: ImplementsDisk.)   *)
THEOREM DiskImplemented == Spec => D!Safety
<1>1. Init => D!Init
  BY DEF Init, D!Init, D!NONE, NONE, D!FAILED, answer
<1>2. Inv /\ Inv' /\ [Next]_vars => [D!Next]_(D!vars)
  <2> SUFFICES ASSUME Inv, Inv', [Next]_vars
               PROVE  D!Next \/ UNCHANGED D!vars
    OBVIOUS
  <2>1. CASE Fail /\ (ata_wait_done \/ ata_wait_drq)
    BY <2>1, ReplyStep DEF ata_wait_done, ata_wait_drq, Fail, device
  <2>2. CASE ~Fail /\ (ata_wait_done \/ ata_wait_drq)
    <3>1. pc \notin {"idle", "copy"} /\ pc' \notin {"idle", "copy"}
      BY <2>2 DEF ata_wait_done, ata_wait_drq
    <3> QED BY <3>1, HiddenStep
  <2>3. CASE transfer
    BY <2>3, ReplyStep DEF transfer, call
  <2>4. CASE copy
    <3>1. pc = "copy" /\ (pc' = "idle" \/ (pc' = "bsy" /\ UNCHANGED owing))
      BY <2>4 DEF copy
    <3> QED BY <3>1, AskStep, HiddenStep
  <2>5. CASE ata_wait_bsy \/ ata_select \/ ata_command
    <3>1. pc \notin {"idle", "copy"} /\ pc' \notin {"idle", "copy"}
      BY <2>5 DEF ata_wait_bsy, ata_select, ata_command
    <3> QED BY <3>1, HiddenStep
  <2>6. CASE \E d \in Drives, total \in 1..MaxRead : diskstream_read(d, total)
    <3>1. pc = "idle" /\ pc' = "bsy" /\ UNCHANGED owing
      BY <2>6 DEF diskstream_read
    <3> QED BY <3>1, AskStep
  <2>7. CASE \/ UNCHANGED vars
             \/ \E d \in Drives : Answer(d)
             \/ \E d \in Drives, pos \in 0..(Sectors * SectorSize) :
                    diskstream_seek(d, pos)
    <3>1. pc' = pc
      BY <2>7 DEF vars, Answer, diskstream_seek
    <3> QED BY <3>1, HiddenStep
  <2> QED BY <2>1, <2>2, <2>3, <2>4, <2>5, <2>6, <2>7 DEF Next, Working
<1> QED BY <1>1, <1>2, InitEstablishes, NextPreserves, PTL DEF Spec, D!Safety
=============================================================================
