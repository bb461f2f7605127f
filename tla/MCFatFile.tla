----------------------------- MODULE MCFatFile -----------------------------
(* FatFile on a file of three clusters that are not in disk order, the last  *)
(* one not full, beside another file's cluster.                              *)
EXTENDS FatFile

FileChain == <<2, 5, 3>>
Table ==
    [k \in {2, 3, 4, 5, FAT_ERROR} |->
       CASE k = 2 -> 5
         [] k = 5 -> 3
         [] k = 3 -> 65535      \* end of this file
         [] k = 4 -> 65535      \* a file of one cluster
         [] k = FAT_ERROR -> 4] \* no FAT entry: bytes behind the table
=============================================================================
