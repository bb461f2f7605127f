------------------------------ MODULE MCLoader ------------------------------
(* Loader with an ELF program of two segments, one of them not page aligned, *)
(* and a raw program.                                                        *)
EXTENDS Loader

MCIsElf == [f \in {"elf", "raw"} |-> f = "elf"]
MCSegments == [f \in {"elf", "raw"} |-> IF f = "elf" THEN <<FALSE, TRUE>> ELSE <<>>]
=============================================================================
