------------------------------ MODULE MCKHeap ------------------------------
(* KHeap for TLC, with `end' 52 bytes below a page boundary, as a somewhat    *)
(* larger kernel would have it (the built one has 0x8adc): two or three of the *)
(* small requests bring the frontier to where the header of a page-aligned     *)
(* one lands on the block below it.  As in the built kernel, `end' is 12 bytes *)
(* past a multiple of the header size.                                         *)
EXTENDS KHeap

KernelEnd == 36812
=============================================================================
