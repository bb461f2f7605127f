------------------------------- MODULE MCAta -------------------------------
(* Ata with two drives of two two-byte sectors; a read may span both sectors *)
(* of a drive.                                                               *)
EXTENDS Ata

TwoDrives == {0, 1}
=============================================================================
