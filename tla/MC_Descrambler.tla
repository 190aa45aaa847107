--------------------------- MODULE MC_Descrambler ---------------------------
(* The first LBA of the disc (-150, the first pregap sector), the first   *)
(* LBA of the program area and a sector in minute 1 with a nonzero frame. *)
EXTENDS Descrambler

MCTestLbas == {-150, 0, 4574}
====
