---------------------------- MODULE MC_DumpEngine ----------------------------
(***************************************************************************)
(* A two-session disc at TLC scale.  Session 1 is LBAs 0..1, session 2     *)
(* starts at 5 and ends (lba_end) at 6; with pregap_start -1 the gap       *)
(* between them is the error range [2, 4).  The drive reads one sector of *)
(* lead-out (6) and nothing from 7 on.  Damaged sectors: the first gap     *)
(* sector, the last counted sector and the lead-out sector.                *)
(***************************************************************************)
EXTENDS DumpEngine

MCSessions == << [first |-> 0, end |-> 2], [first |-> 5, end |-> 6] >>
MCSkipRanges == {<<0, 1>>}
MCPregapStart == -1
MCMsfLbaShift == -2
====
