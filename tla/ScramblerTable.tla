---------------------------- MODULE ScramblerTable ----------------------------
(***************************************************************************)
(* Scrambler::GenerateTable (src/scrambler.cc:104-125) as the loop it is:  *)
(* one step per table byte, the register advanced 8 bits after the byte    *)
(* is taken.  The table is checked against the ECMA-130 bit recurrence.    *)
(***************************************************************************)
EXTENDS Scrambler

CONSTANT TableLen   \* bytes generated (CD_DATA_SIZE in the code)

ASSUME TableLen \in SyncSize .. CD_DATA_SIZE

VARIABLES i, shift_register, table,
          ecma   \* reference: the ECMA-130 bits of the bytes generated so far

vars == << i, shift_register, table, ecma >>

\* the register preset to 0x0001; the sync bytes of the table zeroed
Init ==
  /\ i = SyncSize
  /\ shift_register = 1
  /\ table = [j \in 0 .. TableLen - 1 |-> 0]
  /\ ecma = <<>>

\* one iteration of the byte loop: the byte is the register's low 8 bits
\* taken before the 8-bit advance
GenerateByte ==
  /\ i < TableLen
  /\ table' = [table EXCEPT ![i] = shift_register % 256]
  /\ shift_register' = Advance(shift_register, 8)
  /\ i' = i + 1
  /\ ecma' = EcmaExtend(ecma)

Next == GenerateByte

Spec == Init /\ [][Next]_vars

(***************************************************************************)
(* Properties.                                                             *)
(***************************************************************************)
(* The table holds bytes and the uint16_t register its range.             *)
TypeOK ==
  /\ i \in SyncSize .. TableLen
  /\ shift_register \in 0 .. 2^16 - 1
  /\ table \in [0 .. TableLen - 1 -> 0 .. 255]
  /\ ecma \in Seq({0, 1})

(* GenerateTable produces the ECMA-130 Annex B scrambler sequence: every   *)
(* byte generated so far equals the byte assembled, least significant bit *)
(* first, from the reference bits, built by the recurrence s(n + 15) = s(n) XOR s(n + 1) of x^15 + x + 1 *)
(* with the register preset to 1, and the sync bytes stay zero.            *)
TableMatchesEcma ==
  /\ \A j \in 0 .. SyncSize - 1 : table[j] = 0
  /\ \A j \in SyncSize .. i - 1 : table[j] = EcmaByteOf(ecma, j - SyncSize)

====
