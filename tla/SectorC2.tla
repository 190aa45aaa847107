------------------------------ MODULE SectorC2 ------------------------------
(***************************************************************************)
(* The C2 path of one read in redumper_dump: read_sector                   *)
(* (src/redumper.cc:1258-1308) reads enough consecutive sectors to undo the *)
(* drive's C2 shift and splices the C2 plane of the requested sector out   *)
(* of them; the loop (lines 615-622) then sets every sample to SUCCESS and *)
(* state_from_c2 (lines 1327-1349) downgrades the samples whose C2 nibble  *)
(* is set and counts the set bits.                                         *)
(*                                                                         *)
(* Scaling: a sector has C2Size C2 bytes (294 in the code) and so          *)
(* 2 * C2Size samples (588); one C2 bit flags one data byte, most          *)
(* significant bit first, and a sample is four data bytes.                 *)
(***************************************************************************)
EXTENDS Integers, Sequences, FiniteSets

CONSTANTS
  C2Size,      \* CD_C2_SIZE, scaled
  Shifts,      \* drive_config.c2_shift values (bytes)
  Lbas,        \* requested LBAs
  Bytes,       \* C2 byte values enumerated
  Orders       \* sector orders: "DATA_C2_SUB" carries a C2 plane, "DATA_SUB" not

Samples == 2 * C2Size                    \* CD_DATA_SIZE_SAMPLES
StateSet == {"ERROR_C2", "SUCCESS"}

(***************************************************************************)
(* The disc: the true C2 bytes of the requested sector, and one value for  *)
(* every other position of the C2 stream (the neighbours' C2).  A read     *)
(* past the end of the buffer is undefined behaviour: it yields the value  *)
(* garbage.                                                                *)
(***************************************************************************)
VARIABLES
  input,       \* [lba, shift, order, ok, c2, other, garbage]
  pc,          \* "read", "classify", "done"
  sector_c2,   \* the C2 plane read_sector wrote into the output sector
  state,       \* sector_state
  c2_count     \* the value state_from_c2 returned

vars == << input, pc, sector_c2, state, c2_count >>

Inputs ==
  [lba : Lbas, shift : Shifts, order : Orders, ok : BOOLEAN,
   c2 : [0 .. C2Size - 1 -> Bytes], other : {0, 255}, garbage : {0, 255}]

\* the C2 byte at absolute position n of the disc's C2 stream
DiscC2(n) ==
  IF n \in input.lba * C2Size .. input.lba * C2Size + C2Size - 1
  THEN input.c2[n - input.lba * C2Size] ELSE input.other

\* the C2 plane the drive returns for buffer sector j: the stream delayed
\* by the shift
DriveC2(j, k) == DiscC2((input.lba + j) * C2Size + k - input.shift)

SectorsCountNoRemainder(shift) == shift \div C2Size + 1

\* sectors_count: ceil(c2_shift / CD_C2_SIZE) + 1
SectorsCount(shift) == shift \div C2Size + (IF shift % C2Size # 0 THEN 1 ELSE 0) + 1

\* c2_buffer: the C2 planes of the sectors read, back to back; a position
\* past its end reads garbage
C2Buffer(n) ==
  IF n < C2Size * SectorsCount(input.shift)
  THEN DriveC2(n \div C2Size, n % C2Size) ELSE input.garbage

Init ==
  /\ input \in Inputs
  /\ pc = "read"
  /\ sector_c2 = [k \in 0 .. C2Size - 1 |-> 0]
  /\ state = [s \in 0 .. Samples - 1 |-> "SUCCESS"]
  /\ c2_count = 0

(* read_sector: a failed command leaves the sector alone; otherwise the    *)
(* sector is zeroed and, when the layout has a C2 plane, the C2 bytes from *)
(* offset c2_shift of the spliced buffer are copied in                     *)
ReadSector ==
  /\ pc = "read"
  /\ pc' = IF input.ok THEN "classify" ELSE "done"
  /\ sector_c2' = IF input.ok /\ input.order = "DATA_C2_SUB"
                  THEN [k \in 0 .. C2Size - 1 |-> C2Buffer(input.shift + k)]
                  ELSE IF input.ok THEN [k \in 0 .. C2Size - 1 |-> 0]
                  ELSE sector_c2
  /\ UNCHANGED << input, state, c2_count >>

(* the C2 nibble of sample i: high nibble for an even sample               *)
NibbleSwapped(b, i) == IF i % 2 = 1 THEN b \div 16 ELSE b % 16

Nibble(b, i) == IF i % 2 = 1 THEN b % 16 ELSE b \div 16

BitsCount(q) == Cardinality({k \in 0 .. 7 : (q \div 2^k) % 2 = 1})

\* bits counted over the whole C2 byte instead of the sample's nibble
StateFromC2ByteCount ==
  /\ pc = "classify"
  /\ LET quad(i) == Nibble(sector_c2[i \div 2], i)
     IN  /\ state' = [i \in 0 .. Samples - 1 |->
                        IF quad(i) # 0 THEN "ERROR_C2" ELSE "SUCCESS"]
         /\ c2_count' = LET RECURSIVE Sum(_)
                            Sum(i) == IF i = Samples THEN 0
                                      ELSE BitsCount(sector_c2[i \div 2]) + Sum(i + 1)
                        IN  Sum(0)
  /\ pc' = "done"
  /\ UNCHANGED << input, sector_c2 >>

(* the state fill and state_from_c2 on the read sector                     *)
StateFromC2 ==
  /\ pc = "classify"
  /\ LET quad(i) == Nibble(sector_c2[i \div 2], i)
     IN  /\ state' = [i \in 0 .. Samples - 1 |->
                        IF quad(i) # 0 THEN "ERROR_C2" ELSE "SUCCESS"]
         /\ c2_count' = LET RECURSIVE Sum(_)
                            Sum(i) == IF i = Samples THEN 0
                                      ELSE BitsCount(quad(i)) + Sum(i + 1)
                        IN  Sum(0)
  /\ pc' = "done"
  /\ UNCHANGED << input, sector_c2 >>

Next == ReadSector \/ StateFromC2

Spec == Init /\ [][Next]_vars

(***************************************************************************)
(* Properties.                                                             *)
(***************************************************************************)
\* C2 bit of data byte m of the requested sector, on disc (MSB first)
TrueC2Bit(m) == (input.c2[m \div 8] \div 2^(7 - (m % 8))) % 2

(* The type invariant.                                                     *)
TypeOK ==
  /\ pc \in {"read", "classify", "done"}
  /\ sector_c2 \in [0 .. C2Size - 1 -> 0 .. 255]
  /\ state \in [0 .. Samples - 1 -> StateSet]
  /\ c2_count \in 0 .. 8 * C2Size

(* After a successful read on a drive with a C2 plane, whatever the C2     *)
(* shift, a sample is ERROR_C2 exactly when the disc flags one of its four *)
(* bytes, and the count state_from_c2 returns is the number of flagged     *)
(* bytes of this sector: the splice took the C2 of this sector and not of  *)
(* a neighbour or of past the buffer, and the nibbles meet their samples.  *)
C2StatesMatchDisc ==
  pc = "done" /\ input.ok /\ input.order = "DATA_C2_SUB" =>
    /\ \A i \in 0 .. Samples - 1 :
         (state[i] = "ERROR_C2") <=> \E m \in 4 * i .. 4 * i + 3 : TrueC2Bit(m) = 1
    /\ c2_count = Cardinality({m \in 0 .. 8 * C2Size - 1 : TrueC2Bit(m) = 1})

====
