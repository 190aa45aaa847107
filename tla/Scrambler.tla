------------------------------ MODULE Scrambler ------------------------------
(***************************************************************************)
(* The ECMA-130 descrambler of src/scrambler.cc: the LFSR table built by   *)
(* GenerateTable, Process (XOR with the table) and the two decisions       *)
(* Descramble and DescrambleDIC, which unscramble a sector in place and    *)
(* scramble it back when they decide it was not scrambled.                 *)
(*                                                                         *)
(* Data abstraction: the sync field (bytes 0..11, where the table is zero) *)
(* is a class "sync" (CD_DATA_SYNC), "zero" or "other"; the header (bytes  *)
(* 12..15: BCD minute, second, frame, mode) is kept byte for byte; the     *)
(* rest of the sector is three regions, each a class: "zero", "table"      *)
(* (equal to the scramble table over the region, so that Process makes it *)
(* zero) or "other".  The regions are A = 16..2067, B = 2068..2075 (the   *)
(* Mode 1 intermediate field) and C = 2076..2351; A, B and C together are  *)
(* the Mode 2 user data.  Process swaps "zero" and "table" and keeps       *)
(* "other", which is what XOR with the table does to a region.             *)
(***************************************************************************)
EXTENDS Integers, Sequences, Bitwise

CONSTANT NoLba   \* the lba == nullptr argument

(* Sector layout (Sector in the code).                                     *)
SyncSize == 12
HeaderEnd == 16
CD_DATA_SIZE == 2352
RegionStart == [a |-> 16, b |-> 2068, c |-> 2076]
RegionEnd == [a |-> 2068, b |-> 2076, c |-> 2352]
Regions == {"a", "b", "c"}
Class == {"zero", "table", "other"}

(***************************************************************************)
(* GenerateTable: a 15-bit register preset to 1, fed back by x^15 + x + 1, *)
(* advanced 8 bits per byte; the byte is the register's low 8 bits taken  *)
(* before the advance.                                                     *)
(***************************************************************************)
LfsrStepWrongTap(r) ==
  LET carry == ((r % 2) + ((r \div 4) % 2)) % 2
  IN  (carry * 2^15 + r) \div 2

\* carry = bit 0 XOR bit 1 of the register
LfsrStep(r) ==
  LET carry == ((r % 2) + ((r \div 2) % 2)) % 2
  IN  (carry * 2^15 + r) \div 2

RECURSIVE Advance(_, _)
Advance(r, bits) == IF bits = 0 THEN r ELSE Advance(LfsrStep(r), bits - 1)

\* register contents at the start of table byte SyncSize + k (the IF makes
\* TLC evaluate the previous byte's register before advancing it)
RECURSIVE Register(_)
Register(k) ==
  IF k = 0 THEN 1
  ELSE LET r == Register(k - 1) IN IF r >= 0 THEN Advance(r, 8) ELSE r

TableHeaderZero(i) == IF i < HeaderEnd THEN 0 ELSE Register(i - SyncSize) % 256

Table(i) == IF i < SyncSize THEN 0 ELSE Register(i - SyncSize) % 256

(***************************************************************************)
(* ECMA-130 Annex B, as a bit sequence: s(0..14) is the preset register,  *)
(* s(n + 15) = s(n) XOR s(n + 1); table byte SyncSize + k holds s(8k) in   *)
(* its least significant bit up to s(8k + 7).                              *)
(***************************************************************************)
\* bit s(n), given the bits before the current byte (p[j] is s(j - 1))
EcmaBit(p, n) == IF n < 15 THEN (IF n = 0 THEN 1 ELSE 0) ELSE (p[n - 14] + p[n - 13]) % 2

\* the reference bits extended by one table byte
EcmaExtend(p) == p \o [j \in 1 .. 8 |-> EcmaBit(p, Len(p) + j - 1)]

\* byte k after the sync, assembled from the bits p, least significant first
EcmaByteOf(p, k) ==
  LET RECURSIVE Sum(_)
      Sum(b) == IF b = 8 THEN 0 ELSE p[8 * k + b + 1] * 2^b + Sum(b + 1)
  IN  Sum(0)

(***************************************************************************)
(* Process: XOR the first size bytes with the table.                       *)
(***************************************************************************)
Xored(c) == CASE c = "zero" -> "table" [] c = "table" -> "zero" [] OTHER -> c

ProcessAdd(sec, size) ==
  [sec EXCEPT
     !.hdr = [k \in 1 .. 4 |->
                IF SyncSize + k - 1 < size THEN @[k] + Table(SyncSize + k - 1) ELSE @[k]],
     !.a = IF RegionStart.a < size THEN Xored(@) ELSE @,
     !.b = IF RegionStart.b < size THEN Xored(@) ELSE @,
     !.c = IF RegionStart.c < size THEN Xored(@) ELSE @]

Process(sec, size) ==
  [sec EXCEPT
     !.hdr = [k \in 1 .. 4 |->
                IF SyncSize + k - 1 < size THEN @[k] ^^ Table(SyncSize + k - 1) ELSE @[k]],
     !.a = IF RegionStart.a < size THEN Xored(@) ELSE @,
     !.b = IF RegionStart.b < size THEN Xored(@) ELSE @,
     !.c = IF RegionStart.c < size THEN Xored(@) ELSE @]

(* is_zeroed over the part of region r below size                          *)
RegionZero(sec, r, size) == RegionStart[r] >= size \/ sec[r] = "zero"

IsZeroed(sec, size) ==
  /\ sec.sync = "zero"
  /\ \A k \in 1 .. 4 : SyncSize + k - 1 < size => sec.hdr[k] = 0
  /\ \A r \in Regions : RegionZero(sec, r, size)

(* Mode 2 user data: the 2336 bytes from offset 16, cut at size            *)
UserZero(sec, size) == \A r \in Regions : RegionZero(sec, r, size)

Bcd(b) == (b \div 16) * 10 + (b % 16)
BcdMsfToLba(h) == (Bcd(h[1]) * 60 + Bcd(h[2])) * 75 + Bcd(h[3]) - 150

DescrambleNoRestore(sec, lba, size) ==
  IF IsZeroed(sec, size) \/ size < HeaderEnd THEN <<FALSE, sec>>
  ELSE LET p == Process(sec, size)
           ok == \/ lba # NoLba /\ BcdMsfToLba(p.hdr) = lba
                 \/ /\ p.sync = "sync"
                    /\ \/ p.hdr[4] = 0 /\ UserZero(p, size)
                       \/ p.hdr[4] \in {1, 2}
       IN  <<ok, p>>

(***************************************************************************)
(* Descramble: the result and the sector after the call.                   *)
(***************************************************************************)
Descramble(sec, lba, size) ==
  IF IsZeroed(sec, size) \/ size < HeaderEnd THEN <<FALSE, sec>>
  ELSE LET p == Process(sec, size)
           ok == \/ lba # NoLba /\ BcdMsfToLba(p.hdr) = lba
                 \/ /\ p.sync = "sync"
                    /\ \/ p.hdr[4] = 0 /\ UserZero(p, size)
                       \/ p.hdr[4] \in {1, 2}
       IN  <<ok, IF ok THEN p ELSE Process(p, size)>>

(* DescrambleDIC: sync first, then mode 0/1/2, else a zero intermediate    *)
DescrambleDIC(sec, lba, size) ==
  IF size < HeaderEnd \/ sec.sync # "sync" THEN <<FALSE, sec>>
  ELSE LET p == Process(sec, size)
           ok == \/ p.hdr[4] = 0 /\ UserZero(p, size)
                 \/ p.hdr[4] \in {1, 2}
                 \/ /\ p.hdr[4] \notin {0, 1, 2}
                    /\ size > RegionStart.b
                    /\ p.b = "zero"
       IN  <<ok, IF ok THEN p ELSE Process(p, size)>>

====
