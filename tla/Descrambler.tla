----------------------------- MODULE Descrambler -----------------------------
(***************************************************************************)
(* A Scrambler object over its life: the constructor runs GenerateTable    *)
(* (the loop of ScramblerTable), after which every call of Descramble or   *)
(* DescrambleDIC (src/scrambler.cc) gets one input of a bounded set: the   *)
(* sector, the lba argument and the size.                                  *)
(***************************************************************************)
EXTENDS Scrambler

CONSTANTS
  TableLen,   \* bytes GenerateTable produces (CD_DATA_SIZE)
  TestLbas    \* LBAs whose sector headers are enumerated

VARIABLES i, shift_register, table, ecma,   \* the constructor's loop
          input                             \* the current call, or NoCall

T == INSTANCE ScramblerTable

(***************************************************************************)
(* The inputs a caller can pass: sectors read from a disc (scrambled or    *)
(* not, with a sync field or not, headers of the test LBAs in every mode), *)
(* the sizes at the layout's boundaries and the lba argument.              *)
(***************************************************************************)
BcdByte(v) == (v \div 10) * 16 + (v % 10)
LbaToBcdMsf(l) ==
  LET x == l + 150
  IN  << BcdByte(x \div 4500), BcdByte((x \div 75) % 60), BcdByte(x % 75) >>

Modes == {0, 1, 2, 3}
Sizes == {HeaderEnd - 1, HeaderEnd, RegionStart.b, RegionStart.c, CD_DATA_SIZE}
PlainHeaders == { Append(LbaToBcdMsf(l), m) : l \in TestLbas, m \in Modes }
Headers == PlainHeaders \cup
           { Process([sync |-> "sync", hdr |-> h, a |-> "zero", b |-> "zero",
                      c |-> "zero"], CD_DATA_SIZE).hdr : h \in PlainHeaders }
Sectors == [sync : {"sync", "zero", "other"}, hdr : Headers,
            a : Class, b : Class, c : Class]

Calls == [sec : Sectors, lba : TestLbas \cup {NoLba}, size : Sizes]
\* before the first call: a size no call passes
NoCall == [sec |-> [sync |-> "zero", hdr |-> <<0, 0, 0, 0>>, a |-> "zero", b |-> "zero", c |-> "zero"],
           lba |-> NoLba, size |-> 0]

vars == << i, shift_register, table, ecma, input >>

Init == T!Init /\ input = NoCall

\* Scrambler::Scrambler(): one iteration of GenerateTable
Construct == T!GenerateByte /\ UNCHANGED input

\* a call on the constructed object (the calls are independent: both
\* functions are const, so one call per behaviour covers them all)
Call ==
  /\ i = TableLen
  /\ input = NoCall
  /\ input' \in Calls
  /\ UNCHANGED << i, shift_register, table, ecma >>

Next == Construct \/ Call

(***************************************************************************)
(* Properties.                                                             *)
(***************************************************************************)
(* The type invariant: the table loop's types, and both functions return  *)
(* a verdict and a sector of the abstraction.                              *)
TypeOK ==
  /\ T!TypeOK
  /\ input # NoCall =>
       \A r \in { Descramble(input.sec, input.lba, input.size),
                  DescrambleDIC(input.sec, input.lba, input.size) } :
         /\ r[1] \in BOOLEAN
         /\ r[2].sync \in {"sync", "zero", "other"}
         /\ r[2].hdr \in [1 .. 4 -> 0 .. 255]
         /\ {r[2].a, r[2].b, r[2].c} \subseteq Class

(* GenerateTable produces the ECMA-130 scrambler sequence (see             *)
(* ScramblerTable).  It is checked up to the first call: a call leaves the *)
(* table as the constructor built it.                                      *)
TableMatchesEcma == input = NoCall => T!TableMatchesEcma

(* spec 8.8: when Descramble or DescrambleDIC decide the sector was not    *)
(* scrambled they leave it exactly as it was passed in (the second        *)
(* Process of lines 52-53 and 96-97 undoes the first).                    *)
RestoreOnFailure ==
  input # NoCall =>
  LET d == Descramble(input.sec, input.lba, input.size)
      dic == DescrambleDIC(input.sec, input.lba, input.size)
  IN  /\ ~d[1] => d[2] = input.sec
      /\ ~dic[1] => dic[2] = input.sec

(* Descramble never accepts a sector that is already unscrambled: a data  *)
(* sector with sync and the header of its own LBA, in any mode, is         *)
(* rejected (and so left alone), with or without the lba argument; the    *)
(* table bytes under the header make both the MSF check and the mode check *)
(* fail after the XOR.                                                     *)
NoDoubleDescramble ==
  LET sec == input.sec
  IN  /\ input # NoCall
      /\ sec.sync = "sync"
      /\ sec.hdr \in PlainHeaders
      /\ input.lba \in {BcdMsfToLba(sec.hdr), NoLba}
      /\ input.size = CD_DATA_SIZE
      => ~Descramble(sec, input.lba, input.size)[1]

(* spec 4.1: Descramble succeeds when (a) the lba is given and the header  *)
(* decodes to it, or (b) the sync matches and the mode is 1 or 2, or (c)   *)
(* the mode is 0 and the user data is all zero.                            *)
SpecAccepts(sec, lba, size) ==
  LET p == Process(sec, size)
  IN  /\ ~IsZeroed(sec, size) /\ size >= HeaderEnd
      /\ \/ lba # NoLba /\ BcdMsfToLba(p.hdr) = lba
         \/ p.sync = "sync" /\ p.hdr[4] \in {1, 2}
         \/ p.hdr[4] = 0 /\ UserZero(p, size)

(* Descramble (scrambler.cc:17-56) accepts exactly the sectors spec 4.1    *)
(* lists: its result equals SpecAccepts on every input.                    *)
DescrambleAsSpecified ==
  input # NoCall =>
  Descramble(input.sec, input.lba, input.size)[1] = SpecAccepts(input.sec, input.lba, input.size)

====
