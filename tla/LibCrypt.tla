------------------------------ MODULE LibCrypt ------------------------------
(***************************************************************************)
(* SystemPSX::detectLibCrypt (src/systems/psx.cc:264-316): the loop over  *)
(* the 32 known base LBAs that collects every base and base + 5 whose Q    *)
(* CRCs are both invalid, and the decision on the number of candidates.   *)
(*                                                                         *)
(* Data abstraction: the .subcode file is the set of its slots whose Q    *)
(* fails its CRC (Q.Valid() is false); a slot is lba - LBA_START.  The     *)
(* report lines are the candidates they print, in order.                  *)
(***************************************************************************)
EXTENDS Integers, Sequences, FiniteSets

CONSTANTS
  LBA_START,     \* the LBA of .subcode slot 0 (-150)
  TrackSizes,    \* sizes of the track file, in sectors (_trackSize / CD_DATA_SIZE)
  SubBad         \* the possible .subcode files: each a set of slots with an invalid Q

(* _LIBCRYPT_SECTORS_BASE, _SHIFT and _COUNT                               *)
LIBCRYPT_SECTORS_BASE ==
  << 13955, 14081, 14335, 14429, 14499, 14749, 14906, 14980,
     15092, 15162, 15228, 15478, 15769, 15881, 15951, 16017,
     41895, 42016, 42282, 42430, 42521, 42663, 42862, 43027,
     43139, 43204, 43258, 43484, 43813, 43904, 44009, 44162 >>
LIBCRYPT_SECTORS_SHIFT == 5
LIBCRYPT_SECTORS_COUNT == {16, 32}

VARIABLES
  lba_end,      \* _trackSize / CD_DATA_SIZE
  bad,          \* the .subcode file read
  i,            \* loop index over the bases
  candidates,   \* std::vector<int32_t> candidates
  pc,           \* "loop", then "done" once the function returned
  libcrypt,     \* the return value
  report        \* the LBAs of the report lines written to os

vars == << lba_end, bad, i, candidates, pc, libcrypt, report >>

(* Q.Valid() of the entry read_entry returns for an LBA                    *)
QValid(lba) == (lba - LBA_START) \notin bad

\* the loop index started one below the table (0-based into the 1-based table)
InitIndexZero ==
  /\ lba_end \in TrackSizes
  /\ bad \in SubBad
  /\ i = 0
  /\ candidates = << >>
  /\ pc = "loop"
  /\ libcrypt = FALSE
  /\ report = << >>

Init ==
  /\ lba_end \in TrackSizes
  /\ bad \in SubBad
  /\ i = 1
  /\ candidates = << >>
  /\ pc = "loop"
  /\ libcrypt = FALSE
  /\ report = << >>

(* the candidates of one base: a base whose twin lies past the track is    *)
(* skipped                                                                 *)
PairOfSkipNoTwinCheck(lba1, lba2) ==
  IF lba1 >= lba_end THEN << >>
  ELSE IF ~QValid(lba1) /\ ~QValid(lba2) THEN << lba1, lba2 >> ELSE << >>

PairOf(lba1, lba2) ==
  IF lba1 >= lba_end \/ lba2 >= lba_end THEN << >>
  ELSE IF ~QValid(lba1) /\ ~QValid(lba2) THEN << lba1, lba2 >> ELSE << >>

(* one iteration of the for loop over _LIBCRYPT_SECTORS_BASE               *)
CheckBase ==
  /\ pc = "loop"
  /\ i <= Len(LIBCRYPT_SECTORS_BASE)
  /\ LET lba1 == LIBCRYPT_SECTORS_BASE[i]
         lba2 == LIBCRYPT_SECTORS_BASE[i] + LIBCRYPT_SECTORS_SHIFT
     IN  candidates' = candidates \o PairOf(lba1, lba2)
  /\ i' = i + 1
  /\ UNCHANGED << lba_end, bad, pc, libcrypt, report >>

(* the decision after the loop; when positive, one report line per        *)
(* candidate                                                               *)
Decide ==
  /\ pc = "loop"
  /\ i > Len(LIBCRYPT_SECTORS_BASE)
  /\ pc' = "done"
  /\ libcrypt' = (Len(candidates) \in LIBCRYPT_SECTORS_COUNT)
  /\ report' = IF Len(candidates) \in LIBCRYPT_SECTORS_COUNT THEN candidates ELSE << >>
  /\ UNCHANGED << lba_end, bad, i, candidates >>

Next == CheckBase \/ Decide

Spec == Init /\ [][Next]_vars

(***************************************************************************)
(* Properties.                                                             *)
(***************************************************************************)
Bases == { LIBCRYPT_SECTORS_BASE[k] : k \in 1 .. Len(LIBCRYPT_SECTORS_BASE) }

\* the bases whose pair lies in the track with both Q CRCs broken on disc
Matching(L, B) ==
  { b \in Bases : /\ b + LIBCRYPT_SECTORS_SHIFT < L
                  /\ (b - LBA_START) \in B
                  /\ (b + LIBCRYPT_SECTORS_SHIFT - LBA_START) \in B }

(* The type invariant.                                                     *)
TypeOK ==
  /\ i \in 1 .. Len(LIBCRYPT_SECTORS_BASE) + 1
  /\ candidates \in Seq(Int)
  /\ pc \in {"loop", "done"}
  /\ libcrypt \in BOOLEAN
  /\ report \in Seq(Int)

(* Once detectLibCrypt returned, its report lists exactly the LBAs of the  *)
(* matching pairs inside the track, each once, base before twin and in the *)
(* order of the base table, when it reports LibCrypt; and it reports       *)
(* LibCrypt exactly when there are 16 or 32 such LBAs.  Reading past the   *)
(* track, a wrong slot offset or a lost pair shows here.                   *)
ReportIsMatchingPairs ==
  pc = "done" =>
    LET M == Matching(lba_end, bad)
        n == 2 * Cardinality(M)
    IN  /\ libcrypt = (n \in LIBCRYPT_SECTORS_COUNT)
        /\ libcrypt => /\ Len(report) = n
                       /\ \A k \in 1 .. Len(report) :
                            IF k % 2 = 1 THEN report[k] \in M
                            ELSE report[k] = report[k - 1] + LIBCRYPT_SECTORS_SHIFT
                       /\ \A k \in 1 .. Len(report) - 2 : report[k] < report[k + 2]

(* spec 4.10: the disc has LibCrypt if exactly 16 or 32 of the 32 base     *)
(* LBAs have both base and base + 5 with an invalid Q CRC.                 *)
LibCryptPerSpec ==
  pc = "done" => (libcrypt = (Cardinality(Matching(lba_end, bad)) \in {16, 32}))

====
