----------------------------- MODULE DumpEngine -----------------------------
(***************************************************************************)
(* The dump/refine engine of redumper (src/redumper.cc, redumper_dump and  *)
(* plextor_store_sessions_leadin), driven by the mode loop of redumper().  *)
(*                                                                         *)
(* A run of the program is a sequence of passes over the same image: one   *)
(* dump pass, then refine passes (the automatic one after a dump that      *)
(* reported errors, and any the user starts later).  Each pass is one      *)
(* process: its counters live in memory, the three LBA-indexed streams     *)
(* (.scram data, .state, .subcode) persist between passes.                 *)
(*                                                                         *)
(* Data abstraction: a sector is Samples samples; a stored sample is a     *)
(* State (0..4, higher is better) and a data word that is either the       *)
(* disc's true word (TRUE) or not (FALSE).  A subcode slot is abstracted   *)
(* to the validity of its Q CRC.  The drive is a nondeterministic oracle   *)
(* restricted by the disc: only Damaged sectors can fail or carry C2       *)
(* errors, only QDamaged sectors can return a bad Q, nothing at or past    *)
(* DiscEnd can be read.  C2 pointers are trusted: a sample without a C2    *)
(* flag carries the true word.  The read offset shift of the data and      *)
(* state streams is the same for every write of a sector, so it is left   *)
(* out.                                                                    *)
(***************************************************************************)
EXTENDS Integers, FiniteSets, Sequences

CONSTANTS
  Samples,          \* samples per sector (588 in the code)
  Sessions,         \* TOC: <<[first |-> first index LBA, end |-> lba_end]>>
  PregapStart,      \* drive_config.pregap_start
  MsfLbaShift,      \* MSF_LBA_SHIFT
  LeadinMax,        \* longest lead-in buffer a Plextor returns per session
  LbaStartOption,   \* options.lba_start, or NoOption
  LbaEndOption,     \* options.lba_end, or NoOption
  NoOption,
  SkipRanges,       \* options.skip: set of half-open <<first, second>>
  DiscEnd,          \* first LBA past the readable lead-out
  Damaged,          \* sectors whose reads may fail or carry C2 errors
  QDamaged,         \* sectors whose reads may return an invalid Q
  Retries,          \* options.retries
  RefineSubchannel, \* options.refine_subchannel
  DriveTypes,       \* drive_config.type: the drives a run may find
  AsusSkipLeadout,  \* options.asus_skip_leadout
  AsusEntries,      \* most entries one LG/ASUS cache extract returns (100)
  MaxPasses,        \* bound: dump plus refine passes
  CounterModulus,   \* 2^w of the uint32_t error counters
  Interrupts,       \* whether the user may press Ctrl-C
  Crashes           \* whether the process may die between two writes

ASSUME Samples \in Nat \ {0}
ASSUME Len(Sessions) >= 1
ASSUME DriveTypes \subseteq {"GENERIC", "PLEXTOR", "LG_ASUS"}
ASSUME AsusSkipLeadout \in BOOLEAN /\ AsusEntries \in Nat
ASSUME Retries \in Nat /\ MaxPasses \in Nat \ {0}
ASSUME {RefineSubchannel, Interrupts, Crashes} \subseteq BOOLEAN

(* State values, in the order of enum State.                               *)
ERROR_SKIP == 0
ERROR_C2 == 1
SUCCESS_C2_OFF == 2
SUCCESS_SCSI_OFF == 3
SUCCESS == 4
States == ERROR_SKIP .. SUCCESS
SampleIdx == 1 .. Samples

(***************************************************************************)
(* Ranges and the LBA window of a pass.                                    *)
(***************************************************************************)
InsideRange(l, ranges) == \E r \in ranges : r[1] <= l /\ l < r[2]
RangeOf(l, ranges) == CHOOSE r \in ranges : r[1] <= l /\ l < r[2]

\* multisession gaps: previous session end .. next first index + pregap
ErrorRanges ==
  { << Sessions[i - 1].end, Sessions[i].first + PregapStart >> :
      i \in 2 .. Len(Sessions) }

TocLbaEnd == Sessions[Len(Sessions)].end
LbaStart == IF LbaStartOption = NoOption THEN PregapStart ELSE LbaStartOption
LbaEnd == IF LbaEndOption = NoOption THEN TocLbaEnd ELSE LbaEndOption
RefineRetries == IF Retries = 0 THEN 1 ELSE Retries

\* lead-in LBAs of session s when its buffer holds n entries
SessionLbaStart(s) == (IF s = 1 THEN 0 ELSE Sessions[s].first) + MsfLbaShift
LeadinLbas(s, n) ==
  LET pregapEnd == SessionLbaStart(s) + (PregapStart - MsfLbaShift)
  IN  pregapEnd - n .. pregapEnd - 1
LeadinFirst(s, n) == SessionLbaStart(s) + (PregapStart - MsfLbaShift) - n

\* LBA_START: room for the session 1 lead-in (which ends at PregapStart)
\* when a Plextor may be met; past DiscEnd, room for lead-out sectors an
\* LG/ASUS cache may still hold
MinLba == IF "PLEXTOR" \in DriveTypes THEN LbaStart - LeadinMax ELSE LbaStart
MaxLba == IF DiscEnd > LbaEnd + AsusEntries THEN DiscEnd ELSE LbaEnd + AsusEntries
Lbas == MinLba .. MaxLba

\* a sector the refine prelude counts and the loop accounts errors for
Counted(l) ==
  /\ LbaStart <= l /\ l < LbaEnd
  /\ ~InsideRange(l, SkipRanges)
  /\ ~InsideRange(l, ErrorRanges)

(***************************************************************************)
(* The LG/ASUS lead-out cache.  A cache extract cut at LBA `at` holds the *)
(* raw sectors at, at+1, ... as the drive last read them (C2 flags and Q  *)
(* included, subject to the same disc damage); entry k is used for the   *)
(* sector k past the start of the current error range, or past lba_end.  *)
(* The buffer is its cut LBA and its entry count; an entry's contents are *)
(* chosen when it is used (the loop uses an entry at most once).          *)
(***************************************************************************)
Entry == [c2 : SUBSET SampleIdx, q : BOOLEAN]
EntryOf(s) ==
  { e \in Entry : /\ s \notin Damaged => e.c2 = {}
                  /\ s \notin QDamaged => e.q }
\* asus_cache_extract(cache, lba, 100): up to AsusEntries entries from lba
AsusExtracts(l) == [at : {l}, n : 0 .. AsusEntries]
NoCache == [at |-> MinLba - 1, n |-> 0]

VARIABLES
  drive,                      \* the drive's type, fixed for the run
  pass, mode, phase,          \* driver: which pass, which mode, where in it
  lba, lba_overread,
  errors_scsi, errors_c2, errors_q,
  lba_refine, refine_counter, refine_processed, refine_count,
  stateFile, dataFile, subFile, \* the .state, .scram and .subcode streams
  interrupted, crashed,
  dumpResult,                 \* what redumper_dump returned to redumper()
  asus,                       \* asus_leadout_buffer: where it was cut, entries
  reads, verdict              \* history: reads and refine verdict per LBA

vars == << drive, asus, pass, mode, phase, lba, lba_overread, errors_scsi, errors_c2,
           errors_q, lba_refine, refine_counter, refine_processed,
           refine_count, stateFile, dataFile, subFile, interrupted, crashed,
           dumpResult, reads, verdict >>

fileVars == << stateFile, dataFile, subFile >>
refineVars == << lba_refine, refine_counter, refine_processed, refine_count >>

(***************************************************************************)
(* What the drive can return for a read of one sector.                     *)
(***************************************************************************)
Outcome == [ok : BOOLEAN, slow : BOOLEAN, c2 : SUBSET SampleIdx, q : BOOLEAN]
NoRead == [ok |-> FALSE, slow |-> FALSE, c2 |-> {}, q |-> FALSE]
Outcomes(l) ==
  IF l >= DiscEnd THEN {NoRead}
  ELSE { o \in Outcome :
          /\ l \notin Damaged => o.ok /\ o.c2 = {} /\ ~o.slow
          /\ l \notin QDamaged => o.q \/ ~o.ok
          /\ ~o.ok => o.c2 = {} /\ ~o.q
          /\ o.slow => drive = "PLEXTOR" /\ InsideRange(l, ErrorRanges) }

\* drive_is_asus(drive_config) && !options.asus_skip_leadout
AsusOn == drive = "LG_ASUS" /\ ~AsusSkipLeadout
AsusCacheReadRangeOnly ==
  InsideRange(lba, ErrorRanges) /\ lba = RangeOf(lba, ErrorRanges)[1]
\* the initial cache read: at the first LBA of an error range, or at lba_end
AsusCacheRead ==
  \/ InsideRange(lba, ErrorRanges) /\ lba = RangeOf(lba, ErrorRanges)[1]
  \/ lba = LbaEnd
\* the buffer after this iteration's cache read, if it makes one
AsusCache == IF AsusOn /\ AsusCacheRead THEN AsusExtracts(lba) ELSE {asus}
\* leadout_index: relative to the error range holding lba, else to lba_end
AsusIndex ==
  lba - (IF InsideRange(lba, ErrorRanges) THEN RangeOf(lba, ErrorRanges)[1]
         ELSE LbaEnd)
HoldsOffByOne(b, k) == k <= b.n
\* leadout_index < asus_leadout_buffer.size() / CD_RAW_DATA_SIZE
Holds(b, k) == k < b.n
\* the sector is synthesized from buffer b instead of read
Served(b) ==
  /\ AsusOn
  /\ InsideRange(lba, ErrorRanges) \/ lba >= LbaEnd
  /\ Holds(b, AsusIndex)
\* the sector built from entry AsusIndex: SUCCESS_SCSI_OFF, downgraded by
\* its C2 flags; its words are this sector's only if the entry is the one
\* the extract cut for lba (past the buffer's end the memory is not an entry)
AsusImages(b) ==
  LET k == AsusIndex
      inside == k < b.n
      right == inside /\ b.at + k = lba
  IN  { [state |-> [i \in SampleIdx |-> IF i \in e.c2 THEN ERROR_C2 ELSE SUCCESS_SCSI_OFF],
         data |-> [i \in SampleIdx |-> right /\ i \notin e.c2],
         q |-> e.q, c2 |-> e.c2] :
        e \in IF inside THEN EntryOf(b.at + k) ELSE {[c2 |-> {}, q |-> TRUE]} }


HasState(st, v) == \E i \in SampleIdx : st[i] = v
\* the prelude's and the selection's scan: a C2 sample before the first SKIP
C2BeforeSkip(st) ==
  \E i \in SampleIdx : st[i] = ERROR_C2 /\ \A j \in 1 .. i - 1 : st[j] # ERROR_SKIP
ScsiSectors(sf) == { l \in Lbas : Counted(l) /\ HasState(sf[l], ERROR_SKIP) }
C2Sectors(sf) ==
  { l \in Lbas : Counted(l) /\ ~HasState(sf[l], ERROR_SKIP) /\ C2BeforeSkip(sf[l]) }
QErrorSectors(qf) == { l \in Lbas : Counted(l) /\ ~qf[l] }

(***************************************************************************)
(* Pass start: truncation of the streams (dump), Plextor lead-in capture,  *)
(* and the refine prelude that recounts the errors from the streams.       *)
(***************************************************************************)
EmptyState == [l \in Lbas |-> [i \in SampleIdx |-> ERROR_SKIP]]
EmptyData == [l \in Lbas |-> [i \in SampleIdx |-> FALSE]]
EmptySub == [l \in Lbas |-> FALSE]

LeadinCommitNoData(st, dt, sb, captured, qbad) ==
  LET improve(l) == l \in captured /\ \E i \in SampleIdx : st[l][i] < SUCCESS_C2_OFF
  IN  << [l \in Lbas |-> IF improve(l) THEN [i \in SampleIdx |-> SUCCESS_C2_OFF] ELSE st[l]],
         dt,
         [l \in Lbas |-> IF l \in captured /\ ~sb[l] THEN l \notin qbad ELSE sb[l]] >>

\* plextor_store_sessions_leadin, commit part: a captured entry with good
\* status replaces the whole sector when any stored sample is below
\* SUCCESS_C2_OFF, and its subcode when the stored Q is invalid.
LeadinCommit(st, dt, sb, captured, qbad) ==
  LET improve(l) == l \in captured /\ \E i \in SampleIdx : st[l][i] < SUCCESS_C2_OFF
  IN  << [l \in Lbas |-> IF improve(l) THEN [i \in SampleIdx |-> SUCCESS_C2_OFF] ELSE st[l]],
         [l \in Lbas |-> IF improve(l) THEN [i \in SampleIdx |-> TRUE] ELSE dt[l]],
         [l \in Lbas |-> IF l \in captured /\ ~sb[l] THEN l \notin qbad ELSE sb[l]] >>

\* the lead-in buffers kept per session (n entries each after trimming and
\* stripping the invalid-Q prefix, so the first kept entry has a valid Q),
\* the entries among them with a SCSI error status, and those with bad Q
LeadinChoices ==
  { c \in [n : [1 .. Len(Sessions) -> 0 .. LeadinMax],
           bad : SUBSET Damaged, qbad : SUBSET QDamaged] :
      \A s \in 1 .. Len(Sessions) :
        c.n[s] > 0 => LeadinFirst(s, c.n[s]) \notin c.qbad }

Begin ==
  /\ phase = "begin"
  /\ LET st0 == IF mode = "dump" THEN EmptyState ELSE stateFile
         dt0 == IF mode = "dump" THEN EmptyData ELSE dataFile
         sb0 == IF mode = "dump" THEN EmptySub ELSE subFile
     IN \E c \in (IF drive = "PLEXTOR" THEN LeadinChoices
                  ELSE {[n |-> [s \in 1 .. Len(Sessions) |-> 0], bad |-> {}, qbad |-> {}]}) :
          LET captured == UNION { LeadinLbas(s, c.n[s]) : s \in 1 .. Len(Sessions) } \ c.bad
              files == LeadinCommit(st0, dt0, sb0, captured, c.qbad)
          IN /\ stateFile' = files[1]
             /\ dataFile' = files[2]
             /\ subFile' = files[3]
             \* refine prelude (dump starts all counters at zero)
             /\ errors_scsi' = IF mode = "refine" THEN Cardinality(ScsiSectors(files[1])) ELSE 0
             /\ errors_c2' = IF mode = "refine" THEN Cardinality(C2Sectors(files[1])) ELSE 0
             /\ errors_q' = IF mode = "refine" THEN Cardinality(QErrorSectors(files[3])) ELSE 0
             /\ refine_count' =
                  IF mode = "dump" THEN 0
                  ELSE Cardinality({ l \in Lbas : Counted(l) /\
                          \/ HasState(files[1][l], ERROR_SKIP)
                          \/ C2BeforeSkip(files[1][l])
                          \/ RefineSubchannel /\ ~files[3][l] })
  /\ lba' = LbaStart
  /\ lba_overread' = LbaEnd
  /\ phase' = IF LbaStart < LbaEnd THEN "loop" ELSE "done"
  /\ lba_refine' = MinLba - 1
  /\ refine_counter' = 0
  /\ refine_processed' = 0
  /\ asus' = NoCache
  /\ dumpResult' = IF mode = "dump" /\ LbaStart >= LbaEnd
                     THEN IF AsusOn THEN "refine" ELSE "skip"
                     ELSE dumpResult
  /\ UNCHANGED << drive, pass, mode, interrupted, crashed, reads, verdict >>

(***************************************************************************)
(* One iteration of the per-LBA loop.  Selection decides whether to read  *)
(* (always in a dump; in a refine only a defective sector, with the retry *)
(* bookkeeping on lba_refine/refine_counter).                              *)
(***************************************************************************)
Sel(read, next, lref, counter, processed, v) ==
  [read |-> read, next |-> next, lref |-> lref, counter |-> counter,
   processed |-> processed, verdict |-> v]

\* retry bookkeeping: ++refine_counter, then retry while below the budget
CounterWraps(c) == (c + 1) % RefineRetries
NextCounter(c) == c + 1
RetryOverBudget(c) == c <= RefineRetries
RetryAgain(c) == c < RefineRetries

RefineSelect ==
  LET st == stateFile[lba]
      want == \/ C2BeforeSkip(st) \/ HasState(st, ERROR_SKIP)
              \/ RefineSubchannel /\ ~subFile[lba]
  IN  IF want
        THEN IF lba_refine = lba
               THEN IF RetryAgain(NextCounter(refine_counter))
                      THEN Sel(TRUE, lba, lba_refine, NextCounter(refine_counter),
                               refine_processed, "none")
                      \* maximum retries reached: correction failure
                      ELSE Sel(FALSE, lba + 1, lba_refine, 0, refine_processed + 1, "failed")
               \* initial read
               ELSE Sel(TRUE, lba, lba, refine_counter, refine_processed, "none")
        \* sector is fixed
        ELSE IF lba_refine = lba
               THEN Sel(FALSE, lba + 1, lba_refine, 0, refine_processed + 1, "fixed")
               ELSE Sel(FALSE, lba + 1, lba_refine, refine_counter, refine_processed, "none")

Select ==
  IF mode = "refine" THEN RefineSelect
  ELSE Sel(TRUE, lba + 1, lba_refine, refine_counter, refine_processed, "none")

ApplySelect(sel) ==
  /\ lba_refine' = sel.lref
  /\ refine_counter' = sel.counter
  /\ refine_processed' = sel.processed
  /\ verdict' = IF sel.verdict = "none" THEN verdict
                ELSE [verdict EXCEPT ![lba] = sel.verdict]

\* overread growth or stop, the jump over an error range, the signal poll
\* and the loop condition; a dump that ends returns whether it saw SCSI or
\* C2 errors, and always true on an LG/ASUS drive with lead-out capture
EndIteration(stored, next, buf) ==
  LET ov == IF stored
              THEN IF lba + 1 = lba_overread /\ LbaEndOption = NoOption
                     THEN lba_overread + 1 ELSE lba_overread
              ELSE IF lba + 1 = lba_overread THEN lba ELSE lba_overread
      nx == IF ~stored /\ lba + 1 # lba_overread /\ InsideRange(lba, ErrorRanges)
              THEN RangeOf(lba, ErrorRanges)[2] ELSE next
  IN  \E stop \in (IF Interrupts THEN BOOLEAN ELSE {FALSE}) :
        LET ov2 == IF stop THEN lba ELSE ov
        IN  /\ lba' = nx
            /\ lba_overread' = ov2
            /\ interrupted' = (interrupted \/ stop)
            /\ phase' = IF nx < ov2 THEN "loop" ELSE "done"
            \* the buffer is local to redumper_dump
            /\ asus' = IF nx < ov2 THEN buf ELSE NoCache
            /\ dumpResult' =
                 IF mode = "dump" /\ nx >= ov2
                   THEN IF errors_scsi' > 0 \/ errors_c2' > 0 \/ AsusOn
                          THEN "refine" ELSE "skip"
                   ELSE dumpResult

NewState(o) == [i \in SampleIdx |-> IF i \in o.c2 THEN ERROR_C2 ELSE SUCCESS]
NewData(o) == [i \in SampleIdx |-> i \notin o.c2]
\* the sector a successful read assembles
Image(o) == [state |-> NewState(o), data |-> NewData(o), q |-> o.q, c2 |-> o.c2]
\* PLEXTOR: a slow sector inside an error range is ignored, whatever it read
SlowIgnored(o) ==
  drive = "PLEXTOR" /\ o.slow /\ InsideRange(lba, ErrorRanges)
CountsHereOffByOne == ~InsideRange(lba, ErrorRanges) /\ lba < LbaEnd - 1
CountsHere == ~InsideRange(lba, ErrorRanges) /\ lba < LbaEnd
Inc(x) == (x + 1) % CounterModulus
DecUnwrapped(x) == x - 1
Dec(x) == (x - 1) % CounterModulus
\* the reads history saturates one past the retry budget
Bump(n) == IF n > RefineRetries THEN n ELSE n + 1

LoopGuard ==
  /\ phase = "loop"
  /\ ~InsideRange(lba, SkipRanges)

\* a skip range: jump to its end, nothing else of the iteration runs
SkipStep ==
  /\ phase = "loop"
  /\ InsideRange(lba, SkipRanges)
  /\ lba' = RangeOf(lba, SkipRanges)[2]
  /\ phase' = IF lba' < lba_overread THEN "loop" ELSE "done"
  /\ asus' = IF phase' = "loop" THEN asus ELSE NoCache
  /\ dumpResult' = IF mode = "dump" /\ phase' = "done"
                     THEN IF errors_scsi > 0 \/ errors_c2 > 0 \/ AsusOn
                            THEN "refine" ELSE "skip"
                     ELSE dumpResult
  /\ UNCHANGED << drive, pass, mode, lba_overread, errors_scsi, errors_c2,
                  errors_q, refineVars, fileVars, interrupted, crashed, reads,
                  verdict >>

\* refine: the sector needs nothing (or its retries are used up)
RefineIdle ==
  /\ LoopGuard
  /\ \E b \in AsusCache :
       /\ ~Served(b)
       /\ ~Select.read
       /\ ApplySelect(Select)
       /\ UNCHANGED << drive, pass, mode, errors_scsi, errors_c2, errors_q,
                       refine_count, fileVars, crashed, reads >>
       /\ EndIteration(FALSE, Select.next, b)

\* the read returns a SCSI error, or a Plextor slow sector in an error range
ReadFailed ==
  /\ LoopGuard
  /\ \E b \in AsusCache, o \in Outcomes(lba) :
       /\ ~Served(b)
       /\ Select.read
       /\ ApplySelect(Select)
       /\ ~o.ok \/ SlowIgnored(o)
       /\ errors_scsi' = IF ~SlowIgnored(o) /\ CountsHere /\ mode = "dump"
                           THEN Inc(errors_scsi) ELSE errors_scsi
       /\ reads' = [reads EXCEPT ![lba] = Bump(@)]
       /\ UNCHANGED << drive, pass, mode, errors_c2, errors_q, refine_count,
                       fileVars, crashed >>
       /\ EndIteration(FALSE, Select.next, b)

\* dump: store the sector (data, subcode, then state), with the count a C2
\* sector raises wherever it lies (line 623 for a read, 474 for the cache)
DumpWrite(img) ==
  /\ dataFile' = [dataFile EXCEPT ![lba] = img.data]
  /\ subFile' = [subFile EXCEPT ![lba] = img.q]
  /\ stateFile' = [stateFile EXCEPT ![lba] = img.state]
  /\ errors_c2' = IF img.c2 # {} THEN Inc(errors_c2) ELSE errors_c2
  /\ errors_q' = IF img.q THEN errors_q ELSE Inc(errors_q)

\* dump: a successful read, stored
DumpStore ==
  /\ LoopGuard
  /\ mode = "dump"
  /\ \E b \in AsusCache, o \in Outcomes(lba) :
       /\ ~Served(b)
       /\ o.ok /\ ~SlowIgnored(o)
       /\ DumpWrite(Image(o))
       /\ reads' = [reads EXCEPT ![lba] = Bump(@)]
       /\ UNCHANGED << drive, pass, mode, errors_scsi, refineVars, crashed, verdict >>
       /\ EndIteration(TRUE, Select.next, b)

MergeNoDataInherit(s) ==
  LET fs == stateFile[lba]
  IN  [update |-> \E i \in SampleIdx : s.state[i] > fs[i],
       state  |-> [i \in SampleIdx |-> IF fs[i] > s.state[i] THEN fs[i] ELSE s.state[i]],
       data   |-> s.data]
MergeNoInherit(s) ==
  [update |-> \E i \in SampleIdx : s.state[i] > stateFile[lba][i],
   state |-> s.state, data |-> s.data]

\* refine: merge the new sector with the stored one sample by sample
Merge(s) ==
  LET fs == stateFile[lba]
  IN  [update |-> \E i \in SampleIdx : s.state[i] > fs[i],
       state  |-> [i \in SampleIdx |-> IF fs[i] > s.state[i] THEN fs[i] ELSE s.state[i]],
       data   |-> [i \in SampleIdx |->
                     IF fs[i] > s.state[i] THEN dataFile[lba][i] ELSE s.data[i]]]

RefineCountersNoC2(m) ==
  LET scsiFile == HasState(stateFile[lba], ERROR_SKIP)
      c2File == HasState(stateFile[lba], ERROR_C2)
      c2Now == HasState(m.state, ERROR_C2)
  IN  IF ~(m.update /\ CountsHere) THEN << errors_scsi, errors_c2 >>
      ELSE IF scsiFile /\ ~HasState(m.state, ERROR_SKIP)
             THEN << Dec(errors_scsi), errors_c2 >>
      ELSE IF c2File /\ ~c2Now THEN << errors_scsi, Dec(errors_c2) >>
      ELSE << errors_scsi, errors_c2 >>

\* the error counters after a merged sector is written back
RefineCounters(m) ==
  LET scsiFile == HasState(stateFile[lba], ERROR_SKIP)
      c2File == HasState(stateFile[lba], ERROR_C2)
      scsiNow == HasState(m.state, ERROR_SKIP)
      c2Now == HasState(m.state, ERROR_C2)
  IN  IF ~(m.update /\ CountsHere) THEN << errors_scsi, errors_c2 >>
      ELSE IF scsiFile /\ ~scsiNow
             THEN << Dec(errors_scsi), IF c2Now THEN Inc(errors_c2) ELSE errors_c2 >>
      ELSE IF c2File /\ ~c2Now THEN << errors_scsi, Dec(errors_c2) >>
      ELSE << errors_scsi, errors_c2 >>

\* refine: write back the merge when it improves, then the Q when only the
\* new one is valid
RefineWrite(img) ==
  LET m == Merge(img)
      qfix == img.q /\ ~subFile[lba]
  IN  /\ dataFile' = IF m.update THEN [dataFile EXCEPT ![lba] = m.data] ELSE dataFile
      /\ stateFile' = IF m.update THEN [stateFile EXCEPT ![lba] = m.state] ELSE stateFile
      /\ errors_scsi' = RefineCounters(m)[1]
      /\ errors_c2' = RefineCounters(m)[2]
      /\ subFile' = IF qfix THEN [subFile EXCEPT ![lba] = TRUE] ELSE subFile
      /\ errors_q' = IF qfix /\ ~InsideRange(lba, ErrorRanges)
                       THEN Dec(errors_q) ELSE errors_q

\* refine: a successful re-read of a defective sector, merged
RefineStore ==
  /\ LoopGuard
  /\ mode = "refine"
  /\ Select.read
  /\ ApplySelect(Select)
  /\ \E b \in AsusCache, o \in Outcomes(lba) :
       /\ ~Served(b)
       /\ o.ok /\ ~SlowIgnored(o)
       /\ RefineWrite(Image(o))
       /\ reads' = [reads EXCEPT ![lba] = Bump(@)]
       /\ UNCHANGED << drive, pass, mode, refine_count, crashed >>
       /\ EndIteration(TRUE, Select.next, b)

\* LG/ASUS: the cache read (when lba starts an error range or is lba_end)
\* and the sector synthesized from the buffer, stored as a dump or merged
\* as a refine stores a read; the refine selection and the read are
\* skipped.  (A refine's dummy read of lba - 1 only fills the drive cache.)
AsusStore ==
  /\ LoopGuard
  /\ \E b \in AsusCache :
       /\ Served(b)
       /\ \E img \in AsusImages(b) :
            IF mode = "dump"
              THEN DumpWrite(img) /\ UNCHANGED errors_scsi
              ELSE RefineWrite(img)
       /\ UNCHANGED << drive, pass, mode, refineVars, crashed, reads, verdict >>
       /\ EndIteration(TRUE, lba + 1, b)

\* the process dies after the data write of a store and before the state
\* write: dump writes .scram, .subcode, .state; refine writes .scram, .state
CrashAfterDataWrite ==
  /\ Crashes
  /\ LoopGuard
  /\ \E b \in AsusCache : ~Served(b)
  /\ Select.read
  /\ \E o \in Outcomes(lba) :
       /\ o.ok /\ ~SlowIgnored(o)
       /\ IF mode = "dump"
            THEN dataFile' = [dataFile EXCEPT ![lba] = NewData(o)]
            ELSE /\ Merge(Image(o)).update
                 /\ dataFile' = [dataFile EXCEPT ![lba] = Merge(Image(o)).data]
  /\ crashed' = TRUE
  /\ phase' = "done"
  /\ asus' = NoCache
  /\ UNCHANGED << drive, pass, mode, lba, lba_overread, errors_scsi, errors_c2,
                  errors_q, refineVars, stateFile, subFile, interrupted,
                  dumpResult, reads, verdict >>

(***************************************************************************)
(* The driver: after a pass, redumper() runs refine (automatically when a *)
(* dump reported errors, or because the user starts it), or stops.        *)
(***************************************************************************)
StartRefine ==
  /\ phase = "done"
  /\ pass < MaxPasses
  /\ pass' = pass + 1
  /\ mode' = "refine"
  /\ phase' = "begin"
  /\ interrupted' = FALSE
  /\ crashed' = FALSE
  /\ reads' = [l \in Lbas |-> 0]
  /\ verdict' = [l \in Lbas |-> "none"]
  /\ UNCHANGED << drive, asus, lba, lba_overread, errors_scsi, errors_c2,
                  errors_q, refineVars, fileVars, dumpResult >>

Init ==
  /\ drive \in DriveTypes
  /\ pass = 1
  /\ mode = "dump"
  /\ phase = "begin"
  /\ lba = LbaStart
  /\ lba_overread = LbaEnd
  /\ errors_scsi = 0 /\ errors_c2 = 0 /\ errors_q = 0
  /\ lba_refine = MinLba - 1
  /\ refine_counter = 0 /\ refine_processed = 0 /\ refine_count = 0
  /\ stateFile = EmptyState /\ dataFile = EmptyData /\ subFile = EmptySub
  /\ interrupted = FALSE /\ crashed = FALSE
  /\ dumpResult = "pending"
  /\ asus = NoCache
  /\ reads = [l \in Lbas |-> 0]
  /\ verdict = [l \in Lbas |-> "none"]

Next ==
  \/ Begin
  \/ SkipStep
  \/ RefineIdle
  \/ ReadFailed
  \/ DumpStore
  \/ RefineStore
  \/ AsusStore
  \/ CrashAfterDataWrite
  \/ StartRefine

\* the loop is one cooperative thread whose every iteration completes
Spec == Init /\ [][Next]_vars /\ WF_vars(Next)

(***************************************************************************)
(* Properties.                                                             *)
(***************************************************************************)
TypeOK ==
  /\ pass \in 1 .. MaxPasses
  /\ mode \in {"dump", "refine"}
  /\ phase \in {"begin", "loop", "done"}
  /\ lba \in Int /\ lba_overread \in Int
  /\ {errors_scsi, errors_c2, errors_q} \subseteq 0 .. CounterModulus - 1
  /\ lba_refine \in Int
  /\ {refine_counter, refine_processed, refine_count} \subseteq Nat
  /\ stateFile \in [Lbas -> [SampleIdx -> States]]
  /\ dataFile \in [Lbas -> [SampleIdx -> BOOLEAN]]
  /\ subFile \in [Lbas -> BOOLEAN]
  /\ {interrupted, crashed} \subseteq BOOLEAN
  /\ drive \in DriveTypes
  /\ dumpResult \in {"pending", "refine", "skip"}
  /\ asus.at \in Lbas \cup {MinLba - 1}
  /\ asus.n \in 0 .. AsusEntries
  /\ reads \in [Lbas -> Nat]
  /\ verdict \in [Lbas -> {"none", "fixed", "failed"}]

(* Every sample the .state stream marks as good (SUCCESS, SUCCESS_SCSI_OFF *)
(* or SUCCESS_C2_OFF) holds the disc's true word in .scram: the refine     *)
(* merge must carry the data word together with the state it inherits, and *)
(* a process dying between the .scram and the .state write of a store must *)
(* not leave a good state over a bad word.                                 *)
SuccessDataIntact ==
  \A l \in Lbas, i \in SampleIdx :
    stateFile[l][i] >= SUCCESS_C2_OFF => dataFile[l][i]

(* Spec sections 3 and 4.6: a refine pass never lowers the stored state   *)
(* of any sample.  The merge keeps the better of file and read, but the    *)
(* Plextor lead-in commit (lines 1484-1493) overwrites the whole sector    *)
(* when any sample is worse; violated by the leadin_downgrade run.         *)
StatesNeverDecrease ==
  [][ mode = "refine" /\ mode' = "refine" =>
        \A l \in Lbas, i \in SampleIdx : stateFile'[l][i] >= stateFile[l][i] ]_vars

(* During and after a refine pass the SCSI and C2 counters equal the      *)
(* number of counted sectors the .state stream shows with a SKIP sample,  *)
(* and with a C2 sample but no SKIP: the prelude's count and the loop's   *)
(* increments and decrements stay in step with the stream.                 *)
CountersMatchStreams ==
  mode = "refine" /\ phase # "begin" /\ ~crashed =>
    /\ errors_scsi = Cardinality(ScsiSectors(stateFile))
    /\ errors_c2 = Cardinality(C2Sectors(stateFile))

(* The Q counter of a refine pass equals the number of counted sectors    *)
(* whose stored Q is invalid.                                              *)
ErrorsQMatchStreams ==
  mode = "refine" /\ phase # "begin" /\ ~crashed =>
    errors_q = Cardinality(QErrorSectors(subFile))

(* When a dump that was not interrupted reports no SCSI and no C2 error,  *)
(* redumper() skips refine: that is only right if no counted sector was   *)
(* left unread or with a C2 sample.                                        *)
SkipRefineSound ==
  dumpResult = "skip" /\ ~interrupted =>
    ScsiSectors(stateFile) = {} /\ C2Sectors(stateFile) = {}

(* spec 8.5: errors met inside an error range or at or past lba_end are   *)
(* not counted by a dump: the C2 counter never exceeds the counted sectors *)
(* stored with a C2 sample.  The code counts a C2 sector wherever it     *)
(* lies (line 626), so this is violated; no run checks it (README, 3).    *)
ErrorRangeIsolation ==
  mode = "dump" /\ ~crashed =>
    errors_c2 <= Cardinality(C2Sectors(stateFile))

(* A refine pass reads a defective sector at most `retries` times.        *)
ReadsWithinBudget ==
  mode = "refine" => \A l \in Lbas : reads[l] <= RefineRetries

(* A refine pass declares a correction failure for a sector only after    *)
(* reading it `retries` times.                                             *)
FailureAfterFullBudget ==
  \A l \in Lbas : verdict[l] = "failed" => reads[l] = RefineRetries

(* Every pass's loop ends (overread stops at the first unreadable sector, *)
(* retries are bounded).                                                   *)
Termination == phase = "loop" ~> phase = "done"

(***************************************************************************)
(* Refinement: the streams as the abstract sample store.                  *)
(***************************************************************************)
Store == INSTANCE SampleStore WITH Keys <- Lbas, st <- stateFile, good <- dataFile

(* On a generic drive, every step of every pass is a step of SampleStore: *)
(* the streams are truncated only by a dump, and every store of a dump or  *)
(* a refine (and a store cut short by a crash) keeps, sample by sample,    *)
(* the better state with its own data; no sector is written twice in one  *)
(* dump over a better state.                                               *)
StoreRefinement == Store!Spec

====
