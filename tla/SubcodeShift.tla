---------------------------- MODULE SubcodeShift ----------------------------
(***************************************************************************)
(* The subchannel path of redumper_dump (src/redumper.cc): where a read's  *)
(* subcode goes in .subcode when the drive returns the subcode of another  *)
(* sector than the one asked for.                                          *)
(*                                                                         *)
(* "Some drives desync at a random sector": a read of lba returns the Q of *)
(* lba + d.  The store adopts subcode_shift = (Q address) - lba from every *)
(* valid Q (lines 648-669) and writes the subcode at lba + subcode_shift   *)
(* (dump, line 752; refine Q fix, lines 727-745).  The refine prelude      *)
(* counts invalid Q at the unshifted slot (lines 382-392), and the refine  *)
(* selection with refine_subchannel reads the slot at lba + subcode_shift  *)
(* (lines 526-534).                                                        *)
(*                                                                         *)
(* The data and state streams are left out: every read that succeeds      *)
(* returns good data, so a refine re-reads a sector only for its Q, and a  *)
(* read fails only past the end of the disc.  One session, no skip ranges. *)
(* A Q is Bad (its CRC fails) or the LBA its address field names.          *)
(***************************************************************************)
EXTENDS Integers, FiniteSets

CONSTANTS
  LbaStart, LbaEnd,  \* lba_start and lba_end from the TOC
  DiscEnd,           \* first LBA the drive cannot read (overread limit)
  Desyncs,           \* the offsets d the drive's subcode may be off by
  Retries,           \* options.retries (refine_retries)
  MaxPasses,         \* one dump and MaxPasses - 1 refines
  CounterModulus     \* 2^w of the uint32_t errors_q

ASSUME LbaStart < LbaEnd /\ LbaEnd <= DiscEnd
ASSUME Desyncs \subseteq Nat /\ 0 \in Desyncs
ASSUME Retries \in Nat \ {0} /\ MaxPasses \in Nat \ {0}

MaxDesync == CHOOSE d \in Desyncs : \A e \in Desyncs : e <= d
Slots == LbaStart .. DiscEnd + MaxDesync
Bad == LbaStart - 1                \* a Q whose CRC fails
QValues == {Bad} \cup Slots

VARIABLES
  pass,            \* 1 is the dump, later ones are refines
  phase,           \* "loop" or "done"
  lba, lba_overread,
  subcode_shift,
  sub,             \* .subcode: [Slots -> QValues]
  errors_q,
  lba_refine, refine_counter

vars == << pass, phase, lba, lba_overread, subcode_shift, sub, errors_q,
           lba_refine, refine_counter >>

Refine == pass > 1

DecUnwrapped(x) == x - 1
Dec(x) == (x - 1) % CounterModulus

(* what a read of lba returns: nothing past the disc, else the Q of lba + d *)
(* or a Q whose CRC fails                                                  *)
Fail == Bad - 1
ReadQ(l) == IF l >= DiscEnd THEN {Fail} ELSE {Bad} \cup {l + d : d \in Desyncs}

(* desync detection (lines 648-669): a valid Q sets the shift              *)
NewShift(q) == IF q # Bad THEN q - lba ELSE subcode_shift

(* a sector that was stored: the overread grows while reads succeed        *)
(* (lines 777-779); one that was not: the overread stops (lines 781-785)   *)
Overread(stored) ==
  IF lba + 1 = lba_overread
  THEN IF stored THEN lba_overread + 1 ELSE lba
  ELSE lba_overread

(* dump store (lines 746-775): the subcode goes to lba + subcode_shift and *)
(* an invalid Q is counted                                                 *)
DumpIteration ==
  /\ phase = "loop" /\ ~Refine /\ lba < lba_overread
  /\ \E q \in ReadQ(lba) :
       IF q = Fail
       THEN /\ lba_overread' = Overread(FALSE)
            /\ UNCHANGED << subcode_shift, sub, errors_q >>
       ELSE /\ subcode_shift' = NewShift(q)
            /\ sub' = [sub EXCEPT ![lba + NewShift(q)] = q]
            /\ errors_q' = IF q = Bad THEN (errors_q + 1) % CounterModulus ELSE errors_q
            /\ lba_overread' = Overread(TRUE)
  /\ lba' = lba + 1
  /\ UNCHANGED << pass, phase, lba_refine, refine_counter >>

(* refine selection (lines 526-534): with refine_subchannel a sector with  *)
(* good data is re-read when the slot at lba + subcode_shift is invalid    *)
NeedsRead == sub[lba + subcode_shift] = Bad

RefineNoReadNoAdvance ==
  /\ phase = "loop" /\ Refine /\ lba < lba_overread
  /\ ~NeedsRead
  /\ refine_counter' = IF lba_refine = lba THEN 0 ELSE refine_counter
  /\ lba_overread' = Overread(FALSE)
  /\ lba' = IF lba_refine = lba THEN lba ELSE lba + 1
  /\ UNCHANGED << pass, phase, subcode_shift, sub, errors_q, lba_refine >>

(* no read: the sector counts as fixed if it was being retried (lines      *)
(* 564-574); nothing is stored, so the overread stops here                 *)
RefineNoRead ==
  /\ phase = "loop" /\ Refine /\ lba < lba_overread
  /\ ~NeedsRead
  /\ refine_counter' = IF lba_refine = lba THEN 0 ELSE refine_counter
  /\ lba_overread' = Overread(FALSE)
  /\ lba' = lba + 1
  /\ UNCHANGED << pass, phase, subcode_shift, sub, errors_q, lba_refine >>

(* the retry budget is spent: correction failure, move on (lines 539-555)  *)
RefineGiveUp ==
  /\ phase = "loop" /\ Refine /\ lba < lba_overread
  /\ NeedsRead /\ lba_refine = lba /\ refine_counter + 1 >= Retries
  /\ refine_counter' = 0
  /\ lba_overread' = Overread(FALSE)
  /\ lba' = lba + 1
  /\ UNCHANGED << pass, phase, subcode_shift, sub, errors_q, lba_refine >>

RefineStoreQ(q) ==
  LET s == lba + NewShift(q)
      fix == q # Bad /\ sub[s] = Bad
  IN /\ subcode_shift' = NewShift(q)
     /\ sub' = IF fix THEN [sub EXCEPT ![s] = q] ELSE sub
     /\ errors_q' = IF fix THEN Dec(errors_q) ELSE errors_q

(* an initial read or a retry (lines 536-563), then the read and the       *)
(* refine store of its Q                                                   *)
RefineRead ==
  /\ phase = "loop" /\ Refine /\ lba < lba_overread
  /\ NeedsRead
  /\ \/ lba_refine # lba /\ lba_refine' = lba /\ UNCHANGED refine_counter
     \/ lba_refine = lba /\ refine_counter + 1 < Retries
        /\ refine_counter' = refine_counter + 1 /\ UNCHANGED lba_refine
  /\ lba' = lba
  /\ \E q \in ReadQ(lba) :
       IF q = Fail
       THEN /\ lba_overread' = Overread(FALSE)
            /\ UNCHANGED << subcode_shift, sub, errors_q >>
       ELSE /\ RefineStoreQ(q)
            /\ lba_overread' = Overread(TRUE)
  /\ UNCHANGED << pass, phase >>

EndPass ==
  /\ phase = "loop" /\ lba >= lba_overread
  /\ phase' = "done"
  /\ UNCHANGED << pass, lba, lba_overread, subcode_shift, sub, errors_q,
                  lba_refine, refine_counter >>

(* the prelude of a refine pass (lines 345-400) recounts errors_q from the *)
(* unshifted slots of [lba_start, lba_end); the loop starts with a zero    *)
(* shift (line 334)                                                        *)
CountedBad == Cardinality({l \in LbaStart .. LbaEnd - 1 : sub[l] = Bad})

StartRefine ==
  /\ phase = "done" /\ pass < MaxPasses
  /\ pass' = pass + 1
  /\ phase' = "loop"
  /\ lba' = LbaStart
  /\ lba_overread' = LbaEnd
  /\ subcode_shift' = 0
  /\ errors_q' = CountedBad % CounterModulus
  /\ lba_refine' = Bad
  /\ refine_counter' = 0
  /\ UNCHANGED sub

(* a dump truncates .subcode: every slot reads back as zeros, a bad Q      *)
Init ==
  /\ pass = 1
  /\ phase = "loop"
  /\ lba = LbaStart
  /\ lba_overread = LbaEnd
  /\ subcode_shift = 0
  /\ sub = [s \in Slots |-> Bad]
  /\ errors_q = 0
  /\ lba_refine = Bad
  /\ refine_counter = 0

Next ==
  \/ DumpIteration \/ RefineNoRead \/ RefineGiveUp \/ RefineRead
  \/ EndPass \/ StartRefine

Spec == Init /\ [][Next]_vars /\ WF_vars(Next)

-----------------------------------------------------------------------------

TypeOK ==
  /\ pass \in 1 .. MaxPasses
  /\ phase \in {"loop", "done"}
  /\ lba \in LbaStart .. DiscEnd + 1
  /\ lba_overread \in LbaStart .. DiscEnd + 1
  /\ subcode_shift \in Desyncs
  /\ sub \in [Slots -> QValues]
  /\ errors_q \in 0 .. CounterModulus - 1
  /\ lba_refine \in {Bad} \cup LbaStart .. DiscEnd
  /\ refine_counter \in 0 .. Retries - 1

Termination == <>(phase = "done" /\ pass = MaxPasses)

(* When a refine pass declares a retried sector corrected (lines 564-574,  *)
(* "correction success"), that sector's own slot holds a valid Q.  The     *)
(* selection looks at lba + subcode_shift while the prelude counted lba.   *)
CorrectionIsReal ==
  phase = "loop" /\ Refine /\ lba < lba_overread /\ lba_refine = lba /\ ~NeedsRead
    => sub[lba] # Bad

====
