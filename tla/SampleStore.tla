----------------------------- MODULE SampleStore -----------------------------
(***************************************************************************)
(* What the .state and .scram streams promise, per sample (spec 3, 4.8,   *)
(* 9): the store is truncated at the start of a dump and otherwise only    *)
(* improves.  Writing a read into a sector keeps, sample by sample, the    *)
(* better of the stored state and the read's state, together with the data *)
(* of whichever it kept; the data under a state below SUCCESS_C2_OFF is    *)
(* not trusted and may change on its own (a store cut short after the      *)
(* data write).  A read only reports a good state over true data.          *)
(***************************************************************************)
EXTENDS Naturals

CONSTANTS
  Keys,      \* the LBAs of the streams
  Samples    \* samples per sector

VARIABLES
  st,        \* st[l][i]: the state of sample i of sector l (0 = ERROR_SKIP .. 4 = SUCCESS)
  good       \* good[l][i]: the stored data word is the disc's

vars == << st, good >>

Sample == 1 .. Samples
StateVal == 0 .. 4
Trusted == 2                     \* SUCCESS_C2_OFF: the lowest state whose data is good

Empty == [l \in Keys |-> [i \in Sample |-> 0]]
NoData == [l \in Keys |-> [i \in Sample |-> FALSE]]

Init == st = Empty /\ good = NoData

\* the streams truncated by a dump
Reset == st' = Empty /\ good' = NoData

\* a read of sector l written over the stored one: per sample, a better
\* read replaces state and data (and a read only reports a good state over
\* true data), a worse one leaves both, an equal one may bring its own,
\* equally good data
Improve(l) ==
  /\ \A k \in Keys \ {l} : st'[k] = st[k] /\ good'[k] = good[k]
  /\ \A i \in Sample :
       /\ st'[l][i] >= st[l][i]
       /\ st'[l][i] > st[l][i] /\ st'[l][i] >= Trusted => good'[l][i]
       /\ st'[l][i] = st[l][i] /\ st[l][i] >= Trusted =>
            good'[l][i] = good[l][i] \/ good'[l][i]

\* untrusted data of sector l overwritten, the states left as they are
Scribble(l) ==
  /\ st' = st
  /\ \A i \in Sample : st[l][i] >= Trusted => good'[l][i] = good[l][i]
  /\ \A k \in Keys \ {l} : good'[k] = good[k]

Next == Reset \/ \E l \in Keys : Improve(l) \/ Scribble(l)

Spec == Init /\ [][Next]_vars

====
