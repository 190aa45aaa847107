----------------------------- MODULE ImageFiles -----------------------------
(***************************************************************************)
(* The image files of one image name across dump and refine commands:      *)
(* what redumper_dump (src/redumper.cc:134-290) does to .scram, .scrap,    *)
(* .subcode, .state and .toc before its read loop, and what the loop adds. *)
(*                                                                         *)
(* A command is a mode (dump or refine) run on a disc with a drive and     *)
(* options.  It checks the guards of lines 164-165 and 216-249, removes    *)
(* the data file of the other read method (lines 254-256), opens the data, *)
(* subcode and state streams in that order (lines 258-262; a dump creates  *)
(* and truncates them, a refine opens existing files read-write and an    *)
(* open of a missing file fails), compares or writes the TOC (lines        *)
(* 277-289) and then the loop writes the disc's sectors into the streams   *)
(* it opened.  The process can die between any two of these steps.         *)
(*                                                                         *)
(* A file either does not exist or holds the set of discs whose sectors   *)
(* were written to it since it was created: a truncated file holds {}.     *)
(***************************************************************************)
EXTENDS FiniteSets

CONSTANTS
  Discs,         \* the discs a user puts in the drive
  DiscTracks,    \* [Discs -> SUBSET {"data", "audio"}]: the kinds of track in its TOC
  Crashes        \* whether the process may die between two steps

ASSUME DiscTracks \in [Discs -> SUBSET {"data", "audio"}]
ASSUME Crashes \in BOOLEAN

Absent == "absent"
Streams == {"scram", "scrap", "subcode", "state"}
\* a missing file holds nothing
FileValue == {[exists |-> FALSE, discs |-> {}]} \cup [exists : {TRUE}, discs : SUBSET Discs]
Missing == [exists |-> FALSE, discs |-> {}]
Created == [exists |-> TRUE, discs |-> {}]

(* A command: the mode, the disc, options.overwrite, whether the drive's   *)
(* read method is BE, whether its sector order has a subcode plane, and    *)
(* whether options.drive_type was given.                                   *)
Command == [mode : {"dump", "refine"}, disc : Discs, overwrite : BOOLEAN,
            be : BOOLEAN, subcode : BOOLEAN, typed : BOOLEAN]

VARIABLES
  file,      \* [Streams -> FileValue]
  toc,       \* the disc whose TOC .toc holds, or Absent
  pc,        \* "idle" between commands, else the next step of the command
  cmd,       \* the command being run
  opened     \* the streams the command opened

vars == << file, toc, pc, cmd, opened >>

Exists(f) == file[f].exists

(* scrap: a BE read method on a disc with a data track (lines 206-246)     *)
Scrap(c) == c.be /\ "data" \in DiscTracks[c.disc]

DataFile(c) == IF Scrap(c) THEN "scrap" ELSE "scram"
OtherDataFile(c) == IF Scrap(c) THEN "scram" ELSE "scrap"

(* The throws before any file is touched: an existing dump without         *)
(* overwrite (line 164), BE on a mixed disc without a drive type (lines    *)
(* 233-240), a refine whose data file is of the other read method          *)
(* (line 248).                                                             *)
RejectedNoExistsCheck(c) ==
  \/ c.be /\ DiscTracks[c.disc] = {"data", "audio"} /\ ~c.typed
  \/ /\ c.mode = "refine"
     /\ \/ Exists("scram") /\ Scrap(c)
        \/ Exists("scrap") /\ ~Scrap(c)

Rejected(c) ==
  \/ c.mode = "dump" /\ ~c.overwrite /\ Exists("state")
  \/ c.be /\ DiscTracks[c.disc] = {"data", "audio"} /\ ~c.typed
  \/ /\ c.mode = "refine"
     /\ \/ Exists("scram") /\ Scrap(c)
        \/ Exists("scrap") /\ ~Scrap(c)

(* A stream open (lines 258-262): a dump truncates or creates the file;    *)
(* a refine opens an existing file and fails on a missing one.             *)
Open(f) ==
  IF cmd.mode = "dump"
  THEN /\ file' = [file EXCEPT ![f] = Created]
       /\ opened' = opened \cup {f}
  ELSE /\ opened' = IF Exists(f) THEN opened \cup {f} ELSE opened
       /\ UNCHANGED file

Start ==
  /\ pc = "idle"
  /\ \E c \in Command : /\ ~Rejected(c)
                        /\ cmd' = c
  /\ pc' = "remove"
  /\ opened' = {}
  /\ UNCHANGED << file, toc >>

RemoveOtherSkipped ==
  /\ pc = "remove"
  /\ pc' = "open_data"
  /\ UNCHANGED << file, toc, cmd, opened >>

(* delete remnants of the other dump mode (lines 254-256)                  *)
RemoveOther ==
  /\ pc = "remove"
  /\ file' = [file EXCEPT ![OtherDataFile(cmd)] = Missing]
  /\ pc' = "open_data"
  /\ UNCHANGED << toc, cmd, opened >>

OpenData ==
  /\ pc = "open_data"
  /\ Open(DataFile(cmd))
  /\ pc' = "open_subcode"
  /\ UNCHANGED << toc, cmd >>

(* the subcode stream is opened only when the sector order has a subcode   *)
(* plane (lines 193-203, 259-261)                                          *)
OpenSubcode ==
  /\ pc = "open_subcode"
  /\ IF cmd.subcode THEN Open("subcode") ELSE UNCHANGED << file, opened >>
  /\ pc' = "open_state"
  /\ UNCHANGED << toc, cmd >>

OpenState ==
  /\ pc = "open_state"
  /\ Open("state")
  /\ pc' = "toc"
  /\ UNCHANGED << toc, cmd >>

StoreTocNoCompare ==
  /\ pc = "toc"
  /\ toc' = IF cmd.mode = "refine" THEN toc ELSE cmd.disc
  /\ pc' = "loop"
  /\ UNCHANGED << file, cmd, opened >>

(* a refine throws when .toc is not this disc's TOC (lines 277-282); a     *)
(* dump writes it (line 286)                                               *)
StoreToc ==
  /\ pc = "toc"
  /\ IF cmd.mode = "refine"
     THEN /\ pc' = IF toc = cmd.disc THEN "loop" ELSE "idle"
          /\ UNCHANGED toc
     ELSE /\ toc' = cmd.disc
          /\ pc' = "loop"
  /\ UNCHANGED << file, cmd, opened >>

WriteSectorsUnopened ==
  /\ pc = "loop"
  /\ file' = [f \in Streams |-> IF f \in {DataFile(cmd), "subcode", "state"}
                                THEN [file[f] EXCEPT !.discs = @ \cup {cmd.disc}] ELSE file[f]]
  /\ pc' = "idle"
  /\ UNCHANGED << toc, cmd, opened >>

(* the lead-in capture and the read loop write the disc's sectors into     *)
(* every stream that is open; a write to a stream that failed to open is  *)
(* lost                                                                    *)
WriteSectors ==
  /\ pc = "loop"
  /\ file' = [f \in Streams |-> IF f \in opened THEN [file[f] EXCEPT !.discs = @ \cup {cmd.disc}] ELSE file[f]]
  /\ pc' = "idle"
  /\ UNCHANGED << toc, cmd, opened >>

(* the process dies: what is on disk stays                                 *)
Crash ==
  /\ Crashes
  /\ pc \notin {"idle", "remove"}
  /\ pc' = "idle"
  /\ UNCHANGED << file, toc, cmd, opened >>

Init ==
  /\ file = [f \in Streams |-> Missing]
  /\ toc = Absent
  /\ pc = "idle"
  /\ cmd \in Command
  /\ opened = {}

Next ==
  \/ Start \/ RemoveOther \/ OpenData \/ OpenSubcode \/ OpenState
  \/ StoreToc \/ WriteSectors \/ Crash

Spec == Init /\ [][Next]_vars

-----------------------------------------------------------------------------

TypeOK ==
  /\ file \in [Streams -> FileValue]
  /\ toc \in {Absent} \cup Discs
  /\ pc \in {"idle", "remove", "open_data", "open_subcode", "open_state", "toc", "loop"}
  /\ cmd \in Command
  /\ opened \subseteq Streams

(* Spec section 5: exactly one of .scram and .scrap exists per image.  The *)
(* removal of the other read method's file (lines 254-256) and the refine  *)
(* guard against mixed read methods (line 248) must keep a dump with BE    *)
(* and one without, in any order and with crashes between, from leaving    *)
(* both.                                                                   *)
AtMostOneDataFile == ~(Exists("scram") /\ Exists("scrap"))

(* The data and state streams only ever hold sectors of the disc whose TOC *)
(* .toc holds: the TOC comparison of a refine (lines 277-282) keeps        *)
(* another disc out, and a dump truncates the streams (lines 258-262)      *)
(* before it writes the new TOC (line 286), so a crash in between leaves   *)
(* empty streams beside the old TOC.                                       *)
StreamsOfTocDisc ==
  \A f \in {"scram", "scrap", "state"} : file[f].discs \subseteq {toc}

(* Written sectors are lost (a stream truncated or removed) only by a dump *)
(* given overwrite: the check for an existing .state (line 164) is the     *)
(* only guard, and a refine never truncates.                               *)
NoLossWithoutOverwrite ==
  [][\A f \in Streams :
       ~(file[f].discs \subseteq file'[f].discs) => cmd.mode = "dump" /\ cmd.overwrite]_vars

(* The same for the subcode stream.  Not checked by a run: a dump with     *)
(* overwrite on a drive whose sector order has no subcode plane leaves the *)
(* previous dump's .subcode in place (line 260), and a later refine with a *)
(* subcode drive adds this disc's Q to it.                                 *)
SubcodeOfTocDisc == file["subcode"].discs \subseteq {toc}

====
