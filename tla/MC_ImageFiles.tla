---------------------------- MODULE MC_ImageFiles ----------------------------
(* Two discs: A has data tracks only, so a BE drive dumps it to .scrap; B  *)
(* is a mixed disc, which a BE drive dumps to .scrap only with a drive     *)
(* type given and otherwise rejects.                                       *)
EXTENDS ImageFiles, TLC

CONSTANTS A, B

MCDiscTracks == (A :> {"data"}) @@ (B :> {"data", "audio"})
====
