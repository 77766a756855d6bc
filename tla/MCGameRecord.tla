---------------------------- MODULE MCGameRecord ----------------------------
(***************************************************************************)
(* Instances of GameRecord for TLC.                                        *)
(***************************************************************************)
EXTENDS RecordEnds

(* Two requests compete for the first view; one each for the next two.     *)
MCRequests == {"r0", "s0", "r1", "r2"}
MCView == [r \in MCRequests |-> CASE r = "r1" -> 1 [] r = "r2" -> 2 [] OTHER -> 0]

(* The process ends anywhere.                                              *)
Anywhere == Steps \cup {"rest"}
=============================================================================
