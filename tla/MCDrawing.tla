----------------------------- MODULE MCDrawing -----------------------------
(***************************************************************************)
(* Three players draw for TLC: one with two doubling effects and dredge in *)
(* the graveyard, one that may reveal its first card, with dredge and a    *)
(* doubling effect, and one that may draw one card, with a doubling effect *)
(* and an offer to reveal it.                                              *)
(***************************************************************************)
EXTENDS Drawing, TLC

CONSTANTS A, B, C, a1, a2, a3, b1, b2, b3, b4, c1, c2, d1, d2, d3, d4

MCPlayers == {A, B, C}
MCCards == {a1, a2, a3, b1, b2, b3, b4, c1, c2}
MCOwner ==
  [c \in MCCards |->
     IF c \in {a1, a2, a3} THEN A ELSE IF c \in {c1, c2} THEN C ELSE B]
MCMill == a1 :> 1 @@ b1 :> 2 @@ b2 :> 1
MCDoublers == A :> {d1, d2} @@ B :> {d3} @@ C :> {d4}
MCLimit == C :> 1
MCReveals == A :> 0 @@ B :> 2 @@ C :> 1
MCStart ==
  [c \in MCCards |-> IF c \in {a1, b1} THEN "graveyard" ELSE "library"]

MCInstructions == [player : MCPlayers, count : 1 .. 3]
MCPrograms == [1 .. 3 -> MCInstructions]
=============================================================================
