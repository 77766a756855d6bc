------------------------------ MODULE MCCombat ------------------------------
(***************************************************************************)
(* An instance of Combat for TLC: a creature and a token against two       *)
(* players with a creature each, one of them with a planeswalker.          *)
(***************************************************************************)
EXTENDS Combat

CONSTANTS a1, t, b, c, w

MCCreatures == {a1, t, b, c}
MCTokens == {t}
MCOwner == [x \in MCCreatures |-> CASE x = b -> 2 [] x = c -> 3 [] OTHER -> 1]
MCWalkers == {w}
MCProtector == [x \in MCWalkers |-> 3]
MCTrample == {t}
MCPrinted ==
  [x \in MCCreatures |->
     CASE x = a1 -> "first" [] x = c -> "double" [] OTHER -> "none"]
=============================================================================
