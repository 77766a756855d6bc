---------------------------- MODULE MCGameActor ----------------------------
(***************************************************************************)
(* Instances of GameActor for TLC.                                         *)
(***************************************************************************)
EXTENDS GameActorProofs

CONSTANTS c1, c2, p1, p2, k1, k2, b1, b2

MCCallers == {c1, c2}
MCOneCaller == {c1}
MCOnePrincipal == {p1}
MCPrincipals == {p1, p2}
MCCommandIds == {k1, k2}
MCBodies == {b1, b2}

Request1(protocol, game, k, b, view) ==
  [protocol |-> protocol, game |-> game, command_id |-> k, body |-> b,
   view |-> view]

(* A first command; two further ones that reuse its identifier, for another *)
(* action and after a resynchronization; one of an outdated client; and one *)
(* that names another game.                                                *)
First == Request1("current", "this", k1, b1, 0)
Reused == Request1("current", "this", k1, b2, 0)
Again == Request1("current", "this", k1, b1, 1)
Outdated == Request1("old", "this", k2, b1, 1)
Elsewhere == Request1("current", "other", k1, b1, 0)

MCRetries == {First, Again, Reused}
MCConflict == {First, Reused}
MCStrangers == {First, Outdated, Elsewhere}
MCOne == {First}
MCNone == {}
=============================================================================
