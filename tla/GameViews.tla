------------------------------ MODULE GameViews ------------------------------
(***************************************************************************)
(* What the streams of a game promise its pages: a page shows a revision   *)
(* that the game has had, a later one at each change, until it is blanked. *)
(***************************************************************************)
EXTENDS Integers

CONSTANT Pages

VARIABLES revision, shown

Blank == -1

Init == revision = 0 /\ shown = [p \in Pages |-> Blank]

Publish == revision' = revision + 1 /\ UNCHANGED shown

Show(p) ==
  \E r \in shown[p] + 1 .. revision :
    shown' = [shown EXCEPT ![p] = r] /\ UNCHANGED revision

Clear(p) == shown' = [shown EXCEPT ![p] = Blank] /\ UNCHANGED revision

Next == Publish \/ \E p \in Pages : Show(p) \/ Clear(p)

Spec == Init /\ [][Next]_<<revision, shown>>
=============================================================================
