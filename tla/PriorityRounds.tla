--------------------------- MODULE PriorityRounds ---------------------------
(***************************************************************************)
(* TurnPriority with a history variable: the seats of the game that have   *)
(* not passed since the last thing they could respond to.  The history     *)
(* observes the engine and never restricts it.                             *)
(***************************************************************************)
EXTENDS TurnPriority

VARIABLE unheard

roundVars == <<vars, unheard>>

\* The holder's pass completes a round of passes ...
RoundEnds ==
  priorityPlayer # NoSeat /\ todo' \in {"advance", "resolve"}

\* ... or hands the priority on.
PriorityMoves ==
  /\ priorityPlayer \notin priorityPasses
  /\ priorityPasses' = priorityPasses \cup {priorityPlayer}

\* Priority is granted anew, or a seat that has priority does something.
WindowOpens ==
  \/ todo = "grant" /\ todo' = "pump"
  \/ decision.kind = "priority" /\ events' # events

Hear ==
  unheard' =
    IF WindowOpens THEN inGame'
    ELSE IF RoundEnds \/ PriorityMoves
           THEN (unheard \ {priorityPlayer}) \cap inGame'
    ELSE unheard \cap inGame'

RoundInit == Init /\ unheard = {}
RoundNext == Next /\ Hear
RoundSpec == RoundInit /\ [][RoundNext]_roundVars

\* As EngineSpec and FairSpec of TurnPriority.
RoundFairSpec ==
  RoundSpec /\ WF_roundVars(Engine /\ Hear) /\ WF_roundVars(Answer /\ Hear)

\* Every seat of the game has its say, at a table that does not pass for its
\* seats: a round of priority ends, and with it an object resolves or the step
\* ends, only when each of them has passed since the window opened and since
\* anybody last acted in it.
EverybodyWasHeard ==
  [][~AutoPass /\ RoundEnds => unheard' = {}]_roundVars

=============================================================================
