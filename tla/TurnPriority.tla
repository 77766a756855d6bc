---------------------------- MODULE TurnPriority ----------------------------
(***************************************************************************)
(* The turn scheduler and the priority loop of the rules engine            *)
(* (quorune/turn_step_owner.py, quorune/turn_priority_owner.py and the     *)
(* parts of quorune/engine.py they call).                                  *)
(*                                                                         *)
(* The engine is sequential: one accepted answer runs a chain of calls     *)
(* (grant priority, advance the step, begin a turn ...) until somebody has *)
(* to answer again.  The calls are tail calls, so the chain is the         *)
(* variable `todo', the call the engine is about to make; it is "answer"   *)
(* when the transaction has ended and the engine waits for a seat.  What   *)
(* cards do is left to the environment: a card makes seats lose (doomed),  *)
(* makes abilities trigger (waiting), gives an extra turn.  At most        *)
(* MaxEvents such things happen; turns go on for ever.                     *)
(***************************************************************************)
EXTENDS Integers, FiniteSets

CONSTANTS
  N,            \* number of seats; a seat is its index in state.turn_order
  AutoPass,     \* config.auto_pass_empty_priority
  Concessions,  \* whether seats of this instance concede
  MaxEvents     \* bound: answers that act, triggers, losses, extra turns

ASSUME SeatsAssumption == N \in Nat /\ N >= 2
ASSUME BoundsAssumption == MaxEvents \in Nat
ASSUME ConfigAssumption == AutoPass \in BOOLEAN /\ Concessions \in BOOLEAN

Seats == 1..N
NoSeat == 0

\* TURN_STEPS, by position.
Untap == 1    Upkeep == 2    Draw == 3    PrecombatMain == 4
BeginningCombat == 5    DeclareAttackers == 6    DeclareBlockers == 7
CombatDamage == 8    EndCombat == 9    PostcombatMain == 10
EndStep == 11    Cleanup == 12
Steps == 1..12

DecisionKinds ==
  {"priority", "draw", "combat.attackers", "combat", "cleanup.discard",
   "trigger.order"}
NoDecision == [kind |-> "none", actor |-> NoSeat]
Decisions == [kind : DecisionKinds, actor : Seats] \cup {NoDecision}

Calls == {"enter", "advance", "grant", "resolve", "finish_cleanup",
          "begin_turn", "pump", "answer"}
Failures == {"none", "duplicate_pass", "departed_priority", "departed_draw"}

VARIABLES
  inGame,          \* seats whose player.in_game is set
  gameOver,        \* state.game_over
  activePlayer,    \* state.active_player
  lastNormal,      \* state.last_normal_turn_player
  extraTurns,      \* state.extra_turns; a later ref is nearer the front
  phaseIndex,      \* state.phase_index
  attacked,        \* combat.had_attacking_creature or combat.attackers
  secondStrike,    \* combat.damage_step_index = 1
  stack,           \* number of stack objects each seat controls
  waiting,         \* controllers of the groups in pending_trigger_batches
  doomed,          \* seats that meet a condition of player_loss_seats
  priorityPlayer,  \* state.priority_player
  priorityPasses,  \* state.priority_passes (a repeat raises, so a set)
  yields,          \* seats with a yield policy
  decision,        \* state.pending_decision
  todo,            \* the call the engine is about to make
  raised,          \* the error that takes back the answer being carried out
  events           \* events used up (bound MaxEvents)

turnVars == <<activePlayer, lastNormal>>
combatVars == <<attacked, secondStrike>>
priorityVars == <<priorityPlayer, priorityPasses>>
tableVars == <<inGame, gameOver, extraTurns, stack>>
vars == <<tableVars, turnVars, phaseIndex, combatVars, waiting, doomed,
          priorityVars, yields, decision, todo, raised, events>>

ExtraTurn == [player : Seats, ref : 1..MaxEvents]

(***************************************************************************)
(* The empty table after start_game has begun the first turn: everybody    *)
(* has kept a hand and the first seat is about to enter its untap step.    *)
(***************************************************************************)
Init ==
  /\ inGame = Seats
  /\ gameOver = FALSE
  /\ activePlayer = 1
  /\ lastNormal = 1
  /\ extraTurns = {}
  /\ phaseIndex = Untap
  /\ attacked = FALSE
  /\ secondStrike = FALSE
  /\ stack = [s \in Seats |-> 0]
  /\ waiting = {}
  /\ doomed = {}
  /\ priorityPlayer = NoSeat
  /\ priorityPasses = {}
  /\ yields = {}
  /\ decision = NoDecision
  /\ todo = "enter"
  /\ raised = "none"
  /\ events = 0

-----------------------------------------------------------------------------
(* Turn order.                                                             *)

\* How far seat t sits after seat s in turn order; a seat is N after itself.
Distance(s, t) == IF t > s THEN t - s ELSE t - s + N

\* t is the first seat of `present' after s (_next_active_after).
IsNextAfter(t, s, present) ==
  /\ t \in present
  /\ \A u \in present : Distance(s, t) <= Distance(s, u)

\* a comes before b in apnap_order: from the active player on, or from the
\* first remaining seat of the table when the active player has left.
APNAPBefore(a, b, present) ==
  IF activePlayer \in present
    THEN (a - activePlayer) % N < (b - activePlayer) % N
    ELSE a < b

StackEmpty == \A s \in Seats : stack[s] = 0

-----------------------------------------------------------------------------
(* What cards do.                                                          *)

\* The seats in `losing' come to meet a loss condition, abilities of the
\* seats in `triggering' trigger (enqueue_trigger_batch drops the abilities
\* of seats that have left), and `extra' more events are used up.
Happen(losing, triggering, extra) ==
  /\ losing \subseteq inGame \ doomed
  /\ triggering \subseteq inGame \ waiting
  /\ events' = events + Cardinality(losing) + Cardinality(triggering) + extra
  /\ events' <= MaxEvents

\* The same, recorded for the next call of _stabilize.
HappenLater(extra) ==
  \E losing, triggering \in SUBSET inGame :
    /\ Happen(losing, triggering, extra)
    /\ doomed' = doomed \cup losing
    /\ waiting' = waiting \cup triggering

-----------------------------------------------------------------------------
(* Leaving the game and state-based actions.                               *)

(* Bug: as in a duel, the first loss ends the game.                       *)
LeaveEndsGame(losers) ==
  /\ inGame' = inGame \ losers
  /\ extraTurns' = {t \in extraTurns : t.player \notin losers}
  /\ gameOver' = (losers # {})

\* _eliminate_players: what a departed seat is owed goes with it; the last
\* remaining seat wins, none remaining is a draw.
Leave(losers) ==
  /\ inGame' = inGame \ losers
  /\ extraTurns' = {t \in extraTurns : t.player \notin losers}
  /\ gameOver' = (losers # {} /\ Cardinality(inGame \ losers) <= 1)

(* Bug: a departed seat's objects still resolve.                          *)
KeepObjects(losers, objects) == objects

\* The stack `objects' without what departed seats control.
WithoutObjectsOf(losers, objects) ==
  [s \in Seats |-> IF s \in losers THEN 0 ELSE objects[s]]

\* What _eliminate_players does to a priority that the caller does not
\* overwrite: the passes of departed seats are forgotten, and priority moves
\* on from a departed seat (from the last of them in turn order).
PriorityAfterLeaving(losers) ==
  /\ priorityPasses' = priorityPasses \ losers
  /\ \/ /\ gameOver'
        /\ priorityPlayer' = NoSeat
     \/ /\ ~gameOver' /\ priorityPlayer \in losers
        /\ \E last \in losers, t \in inGame' :
             /\ \A s \in losers : s <= last
             /\ IsNextAfter(t, last, inGame')
             /\ priorityPlayer' = t
     \/ /\ ~gameOver' /\ priorityPlayer \notin losers
        /\ UNCHANGED priorityPlayer

\* begin_pending_trigger_batch puts the waiting groups on the stack in APNAP
\* order, up to the first group whose controller has to choose an order;
\* `asked' is that controller, NoSeat when no group needs an order.
PlacedBefore(asked, groups, present) ==
  IF asked = NoSeat THEN groups
  ELSE {s \in groups : APNAPBefore(s, asked, present)}

PlaceGroups(asked, groups, present, objects) ==
  LET placed == PlacedBefore(asked, groups, present) IN
  /\ asked \in groups \cup {NoSeat}
  /\ stack' = [s \in Seats |->
                 IF s \in placed THEN objects[s] + 1 ELSE objects[s]]
  /\ waiting' = groups \ placed

OrderDecision(asked) ==
  IF asked = NoSeat THEN NoDecision
  ELSE [kind |-> "trigger.order", actor |-> asked]

(* Bug: departed seats still order their triggers.                        *)
StabilizeAll(losers, groups, objects, asked) ==
  /\ Leave(losers)
  /\ doomed' = {}
  /\ decision' = OrderDecision(asked)
  /\ PlaceGroups(asked, groups, inGame', WithoutObjectsOf(losers, objects))

\* _stabilize: the seats that lose leave together; unless that ended the
\* game, the waiting triggers of the remaining seats are put on the stack.
Stabilize(losers, groups, objects, asked) ==
  /\ Leave(losers)
  /\ doomed' = {}
  /\ decision' = OrderDecision(asked)
  /\ IF gameOver'
       THEN /\ asked = NoSeat
            /\ stack' = WithoutObjectsOf(losers, objects)
            /\ waiting' = groups \ losers
       ELSE PlaceGroups(asked, groups \ losers, inGame',
                        WithoutObjectsOf(losers, objects))

\* _stabilize returned True: the game is over or a group has to be ordered.
Stopped == gameOver' \/ decision' # NoDecision

-----------------------------------------------------------------------------
(* Priority.                                                               *)

\* grant_priority, always asked for the active player: after state-based
\* actions and waiting triggers, the active player, or the next seat of the
\* game if it has left, starts a new round of passes.
GrantPriority ==
  /\ todo = "grant"
  /\ \E asked \in inGame \cup {NoSeat} :
       Stabilize(doomed, waiting, stack, asked)
  /\ \/ /\ Stopped
        /\ todo' = "answer"
        /\ PriorityAfterLeaving(doomed)
     \/ /\ ~Stopped
        /\ todo' = "pump"
        /\ priorityPasses' = {}
        /\ \E t \in inGame' :
             /\ IF activePlayer \in inGame' THEN t = activePlayer
                ELSE IsNextAfter(t, activePlayer, inGame')
             /\ priorityPlayer' = t
  /\ UNCHANGED <<turnVars, phaseIndex, combatVars, yields, raised, events>>

\* prepare_priority_pass and commit_priority_pass.
PassPriority(seat) ==
  \/ /\ seat \in priorityPasses
     /\ raised' = "duplicate_pass"
     /\ todo' = "answer"
     /\ UNCHANGED priorityVars
  \/ /\ seat \notin priorityPasses
     /\ Cardinality(priorityPasses \cup {seat}) >= Cardinality(inGame)
     /\ priorityPlayer' = NoSeat
     /\ priorityPasses' = {}
     /\ todo' = IF StackEmpty THEN "advance" ELSE "resolve"
     /\ UNCHANGED raised
  \/ /\ seat \notin priorityPasses
     /\ Cardinality(priorityPasses \cup {seat}) < Cardinality(inGame)
     /\ \E t \in inGame : IsNextAfter(t, seat, inGame) /\ priorityPlayer' = t
     /\ priorityPasses' = priorityPasses \cup {seat}
     /\ todo' = "pump"
     /\ UNCHANGED raised

\* pump passes for the priority holder: its yield still covers the window, or
\* the configuration skips windows in which the seat can do nothing.
PumpPass ==
  /\ todo = "pump"
  /\ AutoPass \/ priorityPlayer \in yields
  /\ PassPriority(priorityPlayer)
  /\ UNCHANGED <<tableVars, turnVars, phaseIndex, combatVars, waiting,
                 doomed, yields, decision, events>>

\* pump asks the priority holder.  A seat that has left the game has nothing
\* to do, so with AutoPass it is never asked.  The transaction ends here, and
\* _assert_invariants refuses a priority of a seat that has left.
PumpAsk ==
  /\ todo = "pump"
  /\ priorityPlayer \in inGame \/ ~AutoPass
  /\ decision' = [kind |-> "priority", actor |-> priorityPlayer]
  /\ yields' = yields \ {priorityPlayer}
  /\ todo' = "answer"
  /\ raised' = IF priorityPlayer \in inGame THEN raised
               ELSE "departed_priority"
  /\ UNCHANGED <<tableVars, turnVars, phaseIndex, combatVars, waiting,
                 doomed, priorityVars, events>>

\* A seat may answer the pending decision.
Asked(kind, seat) ==
  /\ todo = "answer" /\ raised = "none"
  /\ decision = [kind |-> kind, actor |-> seat]

\* complete_priority, "pass", with or without a yield.
AnswerPass(seat) ==
  /\ Asked("priority", seat)
  /\ decision' = NoDecision
  /\ yields' \in {yields \ {seat}, yields \cup {seat}}
  /\ PassPriority(seat)
  /\ UNCHANGED <<tableVars, turnVars, phaseIndex, combatVars, waiting,
                 doomed, events>>

(* Bug: earlier passes count for the new object too.                      *)
ActKeepsPasses(seat, objects) ==
  \E losing, triggering \in SUBSET inGame, asked \in inGame \cup {NoSeat} :
    /\ Happen(losing, triggering, 1)
    /\ Stabilize(losing, triggering, objects, asked)
    /\ \/ Stopped /\ PriorityAfterLeaving(losing) /\ todo' = "answer"
       \/ ~Stopped /\ priorityPlayer' = seat /\ todo' = "pump"
          /\ UNCHANGED priorityPasses

\* What every priority action ends with: its costs and triggers, the
\* state-based actions and the waiting triggers; unless they stop it,
\* priority goes to the seat that acted, whatever became of that seat.
Act(seat, objects) ==
  \E losing, triggering \in SUBSET inGame, asked \in inGame \cup {NoSeat} :
    /\ Happen(losing, triggering, 1)
    /\ Stabilize(losing, triggering, objects, asked)
    /\ \/ Stopped /\ PriorityAfterLeaving(losing) /\ todo' = "answer"
       \/ /\ ~Stopped
          /\ priorityPlayer' = seat
          /\ priorityPasses' = {}
          /\ todo' = "pump"

\* A land play or turning a card face up: the priority is put down before
\* the state-based actions and taken up again after them.
AnswerSpecialAction(seat) ==
  /\ Asked("priority", seat)
  /\ \E losing, triggering \in SUBSET inGame, asked \in inGame \cup {NoSeat} :
       /\ Happen(losing, triggering, 1)
       /\ Stabilize(losing, triggering, stack, asked)
  /\ priorityPasses' = {}
  /\ \/ Stopped /\ priorityPlayer' = NoSeat /\ todo' = "answer"
     \/ ~Stopped /\ priorityPlayer' = seat /\ todo' = "pump"
  /\ UNCHANGED <<turnVars, phaseIndex, combatVars, yields, raised>>

\* commit_cast and commit_activation: a new stack object of the seat.
AnswerCast(seat) ==
  /\ Asked("priority", seat)
  /\ Act(seat, [stack EXCEPT ![seat] = @ + 1])
  /\ UNCHANGED <<turnVars, phaseIndex, combatVars, yields, raised>>

\* A mana ability: no stack object.
AnswerMana(seat) ==
  /\ Asked("priority", seat)
  /\ Act(seat, stack)
  /\ UNCHANGED <<turnVars, phaseIndex, combatVars, yields, raised>>

\* complete_priority, "concede": the seat leaves; no state-based actions and
\* no new round follow.
AnswerConcede(seat) ==
  /\ Concessions
  /\ Asked("priority", seat)
  /\ decision' = NoDecision
  /\ Leave({seat})
  /\ stack' = WithoutObjectsOf({seat}, stack)
  /\ PriorityAfterLeaving({seat})
  /\ todo' = IF gameOver' THEN "answer" ELSE "pump"
  /\ UNCHANGED <<turnVars, phaseIndex, combatVars, waiting, doomed, yields,
                 raised, events>>

\* complete_trigger_order: the ordered group and the groups that need no
\* order go on the stack; then the next group is ordered or priority granted.
AnswerOrder(seat) ==
  /\ Asked("trigger.order", seat)
  /\ \E asked \in inGame \cup {NoSeat} :
       /\ PlaceGroups(asked, waiting \ {seat}, inGame,
                      [stack EXCEPT ![seat] = @ + 2])
       /\ decision' = OrderDecision(asked)
       /\ todo' = IF asked = NoSeat THEN "grant" ELSE "answer"
  /\ UNCHANGED <<inGame, gameOver, extraTurns, turnVars, phaseIndex,
                 combatVars, doomed, priorityVars, yields, raised, events>>

\* _prepare_stack_resolution up to complete_stack_resolution: an object
\* leaves the stack and its effects happen; one of them may be an extra turn
\* for a seat of the game (schedule_extra_turn).
ResolveStackObject ==
  /\ todo = "resolve"
  /\ \E controller \in Seats :
       /\ stack[controller] > 0
       /\ stack' = [stack EXCEPT ![controller] = @ - 1]
  /\ \/ HappenLater(0) /\ UNCHANGED extraTurns
     \/ \E seat \in inGame :
          /\ HappenLater(1)
          /\ extraTurns' =
               extraTurns \cup {[player |-> seat, ref |-> events + 1]}
  /\ todo' = "grant"
  /\ UNCHANGED <<inGame, gameOver, turnVars, phaseIndex, combatVars,
                 priorityVars, yields, decision, raised>>

-----------------------------------------------------------------------------
(* Steps.                                                                  *)

\* enter_step: no priority is left over from the step before.
Enter(step) ==
  /\ todo = "enter"
  /\ phaseIndex = step
  /\ priorityPlayer' = NoSeat
  /\ priorityPasses' = {}
  /\ UNCHANGED <<tableVars, turnVars, phaseIndex, yields, raised>>

\* The untap step has no priority; its triggers are held for upkeep.
EnterUntap ==
  /\ Enter(Untap)
  /\ HappenLater(0)
  /\ todo' = "advance"
  /\ UNCHANGED <<combatVars, decision>>

\* Steps that begin with triggers and grant priority.
EnterPriorityStep ==
  /\ \E step \in {Upkeep, PrecombatMain, BeginningCombat, EndCombat,
                  PostcombatMain, EndStep} : Enter(step)
  /\ HappenLater(0)
  /\ todo' = "grant"
  /\ IF phaseIndex = BeginningCombat
       THEN attacked' = FALSE /\ secondStrike' = FALSE
       ELSE UNCHANGED combatVars
  /\ UNCHANGED decision

\* The draw step: the active player draws a card, and may be asked what to put
\* in place of the draw; priority follows.
EnterDraw ==
  /\ Enter(Draw)
  /\ activePlayer \in inGame
  /\ \/ /\ HappenLater(0)
        /\ todo' = "grant"
        /\ UNCHANGED decision
     \/ /\ decision' = [kind |-> "draw", actor |-> activePlayer]
        /\ todo' = "answer"
        /\ UNCHANGED <<waiting, doomed, events>>
  /\ UNCHANGED combatVars

\* _begin_draw_sequence prepares no draw for a player who has left.  The pass
\* that brought the game here is refused and taken back, and so is every other
\* pass that would close the round: the turn cannot leave its upkeep.
RefuseDraw ==
  /\ todo = "enter"
  /\ phaseIndex = Draw
  /\ activePlayer \notin inGame
  /\ raised' = "departed_draw"
  /\ todo' = "answer"
  /\ UNCHANGED <<tableVars, turnVars, phaseIndex, combatVars, waiting, doomed,
                 priorityVars, yields, decision, events>>

\* complete_draw_decision: the choice may be followed by another one.
AnswerDraw(seat) ==
  /\ Asked("draw", seat)
  /\ HappenLater(0)
  /\ \/ decision' = NoDecision /\ todo' = "grant"
     \/ UNCHANGED <<decision, todo>>
  /\ UNCHANGED <<tableVars, turnVars, phaseIndex, combatVars, priorityVars,
                 yields, raised>>

\* _issue_attackers: an active player who has left attacks nobody.
EnterDeclareAttackers ==
  /\ Enter(DeclareAttackers)
  /\ HappenLater(0)
  /\ \/ /\ activePlayer \notin inGame
        /\ todo' = "advance"
        /\ UNCHANGED decision
     \/ /\ activePlayer \in inGame
        /\ todo' = "grant"
        /\ UNCHANGED decision
     \/ /\ activePlayer \in inGame
        /\ todo' = "answer"
        /\ decision' = [kind |-> "combat.attackers", actor |-> activePlayer]
  /\ UNCHANGED combatVars

\* Blocks and damage: some seat may have to choose before it happens.
EnterCombatStep ==
  /\ \E step \in {DeclareBlockers, CombatDamage} : Enter(step)
  /\ \/ /\ HappenLater(0)
        /\ todo' = "grant"
        /\ UNCHANGED decision
     \/ /\ \E seat \in inGame :
             decision' = [kind |-> "combat", actor |-> seat]
        /\ todo' = "answer"
        /\ UNCHANGED <<waiting, doomed, events>>
  /\ UNCHANGED combatVars

\* _complete_attackers.
AnswerAttackers(seat) ==
  /\ Asked("combat.attackers", seat)
  /\ HappenLater(0)
  /\ attacked' \in BOOLEAN
  /\ decision' = NoDecision
  /\ todo' = "grant"
  /\ UNCHANGED <<tableVars, turnVars, phaseIndex, secondStrike, priorityVars,
                 yields, raised>>

\* _complete_blockers and _complete_combat_damage: the seats choose one after
\* the other in APNAP order, and priority follows the last choice.
AnswerCombat(seat) ==
  /\ Asked("combat", seat)
  /\ HappenLater(0)
  /\ \/ /\ decision' = NoDecision
        /\ todo' = "grant"
     \/ /\ \E next \in inGame :
             /\ APNAPBefore(seat, next, inGame)
             /\ decision' = [kind |-> "combat", actor |-> next]
        /\ todo' = "answer"
  /\ UNCHANGED <<tableVars, turnVars, phaseIndex, combatVars, priorityVars,
                 yields, raised>>

\* The cleanup step collects its triggers, then the active player may have to
\* discard; a seat that has left has no hand.
EnterCleanup ==
  /\ Enter(Cleanup)
  /\ HappenLater(0)
  /\ \/ todo' = "finish_cleanup" /\ UNCHANGED decision
     \/ /\ activePlayer \in inGame
        /\ todo' = "answer"
        /\ decision' = [kind |-> "cleanup.discard", actor |-> activePlayer]
  /\ UNCHANGED combatVars

AnswerDiscard(seat) ==
  /\ Asked("cleanup.discard", seat)
  /\ HappenLater(0)
  /\ decision' = NoDecision
  /\ todo' = "finish_cleanup"
  /\ UNCHANGED <<tableVars, turnVars, phaseIndex, combatVars, priorityVars,
                 yields, raised>>

\* A cleanup step in which there was priority is followed by another one.
StepAfter(step) == IF step = Cleanup THEN Cleanup ELSE step + 1

\* advance_step: end of combat clears the combat, a declare attackers step
\* without attackers skips to end of combat, first strike makes a second
\* damage step.
AdvanceStep ==
  /\ todo = "advance"
  /\ todo' = "enter"
  /\ IF phaseIndex = EndCombat THEN attacked' = FALSE ELSE UNCHANGED attacked
  /\ \/ /\ phaseIndex = DeclareAttackers /\ ~attacked
        /\ phaseIndex' = EndCombat
        /\ UNCHANGED secondStrike
     \/ /\ phaseIndex = CombatDamage /\ ~secondStrike
        /\ secondStrike' = TRUE
        /\ UNCHANGED phaseIndex
     \/ /\ ~(phaseIndex = DeclareAttackers /\ ~attacked)
        /\ phaseIndex' = StepAfter(phaseIndex)
        /\ secondStrike' = (secondStrike /\ phaseIndex # EndCombat)
  /\ UNCHANGED <<tableVars, turnVars, priorityVars, waiting, doomed, yields,
                 decision, raised, events>>

(* Bug: every cleanup step gives priority.                                *)
CleanupReasonsAlways == TRUE

\* What happened in the cleanup step, as far as this model sees it: a loss, or
\* an object or a trigger on the stack.
CleanupReasons == doomed # {} \/ \E s \in Seats : stack'[s] > 0

\* finish_cleanup: when anything happened in the cleanup step (this model does
\* not see other state-based actions and delayed triggers of the step) there
\* is a priority window; otherwise the turn is over.
FinishCleanup ==
  /\ todo = "finish_cleanup"
  /\ \E asked \in inGame \cup {NoSeat} :
       Stabilize(doomed, waiting, stack, asked)
  /\ PriorityAfterLeaving(doomed)
  /\ \/ Stopped /\ todo' = "answer" /\ UNCHANGED events
     \/ ~Stopped /\ CleanupReasons /\ todo' = "grant" /\ UNCHANGED events
     \/ /\ ~Stopped
        /\ events < MaxEvents /\ events' = events + 1
        /\ todo' = "grant"
     \/ ~Stopped /\ ~CleanupReasons /\ todo' = "begin_turn" /\ UNCHANGED events
  /\ UNCHANGED <<turnVars, phaseIndex, combatVars, yields, raised>>

-----------------------------------------------------------------------------
(* Turns.                                                                  *)

(* Bug: yields outlast the turn.                                          *)
BeginTurnYielding(player) ==
  /\ activePlayer' = player
  /\ attacked' = FALSE
  /\ secondStrike' = FALSE
  /\ phaseIndex' = Untap
  /\ priorityPlayer' = NoSeat
  /\ priorityPasses' = {}
  /\ todo' = "enter"
  /\ UNCHANGED <<inGame, gameOver, stack, waiting, doomed, yields, decision,
                 raised, events>>

\* begin_turn: the player's yield, the combat and the priority are reset.
BeginTurnOf(player) ==
  /\ activePlayer' = player
  /\ yields' = yields \ {player}
  /\ attacked' = FALSE
  /\ secondStrike' = FALSE
  /\ phaseIndex' = Untap
  /\ priorityPlayer' = NoSeat
  /\ priorityPasses' = {}
  /\ todo' = "enter"
  /\ UNCHANGED <<inGame, gameOver, stack, waiting, doomed, decision, raised,
                 events>>

(* Bug: an extra turn moves the table on.                                 *)
BeginExtraAsNormal ==
  /\ todo = "begin_turn"
  /\ \E turn \in extraTurns :
       /\ \A other \in extraTurns : other.ref <= turn.ref
       /\ extraTurns' = extraTurns \ {turn}
       /\ BeginTurnOf(turn.player)
       /\ lastNormal' = turn.player

\* select_next_turn pops extra turns, the newest first, until one is of a seat
\* of the game ...
BeginExtraTurn ==
  /\ todo = "begin_turn"
  /\ \E turn \in extraTurns :
       /\ turn.player \in inGame
       /\ \A other \in extraTurns :
            other.ref > turn.ref => other.player \notin inGame
       /\ extraTurns' = {other \in extraTurns : other.ref < turn.ref}
       /\ BeginTurnOf(turn.player)
  /\ UNCHANGED lastNormal

\* ... and without one takes the seat after the last normal turn's.
BeginNormalTurn ==
  /\ todo = "begin_turn"
  /\ \A turn \in extraTurns : turn.player \notin inGame
  /\ extraTurns' = {}
  /\ \E player \in inGame :
       /\ IsNextAfter(player, lastNormal, inGame)
       /\ lastNormal' = player
       /\ BeginTurnOf(player)

-----------------------------------------------------------------------------
(* The game has ended, or the engine has failed and the game is stopped.   *)
Finished ==
  /\ todo = "answer"
  /\ gameOver \/ raised # "none"
  /\ UNCHANGED vars

Answer ==
  \E seat \in Seats :
    \/ AnswerPass(seat)
    \/ AnswerSpecialAction(seat)
    \/ AnswerCast(seat)
    \/ AnswerMana(seat)
    \/ AnswerConcede(seat)
    \/ AnswerOrder(seat)
    \/ AnswerDraw(seat)
    \/ AnswerAttackers(seat)
    \/ AnswerCombat(seat)
    \/ AnswerDiscard(seat)

Engine ==
  \/ GrantPriority
  \/ PumpPass
  \/ PumpAsk
  \/ ResolveStackObject
  \/ EnterUntap
  \/ EnterPriorityStep
  \/ EnterDraw
  \/ RefuseDraw
  \/ EnterDeclareAttackers
  \/ EnterCombatStep
  \/ EnterCleanup
  \/ AdvanceStep
  \/ FinishCleanup
  \/ BeginExtraTurn
  \/ BeginNormalTurn

Next == Answer \/ Engine \/ Finished

Spec == Init /\ [][Next]_vars

\* The engine's calls run to the end; FairSpec adds that seats answer, which
\* no clock of the engine enforces.
EngineSpec == Spec /\ WF_vars(Engine)
FairSpec == EngineSpec /\ WF_vars(Answer)

-----------------------------------------------------------------------------
(* Properties.                                                             *)

\* Every variable keeps to its set.
TypeOK ==
  /\ inGame \in SUBSET Seats
  /\ gameOver \in BOOLEAN
  /\ activePlayer \in Seats
  /\ lastNormal \in Seats
  /\ extraTurns \in SUBSET ExtraTurn
  /\ phaseIndex \in Steps
  /\ attacked \in BOOLEAN
  /\ secondStrike \in BOOLEAN
  /\ stack \in [Seats -> Nat]
  /\ waiting \in SUBSET Seats
  /\ doomed \in SUBSET Seats
  /\ priorityPlayer \in Seats \cup {NoSeat}
  /\ priorityPasses \in SUBSET Seats
  /\ yields \in SUBSET Seats
  /\ decision \in Decisions
  /\ todo \in Calls
  /\ raised \in Failures
  /\ events \in 0..MaxEvents

\* Nothing is left of a seat that has left the game: none of its objects on
\* the stack, none of its triggers waiting, none of its passes in a round, no
\* turn it is still to take, and in a game that goes on it does not hold the
\* priority, unless _assert_invariants has just refused that.
DepartedIsGone ==
  /\ waiting \subseteq inGame
  /\ \A turn \in extraTurns : turn.player \in inGame
  /\ \A seat \in Seats \ inGame : stack[seat] = 0
  /\ todo = "answer" /\ ~AutoPass /\ raised # "departed_priority" =>
       /\ priorityPasses \subseteq inGame
       /\ priorityPlayer \in inGame \cup {NoSeat}

\* The game never hangs: when the engine waits, the game is over, the engine
\* has failed, or the seat it waits for is one that can still answer.
SomebodyIsAsked ==
  todo = "answer" => gameOver \/ raised # "none" \/ decision.actor \in inGame

\* The game is over exactly when at most one seat is left, also when the last
\* seats lose together.
LastStanding == gameOver <=> Cardinality(inGame) <= 1

\* A turn ends with nothing left to do: no object on the stack, no trigger
\* waiting to be put there, no loss still to be noticed.
TurnEndsQuiet ==
  todo = "begin_turn" => StackEmpty /\ waiting = {} /\ doomed = {}

\* Normal turns go round the table: extra turns, departed players and skipped
\* steps never change whose normal turn comes next.
NormalTurnsRotate ==
  [][/\ lastNormal' # lastNormal =>
          IsNextAfter(lastNormal', lastNormal, inGame) /\ extraTurns = {}
     /\ phaseIndex' < phaseIndex =>
          \/ lastNormal' = activePlayer' /\ extraTurns' = extraTurns
          \/ \E turn \in extraTurns :
               turn.player = activePlayer' /\ lastNormal' = lastNormal]_vars

\* A priority round has no seat twice (turn_priority_owner.py raises "A
\* priority round contains duplicate seats").
NoDuplicatePass == raised # "duplicate_pass"

\* The turn of a player who has left goes on (turn_step_owner.py, enter_step:
\* "CR 800.4j leaves the current turn in progress when its active player
\* leaves a multiplayer game").
DepartedTurnGoesOn == raised # "departed_draw"

\* The engine stops: the calls one answer causes come to an end, because a
\* yield is forgotten when its seat's turn begins.
EngineStops == todo # "answer" ~> todo = "answer"

\* Every seat of the game comes to its turn again.
EverySeatHasItsTurn ==
  \A seat \in Seats :
    []<>(\/ activePlayer = seat \/ seat \notin inGame
         \/ gameOver \/ raised # "none")

=============================================================================
