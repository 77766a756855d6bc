------------------------------ MODULE Drawing ------------------------------
(***************************************************************************)
(* The draw instructions of a resolving object (quorune/drawing): an       *)
(* instruction is a number of individual draws, each of which may be       *)
(* prohibited, replaced or made, with the player's choice where there is   *)
(* one.  A replacement can put new draws before the rest of the            *)
(* instruction, and each choice stores what is still to be drawn.          *)
(*                                                                         *)
(* What is on the battlefield is given by constants, for nothing enters or *)
(* leaves it before the instructions are done.  The order of a library is  *)
(* left open until a card is looked at.                                    *)
(***************************************************************************)
EXTENDS Integers, Sequences, FiniteSets

CONSTANTS
  Players,
  Cards,
  Owner,      \* the owner of each card
  Mill,       \* how many cards are milled for each card with dredge
  Doublers,   \* for each player its effects "draw two cards instead"
  Limit,      \* the players that are limited: how many cards in a turn
  Reveals,    \* for each player its effects "you may reveal the first card"
  Start,      \* the zone of each card
  Programs,   \* the instructions that the resolving object may have
  NoCard

Dredgers == DOMAIN Mill
Zones == {"library", "hand", "graveyard"}
Instruction == [player : Players, count : Nat]

ASSUME DrawingAssumption ==
  /\ Players # {}
  /\ IsFiniteSet(Cards) /\ NoCard \notin Cards
  /\ Owner \in [Cards -> Players]
  /\ Dredgers \subseteq Cards /\ \A c \in Dredgers : Mill[c] \in Nat \ {0}
  /\ DOMAIN Doublers = Players
  /\ \A p \in Players : IsFiniteSet(Doublers[p]) /\ Doublers[p] \cap Cards = {}
  /\ DOMAIN Limit \subseteq Players /\ \A p \in DOMAIN Limit : Limit[p] \in Nat
  /\ Reveals \in [Players -> Nat]
  /\ Start \in [Cards -> Zones]
  /\ Programs \subseteq Seq(Instruction)

VARIABLES
  zone,       \* where each card is
  drawn,      \* how many cards each player has drawn this turn
  attempted,  \* the players that had to draw from an empty library
  current,    \* the instruction that is being carried out
  queue,      \* the draws that wait for its end
  effects,    \* the instructions the resolution continues with
  decision    \* the choice that is pending

vars == <<zone, drawn, attempted, current, queue, effects, decision>>

EffectIds == UNION {Doublers[p] : p \in Players}
QueuedDraw == [player : Players, count : Nat, excluded : SUBSET EffectIds]

Plain(instruction) ==
  [player |-> instruction.player, count |-> instruction.count, excluded |-> {}]

NoDecision == [kind |-> "none", card |-> NoCard, asked |-> 0]

Init ==
  /\ zone = Start
  /\ drawn = [p \in Players |-> 0]
  /\ attempted = {}
  /\ current = Plain([player |-> CHOOSE p \in Players : TRUE, count |-> 0])
  /\ queue = <<>>
  /\ effects \in Programs
  /\ decision = NoDecision

In(p, where) == {c \in Cards : Owner[c] = p /\ zone[c] = where}
Library(p) == In(p, "library")

(***************************************************************************)
(* What can happen to the next draw.                                       *)
(***************************************************************************)
Permitted(p) == p \in DOMAIN Limit => drawn[p] < Limit[p]

Dredge(p) ==
  {c \in Dredgers \cap In(p, "graveyard") :
     Cardinality(Library(p)) >= Mill[c]}

\* The effects that can replace the draw, without those it results from.
Options ==
  (Doublers[current.player] \ current.excluded) \cup Dredge(current.player)

\* One mandatory effect is applied, with a real choice the player is asked.
Forced == \E d \in Doublers[current.player] : Options = {d}

\* Only if every option is optional may the player draw instead.
MayDecline == Options \subseteq Dredgers

Running == decision = NoDecision
DrawsLeft == Running /\ current.count > 0

(***************************************************************************)
(* What does happen.                                                       *)
(***************************************************************************)
Settle ==
  /\ current' = [current EXCEPT !.count = @ - 1]
  /\ UNCHANGED <<queue, effects>>

Commit(card) ==
  /\ zone' = [zone EXCEPT ![card] = "hand"]
  /\ drawn' = [drawn EXCEPT ![current.player] = @ + 1]
  /\ decision' = NoDecision
  /\ Settle
  /\ UNCHANGED attempted

DrawFromEmpty ==
  /\ Library(current.player) = {}
  /\ attempted' = attempted \cup {current.player}
  /\ decision' = NoDecision
  /\ Settle
  /\ UNCHANGED <<zone, drawn>>

\* The first card of a turn may be revealed as it is drawn.
OfferReveal(card) ==
  /\ drawn[current.player] = 0
  /\ Reveals[current.player] > 0
  /\ decision' = [kind |-> "draw.reveal", card |-> card, asked |-> 1]
  /\ UNCHANGED <<zone, drawn, attempted, current, queue, effects>>

DrawOrdinarily ==
  \/ DrawFromEmpty
  \/ \E card \in Library(current.player) :
       \/ OfferReveal(card)
       \/ /\ drawn[current.player] > 0 \/ Reveals[current.player] = 0
          /\ Commit(card)

(* Bug: the new draws wait for the rest of the instruction.              *)
DoubleLater(effect) ==
  LET results == [current EXCEPT !.count = 2, !.excluded = @ \cup {effect}]
  IN /\ current' = [current EXCEPT !.count = @ - 1]
     /\ queue' = <<results>> \o queue
     /\ decision' = NoDecision
     /\ UNCHANGED <<zone, drawn, attempted, effects>>

(* Bug: the rest of the instruction is forgotten.                        *)
DoubleOnly(effect) ==
  /\ current' = [current EXCEPT !.count = 2, !.excluded = @ \cup {effect}]
  /\ decision' = NoDecision
  /\ UNCHANGED <<zone, drawn, attempted, queue, effects>>

\* The new draws come before the rest of the instruction, and the effect
\* does not apply to them.
Double(effect) ==
  /\ current' = [current EXCEPT !.count = 2, !.excluded = @ \cup {effect}]
  /\ queue' = IF current.count = 1 THEN queue
              ELSE <<[current EXCEPT !.count = @ - 1]>> \o queue
  /\ decision' = NoDecision
  /\ UNCHANGED <<zone, drawn, attempted, effects>>

\* The card returns, the milled cards take its place; nothing was drawn.
MillAndReturn(card) ==
  /\ \E milled \in SUBSET Library(current.player) :
       /\ Cardinality(milled) = Mill[card]
       /\ zone' = [c \in Cards |->
                     IF c = card THEN "hand"
                     ELSE IF c \in milled THEN "graveyard"
                     ELSE zone[c]]
  /\ decision' = NoDecision
  /\ Settle
  /\ UNCHANGED <<drawn, attempted>>

(***************************************************************************)
(* The loop of _continue_draw_sequence.                                    *)
(***************************************************************************)
Prohibited ==
  /\ DrawsLeft /\ ~Permitted(current.player)
  /\ Settle
  /\ UNCHANGED <<zone, drawn, attempted, decision>>

ReplaceAutomatically ==
  /\ DrawsLeft /\ Permitted(current.player)
  /\ \E effect \in Doublers[current.player] :
       Options = {effect} /\ Double(effect)

AskForReplacement ==
  /\ DrawsLeft /\ Permitted(current.player)
  /\ Options # {} /\ ~Forced
  /\ decision' = [NoDecision EXCEPT !.kind = "draw.replacement"]
  /\ UNCHANGED <<zone, drawn, attempted, current, queue, effects>>

DrawUnreplaced ==
  /\ DrawsLeft /\ Permitted(current.player)
  /\ Options = {}
  /\ DrawOrdinarily

(* Bug: the draws stay in the queue.                                     *)
NextQueuedKept ==
  /\ Running /\ current.count = 0 /\ queue # <<>>
  /\ current' = Head(queue)
  /\ UNCHANGED <<zone, drawn, attempted, queue, effects, decision>>

NextQueued ==
  /\ Running /\ current.count = 0 /\ queue # <<>>
  /\ current' = Head(queue)
  /\ queue' = Tail(queue)
  /\ UNCHANGED <<zone, drawn, attempted, effects, decision>>

\* resume_after_draw: the resolution goes on with its next instruction.
NextInstruction ==
  /\ Running /\ current.count = 0 /\ queue = <<>> /\ effects # <<>>
  /\ current' = Plain(Head(effects))
  /\ effects' = Tail(effects)
  /\ UNCHANGED <<zone, drawn, attempted, queue, decision>>

(***************************************************************************)
(* The answers.                                                            *)
(***************************************************************************)
ChooseReplacement ==
  /\ decision.kind = "draw.replacement"
  /\ \E option \in Options :
       \/ option \notin Dredgers /\ Double(option)
       \/ option \in Dredgers /\ MillAndReturn(option)

(* Bug: the card is drawn without the question whether to reveal it.     *)
ChooseDrawAtOnce ==
  /\ decision.kind = "draw.replacement"
  /\ MayDecline
  /\ DrawFromEmpty \/ \E card \in Library(current.player) : Commit(card)

ChooseDraw ==
  /\ decision.kind = "draw.replacement"
  /\ MayDecline
  /\ DrawOrdinarily

\* Revealed or not, the card is drawn after the last question.
AnswerReveal ==
  /\ decision.kind = "draw.reveal"
  /\ \/ /\ decision.asked < Reveals[current.player]
        /\ decision' = [decision EXCEPT !.asked = @ + 1]
        /\ UNCHANGED <<zone, drawn, attempted, current, queue, effects>>
     \/ /\ decision.asked = Reveals[current.player]
        /\ Commit(decision.card)

Done ==
  Running /\ current.count = 0 /\ queue = <<>> /\ effects = <<>>

Finished == Done /\ UNCHANGED vars

Engine ==
  \/ Prohibited
  \/ ReplaceAutomatically
  \/ AskForReplacement
  \/ DrawUnreplaced
  \/ NextQueued
  \/ NextInstruction

Answer == ChooseReplacement \/ ChooseDraw \/ AnswerReveal

Next == Engine \/ Answer \/ Finished

Spec == Init /\ [][Next]_vars

\* The loop runs to its end, and players answer.
FairSpec == Spec /\ WF_vars(Engine) /\ WF_vars(Answer)

-----------------------------------------------------------------------------
(* Properties.                                                             *)

\* Every variable keeps to its set.
TypeOK ==
  /\ zone \in [Cards -> Zones]
  /\ drawn \in [Players -> Nat]
  /\ attempted \subseteq Players
  /\ current \in QueuedDraw
  /\ queue \in Seq(QueuedDraw)
  /\ effects \in Seq(Instruction)
  /\ decision \in [kind : {"none", "draw.replacement", "draw.reveal"},
                   card : Cards \cup {NoCard}, asked : Nat]

\* Nobody draws more cards in a turn than the effects on the battlefield
\* allow, however many draws are replaced by more draws, and although the
\* permission is looked up before the choices and not after them.
LimitHolds == \A p \in DOMAIN Limit : drawn[p] <= Limit[p]

Before(first, later) ==
  /\ later.player = first.player
  /\ later.excluded \subseteq first.excluded
  /\ later.excluded # first.excluded

\* The draws that a replacement results in come before the rest of what it
\* interrupted: whatever waits belongs to the same player and results from
\* fewer replacements than what comes before it (drawing.md: "result draws
\* finish before the unreplaced remainder of the original instruction").
ResultDrawsFirst ==
  /\ \A i \in DOMAIN queue : Before(current, queue[i])
  /\ \A i, j \in DOMAIN queue : i < j => Before(queue[i], queue[j])

\* A card is drawn only when every doubling effect of its player has been
\* applied on the way to this draw: a mandatory effect cannot be declined.
DoublersApply ==
  [][\A p \in Players :
       drawn'[p] # drawn[p] =>
         p = current.player /\ Doublers[p] \subseteq current.excluded]_vars

\* Whoever may reveal the first card of the turn is asked before it is
\* drawn, also when the draw comes out of another choice, and keeps the card
\* it was shown.
FirstDrawIsOffered ==
  [][\A p \in Players :
       drawn[p] = 0 /\ drawn'[p] > 0 /\ Reveals[p] > 0 =>
         /\ decision.kind = "draw.reveal"
         /\ zone[decision.card] = "library" /\ zone'[decision.card] = "hand"
         /\ Owner[decision.card] = p]_vars

\* The cards a player would get for some draws, if it lets every doubling
\* effect apply to each of them: every draw for every set of those effects,
\* the ones whose second draw led to the card.
Shares(draw) ==
  (1 .. draw.count) \X SUBSET (Doublers[draw.player] \ draw.excluded)

Plans == <<current>> \o queue \o [i \in DOMAIN effects |-> Plain(effects[i])]

Tickets(plans, p) ==
  UNION {{i} \X Shares(plans[i]) :
           i \in {j \in DOMAIN plans : plans[j].player = p}}

Owed(p) == Cardinality(Tickets(Plans, p))

\* No draw is lost or made twice, whatever choices and replacements interrupt
\* the instructions: what a player is owed only becomes less by the worth of
\* the one draw that is being carried out, and then that draw was prohibited,
\* met an empty library, or brought one card to the hand.
EveryDrawCounts ==
  [][\A p \in Players :
       Owed(p)' # Owed(p) =>
         /\ p = current.player
         /\ Owed(p) - Owed(p)' =
              Cardinality(Shares([current EXCEPT !.count = 1]))
         /\ \/ ~Permitted(p)
            \/ Library(p) = {} /\ p \in attempted'
            \/ Cardinality(In(p, "hand"))' = Cardinality(In(p, "hand")) + 1]_vars

\* If the players answer, the resolution comes to its end: replacements do
\* not lead to new replacements for ever.
InstructionsEnd == <>Done
=============================================================================
