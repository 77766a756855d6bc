------------------------- MODULE TurnPriorityProofs -------------------------
(***************************************************************************)
(* The safety properties of TurnPriority hold for every number of seats,   *)
(* in every configuration.  The inductive invariant says, beside them,     *)
(* which call of the engine may find which state: no trigger waits and     *)
(* nobody is about to lose while a seat has priority, no decision is       *)
(* pending while the engine runs, and the holder of the priority is in the *)
(* game except between an action and the question that follows it.  The    *)
(* last part is about PriorityRounds: no seat is skipped in a round.       *)
(***************************************************************************)
EXTENDS PriorityRounds, FiniteSetTheorems, FunctionTheorems, TLAPS

Table ==
  /\ \A turn \in extraTurns : turn.player \in inGame
  /\ \A seat \in Seats \ inGame : stack[seat] = 0
  /\ waiting \subseteq inGame
  /\ doomed \subseteq inGame

Control ==
  /\ todo # "answer" => decision = NoDecision /\ ~gameOver /\ raised = "none"
  /\ todo = "answer" => gameOver \/ raised # "none" \/ decision # NoDecision
  /\ decision # NoDecision => ~gameOver
  /\ decision # NoDecision /\ raised = "none" => decision.actor \in inGame

Window ==
  /\ todo = "pump" \/ decision.kind = "priority" => waiting = {} /\ doomed = {}
  /\ decision.kind = "priority" =>
       decision.actor = priorityPlayer /\ priorityPlayer \notin yields
  /\ todo = "pump" =>
       /\ priorityPlayer \in Seats
       /\ priorityPlayer \in inGame \/ priorityPlayer \notin yields

Holder ==
  ~AutoPass =>
    /\ priorityPasses \subseteq inGame
    /\ \/ todo = "pump" \/ raised = "departed_priority"
       \/ priorityPlayer \in inGame \cup {NoSeat}

IInv == TypeOK /\ Table /\ Control /\ Window /\ Holder /\ LastStanding
          /\ TurnEndsQuiet

-----------------------------------------------------------------------------
(* Lemmas about sets of seats and about what cards do.                     *)

(* There are N seats.                                                      *)
LEMMA SeatCount == IsFiniteSet(Seats) /\ Cardinality(Seats) = N
  BY SeatsAssumption, FS_Interval DEF Seats

(* A set of seats is finite.                                               *)
LEMMA SeatsFinite ==
  ASSUME NEW S \in SUBSET Seats
  PROVE  IsFiniteSet(S) /\ Cardinality(S) \in Nat
  BY SeatCount, FS_Subset, FS_CardinalityType

(* What happens uses up events, never more than the bound.                 *)
LEMMA HappenCounts ==
  ASSUME TypeOK, NEW losing, NEW triggering, NEW extra \in Nat,
         Happen(losing, triggering, extra)
  PROVE  /\ losing \in SUBSET inGame /\ triggering \in SUBSET inGame
         /\ events' \in 0..MaxEvents
         /\ events + extra <= events'
  <1>1. losing \in SUBSET Seats /\ triggering \in SUBSET Seats
    BY DEF Happen, TypeOK
  <1>2. Cardinality(losing) \in Nat /\ Cardinality(triggering) \in Nat
    BY <1>1, SeatsFinite
  <1>3. events' = events + Cardinality(losing) + Cardinality(triggering) + extra
        /\ events' <= MaxEvents
    BY DEF Happen
  <1> QED
    BY <1>1, <1>2, <1>3, BoundsAssumption DEF Happen, TypeOK

LEMMA HappenLaterCounts ==
  ASSUME TypeOK, Table, NEW extra \in Nat, HappenLater(extra)
  PROVE  /\ doomed' \in SUBSET inGame /\ waiting' \in SUBSET inGame
         /\ events' \in 0..MaxEvents
         /\ events + extra <= events'
  <1>1. PICK losing \in SUBSET inGame, triggering \in SUBSET inGame :
          /\ Happen(losing, triggering, extra)
          /\ doomed' = doomed \cup losing
          /\ waiting' = waiting \cup triggering
    BY DEF HappenLater
  <1> QED
    BY <1>1, HappenCounts DEF Table

(* A departure that ends the game is noticed, and only such a departure.   *)
LEMMA LeaveFacts ==
  ASSUME TypeOK, Table, LastStanding, ~gameOver,
         NEW losers \in SUBSET inGame, Leave(losers)
  PROVE  /\ inGame' \in SUBSET inGame
         /\ gameOver' \in BOOLEAN
         /\ LastStanding'
         /\ extraTurns' \in SUBSET extraTurns
         /\ \A turn \in extraTurns' : turn.player \in inGame'
  <1>1. /\ inGame' = inGame \ losers
        /\ gameOver' = (losers # {} /\ Cardinality(inGame \ losers) <= 1)
        /\ extraTurns' = {t \in extraTurns : t.player \notin losers}
    BY DEF Leave
  <1>2. LastStanding'
    <2>1. CASE losers = {}
      BY <1>1, <2>1 DEF LastStanding
    <2>2. CASE losers # {}
      BY <1>1, <2>2 DEF LastStanding
    <2> QED
      BY <2>1, <2>2
  <1> QED
    BY <1>1, <1>2 DEF Table

(* Putting groups on the stack keeps the stack typed, adds objects only of *)
(* the groups' controllers, and leaves nothing waiting if nobody is asked. *)
LEMMA PlaceFacts ==
  ASSUME NEW asked, NEW groups, NEW present \in SUBSET Seats,
         groups \subseteq present,
         NEW objects \in [Seats -> Nat],
         \A seat \in Seats \ present : objects[seat] = 0,
         PlaceGroups(asked, groups, present, objects)
  PROVE  /\ stack' \in [Seats -> Nat]
         /\ \A seat \in Seats \ present : stack'[seat] = 0
         /\ waiting' \in SUBSET present
         /\ asked \in present \cup {NoSeat}
         /\ asked = NoSeat => waiting' = {}
  BY DEF PlaceGroups, PlacedBefore

LEMMA OrderFacts ==
  ASSUME NEW asked \in Seats \cup {NoSeat}
  PROVE  /\ OrderDecision(asked) \in Decisions
         /\ OrderDecision(asked) = NoDecision <=> asked = NoSeat
         /\ OrderDecision(asked).kind # "priority"
         /\ asked # NoSeat => OrderDecision(asked).actor = asked
  BY DEF OrderDecision, NoDecision, Decisions, DecisionKinds

(* What _stabilize leaves behind, from any state of the table.             *)
LEMMA StabilizeFacts ==
  ASSUME TypeOK, Table, LastStanding, ~gameOver,
         NEW losers \in SUBSET inGame, NEW groups \in SUBSET inGame,
         NEW objects \in [Seats -> Nat],
         \A seat \in Seats \ inGame : objects[seat] = 0,
         NEW asked \in inGame \cup {NoSeat},
         Stabilize(losers, groups, objects, asked)
  PROVE  /\ inGame' \in SUBSET inGame
         /\ gameOver' \in BOOLEAN
         /\ LastStanding'
         /\ extraTurns' \in SUBSET extraTurns
         /\ stack' \in [Seats -> Nat]
         /\ Table'
         /\ doomed' = {}
         /\ decision' \in Decisions
         /\ decision'.kind # "priority"
         /\ decision' # NoDecision => ~gameOver' /\ decision'.actor \in inGame'
         /\ ~Stopped => waiting' = {}
  <1>1. Leave(losers) /\ doomed' = {} /\ decision' = OrderDecision(asked)
    BY DEF Stabilize
  <1>2. /\ inGame' \in SUBSET inGame /\ inGame' = inGame \ losers
        /\ gameOver' \in BOOLEAN
        /\ LastStanding'
        /\ extraTurns' \in SUBSET extraTurns
        /\ \A turn \in extraTurns' : turn.player \in inGame'
    BY <1>1, LeaveFacts DEF Leave
  <1>3. /\ WithoutObjectsOf(losers, objects) \in [Seats -> Nat]
        /\ \A seat \in Seats \ inGame' :
             WithoutObjectsOf(losers, objects)[seat] = 0
    BY <1>2 DEF WithoutObjectsOf
  <1>4. inGame \subseteq Seats /\ inGame' \subseteq Seats
    BY <1>2 DEF TypeOK
  <1>5. /\ stack' \in [Seats -> Nat]
        /\ \A seat \in Seats \ inGame' : stack'[seat] = 0
        /\ waiting' \in SUBSET inGame'
        /\ asked \in inGame' \cup {NoSeat}
        /\ gameOver' => asked = NoSeat
        /\ ~gameOver' /\ asked = NoSeat => waiting' = {}
    <2>1. CASE gameOver'
      BY <1>2, <1>3, <2>1 DEF Stabilize
    <2>2. CASE ~gameOver'
      <3>1. PlaceGroups(asked, groups \ losers, inGame',
                        WithoutObjectsOf(losers, objects))
        BY <2>2 DEF Stabilize
      <3>2. groups \ losers \subseteq inGame'
        BY <1>2
      <3> QED
        BY <1>3, <1>4, <2>2, <3>1, <3>2, PlaceFacts
    <2> QED
      BY <2>1, <2>2
  <1>6. asked \in Seats \cup {NoSeat}
    BY <1>4
  <1> QED
    BY <1>1, <1>2, <1>5, <1>6, OrderFacts DEF Table, Stopped

(* Where priority is after players have left.                              *)
LEMMA LeavingFacts ==
  ASSUME TypeOK, Holder, NEW losers \in SUBSET inGame,
         inGame' = inGame \ losers, PriorityAfterLeaving(losers)
  PROVE  /\ priorityPasses' \in SUBSET Seats
         /\ priorityPlayer' \in Seats \cup {NoSeat}
         /\ ~AutoPass => priorityPasses' \subseteq inGame'
         /\ priorityPlayer \in inGame \cup {NoSeat} =>
              priorityPlayer' \in inGame' \cup {NoSeat}
  BY DEF PriorityAfterLeaving, IsNextAfter, TypeOK, Holder

(* Where priority is after a pass, and what the engine does next.          *)
LEMMA PassFacts ==
  ASSUME TypeOK, Holder, NEW seat \in Seats, seat \in inGame \/ AutoPass,
         priorityPlayer = seat, PassPriority(seat)
  PROVE  /\ priorityPasses' \in SUBSET Seats
         /\ priorityPlayer' \in Seats \cup {NoSeat}
         /\ todo' \in {"answer", "advance", "resolve", "pump"}
         /\ todo' = "answer" => raised' = "duplicate_pass"
         /\ todo' # "answer" => raised' = raised
         /\ todo' = "pump" => priorityPlayer' \in inGame
         /\ ~AutoPass => /\ priorityPasses' \subseteq inGame
                         /\ priorityPlayer' \in inGame \cup {NoSeat}
  BY DEF PassPriority, IsNextAfter, TypeOK, Holder, priorityVars

-----------------------------------------------------------------------------
(* The inductive invariant.                                                *)

LEMMA InitInv == Init => IInv
  <1> SUFFICES ASSUME Init PROVE IInv
    OBVIOUS
  <1>1. LastStanding
    BY SeatCount, SeatsAssumption DEF Init, LastStanding
  <1>2. TypeOK
    <2>1. stack \in [Seats -> Nat]
      BY DEF Init
    <2>2. decision \in Decisions
      BY DEF Init, Decisions
    <2>3. activePlayer \in Seats /\ lastNormal \in Seats
      BY SeatsAssumption DEF Init, Seats
    <2>4. events \in 0..MaxEvents /\ phaseIndex \in Steps
      BY BoundsAssumption DEF Init, Steps, Untap
    <2> QED
      BY <2>1, <2>2, <2>3, <2>4 DEF Init, TypeOK, Calls, Failures
  <1> QED
    BY <1>1, <1>2
    DEF Init, IInv, Table, Control, Window, Holder, TurnEndsQuiet, NoDecision

(* The calls of the engine that stabilize the table.                       *)
LEMMA GrantInv ==
  ASSUME IInv, GrantPriority
  PROVE  IInv'
  <1>1. PICK asked \in inGame \cup {NoSeat} :
          Stabilize(doomed, waiting, stack, asked)
    BY DEF GrantPriority
  <1>2. ~gameOver /\ decision = NoDecision /\ raised = "none"
    BY DEF GrantPriority, IInv, Control
  <1>3. /\ inGame' \in SUBSET inGame
        /\ gameOver' \in BOOLEAN
        /\ LastStanding'
        /\ extraTurns' \in SUBSET extraTurns
        /\ stack' \in [Seats -> Nat]
        /\ Table'
        /\ doomed' = {}
        /\ decision' \in Decisions
        /\ decision'.kind # "priority"
        /\ decision' # NoDecision => ~gameOver' /\ decision'.actor \in inGame'
        /\ ~Stopped => waiting' = {}
    BY <1>1, <1>2, StabilizeFacts DEF IInv, TypeOK, Table
  <1>4. inGame' = inGame \ doomed
    BY <1>1 DEF Stabilize, Leave
  <1>5. CASE Stopped /\ todo' = "answer" /\ PriorityAfterLeaving(doomed)
    <2>1. /\ priorityPasses' \in SUBSET Seats
          /\ priorityPlayer' \in Seats \cup {NoSeat}
          /\ ~AutoPass => priorityPasses' \subseteq inGame'
          /\ priorityPlayer \in inGame \cup {NoSeat} =>
               priorityPlayer' \in inGame' \cup {NoSeat}
      BY <1>4, <1>5, LeavingFacts DEF IInv, Table
    <2>2. TypeOK'
      BY <1>3, <1>5, <2>1
      DEF GrantPriority, IInv, TypeOK, Table, turnVars, combatVars, Calls
    <2> QED
      BY <1>2, <1>3, <1>5, <2>1, <2>2
      DEF GrantPriority, IInv, Control, Window, Holder, Stopped,
          TurnEndsQuiet, turnVars, combatVars
  <1>6. CASE /\ ~Stopped /\ todo' = "pump" /\ priorityPasses' = {}
             /\ priorityPlayer' \in inGame'
    <2>1. TypeOK'
      BY <1>3, <1>6
      DEF GrantPriority, IInv, TypeOK, Table, turnVars, combatVars, Calls
    <2> QED
      BY <1>2, <1>3, <1>6, <2>1
      DEF GrantPriority, IInv, TypeOK, Control, Window, Holder, Stopped,
          TurnEndsQuiet, turnVars, combatVars
  <1> QED
    BY <1>5, <1>6 DEF GrantPriority, IsNextAfter

LEMMA FinishCleanupInv ==
  ASSUME IInv, FinishCleanup
  PROVE  IInv'
  <1>1. PICK asked \in inGame \cup {NoSeat} :
          Stabilize(doomed, waiting, stack, asked)
    BY DEF FinishCleanup
  <1>2. ~gameOver /\ decision = NoDecision /\ raised = "none"
    BY DEF FinishCleanup, IInv, Control
  <1>3. /\ inGame' \in SUBSET inGame
        /\ gameOver' \in BOOLEAN
        /\ LastStanding'
        /\ extraTurns' \in SUBSET extraTurns
        /\ stack' \in [Seats -> Nat]
        /\ Table'
        /\ doomed' = {}
        /\ decision' \in Decisions
        /\ decision'.kind # "priority"
        /\ decision' # NoDecision => ~gameOver' /\ decision'.actor \in inGame'
        /\ ~Stopped => waiting' = {}
    BY <1>1, <1>2, StabilizeFacts DEF IInv, TypeOK, Table
  <1>4. inGame' = inGame \ doomed
    BY <1>1 DEF Stabilize, Leave
  <1>5. /\ priorityPasses' \in SUBSET Seats
        /\ priorityPlayer' \in Seats \cup {NoSeat}
        /\ ~AutoPass => priorityPasses' \subseteq inGame'
        /\ priorityPlayer \in inGame \cup {NoSeat} =>
             priorityPlayer' \in inGame' \cup {NoSeat}
    BY <1>4, LeavingFacts DEF FinishCleanup, IInv, Table
  <1>6. \/ Stopped /\ todo' = "answer"
        \/ ~Stopped /\ todo' = "grant"
        \/ ~Stopped /\ todo' = "begin_turn" /\ \A s \in Seats : stack'[s] = 0
    <2>1. ~CleanupReasons => \A s \in Seats : stack'[s] = 0
      BY <1>3 DEF CleanupReasons
    <2> QED
      BY <2>1 DEF FinishCleanup, Stopped
  <1>7. events' \in 0..MaxEvents
    BY BoundsAssumption DEF FinishCleanup, IInv, TypeOK
  <1>8. TypeOK'
    BY <1>3, <1>5, <1>6, <1>7
    DEF FinishCleanup, IInv, TypeOK, Table, turnVars, combatVars, Calls
  <1> QED
    BY <1>2, <1>3, <1>5, <1>6, <1>8
    DEF FinishCleanup, IInv, Control, Window, Holder, Stopped,
        TurnEndsQuiet, StackEmpty, turnVars, combatVars

(* A seat that is asked is in a game that goes on.                         *)
LEMMA AskedFacts ==
  ASSUME IInv, NEW kind \in DecisionKinds, NEW seat \in Seats,
         Asked(kind, seat)
  PROVE  /\ seat \in inGame /\ ~gameOver /\ raised = "none"
         /\ todo = "answer"
         /\ decision.kind = kind /\ decision.actor = seat
         /\ kind = "priority" => /\ priorityPlayer = seat
                                /\ seat \notin yields
                                /\ waiting = {} /\ doomed = {}
  <1>1. decision # NoDecision
    BY DEF Asked, NoDecision, DecisionKinds
  <1> QED
    BY <1>1 DEF Asked, IInv, Control, Window

(* Whatever a seat with priority does that does not end in a pass.         *)
LEMMA ActInv ==
  ASSUME IInv, NEW seat \in Seats, Asked("priority", seat),
         NEW objects \in [Seats -> Nat],
         \A other \in Seats \ inGame : objects[other] = 0,
         NEW losing \in SUBSET inGame, NEW triggering \in SUBSET inGame,
         NEW asked \in inGame \cup {NoSeat},
         Happen(losing, triggering, 1),
         Stabilize(losing, triggering, objects, asked),
         UNCHANGED <<turnVars, phaseIndex, combatVars, yields, raised>>,
         \/ Stopped /\ PriorityAfterLeaving(losing) /\ todo' = "answer"
         \/ /\ Stopped /\ todo' = "answer"
            /\ priorityPlayer' = NoSeat /\ priorityPasses' = {}
         \/ /\ ~Stopped /\ todo' = "pump"
            /\ priorityPlayer' = seat /\ priorityPasses' = {}
  PROVE  IInv'
  <1>1. /\ seat \in inGame /\ ~gameOver /\ raised = "none"
        /\ priorityPlayer = seat /\ seat \notin yields
    BY AskedFacts DEF DecisionKinds
  <1>2. /\ inGame' \in SUBSET inGame
        /\ gameOver' \in BOOLEAN
        /\ LastStanding'
        /\ extraTurns' \in SUBSET extraTurns
        /\ stack' \in [Seats -> Nat]
        /\ Table'
        /\ doomed' = {}
        /\ decision' \in Decisions
        /\ decision'.kind # "priority"
        /\ decision' # NoDecision => ~gameOver' /\ decision'.actor \in inGame'
        /\ ~Stopped => waiting' = {}
    BY <1>1, StabilizeFacts DEF IInv
  <1>3. inGame' = inGame \ losing
    BY DEF Stabilize, Leave
  <1>4. events' \in 0..MaxEvents
    BY HappenCounts DEF IInv
  <1>5. CASE Stopped /\ PriorityAfterLeaving(losing) /\ todo' = "answer"
    <2>1. /\ priorityPasses' \in SUBSET Seats
          /\ priorityPlayer' \in Seats \cup {NoSeat}
          /\ ~AutoPass => priorityPasses' \subseteq inGame'
          /\ priorityPlayer \in inGame \cup {NoSeat} =>
               priorityPlayer' \in inGame' \cup {NoSeat}
      BY <1>3, <1>5, LeavingFacts DEF IInv
    <2>2. TypeOK'
      BY <1>2, <1>4, <1>5, <2>1
      DEF IInv, TypeOK, Table, turnVars, combatVars, Calls
    <2> QED
      BY <1>1, <1>2, <1>5, <2>1, <2>2
      DEF IInv, Control, Window, Holder, Stopped, TurnEndsQuiet
  <1>6. CASE /\ Stopped /\ todo' = "answer"
             /\ priorityPlayer' = NoSeat /\ priorityPasses' = {}
    <2>1. TypeOK'
      BY <1>2, <1>4, <1>6
      DEF IInv, TypeOK, Table, turnVars, combatVars, Calls
    <2> QED
      BY <1>1, <1>2, <1>6, <2>1
      DEF IInv, Control, Window, Holder, Stopped, TurnEndsQuiet
  <1>7. CASE /\ ~Stopped /\ todo' = "pump"
             /\ priorityPlayer' = seat /\ priorityPasses' = {}
    <2>1. TypeOK'
      BY <1>2, <1>4, <1>7
      DEF IInv, TypeOK, Table, turnVars, combatVars, Calls
    <2> QED
      BY <1>1, <1>2, <1>7, <2>1
      DEF IInv, Control, Window, Holder, Stopped, TurnEndsQuiet
  <1> QED
    BY <1>5, <1>6, <1>7

LEMMA CastInv ==
  ASSUME IInv, NEW seat \in Seats, AnswerCast(seat)
  PROVE  IInv'
  <1>1. Asked("priority", seat) /\ Act(seat, [stack EXCEPT ![seat] = @ + 1])
        /\ UNCHANGED <<turnVars, phaseIndex, combatVars, yields, raised>>
    BY DEF AnswerCast
  <1>2. seat \in inGame
    BY <1>1, AskedFacts DEF DecisionKinds
  <1>3. /\ [stack EXCEPT ![seat] = @ + 1] \in [Seats -> Nat]
        /\ \A other \in Seats \ inGame : [stack EXCEPT ![seat] = @ + 1][other] = 0
    BY <1>2 DEF IInv, TypeOK, Table
  <1> QED
    BY <1>1, <1>3, ActInv DEF Act

LEMMA ManaInv ==
  ASSUME IInv, NEW seat \in Seats, AnswerMana(seat)
  PROVE  IInv'
  <1>1. Asked("priority", seat) /\ Act(seat, stack)
        /\ UNCHANGED <<turnVars, phaseIndex, combatVars, yields, raised>>
    BY DEF AnswerMana
  <1>2. /\ stack \in [Seats -> Nat]
        /\ \A other \in Seats \ inGame : stack[other] = 0
    BY DEF IInv, TypeOK, Table
  <1> QED
    BY <1>1, <1>2, ActInv DEF Act

LEMMA SpecialActionInv ==
  ASSUME IInv, NEW seat \in Seats, AnswerSpecialAction(seat)
  PROVE  IInv'
  <1>1. /\ stack \in [Seats -> Nat]
        /\ \A other \in Seats \ inGame : stack[other] = 0
    BY DEF IInv, TypeOK, Table
  <1> QED
    BY <1>1, ActInv DEF AnswerSpecialAction, Happen

LEMMA ConcedeInv ==
  ASSUME IInv, NEW seat \in Seats, AnswerConcede(seat)
  PROVE  IInv'
  <1>1. /\ seat \in inGame /\ ~gameOver /\ raised = "none"
        /\ priorityPlayer = seat
        /\ waiting = {} /\ doomed = {}
    BY AskedFacts DEF AnswerConcede, DecisionKinds
  <1>2. Leave({seat}) /\ inGame' = inGame \ {seat}
    BY DEF AnswerConcede, Leave
  <1>3. /\ inGame' \in SUBSET inGame
        /\ gameOver' \in BOOLEAN
        /\ LastStanding'
        /\ extraTurns' \in SUBSET extraTurns
        /\ \A turn \in extraTurns' : turn.player \in inGame'
    BY <1>1, <1>2, LeaveFacts DEF IInv
  <1>4. /\ stack' \in [Seats -> Nat]
        /\ \A other \in Seats \ inGame' : stack'[other] = 0
    BY <1>2 DEF AnswerConcede, WithoutObjectsOf, IInv, TypeOK, Table
  <1>5. /\ priorityPasses' \in SUBSET Seats
        /\ priorityPlayer' \in Seats \cup {NoSeat}
        /\ ~AutoPass => priorityPasses' \subseteq inGame'
        /\ priorityPlayer' \in inGame' \cup {NoSeat}
    BY <1>1, <1>2, LeavingFacts DEF AnswerConcede, IInv
  <1>6. ~gameOver' => priorityPlayer' \in inGame'
    BY <1>1 DEF AnswerConcede, PriorityAfterLeaving, IsNextAfter
  <1>7. TypeOK'
    BY <1>3, <1>4, <1>5
    DEF AnswerConcede, IInv, TypeOK, turnVars, combatVars, Calls, Decisions
  <1>8. Table'
    BY <1>1, <1>3, <1>4 DEF AnswerConcede, Table
  <1> QED
    BY <1>1, <1>3, <1>5, <1>6, <1>7, <1>8
    DEF AnswerConcede, IInv, TypeOK, Control, Window, Holder, TurnEndsQuiet,
        NoDecision

LEMMA PassInv ==
  ASSUME IInv, NEW seat \in Seats, AnswerPass(seat)
  PROVE  IInv'
  <1>1. /\ seat \in inGame /\ ~gameOver /\ raised = "none"
        /\ priorityPlayer = seat
        /\ waiting = {} /\ doomed = {}
    BY AskedFacts DEF AnswerPass, DecisionKinds
  <1>2. /\ priorityPasses' \in SUBSET Seats
        /\ priorityPlayer' \in Seats \cup {NoSeat}
        /\ todo' \in {"answer", "advance", "resolve", "pump"}
        /\ todo' = "answer" => raised' = "duplicate_pass"
        /\ todo' # "answer" => raised' = raised
        /\ todo' = "pump" => priorityPlayer' \in inGame
        /\ ~AutoPass => /\ priorityPasses' \subseteq inGame
                        /\ priorityPlayer' \in inGame \cup {NoSeat}
    BY <1>1, PassFacts DEF AnswerPass, IInv
  <1>3. UNCHANGED <<tableVars, turnVars, phaseIndex, combatVars, waiting,
                    doomed, events>> /\ decision' = NoDecision
        /\ yields' \in SUBSET Seats
    BY DEF AnswerPass, IInv, TypeOK
  <1>4. TypeOK'
    BY <1>1, <1>2, <1>3 DEF IInv, TypeOK, tableVars, turnVars, combatVars, Calls,
                      Failures, Decisions
  <1> QED
    BY <1>1, <1>2, <1>3, <1>4
    DEF IInv, TypeOK, Table, Control, Window, Holder, TurnEndsQuiet, LastStanding,
        tableVars, NoDecision

LEMMA PumpPassInv ==
  ASSUME IInv, PumpPass
  PROVE  IInv'
  <1>1. /\ ~gameOver /\ raised = "none" /\ decision = NoDecision
        /\ waiting = {} /\ doomed = {}
        /\ priorityPlayer \in Seats
        /\ priorityPlayer \in inGame \/ AutoPass
    BY DEF PumpPass, IInv, Control, Window
  <1>2. /\ priorityPasses' \in SUBSET Seats
        /\ priorityPlayer' \in Seats \cup {NoSeat}
        /\ todo' \in {"answer", "advance", "resolve", "pump"}
        /\ todo' = "answer" => raised' = "duplicate_pass"
        /\ todo' # "answer" => raised' = raised
        /\ todo' = "pump" => priorityPlayer' \in inGame
        /\ ~AutoPass => /\ priorityPasses' \subseteq inGame
                        /\ priorityPlayer' \in inGame \cup {NoSeat}
    BY <1>1, PassFacts DEF PumpPass, IInv
  <1>3. UNCHANGED <<tableVars, turnVars, phaseIndex, combatVars, waiting,
                    doomed, yields, decision, events>>
    BY DEF PumpPass
  <1>4. TypeOK'
    BY <1>1, <1>2, <1>3 DEF IInv, TypeOK, tableVars, turnVars, combatVars, Calls,
                      Failures
  <1> QED
    BY <1>1, <1>2, <1>3, <1>4
    DEF IInv, TypeOK, Table, Control, Window, Holder, TurnEndsQuiet, LastStanding,
        tableVars, NoDecision

LEMMA PumpAskInv ==
  ASSUME IInv, PumpAsk
  PROVE  IInv'
  <1>1. /\ ~gameOver /\ raised = "none"
        /\ waiting = {} /\ doomed = {}
        /\ priorityPlayer \in Seats
    BY DEF PumpAsk, IInv, Control, Window
  <1>2. decision' \in Decisions /\ decision' # NoDecision
        /\ decision'.actor = priorityPlayer
    BY <1>1 DEF PumpAsk, Decisions, DecisionKinds, NoDecision
  <1>3. TypeOK'
    BY <1>1, <1>2 DEF PumpAsk, IInv, TypeOK, tableVars, turnVars, combatVars,
                      priorityVars, Calls, Failures
  <1> QED
    BY <1>1, <1>2, <1>3
    DEF PumpAsk, IInv, Table, Control, Window, Holder, TurnEndsQuiet,
        LastStanding, tableVars, priorityVars

LEMMA OrderInv ==
  ASSUME IInv, NEW seat \in Seats, AnswerOrder(seat)
  PROVE  IInv'
  <1>1. /\ seat \in inGame /\ ~gameOver /\ raised = "none"
    BY AskedFacts DEF AnswerOrder, DecisionKinds
  <1>2. PICK asked \in inGame \cup {NoSeat} :
          /\ PlaceGroups(asked, waiting \ {seat}, inGame,
                         [stack EXCEPT ![seat] = @ + 2])
          /\ decision' = OrderDecision(asked)
          /\ todo' = IF asked = NoSeat THEN "grant" ELSE "answer"
    BY DEF AnswerOrder
  <1>3. /\ [stack EXCEPT ![seat] = @ + 2] \in [Seats -> Nat]
        /\ \A other \in Seats \ inGame : [stack EXCEPT ![seat] = @ + 2][other] = 0
        /\ waiting \ {seat} \subseteq inGame /\ inGame \in SUBSET Seats
    BY <1>1 DEF IInv, TypeOK, Table
  <1>4. /\ stack' \in [Seats -> Nat]
        /\ \A other \in Seats \ inGame : stack'[other] = 0
        /\ waiting' \in SUBSET inGame
    <2> DEFINE objects == [stack EXCEPT ![seat] = @ + 2]
               groups == waiting \ {seat}
    <2>1. /\ PlaceGroups(asked, groups, inGame, objects)
          /\ objects \in [Seats -> Nat]
          /\ \A other \in Seats \ inGame : objects[other] = 0
          /\ groups \subseteq inGame /\ inGame \in SUBSET Seats
      BY <1>2, <1>3
    <2> HIDE DEF objects, groups
    <2> QED
      BY <2>1, PlaceFacts
  <1>5. /\ decision' \in Decisions
        /\ decision' = NoDecision <=> asked = NoSeat
        /\ decision'.kind # "priority"
        /\ asked # NoSeat => decision'.actor = asked
    BY <1>2, <1>3, OrderFacts
  <1>6. TypeOK'
    BY <1>2, <1>3, <1>4, <1>5 DEF AnswerOrder, IInv, TypeOK, turnVars, combatVars,
                      priorityVars, Calls
  <1> QED
    BY <1>1, <1>2, <1>4, <1>5, <1>6
    DEF AnswerOrder, Asked, IInv, Table, Control, Window, Holder, TurnEndsQuiet,
        LastStanding, priorityVars

LEMMA CombatInv ==
  ASSUME IInv, NEW seat \in Seats,
         \/ AnswerDraw(seat) \/ AnswerAttackers(seat)
         \/ AnswerCombat(seat) \/ AnswerDiscard(seat)
  PROVE  IInv'
  <1>1. /\ seat \in inGame /\ ~gameOver /\ raised = "none"
        /\ todo = "answer" /\ decision.kind # "priority"
    BY AskedFacts DEF AnswerDraw, AnswerAttackers, AnswerCombat, AnswerDiscard,
                       DecisionKinds
  <1>2. /\ doomed' \in SUBSET inGame /\ waiting' \in SUBSET inGame
        /\ events' \in 0..MaxEvents
    BY HappenLaterCounts
    DEF AnswerDraw, AnswerAttackers, AnswerCombat, AnswerDiscard, IInv
  <1>3. /\ UNCHANGED <<tableVars, turnVars, phaseIndex, secondStrike,
                       priorityVars, yields, raised>>
        /\ attacked' \in BOOLEAN
    BY DEF AnswerDraw, AnswerAttackers, AnswerCombat, AnswerDiscard, combatVars,
           IInv, TypeOK
  <1>4. \/ /\ decision' = NoDecision
           /\ todo' \in {"grant", "finish_cleanup"}
        \/ /\ \E next \in inGame, kind \in {"combat", "draw"} :
                decision' = [kind |-> kind, actor |-> next]
           /\ todo' = "answer"
    BY <1>1 DEF AnswerDraw, AnswerAttackers, AnswerCombat, AnswerDiscard, Asked
  <1>5. /\ decision' \in Decisions /\ decision'.kind # "priority"
        /\ decision' = NoDecision <=> todo' # "answer"
        /\ todo' = "answer" => decision'.actor \in inGame
    <2>1. inGame \in SUBSET Seats /\ NoSeat \notin Seats
      BY DEF IInv, TypeOK, Seats, NoSeat
    <2> QED
      BY <1>4, <2>1 DEF Decisions, DecisionKinds, NoDecision
  <1>6. TypeOK'
    BY <1>2, <1>3, <1>4, <1>5 DEF IInv, TypeOK, tableVars, turnVars,
                                  priorityVars, Calls
  <1> QED
    BY <1>1, <1>2, <1>3, <1>4, <1>5, <1>6
    DEF IInv, Table, Control, Window, Holder, TurnEndsQuiet, LastStanding,
        tableVars, priorityVars

LEMMA ResolveInv ==
  ASSUME IInv, ResolveStackObject
  PROVE  IInv'
  <1>1. ~gameOver /\ raised = "none" /\ decision = NoDecision
    BY DEF ResolveStackObject, IInv, Control
  <1>2. /\ stack' \in [Seats -> Nat]
        /\ \A seat \in Seats \ inGame : stack'[seat] = 0
    BY DEF ResolveStackObject, IInv, TypeOK, Table
  <1>3. /\ doomed' \in SUBSET inGame /\ waiting' \in SUBSET inGame
        /\ events' \in 0..MaxEvents
        /\ extraTurns' \in SUBSET ExtraTurn
        /\ \A turn \in extraTurns' : turn.player \in inGame
    <2>1. CASE HappenLater(0) /\ UNCHANGED extraTurns
      BY <2>1, HappenLaterCounts DEF IInv, TypeOK, Table
    <2>2. ASSUME NEW seat \in inGame, HappenLater(1),
                 extraTurns' = extraTurns \cup
                                 {[player |-> seat, ref |-> events + 1]}
          PROVE  /\ doomed' \in SUBSET inGame /\ waiting' \in SUBSET inGame
                 /\ events' \in 0..MaxEvents
                 /\ extraTurns' \in SUBSET ExtraTurn
                 /\ \A turn \in extraTurns' : turn.player \in inGame
      <3>1. /\ doomed' \in SUBSET inGame /\ waiting' \in SUBSET inGame
            /\ events' \in 0..MaxEvents /\ events + 1 <= events'
        BY <2>2, HappenLaterCounts DEF IInv
      <3>2. [player |-> seat, ref |-> events + 1] \in ExtraTurn
        BY <3>1, BoundsAssumption DEF ExtraTurn, IInv, TypeOK
      <3> QED
        BY <2>2, <3>1, <3>2 DEF IInv, TypeOK, Table
    <2> QED
      BY <2>1, <2>2 DEF ResolveStackObject
  <1>4. TypeOK'
    BY <1>2, <1>3 DEF ResolveStackObject, IInv, TypeOK, turnVars, combatVars,
                      priorityVars, Calls
  <1> QED
    BY <1>1, <1>2, <1>3, <1>4
    DEF ResolveStackObject, IInv, Table, Control, Window, Holder, TurnEndsQuiet,
        LastStanding, priorityVars, NoDecision

LEMMA EnterInv ==
  ASSUME IInv,
         EnterUntap \/ EnterPriorityStep \/ EnterDraw \/ EnterDeclareAttackers
           \/ EnterCombatStep \/ EnterCleanup
  PROVE  IInv'
  <1>1. /\ todo = "enter"
        /\ priorityPlayer' = NoSeat /\ priorityPasses' = {}
        /\ UNCHANGED <<tableVars, turnVars, phaseIndex, yields, raised>>
    BY DEF EnterUntap, EnterPriorityStep, EnterDraw, EnterDeclareAttackers,
           EnterCombatStep, EnterCleanup, Enter
  <1>2. ~gameOver /\ raised = "none" /\ decision = NoDecision
    BY <1>1 DEF IInv, Control
  <1>3. HappenLater(0) \/ UNCHANGED <<waiting, doomed, events>>
    BY DEF EnterUntap, EnterPriorityStep, EnterDraw, EnterDeclareAttackers,
           EnterCombatStep, EnterCleanup
  <1>4. /\ doomed' \in SUBSET inGame /\ waiting' \in SUBSET inGame
        /\ events' \in 0..MaxEvents
    BY <1>3, HappenLaterCounts DEF IInv, TypeOK, Table
  <1>5. attacked' \in BOOLEAN /\ secondStrike' \in BOOLEAN
    BY DEF EnterUntap, EnterPriorityStep, EnterDraw, EnterDeclareAttackers,
           EnterCombatStep, EnterCleanup, combatVars, IInv, TypeOK
  <1>6. \/ /\ todo' \in {"advance", "grant", "finish_cleanup"}
           /\ decision' = NoDecision
        \/ /\ todo' = "answer"
           /\ \E seat \in inGame, kind \in DecisionKinds \ {"priority"} :
                decision' = [kind |-> kind, actor |-> seat]
    BY <1>2 DEF EnterUntap, EnterPriorityStep, EnterDraw, EnterDeclareAttackers,
                EnterCombatStep, EnterCleanup, DecisionKinds
  <1>7. /\ decision' \in Decisions
        /\ decision'.kind # "priority"
        /\ todo' = "answer" => decision' # NoDecision
        /\ decision' # NoDecision => decision'.actor \in inGame
    BY <1>6 DEF Decisions, DecisionKinds, NoDecision, IInv, TypeOK
  <1>8. TypeOK'
    BY <1>1, <1>4, <1>5, <1>6, <1>7
    DEF IInv, TypeOK, tableVars, turnVars, Calls
  <1> QED
    BY <1>1, <1>2, <1>4, <1>6, <1>7, <1>8
    DEF IInv, Table, Control, Window, Holder, TurnEndsQuiet, LastStanding,
        tableVars

LEMMA RefuseDrawInv ==
  ASSUME IInv, RefuseDraw
  PROVE  IInv'
  <1>1. TypeOK'
    BY DEF RefuseDraw, IInv, TypeOK, tableVars, turnVars, combatVars,
           priorityVars, Calls, Failures
  <1> QED
    BY <1>1 DEF RefuseDraw, IInv, Table, Control, Window, Holder, LastStanding,
                TurnEndsQuiet, tableVars, priorityVars, NoDecision

LEMMA AdvanceInv ==
  ASSUME IInv, AdvanceStep
  PROVE  IInv'
  <1>1. phaseIndex' \in Steps /\ attacked' \in BOOLEAN
        /\ secondStrike' \in BOOLEAN
    <2>1. phaseIndex' \in Steps
      BY DEF AdvanceStep, StepAfter, Steps, Cleanup, EndCombat, IInv, TypeOK
    <2>2. attacked' \in BOOLEAN
      BY DEF AdvanceStep, IInv, TypeOK
    <2>3. \/ UNCHANGED secondStrike \/ secondStrike' = TRUE
          \/ secondStrike' = (secondStrike /\ phaseIndex # EndCombat)
      BY DEF AdvanceStep
    <2> QED
      BY <2>1, <2>2, <2>3 DEF IInv, TypeOK
  <1>2. TypeOK'
    BY <1>1 DEF AdvanceStep, IInv, TypeOK, tableVars, turnVars, priorityVars,
                Calls
  <1> QED
    BY <1>2 DEF AdvanceStep, IInv, Table, Control, Window, Holder, TurnEndsQuiet,
                LastStanding, tableVars, priorityVars

LEMMA BeginTurnInv ==
  ASSUME IInv, BeginExtraTurn \/ BeginNormalTurn
  PROVE  IInv'
  <1>1. todo = "begin_turn" /\ lastNormal' \in Seats
        /\ extraTurns' \in SUBSET extraTurns
    BY DEF BeginExtraTurn, BeginNormalTurn, IInv, TypeOK
  <1>2. PICK player \in inGame : BeginTurnOf(player)
    BY DEF BeginExtraTurn, BeginNormalTurn
  <1>3. TypeOK'
    <2>1. player \in Seats /\ yields' \in SUBSET Seats
      BY <1>2 DEF BeginTurnOf, IInv, TypeOK
    <2>2. 1 \in Steps
      BY DEF Steps
    <2> QED
      BY <1>1, <1>2, <2>1, <2>2 DEF BeginTurnOf, IInv, TypeOK, Calls, Untap
  <1>4. /\ UNCHANGED <<inGame, gameOver, stack, waiting, doomed, decision, raised>>
        /\ todo' = "enter"
        /\ priorityPlayer' = NoSeat /\ priorityPasses' = {}
        /\ decision = NoDecision /\ raised = "none"
    BY <1>1, <1>2 DEF BeginTurnOf, IInv, Control
  <1>5. Table'
    BY <1>1, <1>4 DEF IInv, Table
  <1>6. Control' /\ Holder' /\ LastStanding' /\ TurnEndsQuiet'
    BY <1>1, <1>4 DEF IInv, Control, Holder, LastStanding, TurnEndsQuiet
  <1>7. Window'
    BY <1>4 DEF Window, NoDecision
  <1> QED
    BY <1>3, <1>5, <1>6, <1>7 DEF IInv

LEMMA NextInv == IInv /\ [Next]_vars => IInv'
  <1> SUFFICES ASSUME IInv, [Next]_vars PROVE IInv'
    OBVIOUS
  <1>1. ASSUME NEW seat \in Seats, AnswerPass(seat) PROVE IInv'
    BY <1>1, PassInv
  <1>2. ASSUME NEW seat \in Seats, AnswerSpecialAction(seat) PROVE IInv'
    BY <1>2, SpecialActionInv
  <1>3. ASSUME NEW seat \in Seats, AnswerCast(seat) PROVE IInv'
    BY <1>3, CastInv
  <1>4. ASSUME NEW seat \in Seats, AnswerMana(seat) PROVE IInv'
    BY <1>4, ManaInv
  <1>5. ASSUME NEW seat \in Seats, AnswerConcede(seat) PROVE IInv'
    BY <1>5, ConcedeInv
  <1>6. ASSUME NEW seat \in Seats, AnswerOrder(seat) PROVE IInv'
    BY <1>6, OrderInv
  <1>7. ASSUME NEW seat \in Seats,
               \/ AnswerDraw(seat) \/ AnswerAttackers(seat)
               \/ AnswerCombat(seat) \/ AnswerDiscard(seat)
        PROVE  IInv'
    BY <1>7, CombatInv
  <1>8. CASE GrantPriority
    BY <1>8, GrantInv
  <1>9. CASE PumpPass \/ PumpAsk
    BY <1>9, PumpPassInv, PumpAskInv
  <1>10. CASE ResolveStackObject
    BY <1>10, ResolveInv
  <1>11. CASE EnterUntap \/ EnterPriorityStep \/ EnterDraw \/ EnterDeclareAttackers
                \/ EnterCombatStep \/ EnterCleanup
    BY <1>11, EnterInv
  <1>12. CASE AdvanceStep \/ RefuseDraw
    BY <1>12, AdvanceInv, RefuseDrawInv
  <1>13. CASE FinishCleanup
    BY <1>13, FinishCleanupInv
  <1>14. CASE BeginExtraTurn \/ BeginNormalTurn
    BY <1>14, BeginTurnInv
  <1>15. CASE UNCHANGED vars
    BY <1>15
    DEF vars, tableVars, turnVars, combatVars, priorityVars, IInv, TypeOK,
        Table, Control, Window, Holder, LastStanding, TurnEndsQuiet, StackEmpty
  <1> QED
    BY <1>1, <1>2, <1>3, <1>4, <1>5, <1>6, <1>7, <1>8, <1>9, <1>10, <1>11,
       <1>12, <1>13, <1>14, <1>15
    DEF Next, Answer, Engine, Finished

(* The inductive invariant holds in every reachable state.                 *)
THEOREM Invariant == Spec => []IInv
  BY InitInv, NextInv, PTL DEF Spec

-----------------------------------------------------------------------------
(* What follows from it.                                                   *)

(* Every variable of the turn scheduler keeps to its set.                  *)
THEOREM TypeCorrect == Spec => []TypeOK
  <1>1. IInv => TypeOK
    BY DEF IInv
  <1> QED
    BY <1>1, Invariant, PTL

(* A seat that has left the game leaves nothing behind, in every table and *)
(* configuration: no object, trigger, pass or turn of its own, and never   *)
(* the priority that the engine waits with.                                *)
THEOREM Departures == Spec => []DepartedIsGone
  <1>1. IInv => DepartedIsGone
    BY DEF IInv, Table, Control, Window, Holder, DepartedIsGone
  <1> QED
    BY <1>1, Invariant, PTL

(* The engine never waits for a seat that cannot answer.                   *)
THEOREM NoHang == Spec => []SomebodyIsAsked
  <1>1. IInv => SomebodyIsAsked
    BY DEF IInv, Control, SomebodyIsAsked
  <1> QED
    BY <1>1, Invariant, PTL

(* The game is over exactly when at most one seat is left.                 *)
THEOREM Ending == Spec => []LastStanding
  <1>1. IInv => LastStanding
    BY DEF IInv
  <1> QED
    BY <1>1, Invariant, PTL

(* A turn ends with nothing left to do.                                    *)
THEOREM QuietEnd == Spec => []TurnEndsQuiet
  <1>1. IInv => TurnEndsQuiet
    BY DEF IInv
  <1> QED
    BY <1>1, Invariant, PTL

(* Normal turns go round the table whatever extra turns and departures     *)
(* happen in between.                                                      *)
THEOREM Rotation == Spec => NormalTurnsRotate
  <1> DEFINE Rotates ==
        /\ lastNormal' # lastNormal =>
             IsNextAfter(lastNormal', lastNormal, inGame) /\ extraTurns = {}
        /\ phaseIndex' < phaseIndex =>
             \/ lastNormal' = activePlayer' /\ extraTurns' = extraTurns
             \/ \E turn \in extraTurns :
                  turn.player = activePlayer' /\ lastNormal' = lastNormal
  <1>1. IInv /\ [Next]_vars => [Rotates]_vars
    <2> SUFFICES ASSUME IInv, [Next]_vars PROVE [Rotates]_vars
      OBVIOUS
    <2>1. CASE BeginNormalTurn
      <3>1. extraTurns = {} /\ extraTurns' = {}
        BY <2>1 DEF BeginNormalTurn, IInv, Table
      <3> QED
        BY <2>1, <3>1 DEF BeginNormalTurn, BeginTurnOf
    <2>2. CASE BeginExtraTurn
      BY <2>2 DEF BeginExtraTurn, BeginTurnOf
    <2>3. CASE AdvanceStep
      <3>1. ~(phaseIndex' < phaseIndex)
        BY <2>3 DEF AdvanceStep, StepAfter, DeclareAttackers, EndCombat,
                    Cleanup, IInv, TypeOK, Steps
      <3> QED
        BY <2>3, <3>1 DEF AdvanceStep, turnVars
    <2>4. CASE UNCHANGED <<lastNormal, phaseIndex>>
      BY <2>4 DEF IInv, TypeOK, Steps
    <2>5. ASSUME Answer PROVE UNCHANGED <<lastNormal, phaseIndex>>
      BY <2>5 DEF Answer, AnswerPass, AnswerSpecialAction, AnswerCast, AnswerMana,
                  AnswerConcede, AnswerOrder, AnswerDraw, AnswerAttackers,
                  AnswerCombat, AnswerDiscard, turnVars
    <2>6. ASSUME \/ GrantPriority \/ PumpPass \/ PumpAsk \/ ResolveStackObject
                 \/ FinishCleanup \/ RefuseDraw
          PROVE  UNCHANGED <<lastNormal, phaseIndex>>
      BY <2>6 DEF GrantPriority, PumpPass, PumpAsk, ResolveStackObject,
                  FinishCleanup, RefuseDraw, turnVars
    <2>7. ASSUME EnterUntap \/ EnterPriorityStep \/ EnterDraw \/ EnterDeclareAttackers
                   \/ EnterCombatStep \/ EnterCleanup
          PROVE  UNCHANGED <<lastNormal, phaseIndex>>
      BY <2>7 DEF EnterUntap, EnterPriorityStep, EnterDraw, EnterDeclareAttackers,
                  EnterCombatStep, EnterCleanup, Enter, turnVars
    <2>8. CASE UNCHANGED vars
      BY <2>8 DEF vars, turnVars
    <2> QED
      BY <2>1, <2>2, <2>3, <2>4, <2>5, <2>6, <2>7, <2>8
      DEF Next, Engine, Finished
  <1>2. Spec => [][Rotates]_vars
    BY <1>1, Invariant, PTL DEF Spec
  <1> QED
    BY <1>2 DEF NormalTurnsRotate

-----------------------------------------------------------------------------
(* Where the two disagreements with the comments of the code cannot arise: *)
(* a round whose seats all stay, and a duel.                               *)

\* The passes of a round are those of its seats in turn order, up to the
\* holder of the priority, who is not among them.
InOrder ==
  \A p \in priorityPasses, seat \in inGame :
    Distance(p, seat) < Distance(p, priorityPlayer) => seat \in priorityPasses

Unrepeated ==
  todo = "pump" \/ decision.kind = "priority" =>
    priorityPlayer \notin priorityPasses /\ InOrder

OInv == IInv /\ Unrepeated /\ NoDuplicatePass

(* Round a table, what lies behind h as seen from p is as far from h as    *)
(* the difference of the two, and different seats are differently far.     *)
LEMMA Around ==
  ASSUME NEW p \in Seats, NEW h \in Seats, NEW u \in Seats
  PROVE  /\ Distance(p, u) \in 1..N
         /\ Distance(p, p) = N
         /\ Distance(p, u) = Distance(p, h) <=> u = h
         /\ p # h /\ Distance(p, u) > Distance(p, h) =>
              Distance(h, u) = Distance(p, u) - Distance(p, h)
  BY SeatsAssumption DEF Distance, Seats

(* The next seat to have priority has not passed in this round: if it had, *)
(* so would everybody in the game, and the round would be over.            *)
LEMMA NextHolder ==
  ASSUME TypeOK, NEW seat \in Seats, priorityPlayer = seat, InOrder,
         seat \notin priorityPasses, NEW t \in inGame,
         Cardinality(priorityPasses \cup {seat}) < Cardinality(inGame),
         IsNextAfter(t, seat, inGame)
  PROVE  t \notin priorityPasses \cup {seat}
  <1> SUFFICES ASSUME t \in priorityPasses \cup {seat} PROVE FALSE
    OBVIOUS
  <1>1. t \in Seats /\ inGame \in SUBSET Seats
        /\ priorityPasses \in SUBSET Seats
    BY DEF TypeOK
  <1>2. ASSUME NEW u \in inGame PROVE u \in priorityPasses \cup {seat}
    <2>1. u \in Seats /\ Distance(seat, t) <= Distance(seat, u)
      BY <1>1 DEF IsNextAfter
    <2>2. CASE t = seat
      BY <2>1, <2>2, Around
    <2>3. CASE t # seat /\ t \in priorityPasses
      <3>1. CASE Distance(t, u) < Distance(t, seat)
        BY <2>3, <3>1 DEF InOrder
      <3>2. CASE Distance(t, u) = Distance(t, seat)
        BY <1>1, <2>1, <3>2, Around
      <3>3. CASE Distance(t, u) > Distance(t, seat)
        <4>1. Distance(seat, u) = Distance(t, u) - Distance(t, seat)
          BY <1>1, <2>1, <2>3, <3>3, Around
        <4>2. Distance(seat, t) = N - Distance(t, seat)
          <5>1. Distance(t, seat) # N /\ Distance(t, t) = N
                /\ Distance(t, seat) \in 1..N
            BY <1>1, <2>3, Around
          <5>2. Distance(t, t) > Distance(t, seat)
            BY <5>1, SeatsAssumption
          <5> QED
            BY <1>1, <2>3, <5>1, <5>2, Around
        <4>3. Distance(t, u) = N
          <5>1. Distance(t, u) \in 1..N /\ Distance(t, seat) \in 1..N
            BY <1>1, <2>1, Around
          <5> QED
            BY <2>1, <4>1, <4>2, <5>1, SeatsAssumption
        <4> QED
          BY <1>1, <2>1, <2>3, <4>3, Around
      <3> QED
        <4>1. Distance(t, u) \in 1..N /\ Distance(t, seat) \in 1..N
          BY <1>1, <2>1, Around
        <4> QED
          BY <3>1, <3>2, <3>3, <4>1, SeatsAssumption
    <2> QED
      BY <2>2, <2>3
  <1>3. inGame \subseteq priorityPasses \cup {seat}
    BY <1>2
  <1>4. priorityPasses \cup {seat} \in SUBSET Seats
    BY <1>1
  <1>5. Cardinality(inGame) <= Cardinality(priorityPasses \cup {seat})
    BY <1>3, <1>4, SeatsFinite, FS_Subset
  <1>6. Cardinality(inGame) \in Nat
        /\ Cardinality(priorityPasses \cup {seat}) \in Nat
    BY <1>1, <1>4, SeatsFinite
  <1> QED
    BY <1>5, <1>6

(* A pass keeps the order of the round.                                    *)
LEMMA NextInOrder ==
  ASSUME TypeOK, NEW seat \in Seats, priorityPlayer = seat, InOrder,
         seat \notin priorityPasses, NEW t \in inGame,
         IsNextAfter(t, seat, inGame), priorityPlayer' = t,
         priorityPasses' = priorityPasses \cup {seat}, inGame' = inGame
  PROVE  InOrder'
  <1> SUFFICES ASSUME NEW p \in priorityPasses \cup {seat}, NEW u \in inGame,
                      Distance(p, u) < Distance(p, t)
               PROVE  u \in priorityPasses \cup {seat}
    BY DEF InOrder
  <1>1. p \in Seats /\ u \in Seats /\ t \in Seats
    BY DEF TypeOK
  <1>2. Distance(seat, t) <= Distance(seat, u)
    BY DEF IsNextAfter
  <1>3. /\ Distance(p, u) \in 1..N /\ Distance(p, t) \in 1..N
        /\ Distance(p, seat) \in 1..N
        /\ Distance(seat, u) \in 1..N /\ Distance(seat, t) \in 1..N
    BY <1>1, Around
  <1>4. p # seat /\ p \in priorityPasses
    BY <1>2, <1>3, SeatsAssumption
  <1>5. CASE Distance(p, u) < Distance(p, seat)
    BY <1>4, <1>5 DEF InOrder
  <1>6. CASE Distance(p, u) = Distance(p, seat)
    BY <1>1, <1>6, Around
  <1>7. CASE Distance(p, u) > Distance(p, seat)
    <2>1. Distance(seat, u) = Distance(p, u) - Distance(p, seat)
      BY <1>1, <1>4, <1>7, Around
    <2>2. Distance(p, t) > Distance(p, seat)
      BY <1>3, <1>7, SeatsAssumption
    <2>3. Distance(seat, t) = Distance(p, t) - Distance(p, seat)
      BY <1>1, <1>4, <2>2, Around
    <2> QED
      BY <1>2, <1>3, <2>1, <2>3, SeatsAssumption
  <1> QED
    BY <1>3, <1>5, <1>6, <1>7, SeatsAssumption

(* A pass of the holder is not a repeated one.                             *)
LEMMA PassOnce ==
  ASSUME OInv, NEW seat \in Seats, priorityPlayer = seat,
         todo = "pump" \/ decision.kind = "priority",
         PassPriority(seat), UNCHANGED inGame, decision'.kind # "priority"
  PROVE  Unrepeated' /\ NoDuplicatePass'
  <1>1. TypeOK /\ InOrder /\ seat \notin priorityPasses
    BY DEF OInv, IInv, Unrepeated
  <1>2. raised' = raised
    BY <1>1 DEF PassPriority
  <1>3. CASE todo' \in {"advance", "resolve"}
    BY <1>2, <1>3 DEF Unrepeated, NoDuplicatePass, OInv
  <1>4. ASSUME NEW t \in inGame, IsNextAfter(t, seat, inGame),
               priorityPlayer' = t, priorityPasses' = priorityPasses \cup {seat},
               Cardinality(priorityPasses \cup {seat}) < Cardinality(inGame)
        PROVE  Unrepeated' /\ NoDuplicatePass'
    <2>1. priorityPlayer' \notin priorityPasses'
      BY <1>1, <1>4, NextHolder
    <2>2. InOrder'
      BY <1>1, <1>4, NextInOrder
    <2> QED
      BY <1>2, <2>1, <2>2 DEF Unrepeated, NoDuplicatePass, OInv
  <1> QED
    BY <1>1, <1>3, <1>4 DEF PassPriority

(* Nobody in a duel goes on after a concession.                            *)
LEMMA DuelEnds ==
  ASSUME N = 2, IInv, NEW seat \in inGame, Leave({seat})
  PROVE  gameOver'
  <1>1. inGame \ {seat} \in SUBSET Seats /\ Seats = {1, 2} /\ seat \in Seats
    BY DEF IInv, TypeOK, Seats
  <1>2. \E other \in Seats : inGame \ {seat} \subseteq {other}
    BY <1>1
  <1>3. PICK other \in Seats : inGame \ {seat} \subseteq {other}
    BY <1>2
  <1>4. Cardinality({other}) = 1 /\ Cardinality(inGame \ {seat}) \in Nat
        /\ Cardinality(inGame \ {seat}) <= Cardinality({other})
    BY <1>1, <1>3, FS_Singleton, FS_Subset, SeatsFinite
  <1> QED
    BY <1>4 DEF Leave

LEMMA OrderStep ==
  ASSUME N = 2 \/ ~Concessions, OInv, Next
  PROVE  Unrepeated' /\ NoDuplicatePass'
  <1> DEFINE Goal == Unrepeated' /\ NoDuplicatePass'
  <1>1. IInv /\ Unrepeated /\ NoDuplicatePass
    BY DEF OInv
  <1>2. ASSUME NEW seat \in Seats, AnswerPass(seat) PROVE Goal
    <2>1. decision.kind = "priority" /\ priorityPlayer = seat
      BY <1>1, <1>2, AskedFacts DEF AnswerPass, DecisionKinds
    <2>2. PassPriority(seat) /\ UNCHANGED inGame /\ decision'.kind # "priority"
      BY <1>2 DEF AnswerPass, tableVars, NoDecision
    <2> QED
      BY <2>1, <2>2, PassOnce
  <1>3. CASE PumpPass
    <2>1. todo = "pump" /\ priorityPlayer \in Seats /\ decision = NoDecision
      BY <1>1, <1>3 DEF PumpPass, IInv, Window, Control
    <2>2. PassPriority(priorityPlayer) /\ UNCHANGED <<inGame, decision>>
      BY <1>3 DEF PumpPass, tableVars
    <2>3. decision'.kind # "priority"
      BY <2>1, <2>2 DEF NoDecision
    <2> QED
      BY <2>1, <2>2, <2>3, PassOnce
  <1>4. ASSUME NEW seat \in Seats,
               AnswerCast(seat) \/ AnswerMana(seat) \/ AnswerSpecialAction(seat)
        PROVE  Goal
    <2>1. PICK losing \in SUBSET inGame, triggering \in SUBSET inGame,
               objects \in {[stack EXCEPT ![seat] = @ + 1], stack},
               asked \in inGame \cup {NoSeat} :
            /\ Stabilize(losing, triggering, objects, asked)
            /\ \/ Stopped /\ todo' = "answer"
               \/ ~Stopped /\ todo' = "pump" /\ priorityPasses' = {}
      BY <1>4 DEF AnswerCast, AnswerMana, AnswerSpecialAction, Act
    <2>2. decision' = OrderDecision(asked) /\ raised' = raised
      BY <1>4, <2>1
      DEF Stabilize, AnswerCast, AnswerMana, AnswerSpecialAction
    <2>3. decision'.kind # "priority"
      BY <2>2 DEF OrderDecision, NoDecision
    <2> QED
      BY <1>1, <2>1, <2>2, <2>3 DEF Unrepeated, InOrder, NoDuplicatePass
  <1>5. ASSUME NEW seat \in Seats, AnswerConcede(seat) PROVE Goal
    <2>1. seat \in inGame /\ Leave({seat}) /\ N = 2
      BY <1>1, <1>5, AskedFacts DEF AnswerConcede, DecisionKinds
    <2>2. gameOver'
      BY <1>1, <2>1, DuelEnds
    <2>3. todo' = "answer" /\ decision' = NoDecision /\ raised' = raised
      BY <1>5, <2>2 DEF AnswerConcede
    <2> QED
      BY <1>1, <2>3 DEF Unrepeated, NoDuplicatePass, NoDecision
  <1>6. ASSUME NEW seat \in Seats,
               \/ AnswerOrder(seat) \/ AnswerDraw(seat)
               \/ AnswerAttackers(seat) \/ AnswerCombat(seat) \/ AnswerDiscard(seat)
        PROVE  Goal
    <2>1. todo' \in {"answer", "grant", "finish_cleanup"} /\ raised' = raised
      BY <1>6 DEF AnswerOrder, AnswerDraw, AnswerAttackers, AnswerCombat,
                  AnswerDiscard, Asked
    <2>2. decision'.kind # "priority"
      BY <1>6 DEF AnswerOrder, AnswerDraw, AnswerAttackers, AnswerCombat,
                  AnswerDiscard, Asked, OrderDecision, NoDecision
    <2> QED
      BY <1>1, <2>1, <2>2 DEF Unrepeated, NoDuplicatePass
  <1>7. CASE GrantPriority \/ FinishCleanup
    <2>1. /\ \E asked : decision' = OrderDecision(asked)
          /\ \/ todo' \in {"answer", "grant", "begin_turn"}
             \/ todo' = "pump" /\ priorityPasses' = {}
          /\ raised' = raised
      BY <1>7 DEF GrantPriority, FinishCleanup, Stabilize
    <2>2. decision'.kind # "priority"
      BY <2>1 DEF OrderDecision, NoDecision
    <2> QED
      BY <1>1, <2>1, <2>2 DEF Unrepeated, InOrder, NoDuplicatePass
  <1>8. CASE PumpAsk
    BY <1>1, <1>8 DEF PumpAsk, Unrepeated, InOrder, NoDuplicatePass, tableVars,
                      priorityVars
  <1>9. CASE EnterUntap \/ EnterPriorityStep \/ EnterDraw
               \/ EnterDeclareAttackers \/ EnterCombatStep \/ EnterCleanup
    <2>1. priorityPlayer' = NoSeat /\ priorityPasses' = {} /\ raised' = raised
      BY <1>9 DEF EnterUntap, EnterPriorityStep, EnterDraw,
                  EnterDeclareAttackers, EnterCombatStep, EnterCleanup, Enter
    <2> QED
      BY <1>1, <2>1 DEF Unrepeated, InOrder, NoDuplicatePass
  <1>10. CASE ResolveStackObject \/ AdvanceStep
    <2>1. decision = NoDecision /\ decision' = decision /\ raised' = raised
          /\ todo' \in {"enter", "grant"}
      BY <1>1, <1>10 DEF ResolveStackObject, AdvanceStep, IInv, Control
    <2> QED
      BY <1>1, <2>1 DEF Unrepeated, NoDuplicatePass, NoDecision
  <1>11. CASE BeginExtraTurn \/ BeginNormalTurn
    BY <1>1, <1>11 DEF BeginExtraTurn, BeginNormalTurn, BeginTurnOf, Unrepeated,
                       InOrder, NoDuplicatePass
  <1>12. CASE RefuseDraw
    <2>1. decision = NoDecision /\ decision' = decision
          /\ raised' = "departed_draw" /\ todo' = "answer"
      BY <1>1, <1>12 DEF RefuseDraw, IInv, Control
    <2> QED
      BY <2>1 DEF Unrepeated, NoDuplicatePass, NoDecision
  <1>13. CASE Finished
    BY <1>1, <1>13 DEF Finished, vars, tableVars, priorityVars, Unrepeated,
                       InOrder, NoDuplicatePass
  <1> QED
    BY <1>2, <1>3, <1>4, <1>5, <1>6, <1>7, <1>8, <1>9, <1>10, <1>11, <1>12,
       <1>13
    DEF Next, Answer, Engine

(* A round of priority has no seat twice as long as nobody leaves in its   *)
(* middle: with no concessions at the table, or with one of two players    *)
(* conceding.  What a card does to a player during a round starts a new    *)
(* one, so a concession is the only cause of the repeated pass that        *)
(* turn_priority_owner.py raises on.                                       *)
THEOREM PassesOnce ==
  ASSUME N = 2 \/ ~Concessions
  PROVE  Spec => []NoDuplicatePass
  <1>1. Init => OInv
    BY InitInv DEF Init, OInv, Unrepeated, NoDuplicatePass, NoDecision
  <1>2. OInv /\ [Next]_vars => OInv'
    <2> SUFFICES ASSUME OInv, [Next]_vars PROVE OInv'
      OBVIOUS
    <2>1. IInv'
      BY NextInv DEF OInv
    <2>2. CASE Next
      BY <2>1, <2>2, OrderStep DEF OInv
    <2>3. CASE UNCHANGED vars
      BY <2>1, <2>3 DEF OInv, vars, tableVars, priorityVars, Unrepeated, InOrder,
                        NoDuplicatePass
    <2> QED
      BY <2>2, <2>3
  <1>3. OInv => NoDuplicatePass
    BY DEF OInv
  <1> QED
    BY <1>1, <1>2, <1>3, PTL DEF Spec

(* In a duel the engine never fails: nobody passes twice in a round, asks  *)
(* or draws for a player who has left, because whoever leaves ends the     *)
(* game.                                                                   *)
THEOREM DuelNeverFails ==
  ASSUME N = 2
  PROVE  Spec => []NoDuplicatePass /\ []DepartedTurnGoesOn /\ [](raised = "none")
  <1> DEFINE Sound == raised = "none" \/ raised = "duplicate_pass"
  <1>1. ASSUME IInv, ~gameOver PROVE inGame = Seats
    <2>1. inGame \in SUBSET Seats /\ Cardinality(inGame) > 1
      <3>1. inGame \in SUBSET Seats
        BY <1>1 DEF IInv, TypeOK
      <3>2. Cardinality(inGame) \in Nat /\ ~(Cardinality(inGame) <= 1)
        BY <1>1, <3>1, SeatsFinite DEF IInv, LastStanding
      <3> QED
        BY <3>1, <3>2
    <2>2. Cardinality(Seats) = 2 /\ IsFiniteSet(Seats)
      BY SeatCount
    <2>3. Cardinality(inGame) \in Nat /\ Cardinality(inGame) <= 2
      BY <2>1, <2>2, SeatsFinite, FS_Subset
    <2> QED
      BY <2>1, <2>2, <2>3, FS_Subset
  <1>2. Init => Sound
    BY DEF Init
  <1>3. IInv /\ Sound /\ [Next]_vars => Sound'
    <2> SUFFICES ASSUME IInv, Sound, [Next]_vars PROVE Sound'
      OBVIOUS
    <2>1. CASE RefuseDraw \/ PumpAsk
      <3>1. todo # "answer" /\ ~gameOver
        BY <2>1 DEF RefuseDraw, PumpAsk, IInv, Control
      <3>2. inGame = Seats
        BY <1>1, <3>1
      <3>3. activePlayer \in inGame
        BY <3>2 DEF IInv, TypeOK
      <3>4. todo = "pump" => priorityPlayer \in inGame
        BY <3>2 DEF IInv, Window
      <3> QED
        BY <2>1, <3>3, <3>4 DEF RefuseDraw, PumpAsk
    <2>2. ASSUME Answer PROVE Sound'
      BY <2>2 DEF Answer, AnswerPass, AnswerSpecialAction, AnswerCast, AnswerMana,
                  AnswerConcede, AnswerOrder, AnswerDraw, AnswerAttackers,
                  AnswerCombat, AnswerDiscard, PassPriority
    <2>3. CASE \/ GrantPriority \/ PumpPass \/ ResolveStackObject
               \/ FinishCleanup \/ AdvanceStep
      BY <2>3 DEF GrantPriority, PumpPass, ResolveStackObject, FinishCleanup,
                  AdvanceStep, PassPriority
    <2>4. CASE EnterUntap \/ EnterPriorityStep \/ EnterDraw
                 \/ EnterDeclareAttackers \/ EnterCombatStep \/ EnterCleanup
      BY <2>4 DEF EnterUntap, EnterPriorityStep, EnterDraw,
                  EnterDeclareAttackers, EnterCombatStep, EnterCleanup, Enter
    <2>5. CASE BeginExtraTurn \/ BeginNormalTurn
      BY <2>5 DEF BeginExtraTurn, BeginNormalTurn, BeginTurnOf
    <2>6. CASE UNCHANGED vars
      BY <2>6 DEF vars
    <2> QED
      BY <2>1, <2>2, <2>3, <2>4, <2>5, <2>6 DEF Next, Engine, Finished
  <1>4. Spec => []NoDuplicatePass
    BY PassesOnce
  <1>5. Sound /\ NoDuplicatePass => DepartedTurnGoesOn /\ raised = "none"
    BY DEF NoDuplicatePass, DepartedTurnGoesOn
  <1> HIDE DEF Sound
  <1> QED
    BY <1>2, <1>3, <1>4, <1>5, Invariant, PTL DEF Spec

-----------------------------------------------------------------------------
(* Seats that pass for themselves: the engine's chain of calls runs out.   *)

\* A turn whose player can be asked has not come to its first question yet.
Fresh ==
  /\ activePlayer \in inGame \ yields
  /\ \/ phaseIndex = Untap /\ todo \in {"enter", "advance"}
     \/ phaseIndex = Upkeep /\ todo \in {"enter", "grant"}
     \/ phaseIndex = Upkeep /\ todo = "pump" /\ priorityPlayer = activePlayer

\* What cards can still do: make seats leave, use up events.
Hopes == Cardinality(inGame) + MaxEvents - events

TurnsLeft == IF Fresh THEN 0 ELSE 1

\* Steps of the turn still to be entered, the second damage step between the
\* first and the end of combat.
StepsLeft ==
  2 * (Cleanup - phaseIndex)
    + (IF phaseIndex = CombatDamage /\ ~secondStrike THEN 1 ELSE 0)

\* The objects of a stack, one by one.
ObjectsOn(objects) == UNION {{s} \X (1..objects[s]) : s \in Seats}

\* How far the step has come: a cleanup step with a priority window is done
\* again, every other step is left after its windows.
Position ==
  CASE todo = "begin_turn"     -> 0
    [] todo = "finish_cleanup" -> 1
    [] todo = "enter"          -> IF phaseIndex = Cleanup THEN 2 ELSE 7
    [] todo = "advance"        -> 3
    [] todo = "resolve"        -> 4
    [] todo = "pump"           -> 5
    [] todo = "grant"          -> 6
    [] OTHER                   -> 8

PassesLeft == N - Cardinality(priorityPasses)

Rank == <<Hopes, TurnsLeft, StepsLeft, Cardinality(waiting),
          Cardinality(ObjectsOn(stack)), Position, PassesLeft>>

\* The rank falls, compared from its first number on.
Closer ==
  \E i \in 1..7 : Rank'[i] < Rank[i] /\ \A j \in 1..(i - 1) : Rank'[j] = Rank[j]

\* A step is begun, left and asked about with an empty stack.
Settled ==
  \/ todo \in {"enter", "advance", "finish_cleanup"}
  \/ decision.kind \in {"draw", "combat.attackers", "combat", "cleanup.discard"}
  => StackEmpty

(* A stack with one object less has one ticket less.                       *)
LEMMA ObjectsFinite ==
  ASSUME NEW objects \in [Seats -> Nat]
  PROVE  /\ IsFiniteSet(ObjectsOn(objects))
         /\ Cardinality(ObjectsOn(objects)) \in Nat
  <1> DEFINE F == {{s} \X (1..objects[s]) : s \in Seats}
             f == [s \in Seats |-> {s} \X (1..objects[s])]
  <1>1. f \in Surjection(Seats, F)
    BY DEF Surjection
  <1>2. IsFiniteSet(F)
    BY <1>1, SeatCount, FS_Surjection
  <1>3. ASSUME NEW s \in Seats PROVE IsFiniteSet({s} \X (1..objects[s]))
    <2>1. IsFiniteSet(1..objects[s])
      BY FS_Interval
    <2> QED
      BY <2>1, FS_Singleton, FS_Product
  <1>4. \A pile \in F : IsFiniteSet(pile)
    BY <1>3
  <1>5. IsFiniteSet(UNION F)
    BY <1>2, <1>4, FS_UNION
  <1> QED
    BY <1>5, FS_CardinalityType DEF ObjectsOn

LEMMA ObjectLeaves ==
  ASSUME NEW objects \in [Seats -> Nat], NEW s \in Seats, objects[s] > 0
  PROVE  Cardinality(ObjectsOn([objects EXCEPT ![s] = @ - 1]))
           < Cardinality(ObjectsOn(objects))
  <1> DEFINE fewer == [objects EXCEPT ![s] = @ - 1]
  <1>1. fewer \in [Seats -> Nat] /\ fewer[s] = objects[s] - 1
        /\ \A other \in Seats : other # s => fewer[other] = objects[other]
    OBVIOUS
  <1> HIDE DEF fewer
  <1>2. \A o : o \in ObjectsOn(objects) <=>
                 \E t \in Seats : \E i \in 1..objects[t] : o = <<t, i>>
    BY DEF ObjectsOn
  <1>3. \A o : o \in ObjectsOn(fewer) <=>
                 \E t \in Seats : \E i \in 1..fewer[t] : o = <<t, i>>
    BY DEF ObjectsOn
  <1>4. <<s, objects[s]>> \in ObjectsOn(objects) \ ObjectsOn(fewer)
    BY <1>1, <1>2, <1>3
  <1>5. ObjectsOn(fewer) \subseteq ObjectsOn(objects)
    <2> SUFFICES ASSUME NEW t \in Seats, NEW i \in 1..fewer[t]
                 PROVE  i \in 1..objects[t]
      BY <1>2, <1>3
    <2> QED
      BY <1>1
  <1>6. Cardinality(ObjectsOn(fewer)) < Cardinality(ObjectsOn(objects))
    BY <1>4, <1>5, ObjectsFinite, FS_Subset, FS_CardinalityType
  <1> QED
    BY <1>6 DEF fewer

(* If no event is used up, nobody comes to lose and nothing triggers.      *)
LEMMA HappenLaterQuiet ==
  ASSUME TypeOK, NEW extra \in Nat, HappenLater(extra), events' = events
  PROVE  extra = 0 /\ UNCHANGED <<doomed, waiting>>
  <1>1. PICK losing \in SUBSET inGame, triggering \in SUBSET inGame :
          /\ Happen(losing, triggering, extra)
          /\ doomed' = doomed \cup losing
          /\ waiting' = waiting \cup triggering
    BY DEF HappenLater
  <1>2. losing \in SUBSET Seats /\ triggering \in SUBSET Seats
    BY <1>1 DEF TypeOK
  <1>3. /\ Cardinality(losing) \in Nat /\ IsFiniteSet(losing)
        /\ Cardinality(triggering) \in Nat /\ IsFiniteSet(triggering)
    BY <1>2, SeatsFinite
  <1>4. Cardinality(losing) = 0 /\ Cardinality(triggering) = 0 /\ extra = 0
    BY <1>1, <1>3, BoundsAssumption DEF Happen, TypeOK
  <1>5. losing = {} /\ triggering = {}
    BY <1>3, <1>4, FS_EmptySet
  <1> QED
    BY <1>1, <1>4, <1>5

(* The numbers of the rank are natural.                                    *)
LEMMA RankNatural ==
  ASSUME TypeOK
  PROVE  /\ Hopes \in Nat /\ TurnsLeft \in Nat /\ StepsLeft \in Nat
         /\ Cardinality(waiting) \in Nat
         /\ Cardinality(ObjectsOn(stack)) \in Nat
         /\ Position \in Nat /\ PassesLeft \in Nat
  <1>1. Hopes \in Nat
    BY SeatsFinite, BoundsAssumption DEF TypeOK, Hopes
  <1>2. StepsLeft \in Nat
    BY DEF TypeOK, StepsLeft, Steps, Cleanup, CombatDamage
  <1>3. PassesLeft \in Nat
    <2>1. Cardinality(priorityPasses) \in Nat /\ Cardinality(priorityPasses) <= N
      BY SeatCount, SeatsFinite, FS_Subset DEF TypeOK
    <2> QED
      BY <2>1, SeatsAssumption DEF PassesLeft
  <1>4. Cardinality(waiting) \in Nat
    BY SeatsFinite DEF TypeOK
  <1>5. Cardinality(ObjectsOn(stack)) \in Nat
    BY ObjectsFinite DEF TypeOK
  <1>6. TurnsLeft \in Nat
    BY DEF TurnsLeft
  <1>7. Position \in Nat
    BY DEF Position, TypeOK, Calls
  <1> QED
    BY <1>1, <1>2, <1>3, <1>4, <1>5, <1>6, <1>7

\* Within a turn: a step less, or fewer triggers waiting, or a smaller stack,
\* or further on in the step, or one more pass.
Nearer ==
  \/ StepsLeft' < StepsLeft
  \/ /\ StepsLeft' = StepsLeft
     /\ \/ Cardinality(waiting') < Cardinality(waiting)
        \/ /\ waiting' = waiting
           /\ \/ Cardinality(ObjectsOn(stack')) < Cardinality(ObjectsOn(stack))
              \/ /\ stack' = stack
                 /\ Position' < Position \/ (Position' = Position
                                               /\ PassesLeft' < PassesLeft)

LEMMA Falls ==
  ASSUME TypeOK, TypeOK', inGame' \subseteq inGame, events <= events',
         inGame' = inGame /\ events' = events =>
           \/ TurnsLeft' < TurnsLeft
           \/ (Fresh => Fresh') /\ Nearer
  PROVE  Closer
  <1>1. /\ Hopes \in Nat /\ TurnsLeft \in Nat /\ StepsLeft \in Nat
        /\ Cardinality(waiting) \in Nat
        /\ Cardinality(ObjectsOn(stack)) \in Nat
        /\ Position \in Nat /\ PassesLeft \in Nat
    BY RankNatural
  <1>2. CASE inGame' = inGame /\ events' = events
    <2>1. Hopes' = Hopes
      BY <1>2 DEF Hopes
    <2>2. TurnsLeft' < TurnsLeft \/ (TurnsLeft' = TurnsLeft /\ Nearer)
      <3>1. (Fresh => Fresh') => TurnsLeft' < TurnsLeft \/ TurnsLeft' = TurnsLeft
        BY DEF TurnsLeft
      <3> QED
        BY <1>2, <3>1
    <2>3. CASE TurnsLeft' < TurnsLeft
      <3>1. Rank'[2] < Rank[2] /\ \A j \in 1..1 : Rank'[j] = Rank[j]
        BY <2>1, <2>3 DEF Rank
      <3> QED
        BY <3>1 DEF Closer
    <2>4. CASE TurnsLeft' = TurnsLeft /\ StepsLeft' < StepsLeft
      <3>1. Rank'[3] < Rank[3] /\ \A j \in 1..2 : Rank'[j] = Rank[j]
        BY <2>1, <2>4 DEF Rank
      <3> QED
        BY <3>1 DEF Closer
    <2>5. CASE /\ TurnsLeft' = TurnsLeft /\ StepsLeft' = StepsLeft
               /\ Cardinality(waiting') < Cardinality(waiting)
      <3>1. Rank'[4] < Rank[4] /\ \A j \in 1..3 : Rank'[j] = Rank[j]
        BY <2>1, <2>5 DEF Rank
      <3> QED
        BY <3>1 DEF Closer
    <2>6. CASE /\ TurnsLeft' = TurnsLeft /\ StepsLeft' = StepsLeft
               /\ waiting' = waiting
               /\ Cardinality(ObjectsOn(stack')) < Cardinality(ObjectsOn(stack))
      <3>1. Rank'[5] < Rank[5] /\ \A j \in 1..4 : Rank'[j] = Rank[j]
        BY <2>1, <2>6 DEF Rank
      <3> QED
        BY <3>1 DEF Closer
    <2>7. CASE /\ TurnsLeft' = TurnsLeft /\ StepsLeft' = StepsLeft
               /\ waiting' = waiting /\ stack' = stack /\ Position' < Position
      <3>1. Rank'[6] < Rank[6] /\ \A j \in 1..5 : Rank'[j] = Rank[j]
        BY <2>1, <2>7 DEF Rank
      <3> QED
        BY <3>1 DEF Closer
    <2>8. CASE /\ TurnsLeft' = TurnsLeft /\ StepsLeft' = StepsLeft
               /\ waiting' = waiting /\ stack' = stack /\ Position' = Position
               /\ PassesLeft' < PassesLeft
      <3>1. Rank'[7] < Rank[7] /\ \A j \in 1..6 : Rank'[j] = Rank[j]
        BY <2>1, <2>8 DEF Rank
      <3> QED
        BY <3>1 DEF Closer
    <2> QED
      BY <2>2, <2>3, <2>4, <2>5, <2>6, <2>7, <2>8 DEF Nearer
  <1>3. CASE inGame' # inGame \/ events' # events
    <2>1. /\ Cardinality(inGame') \in Nat /\ Cardinality(inGame) \in Nat
          /\ Cardinality(inGame') <= Cardinality(inGame)
          /\ inGame' # inGame => Cardinality(inGame') # Cardinality(inGame)
      BY SeatsFinite, FS_Subset DEF TypeOK
    <2>2. Hopes' < Hopes
      BY <1>3, <2>1, BoundsAssumption DEF Hopes, TypeOK
    <2>3. Rank'[1] < Rank[1]
      BY <2>2 DEF Rank
    <2> QED
      BY <2>3 DEF Closer
  <1> QED
    BY <1>2, <1>3

(* A step of the turn is begun with nothing on the stack.                  *)
LEMMA SettledNext ==
  ASSUME IInv, Settled, [Next]_vars
  PROVE  Settled'
  <1>1. ASSUME NEW seat \in Seats, Asked("priority", seat)
        PROVE  decision.kind = "priority" /\ todo = "answer"
    BY <1>1, AskedFacts DEF DecisionKinds
  <1>2. ASSUME NEW seat \in Seats, AnswerPass(seat) PROVE Settled'
    BY <1>2 DEF AnswerPass, PassPriority, Settled, StackEmpty, tableVars,
                NoDecision
  <1>3. CASE PumpPass
    <2>1. decision = NoDecision
      BY <1>3 DEF PumpPass, IInv, Control
    <2> QED
      BY <1>3, <2>1 DEF PumpPass, PassPriority, Settled, StackEmpty, tableVars,
                        NoDecision
  <1>4. ASSUME NEW seat \in Seats,
               AnswerCast(seat) \/ AnswerMana(seat) \/ AnswerSpecialAction(seat)
        PROVE  Settled'
    <2>1. /\ \E asked : decision' = OrderDecision(asked)
          /\ todo' \in {"answer", "pump"}
      BY <1>4 DEF AnswerCast, AnswerMana, AnswerSpecialAction, Act, Stabilize
    <2> QED
      BY <2>1 DEF Settled, OrderDecision, NoDecision
  <1>5. ASSUME NEW seat \in Seats, AnswerConcede(seat) PROVE Settled'
    BY <1>5 DEF AnswerConcede, Settled, NoDecision
  <1>6. ASSUME NEW seat \in Seats, AnswerOrder(seat) PROVE Settled'
    <2>1. /\ \E asked : decision' = OrderDecision(asked)
          /\ todo' \in {"answer", "grant"}
      BY <1>6 DEF AnswerOrder
    <2> QED
      BY <2>1 DEF Settled, OrderDecision, NoDecision
  <1>7. ASSUME NEW seat \in Seats,
               \/ AnswerDraw(seat) \/ AnswerAttackers(seat)
               \/ AnswerCombat(seat) \/ AnswerDiscard(seat)
        PROVE  Settled'
    <2>1. StackEmpty /\ stack' = stack
      BY <1>7 DEF AnswerDraw, AnswerAttackers, AnswerCombat, AnswerDiscard,
                  Asked, Settled, tableVars
    <2> QED
      BY <2>1 DEF Settled, StackEmpty
  <1>8. CASE GrantPriority \/ FinishCleanup
    <2>1. /\ \E asked : decision' = OrderDecision(asked)
          /\ todo' \in {"answer", "pump", "grant", "begin_turn"}
      BY <1>8 DEF GrantPriority, FinishCleanup, Stabilize
    <2> QED
      BY <2>1 DEF Settled, OrderDecision, NoDecision
  <1>9. CASE PumpAsk
    BY <1>9 DEF PumpAsk, Settled
  <1>10. CASE ResolveStackObject
    <2>1. decision' = NoDecision
      BY <1>10 DEF ResolveStackObject, IInv, Control
    <2> QED
      BY <1>10, <2>1 DEF ResolveStackObject, Settled, NoDecision
  <1>11. CASE \/ EnterUntap \/ EnterPriorityStep \/ EnterDraw \/ RefuseDraw
              \/ EnterDeclareAttackers \/ EnterCombatStep \/ EnterCleanup
              \/ AdvanceStep
    <2>1. todo \in {"enter", "advance"} /\ stack' = stack
      BY <1>11 DEF EnterUntap, EnterPriorityStep, EnterDraw, RefuseDraw,
                   EnterDeclareAttackers, EnterCombatStep, EnterCleanup, Enter,
                   AdvanceStep, tableVars
    <2> QED
      BY <2>1 DEF Settled, StackEmpty
  <1>12. CASE BeginExtraTurn \/ BeginNormalTurn
    <2>1. todo = "begin_turn" /\ stack' = stack
      BY <1>12 DEF BeginExtraTurn, BeginNormalTurn, BeginTurnOf
    <2> QED
      BY <2>1 DEF Settled, StackEmpty, IInv, TurnEndsQuiet
  <1>13. CASE UNCHANGED vars
    BY <1>13 DEF vars, tableVars, Settled, StackEmpty
  <1> QED
    BY <1>2, <1>3, <1>4, <1>5, <1>6, <1>7, <1>8, <1>9, <1>10, <1>11, <1>12, <1>13
    DEF Next, Answer, Engine, Finished

(* What state-based actions and trigger placement do when nobody leaves    *)
(* and nobody has to order triggers.                                       *)
LEMMA QuietStabilize ==
  ASSUME TypeOK, Table, NEW asked \in inGame \cup {NoSeat},
         Stabilize(doomed, waiting, stack, asked), ~Stopped, inGame' = inGame
  PROVE  /\ doomed = {}
         /\ \/ waiting = {} /\ waiting' = {} /\ stack' = stack
            \/ Cardinality(waiting') < Cardinality(waiting)
  <1>1. doomed = {}
    BY DEF Stabilize, Leave, Table
  <1>2. asked = NoSeat
    BY DEF Stabilize, Stopped, OrderDecision, NoDecision
  <1>3. WithoutObjectsOf({}, stack) = stack
    BY DEF WithoutObjectsOf, TypeOK
  <1>4. PlaceGroups(NoSeat, waiting, inGame, stack)
    BY <1>1, <1>2, <1>3 DEF Stabilize, Stopped
  <1>5. waiting' = {}
    BY <1>4 DEF PlaceGroups, PlacedBefore
  <1>6. CASE waiting = {}
    <2>1. stack' = [s \in Seats |-> stack[s]]
      BY <1>4, <1>6 DEF PlaceGroups, PlacedBefore
    <2> QED
      BY <1>1, <1>5, <1>6, <2>1 DEF TypeOK
  <1>7. CASE waiting # {}
    <2>1. IsFiniteSet(waiting) /\ Cardinality(waiting) \in Nat
      BY SeatsFinite DEF TypeOK
    <2>2. Cardinality(waiting) # 0
      BY <1>7, <2>1, FS_EmptySet
    <2>3. Cardinality(waiting') = 0
      BY <1>5, FS_EmptySet
    <2> QED
      BY <1>1, <2>1, <2>2, <2>3
  <1> QED
    BY <1>6, <1>7

(* Every call the engine makes brings it closer to its next question.      *)
LEMMA EngineFalls ==
  ASSUME IInv, IInv', Settled, ~AutoPass, Engine
  PROVE  todo' = "answer" \/ Closer
  <1> SUFFICES ASSUME todo' # "answer" PROVE Closer
    OBVIOUS
  <1>1. TypeOK /\ TypeOK'
    BY DEF IInv
  <1>2. CASE GrantPriority
    <2>1. PICK asked \in inGame \cup {NoSeat} :
            Stabilize(doomed, waiting, stack, asked)
      BY <1>2 DEF GrantPriority
    <2>2. /\ todo = "grant" /\ todo' = "pump" /\ ~Stopped
          /\ activePlayer \in inGame' => priorityPlayer' = activePlayer
          /\ UNCHANGED <<activePlayer, phaseIndex, secondStrike, yields, events>>
      BY <1>2 DEF GrantPriority, turnVars, combatVars
    <2>3. inGame' \subseteq inGame
      BY <2>1 DEF Stabilize, Leave
    <2>4. ASSUME inGame' = inGame PROVE (Fresh => Fresh') /\ Nearer
      <3>1. \/ waiting' = waiting /\ stack' = stack
            \/ Cardinality(waiting') < Cardinality(waiting)
        BY <1>1, <2>1, <2>2, <2>4, QuietStabilize DEF IInv
      <3>2. Position' < Position
        BY <2>2 DEF Position
      <3>3. StepsLeft' = StepsLeft
        BY <2>2 DEF StepsLeft
      <3>4. Fresh => Fresh'
        BY <2>2, <2>4 DEF Fresh, Untap, Upkeep
      <3> QED
        BY <3>1, <3>2, <3>3, <3>4 DEF Nearer
    <2>5. events <= events'
      BY <1>1, <2>2, BoundsAssumption DEF TypeOK
    <2> QED
      BY <1>1, <2>3, <2>4, <2>5, Falls
  <1>3. CASE PumpPass
    <2>1. /\ todo = "pump" /\ priorityPlayer \in yields
          /\ PassPriority(priorityPlayer)
          /\ UNCHANGED <<inGame, events, stack, phaseIndex, secondStrike, waiting>>
      BY <1>3 DEF PumpPass, tableVars, combatVars
    <2>2. ~Fresh
      BY <2>1 DEF Fresh
    <2>3. StepsLeft' = StepsLeft
      BY <2>1 DEF StepsLeft
    <2>4. Nearer
      <3>1. CASE todo' \in {"advance", "resolve"}
        <4>1. Position' < Position
          BY <2>1, <3>1 DEF Position
        <4> QED
          BY <2>1, <2>3, <4>1 DEF Nearer
      <3>2. CASE /\ todo' = "pump" /\ priorityPlayer \notin priorityPasses
                 /\ priorityPasses' = priorityPasses \cup {priorityPlayer}
        <4>1. Position' = Position
          BY <2>1, <3>2 DEF Position
        <4>2. Cardinality(priorityPasses') = Cardinality(priorityPasses) + 1
              /\ Cardinality(priorityPasses) \in Nat
          BY <1>1, <3>2, SeatsFinite, FS_AddElement DEF TypeOK
        <4>3. PassesLeft' < PassesLeft
          BY <4>2, SeatsAssumption DEF PassesLeft
        <4> QED
          BY <2>1, <2>3, <4>1, <4>3 DEF Nearer
      <3> QED
        BY <2>1, <3>1, <3>2 DEF PassPriority
    <2>5. events <= events'
      BY <1>1, <2>1, BoundsAssumption DEF TypeOK
    <2> QED
      BY <1>1, <2>1, <2>2, <2>4, <2>5, Falls
  <1>4. CASE PumpAsk \/ RefuseDraw
    BY <1>4 DEF PumpAsk, RefuseDraw
  <1>5. CASE ResolveStackObject
    <2>1. PICK controller \in Seats :
            /\ stack[controller] > 0
            /\ stack' = [stack EXCEPT ![controller] = @ - 1]
      BY <1>5 DEF ResolveStackObject
    <2>2. /\ todo = "resolve" /\ todo' = "grant"
          /\ UNCHANGED <<inGame, phaseIndex, secondStrike>>
          /\ HappenLater(0) \/ HappenLater(1)
      BY <1>5 DEF ResolveStackObject, combatVars
    <2>3. events <= events'
      <3>1. \A extra \in {0, 1} : HappenLater(extra) => events + extra <= events'
        BY <1>1, HappenLaterCounts DEF IInv
      <3> QED
        BY <1>1, <2>2, <3>1, BoundsAssumption DEF TypeOK
    <2>4. ASSUME events' = events PROVE waiting' = waiting
      BY <1>1, <2>2, <2>4, HappenLaterQuiet
    <2>5. Cardinality(ObjectsOn(stack')) < Cardinality(ObjectsOn(stack))
      BY <1>1, <2>1, ObjectLeaves DEF TypeOK
    <2>6. StepsLeft' = StepsLeft
      BY <2>2 DEF StepsLeft
    <2>7. ~Fresh
      BY <2>2 DEF Fresh
    <2> QED
      BY <1>1, <2>2, <2>3, <2>4, <2>5, <2>6, <2>7, Falls DEF Nearer
  <1>6. CASE EnterUntap \/ EnterPriorityStep \/ EnterDraw
               \/ EnterDeclareAttackers \/ EnterCombatStep \/ EnterCleanup
    <2>1. /\ todo = "enter"
          /\ UNCHANGED <<inGame, stack, activePlayer, phaseIndex, yields>>
          /\ HappenLater(0) \/ UNCHANGED <<waiting, doomed, events>>
          /\ phaseIndex = CombatDamage => UNCHANGED secondStrike
      BY <1>6 DEF EnterUntap, EnterPriorityStep, EnterDraw,
                  EnterDeclareAttackers, EnterCombatStep, EnterCleanup, Enter,
                  tableVars, turnVars, combatVars, CombatDamage, BeginningCombat
    <2>2. IF phaseIndex = Cleanup THEN todo' = "finish_cleanup"
                                  ELSE todo' \in {"advance", "grant"}
      BY <1>6 DEF EnterUntap, EnterPriorityStep, EnterDraw,
                  EnterDeclareAttackers, EnterCombatStep, EnterCleanup, Enter,
                  Untap, Upkeep, Draw, PrecombatMain, BeginningCombat,
                  DeclareAttackers, DeclareBlockers, CombatDamage, EndCombat,
                  PostcombatMain, EndStep, Cleanup
    <2>3. Position' < Position
      BY <2>1, <2>2 DEF Position
    <2>4. StepsLeft' = StepsLeft
      BY <2>1 DEF StepsLeft
    <2>5. events <= events'
      <3>1. HappenLater(0) => events + 0 <= events'
        BY <1>1, HappenLaterCounts DEF IInv
      <3> QED
        BY <1>1, <2>1, <3>1, BoundsAssumption DEF TypeOK
    <2>6. ASSUME events' = events PROVE waiting' = waiting
      BY <1>1, <2>1, <2>6, HappenLaterQuiet
    <2>7. Fresh => Fresh'
      <3>1. CASE phaseIndex = Untap
        <4>1. todo' = "advance"
          BY <1>6, <3>1 DEF EnterUntap, EnterPriorityStep, EnterDraw,
                  EnterDeclareAttackers, EnterCombatStep, EnterCleanup, Enter,
                  Untap, Upkeep, Draw, PrecombatMain, BeginningCombat,
                  DeclareAttackers, DeclareBlockers, CombatDamage, EndCombat,
                  PostcombatMain, EndStep, Cleanup
        <4> QED
          BY <2>1, <3>1, <4>1 DEF Fresh
      <3>2. CASE phaseIndex = Upkeep
        <4>1. todo' = "grant"
          BY <1>6, <3>2 DEF EnterUntap, EnterPriorityStep, EnterDraw,
                  EnterDeclareAttackers, EnterCombatStep, EnterCleanup, Enter,
                  Untap, Upkeep, Draw, PrecombatMain, BeginningCombat,
                  DeclareAttackers, DeclareBlockers, CombatDamage, EndCombat,
                  PostcombatMain, EndStep, Cleanup
        <4> QED
          BY <2>1, <3>2, <4>1 DEF Fresh
      <3> QED
        BY <3>1, <3>2 DEF Fresh
    <2> QED
      BY <1>1, <2>1, <2>3, <2>4, <2>5, <2>6, <2>7, Falls DEF Nearer
  <1>7. CASE AdvanceStep
    <2>1. /\ todo = "advance" /\ todo' = "enter"
          /\ UNCHANGED <<inGame, stack, waiting, activePlayer, yields, events>>
      BY <1>7 DEF AdvanceStep, tableVars, turnVars
    <2>2. \/ StepsLeft' < StepsLeft
          \/ StepsLeft' = StepsLeft /\ phaseIndex = Cleanup /\ phaseIndex' = Cleanup
      <3>1. phaseIndex \in 1..12
        BY <1>1 DEF TypeOK, Steps
      <3>2. CASE phaseIndex = DeclareAttackers /\ phaseIndex' = EndCombat
        BY <3>2 DEF StepsLeft, DeclareAttackers, EndCombat, CombatDamage, Cleanup
      <3>3. CASE /\ phaseIndex = CombatDamage /\ ~secondStrike
                 /\ secondStrike' = TRUE /\ phaseIndex' = phaseIndex
        BY <3>3 DEF StepsLeft, CombatDamage, Cleanup
      <3>4. CASE phaseIndex # Cleanup /\ phaseIndex' = phaseIndex + 1
        BY <3>1, <3>4 DEF StepsLeft, CombatDamage, Cleanup
      <3>5. CASE phaseIndex = Cleanup /\ phaseIndex' = Cleanup
        BY <3>5 DEF StepsLeft, CombatDamage, Cleanup
      <3> QED
        BY <1>7, <3>2, <3>3, <3>4, <3>5 DEF AdvanceStep, StepAfter
    <2>3. Nearer
      <3>1. CASE phaseIndex = Cleanup /\ phaseIndex' = Cleanup
        <4>1. Position' < Position
          BY <2>1, <3>1 DEF Position
        <4> QED
          BY <2>1, <2>2, <4>1 DEF Nearer
      <3> QED
        BY <2>2, <3>1 DEF Nearer
    <2>4. Fresh => Fresh'
      <3>1. phaseIndex = Untap => phaseIndex' = Upkeep
        BY <1>7 DEF AdvanceStep, StepAfter, Untap, Upkeep, DeclareAttackers,
                    CombatDamage, Cleanup
      <3> QED
        BY <2>1, <3>1 DEF Fresh
    <2>5. events <= events'
      BY <1>1, <2>1, BoundsAssumption DEF TypeOK
    <2> QED
      BY <1>1, <2>1, <2>3, <2>4, <2>5, Falls
  <1>8. CASE FinishCleanup
    <2>1. PICK asked \in inGame \cup {NoSeat} :
            Stabilize(doomed, waiting, stack, asked)
      BY <1>8 DEF FinishCleanup
    <2>2. /\ todo = "finish_cleanup" /\ ~Stopped
          /\ UNCHANGED <<phaseIndex, secondStrike>>
          /\ \/ CleanupReasons /\ UNCHANGED events
             \/ events' = events + 1
             \/ todo' = "begin_turn" /\ UNCHANGED events
      BY <1>8 DEF FinishCleanup, combatVars
    <2>3. inGame' \subseteq inGame
      BY <2>1 DEF Stabilize, Leave
    <2>4. events <= events'
      BY <1>1, <2>2, BoundsAssumption DEF TypeOK
    <2>5. StepsLeft' = StepsLeft /\ ~Fresh
      BY <2>2 DEF StepsLeft, Fresh
    <2>6. StackEmpty
      BY <2>2 DEF Settled
    <2>7. ASSUME inGame' = inGame, events' = events PROVE Nearer
      <3>1. /\ doomed = {}
            /\ \/ waiting = {} /\ waiting' = {} /\ stack' = stack
               \/ Cardinality(waiting') < Cardinality(waiting)
        BY <1>1, <2>1, <2>2, <2>7, QuietStabilize DEF IInv
      <3>2. CASE Cardinality(waiting') < Cardinality(waiting)
        BY <2>5, <3>2 DEF Nearer
      <3>3. CASE waiting' = waiting /\ stack' = stack
        <4>1. ~CleanupReasons
          BY <2>6, <3>1, <3>3 DEF CleanupReasons, StackEmpty
        <4>2. events' # events + 1
          BY <1>1, <2>7, BoundsAssumption DEF TypeOK
        <4>3. Position' < Position
          BY <2>2, <4>1, <4>2 DEF Position
        <4> QED
          BY <2>5, <3>3, <4>3 DEF Nearer
      <3> QED
        BY <3>1, <3>2, <3>3
    <2> QED
      BY <1>1, <2>3, <2>4, <2>5, <2>7, Falls
  <1>9. CASE BeginExtraTurn \/ BeginNormalTurn
    <2>1. PICK player \in inGame : BeginTurnOf(player) /\ todo = "begin_turn"
      BY <1>9 DEF BeginExtraTurn, BeginNormalTurn
    <2>2. ~Fresh /\ Fresh'
      BY <2>1 DEF BeginTurnOf, Fresh
    <2>3. TurnsLeft' < TurnsLeft
      BY <2>2 DEF TurnsLeft
    <2>4. UNCHANGED <<inGame, events>> /\ events <= events'
      BY <1>1, <2>1, BoundsAssumption DEF BeginTurnOf, TypeOK
    <2> QED
      BY <1>1, <2>3, <2>4, Falls
  <1> QED
    BY <1>2, <1>3, <1>4, <1>5, <1>6, <1>7, <1>8, <1>9 DEF Engine

(* Where seats pass for themselves, every call the engine makes is the     *)
(* last one before its next question or makes Rank fall, seven natural     *)
(* numbers of which the first that changes gets smaller: one answer causes *)
(* finitely many calls, yields and all, because a yield is forgotten when  *)
(* its seat's turn begins, before that seat's first window (EngineStops    *)
(* says the same of every fair behaviour).                                 *)
THEOREM EngineRunsOut ==
  Spec => /\ [](\A i \in 1..7 : Rank[i] \in Nat)
          /\ [][~AutoPass /\ Engine => todo' = "answer" \/ Closer]_vars
  <1>1. Init => IInv /\ Settled
    BY InitInv DEF Init, Settled, StackEmpty
  <1>2. IInv /\ Settled /\ [Next]_vars => (IInv /\ Settled)'
    BY NextInv, SettledNext
  <1>3. IInv => \A i \in 1..7 : Rank[i] \in Nat
    <2> SUFFICES ASSUME IInv PROVE \A i \in 1..7 : Rank[i] \in Nat
      OBVIOUS
    <2>1. /\ Hopes \in Nat /\ TurnsLeft \in Nat /\ StepsLeft \in Nat
          /\ Cardinality(waiting) \in Nat
          /\ Cardinality(ObjectsOn(stack)) \in Nat
          /\ Position \in Nat /\ PassesLeft \in Nat
      BY RankNatural DEF IInv
    <2> QED
      BY <2>1 DEF Rank
  <1>4. IInv /\ IInv' /\ Settled /\ [Next]_vars =>
          [~AutoPass /\ Engine => todo' = "answer" \/ Closer]_vars
    BY EngineFalls
  <1> QED
    BY <1>1, <1>2, <1>3, <1>4, PTL DEF Spec

-----------------------------------------------------------------------------
(* The turns go round: whatever seats answer, the table comes nearer to    *)
(* the turn of each of them.                                               *)

\* A group that is being ordered still waits.
Ordered == decision.kind = "trigger.order" => decision.actor \in waiting

(* The places in APNAP order are numbers.                                  *)
LEMMA APNAPPlace ==
  ASSUME NEW a \in Seats, NEW b \in Seats
  PROVE  (a - b) % N \in 0..(N - 1)
  <1>1. a - b \in Int /\ N \in Nat /\ N > 0
    BY SeatsAssumption DEF Seats
  <1> QED
    BY <1>1

LEMMA APNAPIrreflexive ==
  ASSUME TypeOK, NEW a \in Seats, NEW present
  PROVE  ~APNAPBefore(a, a, present)
  <1>1. (a - activePlayer) % N \in 0..(N - 1)
    BY APNAPPlace DEF TypeOK
  <1> QED
    BY <1>1 DEF APNAPBefore, Seats

(* A group that has to be ordered is not placed.                           *)
LEMMA PlaceOrders ==
  ASSUME TypeOK, NEW asked \in Seats \cup {NoSeat}, NEW groups, NEW present,
         NEW objects, PlaceGroups(asked, groups, present, objects),
         decision' = OrderDecision(asked)
  PROVE  Ordered'
  <1>1. CASE asked = NoSeat
    BY <1>1 DEF OrderDecision, NoDecision, Ordered
  <1>2. CASE asked # NoSeat
    <2>1. asked \in groups /\ asked \in Seats
      BY <1>2 DEF PlaceGroups
    <2>2. asked \notin PlacedBefore(asked, groups, present)
      BY <1>2, <2>1, APNAPIrreflexive DEF PlacedBefore
    <2>3. asked \in waiting' /\ decision'.actor = asked
      BY <1>2, <2>1, <2>2 DEF PlaceGroups, OrderDecision
    <2> QED
      BY <2>3 DEF Ordered
  <1> QED
    BY <1>1, <1>2

LEMMA StabilizeOrders ==
  ASSUME TypeOK, NEW losers, NEW groups, NEW objects,
         NEW asked \in inGame \cup {NoSeat},
         Stabilize(losers, groups, objects, asked)
  PROVE  Ordered'
  <1>1. decision' = OrderDecision(asked) /\ asked \in Seats \cup {NoSeat}
    BY DEF Stabilize, TypeOK
  <1>2. CASE gameOver'
    BY <1>1, <1>2 DEF Stabilize, OrderDecision, NoDecision, Ordered
  <1>3. CASE ~gameOver'
    BY <1>1, <1>3, PlaceOrders DEF Stabilize
  <1> QED
    BY <1>2, <1>3

LEMMA OrderedNext ==
  ASSUME IInv, Ordered, [Next]_vars
  PROVE  Ordered'
  <1>1. TypeOK
    BY DEF IInv
  <1>2. ASSUME NEW seat \in Seats,
               AnswerSpecialAction(seat) \/ AnswerCast(seat) \/ AnswerMana(seat)
        PROVE  Ordered'
    BY <1>1, <1>2, StabilizeOrders DEF AnswerSpecialAction, AnswerCast, AnswerMana, Act
  <1>3. CASE GrantPriority \/ FinishCleanup
    BY <1>1, <1>3, StabilizeOrders DEF GrantPriority, FinishCleanup
  <1>4. ASSUME NEW seat \in Seats, AnswerOrder(seat)
        PROVE  Ordered'
    BY <1>1, <1>4, PlaceOrders DEF AnswerOrder, TypeOK
  <1>5. ASSUME NEW seat \in Seats, AnswerPass(seat) \/ AnswerConcede(seat)
        PROVE  Ordered'
    BY <1>5 DEF AnswerPass, AnswerConcede, NoDecision, Ordered
  <1>6. ASSUME NEW seat \in Seats,
               \/ AnswerDraw(seat) \/ AnswerAttackers(seat)
               \/ AnswerCombat(seat) \/ AnswerDiscard(seat)
        PROVE  Ordered'
    <2>1. decision'.kind # "trigger.order"
      BY <1>6 DEF AnswerDraw, AnswerAttackers, AnswerCombat, AnswerDiscard,
                  NoDecision, Asked
    <2> QED
      BY <2>1 DEF Ordered
  <1>7. CASE todo # "answer" /\ Engine /\ ~GrantPriority /\ ~FinishCleanup
    <2>1. decision = NoDecision
      BY <1>7 DEF IInv, Control
    <2>2. decision'.kind # "trigger.order"
      BY <1>7, <2>1 DEF Engine, PumpPass, PumpAsk, ResolveStackObject, EnterUntap,
         EnterPriorityStep, EnterDraw, RefuseDraw, EnterDeclareAttackers,
         EnterCombatStep, EnterCleanup, AdvanceStep, BeginExtraTurn,
         BeginNormalTurn, BeginTurnOf, NoDecision
    <2> QED
      BY <2>2 DEF Ordered
  <1>8. CASE UNCHANGED vars
    BY <1>8 DEF vars, Ordered
  <1>9. Engine => todo # "answer"
    BY DEF Engine, GrantPriority, PumpPass, PumpAsk, ResolveStackObject, EnterUntap,
       EnterPriorityStep, EnterDraw, RefuseDraw, EnterDeclareAttackers,
       EnterCombatStep, EnterCleanup, AdvanceStep, FinishCleanup, BeginExtraTurn,
       BeginNormalTurn, Enter
  <1> QED
    BY <1>2, <1>3, <1>4, <1>5, <1>6, <1>7, <1>8, <1>9 DEF Next, Answer, Finished

(* To act is an event of its own.                                          *)
LEMMA ActSpends ==
  ASSUME TypeOK, NEW seat \in Seats,
         AnswerSpecialAction(seat) \/ AnswerCast(seat) \/ AnswerMana(seat)
  PROVE  inGame' \subseteq inGame /\ events < events' /\ events <= events'
  <1>1. PICK losing \in SUBSET inGame, triggering \in SUBSET inGame :
          Happen(losing, triggering, 1) /\ Leave(losing)
    BY DEF AnswerSpecialAction, AnswerCast, AnswerMana, Act, Stabilize
  <1>2. events + 1 <= events' /\ events' \in 0..MaxEvents /\ events \in Nat
    BY <1>1, HappenCounts, BoundsAssumption DEF TypeOK
  <1> QED
    BY <1>1, <1>2, BoundsAssumption DEF Leave

(* Nobody comes back, and events are only used up.                         *)
LEMMA StepCounts ==
  ASSUME IInv, [Next]_vars
  PROVE  inGame' \subseteq inGame /\ events <= events'
  <1>1. TypeOK /\ Table /\ events \in Nat
    BY BoundsAssumption DEF IInv, TypeOK
  <1>2. ASSUME NEW extra \in {0, 1}, HappenLater(extra)
        PROVE  events <= events'
    <2>1. events + extra <= events' /\ events' \in 0..MaxEvents
      BY <1>1, <1>2, HappenLaterCounts
    <2> QED
      BY <1>1, <2>1, BoundsAssumption
  <1>3. ASSUME NEW seat \in Seats,
               AnswerSpecialAction(seat) \/ AnswerCast(seat) \/ AnswerMana(seat)
        PROVE  inGame' \subseteq inGame /\ events <= events'
    BY <1>1, <1>3, ActSpends
  <1>4. ASSUME NEW seat \in Seats,
               AnswerPass(seat) \/ AnswerConcede(seat) \/ AnswerOrder(seat)
        PROVE  inGame' \subseteq inGame /\ events <= events'
    BY <1>1, <1>4 DEF AnswerPass, AnswerConcede, AnswerOrder, Leave, tableVars
  <1>5. ASSUME NEW seat \in Seats,
               \/ AnswerDraw(seat) \/ AnswerAttackers(seat)
               \/ AnswerCombat(seat) \/ AnswerDiscard(seat)
        PROVE  inGame' = inGame /\ events <= events'
    BY <1>2, <1>5 DEF AnswerDraw, AnswerAttackers, AnswerCombat, AnswerDiscard,
                      tableVars
  <1>6. CASE GrantPriority \/ FinishCleanup
    BY <1>1, <1>6 DEF GrantPriority, FinishCleanup, Stabilize, Leave
  <1>7. CASE PumpPass \/ PumpAsk \/ RefuseDraw \/ AdvanceStep \/ BeginExtraTurn
               \/ BeginNormalTurn
    BY <1>1, <1>7 DEF PumpPass, PumpAsk, RefuseDraw, AdvanceStep, BeginExtraTurn,
                      BeginNormalTurn, BeginTurnOf, tableVars
  <1>8. CASE \/ ResolveStackObject \/ EnterUntap \/ EnterPriorityStep \/ EnterDraw
             \/ EnterDeclareAttackers \/ EnterCombatStep \/ EnterCleanup
    <2>1. /\ inGame' = inGame
          /\ HappenLater(0) \/ HappenLater(1) \/ events' = events
      BY <1>8 DEF ResolveStackObject, EnterUntap, EnterPriorityStep, EnterDraw,
         EnterDeclareAttackers, EnterCombatStep, EnterCleanup, Enter, tableVars
    <2> QED
      BY <1>1, <1>2, <2>1
  <1>9. CASE UNCHANGED vars
    BY <1>1, <1>9 DEF vars, tableVars
  <1> QED
    BY <1>1, <1>3, <1>4, <1>5, <1>6, <1>7, <1>8, <1>9
    DEF Next, Answer, Engine, Finished

\* How far the step has come, its questions among the calls.
Place ==
  CASE todo = "begin_turn"     -> 1
    [] todo = "finish_cleanup" -> 2
    [] todo = "enter"          -> IF phaseIndex = Cleanup THEN 4 ELSE 10
    [] todo = "advance"        -> 5
    [] todo = "resolve"        -> 6
    [] todo = "pump"           -> 7
    [] todo = "grant"          -> 8
    [] todo = "answer"         ->
         CASE decision.kind = "cleanup.discard" -> 3
           [] decision.kind = "priority"        -> 7
           [] decision.kind \in {"draw", "combat.attackers", "combat"} -> 9
           [] OTHER -> 0

\* The seats that choose after this one in a combat.
ChooseAfter(seat) == {t \in inGame : APNAPBefore(seat, t, inGame)}

\* A priority is still to be asked about, or a combat still to be chosen in.
Asking ==
  IF todo = "pump" THEN 1
  ELSE IF decision.kind = "combat" THEN Cardinality(ChooseAfter(decision.actor))
  ELSE 0

\* What is left before the turn of seat s, from the whole game down to one
\* question.
Ahead(s) ==
  <<Hopes, Distance(lastNormal, s), Cardinality(extraTurns), StepsLeft,
    Cardinality(waiting), Cardinality(ObjectsOn(stack)), Place, PassesLeft,
    Asking>>

CloserTurn(s) ==
  \E i \in 1..9 :
    /\ Ahead(s)'[i] < Ahead(s)[i]
    /\ \A j \in 1..(i - 1) : Ahead(s)'[j] = Ahead(s)[j]

\* The same, for the steps that no event and no departure explains.
InStep ==
  \/ Place' < Place
  \/ Place' = Place /\ PassesLeft' < PassesLeft
  \/ Place' = Place /\ PassesLeft' = PassesLeft /\ Asking' < Asking

InTurn ==
  \/ StepsLeft' < StepsLeft
  \/ /\ StepsLeft' = StepsLeft
     /\ \/ Cardinality(waiting') < Cardinality(waiting)
        \/ /\ waiting' = waiting
           /\ \/ Cardinality(ObjectsOn(stack')) < Cardinality(ObjectsOn(stack))
              \/ stack' = stack /\ InStep

InRotation(s) ==
  \/ Distance(lastNormal', s) < Distance(lastNormal, s)
  \/ /\ lastNormal' = lastNormal
     /\ \/ Cardinality(extraTurns') < Cardinality(extraTurns)
        \/ extraTurns' = extraTurns /\ InTurn

(* The numbers ahead of a seat are natural.                                *)
LEMMA ExtraTurnsFinite ==
  ASSUME NEW S \in SUBSET ExtraTurn
  PROVE  IsFiniteSet(S) /\ Cardinality(S) \in Nat
  <1> DEFINE pairs == Seats \X (1..MaxEvents)
             f == [q \in pairs |-> [player |-> q[1], ref |-> q[2]]]
  <1>1. IsFiniteSet(pairs)
    <2>1. IsFiniteSet(1..MaxEvents)
      BY BoundsAssumption, FS_Interval
    <2> QED
      BY <2>1, SeatCount, FS_Product
  <1>2. f \in Surjection(pairs, ExtraTurn)
    <2>1. f \in [pairs -> ExtraTurn]
      BY DEF ExtraTurn
    <2>2. ASSUME NEW t \in ExtraTurn PROVE \E q \in pairs : f[q] = t
      <3>1. <<t.player, t.ref>> \in pairs
        BY DEF ExtraTurn
      <3>2. f[<<t.player, t.ref>>] = t
        BY <3>1 DEF ExtraTurn
      <3> QED
        BY <3>1, <3>2
    <2> HIDE DEF f, pairs
    <2> QED
      BY <2>1, <2>2 DEF Surjection
  <1>3. IsFiniteSet(ExtraTurn)
    <2> HIDE DEF f, pairs
    <2> QED
      BY <1>1, <1>2, FS_Surjection
  <1> QED
    BY <1>3, FS_Subset, FS_CardinalityType

LEMMA AheadNatural ==
  ASSUME TypeOK, NEW s \in Seats
  PROVE  /\ Hopes \in Nat /\ Distance(lastNormal, s) \in Nat
         /\ Cardinality(extraTurns) \in Nat /\ StepsLeft \in Nat
         /\ Cardinality(waiting) \in Nat
         /\ Cardinality(ObjectsOn(stack)) \in Nat
         /\ Place \in Nat /\ PassesLeft \in Nat /\ Asking \in Nat
  <1>1. /\ Hopes \in Nat /\ StepsLeft \in Nat /\ Cardinality(waiting) \in Nat
        /\ Cardinality(ObjectsOn(stack)) \in Nat /\ PassesLeft \in Nat
    BY RankNatural
  <1>2. Distance(lastNormal, s) \in Nat
    BY SeatsAssumption DEF Distance, TypeOK, Seats
  <1>3. Cardinality(extraTurns) \in Nat
    BY ExtraTurnsFinite DEF TypeOK
  <1>4. Place \in Nat
    BY DEF Place, TypeOK, Calls
  <1>5. Asking \in Nat
    <2>1. ChooseAfter(decision.actor) \in SUBSET Seats
      BY DEF ChooseAfter, TypeOK
    <2> QED
      BY <2>1, SeatsFinite DEF Asking
  <1> QED
    BY <1>1, <1>2, <1>3, <1>4, <1>5

LEMMA TurnFalls ==
  ASSUME TypeOK, TypeOK', NEW s \in Seats,
         inGame' \subseteq inGame, events <= events',
         inGame' = inGame /\ events' = events => InRotation(s)
  PROVE  CloserTurn(s)
  <1>1. CASE inGame' = inGame /\ events' = events
    <2>1. Hopes' = Hopes
      BY <1>1 DEF Hopes
    <2>2. InRotation(s)
      BY <1>1
    <2>3. CASE Distance(lastNormal', s) < Distance(lastNormal, s)
      <3>1. Ahead(s)'[2] < Ahead(s)[2] /\ \A j \in 1..1 : Ahead(s)'[j] = Ahead(s)[j]
        BY <2>1, <2>3 DEF Ahead, Distance
      <3> QED
        BY <3>1 DEF CloserTurn
    <2>4. CASE /\ lastNormal' = lastNormal
               /\ Cardinality(extraTurns') < Cardinality(extraTurns)
      <3>1. Ahead(s)'[3] < Ahead(s)[3] /\ \A j \in 1..2 : Ahead(s)'[j] = Ahead(s)[j]
        BY <2>1, <2>4 DEF Ahead, Distance
      <3> QED
        BY <3>1 DEF CloserTurn
    <2>5. CASE lastNormal' = lastNormal /\ extraTurns' = extraTurns /\ InTurn
      <3>1. \A j \in 1..3 : Ahead(s)'[j] = Ahead(s)[j]
        BY <2>1, <2>5 DEF Ahead, Distance
      <3>2. CASE StepsLeft' < StepsLeft
        <4>1. Ahead(s)'[4] < Ahead(s)[4]
          BY <3>2 DEF Ahead
        <4> QED
          BY <3>1, <4>1 DEF CloserTurn
      <3>3. CASE /\ StepsLeft' = StepsLeft
                 /\ Cardinality(waiting') < Cardinality(waiting)
        <4>1. Ahead(s)'[5] < Ahead(s)[5] /\ Ahead(s)'[4] = Ahead(s)[4]
          BY <3>3 DEF Ahead
        <4> QED
          BY <3>1, <4>1 DEF CloserTurn
      <3>4. CASE /\ StepsLeft' = StepsLeft /\ waiting' = waiting
                 /\ Cardinality(ObjectsOn(stack')) < Cardinality(ObjectsOn(stack))
        <4>1. /\ Ahead(s)'[6] < Ahead(s)[6]
              /\ \A j \in 4..5 : Ahead(s)'[j] = Ahead(s)[j]
          BY <3>4 DEF Ahead
        <4> QED
          BY <3>1, <4>1 DEF CloserTurn
      <3>5. CASE /\ StepsLeft' = StepsLeft /\ waiting' = waiting /\ stack' = stack
                 /\ InStep
        <4>1. \A j \in 4..6 : Ahead(s)'[j] = Ahead(s)[j]
          BY <3>5 DEF Ahead
        <4>2. \/ Ahead(s)'[7] < Ahead(s)[7]
              \/ Ahead(s)'[7] = Ahead(s)[7] /\ Ahead(s)'[8] < Ahead(s)[8]
              \/ /\ Ahead(s)'[7] = Ahead(s)[7] /\ Ahead(s)'[8] = Ahead(s)[8]
                 /\ Ahead(s)'[9] < Ahead(s)[9]
          BY <3>5 DEF InStep, Ahead
        <4> QED
          BY <3>1, <4>1, <4>2 DEF CloserTurn
      <3> QED
        BY <2>5, <3>2, <3>3, <3>4, <3>5 DEF InTurn
    <2> QED
      BY <2>2, <2>3, <2>4, <2>5 DEF InRotation
  <1>2. CASE inGame' # inGame \/ events' # events
    <2>1. /\ Cardinality(inGame') \in Nat /\ Cardinality(inGame) \in Nat
          /\ Cardinality(inGame') <= Cardinality(inGame)
          /\ inGame' # inGame => Cardinality(inGame') # Cardinality(inGame)
      BY SeatsFinite, FS_Subset DEF TypeOK
    <2>2. Hopes' < Hopes
      BY <1>2, <2>1, BoundsAssumption DEF Hopes, TypeOK
    <2>3. Ahead(s)'[1] < Ahead(s)[1]
      BY <2>2 DEF Ahead
    <2> QED
      BY <2>3 DEF CloserTurn
  <1> QED
    BY <1>1, <1>2

(* State-based actions and trigger placement when nobody leaves: a group   *)
(* less waits, or nothing changes but the question who orders its group.   *)
LEMMA CalmStabilize ==
  ASSUME TypeOK, Table, NEW asked \in inGame \cup {NoSeat},
         Stabilize(doomed, waiting, stack, asked), ~gameOver', inGame' = inGame
  PROVE  /\ doomed = {}
         /\ \/ waiting' = waiting /\ stack' = stack
            \/ Cardinality(waiting') < Cardinality(waiting)
         /\ decision' = NoDecision \/ decision'.kind = "trigger.order"
  <1>1. doomed = {}
    BY DEF Stabilize, Leave, Table
  <1>2. decision' = OrderDecision(asked)
    BY DEF Stabilize
  <1>3. WithoutObjectsOf({}, stack) = stack
    BY DEF WithoutObjectsOf, TypeOK
  <1>4. PlaceGroups(asked, waiting, inGame, stack)
    BY <1>1, <1>3 DEF Stabilize
  <1> DEFINE placed == PlacedBefore(asked, waiting, inGame)
  <1>5. placed \subseteq waiting /\ waiting' = waiting \ placed
    BY <1>4 DEF PlaceGroups, PlacedBefore
  <1>6. stack' = [s \in Seats |-> IF s \in placed THEN stack[s] + 1 ELSE stack[s]]
    BY <1>4 DEF PlaceGroups
  <1> HIDE DEF placed
  <1>7. CASE placed = {}
    <2>1. waiting' = waiting /\ stack' = stack
      BY <1>5, <1>6, <1>7 DEF TypeOK
    <2> QED
      BY <1>1, <1>2, <2>1 DEF OrderDecision
  <1>8. CASE placed # {}
    <2>1. IsFiniteSet(waiting)
      BY SeatsFinite DEF TypeOK
    <2>2. waiting' \subseteq waiting /\ waiting' # waiting
      BY <1>5, <1>8
    <2>3. Cardinality(waiting') < Cardinality(waiting)
      BY <2>1, <2>2, FS_Subset, FS_CardinalityType
    <2> QED
      BY <1>1, <1>2, <2>3 DEF OrderDecision
  <1> QED
    BY <1>7, <1>8

\* Nothing happens that only an event or a departure explains.
Calm ==
  /\ inGame' = inGame /\ events' = events
  /\ ~gameOver' /\ raised' = "none"

(* What seats answer brings the turn nearer to its end.                    *)
LEMMA PassNearer ==
  ASSUME TypeOK, NEW seat \in Seats, PassPriority(seat), raised' = "none",
         UNCHANGED <<phaseIndex, secondStrike, waiting, stack>>,
         todo = "pump" \/ (todo = "answer" /\ decision.kind = "priority")
  PROVE  InTurn
  <1>1. StepsLeft' = StepsLeft
    BY DEF StepsLeft
  <1>2. Place = 7
    BY DEF Place
  <1>3. CASE todo' \in {"advance", "resolve"}
    <2>1. Place' < Place
      BY <1>2, <1>3 DEF Place
    <2> QED
      BY <1>1, <2>1 DEF InTurn, InStep
  <1>4. CASE /\ todo' = "pump" /\ seat \notin priorityPasses
             /\ priorityPasses' = priorityPasses \cup {seat}
    <2>1. Place' = Place
      BY <1>2, <1>4 DEF Place
    <2>2. Cardinality(priorityPasses') = Cardinality(priorityPasses) + 1
          /\ Cardinality(priorityPasses) \in Nat
      BY <1>4, SeatsFinite, FS_AddElement DEF TypeOK
    <2>3. PassesLeft' < PassesLeft
      BY <2>2, SeatsAssumption DEF PassesLeft
    <2> QED
      BY <1>1, <2>1, <2>3 DEF InTurn, InStep
  <1> QED
    BY <1>3, <1>4 DEF PassPriority

LEMMA OrderNearer ==
  ASSUME TypeOK, Ordered, NEW seat \in Seats, AnswerOrder(seat)
  PROVE  InTurn
  <1>1. /\ seat \in waiting
        /\ UNCHANGED <<phaseIndex, secondStrike>>
    BY DEF AnswerOrder, Asked, Ordered, combatVars
  <1>2. StepsLeft' = StepsLeft
    BY <1>1 DEF StepsLeft
  <1>3. waiting' \subseteq waiting \ {seat}
    BY DEF AnswerOrder, PlaceGroups
  <1>4. Cardinality(waiting') < Cardinality(waiting)
    <2>1. IsFiniteSet(waiting) /\ waiting' \subseteq waiting /\ waiting' # waiting
      BY <1>1, <1>3, SeatsFinite DEF TypeOK
    <2> QED
      BY <2>1, FS_Subset, FS_CardinalityType
  <1> QED
    BY <1>2, <1>4 DEF InTurn

(* Who chooses next in a combat has fewer seats after it.                  *)
LEMMA CombatNearer ==
  ASSUME TypeOK, Calm, NEW seat \in Seats, AnswerCombat(seat)
  PROVE  InTurn
  <1>1. /\ todo = "answer" /\ decision = [kind |-> "combat", actor |-> seat]
        /\ UNCHANGED <<stack, phaseIndex, secondStrike, priorityPasses, activePlayer>>
    BY DEF AnswerCombat, Asked, combatVars, tableVars, priorityVars, turnVars
  <1>2. waiting' = waiting
    BY HappenLaterQuiet DEF AnswerCombat, Calm
  <1>3. StepsLeft' = StepsLeft /\ Place = 9 /\ PassesLeft' = PassesLeft
    BY <1>1 DEF StepsLeft, Place, PassesLeft
  <1>4. CASE todo' = "grant"
    <2>1. Place' = 8
      BY <1>4 DEF Place
    <2> QED
      BY <1>1, <1>2, <1>3, <2>1 DEF InTurn, InStep
  <1>5. ASSUME NEW next \in inGame, APNAPBefore(seat, next, inGame),
               decision' = [kind |-> "combat", actor |-> next], todo' = "answer"
        PROVE  InTurn
    <2>1. Place' = Place
      BY <1>3, <1>5 DEF Place
    <2>2. seat \in Seats /\ next \in Seats /\ inGame' = inGame
      BY DEF TypeOK, Calm
    <2>3. ChooseAfter(next)' \subseteq ChooseAfter(seat)
      <3> SUFFICES ASSUME NEW t \in inGame, APNAPBefore(next, t, inGame)
                   PROVE  APNAPBefore(seat, t, inGame)
        BY <1>1, <2>2 DEF ChooseAfter, APNAPBefore
      <3>1. t \in Seats
        BY DEF TypeOK
      <3>2. /\ (seat - activePlayer) % N \in Int /\ (next - activePlayer) % N \in Int
            /\ (t - activePlayer) % N \in Int
        BY <2>2, <3>1, APNAPPlace DEF TypeOK
      <3> QED
        BY <1>5, <2>2, <3>1, <3>2 DEF APNAPBefore, Seats
    <2>4. next \in ChooseAfter(seat) /\ next \notin ChooseAfter(next)'
      <3>1. ~APNAPBefore(next, next, inGame)
        BY <2>2, APNAPIrreflexive
      <3> QED
        BY <1>1, <1>5, <2>2, <3>1 DEF ChooseAfter, APNAPBefore
    <2>5. Cardinality(ChooseAfter(next)') < Cardinality(ChooseAfter(seat))
      <3>1. ChooseAfter(seat) \in SUBSET Seats
        BY DEF ChooseAfter, TypeOK
      <3> QED
        BY <2>3, <2>4, <3>1, SeatsFinite, FS_Subset, FS_CardinalityType
    <2>6. Asking' < Asking
      BY <1>1, <1>5, <2>5 DEF Asking, ChooseAfter
    <2> QED
      BY <1>1, <1>2, <1>3, <2>1, <2>6 DEF InTurn, InStep
  <1> QED
    BY <1>4, <1>5 DEF AnswerCombat

LEMMA ChoiceNearer ==
  ASSUME TypeOK, Calm, NEW seat \in Seats,
         AnswerDraw(seat) \/ AnswerAttackers(seat) \/ AnswerDiscard(seat)
  PROVE  InTurn \/ UNCHANGED vars
  <1>1. /\ todo = "answer"
        /\ decision.kind \in {"draw", "combat.attackers", "cleanup.discard"}
        /\ decision.kind = "cleanup.discard" <=> AnswerDiscard(seat)
        /\ UNCHANGED <<stack, phaseIndex, secondStrike>>
    BY DEF AnswerDraw, AnswerAttackers, AnswerDiscard, Asked, combatVars, tableVars
  <1>2. UNCHANGED <<waiting, doomed>>
    BY HappenLaterQuiet DEF AnswerDraw, AnswerAttackers, AnswerDiscard, Calm
  <1>3. StepsLeft' = StepsLeft
    BY <1>1 DEF StepsLeft
  <1>4. CASE AnswerDraw(seat) /\ UNCHANGED <<decision, todo>>
    BY <1>2, <1>4 DEF AnswerDraw, vars, Calm
  <1>5. CASE (AnswerDraw(seat) \/ AnswerAttackers(seat)) /\ todo' = "grant"
    <2>1. decision.kind \in {"draw", "combat.attackers"}
      BY <1>5 DEF AnswerDraw, AnswerAttackers, Asked
    <2>2. Place' < Place
      BY <1>1, <1>5, <2>1 DEF Place
    <2> QED
      BY <1>1, <1>2, <1>3, <2>2 DEF InTurn, InStep
  <1>6. CASE AnswerDiscard(seat)
    <2>1. todo' = "finish_cleanup" /\ decision.kind = "cleanup.discard"
      BY <1>6 DEF AnswerDiscard, Asked
    <2>2. Place' < Place
      BY <1>1, <2>1 DEF Place
    <2> QED
      BY <1>1, <1>2, <1>3, <2>2 DEF InTurn, InStep
  <1> QED
    BY <1>4, <1>5, <1>6 DEF AnswerDraw, AnswerAttackers

(* So do the calls of the engine within a turn.                            *)
LEMMA GrantNearer ==
  ASSUME TypeOK, Table, Calm, GrantPriority
  PROVE  InTurn
  <1>1. PICK asked \in inGame \cup {NoSeat} :
          Stabilize(doomed, waiting, stack, asked)
    BY DEF GrantPriority
  <1>2. /\ \/ waiting' = waiting /\ stack' = stack
           \/ Cardinality(waiting') < Cardinality(waiting)
        /\ decision' = NoDecision \/ decision'.kind = "trigger.order"
    BY <1>1, CalmStabilize DEF Calm
  <1>3. /\ todo = "grant"
        /\ \/ todo' = "pump"
           \/ todo' = "answer" /\ decision' # NoDecision
        /\ UNCHANGED <<phaseIndex, secondStrike>>
    BY DEF GrantPriority, Stopped, Calm, combatVars
  <1>4. Place' < Place
    BY <1>2, <1>3 DEF Place
  <1>5. StepsLeft' = StepsLeft
    BY <1>3 DEF StepsLeft
  <1> QED
    BY <1>2, <1>4, <1>5 DEF InTurn, InStep

LEMMA FinishNearer ==
  ASSUME TypeOK, Table, Calm, Settled, FinishCleanup
  PROVE  InTurn
  <1>1. PICK asked \in inGame \cup {NoSeat} :
          Stabilize(doomed, waiting, stack, asked)
    BY DEF FinishCleanup
  <1>2. /\ doomed = {}
        /\ \/ waiting' = waiting /\ stack' = stack
           \/ Cardinality(waiting') < Cardinality(waiting)
        /\ decision' = NoDecision \/ decision'.kind = "trigger.order"
    BY <1>1, CalmStabilize DEF Calm
  <1>3. /\ todo = "finish_cleanup" /\ UNCHANGED <<phaseIndex, secondStrike>>
        /\ StackEmpty
    BY DEF FinishCleanup, combatVars, Settled
  <1>4. StepsLeft' = StepsLeft
    BY <1>3 DEF StepsLeft
  <1>5. CASE waiting' = waiting /\ stack' = stack
    <2>1. ~CleanupReasons
      BY <1>2, <1>3, <1>5 DEF CleanupReasons, StackEmpty
    <2>2. events' # events + 1
      BY BoundsAssumption DEF Calm, TypeOK
    <2>3. \/ todo' = "begin_turn"
          \/ todo' = "answer" /\ decision' # NoDecision
      BY <2>1, <2>2 DEF FinishCleanup, Stopped, Calm
    <2>4. Place' < Place
      BY <1>2, <1>3, <2>3 DEF Place
    <2> QED
      BY <1>4, <1>5, <2>4 DEF InTurn, InStep
  <1> QED
    BY <1>2, <1>4, <1>5 DEF InTurn

LEMMA EnterNearer ==
  ASSUME TypeOK, Calm,
         \/ EnterUntap \/ EnterPriorityStep \/ EnterDraw
         \/ EnterDeclareAttackers \/ EnterCombatStep \/ EnterCleanup
  PROVE  InTurn
  <1>1. /\ todo = "enter"
        /\ UNCHANGED <<stack, phaseIndex>>
        /\ HappenLater(0) \/ UNCHANGED <<waiting, doomed, events>>
        /\ phaseIndex = CombatDamage => UNCHANGED secondStrike
    BY DEF EnterUntap, EnterPriorityStep, EnterDraw, EnterDeclareAttackers,
           EnterCombatStep, EnterCleanup, Enter, tableVars, combatVars,
           CombatDamage, BeginningCombat
  <1>2. waiting' = waiting
    BY <1>1, HappenLaterQuiet DEF Calm
  <1>3. StepsLeft' = StepsLeft
    BY <1>1 DEF StepsLeft
  <1>4. CASE EnterCleanup
    <2>1. /\ phaseIndex = Cleanup
          /\ \/ todo' = "finish_cleanup"
             \/ todo' = "answer" /\ decision'.kind = "cleanup.discard"
      BY <1>4 DEF EnterCleanup, Enter
    <2>2. Place' < Place
      BY <1>1, <2>1 DEF Place
    <2> QED
      BY <1>1, <1>2, <1>3, <2>2 DEF InTurn, InStep
  <1>5. CASE ~EnterCleanup
    <2>1. /\ phaseIndex # Cleanup
          /\ \/ todo' \in {"advance", "grant"}
             \/ /\ todo' = "answer"
                /\ decision'.kind \in {"draw", "combat.attackers", "combat"}
      BY <1>5 DEF EnterUntap, EnterPriorityStep, EnterDraw, EnterDeclareAttackers,
                  EnterCombatStep, Enter, Untap, Upkeep, Draw, PrecombatMain,
                  BeginningCombat, DeclareAttackers, DeclareBlockers, CombatDamage,
                  EndCombat, PostcombatMain, EndStep, Cleanup
    <2>2. Place' < Place
      BY <1>1, <2>1 DEF Place
    <2> QED
      BY <1>1, <1>2, <1>3, <2>2 DEF InTurn, InStep
  <1> QED
    BY <1>4, <1>5

LEMMA AdvanceNearer ==
  ASSUME TypeOK, AdvanceStep
  PROVE  InTurn
  <1>1. /\ todo = "advance" /\ todo' = "enter"
        /\ UNCHANGED <<stack, waiting>>
    BY DEF AdvanceStep, tableVars
  <1>2. phaseIndex \in 1..12
    BY DEF TypeOK, Steps
  <1>3. CASE phaseIndex = DeclareAttackers /\ phaseIndex' = EndCombat
    BY <1>3 DEF InTurn, StepsLeft, DeclareAttackers, EndCombat, CombatDamage, Cleanup
  <1>4. CASE /\ phaseIndex = CombatDamage /\ ~secondStrike
             /\ secondStrike' = TRUE /\ phaseIndex' = phaseIndex
    BY <1>4 DEF InTurn, StepsLeft, CombatDamage, Cleanup
  <1>5. CASE phaseIndex # Cleanup /\ phaseIndex' = phaseIndex + 1
    BY <1>2, <1>5 DEF InTurn, StepsLeft, CombatDamage, Cleanup
  <1>6. CASE phaseIndex = Cleanup /\ phaseIndex' = Cleanup
    <2>1. StepsLeft' = StepsLeft
      BY <1>6 DEF StepsLeft, CombatDamage, Cleanup
    <2>2. Place' < Place
      BY <1>1, <1>6 DEF Place
    <2> QED
      BY <1>1, <2>1, <2>2 DEF InTurn, InStep
  <1> QED
    BY <1>3, <1>4, <1>5, <1>6 DEF AdvanceStep, StepAfter

(* The next normal turn is nearer to everybody who does not take it.       *)
LEMMA NormalNearer ==
  ASSUME TypeOK, NEW s \in inGame, BeginNormalTurn, activePlayer' # s
  PROVE  Distance(lastNormal', s) < Distance(lastNormal, s)
  <1>1. PICK t \in inGame : /\ IsNextAfter(t, lastNormal, inGame)
                           /\ lastNormal' = t /\ activePlayer' = t
    BY DEF BeginNormalTurn, BeginTurnOf
  <1>2. Distance(lastNormal, t) <= Distance(lastNormal, s) /\ s # t
    BY <1>1 DEF IsNextAfter
  <1>3. s \in Seats /\ t \in Seats /\ lastNormal \in Seats /\ N \in Nat
    BY SeatsAssumption DEF TypeOK
  <1> QED
    BY <1>1, <1>2, <1>3 DEF Distance, Seats

LEMMA ExtraNearer ==
  ASSUME TypeOK, BeginExtraTurn
  PROVE  Cardinality(extraTurns') < Cardinality(extraTurns)
  <1>1. PICK turn \in extraTurns :
          extraTurns' = {other \in extraTurns : other.ref < turn.ref}
    BY DEF BeginExtraTurn
  <1>2. turn.ref \in Int
    BY DEF TypeOK, ExtraTurn
  <1>3. extraTurns' \subseteq extraTurns /\ turn \notin extraTurns'
    BY <1>1, <1>2
  <1> QED
    BY <1>3, ExtraTurnsFinite, FS_Subset, FS_CardinalityType DEF TypeOK

LEMMA TurnStep ==
  ASSUME IInv, IInv', Settled, Ordered, Next, NEW s \in Seats,
         s \in inGame', ~gameOver', raised' = "none", activePlayer' # s
  PROVE  CloserTurn(s) \/ UNCHANGED vars
  <1>1. /\ TypeOK /\ TypeOK' /\ Table
        /\ inGame' \subseteq inGame /\ events <= events'
    BY StepCounts DEF IInv
  <1> SUFFICES ASSUME Calm PROVE InRotation(s) \/ UNCHANGED vars
    BY <1>1, TurnFalls DEF Calm
  <1>2. ASSUME InTurn, UNCHANGED <<lastNormal, extraTurns>> PROVE InRotation(s)
    BY <1>2 DEF InRotation
  <1>3. ASSUME NEW seat \in Seats, AnswerPass(seat) PROVE InRotation(s)
    <2>1. /\ PassPriority(seat) /\ todo = "answer" /\ decision.kind = "priority"
          /\ UNCHANGED <<phaseIndex, secondStrike, waiting, stack, lastNormal, extraTurns>>
      BY <1>3 DEF AnswerPass, Asked, tableVars, turnVars, combatVars
    <2> QED
      BY <1>1, <1>2, <2>1, PassNearer DEF Calm
  <1>4. ASSUME NEW seat \in Seats,
               AnswerSpecialAction(seat) \/ AnswerCast(seat) \/ AnswerMana(seat)
        PROVE  FALSE
    <2>1. events < events' /\ events' = events /\ events \in Nat
      BY <1>1, <1>4, ActSpends, BoundsAssumption DEF Calm, TypeOK
    <2> QED
      BY <2>1
  <1>5. ASSUME NEW seat \in Seats, AnswerConcede(seat) PROVE FALSE
    <2>1. seat \in inGame
      BY <1>5 DEF AnswerConcede, Asked, IInv, Control, NoDecision
    <2> QED
      BY <1>5, <2>1 DEF AnswerConcede, Leave, Calm
  <1>6. ASSUME NEW seat \in Seats, AnswerOrder(seat) PROVE InRotation(s)
    BY <1>1, <1>2, <1>6, OrderNearer DEF AnswerOrder, turnVars
  <1>7. ASSUME NEW seat \in Seats, AnswerCombat(seat) PROVE InRotation(s)
    BY <1>1, <1>2, <1>7, CombatNearer DEF AnswerCombat, turnVars, tableVars
  <1>8. ASSUME NEW seat \in Seats,
               AnswerDraw(seat) \/ AnswerAttackers(seat) \/ AnswerDiscard(seat)
        PROVE  InRotation(s) \/ UNCHANGED vars
    <2>1. UNCHANGED <<lastNormal, extraTurns>>
      BY <1>8 DEF AnswerDraw, AnswerAttackers, AnswerDiscard, turnVars, tableVars
    <2> QED
      BY <1>1, <1>2, <1>8, <2>1, ChoiceNearer
  <1>9. ASSUME GrantPriority \/ FinishCleanup PROVE InRotation(s)
    <2>1. \E losers : Leave(losers) /\ inGame' = inGame \ losers
      BY <1>9 DEF GrantPriority, FinishCleanup, Stabilize, Leave
    <2>2. \A t \in extraTurns : t.player \in inGame
      BY DEF IInv, Table
    <2>3. extraTurns' = extraTurns /\ lastNormal' = lastNormal
      BY <1>9, <2>1, <2>2 DEF Leave, Calm, GrantPriority, FinishCleanup, turnVars
    <2> QED
      BY <1>1, <1>2, <1>9, <2>3, GrantNearer, FinishNearer
  <1>10. CASE PumpPass
    <2>1. /\ PassPriority(priorityPlayer) /\ todo = "pump"
          /\ UNCHANGED <<phaseIndex, secondStrike, waiting, stack, lastNormal, extraTurns>>
      BY <1>10 DEF PumpPass, tableVars, turnVars, combatVars
    <2>2. priorityPlayer \in Seats
      BY <2>1 DEF IInv, Window
    <2> QED
      BY <1>1, <1>2, <2>1, <2>2, PassNearer DEF Calm
  <1>11. CASE PumpAsk
    <2>1. /\ todo = "pump" /\ todo' = "answer" /\ decision'.kind = "priority"
          /\ UNCHANGED <<phaseIndex, secondStrike, waiting, stack, lastNormal,
                         extraTurns, priorityPasses>>
      BY <1>11 DEF PumpAsk, tableVars, turnVars, combatVars, priorityVars
    <2>2. /\ Place = 7 /\ Place' = 7 /\ Asking = 1 /\ Asking' = 0
          /\ StepsLeft' = StepsLeft /\ PassesLeft' = PassesLeft
      BY <2>1 DEF Place, Asking, StepsLeft, PassesLeft
    <2> QED
      BY <1>2, <2>1, <2>2 DEF InTurn, InStep
  <1>12. CASE ResolveStackObject
    <2>1. PICK controller \in Seats :
            /\ stack[controller] > 0
            /\ stack' = [stack EXCEPT ![controller] = @ - 1]
      BY <1>12 DEF ResolveStackObject
    <2>2. Cardinality(ObjectsOn(stack')) < Cardinality(ObjectsOn(stack))
      BY <1>1, <2>1, ObjectLeaves DEF TypeOK
    <2>3. /\ UNCHANGED <<phaseIndex, secondStrike, lastNormal>>
          /\ \/ HappenLater(0) /\ UNCHANGED extraTurns
             \/ HappenLater(1)
      BY <1>12 DEF ResolveStackObject, combatVars, turnVars
    <2>4. waiting' = waiting /\ extraTurns' = extraTurns
      BY <1>1, <2>3, HappenLaterQuiet DEF Calm
    <2>5. StepsLeft' = StepsLeft
      BY <2>3 DEF StepsLeft
    <2> QED
      BY <1>2, <2>2, <2>3, <2>4, <2>5 DEF InTurn
  <1>13. ASSUME \/ EnterUntap \/ EnterPriorityStep \/ EnterDraw
                \/ EnterDeclareAttackers \/ EnterCombatStep \/ EnterCleanup
         PROVE  InRotation(s)
    <2>1. UNCHANGED <<lastNormal, extraTurns>>
      BY <1>13 DEF EnterUntap, EnterPriorityStep, EnterDraw, EnterDeclareAttackers,
                   EnterCombatStep, EnterCleanup, Enter, turnVars, tableVars
    <2> QED
      BY <1>1, <1>2, <1>13, <2>1, EnterNearer
  <1>14. CASE RefuseDraw
    BY <1>14 DEF RefuseDraw, Calm
  <1>15. CASE AdvanceStep
    BY <1>1, <1>2, <1>15, AdvanceNearer DEF AdvanceStep, turnVars, tableVars
  <1>16. CASE BeginExtraTurn
    BY <1>1, <1>16, ExtraNearer DEF BeginExtraTurn, InRotation
  <1>17. CASE BeginNormalTurn
    BY <1>1, <1>17, NormalNearer DEF InRotation
  <1>18. CASE Finished
    BY <1>18 DEF Finished
  <1> QED
    BY <1>3, <1>4, <1>5, <1>6, <1>7, <1>8, <1>9, <1>10, <1>11, <1>12, <1>13,
       <1>14, <1>15, <1>16, <1>17, <1>18
    DEF Next, Answer, Engine

(* Turns come round: until seat s begins a turn, has left, or the game is  *)
(* over or has failed, every answer of any seat and every call of the      *)
(* engine, extra turns, extra cleanup steps, second damage steps, ordered  *)
(* triggers and seats that pass by configuration included, makes Ahead(s)  *)
(* fall, nine natural numbers of which the first that changes gets smaller *)
(* (a draw that asks again changes nothing).  So no order of answers keeps *)
(* a seat from its turn for ever, whatever cards do with their events      *)
(* (EverySeatHasItsTurn says the same of every fair behaviour).            *)
THEOREM TurnsComeRound ==
  Spec => /\ [](\A s \in Seats : \A i \in 1..9 : Ahead(s)[i] \in Nat)
          /\ [][ \A s \in Seats :
                   \/ activePlayer' = s \/ s \notin inGame'
                   \/ gameOver' \/ raised' # "none"
                   \/ CloserTurn(s) ]_vars
  <1> DEFINE A == \A s \in Seats :
                    \/ activePlayer' = s \/ s \notin inGame'
                    \/ gameOver' \/ raised' # "none"
                    \/ CloserTurn(s)
             J == \A s \in Seats : \A i \in 1..9 : Ahead(s)[i] \in Nat
             I == IInv /\ Settled /\ Ordered
  <1>1. Init => I
    BY InitInv DEF Init, Settled, StackEmpty, Ordered, NoDecision
  <1>2. I /\ [Next]_vars => I'
    BY NextInv, SettledNext, OrderedNext
  <1>3. I => J
    <2> SUFFICES ASSUME I, NEW s \in Seats PROVE \A i \in 1..9 : Ahead(s)[i] \in Nat
      OBVIOUS
    <2>1. /\ Hopes \in Nat /\ Distance(lastNormal, s) \in Nat
          /\ Cardinality(extraTurns) \in Nat /\ StepsLeft \in Nat
          /\ Cardinality(waiting) \in Nat
          /\ Cardinality(ObjectsOn(stack)) \in Nat
          /\ Place \in Nat /\ PassesLeft \in Nat /\ Asking \in Nat
      BY AheadNatural DEF IInv
    <2> QED
      BY <2>1 DEF Ahead
  <1>4. I /\ I' /\ [Next]_vars => [A]_vars
    BY TurnStep
  <1> HIDE DEF A, J, I
  <1>5. Spec => []I
    BY <1>1, <1>2, PTL DEF Spec
  <1>6. Spec => []J
    BY <1>3, <1>5, PTL
  <1>7. Spec => [][A]_vars
    BY <1>4, <1>5, PTL DEF Spec
  <1> QED
    BY <1>6, <1>7 DEF A, J

-----------------------------------------------------------------------------
(* No seat is skipped in a round of priority.                              *)

Rounds ==
  /\ unheard \subseteq inGame
  /\ todo = "pump" \/ decision.kind = "priority" =>
       unheard \cap priorityPasses = {}
  /\ todo \in {"enter", "advance", "resolve"} => priorityPlayer = NoSeat

RInv == IInv /\ Rounds

(* The passes that end a round are the passes of everybody in the game.    *)
LEMMA FullRound ==
  ASSUME IInv, ~AutoPass, NEW seat \in inGame,
         Cardinality(priorityPasses \cup {seat}) >= Cardinality(inGame)
  PROVE  inGame = priorityPasses \cup {seat}
  <1>1. priorityPasses \cup {seat} \in SUBSET inGame /\ inGame \in SUBSET Seats
    BY DEF IInv, Holder, TypeOK
  <1>2. IsFiniteSet(inGame) /\ Cardinality(inGame) \in Nat
        /\ Cardinality(priorityPasses \cup {seat}) \in Nat
    BY <1>1, SeatsFinite
  <1> QED
    BY <1>1, <1>2, FS_Subset

(* A pass hands on the priority, and the passing seat has been heard.      *)
LEMMA PassHeard ==
  ASSUME RInv, Hear, NEW seat \in Seats, priorityPlayer = seat,
         seat \in inGame \/ AutoPass, PassPriority(seat),
         todo # "grant", UNCHANGED <<inGame, events>>,
         unheard \cap priorityPasses = {}, decision'.kind # "priority"
  PROVE  /\ Rounds'
         /\ ~AutoPass /\ RoundEnds => unheard' = {}
  <1>1. ~WindowOpens
    BY DEF WindowOpens
  <1>2. seat # NoSeat
    BY DEF Seats, NoSeat
  <1>3. CASE seat \in priorityPasses
    BY <1>1, <1>3 DEF PassPriority, Hear, RInv, Rounds, RoundEnds, priorityVars
  <1>4. CASE /\ seat \notin priorityPasses
             /\ Cardinality(priorityPasses \cup {seat}) >= Cardinality(inGame)
             /\ priorityPlayer' = NoSeat /\ priorityPasses' = {}
             /\ todo' \in {"advance", "resolve"}
    <2>1. unheard' = (unheard \ {seat}) \cap inGame
      BY <1>1, <1>2, <1>4 DEF Hear, RoundEnds
    <2>2. ~AutoPass => inGame = priorityPasses \cup {seat}
      BY <1>4, FullRound DEF RInv
    <2> QED
      BY <1>4, <2>1, <2>2 DEF Rounds, RoundEnds
  <1>5. CASE /\ seat \notin priorityPasses
             /\ priorityPasses' = priorityPasses \cup {seat}
             /\ todo' = "pump"
    <2>1. unheard' = (unheard \ {seat}) \cap inGame
      BY <1>1, <1>5 DEF Hear, PriorityMoves
    <2> QED
      BY <1>5, <2>1 DEF Rounds, RoundEnds
  <1> QED
    BY <1>3, <1>4, <1>5 DEF PassPriority

(* Whatever else happens, no round ends, and the seats that are still to   *)
(* be heard have not passed.                                               *)
LEMMA OtherHeard ==
  ASSUME RInv, Hear,
         todo' \in {"advance", "resolve"} => priorityPlayer = NoSeat,
         todo' \in {"enter", "advance", "resolve"} => priorityPlayer' = NoSeat,
         inGame' \subseteq inGame,
         todo' = "pump" \/ decision'.kind = "priority" =>
            \/ priorityPasses' = {}
            \/ /\ priorityPasses' \subseteq priorityPasses /\ ~WindowOpens
               /\ todo = "pump" \/ decision.kind = "priority"
  PROVE  /\ Rounds'
         /\ ~AutoPass /\ RoundEnds => unheard' = {}
  <1>1. unheard' = inGame' \/ unheard' \subseteq unheard \cap inGame'
    BY DEF Hear
  <1>2. ~WindowOpens => unheard' \subseteq unheard
    BY DEF Hear
  <1>3. ~RoundEnds
    BY DEF RoundEnds
  <1>4. todo' = "pump" \/ decision'.kind = "priority" =>
           unheard' \cap priorityPasses' = {}
    BY <1>2 DEF RInv, Rounds
  <1> QED
    BY <1>1, <1>3, <1>4 DEF RInv, Rounds

LEMMA RoundStep ==
  ASSUME RInv, RoundNext
  PROVE  Rounds' /\ (~AutoPass /\ RoundEnds => unheard' = {})
  <1> DEFINE Goal == Rounds' /\ (~AutoPass /\ RoundEnds => unheard' = {})
  <1>1. Hear /\ IInv /\ Rounds
    BY DEF RoundNext, RInv
  <1>2. ASSUME NEW seat \in Seats, AnswerPass(seat) PROVE Goal
    <2>1. seat \in inGame /\ todo = "answer" /\ decision.kind = "priority"
          /\ priorityPlayer = seat
      BY <1>1, <1>2, AskedFacts DEF AnswerPass, DecisionKinds
    <2>2. PassPriority(seat) /\ UNCHANGED <<inGame, events>>
          /\ decision'.kind # "priority"
      BY <1>2 DEF AnswerPass, tableVars, NoDecision
    <2> QED
      BY <1>1, <2>1, <2>2, PassHeard DEF Rounds
  <1>3. CASE PumpPass
    <2>1. /\ todo = "pump" /\ priorityPlayer \in Seats
          /\ priorityPlayer \in inGame \/ AutoPass
          /\ decision = NoDecision
      BY <1>1, <1>3 DEF PumpPass, IInv, Window, Control
    <2>2. PassPriority(priorityPlayer) /\ UNCHANGED <<inGame, events, decision>>
      BY <1>3 DEF PumpPass, tableVars
    <2>3. decision'.kind # "priority"
      BY <2>1, <2>2 DEF NoDecision
    <2> QED
      BY <1>1, <2>1, <2>2, <2>3, PassHeard DEF Rounds
  <1>4. ASSUME NEW seat \in Seats,
               AnswerCast(seat) \/ AnswerMana(seat) \/ AnswerSpecialAction(seat)
        PROVE  Goal
    <2>1. PICK losing \in SUBSET inGame, triggering \in SUBSET inGame,
               objects \in {[stack EXCEPT ![seat] = @ + 1], stack},
               asked \in inGame \cup {NoSeat} :
            /\ Stabilize(losing, triggering, objects, asked)
            /\ \/ Stopped /\ todo' = "answer"
               \/ ~Stopped /\ todo' = "pump" /\ priorityPasses' = {}
      BY <1>4 DEF AnswerCast, AnswerMana, AnswerSpecialAction, Act
    <2>2. inGame' \subseteq inGame /\ decision' = OrderDecision(asked)
      BY <2>1 DEF Stabilize, Leave
    <2>3. decision'.kind # "priority"
      BY <2>2 DEF OrderDecision, NoDecision
    <2> QED
      BY <1>1, <2>1, <2>2, <2>3, OtherHeard DEF RInv
  <1>5. ASSUME NEW seat \in Seats, AnswerConcede(seat) PROVE Goal
    <2>1. decision.kind = "priority" /\ todo = "answer"
      BY <1>1, <1>5, AskedFacts DEF AnswerConcede, DecisionKinds
    <2>2. /\ inGame' \subseteq inGame /\ UNCHANGED events
          /\ decision' = NoDecision /\ todo' \in {"answer", "pump"}
          /\ priorityPasses' \subseteq priorityPasses
      BY <1>5 DEF AnswerConcede, Leave, PriorityAfterLeaving
    <2>3. ~WindowOpens
      BY <2>1, <2>2 DEF WindowOpens
    <2> QED
      BY <1>1, <2>1, <2>2, <2>3, OtherHeard DEF RInv
  <1>6. ASSUME NEW seat \in Seats,
               \/ AnswerOrder(seat) \/ AnswerDraw(seat)
               \/ AnswerAttackers(seat) \/ AnswerCombat(seat) \/ AnswerDiscard(seat)
        PROVE  Goal
    <2>1. /\ inGame' = inGame
          /\ todo' \in {"answer", "grant", "finish_cleanup"}
      BY <1>6 DEF AnswerOrder, AnswerDraw, AnswerAttackers, AnswerCombat,
                  AnswerDiscard, Asked, tableVars
    <2>2. decision'.kind # "priority"
      BY <1>6 DEF AnswerOrder, AnswerDraw, AnswerAttackers, AnswerCombat,
                  AnswerDiscard, Asked, OrderDecision, NoDecision
    <2> QED
      BY <1>1, <2>1, <2>2, OtherHeard DEF RInv
  <1>7. CASE GrantPriority \/ FinishCleanup
    <2>1. /\ inGame' \subseteq inGame
          /\ \E asked : decision' = OrderDecision(asked)
          /\ \/ todo' \in {"answer", "grant", "begin_turn"}
             \/ todo' = "pump" /\ priorityPasses' = {}
      BY <1>7 DEF GrantPriority, FinishCleanup, Stabilize, Leave
    <2>2. decision'.kind # "priority"
      BY <2>1 DEF OrderDecision, NoDecision
    <2> QED
      BY <1>1, <2>1, <2>2, OtherHeard DEF RInv
  <1>8. CASE PumpAsk
    <2>1. ~WindowOpens
      <3>1. todo = "pump" /\ decision = NoDecision
        BY <1>1, <1>8 DEF PumpAsk, IInv, Control
      <3> QED
        BY <3>1 DEF WindowOpens, NoDecision
    <2> QED
      BY <1>1, <1>8, <2>1, OtherHeard DEF PumpAsk, RInv, tableVars, priorityVars
  <1>9. CASE EnterUntap \/ EnterPriorityStep \/ EnterDraw
               \/ EnterDeclareAttackers \/ EnterCombatStep \/ EnterCleanup
    <2>1. /\ todo = "enter" /\ priorityPlayer' = NoSeat /\ priorityPasses' = {}
          /\ UNCHANGED inGame /\ todo' # "pump"
      BY <1>9 DEF EnterUntap, EnterPriorityStep, EnterDraw,
                  EnterDeclareAttackers, EnterCombatStep, EnterCleanup, Enter, tableVars
    <2> QED
      BY <1>1, <2>1, OtherHeard DEF RInv, Rounds
  <1>10. CASE ResolveStackObject \/ AdvanceStep
    <2>1. decision = NoDecision /\ decision' = decision
      BY <1>1, <1>10 DEF ResolveStackObject, AdvanceStep, IInv, Control
    <2>2. /\ UNCHANGED <<inGame, priorityVars>>
          /\ \/ todo = "advance" /\ todo' = "enter"
             \/ todo' = "grant"
      BY <1>10 DEF ResolveStackObject, AdvanceStep, tableVars
    <2> QED
      BY <1>1, <2>1, <2>2, OtherHeard DEF RInv, Rounds, NoDecision, priorityVars
  <1>11. CASE BeginExtraTurn \/ BeginNormalTurn
    <2>1. /\ UNCHANGED inGame /\ todo' = "enter"
          /\ priorityPlayer' = NoSeat /\ priorityPasses' = {}
      BY <1>11 DEF BeginExtraTurn, BeginNormalTurn, BeginTurnOf
    <2> QED
      BY <1>1, <2>1, OtherHeard DEF RInv
  <1>12. CASE RefuseDraw
    <2>1. /\ UNCHANGED <<inGame, decision, priorityVars>>
          /\ todo = "enter" /\ todo' = "answer" /\ decision = NoDecision
      BY <1>1, <1>12 DEF RefuseDraw, IInv, Control, tableVars
    <2>2. ~WindowOpens
      BY <2>1 DEF WindowOpens, NoDecision
    <2> QED
      BY <1>1, <2>1, <2>2, OtherHeard DEF RInv, Rounds, priorityVars, NoDecision
  <1>13. CASE Finished
    <2>1. UNCHANGED <<inGame, todo, decision, priorityVars, events>>
          /\ todo = "answer"
      BY <1>13 DEF Finished, vars, tableVars
    <2>2. ~WindowOpens
      BY <2>1 DEF WindowOpens
    <2> QED
      BY <1>1, <2>1, <2>2, OtherHeard DEF RInv, priorityVars
  <1> QED
    BY <1>1, <1>2, <1>3, <1>4, <1>5, <1>6, <1>7, <1>8, <1>9, <1>10, <1>11, <1>12,
       <1>13
    DEF RoundNext, Next, Answer, Engine

(* Nobody in the game is skipped: at a table whose seats pass for          *)
(* themselves, a round of priority ends only when every seat of the game   *)
(* has passed since the last action and since the window opened.           *)
THEOREM Heard == RoundSpec => EverybodyWasHeard
  <1>1. RoundInit => RInv
    BY InitInv DEF RoundInit, RInv, Rounds, Init, NoDecision
  <1>2. RInv /\ [RoundNext]_roundVars => RInv'
    <2> SUFFICES ASSUME RInv, [RoundNext]_roundVars PROVE RInv'
      OBVIOUS
    <2>1. CASE RoundNext
      BY <2>1, RoundStep, NextInv DEF RInv, RoundNext
    <2>2. CASE UNCHANGED roundVars
      <3>1. UNCHANGED vars
        BY <2>2 DEF roundVars
      <3>2. IInv'
        BY <3>1, NextInv DEF RInv
      <3> QED
        BY <2>2, <3>2
        DEF roundVars, vars, tableVars, priorityVars, RInv, Rounds
    <2> QED
      BY <2>1, <2>2
  <1>3. RInv /\ [RoundNext]_roundVars =>
          [~AutoPass /\ RoundEnds => unheard' = {}]_roundVars
    BY RoundStep
  <1> QED
    BY <1>1, <1>2, <1>3, PTL DEF RoundSpec, EverybodyWasHeard

=============================================================================
