------------------------------- MODULE Mulligan -------------------------------
(***************************************************************************)
(* The opening hands of a game: rounds of declarations in turn order, the  *)
(* redraw of everybody who declared a mulligan, the cards that they put on *)
(* the bottom, all of them asked at once, and the start of the game.  The  *)
(* pilots answer through the capabilities of Decisions, late answers and   *)
(* restarts of the server included.                                        *)
(*                                                                         *)
(* A command is one transaction: an answer that the engine refuses leaves  *)
(* the state of before, consumed token included, so it is no step here.    *)
(* Hands are counted.  An answer is fit if its content would pass: cards   *)
(* of the hand, each once, as many as the penalty; or, where the guard     *)
(* against mulligans of a functional hand looks, a reason.  The guard      *)
(* looks before the answer is accepted, the count only when the decision   *)
(* is complete.                                                            *)
(***************************************************************************)
EXTENDS Integers

CONSTANTS
  N,            \* how many seats, in turn order
  OpeningHand,  \* cards drawn for an opening hand
  Free,         \* mulligans without a penalty
  Careless,     \* seats whose clients may send answers that do not fit
  MaxTaken,     \* bound: mulligans of one seat
  MaxRestarts,  \* bound: restarts of the server
  NoAnswer, NoDecision

Seats == 1..N

Actions == {"keep", "mulligan", "bottom"}

Answers == [action : Actions, fit : BOOLEAN]

INSTANCE Decisions

DecisionType ==
  [id : Nat, kind : {"mulligan.declare", "mulligan.bottom"},
   actors : SUBSET Seats, actions : SUBSET Actions,
   responses : [Seats -> Answers \cup {NoAnswer}],
   continuation : [waiting : SUBSET Seats, mulliganers : SUBSET Seats]]

ASSUME MulliganAssumption ==
  /\ N \in Nat \ {0}
  /\ OpeningHand \in Nat /\ Free \in Nat
  /\ Careless \subseteq Seats
  /\ MaxTaken \in Nat /\ MaxRestarts \in Nat
  /\ NoAnswer \notin Answers /\ NoDecision \notin DecisionType

VARIABLES
  permissions,  \* the pending decision and its capabilities
  hand,         \* how many cards each player holds
  taken,        \* mulligans_taken
  kept,         \* the players with kept_hand
  round,        \* mulligan_round
  started,      \* the game has begun its first turn
  restarts      \* how often the server has restarted

vars == <<permissions, hand, taken, kept, round, started, restarts>>

Penalty(n) == IF n > Free THEN n - Free ELSE 0

NoContinuation == [waiting |-> {}, mulliganers |-> {}]

-----------------------------------------------------------------------------
First(seats) == CHOOSE s \in seats : \A t \in seats : s <= t

\* The next of the seats that this round waits for is asked what it declares.
Ask(p, waiting, mulliganers) ==
  Issue(p, "mulligan.declare", {First(waiting)}, {"keep", "mulligan"},
        [waiting |-> waiting, mulliganers |-> mulliganers])

\* A new round for everybody who has not kept, or the game starts.
OpenRound(p, keepers) ==
  IF keepers = Seats
  THEN /\ started' = TRUE
       /\ permissions' = p
       /\ UNCHANGED round
  ELSE /\ round' = round + 1
       /\ permissions' = Ask(p, Seats \ keepers, {})
       /\ UNCHANGED started

\* Every declared mulligan is taken; those with a penalty are asked together
\* for the cards they put back.
Redraw(p, keepers, mulliganers) ==
  LET next == [s \in Seats |->
                 IF s \in mulliganers THEN taken[s] + 1 ELSE taken[s]]
      bottomers == {s \in mulliganers : Penalty(next[s]) > 0}
  IN /\ taken' = next
     /\ hand' = [s \in Seats |->
                   IF s \in mulliganers THEN OpeningHand ELSE hand[s]]
     /\ IF bottomers = {}
        THEN OpenRound(p, keepers)
        ELSE /\ permissions' = Issue(p, "mulligan.bottom", bottomers,
                                     {"bottom"}, NoContinuation)
             /\ UNCHANGED <<round, started>>

\* Bug: a mulligan is taken as soon as it is declared.
CompleteDeclarationAtOnce(p, decision, seat, answer) ==
  LET waiting == decision.continuation.waiting \ {seat}
      mulliganers == decision.continuation.mulliganers
                       \cup {s \in {seat} : answer.action = "mulligan"}
      keepers == IF answer.action = "keep" THEN kept \cup {seat} ELSE kept
  IN /\ answer.action = "mulligan" /\ taken[seat] >= Free => answer.fit
     /\ kept' = keepers
     /\ taken' = IF answer.action = "mulligan"
                 THEN [taken EXCEPT ![seat] = @ + 1] ELSE taken
     /\ IF waiting # {}
        THEN /\ permissions' = Ask(p, waiting, mulliganers)
             /\ UNCHANGED <<hand, round, started>>
        ELSE OpenRound(p, keepers) /\ UNCHANGED hand

\* The next seat of the round declares, or the round ends.
CompleteDeclaration(p, decision, seat, answer) ==
  LET waiting == decision.continuation.waiting \ {seat}
      mulliganers == decision.continuation.mulliganers
                       \cup {s \in {seat} : answer.action = "mulligan"}
      keepers == IF answer.action = "keep" THEN kept \cup {seat} ELSE kept
  IN /\ answer.action = "mulligan" /\ taken[seat] >= Free => answer.fit
     /\ kept' = keepers
     /\ IF waiting # {}
        THEN /\ permissions' = Ask(p, waiting, mulliganers)
             /\ UNCHANGED <<hand, taken, round, started>>
        ELSE Redraw(p, keepers, mulliganers)

\* The cards of all actors are checked and moved when the last has answered.
CompleteBottom(p, decision, seat) ==
  /\ \A s \in decision.actors : decision.responses[s].fit
  /\ hand' = [s \in Seats |->
                IF s \in decision.actors
                THEN hand[s] - Penalty(taken[s]) ELSE hand[s]]
  /\ OpenRound(p, kept)
  /\ UNCHANGED <<taken, kept>>

-----------------------------------------------------------------------------
\* Opening hands are drawn and the first seat is asked.
Init ==
  /\ hand = [s \in Seats |-> OpeningHand]
  /\ taken = [s \in Seats |-> 0]
  /\ kept = {}
  /\ round = 1
  /\ started = FALSE
  /\ permissions =
       Ask([decision |-> NoDecision, counter |-> 0, capabilities |-> {},
            occasions |-> 0], Seats, {})
  /\ restarts = 0

\* What the client of this seat can send.
Sendable(seat, answer) ==
  /\ answer.action = "keep" => answer.fit
  /\ answer.action = "mulligan" => taken[seat] < MaxTaken
  /\ answer.action = "bottom" /\ answer.fit =>
       Penalty(taken[seat]) <= hand[seat]
  /\ answer.fit \/ seat \in Careless

Tokens == (1..permissions.occasions) \X Seats

\* A client submits an answer with a token it was given at some time.
Submit(seat, token, answer) ==
  /\ Sendable(seat, answer)
  /\ Authorized(permissions, seat, token, answer.action)
  /\ LET p == Respond(permissions, seat, token, answer)
     IN IF ~Complete(p.decision)
        THEN /\ permissions' = p
             /\ UNCHANGED <<hand, taken, kept, round, started>>
        ELSE \/ /\ p.decision.kind = "mulligan.declare"
                /\ CompleteDeclaration(Close(p), p.decision, seat, answer)
             \/ /\ p.decision.kind = "mulligan.bottom"
                /\ CompleteBottom(Close(p), p.decision, seat)
  /\ UNCHANGED restarts

\* The server ends and loads the game again.
Restart ==
  /\ restarts < MaxRestarts
  /\ restarts' = restarts + 1
  /\ permissions' = Reissue(permissions)
  /\ UNCHANGED <<hand, taken, kept, round, started>>

Next ==
  \/ \E seat \in Seats, token \in Tokens, answer \in Answers :
       Submit(seat, token, answer)
  \/ Restart

Spec == Init /\ [][Next]_vars

\* Some client that can go on with a fit answer does so.
FitAnswer ==
  \E seat \in Seats, token \in Tokens, answer \in Answers :
    answer.fit /\ Submit(seat, token, answer)

FairSpec == Spec /\ WF_vars(FitAnswer)

-----------------------------------------------------------------------------
(* Properties.                                                             *)

Pending == permissions.decision # NoDecision

Capability == [token : Nat \X Seats, decision : Nat, actor : Seats]

\* The state has the types of the manager's and the players' fields.
TypeOK ==
  /\ permissions \in
       [decision : DecisionType \cup {NoDecision}, counter : Nat,
        capabilities : SUBSET Capability, occasions : Nat]
  /\ hand \in [Seats -> 0..OpeningHand]
  /\ taken \in [Seats -> Nat]
  /\ kept \subseteq Seats
  /\ round \in Nat /\ started \in BOOLEAN /\ restarts \in Nat

\* Whatever was answered before a restart, an actor that is still asked holds
\* exactly one capability, and nobody else holds any (permissions.py: "reissue
\* only the still unanswered actors").
LiveTokens ==
  LET held(s) == {c \in permissions.capabilities :
                    c.actor = s /\ c.decision = permissions.decision.id}
  IN Pending =>
       \A s \in Seats :
         IF s \in Unanswered(permissions.decision)
         THEN \E c \in held(s) : held(s) = {c}
         ELSE held(s) = {}

\* An answer that was accepted is never changed by a late, repeated or
\* restarted one, and a decision is left when its last actor answers, not
\* before.
AnswersStand ==
  [][ LET asked == permissions.decision
          next == permissions'.decision
      IN Pending =>
           IF next # NoDecision /\ next.id = asked.id
           THEN \A s \in Seats : asked.responses[s] # NoAnswer =>
                  next.responses[s] = asked.responses[s]
           ELSE \E s \in asked.actors : Unanswered(asked) = {s} ]_vars

\* Nobody redraws before everybody of the round has declared: the players
\* that have not kept are always equally far (engine.py: "Only after every
\* eligible player has declared do all mulliganers redraw at the same time").
RoundsAgree ==
  ~started =>
    \A s \in Seats \ kept :
      taken[s] = IF permissions.decision.kind = "mulligan.bottom"
                 THEN round ELSE round - 1

\* A hand has the size that its mulligans leave, when somebody declares and
\* when the game starts, whichever cards were bottomed together.
HandSizes ==
  \A s \in Seats :
    hand[s] = IF /\ Pending /\ permissions.decision.kind = "mulligan.bottom"
                 /\ s \in permissions.decision.actors
              THEN OpeningHand
              ELSE OpeningHand - Penalty(taken[s])

\* A hand that was kept is not touched again, and its player is not asked
\* again (engine.py: "Keeping is final").
KeepIsFinal ==
  [][ \A s \in kept :
        /\ s \in kept' /\ hand'[s] = hand[s] /\ taken'[s] = taken[s]
        /\ permissions'.decision # NoDecision =>
             s \notin permissions'.decision.actors ]_vars

AnsweredWell ==
  Pending =>
    \A s \in Seats :
      permissions.decision.responses[s] # NoAnswer =>
        permissions.decision.responses[s].fit

\* If no answer is recorded that does not fit, the opening hands come to an
\* end and the game starts, restarts included.
GameStarts == []AnsweredWell => <>started
=============================================================================
