--------------------------- MODULE MulliganProofs ---------------------------
(***************************************************************************)
(* The opening hands are fair for any number of players, any number of     *)
(* free mulligans and any number of restarts.                              *)
(***************************************************************************)
EXTENDS Mulligan, FiniteSetTheorems, TLAPS

Held(s) == {c \in permissions.capabilities :
              c.actor = s /\ c.decision = permissions.decision.id}

(* A decision is pending exactly until the game starts, and then all have  *)
(* kept.                                                                   *)
Waits ==
  /\ started <=> permissions.decision = NoDecision
  /\ started => kept = Seats

(* The capabilities are those of the pending decision, each for an actor   *)
(* that has not answered.                                                  *)
Tokened ==
  Pending =>
    /\ permissions.decision.actors # {}
    /\ permissions.decision.id = permissions.counter
    /\ \A c \in permissions.capabilities :
         /\ c.decision = permissions.decision.id
         /\ c.actor \in Unanswered(permissions.decision)
         /\ c.token[2] = c.actor
    /\ \A s \in Unanswered(permissions.decision) :
         \E c \in permissions.capabilities : c.actor = s
    /\ \A c, e \in permissions.capabilities : c.actor = e.actor => c = e

(* Those who have not kept still declare, or have declared a mulligan.     *)
Declaring ==
  LET d == permissions.decision
  IN Pending /\ d.kind = "mulligan.declare" =>
       /\ d.actions = {"keep", "mulligan"}
       /\ d.continuation.waiting # {}
       /\ d.actors = {First(d.continuation.waiting)}
       /\ \A s \in Seats : d.responses[s] = NoAnswer
       /\ d.continuation.waiting \cap d.continuation.mulliganers = {}
       /\ d.continuation.waiting \cup d.continuation.mulliganers
            = Seats \ kept

(* A fit answer puts away cards that the player has.                       *)
Bottoming ==
  LET d == permissions.decision
  IN Pending /\ d.kind = "mulligan.bottom" =>
       /\ d.actions = {"bottom"}
       /\ d.actors \cap kept = {}
       /\ \A s \in d.actors :
            d.responses[s] # NoAnswer /\ d.responses[s].fit =>
              Penalty(taken[s]) <= OpeningHand

IInv == /\ TypeOK /\ Waits /\ Tokened /\ Declaring /\ Bottoming
        /\ RoundsAgree /\ HandSizes

-----------------------------------------------------------------------------
(* Among seats there is a first one.                                       *)
LEMMA FirstOf ==
  ASSUME NEW waiting \in SUBSET Seats, waiting # {}
  PROVE  First(waiting) \in waiting
  <1>1. N \in Nat
    BY MulliganAssumption
  <1> DEFINE T == {1..s : s \in waiting}
  <1>2. T \subseteq FiniteSubsetsOf(1..N) /\ T # {}
    <2>1. IsFiniteSet(1..N)
      BY <1>1, FS_Interval
    <2>2. FiniteSubsetsOf(1..N) = SUBSET (1..N)
      BY <2>1, FS_FiniteSubsetsOfFinite
    <2>3. \A s \in waiting : 1..s \subseteq 1..N
      BY <1>1 DEF Seats
    <2>4. ASSUME NEW x \in T PROVE x \in FiniteSubsetsOf(1..N)
      <3>1. PICK s \in waiting : x = 1..s
        BY <2>4
      <3>2. x \subseteq 1..N
        BY <2>3, <3>1
      <3> QED
        BY <2>2, <3>2
    <2>5. T # {}
      OBVIOUS
    <2> QED
      <3> HIDE DEF T
      <3> QED
        BY <2>4, <2>5
  <1>3. PICK x \in T : \A y \in T : <<y, x>> \notin StrictSubsetOrdering(1..N)
    <2> HIDE DEF T
    <2> QED
      BY <1>2, FS_StrictSubsetOrderingWellFounded, WFMin
  <1>4. PICK s \in waiting : x = 1..s
    BY <1>3
  <1>5. ASSUME NEW t \in waiting, t < s PROVE FALSE
    <2>1. s \in 1..N /\ t \in 1..N
      BY DEF Seats
    <2>2. /\ 1..t \subseteq 1..s /\ 1..s \subseteq 1..N
          /\ s \in 1..s /\ s \notin 1..t
      BY <1>1, <1>5, <2>1
    <2>3. <<1..t, 1..s>> \in StrictSubsetOrdering(1..N)
      BY <2>2 DEF StrictSubsetOrdering
    <2> QED
      BY <1>3, <1>4, <2>3
  <1>6. \A t \in waiting : s <= t
    BY <1>1, <1>5 DEF Seats
  <1> QED
    BY <1>6 DEF First

-----------------------------------------------------------------------------
(* There is one fresh capability for each actor.                           *)
LEMMA FreshFacts ==
  ASSUME NEW occasion, NEW id, NEW actors
  PROVE  /\ \A c \in Fresh(occasion, id, actors) :
              /\ c.decision = id /\ c.actor \in actors
              /\ c.token[2] = c.actor
         /\ \A c, e \in Fresh(occasion, id, actors) :
              c.actor = e.actor => c = e
         /\ \A s \in actors : \E c \in Fresh(occasion, id, actors) :
              c.actor = s
  <1> DEFINE cap(s) == [token |-> <<occasion, s>>, decision |-> id, actor |-> s]
  <1>1. \A s : cap(s).decision = id /\ cap(s).actor = s /\ cap(s).token[2] = s
    OBVIOUS
  <1>2. Fresh(occasion, id, actors) = {cap(s) : s \in actors}
    BY DEF Fresh
  <1> HIDE DEF cap
  <1>3. \A c \in Fresh(occasion, id, actors) :
          c.actor \in actors /\ c = cap(c.actor)
    BY <1>1, <1>2
  <1>4. \A s \in actors : cap(s) \in Fresh(occasion, id, actors)
    BY <1>2
  <1> QED
    BY <1>1, <1>3, <1>4

(* When each actor that has not answered has one capability and nobody     *)
(* else has any, the tokens are live.                                      *)
LEMMA TokenedIsLive ==
  ASSUME Tokened, Pending => permissions.decision \in DecisionType
  PROVE  LiveTokens
  <1> SUFFICES ASSUME Pending, NEW s \in Seats
               PROVE  IF s \in Unanswered(permissions.decision)
                      THEN \E c \in Held(s) : Held(s) = {c}
                      ELSE Held(s) = {}
    BY DEF LiveTokens, Held
  <1>1. CASE s \in Unanswered(permissions.decision)
    <2>1. PICK c \in permissions.capabilities : c.actor = s
      BY <1>1 DEF Tokened
    <2>2. c \in Held(s) /\ \A e \in Held(s) : e = c
      BY <2>1 DEF Tokened, Held
    <2> QED
      BY <1>1, <2>2
  <1>2. CASE s \notin Unanswered(permissions.decision)
    BY <1>2 DEF Tokened, Held
  <1> QED
    BY <1>1, <1>2

(* What Issue does.                                                        *)
LEMMA IssueFacts ==
  ASSUME NEW STATE p, NEW kind \in {"mulligan.declare", "mulligan.bottom"},
         NEW actors \in SUBSET Seats, actors # {},
         NEW actions \in SUBSET Actions,
         NEW continuation \in
           [waiting : SUBSET Seats, mulliganers : SUBSET Seats],
         p.counter \in Nat, p.occasions \in Nat, p.capabilities = {},
         permissions' = Issue(p, kind, actors, actions, continuation)
  PROVE  /\ permissions' \in [decision : DecisionType, counter : Nat,
                              capabilities : SUBSET Capability, occasions : Nat]
         /\ Pending' /\ Tokened'
         /\ permissions'.decision.kind = kind
         /\ permissions'.decision.actors = actors
         /\ permissions'.decision.actions = actions
         /\ permissions'.decision.continuation = continuation
         /\ \A s \in Seats : permissions'.decision.responses[s] = NoAnswer
  <1> DEFINE id == p.counter + 1
             d == permissions'.decision
  <1>1. /\ d = [id |-> id, kind |-> kind, actors |-> actors,
                actions |-> actions, responses |-> [s \in Seats |-> NoAnswer],
                continuation |-> continuation]
        /\ permissions'.capabilities = Fresh(p.occasions + 1, id, actors)
        /\ permissions'.counter = id
        /\ permissions'.occasions = p.occasions + 1
        /\ permissions' = [decision |-> d, counter |-> permissions'.counter,
                           capabilities |-> permissions'.capabilities,
                           occasions |-> permissions'.occasions]
    BY DEF Issue
  <1>2. Fresh(p.occasions + 1, id, actors) \in SUBSET Capability
    BY DEF Fresh, Capability
  <1>3. d \in DecisionType
    BY <1>1 DEF DecisionType
  <1>4. permissions' \in [decision : DecisionType, counter : Nat,
                          capabilities : SUBSET Capability, occasions : Nat]
    <2> HIDE DEF d
    <2>1. permissions'.counter \in Nat /\ permissions'.occasions \in Nat
      BY <1>1
    <2> QED
      BY <1>1, <1>2, <1>3, <2>1
  <1>5. Pending'
    BY <1>3, MulliganAssumption DEF Pending
  <1>6. Unanswered(d) = actors
    BY <1>1 DEF Unanswered
  <1>7. Tokened'
    <2> HIDE DEF d
    <2>1. d.id = id /\ d.actors = actors
      BY <1>1
    <2> QED
      BY <1>1, <1>6, <2>1, FreshFacts DEF Tokened, d
  <1> QED
    BY <1>1, <1>4, <1>5, <1>7

-----------------------------------------------------------------------------
LEMMA PenaltyType == ASSUME NEW n \in Nat PROVE Penalty(n) \in Nat
  BY MulliganAssumption DEF Penalty

(* What closing a decision leaves.                                         *)
Closed(p) ==
  /\ p.counter \in Nat /\ p.occasions \in Nat
  /\ p.capabilities = {} /\ p.decision = NoDecision
  /\ p = [decision |-> p.decision, counter |-> p.counter,
          capabilities |-> p.capabilities, occasions |-> p.occasions]

(* Asking the next seat of a round.                                        *)
LEMMA AskFacts ==
  ASSUME NEW STATE p, Closed(p), NEW waiting \in SUBSET Seats, waiting # {},
         NEW mulliganers \in SUBSET Seats, waiting \cap mulliganers = {},
         waiting \cup mulliganers = Seats \ kept',
         permissions' = Ask(p, waiting, mulliganers),
         kept' \in SUBSET Seats, started' = FALSE
  PROVE  /\ permissions' \in [decision : DecisionType, counter : Nat,
                              capabilities : SUBSET Capability, occasions : Nat]
         /\ permissions'.decision.kind = "mulligan.declare"
         /\ Waits' /\ Tokened' /\ Declaring' /\ Bottoming'
  <1> DEFINE d == permissions'.decision
  <1>1. First(waiting) \in waiting
    BY FirstOf
  <1>2. {First(waiting)} \in SUBSET Seats /\ {First(waiting)} # {}
    BY <1>1
  <1>3. {"keep", "mulligan"} \in SUBSET Actions
    BY DEF Actions
  <1>4. [waiting |-> waiting, mulliganers |-> mulliganers]
          \in [waiting : SUBSET Seats, mulliganers : SUBSET Seats]
    OBVIOUS
  <1>5. permissions' = Issue(p, "mulligan.declare", {First(waiting)},
                             {"keep", "mulligan"},
                             [waiting |-> waiting, mulliganers |-> mulliganers])
    BY DEF Ask
  <1>6. /\ permissions' \in [decision : DecisionType, counter : Nat,
                             capabilities : SUBSET Capability, occasions : Nat]
        /\ Pending' /\ Tokened'
        /\ d.kind = "mulligan.declare"
        /\ d.actors = {First(waiting)}
        /\ d.actions = {"keep", "mulligan"}
        /\ d.continuation = [waiting |-> waiting, mulliganers |-> mulliganers]
        /\ \A s \in Seats : d.responses[s] = NoAnswer
    BY <1>2, <1>3, <1>4, <1>5, IssueFacts DEF Closed
  <1>7. d.continuation.waiting = waiting /\ d.continuation.mulliganers = mulliganers
    BY <1>6
  <1>8. Declaring'
    BY <1>6, <1>7 DEF Declaring
  <1>9. Bottoming'
    BY <1>6 DEF Bottoming
  <1>10. Waits'
    BY <1>6 DEF Waits, Pending
  <1> QED
    BY <1>6, <1>8, <1>9, <1>10

(* The next round starts with hands that are complete.                     *)
LEMMA OpenRoundFacts ==
  ASSUME NEW STATE p, Closed(p), round \in Nat, kept' \in SUBSET Seats,
         OpenRound(p, kept'), started = FALSE,
         \A s \in Seats : hand'[s] = OpeningHand - Penalty(taken'[s]),
         \A s \in Seats \ kept' : taken'[s] = round
  PROVE  /\ permissions' \in [decision : DecisionType \cup {NoDecision},
                              counter : Nat, capabilities : SUBSET Capability,
                              occasions : Nat]
         /\ round' \in Nat /\ started' \in BOOLEAN
         /\ Waits' /\ Tokened' /\ Declaring' /\ Bottoming'
         /\ RoundsAgree' /\ HandSizes'
  <1>1. CASE kept' = Seats
    <2>1. started' = TRUE /\ permissions' = p /\ round' = round
      BY <1>1 DEF OpenRound
    <2>2. ~Pending'
      BY <2>1 DEF Pending, Closed
    <2>3. permissions' \in [decision : DecisionType \cup {NoDecision},
                           counter : Nat, capabilities : SUBSET Capability,
                           occasions : Nat]
      BY <2>1 DEF Closed
    <2>4. Waits' /\ Tokened' /\ Declaring' /\ Bottoming'
      BY <1>1, <2>1, <2>2 DEF Waits, Tokened, Declaring, Bottoming, Pending
    <2>5. RoundsAgree' /\ HandSizes'
      BY <2>1, <2>2 DEF RoundsAgree, HandSizes
    <2> QED
      BY <2>1, <2>3, <2>4, <2>5
  <1>2. CASE kept' # Seats
    <2>1. /\ round' = round + 1 /\ started' = FALSE
          /\ permissions' = Ask(p, Seats \ kept', {})
      BY <1>2 DEF OpenRound
    <2>2. /\ Seats \ kept' # {} /\ Seats \ kept' \in SUBSET Seats
          /\ {} \in SUBSET Seats /\ (Seats \ kept') \cap {} = {}
          /\ (Seats \ kept') \cup {} = Seats \ kept'
      BY <1>2
    <2>3. /\ permissions' \in [decision : DecisionType, counter : Nat,
                               capabilities : SUBSET Capability, occasions : Nat]
          /\ permissions'.decision.kind = "mulligan.declare"
          /\ Waits' /\ Tokened' /\ Declaring' /\ Bottoming'
      BY <2>1, <2>2, AskFacts
    <2>4. RoundsAgree'
      BY <2>1, <2>3 DEF RoundsAgree
    <2>5. HandSizes'
      BY <2>3 DEF HandSizes
    <2>6. permissions' \in [decision : DecisionType \cup {NoDecision},
                           counter : Nat, capabilities : SUBSET Capability,
                           occasions : Nat]
      BY <2>3
    <2>7. round' \in Nat
      BY <2>1
    <2>8. started' \in BOOLEAN
      BY <2>1
    <2> QED
      BY <2>3, <2>4, <2>5, <2>6, <2>7, <2>8
  <1> QED
    BY <1>1, <1>2

(* The redraw of those who have declared a mulligan.                       *)
LEMMA RedrawFacts ==
  ASSUME NEW STATE p, Closed(p), IInv, started = FALSE, kept' \in SUBSET Seats,
         permissions.decision.kind = "mulligan.declare",
         NEW mulliganers \in SUBSET Seats, mulliganers = Seats \ kept',
         kept \subseteq kept',
         Redraw(p, kept', mulliganers)
  PROVE  /\ permissions' \in [decision : DecisionType \cup {NoDecision},
                              counter : Nat, capabilities : SUBSET Capability,
                              occasions : Nat]
         /\ hand' \in [Seats -> 0..OpeningHand] /\ taken' \in [Seats -> Nat]
         /\ round' \in Nat /\ started' \in BOOLEAN
         /\ Waits' /\ Tokened' /\ Declaring' /\ Bottoming'
         /\ RoundsAgree' /\ HandSizes'
  <1> DEFINE bottomers == {s \in mulliganers : Penalty(taken'[s]) > 0}
  <1>1. /\ taken' = [s \in Seats |->
                      IF s \in mulliganers THEN taken[s] + 1 ELSE taken[s]]
        /\ hand' = [s \in Seats |->
                      IF s \in mulliganers THEN OpeningHand ELSE hand[s]]
    BY DEF Redraw
  <1>2. /\ hand' \in [Seats -> 0..OpeningHand] /\ taken' \in [Seats -> Nat]
    BY <1>1, MulliganAssumption DEF IInv, TypeOK
  <1>3. \A s \in Seats \ kept' : taken'[s] = round
    BY <1>1 DEF IInv, RoundsAgree, TypeOK
  <1>4. \A s \in Seats \ mulliganers :
          hand'[s] = OpeningHand - Penalty(taken'[s])
    BY <1>1 DEF IInv, HandSizes
  <1>5. CASE bottomers = {}
    <2>1. \A s \in mulliganers : Penalty(taken'[s]) = 0
      BY <1>2, <1>5, PenaltyType
    <2>2. \A s \in mulliganers : hand'[s] = OpeningHand - Penalty(taken'[s])
      BY <1>1, <2>1, MulliganAssumption
    <2>3. OpenRound(p, kept')
      BY <1>1, <1>5 DEF Redraw
    <2> QED
      BY <1>2, <1>3, <1>4, <2>2, <2>3, OpenRoundFacts DEF IInv, TypeOK
  <1>6. CASE bottomers # {}
    <2>1. /\ permissions' = Issue(p, "mulligan.bottom", bottomers, {"bottom"},
                                  NoContinuation)
          /\ round' = round /\ started' = FALSE
      BY <1>1, <1>6 DEF Redraw
    <2>2. /\ bottomers \in SUBSET Seats /\ {"bottom"} \in SUBSET Actions
          /\ NoContinuation \in [waiting : SUBSET Seats, mulliganers : SUBSET Seats]
      BY DEF Actions, NoContinuation
    <2> HIDE DEF bottomers
    <2>3. /\ permissions' \in [decision : DecisionType, counter : Nat,
                               capabilities : SUBSET Capability, occasions : Nat]
          /\ Pending' /\ Tokened'
          /\ permissions'.decision.kind = "mulligan.bottom"
          /\ permissions'.decision.actors = bottomers
          /\ permissions'.decision.actions = {"bottom"}
          /\ \A s \in Seats : permissions'.decision.responses[s] = NoAnswer
      BY <1>6, <2>1, <2>2, IssueFacts DEF Closed
    <2>4. Waits' /\ Declaring'
      BY <2>1, <2>3 DEF Waits, Declaring, Pending
    <2>5. Bottoming'
      <3>1. bottomers \cap kept' = {}
        BY DEF bottomers
      <3> QED
        BY <2>2, <2>3, <3>1 DEF Bottoming
    <2>6. RoundsAgree'
      BY <1>3, <2>1, <2>3 DEF RoundsAgree
    <2>7. HandSizes'
      <3>1. \A s \in mulliganers \ bottomers : Penalty(taken'[s]) = 0
        BY <1>2, PenaltyType DEF bottomers
      <3>2. \A s \in Seats \ bottomers :
              hand'[s] = OpeningHand - Penalty(taken'[s])
        BY <1>1, <1>4, <3>1, MulliganAssumption
      <3>3. \A s \in bottomers : hand'[s] = OpeningHand
        BY <1>1 DEF bottomers
      <3> QED
        BY <2>3, <3>2, <3>3 DEF HandSizes
    <2> QED
      BY <1>2, <2>1, <2>3, <2>4, <2>5, <2>6, <2>7 DEF IInv, TypeOK
  <1> QED
    BY <1>5, <1>6

-----------------------------------------------------------------------------
LEMMA InitInv == ASSUME Init PROVE IInv
  <1> DEFINE d == [id |-> 1, kind |-> "mulligan.declare",
                   actors |-> {First(Seats)}, actions |-> {"keep", "mulligan"},
                   responses |-> [s \in Seats |-> NoAnswer],
                   continuation |-> [waiting |-> Seats, mulliganers |-> {}]]
  <1>1. Seats # {} /\ 1 \in Seats
    BY MulliganAssumption DEF Seats
  <1>2. First(Seats) \in Seats
    BY <1>1, FirstOf
  <1>3. Penalty(0) = 0
    BY MulliganAssumption DEF Penalty
  <1>4. permissions = [decision |-> d, counter |-> 1,
                       capabilities |-> Fresh(1, 1, {First(Seats)}),
                       occasions |-> 1]
    BY DEF Init, Ask, Issue
  <1>5. d \in DecisionType
    BY <1>2 DEF DecisionType, Actions
  <1>6. Fresh(1, 1, {First(Seats)}) \in SUBSET Capability
    BY <1>2 DEF Fresh, Capability
  <1>7. /\ d.id = 1 /\ d.kind = "mulligan.declare" /\ d.actors = {First(Seats)}
        /\ d.actions = {"keep", "mulligan"}
        /\ \A s \in Seats : d.responses[s] = NoAnswer
        /\ d.continuation.waiting = Seats /\ d.continuation.mulliganers = {}
    OBVIOUS
  <1> HIDE DEF d
  <1>8. permissions.decision = d /\ permissions.counter = 1
        /\ permissions.capabilities = Fresh(1, 1, {First(Seats)})
    BY <1>4
  <1>9. TypeOK
    <2>1. permissions \in [decision : DecisionType \cup {NoDecision},
            counter : Nat, capabilities : SUBSET Capability, occasions : Nat]
      BY <1>4, <1>5, <1>6
    <2>2. hand \in [Seats -> 0..OpeningHand] /\ taken \in [Seats -> Nat]
      BY MulliganAssumption DEF Init
    <2>3. round \in Nat /\ started \in BOOLEAN /\ restarts \in Nat
          /\ kept \subseteq Seats
      BY DEF Init
    <2> QED
      BY <2>1, <2>2, <2>3 DEF TypeOK
  <1>10. Waits
    BY <1>5, <1>8, MulliganAssumption DEF Waits, Init
  <1>11. Unanswered(d) = {First(Seats)}
    BY <1>2, <1>7 DEF Unanswered
  <1>12. Tokened
    <2> DEFINE caps == Fresh(1, 1, {First(Seats)})
    <2>1. /\ \A c \in caps : /\ c.decision = 1 /\ c.actor \in {First(Seats)}
                             /\ c.token[2] = c.actor
          /\ \A c, e \in caps : c.actor = e.actor => c = e
          /\ \A s \in {First(Seats)} : \E c \in caps : c.actor = s
      BY FreshFacts
    <2> HIDE DEF caps
    <2>2. permissions.capabilities = caps
      BY <1>8 DEF caps
    <2> QED
      BY <1>7, <1>8, <1>11, <2>1, <2>2 DEF Tokened
  <1>13. Declaring /\ Bottoming
    <2>1. kept = {}
      BY DEF Init
    <2> QED
      BY <1>1, <1>7, <1>8, <2>1 DEF Declaring, Bottoming
  <1>14. RoundsAgree /\ HandSizes
    <2>1. /\ round = 1 /\ \A s \in Seats : taken[s] = 0
          /\ \A s \in Seats : hand[s] = OpeningHand
      BY DEF Init
    <2> QED
      BY <1>3, <1>7, <1>8, <2>1, MulliganAssumption DEF RoundsAgree, HandSizes
  <1> QED
    BY <1>9, <1>10, <1>12, <1>13, <1>14 DEF IInv

(* Who may answer is asked, has not answered, and holds this token only.   *)
LEMMA AuthorizedFacts ==
  ASSUME IInv, NEW seat \in Seats, NEW token, NEW answer \in Answers,
         Authorized(permissions, seat, token, answer.action)
  PROVE  /\ Pending /\ started = FALSE
         /\ permissions.decision \in DecisionType
         /\ seat \in Unanswered(permissions.decision)
         /\ answer.action \in permissions.decision.actions
         /\ \A c \in permissions.capabilities :
              c.token = token <=> c.actor = seat
  <1> DEFINE cap == [token |-> token, decision |-> permissions.decision.id,
                     actor |-> seat]
  <1>1. Pending /\ answer.action \in permissions.decision.actions
        /\ cap \in permissions.capabilities
    BY DEF Authorized, Pending
  <1>2. permissions.decision \in DecisionType /\ started = FALSE
    BY <1>1 DEF IInv, TypeOK, Pending, Waits
  <1>3. cap.actor = seat /\ cap.token = token
    OBVIOUS
  <1> HIDE DEF cap
  <1>4. seat \in Unanswered(permissions.decision) /\ token[2] = seat
    BY <1>1, <1>3 DEF IInv, Tokened
  <1>5. \A c \in permissions.capabilities : c.token = token <=> c.actor = seat
    BY <1>1, <1>3, <1>4 DEF IInv, Tokened
  <1> QED
    BY <1>1, <1>2, <1>4, <1>5

(* What recording an answer does.                                          *)
LEMMA RespondFacts ==
  ASSUME IInv, NEW seat \in Seats, NEW token, NEW answer \in Answers,
         Authorized(permissions, seat, token, answer.action)
  PROVE  LET p == Respond(permissions, seat, token, answer) IN
         /\ p \in [decision : DecisionType, counter : Nat,
                   capabilities : SUBSET Capability, occasions : Nat]
         /\ p.decision.kind = permissions.decision.kind
         /\ p.decision.id = permissions.decision.id
         /\ p.decision.actors = permissions.decision.actors
         /\ p.decision.actions = permissions.decision.actions
         /\ p.decision.continuation = permissions.decision.continuation
         /\ p.decision.responses
              = [permissions.decision.responses EXCEPT ![seat] = answer]
         /\ p.capabilities = {c \in permissions.capabilities : c.actor # seat}
         /\ Unanswered(p.decision) = Unanswered(permissions.decision) \ {seat}
         /\ Closed(Close(p))
  <1> DEFINE d == permissions.decision
             p == Respond(permissions, seat, token, answer)
  <1>1. /\ d \in DecisionType
        /\ \A c \in permissions.capabilities : c.token = token <=> c.actor = seat
        /\ permissions \in [decision : DecisionType \cup {NoDecision},
               counter : Nat, capabilities : SUBSET Capability, occasions : Nat]
    BY AuthorizedFacts DEF IInv, TypeOK
  <1>2. p = [decision |-> [d EXCEPT !.responses[seat] = answer],
             counter |-> permissions.counter,
             capabilities |-> {c \in permissions.capabilities : c.token # token},
             occasions |-> permissions.occasions]
    BY <1>1 DEF Respond
  <1> HIDE DEF p
  <1>3. p.decision \in DecisionType
    BY <1>1, <1>2 DEF DecisionType
  <1>4. /\ p.decision.kind = d.kind /\ p.decision.id = d.id
        /\ p.decision.actors = d.actors /\ p.decision.actions = d.actions
        /\ p.decision.continuation = d.continuation
        /\ p.decision.responses = [d.responses EXCEPT ![seat] = answer]
    BY <1>1, <1>2 DEF DecisionType
  <1>5. p.capabilities = {c \in permissions.capabilities : c.actor # seat}
    BY <1>1, <1>2
  <1>6. Unanswered(p.decision) = Unanswered(d) \ {seat}
    <2>1. d.responses \in [Seats -> Answers \cup {NoAnswer}] /\ d.actors \subseteq Seats
      BY <1>1 DEF DecisionType
    <2> HIDE DEF d
    <2> QED
      BY <1>4, <2>1, MulliganAssumption DEF Unanswered
  <1>7. p \in [decision : DecisionType, counter : Nat,
               capabilities : SUBSET Capability, occasions : Nat]
    <2> HIDE DEF d
    <2> QED
      BY <1>1, <1>2, <1>3, <1>5
  <1>8. Closed(Close(p))
    BY <1>7 DEF Close, Closed
  <1> QED
    BY <1>3, <1>4, <1>5, <1>6, <1>7, <1>8 DEF p

(* An answer that leaves the decision open for others.                     *)
LEMMA RecordedInv ==
  ASSUME IInv, NEW seat \in Seats, NEW token, NEW answer \in Answers,
         Sendable(seat, answer),
         Authorized(permissions, seat, token, answer.action),
         ~Complete(Respond(permissions, seat, token, answer).decision),
         permissions' = Respond(permissions, seat, token, answer),
         UNCHANGED <<hand, taken, kept, round, started, restarts>>
  PROVE  IInv'
  <1> DEFINE d == permissions.decision
  <1>1. /\ Pending /\ started = FALSE /\ d \in DecisionType
        /\ seat \in Unanswered(d) /\ answer.action \in d.actions
    BY AuthorizedFacts
  <1>2. /\ permissions' \in [decision : DecisionType, counter : Nat,
                   capabilities : SUBSET Capability, occasions : Nat]
        /\ d'.kind = d.kind /\ d'.id = d.id /\ d'.actors = d.actors
        /\ d'.actions = d.actions /\ d'.continuation = d.continuation
        /\ d'.responses = [d.responses EXCEPT ![seat] = answer]
        /\ permissions'.capabilities
             = {c \in permissions.capabilities : c.actor # seat}
        /\ Unanswered(d') = Unanswered(d) \ {seat}
        /\ permissions'.counter = permissions.counter
    <2>1. permissions'.counter = permissions.counter
      BY DEF Respond
    <2> HIDE DEF d
    <2> QED
      BY <2>1, RespondFacts DEF d
  <1>3. Unanswered(d') # {}
    BY DEF Complete
  <1>4. d'.kind \in {"mulligan.declare", "mulligan.bottom"}
    BY <1>1, <1>2 DEF DecisionType
  <1>5. d'.kind = "mulligan.bottom"
    <2>1. CASE d.kind = "mulligan.declare"
      <3>1. Unanswered(d) \subseteq {First(d.continuation.waiting)}
        BY <1>1, <2>1 DEF IInv, Declaring, Unanswered
      <3> QED
        BY <1>1, <1>2, <1>3, <3>1
    <2> QED
      BY <1>2, <1>4, <2>1
  <1>6. d' \in DecisionType /\ Pending'
    BY <1>2, MulliganAssumption DEF Pending
  <1>7. TypeOK'
    <2>1. permissions' \in [decision : DecisionType \cup {NoDecision},
               counter : Nat, capabilities : SUBSET Capability, occasions : Nat]
      BY <1>2
    <2> QED
      BY <2>1 DEF IInv, TypeOK
  <1>8. Waits'
    BY <1>1, <1>6 DEF Waits, Pending
  <1>9. Tokened'
    BY <1>1, <1>2 DEF IInv, Tokened
  <1>10. Declaring'
    BY <1>5 DEF Declaring
  <1>11. Bottoming'
    <2>1. /\ d.actions = {"bottom"} /\ d.actors \cap kept = {}
          /\ \A s \in d.actors :
               d.responses[s] # NoAnswer /\ d.responses[s].fit =>
                 Penalty(taken[s]) <= OpeningHand
      BY <1>1, <1>2, <1>5 DEF IInv, Bottoming
    <2>2. d.responses \in [Seats -> Answers \cup {NoAnswer}]
          /\ d.actors \subseteq Seats
      BY <1>1 DEF DecisionType
    <2>3. answer.fit => Penalty(taken[seat]) <= OpeningHand
      <3>1. hand[seat] \in 0..OpeningHand /\ taken[seat] \in Nat
        BY DEF IInv, TypeOK
      <3>2. answer.action = "bottom"
        BY <1>1, <2>1
      <3> QED
        BY <3>1, <3>2, PenaltyType, MulliganAssumption DEF Sendable
    <2>4. \A s \in d.actors :
            d'.responses[s] # NoAnswer /\ d'.responses[s].fit =>
              Penalty(taken[s]) <= OpeningHand
      <3> HIDE DEF d
      <3> QED
        BY <1>2, <2>1, <2>2, <2>3
    <2> QED
      BY <1>2, <1>5, <2>1, <2>4 DEF Bottoming
  <1>12. RoundsAgree'
    BY <1>1, <1>2, <1>5 DEF IInv, RoundsAgree
  <1>13. HandSizes'
    BY <1>1, <1>2, <1>5, <1>6 DEF IInv, HandSizes
  <1> QED
    BY <1>7, <1>8, <1>9, <1>10, <1>11, <1>12, <1>13 DEF IInv

LEMMA DeclaredInv ==
  ASSUME IInv, NEW seat \in Seats, NEW token, NEW answer \in Answers,
         Authorized(permissions, seat, token, answer.action),
         permissions.decision.kind = "mulligan.declare",
         CompleteDeclaration(Close(Respond(permissions, seat, token, answer)),
                             Respond(permissions, seat, token, answer).decision,
                             seat, answer),
         UNCHANGED restarts
  PROVE  IInv'
  <1> DEFINE d == permissions.decision
             p == Respond(permissions, seat, token, answer)
             waiting == d.continuation.waiting \ {seat}
             mulliganers == d.continuation.mulliganers
                              \cup {s \in {seat} : answer.action = "mulligan"}
  <1>1. /\ Pending /\ started = FALSE /\ d \in DecisionType
        /\ seat \in Unanswered(d) /\ answer.action \in d.actions
    BY AuthorizedFacts
  <1>2. p.decision.continuation = permissions.decision.continuation
         /\ Closed(Close(p))
    <2>1. Closed(Close(p))
      BY RespondFacts
    <2>2. p.decision.continuation = permissions.decision.continuation
      BY <1>1 DEF Respond, DecisionType
    <2> QED
      BY <2>1, <2>2
  <1>3. /\ d.actions = {"keep", "mulligan"}
        /\ d.continuation.waiting # {}
        /\ d.actors = {First(d.continuation.waiting)}
        /\ d.continuation.waiting \cap d.continuation.mulliganers = {}
        /\ d.continuation.waiting \cup d.continuation.mulliganers = Seats \ kept
    BY <1>1 DEF IInv, Declaring
  <1>4. /\ d.continuation.waiting \in SUBSET Seats
        /\ d.continuation.mulliganers \in SUBSET Seats
    BY <1>1 DEF DecisionType
  <1>5. seat \in d.continuation.waiting
    BY <1>1, <1>3, <1>4, FirstOf DEF Unanswered
  <1>6. kept' = IF answer.action = "keep" THEN kept \cup {seat} ELSE kept
    BY DEF CompleteDeclaration
  <1>7. kept \in SUBSET Seats
    BY DEF IInv, TypeOK
  <1>8. /\ kept' \in SUBSET Seats /\ kept \subseteq kept'
        /\ waiting \in SUBSET Seats /\ mulliganers \in SUBSET Seats
        /\ waiting \cap mulliganers = {}
        /\ waiting \cup mulliganers = Seats \ kept'
    <2> HIDE DEF d
    <2>1. answer.action = "keep" \/ answer.action = "mulligan"
      BY <1>1, <1>3
    <2> QED
      BY <1>3, <1>4, <1>5, <1>6, <1>7, <2>1
  <1>9. CASE waiting # {}
    <2>1. /\ permissions' = Ask(Close(p), waiting, mulliganers)
          /\ UNCHANGED <<hand, taken, round, started>>
      BY <1>2, <1>9 DEF CompleteDeclaration
    <2>2. /\ permissions' \in [decision : DecisionType, counter : Nat,
                              capabilities : SUBSET Capability, occasions : Nat]
          /\ permissions'.decision.kind = "mulligan.declare"
          /\ Waits' /\ Tokened' /\ Declaring' /\ Bottoming'
      <3> HIDE DEF waiting, mulliganers
      <3> QED
        BY <1>1, <1>2, <1>8, <1>9, <2>1, AskFacts
    <2>3. TypeOK'
      <3>1. permissions' \in [decision : DecisionType \cup {NoDecision},
               counter : Nat, capabilities : SUBSET Capability, occasions : Nat]
        BY <2>2
      <3> QED
        BY <1>8, <2>1, <3>1 DEF IInv, TypeOK
    <2>4. RoundsAgree'
      BY <1>1, <1>8, <2>1, <2>2 DEF IInv, RoundsAgree
    <2>5. HandSizes'
      BY <2>1, <2>2 DEF IInv, HandSizes
    <2> QED
      BY <2>2, <2>3, <2>4, <2>5 DEF IInv
  <1>10. CASE waiting = {}
    <2>1. Redraw(Close(p), kept', mulliganers)
      BY <1>2, <1>6, <1>10 DEF CompleteDeclaration
    <2>2. mulliganers = Seats \ kept'
      BY <1>8, <1>10
    <2> HIDE DEF waiting, mulliganers
    <2>3. /\ permissions' \in [decision : DecisionType \cup {NoDecision},
                              counter : Nat, capabilities : SUBSET Capability,
                              occasions : Nat]
          /\ hand' \in [Seats -> 0..OpeningHand] /\ taken' \in [Seats -> Nat]
          /\ round' \in Nat /\ started' \in BOOLEAN
          /\ Waits' /\ Tokened' /\ Declaring' /\ Bottoming'
          /\ RoundsAgree' /\ HandSizes'
      BY <1>1, <1>2, <1>8, <2>1, <2>2, RedrawFacts
    <2>4. TypeOK'
      BY <1>8, <2>3 DEF IInv, TypeOK
    <2> QED
      BY <2>3, <2>4 DEF IInv
  <1> QED
    BY <1>9, <1>10

LEMMA BottomedInv ==
  ASSUME IInv, NEW seat \in Seats, NEW token, NEW answer \in Answers,
         Sendable(seat, answer),
         Authorized(permissions, seat, token, answer.action),
         permissions.decision.kind = "mulligan.bottom",
         Complete(Respond(permissions, seat, token, answer).decision),
         CompleteBottom(Close(Respond(permissions, seat, token, answer)),
                        Respond(permissions, seat, token, answer).decision, seat),
         UNCHANGED restarts
  PROVE  IInv'
  <1> DEFINE d == permissions.decision
             p == Respond(permissions, seat, token, answer)
  <1>1. /\ Pending /\ started = FALSE /\ d \in DecisionType
        /\ answer.action \in d.actions
    BY AuthorizedFacts
  <1>2. /\ p.decision.actors = d.actors
         /\ p.decision.responses = [d.responses EXCEPT ![seat] = answer]
         /\ Closed(Close(p))
    BY RespondFacts
  <1>3. /\ d.actions = {"bottom"} /\ d.actors \cap kept = {}
        /\ \A s \in d.actors :
             d.responses[s] # NoAnswer /\ d.responses[s].fit =>
               Penalty(taken[s]) <= OpeningHand
    BY <1>1 DEF IInv, Bottoming
  <1>4. /\ d.responses \in [Seats -> Answers \cup {NoAnswer}]
        /\ d.actors \subseteq Seats
    BY <1>1 DEF DecisionType
  <1>5. /\ \A s \in d.actors : p.decision.responses[s].fit
        /\ hand' = [s \in Seats |-> IF s \in d.actors
                                    THEN hand[s] - Penalty(taken[s]) ELSE hand[s]]
        /\ OpenRound(Close(p), kept) /\ taken' = taken /\ kept' = kept
    BY <1>2 DEF CompleteBottom
  <1>6. \A s \in d.actors : p.decision.responses[s] # NoAnswer
    BY <1>2 DEF Complete, Unanswered
  <1>7. /\ hand \in [Seats -> 0..OpeningHand] /\ taken \in [Seats -> Nat]
        /\ kept \in SUBSET Seats /\ OpeningHand \in Nat
    BY MulliganAssumption DEF IInv, TypeOK
  <1>8. \A s \in d.actors : Penalty(taken[s]) <= OpeningHand
    <2> SUFFICES ASSUME NEW s \in d.actors PROVE Penalty(taken[s]) <= OpeningHand
      OBVIOUS
    <2>1. CASE s = seat
      <3>1. answer.fit /\ answer.action = "bottom"
        BY <1>1, <1>2, <1>3, <1>4, <1>5, <2>1
      <3>2. Penalty(taken[seat]) <= hand[seat]
        BY <3>1 DEF Sendable
      <3> QED
        BY <1>4, <1>7, <2>1, <3>2, PenaltyType
    <2>2. CASE s # seat
      BY <1>2, <1>3, <1>4, <1>5, <1>6, <2>2
    <2> QED
      BY <2>1, <2>2
  <1>9. \A s \in Seats : hand[s] = IF s \in d.actors THEN OpeningHand
                                  ELSE OpeningHand - Penalty(taken[s])
    BY <1>1 DEF IInv, HandSizes
  <1>10. \A s \in Seats : hand'[s] = OpeningHand - Penalty(taken'[s])
    BY <1>5, <1>9
  <1>11. hand' \in [Seats -> 0..OpeningHand]
    BY <1>5, <1>7, <1>8, <1>9, PenaltyType
  <1>12. \A s \in Seats \ kept' : taken'[s] = round
    BY <1>1, <1>5 DEF IInv, RoundsAgree
  <1>13. /\ permissions' \in [decision : DecisionType \cup {NoDecision},
                              counter : Nat, capabilities : SUBSET Capability,
                              occasions : Nat]
         /\ round' \in Nat /\ started' \in BOOLEAN
         /\ Waits' /\ Tokened' /\ Declaring' /\ Bottoming'
         /\ RoundsAgree' /\ HandSizes'
    <2>1. OpenRound(Close(p), kept')
      BY <1>5
    <2>2. kept' \in SUBSET Seats
      BY <1>5, <1>7
    <2> QED
      BY <1>1, <1>2, <1>10, <1>12, <2>1, <2>2, OpenRoundFacts DEF IInv, TypeOK
  <1>14. TypeOK'
    BY <1>5, <1>7, <1>11, <1>13 DEF IInv, TypeOK
  <1> QED
    BY <1>13, <1>14 DEF IInv

(* Whoever loads the game gives each actor that still waits one token.     *)
LEMMA RestartInv ==
  ASSUME IInv, Restart
  PROVE  IInv'
  <1> DEFINE d == permissions.decision
  <1>1. UNCHANGED <<hand, taken, kept, round, started>>
        /\ permissions' = Reissue(permissions)
        /\ permissions \in [decision : DecisionType \cup {NoDecision},
               counter : Nat, capabilities : SUBSET Capability, occasions : Nat]
        /\ restarts' \in Nat
    BY DEF Restart, IInv, TypeOK
  <1>2. d' = d /\ permissions'.counter = permissions.counter
    BY <1>1 DEF Reissue
  <1>3. CASE d = NoDecision
    <2>1. permissions'.capabilities = {} /\ permissions'.occasions = permissions.occasions
      BY <1>1, <1>3 DEF Reissue
    <2>2. permissions' \in [decision : DecisionType \cup {NoDecision},
               counter : Nat, capabilities : SUBSET Capability, occasions : Nat]
      BY <1>1, <1>3 DEF Reissue
    <2>3. TypeOK'
      BY <1>1, <2>2 DEF IInv, TypeOK
    <2>4. Tokened'
      BY <1>2, <1>3 DEF Tokened, Pending
    <2> QED
      BY <1>1, <1>2, <2>3, <2>4
      DEF IInv, Waits, Declaring, Bottoming, RoundsAgree, HandSizes, Pending
  <1>4. CASE d # NoDecision
    <2>1. /\ d \in DecisionType
          /\ permissions'.capabilities =
               Fresh(permissions.occasions + 1, d.id, Unanswered(d))
          /\ permissions' \in [decision : DecisionType \cup {NoDecision},
               counter : Nat, capabilities : SUBSET Capability, occasions : Nat]
      <3>1. Fresh(permissions.occasions + 1, d.id, Unanswered(d)) \in SUBSET Capability
        <4>1. d \in DecisionType
          BY <1>1, <1>4
        <4>2. d.id \in Nat /\ Unanswered(d) \in SUBSET Seats
          BY <4>1 DEF DecisionType, Unanswered
        <4> HIDE DEF d
        <4> QED
          BY <1>1, <4>2 DEF Fresh, Capability
      <3>2. permissions' = [permissions EXCEPT
               !.capabilities = Fresh(permissions.occasions + 1, d.id, Unanswered(d)),
               !.occasions = permissions.occasions + 1]
        BY <1>1, <1>4 DEF Reissue
      <3>3. d \in DecisionType
        BY <1>1, <1>4
      <3>4. permissions'.capabilities =
               Fresh(permissions.occasions + 1, d.id, Unanswered(d))
        BY <1>1, <3>2
      <3> HIDE DEF d
      <3>5. permissions' \in [decision : DecisionType \cup {NoDecision},
               counter : Nat, capabilities : SUBSET Capability, occasions : Nat]
        <4>1. permissions' = [decision |-> permissions.decision,
                 counter |-> permissions.counter,
                 capabilities |->
                    Fresh(permissions.occasions + 1, d.id, Unanswered(d)),
                 occasions |-> permissions.occasions + 1]
          BY <1>1, <3>2
        <4> QED
          BY <1>1, <3>1, <4>1
      <3> QED
        BY <3>3, <3>4, <3>5
    <2>2. TypeOK'
      BY <1>1, <2>1 DEF IInv, TypeOK
    <2>3. Tokened'
      <3>1. d.actors # {} /\ d.id = permissions.counter
        BY <1>4 DEF IInv, Tokened, Pending
      <3> QED
        BY <1>2, <2>1, <3>1, FreshFacts DEF Tokened
    <2> QED
      BY <1>1, <1>2, <2>2, <2>3
      DEF IInv, Waits, Declaring, Bottoming, RoundsAgree, HandSizes, Pending
  <1> QED
    BY <1>3, <1>4

LEMMA NextInv == IInv /\ [Next]_vars => IInv'
  <1> SUFFICES ASSUME IInv, [Next]_vars PROVE IInv'
    OBVIOUS
  <1>1. ASSUME NEW seat \in Seats, NEW token \in Tokens, NEW answer \in Answers,
               Submit(seat, token, answer)
        PROVE  IInv'
    <2> DEFINE p == Respond(permissions, seat, token, answer)
    <2>1. /\ Sendable(seat, answer) /\ UNCHANGED restarts
          /\ Authorized(permissions, seat, token, answer.action)
      BY <1>1 DEF Submit
    <2>2. CASE ~Complete(p.decision)
      <3>1. permissions' = p /\ UNCHANGED <<hand, taken, kept, round, started>>
        BY <1>1, <2>2 DEF Submit
      <3> QED
        BY <2>1, <2>2, <3>1, RecordedInv
    <2>3. CASE Complete(p.decision)
      <3>1. p.decision.kind = permissions.decision.kind
        BY <2>1, AuthorizedFacts DEF Respond, DecisionType
      <3>2. \/ /\ permissions.decision.kind = "mulligan.declare"
               /\ CompleteDeclaration(Close(p), p.decision, seat, answer)
            \/ /\ permissions.decision.kind = "mulligan.bottom"
               /\ CompleteBottom(Close(p), p.decision, seat)
        BY <1>1, <2>3, <3>1 DEF Submit
      <3> QED
        BY <2>1, <2>3, <3>2, DeclaredInv, BottomedInv
    <2> QED
      BY <2>2, <2>3
  <1>2. CASE Restart
    BY <1>2, RestartInv
  <1>3. CASE UNCHANGED vars
    BY <1>3 DEF vars, IInv, TypeOK, Waits, Tokened, Declaring, Bottoming,
                RoundsAgree, HandSizes, Pending
  <1> QED
    BY <1>1, <1>2, <1>3 DEF Next

LEMMA InvHolds == Spec => []IInv
  BY InitInv, NextInv, PTL DEF Spec

-----------------------------------------------------------------------------
(* The fields of the manager and of the players keep their types, and no   *)
(* hand is ever smaller than empty.                                        *)
THEOREM TypeCorrect == Spec => []TypeOK
  <1>1. IInv => TypeOK
    BY DEF IInv
  <1> QED
    BY <1>1, InvHolds, PTL

(* Whatever was answered before a restart: an actor that is still asked    *)
(* holds exactly one capability, and nobody else holds any.                *)
THEOREM TokensAreLive == Spec => []LiveTokens
  <1>1. IInv => LiveTokens
    <2> SUFFICES ASSUME IInv PROVE LiveTokens
      OBVIOUS
    <2>1. Pending => permissions.decision \in DecisionType
      BY DEF IInv, TypeOK, Pending
    <2> QED
      BY <2>1, TokenedIsLive DEF IInv
  <1> QED
    BY <1>1, InvHolds, PTL

(* Nobody redraws before everybody of the round has declared.              *)
THEOREM RoundsAreFair == Spec => []RoundsAgree
  <1>1. IInv => RoundsAgree
    BY DEF IInv
  <1> QED
    BY <1>1, InvHolds, PTL

(* Hands have the size their mulligans leave, whoever was asked together.  *)
THEOREM HandsFit == Spec => []HandSizes
  <1>1. IInv => HandSizes
    BY DEF IInv
  <1> QED
    BY <1>1, InvHolds, PTL

-----------------------------------------------------------------------------
(* A decision that follows another one has a new number.                   *)
LEMMA NewDecision ==
  ASSUME NEW STATE p, p.counter = permissions.counter, p.decision = NoDecision,
         NEW seat, NEW answer, NEW decision,
         \/ CompleteDeclaration(p, decision, seat, answer)
         \/ CompleteBottom(p, decision, seat)
  PROVE  \/ permissions'.decision = NoDecision
         \/ permissions'.counter = permissions.counter + 1
  <1>1. ASSUME NEW keepers, OpenRound(p, keepers)
        PROVE  \/ permissions'.decision = NoDecision
               \/ permissions'.counter = permissions.counter + 1
    BY <1>1 DEF OpenRound, Ask, Issue
  <1>2. ASSUME NEW keepers, NEW mulliganers, Redraw(p, keepers, mulliganers)
        PROVE  \/ permissions'.decision = NoDecision
               \/ permissions'.counter = permissions.counter + 1
    BY <1>1, <1>2 DEF Redraw, Issue
  <1> QED
    BY <1>1, <1>2 DEF CompleteDeclaration, CompleteBottom, Ask, Issue

(* No answer that was accepted is changed by a late, repeated or restarted *)
(* one, and no decision is left before its last actor answers.             *)
THEOREM AcceptedAnswersStand == Spec => AnswersStand
  <1> DEFINE asked == permissions.decision
             next == permissions'.decision
             A == Pending =>
                    IF next # NoDecision /\ next.id = asked.id
                    THEN \A s \in Seats : asked.responses[s] # NoAnswer =>
                           next.responses[s] = asked.responses[s]
                    ELSE \E s \in asked.actors : Unanswered(asked) = {s}
  <1>1. ASSUME IInv, Pending, NEW seat \in Seats, NEW token \in Tokens,
               NEW answer \in Answers, Submit(seat, token, answer)
        PROVE  A
    <2> DEFINE p == Respond(permissions, seat, token, answer)
    <2>1. /\ asked \in DecisionType /\ seat \in Unanswered(asked)
          /\ Authorized(permissions, seat, token, answer.action)
      BY <1>1, AuthorizedFacts DEF Submit
    <2>2. /\ p.decision.id = asked.id
          /\ p.decision.responses = [asked.responses EXCEPT ![seat] = answer]
          /\ Unanswered(p.decision) = Unanswered(asked) \ {seat}
          /\ p.decision \in DecisionType
          /\ Close(p).counter = permissions.counter
          /\ Close(p).decision = NoDecision
      <3> HIDE DEF asked
      <3>1. /\ p.decision.id = asked.id
            /\ p.decision.responses = [asked.responses EXCEPT ![seat] = answer]
            /\ Unanswered(p.decision) = Unanswered(asked) \ {seat}
            /\ p \in [decision : DecisionType, counter : Nat,
                      capabilities : SUBSET Capability, occasions : Nat]
        BY <1>1, <2>1, RespondFacts DEF asked
      <3>2. p.counter = permissions.counter
        BY DEF Respond
      <3> HIDE DEF p
      <3> QED
        BY <3>1, <3>2 DEF Close
    <2>3. CASE ~Complete(p.decision)
      <3>1. permissions' = p
        BY <1>1, <2>3 DEF Submit
      <3>2. asked.responses[seat] = NoAnswer
        BY <2>1 DEF Unanswered
      <3>3. asked.responses \in [Seats -> Answers \cup {NoAnswer}]
        BY <2>1 DEF DecisionType
      <3>4. next = p.decision /\ next # NoDecision
        BY <2>2, <3>1, MulliganAssumption
      <3> HIDE DEF p, asked, next
      <3> QED
        BY <2>2, <3>2, <3>3, <3>4
    <2>4. CASE Complete(p.decision)
      <3>1. Unanswered(asked) = {seat} /\ seat \in asked.actors
        BY <2>1, <2>2, <2>4 DEF Complete, Unanswered
      <3>2. \/ next = NoDecision
            \/ permissions'.counter = permissions.counter + 1
        <4>1. \/ CompleteDeclaration(Close(p), p.decision, seat, answer)
              \/ CompleteBottom(Close(p), p.decision, seat)
          BY <1>1, <2>4 DEF Submit
        <4> HIDE DEF p
        <4> QED
          BY <2>2, <4>1, NewDecision
      <3>3. next # NoDecision => next.id # asked.id
        <4>1. IInv'
          BY <1>1, NextInv DEF Next
        <4>2. asked.id = permissions.counter /\ permissions.counter \in Nat
          BY <1>1 DEF IInv, Tokened, TypeOK
        <4>3. next # NoDecision => next.id = permissions'.counter
          BY <4>1 DEF IInv, Tokened, Pending
        <4> QED
          BY <3>2, <4>2, <4>3
      <3> QED
        BY <3>1, <3>3
    <2> QED
      BY <2>3, <2>4
  <1>2. ASSUME IInv, Pending, Restart PROVE A
    BY <1>2 DEF Restart, Reissue, Pending
  <1>3. ASSUME IInv, Pending, UNCHANGED vars PROVE A
    BY <1>3 DEF vars, Pending
  <1>4. IInv /\ [Next]_vars => A
    BY <1>1, <1>2, <1>3 DEF Next
  <1>5. IInv /\ [Next]_vars => [A]_vars
    BY <1>4
  <1>6. Spec => [][A]_vars
    <2> HIDE DEF A
    <2> QED
      BY <1>5, InvHolds, PTL DEF Spec
  <1> QED
    BY <1>6 DEF AnswersStand

(* Nobody who has kept is asked.                                           *)
LEMMA AskedHaveNotKept ==
  IInv => (Pending => permissions.decision.actors \cap kept = {})
  <1> SUFFICES ASSUME IInv, Pending
             PROVE  permissions.decision.actors \cap kept = {}
    OBVIOUS
  <1>1. permissions.decision \in DecisionType
    BY DEF IInv, TypeOK, Pending
  <1>2. CASE permissions.decision.kind = "mulligan.declare"
    <2>1. /\ permissions.decision.continuation.waiting \in SUBSET Seats
          /\ permissions.decision.continuation.waiting # {}
          /\ permissions.decision.continuation.waiting \subseteq Seats \ kept
          /\ permissions.decision.actors
               = {First(permissions.decision.continuation.waiting)}
      BY <1>1, <1>2 DEF IInv, Declaring, DecisionType
    <2> QED
      BY <2>1, FirstOf
  <1>3. CASE permissions.decision.kind = "mulligan.bottom"
    BY <1>3 DEF IInv, Bottoming
  <1> QED
    BY <1>1, <1>2, <1>3 DEF DecisionType

(* A hand that was kept is not touched, and its player not asked, again.   *)
THEOREM KeepingIsFinal == Spec => KeepIsFinal
  <1> DEFINE A == \A s \in kept :
                    /\ s \in kept' /\ hand'[s] = hand[s] /\ taken'[s] = taken[s]
                    /\ permissions'.decision # NoDecision =>
                         s \notin permissions'.decision.actors
  <1>1. ASSUME IInv, [Next]_vars
        PROVE  permissions'.decision # NoDecision =>
                 permissions'.decision.actors \cap kept' = {}
    <2>1. IInv'
      BY <1>1, NextInv
    <2>2. (IInv => (Pending => permissions.decision.actors \cap kept = {}))'
      BY AskedHaveNotKept, PTL
    <2> QED
      BY <2>1, <2>2 DEF Pending
  <1>2. ASSUME IInv, [Next]_vars
        PROVE  \A s \in kept :
                 s \in kept' /\ hand'[s] = hand[s] /\ taken'[s] = taken[s]
    <2>1. kept \subseteq Seats
      BY <1>2 DEF IInv, TypeOK
    <2>2. ASSUME NEW seat \in Seats, NEW token \in Tokens, NEW answer \in Answers,
                 Submit(seat, token, answer), NEW s \in kept
          PROVE  s \in kept' /\ hand'[s] = hand[s] /\ taken'[s] = taken[s]
      <3> DEFINE p == Respond(permissions, seat, token, answer)
                 d == permissions.decision
      <3>1. /\ d \in DecisionType /\ Pending
            /\ Authorized(permissions, seat, token, answer.action)
        BY <1>2, <2>2, AuthorizedFacts DEF Submit
      <3>2. /\ p.decision.kind = d.kind /\ p.decision.actors = d.actors
            /\ p.decision.continuation = d.continuation
        BY <3>1 DEF Respond, DecisionType
      <3>3. CASE ~Complete(p.decision)
        BY <2>2, <3>3 DEF Submit
      <3>4. CASE /\ d.kind = "mulligan.declare"
                 /\ CompleteDeclaration(Close(p), p.decision, seat, answer)
        <4> DEFINE mulliganers == d.continuation.mulliganers
                                    \cup {t \in {seat} : answer.action = "mulligan"}
        <4>1. s \notin mulliganers
          <5>1. d.continuation.mulliganers \cap kept = {} /\ d.actors \cap kept = {}
            BY AskedHaveNotKept, <1>2, <3>1, <3>4 DEF IInv, Declaring
          <5>2. seat \in d.actors
            BY <1>2, <3>1, AuthorizedFacts DEF Unanswered
          <5> QED
            BY <5>1, <5>2
        <4>2. s \in kept'
          BY <3>4 DEF CompleteDeclaration
        <4>3. \/ hand' = hand /\ taken' = taken
              \/ Redraw(Close(p), kept', mulliganers)
          BY <3>2, <3>4 DEF CompleteDeclaration
        <4>4. ASSUME Redraw(Close(p), kept', mulliganers)
              PROVE  hand'[s] = hand[s] /\ taken'[s] = taken[s]
          <5> HIDE DEF mulliganers
          <5> QED
            BY <2>1, <4>1, <4>4 DEF Redraw
        <4> QED
          BY <4>2, <4>3, <4>4
      <3>5. CASE /\ d.kind = "mulligan.bottom"
                 /\ CompleteBottom(Close(p), p.decision, seat)
        <4>1. s \notin d.actors
          BY AskedHaveNotKept, <1>2, <3>1
        <4> QED
          BY <2>1, <3>2, <3>5, <4>1 DEF CompleteBottom
      <3> QED
        BY <2>2, <3>2, <3>3, <3>4, <3>5 DEF Submit
    <2>3. CASE Restart
      BY <2>3 DEF Restart
    <2>4. CASE UNCHANGED vars
      BY <2>4 DEF vars
    <2> QED
      BY <1>2, <2>2, <2>3, <2>4 DEF Next
  <1>3. IInv /\ [Next]_vars => [A]_vars
    BY <1>1, <1>2
  <1>4. Spec => [][A]_vars
    <2> HIDE DEF A
    <2> QED
      BY <1>3, InvHolds, PTL DEF Spec
  <1> QED
    BY <1>4 DEF KeepIsFinal

-----------------------------------------------------------------------------
(* A round of declarations runs out, whoever keeps and whoever does not.   *)

\* Declarations come before the cards that are put on the bottom.
Phase ==
  IF permissions.decision.kind = "mulligan.declare" THEN 1 ELSE 0

\* Who has still to declare, or to answer the decision about the bottom.
Left ==
  Cardinality(IF permissions.decision.kind = "mulligan.declare"
              THEN permissions.decision.continuation.waiting
              ELSE Unanswered(permissions.decision))

Closer ==
  /\ round' = round /\ started' = FALSE
  /\ Phase' < Phase \/ (Phase' = Phase /\ Left' < Left)

LEMMA SeatSetsFinite ==
  ASSUME NEW S \in SUBSET Seats
  PROVE  IsFiniteSet(S) /\ Cardinality(S) \in Nat
  <1>1. IsFiniteSet(Seats)
    BY MulliganAssumption, FS_Interval DEF Seats
  <1> QED
    BY <1>1, FS_Subset, FS_CardinalityType

LEMMA AtMostAll ==
  ASSUME NEW S \in SUBSET Seats
  PROVE  Cardinality(S) \in 0..N
  <1>1. IsFiniteSet(Seats) /\ Cardinality(Seats) = N
    BY MulliganAssumption, FS_Interval DEF Seats
  <1>2. Cardinality(S) <= Cardinality(Seats)
    BY <1>1, FS_Subset
  <1> QED
    BY <1>1, <1>2, SeatSetsFinite, MulliganAssumption

LEMMA OneLess ==
  ASSUME NEW S \in SUBSET Seats, NEW s \in S
  PROVE  Cardinality(S \ {s}) < Cardinality(S)
  BY SeatSetsFinite, FS_RemoveElement

(* An accepted answer brings the round nearer to its end, or is its end.   *)
LEMMA AnswerFalls ==
  ASSUME IInv, NEW seat \in Seats, NEW token \in Tokens, NEW answer \in Answers,
         Submit(seat, token, answer)
  PROVE  Closer \/ started' \/ round' = round + 1
  <1> DEFINE d == permissions.decision
             p == Respond(permissions, seat, token, answer)
  <1>1. /\ d \in DecisionType /\ started = FALSE
        /\ Authorized(permissions, seat, token, answer.action)
        /\ seat \in Unanswered(d) /\ Pending
    BY AuthorizedFacts DEF Submit
  <1>2. /\ p.decision.kind = d.kind
        /\ p.decision.continuation = d.continuation
        /\ Unanswered(p.decision) = Unanswered(d) \ {seat}
    <2>1. /\ p.decision.kind = d.kind
          /\ p.decision.continuation = d.continuation
      BY <1>1 DEF Respond, DecisionType
    <2>2. Unanswered(p.decision) = Unanswered(d) \ {seat}
      BY <1>1, RespondFacts
    <2> QED
      BY <2>1, <2>2
  <1>3. /\ Unanswered(d) \in SUBSET Seats
        /\ d.continuation.waiting \in SUBSET Seats
    BY <1>1 DEF DecisionType, Unanswered
  <1>4. ASSUME d.kind = "mulligan.declare"
        PROVE  seat \in d.continuation.waiting
    <2>1. d.continuation.waiting # {}
          /\ d.actors = {First(d.continuation.waiting)}
      BY <1>1, <1>4 DEF IInv, Declaring
    <2>2. seat \in d.actors
      BY <1>1 DEF Unanswered
    <2> QED
      BY <1>3, <2>1, <2>2, FirstOf
  <1>5. d.kind \in {"mulligan.declare", "mulligan.bottom"}
    BY <1>1 DEF DecisionType
  <1>6. CASE ~Complete(p.decision)
    <2>1. permissions' = p /\ round' = round /\ started' = FALSE
      BY <1>1, <1>6 DEF Submit
    <2>2. d.kind = "mulligan.bottom"
      <3>1. CASE d.kind = "mulligan.declare"
        <4>1. Unanswered(d) \subseteq {First(d.continuation.waiting)}
          BY <1>1, <3>1 DEF IInv, Declaring, Unanswered
        <4> QED
          BY <1>1, <1>2, <1>6, <4>1 DEF Complete
      <3> QED
        BY <1>5, <3>1
    <2>3. Phase' = Phase
      BY <1>2, <2>1 DEF Phase
    <2>4. Left' < Left
      <3>1. Left' = Cardinality(Unanswered(d) \ {seat})
        BY <1>2, <2>1, <2>2 DEF Left
      <3>2. Left = Cardinality(Unanswered(d))
        BY <2>2 DEF Left
      <3> QED
        BY <1>1, <1>3, <3>1, <3>2, OneLess
    <2> QED
      BY <2>1, <2>3, <2>4 DEF Closer
  <1>7. ASSUME NEW keepers, OpenRound(Close(p), keepers)
        PROVE  started' \/ round' = round + 1
    BY <1>7 DEF OpenRound
  <1>8. CASE CompleteDeclaration(Close(p), p.decision, seat, answer)
               /\ d.kind = "mulligan.declare"
    <2> DEFINE waiting == d.continuation.waiting \ {seat}
               mulliganers == d.continuation.mulliganers
                                \cup {s \in {seat} : answer.action = "mulligan"}
    <2>1. CASE waiting # {}
      <3>1. /\ permissions' = Ask(Close(p), waiting, mulliganers)
            /\ round' = round /\ started' = FALSE
        BY <1>1, <1>2, <1>8, <2>1 DEF CompleteDeclaration
      <3>2. /\ permissions'.decision.kind = "mulligan.declare"
            /\ permissions'.decision.continuation.waiting = waiting
        BY <3>1 DEF Ask, Issue
      <3>3. Phase' = Phase /\ Left' < Left
        <4>1. Left' = Cardinality(waiting)
              /\ Left = Cardinality(d.continuation.waiting)
          BY <1>8, <3>2 DEF Left
        <4>2. Cardinality(waiting) < Cardinality(d.continuation.waiting)
          BY <1>3, <1>4, <1>8, OneLess
        <4> QED
          BY <1>8, <3>2, <4>1, <4>2 DEF Phase
      <3> QED
        BY <3>1, <3>3 DEF Closer
    <2>2. ASSUME NEW keepers, Redraw(Close(p), keepers, mulliganers)
          PROVE  Closer \/ started' \/ round' = round + 1
      <3>1. \/ OpenRound(Close(p), keepers)
            \/ /\ permissions'.decision.kind = "mulligan.bottom"
               /\ round' = round /\ started' = FALSE
        <4> HIDE DEF p, mulliganers
        <4> QED
          BY <1>1, <2>2 DEF Redraw, Issue
      <3>2. permissions'.decision.kind = "mulligan.bottom" => Phase' < Phase
        BY <1>8 DEF Phase
      <3> QED
        BY <1>7, <3>1, <3>2 DEF Closer
    <2> QED
      BY <1>2, <1>8, <2>1, <2>2 DEF CompleteDeclaration
  <1>9. CASE CompleteBottom(Close(p), p.decision, seat)
    BY <1>7, <1>9 DEF CompleteBottom
  <1>10. Complete(p.decision) =>
           \/ /\ d.kind = "mulligan.declare"
              /\ CompleteDeclaration(Close(p), p.decision, seat, answer)
           \/ CompleteBottom(Close(p), p.decision, seat)
    <2>1. Complete(p.decision) =>
            \/ /\ p.decision.kind = "mulligan.declare"
               /\ CompleteDeclaration(Close(p), p.decision, seat, answer)
            \/ CompleteBottom(Close(p), p.decision, seat)
      BY DEF Submit
    <2> QED
      BY <1>2, <2>1
  <1> HIDE DEF p, d
  <1> QED
    BY <1>6, <1>8, <1>9, <1>10

(* The clients take no more mulligans than they may, and a round has then  *)
(* no higher number than its mulligans explain.                            *)
Taking ==
  /\ round >= 1
  /\ \A s \in Seats : taken[s] <= MaxTaken
  /\ ~started /\ permissions.decision.kind = "mulligan.declare" =>
       \A s \in permissions.decision.continuation.mulliganers :
         taken[s] < MaxTaken
  /\ Pending => Unanswered(permissions.decision) # {}

(* A decision that nobody has answered yet waits for somebody.             *)
LEMMA NewlyAsked ==
  ASSUME IInv', permissions'.decision.responses = [s \in Seats |-> NoAnswer]
  PROVE  (Pending => Unanswered(permissions.decision) # {})'
  <1> SUFFICES ASSUME Pending'
               PROVE  Unanswered(permissions'.decision) # {}
    OBVIOUS
  <1>1. permissions'.decision.actors # {}
    BY DEF IInv, Tokened
  <1>2. permissions'.decision.actors \subseteq Seats
    BY DEF IInv, TypeOK, Pending, DecisionType
  <1> QED
    BY <1>1, <1>2 DEF Unanswered

LEMMA InitTaking == ASSUME Init PROVE Taking
  <1>1. \A s \in Seats : taken[s] <= MaxTaken
    BY MulliganAssumption DEF Init
  <1>2. /\ permissions.decision.continuation.mulliganers = {}
        /\ permissions.decision.responses = [s \in Seats |-> NoAnswer]
        /\ permissions.decision.actors = {First(Seats)}
    BY DEF Init, Ask, Issue
  <1>3. First(Seats) \in Seats
    <2>1. 1 \in Seats
      BY MulliganAssumption DEF Seats
    <2> QED
      BY <2>1, FirstOf
  <1>4. First(Seats) \in Unanswered(permissions.decision)
    BY <1>2, <1>3 DEF Unanswered
  <1>5. round = 1
    BY DEF Init
  <1> QED
    BY <1>1, <1>2, <1>4, <1>5 DEF Taking

LEMMA NextTaking == IInv /\ Taking /\ [Next]_vars => Taking'
  <1> SUFFICES ASSUME IInv, Taking, [Next]_vars PROVE Taking'
    OBVIOUS
  <1>0. IInv'
    BY NextInv
  <1> DEFINE d == permissions.decision
  <1>1. /\ taken \in [Seats -> Nat] /\ MaxTaken \in Nat
        /\ round \in Nat /\ round >= 1
    BY MulliganAssumption DEF IInv, TypeOK, Taking
  <1>2. ASSUME NEW p, NEW keepers, OpenRound(p, keepers),
               \A s \in Seats : taken'[s] <= MaxTaken
        PROVE  Taking'
    <2>1. CASE keepers = Seats
      <3>1. started' = TRUE /\ round' = round
        BY <1>2, <2>1 DEF OpenRound
      <3>2. ~Pending'
        BY <1>0, <3>1 DEF IInv, Waits, Pending
      <3> QED
        BY <1>1, <1>2, <3>1, <3>2 DEF Taking
    <2>2. CASE keepers # Seats
      <3>1. /\ permissions'.decision.continuation.mulliganers = {}
            /\ permissions'.decision.responses = [s \in Seats |-> NoAnswer]
            /\ round' = round + 1
        BY <1>2, <2>2 DEF OpenRound, Ask, Issue
      <3> QED
        BY <1>0, <1>1, <1>2, <3>1, NewlyAsked DEF Taking
    <2> QED
      BY <2>1, <2>2
  <1>3. ASSUME NEW seat \in Seats, NEW token \in Tokens, NEW answer \in Answers,
               Submit(seat, token, answer)
        PROVE  Taking'
    <2> DEFINE p == Respond(permissions, seat, token, answer)
               mulliganers == d.continuation.mulliganers
                                \cup {s \in {seat} : answer.action = "mulligan"}
    <2>1. /\ d \in DecisionType /\ started = FALSE
          /\ p.decision.kind = d.kind
          /\ p.decision.continuation = d.continuation
      <3>1. /\ d \in DecisionType /\ started = FALSE
            /\ Authorized(permissions, seat, token, answer.action)
        BY <1>3, AuthorizedFacts DEF Submit
      <3> QED
        BY <3>1, AuthorizedFacts DEF Respond, DecisionType
    <2>2. CASE ~Complete(p.decision)
      <3>1. permissions' = p /\ UNCHANGED <<taken, started, round>>
        BY <1>3, <2>2 DEF Submit
      <3>2. (Pending => Unanswered(permissions.decision) # {})'
        BY <2>2, <3>1 DEF Complete
      <3> HIDE DEF p
      <3> QED
        BY <2>1, <3>1, <3>2 DEF Taking
    <2>3. d.kind = "mulligan.declare" =>
            \A s \in mulliganers : taken[s] < MaxTaken
      BY <1>3, <2>1 DEF Taking, Submit, Sendable
    <2>4. ASSUME d.kind = "mulligan.declare",
                 CompleteDeclaration(Close(p), p.decision, seat, answer)
          PROVE  Taking'
      <3> DEFINE waiting == d.continuation.waiting \ {seat}
      <3>1. CASE waiting # {}
        <4>1. /\ permissions' = Ask(Close(p), waiting, mulliganers)
              /\ taken' = taken /\ round' = round
          BY <2>1, <2>4, <3>1 DEF CompleteDeclaration
        <4>2. /\ permissions'.decision.continuation.mulliganers = mulliganers
              /\ permissions'.decision.responses = [s \in Seats |-> NoAnswer]
          BY <4>1 DEF Ask, Issue
        <4> HIDE DEF mulliganers
        <4> QED
          BY <1>0, <2>3, <2>4, <4>1, <4>2, NewlyAsked DEF Taking
      <3>2. ASSUME NEW keepers, Redraw(Close(p), keepers, mulliganers)
            PROVE  Taking'
        <4> HIDE DEF mulliganers, p
        <4>1. taken' = [s \in Seats |->
                          IF s \in mulliganers THEN taken[s] + 1 ELSE taken[s]]
          BY <3>2 DEF Redraw
        <4>2. \A s \in Seats : taken'[s] <= MaxTaken
          BY <1>1, <2>3, <2>4, <4>1 DEF Taking
        <4>3. \/ OpenRound(Close(p), keepers)
              \/ /\ permissions'.decision.kind = "mulligan.bottom"
                 /\ permissions'.decision.responses = [s \in Seats |-> NoAnswer]
                 /\ round' = round
          BY <3>2 DEF Redraw, Issue
        <4> QED
          BY <1>0, <1>2, <4>2, <4>3, NewlyAsked DEF Taking
      <3> QED
        BY <2>1, <2>4, <3>1, <3>2 DEF CompleteDeclaration
    <2>5. ASSUME CompleteBottom(Close(p), p.decision, seat)
          PROVE  Taking'
      <3>1. OpenRound(Close(p), kept) /\ taken' = taken
        BY <2>5 DEF CompleteBottom
      <3>2. \A s \in Seats : taken'[s] <= MaxTaken
        BY <3>1 DEF Taking
      <3> QED
        BY <1>2, <3>1, <3>2
    <2> HIDE DEF p
    <2>6. Complete(p.decision) =>
            \/ /\ d.kind = "mulligan.declare"
               /\ CompleteDeclaration(Close(p), p.decision, seat, answer)
            \/ CompleteBottom(Close(p), p.decision, seat)
      BY <1>3, <2>1 DEF Submit, p
    <2> QED
      BY <2>2, <2>4, <2>5, <2>6
  <1>4. CASE Restart
    <2>1. permissions'.decision = d /\ UNCHANGED <<taken, started, round>>
      <3>1. permissions \in [decision : DecisionType \cup {NoDecision},
               counter : Nat, capabilities : SUBSET Capability, occasions : Nat]
        BY DEF IInv, TypeOK
      <3> QED
        BY <1>4, <3>1 DEF Restart, Reissue
    <2> QED
      BY <2>1 DEF Taking, Pending
  <1>5. CASE UNCHANGED vars
    BY <1>5 DEF vars, Taking, Pending
  <1> QED
    BY <1>3, <1>4, <1>5 DEF Next

\* At most how many answers are still wanted before the game starts.
Ahead == 2 * N * (MaxTaken + 1 - round) + N * Phase + Left

Bounded ==
  ~started =>
    round \in 1..(MaxTaken + 1) /\ Phase \in 0..1 /\ Left \in 1..N

LEMMA AheadInRange == IInv /\ Taking => Bounded
  <1> SUFFICES ASSUME IInv, Taking, ~started
               PROVE  /\ round \in 1..(MaxTaken + 1)
                      /\ Phase \in 0..1 /\ Left \in 1..N
    BY DEF Bounded
  <1> DEFINE d == permissions.decision
  <1>1. /\ Pending /\ d \in DecisionType
        /\ taken \in [Seats -> Nat] /\ kept \subseteq Seats /\ round \in Nat
        /\ MaxTaken \in Nat /\ round >= 1
    BY MulliganAssumption DEF IInv, TypeOK, Waits, Pending, Taking
  <1>2. /\ Unanswered(d) \in SUBSET Seats /\ d.actors \in SUBSET Seats
        /\ d.continuation.waiting \in SUBSET Seats
        /\ d.kind \in {"mulligan.declare", "mulligan.bottom"}
    BY <1>1 DEF DecisionType, Unanswered
  <1>3. CASE d.kind = "mulligan.declare"
    <2>1. PICK s \in d.continuation.waiting : s \in Seats \ kept
      BY <1>1, <1>3 DEF IInv, Declaring
    <2>2. taken[s] = round - 1 /\ taken[s] <= MaxTaken
      BY <1>3, <2>1 DEF IInv, RoundsAgree, Taking
    <2>3. round \in 1..(MaxTaken + 1)
      <3>1. taken[s] \in Nat
        BY <1>1, <2>1
      <3> HIDE DEF d
      <3> QED
        BY <1>1, <2>2, <3>1
    <2>4. Phase = 1 /\ Left = Cardinality(d.continuation.waiting)
      BY <1>3 DEF Phase, Left
    <2>5. Left \in 0..N /\ Left # 0
      BY <1>2, <2>1, <2>4, AtMostAll, SeatSetsFinite, FS_EmptySet
    <2> QED
      BY <2>3, <2>4, <2>5, MulliganAssumption
  <1>4. CASE d.kind = "mulligan.bottom"
    <2>1. PICK s : s \in Unanswered(d)
      BY <1>1 DEF Taking
    <2>2. s \in Seats \ kept
      BY <1>1, <1>2, <1>4, <2>1 DEF IInv, Bottoming, Unanswered
    <2>3. taken[s] = round /\ taken[s] <= MaxTaken
      BY <1>4, <2>2 DEF IInv, RoundsAgree, Taking
    <2>4. Phase = 0 /\ Left = Cardinality(Unanswered(d))
      BY <1>4 DEF Phase, Left
    <2>5. Left \in 0..N /\ Left # 0
      BY <1>2, <2>1, <2>4, AtMostAll, SeatSetsFinite, FS_EmptySet
    <2>6. round \in 1..(MaxTaken + 1)
      <3> HIDE DEF d
      <3> QED
        BY <1>1, <2>3
    <2> QED
      BY <1>1, <2>3, <2>4, <2>5, <2>6, MulliganAssumption
  <1> QED
    BY <1>2, <1>3, <1>4

Counted == IInv /\ Taking /\ Bounded

LEMMA CountedHolds == Spec => []Counted
  <1>1. Init => IInv /\ Taking
    BY InitInv, InitTaking
  <1>2. (IInv /\ Taking) /\ [Next]_vars => (IInv /\ Taking)'
    BY NextInv, NextTaking
  <1>3. IInv /\ Taking => Counted
    BY AheadInRange DEF Counted
  <1> QED
    BY <1>1, <1>2, <1>3, PTL DEF Spec

(* What is ahead of a game that has not started is counted by a number.    *)
LEMMA AheadIsNatural ==
  ASSUME Bounded, ~started
  PROVE  Ahead \in 1..(2 * N * (MaxTaken + 1))
  <1> DEFINE R == MaxTaken + 1 - round
  <1>1. /\ R \in 0..MaxTaken /\ Phase \in 0..1 /\ Left \in 1..N
        /\ N \in Nat /\ MaxTaken \in Nat
    BY MulliganAssumption DEF Bounded
  <1>2. Ahead = 2 * N * R + N * Phase + Left
    BY DEF Ahead
  <1>3. 2 * N * R >= 0 /\ 2 * N * R <= 2 * N * MaxTaken
    BY <1>1
  <1>4. N * Phase \in 0..N
    BY <1>1
  <1>5. 2 * N * (MaxTaken + 1) = 2 * N * MaxTaken + 2 * N
    BY <1>1
  <1>6. 2 * N * R \in Int /\ 2 * N * MaxTaken \in Int
    BY <1>1
  <1> HIDE DEF R
  <1> QED
    BY <1>1, <1>2, <1>3, <1>4, <1>5, <1>6

(* A lexicographic step down is a step down of the count.                  *)
LEMMA CountsDown ==
  ASSUME NEW r \in Int, NEW f \in 0..1, NEW n \in Nat, NEW l \in 1..n,
         NEW q \in Int, NEW g \in 0..1, NEW k \in 1..n,
         \/ q = r /\ g < f
         \/ q = r /\ g = f /\ k < l
         \/ q = r - 1
  PROVE  2 * n * q + n * g + k < 2 * n * r + n * f + l
  <1>1. CASE q = r /\ g < f
    <2>1. f = 1 /\ g = 0
      BY <1>1
    <2> QED
      BY <1>1, <2>1
  <1>2. CASE q = r /\ g = f /\ k < l
    BY <1>2
  <1>3. CASE q = r - 1
    <2>1. n * f \in 0..n /\ n * g \in 0..n
      <3>1. n * f \in 0..n
        OBVIOUS
      <3>2. n * g \in 0..n
        OBVIOUS
      <3> QED
        BY <3>1, <3>2
    <2>2. 2 * n * q = 2 * n * r - 2 * n /\ 2 * n * r \in Int
      BY <1>3
    <2>3. \A a \in Int, b, c \in 0..n : a - 2 * n + b + k < a + c + l
      OBVIOUS
    <2> QED
      BY <2>1, <2>2, <2>3
  <1> QED
    BY <1>1, <1>2, <1>3

LEMMA AnswerCounts ==
  ASSUME Counted, Counted',
         NEW seat \in Seats, NEW token \in Tokens, NEW answer \in Answers,
         Submit(seat, token, answer)
  PROVE  ~started /\ (started' \/ Ahead' < Ahead)
  <1>1. ~started /\ (Closer \/ started' \/ round' = round + 1)
    BY AnswerFalls, AuthorizedFacts DEF Submit, Counted
  <1> SUFFICES ASSUME ~started' PROVE Ahead' < Ahead
    BY <1>1
  <1> DEFINE R == MaxTaken + 1 - round
  <1>2. /\ R \in Int /\ Phase \in 0..1 /\ Left \in 1..N
    BY <1>1, MulliganAssumption DEF Bounded, Counted
  <1>3. /\ R' \in Int /\ Phase' \in 0..1 /\ Left' \in 1..N
    BY <1>1, MulliganAssumption DEF Bounded, Counted
  <1>4. /\ Closer => R' = R
        /\ round' = round + 1 => R' = R - 1
    BY <1>1, MulliganAssumption DEF Closer, Bounded, Counted
  <1>5. /\ Ahead = 2 * N * R + N * Phase + Left
        /\ Ahead' = 2 * N * R' + N * Phase' + Left'
    BY DEF Ahead
  <1>6. N \in Nat
    BY MulliganAssumption
  <1>7. \/ R' = R /\ Phase' < Phase
        \/ R' = R /\ Phase' = Phase /\ Left' < Left
        \/ R' = R - 1
    BY <1>1, <1>4 DEF Closer
  <1> HIDE DEF R
  <1> QED
    BY <1>2, <1>3, <1>5, <1>6, <1>7, CountsDown

(* How many answers are still to come is counted down: every accepted      *)
(* answer starts the game or leaves fewer of them, a restart changes       *)
(* nothing of it, and there are never more than twice the players in each  *)
(* of the rounds that their mulligans allow.  So no order of answers, late *)
(* ones and restarts included, keeps a game at its opening hands: it       *)
(* starts, or some client that is asked does not answer (GameStarts says   *)
(* that of the fair behaviours).                                           *)
THEOREM OpeningHandsRunOut ==
  Spec => /\ [](started \/ Ahead \in 1..(2 * N * (MaxTaken + 1)))
          /\ [][ \/ ~started /\ (started' \/ Ahead' < Ahead)
                 \/ Restart /\ UNCHANGED <<started, Ahead>> ]_vars
  <1> DEFINE A == \/ ~started /\ (started' \/ Ahead' < Ahead)
                  \/ Restart /\ UNCHANGED <<started, Ahead>>
  <1>1. ASSUME Counted, Counted', [Next]_vars
        PROVE  [A]_vars
    <2>1. ASSUME NEW seat \in Seats, NEW token \in Tokens, NEW answer \in Answers,
                 Submit(seat, token, answer)
          PROVE  A
      BY <1>1, <2>1, AnswerCounts
    <2>2. CASE Restart
      <3>1. permissions'.decision = permissions.decision
        <4>1. permissions \in [decision : DecisionType \cup {NoDecision},
                 counter : Nat, capabilities : SUBSET Capability, occasions : Nat]
          BY <1>1 DEF Counted, IInv, TypeOK
        <4> QED
          BY <2>2, <4>1 DEF Restart, Reissue
      <3> QED
        BY <2>2, <3>1 DEF Restart, Phase, Left, Ahead
    <2> HIDE DEF A
    <2> QED
      BY <1>1, <2>1, <2>2 DEF Next
  <1>2. Spec => [][A]_vars
    <2>1. Counted /\ Counted' /\ [Next]_vars => [A]_vars
      BY <1>1
    <2> HIDE DEF A
    <2> QED
      BY <2>1, CountedHolds, PTL DEF Spec
  <1>3. Counted => started \/ Ahead \in 1..(2 * N * (MaxTaken + 1))
    BY AheadIsNatural DEF Counted
  <1>4. Spec => [](started \/ Ahead \in 1..(2 * N * (MaxTaken + 1)))
    BY <1>3, CountedHolds, PTL
  <1> QED
    BY <1>2, <1>4

=============================================================================
