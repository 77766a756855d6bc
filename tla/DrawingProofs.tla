--------------------------- MODULE DrawingProofs ---------------------------
(***************************************************************************)
(* Proofs about Drawing for any players, cards, effects and programs.      *)
(***************************************************************************)
EXTENDS Drawing, FiniteSetTheorems, FunctionTheorems, SequenceTheorems, TLAPS

\* What an answer may rely on: the draw that a choice is about is still to be
\* made and permitted, and the card that may be revealed is in the library of
\* a player whom no doubling effect applies to any more.
Ready == current.count > 0 /\ Permitted(current.player)

Choices ==
  /\ decision.kind \in {"draw.replacement", "draw.reveal"} => Ready
  /\ decision.kind = "draw.reveal" =>
       /\ decision.card \in Library(current.player)
       /\ Doublers[current.player] \subseteq current.excluded
       /\ decision.asked \in 1 .. Reveals[current.player]

IInv == TypeOK /\ LimitHolds /\ ResultDrawsFirst /\ Choices

-----------------------------------------------------------------------------
(* Sequences.                                                              *)

LEMMA Prepended ==
  ASSUME NEW S, NEW x \in S, NEW q \in Seq(S)
  PROVE  /\ <<x>> \o q \in Seq(S)
         /\ \A i \in DOMAIN (<<x>> \o q) :
              \/ i = 1 /\ (<<x>> \o q)[i] = x
              \/ i - 1 \in DOMAIN q /\ (<<x>> \o q)[i] = q[i - 1]
         /\ \A i \in DOMAIN (<<x>> \o q) : i \in Nat
  OBVIOUS

LEMMA HeadAndTail ==
  ASSUME NEW S, NEW q \in Seq(S), q # <<>>
  PROVE  /\ Head(q) \in S /\ Tail(q) \in Seq(S)
         /\ 1 \in DOMAIN q /\ Head(q) = q[1]
         /\ \A i \in DOMAIN Tail(q) :
              i \in Nat \ {0} /\ i + 1 \in DOMAIN q /\ Tail(q)[i] = q[i + 1]
  OBVIOUS

-----------------------------------------------------------------------------
(* What the steps are made of.                                             *)

LEMMA InstructionTyped ==
  ASSUME NEW instruction \in Instruction
  PROVE  Plain(instruction) \in QueuedDraw
  BY DEF Plain, Instruction, QueuedDraw

LEMMA CurrentTyped ==
  ASSUME TypeOK
  PROVE  /\ current.player \in Players /\ current.count \in Nat
         /\ current.excluded \subseteq EffectIds
         /\ Doublers[current.player] \subseteq EffectIds
  BY DEF TypeOK, QueuedDraw, EffectIds

\* An answer that says "draw" passes over no doubling effect.
LEMMA DeclineOK ==
  ASSUME IInv, MayDecline
  PROVE  Doublers[current.player] \subseteq current.excluded
  BY CurrentTyped, DrawingAssumption DEF MayDecline, Options, IInv

\* The end of a draw leaves what waits as it is.
LEMMA Settled ==
  ASSUME IInv, Settle, current.count > 0
  PROVE  /\ current' \in QueuedDraw /\ current'.player = current.player
         /\ queue' \in Seq(QueuedDraw) /\ effects' \in Seq(Instruction)
         /\ ResultDrawsFirst'
  <1>1. /\ current' \in QueuedDraw
        /\ current'.player = current.player
        /\ current'.excluded = current.excluded
    BY DEF Settle, IInv, TypeOK, QueuedDraw
  <1>2. ResultDrawsFirst'
    BY <1>1 DEF Settle, IInv, ResultDrawsFirst, Before
  <1> QED
    BY <1>1, <1>2 DEF Settle, IInv, TypeOK

LEMMA NothingPending ==
  /\ NoDecision \in [kind : {"none", "draw.replacement", "draw.reveal"},
                     card : Cards \cup {NoCard}, asked : Nat]
  /\ NoDecision.kind = "none"
  BY DEF NoDecision

\* A card is drawn.
LEMMA CommitKeeps ==
  ASSUME IInv, Ready, NEW card \in Library(current.player), Commit(card)
  PROVE  IInv'
  <1>1. current.player \in Players
    BY CurrentTyped DEF IInv
  <1>2. TypeOK'
    BY Settled, NothingPending, <1>1
    DEF Commit, IInv, TypeOK, Ready, Library, In, Zones
  <1>3. LimitHolds'
    BY <1>1, DrawingAssumption
    DEF Commit, IInv, TypeOK, LimitHolds, Ready, Permitted
  <1>4. Choices'
    BY NothingPending DEF Commit, Choices
  <1> QED
    BY <1>2, <1>3, <1>4, Settled DEF Commit, IInv, Ready

LEMMA EmptyKeeps ==
  ASSUME IInv, Ready, DrawFromEmpty
  PROVE  IInv'
  <1>1. current.player \in Players
    BY CurrentTyped DEF IInv
  <1>2. TypeOK'
    BY Settled, NothingPending, <1>1 DEF DrawFromEmpty, IInv, TypeOK, Ready
  <1>3. LimitHolds'
    BY DEF DrawFromEmpty, IInv, LimitHolds
  <1>4. Choices'
    BY NothingPending DEF DrawFromEmpty, Choices
  <1> QED
    BY <1>2, <1>3, <1>4, Settled DEF DrawFromEmpty, IInv, Ready

\* The player is asked whether to reveal the card.
LEMMA OfferKeeps ==
  ASSUME IInv, Ready, Doublers[current.player] \subseteq current.excluded,
         NEW card \in Library(current.player), OfferReveal(card)
  PROVE  IInv'
  <1>1. card \in Cards
    BY DEF Library, In
  <1>2. TypeOK'
    BY <1>1 DEF OfferReveal, IInv, TypeOK
  <1>3. LimitHolds' /\ ResultDrawsFirst'
    BY DEF OfferReveal, IInv, LimitHolds, ResultDrawsFirst
  <1>4. Choices'
    <2>1. 1 \in 1 .. Reveals[current.player]
      BY CurrentTyped, DrawingAssumption DEF IInv, OfferReveal
    <2>2. /\ decision'.kind = "draw.reveal" /\ decision'.card = card
          /\ decision'.asked = 1
          /\ UNCHANGED <<zone, drawn, current>>
      BY DEF OfferReveal
    <2> QED
      BY <2>1, <2>2 DEF Choices, Ready, Permitted, Library, In
  <1> QED
    BY <1>2, <1>3, <1>4 DEF IInv

LEMMA OrdinaryKeeps ==
  ASSUME IInv, Ready, Doublers[current.player] \subseteq current.excluded,
         DrawOrdinarily
  PROVE  IInv'
  BY EmptyKeeps, OfferKeeps, CommitKeeps DEF DrawOrdinarily

\* A draw is replaced by two draws.
LEMMA DoubleKeeps ==
  ASSUME IInv, Ready, NEW effect \in Doublers[current.player],
         effect \notin current.excluded, Double(effect)
  PROVE  IInv'
  <1> DEFINE rest == [current EXCEPT !.count = @ - 1]
  <1>1. /\ current' \in QueuedDraw /\ current'.player = current.player
        /\ current'.excluded = current.excluded \cup {effect}
    BY CurrentTyped DEF Double, IInv, TypeOK, QueuedDraw
  <1>2. /\ rest \in QueuedDraw /\ rest.player = current.player
        /\ rest.excluded = current.excluded
    <2>1. current \in QueuedDraw /\ current.count - 1 \in Nat
      BY CurrentTyped DEF Ready, IInv, TypeOK
    <2> QED
      BY <2>1 DEF QueuedDraw
  <1>3. queue \in Seq(QueuedDraw)
    BY DEF IInv, TypeOK
  <1>4. queue' \in Seq(QueuedDraw) /\ ResultDrawsFirst'
    <2>1. Before(current', rest)
      BY <1>1, <1>2 DEF Before
    <2>2. \A i \in DOMAIN queue : Before(current', queue[i]) /\ Before(rest, queue[i])
      BY <1>1, <1>2 DEF Before, IInv, ResultDrawsFirst
    <2>3. \A i, j \in DOMAIN queue : i < j => Before(queue[i], queue[j])
      BY DEF IInv, ResultDrawsFirst
    <2>4. CASE queue' = queue
      BY <2>2, <2>3, <2>4, <1>3 DEF ResultDrawsFirst
    <2>5. CASE queue' = <<rest>> \o queue
      <3> HIDE DEF rest
      <3>1. /\ queue' \in Seq(QueuedDraw)
            /\ \A i \in DOMAIN queue' :
                 \/ i = 1 /\ queue'[i] = rest
                 \/ i - 1 \in DOMAIN queue /\ queue'[i] = queue[i - 1]
            /\ \A i \in DOMAIN queue' : i \in Nat
        BY <2>5, <1>2, <1>3, Prepended
      <3>2. \A i \in DOMAIN queue' : Before(current', queue'[i])
        BY <3>1, <2>1, <2>2
      <3>3. ASSUME NEW i \in DOMAIN queue', NEW j \in DOMAIN queue', i < j
            PROVE  Before(queue'[i], queue'[j])
        <4>1. j # 1 /\ j - 1 \in DOMAIN queue /\ queue'[j] = queue[j - 1]
          BY <3>1, <3>3, <1>3
        <4>2. CASE i = 1 /\ queue'[i] = rest
          BY <4>1, <4>2, <2>2
        <4>3. CASE i - 1 \in DOMAIN queue /\ queue'[i] = queue[i - 1]
          <5>1. i \in Nat /\ j \in Nat /\ i - 1 < j - 1
            BY <3>1, <3>3
          <5> QED
            BY <4>1, <4>3, <5>1, <2>3
        <4> QED
          BY <3>1, <4>2, <4>3
      <3> QED
        BY <3>1, <3>2, <3>3 DEF ResultDrawsFirst
    <2> QED
      BY <2>4, <2>5 DEF Double
  <1>5. TypeOK'
    BY <1>1, <1>4, NothingPending DEF Double, IInv, TypeOK
  <1>6. LimitHolds' /\ Choices'
    BY NothingPending DEF Double, IInv, LimitHolds, Choices
  <1> QED
    BY <1>4, <1>5, <1>6 DEF IInv

\* A card with dredge returns in place of the draw.
LEMMA DredgeKeeps ==
  ASSUME IInv, Ready, NEW card \in Cards, MillAndReturn(card)
  PROVE  IInv'
  <1>1. zone' \in [Cards -> Zones]
    BY DEF MillAndReturn, IInv, TypeOK, Zones
  <1>2. TypeOK'
    BY <1>1, Settled, NothingPending DEF MillAndReturn, IInv, TypeOK, Ready
  <1>3. LimitHolds' /\ Choices'
    BY NothingPending DEF MillAndReturn, IInv, LimitHolds, Choices
  <1> QED
    BY <1>2, <1>3, Settled DEF MillAndReturn, IInv, Ready

LEMMA ProhibitedKeeps ==
  ASSUME IInv, Prohibited
  PROVE  IInv'
  <1>1. current.count > 0 /\ decision = NoDecision
    BY DEF Prohibited, DrawsLeft, Running
  <1>2. TypeOK'
    BY <1>1, Settled DEF Prohibited, IInv, TypeOK
  <1>3. LimitHolds' /\ Choices'
    BY <1>1, NothingPending DEF Prohibited, IInv, LimitHolds, Choices
  <1> QED
    BY <1>1, <1>2, <1>3, Settled DEF Prohibited, IInv

LEMMA AskKeeps ==
  ASSUME IInv, AskForReplacement
  PROVE  IInv'
  <1>1. /\ decision' \in [kind : {"none", "draw.replacement", "draw.reveal"},
                          card : Cards \cup {NoCard}, asked : Nat]
        /\ decision'.kind = "draw.replacement"
    BY DEF AskForReplacement, NoDecision
  <1>2. Choices'
    BY <1>1
    DEF AskForReplacement, DrawsLeft, Choices, Ready, Permitted
  <1> QED
    BY <1>1, <1>2
    DEF AskForReplacement, IInv, TypeOK, LimitHolds, ResultDrawsFirst

LEMMA NextQueuedKeeps ==
  ASSUME IInv, NextQueued
  PROVE  IInv'
  <1>1. queue \in Seq(QueuedDraw) /\ queue # <<>> /\ decision' = NoDecision
    BY DEF IInv, TypeOK, NextQueued, Running
  <1>2. /\ current' \in QueuedDraw /\ queue' \in Seq(QueuedDraw)
        /\ 1 \in DOMAIN queue /\ current' = queue[1]
        /\ \A i \in DOMAIN queue' :
             i \in Nat \ {0} /\ i + 1 \in DOMAIN queue /\ queue'[i] = queue[i + 1]
    BY <1>1, HeadAndTail DEF NextQueued
  <1>3. \A i, j \in DOMAIN queue : i < j => Before(queue[i], queue[j])
    BY DEF IInv, ResultDrawsFirst
  <1>4. ASSUME NEW i \in DOMAIN queue' PROVE Before(current', queue'[i])
    <2>1. 1 < i + 1
      BY <1>2
    <2> QED
      BY <1>2, <1>3, <2>1
  <1>5. ASSUME NEW i \in DOMAIN queue', NEW j \in DOMAIN queue', i < j
        PROVE  Before(queue'[i], queue'[j])
    <2>1. i + 1 < j + 1
      BY <1>2, <1>5
    <2> QED
      BY <1>2, <1>3, <2>1
  <1>6. ResultDrawsFirst'
    BY <1>4, <1>5 DEF ResultDrawsFirst
  <1>7. TypeOK'
    BY <1>2 DEF NextQueued, IInv, TypeOK
  <1>8. LimitHolds' /\ Choices'
    BY <1>1, NothingPending DEF NextQueued, IInv, LimitHolds, Choices
  <1> QED
    BY <1>6, <1>7, <1>8 DEF IInv

LEMMA NextInstructionKeeps ==
  ASSUME IInv, NextInstruction
  PROVE  IInv'
  <1>1. effects \in Seq(Instruction) /\ effects # <<>> /\ decision' = NoDecision
    BY DEF IInv, TypeOK, NextInstruction, Running
  <1>2. current' \in QueuedDraw /\ effects' \in Seq(Instruction)
    BY <1>1, HeadAndTail, InstructionTyped DEF NextInstruction
  <1>3. TypeOK'
    BY <1>2 DEF NextInstruction, IInv, TypeOK
  <1>4. ResultDrawsFirst'
    BY DEF NextInstruction, ResultDrawsFirst
  <1>5. LimitHolds' /\ Choices'
    BY <1>1, NothingPending DEF NextInstruction, IInv, LimitHolds, Choices
  <1> QED
    BY <1>3, <1>4, <1>5 DEF IInv

-----------------------------------------------------------------------------
(* The invariant.                                                          *)

LEMMA InitOK == Init => IInv
  <1> SUFFICES ASSUME Init PROVE IInv
    OBVIOUS
  <1>1. [player |-> CHOOSE p \in Players : TRUE, count |-> 0] \in Instruction
    BY DrawingAssumption DEF Instruction
  <1>2. current \in QueuedDraw
    BY <1>1, InstructionTyped DEF Init
  <1>3. TypeOK
    BY <1>2, NothingPending, DrawingAssumption DEF Init, TypeOK
  <1>4. LimitHolds
    BY DrawingAssumption DEF Init, LimitHolds
  <1>5. ResultDrawsFirst /\ Choices
    BY NothingPending DEF Init, ResultDrawsFirst, Choices
  <1> QED
    BY <1>3, <1>4, <1>5 DEF IInv

LEMMA StepOK == IInv /\ [Next]_vars => IInv'
  <1> SUFFICES ASSUME IInv, [Next]_vars PROVE IInv'
    OBVIOUS
  <1>1. CASE Prohibited
    BY <1>1, ProhibitedKeeps
  <1>2. CASE ReplaceAutomatically
    <2>1. PICK effect \in Doublers[current.player] :
            Options = {effect} /\ Double(effect)
      BY <1>2 DEF ReplaceAutomatically
    <2>2. effect \notin current.excluded
      BY <2>1, CurrentTyped, DrawingAssumption DEF Options, Dredge, IInv
    <2> QED
      BY <1>2, <2>1, <2>2, DoubleKeeps DEF ReplaceAutomatically, DrawsLeft, Ready
  <1>3. CASE AskForReplacement
    BY <1>3, AskKeeps
  <1>4. CASE DrawUnreplaced
    BY <1>4, OrdinaryKeeps DEF DrawUnreplaced, DrawsLeft, Ready, Options
  <1>5. CASE NextQueued
    BY <1>5, NextQueuedKeeps
  <1>6. CASE NextInstruction
    BY <1>6, NextInstructionKeeps
  <1>7. CASE ChooseReplacement
    <2>1. Ready
      BY <1>7 DEF ChooseReplacement, IInv, Choices
    <2>2. PICK option \in Options :
            \/ option \notin Dredgers /\ Double(option)
            \/ option \in Dredgers /\ MillAndReturn(option)
      BY <1>7 DEF ChooseReplacement
    <2>3. CASE option \notin Dredgers /\ Double(option)
      BY <2>1, <2>2, <2>3, DoubleKeeps DEF Options, Dredge
    <2>4. CASE option \in Dredgers /\ MillAndReturn(option)
      BY <2>1, <2>4, DredgeKeeps, DrawingAssumption
    <2> QED
      BY <2>2, <2>3, <2>4
  <1>8. CASE ChooseDraw
    BY <1>8, DeclineOK, OrdinaryKeeps DEF ChooseDraw, IInv, Choices
  <1>9. CASE AnswerReveal
    <2>1. /\ Ready /\ decision.card \in Library(current.player)
          /\ Doublers[current.player] \subseteq current.excluded
      BY <1>9 DEF AnswerReveal, IInv, Choices
    <2>2. CASE Commit(decision.card)
      BY <2>1, <2>2, CommitKeeps
    <2>3. CASE /\ decision.asked < Reveals[current.player]
               /\ decision' = [decision EXCEPT !.asked = @ + 1]
               /\ UNCHANGED <<zone, drawn, attempted, current, queue, effects>>
      <3>1. /\ decision' \in [kind : {"none", "draw.replacement", "draw.reveal"},
                              card : Cards \cup {NoCard}, asked : Nat]
            /\ decision'.kind = decision.kind /\ decision'.card = decision.card
            /\ decision'.asked = decision.asked + 1
        BY <2>3 DEF IInv, TypeOK
      <3>2. Choices'
        <4>1. decision'.asked \in 1 .. Reveals[current.player]
          BY <2>3, <3>1, CurrentTyped, DrawingAssumption DEF IInv, TypeOK
        <4> QED
          BY <2>1, <2>3, <3>1, <4>1 DEF Choices, Ready, Permitted, Library, In
      <3> QED
        BY <2>3, <3>1, <3>2 DEF IInv, TypeOK, LimitHolds, ResultDrawsFirst
    <2> QED
      BY <1>9, <2>2, <2>3 DEF AnswerReveal
  <1>10. CASE UNCHANGED vars
    BY <1>10
    DEF vars, IInv, TypeOK, LimitHolds, ResultDrawsFirst, Choices, Ready,
        Permitted, Library, In
  <1> QED
    BY <1>1, <1>2, <1>3, <1>4, <1>5, <1>6, <1>7, <1>8, <1>9, <1>10
    DEF Next, Engine, Answer, Finished

(* What every state of the draw instructions satisfies.                    *)
THEOREM Invariant == Spec => []IInv
  BY InitOK, StepOK, PTL DEF Spec

(* Every variable keeps to its set.                                        *)
THEOREM TypeCorrect == Spec => []TypeOK
  <1>1. IInv => TypeOK
    BY DEF IInv
  <1> QED
    BY <1>1, Invariant, PTL

(* No player draws more cards than it is allowed.                          *)
THEOREM Limits == Spec => []LimitHolds
  <1>1. IInv => LimitHolds
    BY DEF IInv
  <1> QED
    BY <1>1, Invariant, PTL

(* What a replacement results in precedes the rest of what it interrupted. *)
THEOREM ResultsFirst == Spec => []ResultDrawsFirst
  <1>1. IInv => ResultDrawsFirst
    BY DEF IInv
  <1> QED
    BY <1>1, Invariant, PTL

-----------------------------------------------------------------------------
(* What is true of the cards that are drawn.                               *)

LEMMA OrdinaryDraws ==
  ASSUME IInv, DrawOrdinarily, drawn' # drawn
  PROVE  /\ drawn[current.player] > 0 \/ Reveals[current.player] = 0
         /\ \A p \in Players : drawn'[p] # drawn[p] => p = current.player
  BY DEF DrawOrdinarily, DrawFromEmpty, OfferReveal, Commit, IInv, TypeOK

LEMMA RevealedDraws ==
  ASSUME IInv, AnswerReveal, drawn' # drawn
  PROVE  /\ Commit(decision.card)
         /\ \A p \in Players : drawn'[p] # drawn[p] => p = current.player
  BY DEF AnswerReveal, Commit, IInv, TypeOK

\* Only these steps draw a card.
LEMMA DrawingSteps ==
  ASSUME IInv, [Next]_vars, drawn' # drawn
  PROVE  \/ /\ DrawOrdinarily
            /\ Doublers[current.player] \subseteq current.excluded
         \/ AnswerReveal
  <1>1. CASE DrawUnreplaced
    BY <1>1 DEF DrawUnreplaced, Options
  <1>2. CASE ChooseDraw
    BY <1>2, DeclineOK DEF ChooseDraw
  <1>3. CASE AnswerReveal
    BY <1>3
  <1>4. CASE \/ Prohibited \/ ReplaceAutomatically \/ AskForReplacement
            \/ NextQueued \/ NextInstruction \/ ChooseReplacement \/ UNCHANGED vars
    BY <1>4
    DEF Prohibited, ReplaceAutomatically, Double, AskForReplacement, NextQueued,
        NextInstruction, ChooseReplacement, MillAndReturn, vars
  <1> QED
    BY <1>1, <1>2, <1>3, <1>4 DEF Next, Engine, Answer, Finished

DoublersStep ==
  \A p \in Players :
    drawn'[p] # drawn[p] =>
      p = current.player /\ Doublers[p] \subseteq current.excluded

(* No mandatory doubling effect is ever passed over.                       *)
THEOREM DoublersAlwaysApply == Spec => DoublersApply
  <1>1. IInv /\ [Next]_vars => DoublersStep
    <2> SUFFICES ASSUME IInv, [Next]_vars, drawn' # drawn PROVE DoublersStep
      BY DEF DoublersStep
    <2>1. CASE /\ DrawOrdinarily
               /\ Doublers[current.player] \subseteq current.excluded
      BY <2>1, OrdinaryDraws DEF DoublersStep
    <2>2. CASE AnswerReveal
      BY <2>2, RevealedDraws DEF AnswerReveal, IInv, Choices, DoublersStep
    <2> QED
      BY <2>1, <2>2, DrawingSteps
  <1>2. Spec => [][DoublersStep]_vars
    BY <1>1, Invariant, PTL DEF Spec
  <1> QED
    BY <1>2 DEF DoublersApply, DoublersStep

OfferStep ==
  \A p \in Players :
    drawn[p] = 0 /\ drawn'[p] > 0 /\ Reveals[p] > 0 =>
      /\ decision.kind = "draw.reveal"
      /\ zone[decision.card] = "library" /\ zone'[decision.card] = "hand"
      /\ Owner[decision.card] = p

(* Nobody draws its first card of the turn before it was asked about it.   *)
THEOREM FirstDraws == Spec => FirstDrawIsOffered
  <1>1. IInv /\ [Next]_vars => OfferStep
    <2> SUFFICES ASSUME IInv, [Next]_vars, NEW p \in Players,
                        drawn[p] = 0, drawn'[p] > 0, Reveals[p] > 0
                 PROVE  /\ decision.kind = "draw.reveal"
                        /\ zone[decision.card] = "library"
                        /\ zone'[decision.card] = "hand"
                        /\ Owner[decision.card] = p
      BY DEF OfferStep
    <2>1. drawn' # drawn /\ drawn'[p] # drawn[p]
      OBVIOUS
    <2>2. CASE DrawOrdinarily
      BY <2>1, <2>2, OrdinaryDraws
    <2>3. CASE AnswerReveal
      <3>1. Commit(decision.card) /\ p = current.player
        BY <2>1, <2>3, RevealedDraws
      <3>2. decision.card \in Library(p)
        BY <2>3, <3>1 DEF AnswerReveal, IInv, Choices
      <3> QED
        BY <2>3, <3>1, <3>2 DEF AnswerReveal, Commit, Library, In, IInv, TypeOK
    <2> QED
      BY <2>1, <2>2, <2>3, DrawingSteps
  <1>2. Spec => [][OfferStep]_vars
    BY <1>1, Invariant, PTL DEF Spec
  <1> QED
    BY <1>2 DEF FirstDrawIsOffered, OfferStep

-----------------------------------------------------------------------------
(* What a player is owed.                                                  *)

LEMMA BijectionCounts ==
  ASSUME NEW S, NEW T, IsFiniteSet(S), NEW f \in [S -> T],
         \A a, b \in S : f[a] = f[b] => a = b,
         \A t \in T : \E a \in S : f[a] = t
  PROVE  IsFiniteSet(T) /\ Cardinality(T) = Cardinality(S)
  <1>1. f \in Bijection(S, T)
    BY Fun_IsBij
  <1>2. ExistsBijection(S, T)
    BY <1>1, Fun_ExistsBij
  <1> QED
    BY <1>2, FS_Bijection

Subsets(draw) == SUBSET (Doublers[draw.player] \ draw.excluded)

LEMMA SharesCount ==
  ASSUME NEW draw \in QueuedDraw
  PROVE  /\ IsFiniteSet(Subsets(draw)) /\ Cardinality(Subsets(draw)) \in Nat
         /\ IsFiniteSet(Shares(draw))
         /\ Cardinality(Shares(draw)) = draw.count * Cardinality(Subsets(draw))
  <1>1. IsFiniteSet(Doublers[draw.player] \ draw.excluded)
    BY DrawingAssumption, FS_Difference DEF QueuedDraw
  <1>2. IsFiniteSet(Subsets(draw))
    BY <1>1, FS_SUBSET DEF Subsets
  <1>3. /\ IsFiniteSet(1 .. draw.count)
        /\ Cardinality(1 .. draw.count) = draw.count
    <2>1. draw.count \in Nat
      BY DEF QueuedDraw
    <2> QED
      BY <2>1, FS_Interval
  <1> QED
    BY <1>2, <1>3, FS_Product, FS_CardinalityType DEF Shares, Subsets

\* An effect that has been applied leaves half of the sets.
LEMMA HalfTheSubsets ==
  ASSUME NEW X, IsFiniteSet(X), NEW e \in X
  PROVE  Cardinality(SUBSET X) = 2 * Cardinality(SUBSET (X \ {e}))
  <1> DEFINE S == (1 .. 2) \X SUBSET (X \ {e})
             f == [t \in S |-> IF t[1] = 1 THEN t[2] ELSE t[2] \cup {e}]
  <1>1. IsFiniteSet(SUBSET (X \ {e}))
    BY FS_RemoveElement, FS_SUBSET
  <1>2. IsFiniteSet(1 .. 2) /\ Cardinality(1 .. 2) = 2
    <2>1. 1 \in Int /\ 2 \in Int /\ 2 - 1 + 1 = 2 /\ ~(1 > 2)
      OBVIOUS
    <2> QED
      BY <2>1, FS_Interval
  <1>3. IsFiniteSet(S) /\ Cardinality(S) = 2 * Cardinality(SUBSET (X \ {e}))
    BY <1>1, <1>2, FS_Product
  <1>4. f \in [S -> SUBSET X]
    OBVIOUS
  <1>5. ASSUME NEW a \in S, NEW b \in S, f[a] = f[b] PROVE a = b
    <2>1. e \notin a[2] /\ e \notin b[2]
      OBVIOUS
    <2>2. a[1] \in {1, 2} /\ b[1] \in {1, 2}
      OBVIOUS
    <2>3. /\ f[a] = IF a[1] = 1 THEN a[2] ELSE a[2] \cup {e}
          /\ f[b] = IF b[1] = 1 THEN b[2] ELSE b[2] \cup {e}
      OBVIOUS
    <2>4. a[1] = b[1]
      BY <1>5, <2>1, <2>2, <2>3
    <2>5. a[2] = b[2]
      BY <1>5, <2>1, <2>3, <2>4
    <2> QED
      BY <2>4, <2>5
  <1>6. ASSUME NEW t \in SUBSET X PROVE \E a \in S : f[a] = t
    <2>1. CASE e \in t
      <3>1. <<2, t \ {e}>> \in S /\ f[<<2, t \ {e}>>] = t
        BY <2>1
      <3> QED
        BY <3>1
    <2>2. CASE e \notin t
      <3>1. <<1, t>> \in S /\ f[<<1, t>>] = t
        BY <2>2
      <3> QED
        BY <3>1
    <2> QED
      BY <2>1, <2>2
  <1> HIDE DEF S, f
  <1> QED
    BY <1>3, <1>4, <1>5, <1>6, BijectionCounts

\* The elements of the sets of a sequence, each with the place of its set.
Heap(s) == UNION {{i} \X s[i] : i \in DOMAIN s}

LEMMA HeapElement ==
  ASSUME NEW s, NEW t
  PROVE  t \in Heap(s) <=> \E i \in DOMAIN s : \E x \in s[i] : t = <<i, x>>
  BY DEF Heap

LEMMA HeapFinite ==
  ASSUME NEW n \in Nat, NEW s, DOMAIN s = 1 .. n,
         \A i \in 1 .. n : IsFiniteSet(s[i])
  PROVE  IsFiniteSet(Heap(s)) /\ Cardinality(Heap(s)) \in Nat
  <1> DEFINE I == 1 .. n
             F == {{i} \X s[i] : i \in I}
             f == [i \in I |-> {i} \X s[i]]
  <1>1. IsFiniteSet(I)
    BY FS_Interval
  <1>2. f \in Surjection(I, F)
    BY DEF Surjection
  <1>3. IsFiniteSet(F)
    BY <1>1, <1>2, FS_Surjection
  <1>4. ASSUME NEW i \in I PROVE IsFiniteSet({i} \X s[i])
    BY FS_Singleton, FS_Product
  <1>5. \A T \in F : IsFiniteSet(T)
    BY <1>4
  <1>6. IsFiniteSet(UNION F)
    BY <1>3, <1>5, FS_UNION
  <1> QED
    BY <1>6, FS_CardinalityType DEF Heap

\* The first set and the others: r is s without its first set.
LEMMA HeapHead ==
  ASSUME NEW n \in Nat, NEW s, DOMAIN s = 1 .. n + 1,
         \A i \in 1 .. n + 1 : IsFiniteSet(s[i]),
         NEW r, DOMAIN r = 1 .. n, \A i \in 1 .. n : r[i] = s[i + 1]
  PROVE  Cardinality(Heap(s)) = Cardinality(s[1]) + Cardinality(Heap(r))
  <1> DEFINE first == {1} \X s[1]
             later == {<<t[1] + 1, t[2]>> : t \in Heap(r)}
             f == [t \in Heap(r) |-> <<t[1] + 1, t[2]>>]
  <1>1. /\ \A i \in 1 .. n : i \in Nat \ {0} /\ i + 1 \in 1 .. n + 1
        /\ \A i \in 1 .. n + 1 : i \in Nat /\ (i = 1 \/ i - 1 \in 1 .. n)
        /\ 1 \in 1 .. n + 1
    OBVIOUS
  <1>2. \A t \in Heap(r) :
          t[1] \in 1 .. n /\ t[2] \in r[t[1]] /\ t = <<t[1], t[2]>>
    BY HeapElement
  <1>3. IsFiniteSet(Heap(r)) /\ Cardinality(Heap(r)) \in Nat
    BY <1>1, HeapFinite
  <1>4. IsFiniteSet(later) /\ Cardinality(later) = Cardinality(Heap(r))
    <2>1. f \in [Heap(r) -> later]
      OBVIOUS
    <2>2. ASSUME NEW a \in Heap(r), NEW b \in Heap(r), f[a] = f[b]
          PROVE  a = b
      <3>1. <<a[1] + 1, a[2]>> = <<b[1] + 1, b[2]>>
        BY <2>2
      <3>2. a[1] + 1 = b[1] + 1 /\ a[2] = b[2]
        BY <3>1
      <3>3. a[1] \in Nat /\ b[1] \in Nat
        BY <1>1, <1>2
      <3> QED
        BY <1>2, <3>2, <3>3
    <2>3. \A t \in later : \E a \in Heap(r) : f[a] = t
      OBVIOUS
    <2> HIDE DEF f, later
    <2> QED
      BY <1>3, <2>1, <2>2, <2>3, BijectionCounts
  <1>5. /\ IsFiniteSet(first) /\ Cardinality(first) = Cardinality(s[1])
        /\ Cardinality(s[1]) \in Nat
    <2>1. IsFiniteSet(s[1])
      BY <1>1
    <2>2. IsFiniteSet({1}) /\ Cardinality({1}) = 1
      BY FS_Singleton
    <2>3. /\ IsFiniteSet({1} \X s[1])
          /\ Cardinality({1} \X s[1]) = 1 * Cardinality(s[1])
      BY <2>1, <2>2, FS_Product
    <2>4. Cardinality(s[1]) \in Nat
      BY <2>1, FS_CardinalityType
    <2> QED
      BY <2>3, <2>4
  <1>6. first \cap later = {}
    <2> SUFFICES ASSUME NEW t \in first, t \in later PROVE FALSE
      OBVIOUS
    <2>1. t[1] = 1
      OBVIOUS
    <2>2. PICK u \in Heap(r) : t = <<u[1] + 1, u[2]>>
      OBVIOUS
    <2>3. u[1] \in Nat \ {0}
      BY <1>1, <1>2
    <2> QED
      BY <2>1, <2>2, <2>3
  <1>7. Heap(s) = first \cup later
    <2>1. ASSUME NEW t \in Heap(s) PROVE t \in first \cup later
      <3>1. PICK i \in 1 .. n + 1 : \E x \in s[i] : t = <<i, x>>
        BY HeapElement
      <3>2. PICK x \in s[i] : t = <<i, x>>
        BY <3>1
      <3>3. CASE i = 1
        BY <3>2, <3>3
      <3>4. CASE i - 1 \in 1 .. n
        <4>1. r[i - 1] = s[i] /\ (i - 1) + 1 = i
          <5>1. i \in Nat /\ (i - 1) + 1 = i
            BY <1>1
          <5> QED
            BY <3>4, <5>1
        <4>2. <<i - 1, x>> \in Heap(r)
          BY <3>4, <4>1, HeapElement
        <4>3. t = <<(i - 1) + 1, x>>
          BY <3>2, <4>1
        <4> QED
          BY <4>2, <4>3
      <3> QED
        BY <1>1, <3>3, <3>4
    <2>2. ASSUME NEW t \in first PROVE t \in Heap(s)
      <3>1. PICK x \in s[1] : t = <<1, x>>
        OBVIOUS
      <3> QED
        BY <1>1, <3>1, HeapElement
    <2>3. ASSUME NEW t \in later PROVE t \in Heap(s)
      <3>1. PICK u \in Heap(r) : t = <<u[1] + 1, u[2]>>
        OBVIOUS
      <3> QED
        BY <1>1, <1>2, <3>1, HeapElement
    <2> HIDE DEF first, later
    <2> QED
      BY <2>1, <2>2, <2>3
  <1> HIDE DEF first, later
  <1>8. Cardinality(first \cup later) =
          Cardinality(first) + Cardinality(later) - Cardinality(first \cap later)
    BY <1>4, <1>5, FS_Union
  <1>9. Cardinality(first \cap later) = 0
    BY <1>6, FS_EmptySet
  <1> QED
    BY <1>3, <1>4, <1>5, <1>7, <1>8, <1>9

-----------------------------------------------------------------------------
(* The tickets of a sequence of draws.                                     *)

SharesFor(q, p) ==
  [i \in DOMAIN q |-> IF q[i].player = p THEN Shares(q[i]) ELSE {}]

LEMMA TicketsAreHeap ==
  ASSUME NEW q, NEW p
  PROVE  Tickets(q, p) = Heap(SharesFor(q, p))
  BY DEF Tickets, Heap, SharesFor

LEMMA SharesForFinite ==
  ASSUME NEW q \in Seq(QueuedDraw), NEW p
  PROVE  /\ Len(q) \in Nat /\ DOMAIN q = 1 .. Len(q)
         /\ DOMAIN SharesFor(q, p) = 1 .. Len(q)
         /\ \A i \in 1 .. Len(q) : IsFiniteSet(SharesFor(q, p)[i])
  <1>1. \A i \in DOMAIN q : q[i] \in QueuedDraw
    OBVIOUS
  <1>2. \A i \in DOMAIN q : IsFiniteSet(Shares(q[i]))
    BY <1>1, SharesCount
  <1>3. \A i \in DOMAIN q :
          SharesFor(q, p)[i] = IF q[i].player = p THEN Shares(q[i]) ELSE {}
    BY DEF SharesFor
  <1> QED
    BY <1>2, <1>3, FS_EmptySet DEF SharesFor

LEMMA TicketsFinite ==
  ASSUME NEW q \in Seq(QueuedDraw), NEW p \in Players
  PROVE  IsFiniteSet(Tickets(q, p)) /\ Cardinality(Tickets(q, p)) \in Nat
  BY TicketsAreHeap, SharesForFinite, HeapFinite

LEMMA DrawBefore ==
  ASSUME NEW draw \in QueuedDraw, NEW q \in Seq(QueuedDraw)
  PROVE  /\ <<draw>> \o q \in Seq(QueuedDraw)
         /\ DOMAIN (<<draw>> \o q) = 1 .. Len(q) + 1
         /\ (<<draw>> \o q)[1] = draw
         /\ Len(q) \in Nat /\ DOMAIN q = 1 .. Len(q)
         /\ Len(<<draw>> \o q) = Len(q) + 1
         /\ \A i \in 1 .. Len(q) :
              i + 1 \in 1 .. Len(q) + 1 /\ (<<draw>> \o q)[i + 1] = q[i]
         /\ 1 \in 1 .. Len(q) + 1
  OBVIOUS

\* The tickets of the first draw and those of the others.
LEMMA HeadCounts ==
  ASSUME NEW draw \in QueuedDraw, NEW q \in Seq(QueuedDraw), NEW p \in Players
  PROVE  Cardinality(Tickets(<<draw>> \o q, p)) =
           (IF draw.player = p THEN Cardinality(Shares(draw)) ELSE 0)
             + Cardinality(Tickets(q, p))
  <1> DEFINE w == <<draw>> \o q
             s == SharesFor(w, p)
             r == SharesFor(q, p)
  <1>1. /\ w \in Seq(QueuedDraw) /\ DOMAIN w = 1 .. Len(q) + 1
        /\ w[1] = draw /\ Len(w) = Len(q) + 1
        /\ Len(q) \in Nat /\ DOMAIN q = 1 .. Len(q)
        /\ \A i \in 1 .. Len(q) : i + 1 \in 1 .. Len(q) + 1 /\ w[i + 1] = q[i]
        /\ 1 \in 1 .. Len(q) + 1
    BY DrawBefore
  <1> HIDE DEF w
  <1>2. /\ DOMAIN s = 1 .. Len(q) + 1 /\ DOMAIN r = 1 .. Len(q)
        /\ \A i \in 1 .. Len(q) + 1 : IsFiniteSet(s[i])
    BY <1>1, SharesForFinite
  <1>3. \A i \in 1 .. Len(q) : r[i] = s[i + 1]
    BY <1>1 DEF SharesFor
  <1>4. s[1] = IF draw.player = p THEN Shares(draw) ELSE {}
    BY <1>1 DEF SharesFor
  <1> HIDE DEF s, r
  <1>5. Cardinality(Heap(s)) = Cardinality(s[1]) + Cardinality(Heap(r))
    BY <1>1, <1>2, <1>3, HeapHead
  <1> QED
    BY <1>4, <1>5, TicketsAreHeap, FS_EmptySet DEF s, r, w

\* The instructions of the resolution as draws.
Coming(e) == [i \in DOMAIN e |-> Plain(e[i])]

LEMMA ComingTyped ==
  ASSUME NEW e \in Seq(Instruction)
  PROVE  Coming(e) \in Seq(QueuedDraw)
  <1>1. \A i \in DOMAIN e : Plain(e[i]) \in QueuedDraw
    BY InstructionTyped
  <1> QED
    BY <1>1 DEF Coming

Later(q, e, p) == Cardinality(Tickets(q \o Coming(e), p))

Sum(c, q, e, p) == Cardinality(Tickets(<<c>> \o q \o Coming(e), p))

Share(c, p) == IF c.player = p THEN Cardinality(Shares(c)) ELSE 0

LEMMA SumSplits ==
  ASSUME NEW c \in QueuedDraw, NEW q \in Seq(QueuedDraw),
         NEW e \in Seq(Instruction), NEW p \in Players
  PROVE  /\ Sum(c, q, e, p) = Share(c, p) + Later(q, e, p)
         /\ Later(<<c>> \o q, e, p) = Sum(c, q, e, p)
         /\ Later(q, e, p) \in Nat /\ Share(c, p) \in Nat
  <1> DEFINE w == q \o Coming(e)
  <1>1. Coming(e) \in Seq(QueuedDraw) /\ w \in Seq(QueuedDraw)
    BY ComingTyped
  <1>2. <<c>> \o q \o Coming(e) = <<c>> \o w
    BY <1>1
  <1>3. Cardinality(Tickets(<<c>> \o w, p)) =
          Share(c, p) + Cardinality(Tickets(w, p))
    BY <1>1, HeadCounts DEF Share
  <1>4. Cardinality(Tickets(w, p)) \in Nat
    BY <1>1, TicketsFinite
  <1>5. Share(c, p) \in Nat
    BY SharesCount, FS_CardinalityType DEF Share
  <1> QED
    BY <1>2, <1>3, <1>4, <1>5 DEF Sum, Later

LEMMA ComingSplits ==
  ASSUME NEW e \in Seq(Instruction), e # <<>>
  PROVE  Coming(e) = <<Plain(Head(e))>> \o Coming(Tail(e))
  <1>0. /\ Head(e) \in Instruction /\ Tail(e) \in Seq(Instruction)
        /\ 1 \in DOMAIN e /\ Head(e) = e[1]
        /\ \A i \in DOMAIN Tail(e) :
             i \in Nat \ {0} /\ i + 1 \in DOMAIN e /\ Tail(e)[i] = e[i + 1]
    BY HeadAndTail
  <1> DEFINE d == Plain(Head(e))
             r == Coming(Tail(e))
             a == Coming(e)
  <1>1. /\ a \in Seq(QueuedDraw) /\ r \in Seq(QueuedDraw) /\ d \in QueuedDraw
    BY <1>0, ComingTyped, InstructionTyped
  <1>2. Len(e) \in Nat \ {0} /\ DOMAIN e = 1 .. Len(e)
        /\ DOMAIN Tail(e) = 1 .. Len(e) - 1
    OBVIOUS
  <1>3. DOMAIN a = 1 .. Len(e) /\ DOMAIN r = 1 .. Len(e) - 1
    BY <1>2 DEF Coming
  <1>4. \A i \in DOMAIN a : a[i] = Plain(e[i])
    BY DEF Coming
  <1>5. \A i \in DOMAIN r : r[i] = Plain(Tail(e)[i])
    BY DEF Coming
  <1>6. ASSUME NEW i \in 2 .. Len(e)
        PROVE  i - 1 \in DOMAIN r /\ a[i] = r[i - 1]
    <2>1. i - 1 \in 1 .. Len(e) - 1 /\ i \in 1 .. Len(e) /\ (i - 1) + 1 = i
      BY <1>2
    <2>2. Tail(e)[i - 1] = e[i]
      BY <1>0, <1>2, <2>1
    <2> QED
      BY <1>2, <1>3, <1>4, <1>5, <2>1, <2>2
  <1>7. a[1] = d
    BY <1>0, <1>4, <1>3, <1>2
  <1> HIDE DEF a, r, d
  <1>8. Len(a) = Len(e) /\ Len(r) = Len(e) - 1
    <2>1. \A m, n \in Nat : 1 .. m = 1 .. n => m = n
      OBVIOUS
    <2>2. /\ Len(a) \in Nat /\ DOMAIN a = 1 .. Len(a)
          /\ Len(r) \in Nat /\ DOMAIN r = 1 .. Len(r)
      BY <1>1
    <2>3. Len(e) - 1 \in Nat
      BY <1>2
    <2>4. 1 .. Len(a) = 1 .. Len(e) /\ 1 .. Len(r) = 1 .. Len(e) - 1
      BY <1>3, <2>2
    <2> QED
      BY <1>2, <2>1, <2>2, <2>3, <2>4
  <1>9. a = <<d>> \o r
    <2> DEFINE b == <<d>> \o r
    <2>1. /\ b \in Seq(QueuedDraw) /\ Len(b) = Len(r) + 1 /\ b[1] = d
          /\ \A i \in 2 .. Len(b) : b[i] = r[i - 1]
      <3>1. /\ <<d>> \in Seq(QueuedDraw) /\ Len(<<d>>) = 1 /\ <<d>>[1] = d
            /\ Len(r) \in Nat
        BY <1>1
      <3>2. /\ b \in Seq(QueuedDraw) /\ Len(b) = 1 + Len(r)
            /\ \A i \in 1 .. 1 + Len(r) :
                 b[i] = IF i <= 1 THEN <<d>>[i] ELSE r[i - 1]
        BY <1>1, <3>1, ConcatProperties
      <3> HIDE DEF b
      <3> QED
        BY <3>1, <3>2
    <2> HIDE DEF b
    <2>2. Len(b) = Len(a)
      BY <1>2, <1>8, <2>1
    <2>3. ASSUME NEW i \in 1 .. Len(a) PROVE a[i] = b[i]
      <3>1. i = 1 \/ i \in 2 .. Len(e)
        BY <1>2, <1>8
      <3> QED
        BY <1>6, <1>7, <1>8, <2>1, <2>2, <3>1
    <2>4. a = b
      BY <1>1, <2>1, <2>2, <2>3, SeqEqual
    <2> QED
      BY <2>4 DEF b
  <1> QED
    BY <1>9 DEF a, r, d

LEMMA NextComes ==
  ASSUME NEW e \in Seq(Instruction), e # <<>>, NEW p \in Players
  PROVE  Later(<<>>, e, p) = Sum(Plain(Head(e)), <<>>, Tail(e), p)
  <1>1. /\ Head(e) \in Instruction /\ Tail(e) \in Seq(Instruction)
        /\ 1 \in DOMAIN e /\ Head(e) = e[1]
        /\ \A i \in DOMAIN Tail(e) :
             i \in Nat \ {0} /\ i + 1 \in DOMAIN e /\ Tail(e)[i] = e[i + 1]
    BY HeadAndTail
  <1>2. Coming(e) = <<Plain(Head(e))>> \o Coming(Tail(e))
    BY ComingSplits
  <1>3. Coming(e) \in Seq(QueuedDraw) /\ Coming(Tail(e)) \in Seq(QueuedDraw)
    BY <1>1, ComingTyped
  <1>4. <<>> \o Coming(e) = <<Plain(Head(e))>> \o <<>> \o Coming(Tail(e))
    <2>1. <<>> \o Coming(e) = Coming(e)
      BY <1>3
    <2>2. \A d : <<d>> \o <<>> = <<d>>
      OBVIOUS
    <2> QED
      BY <1>2, <2>1, <2>2
  <1> QED
    BY <1>4 DEF Later, Sum

LEMMA OwedIsSum ==
  /\ \A p : Owed(p) = Sum(current, queue, effects, p)
  /\ \A p : Owed(p)' = Sum(current', queue', effects', p)
  BY DEF Owed, Plans, Sum, Coming

\* One draw less is owed.
LEMMA SettleOwes ==
  ASSUME IInv, Settle, current.count > 0, NEW p \in Players
  PROVE  Owed(p) - Owed(p)' =
           IF p = current.player
           THEN Cardinality(Shares([current EXCEPT !.count = 1])) ELSE 0
  <1> DEFINE one == [current EXCEPT !.count = 1]
             w == Cardinality(Subsets(current))
  <1>1. /\ current \in QueuedDraw /\ current' \in QueuedDraw /\ one \in QueuedDraw
        /\ queue \in Seq(QueuedDraw) /\ effects \in Seq(Instruction)
    BY Settled DEF IInv, TypeOK, QueuedDraw
  <1>2. /\ current'.player = current.player /\ one.player = current.player
        /\ current'.count = current.count - 1 /\ one.count = 1
        /\ current.count \in Nat
        /\ Subsets(current') = Subsets(current)
        /\ Subsets(one) = Subsets(current)
    BY <1>1 DEF Settle, QueuedDraw, Subsets
  <1>3. /\ w \in Nat
        /\ Cardinality(Shares(current)) = current.count * w
        /\ Cardinality(Shares(current')) = (current.count - 1) * w
        /\ Cardinality(Shares(one)) = 1 * w
    BY <1>1, <1>2, SharesCount
  <1>4. (current.count - 1) * w = current.count * w - w
    BY <1>2, <1>3
  <1>5. /\ Owed(p) = Share(current, p) + Later(queue, effects, p)
        /\ Owed(p)' = Share(current', p) + Later(queue, effects, p)
        /\ Later(queue, effects, p) \in Nat
    BY <1>1, OwedIsSum, SumSplits DEF Settle
  <1> HIDE DEF one, w
  <1>6. CASE p = current.player
    <2>1. Share(current, p) = current.count * w
      BY <1>3, <1>6 DEF Share
    <2>2. Share(current', p) = current.count * w - w
      BY <1>2, <1>3, <1>4, <1>6 DEF Share
    <2>3. current.count * w \in Nat
      BY <1>2, <1>3
    <2>4. Owed(p) - Owed(p)' = w
      BY <1>3, <1>5, <2>1, <2>2, <2>3
    <2> QED
      BY <1>3, <1>6, <2>4 DEF one
  <1>7. CASE p # current.player
    BY <1>2, <1>5, <1>7 DEF Share
  <1> QED
    BY <1>6, <1>7

\* A replaced draw owes as much as the two draws that it results in.
LEMMA DoubleOwes ==
  ASSUME IInv, current.count > 0, NEW effect \in Doublers[current.player],
         effect \notin current.excluded, Double(effect), NEW p \in Players
  PROVE  Owed(p)' = Owed(p)
  <1> DEFINE rest == [current EXCEPT !.count = @ - 1]
             X == Doublers[current.player] \ current.excluded
             w == Cardinality(Subsets(current))
             v == Cardinality(Subsets(current'))
  <1>1. /\ current \in QueuedDraw /\ current' \in QueuedDraw
        /\ rest \in QueuedDraw
        /\ queue \in Seq(QueuedDraw) /\ effects \in Seq(Instruction)
        /\ current.count \in Nat \ {0}
    <2>1. /\ current \in QueuedDraw /\ effect \in EffectIds
          /\ queue \in Seq(QueuedDraw) /\ effects \in Seq(Instruction)
      BY CurrentTyped DEF IInv, TypeOK
    <2>2. current.count \in Nat \ {0} /\ current.count - 1 \in Nat
      BY <2>1 DEF QueuedDraw
    <2>3. current' \in QueuedDraw
      BY <2>1 DEF Double, QueuedDraw
    <2>4. rest \in QueuedDraw
      BY <2>1, <2>2 DEF QueuedDraw
    <2> QED
      BY <2>1, <2>2, <2>3, <2>4
  <1>2. /\ current'.player = current.player /\ rest.player = current.player
        /\ current'.count = 2 /\ rest.count = current.count - 1
        /\ Subsets(current) = SUBSET X /\ Subsets(rest) = SUBSET X
        /\ Subsets(current') = SUBSET (X \ {effect})
        /\ UNCHANGED effects
        /\ queue' = IF current.count = 1 THEN queue ELSE <<rest>> \o queue
    BY <1>1 DEF Double, QueuedDraw, Subsets
  <1>3. w = 2 * v
    <2>1. IsFiniteSet(X) /\ effect \in X
      BY CurrentTyped, DrawingAssumption, FS_Difference DEF IInv
    <2> QED
      BY <1>2, <2>1, HalfTheSubsets
  <1>4. /\ w \in Nat /\ v \in Nat
        /\ Cardinality(Shares(current)) = current.count * w
        /\ Cardinality(Shares(rest)) = (current.count - 1) * w
        /\ Cardinality(Shares(current')) = 2 * v
    BY <1>1, <1>2, SharesCount
  <1>5. (current.count - 1) * w = current.count * w - w
    BY <1>1, <1>4
  <1>6. /\ Owed(p) = Share(current, p) + Later(queue, effects, p)
        /\ Later(queue, effects, p) \in Nat
    BY <1>1, OwedIsSum, SumSplits
  <1> HIDE DEF rest, X, w, v
  <1>7. Owed(p)' = Share(current', p) + Later(queue', effects, p)
    <2>1. queue' \in Seq(QueuedDraw)
      BY <1>1, <1>2, Prepended
    <2>2. Owed(p)' = Sum(current', queue', effects, p)
      BY <1>2, OwedIsSum
    <2> QED
      BY <1>1, <2>1, <2>2, SumSplits
  <1>8. CASE current.count = 1
    <2>1. Share(current', p) = Share(current, p)
      BY <1>2, <1>3, <1>4, <1>8 DEF Share
    <2> QED
      BY <1>2, <1>6, <1>7, <1>8, <2>1
  <1>9. CASE current.count # 1
    <2>1. Later(queue', effects, p) = Share(rest, p) + Later(queue, effects, p)
      BY <1>1, <1>2, <1>9, SumSplits
    <2>2. Share(current', p) + Share(rest, p) = Share(current, p)
      <3>1. CASE p = current.player
        <4>1. /\ Share(current, p) = current.count * w
              /\ Share(rest, p) = current.count * w - w
              /\ Share(current', p) = w
          BY <1>2, <1>3, <1>4, <1>5, <3>1 DEF Share
        <4>2. current.count * w \in Nat
          BY <1>1, <1>4
        <4> QED
          BY <1>4, <4>1, <4>2
      <3>2. CASE p # current.player
        BY <1>2, <3>2 DEF Share
      <3> QED
        BY <3>1, <3>2
    <2>3. /\ Share(current', p) \in Nat /\ Share(rest, p) \in Nat
      BY <1>1, SumSplits
    <2> QED
      BY <1>6, <1>7, <2>1, <2>2, <2>3
  <1> QED
    BY <1>8, <1>9

\* What waits is what comes next.
LEMMA NextOwes ==
  ASSUME IInv, NextQueued \/ NextInstruction, NEW p \in Players
  PROVE  Owed(p)' = Owed(p)
  <1>1. /\ current \in QueuedDraw /\ current.count = 0
        /\ queue \in Seq(QueuedDraw) /\ effects \in Seq(Instruction)
    BY DEF IInv, TypeOK, NextQueued, NextInstruction
  <1>2. Share(current, p) = 0
    <2>1. Cardinality(Subsets(current)) \in Nat
      BY <1>1, SharesCount
    <2>2. 0 * Cardinality(Subsets(current)) = 0
      BY <2>1
    <2> QED
      BY <1>1, <2>2, SharesCount DEF Share
  <1>3. Owed(p) = Later(queue, effects, p)
    <2>1. Owed(p) = Sum(current, queue, effects, p)
      BY OwedIsSum
    <2>2. /\ Sum(current, queue, effects, p) =
               Share(current, p) + Later(queue, effects, p)
          /\ Later(queue, effects, p) \in Nat
      BY <1>1, SumSplits
    <2> QED
      BY <1>2, <2>1, <2>2
  <1>4. CASE NextQueued
    <2>1. /\ queue # <<>> /\ current' = Head(queue) /\ queue' = Tail(queue)
          /\ UNCHANGED effects
      BY <1>4 DEF NextQueued
    <2>2. /\ current' \in QueuedDraw /\ queue' \in Seq(QueuedDraw)
          /\ queue = <<current'>> \o queue'
      BY <1>1, <2>1
    <2> QED
      BY <1>1, <1>3, <2>1, <2>2, OwedIsSum, SumSplits
  <1>5. CASE NextInstruction
    <2>1. /\ queue = <<>> /\ effects # <<>> /\ current' = Plain(Head(effects))
          /\ effects' = Tail(effects) /\ queue' = <<>>
      BY <1>5 DEF NextInstruction
    <2> QED
      BY <1>1, <1>3, <2>1, OwedIsSum, NextComes
  <1> QED
    BY <1>4, <1>5

\* A hand that gets one card.
LEMMA HandGrows ==
  ASSUME NEW card \in Cards, NEW p, Owner[card] = p, zone[card] # "hand", zone'[card] = "hand",
         \A c \in Cards \ {card} : zone'[c] = "hand" <=> zone[c] = "hand"
  PROVE  Cardinality(In(p, "hand"))' = Cardinality(In(p, "hand")) + 1
  <1> DEFINE hand == In(p, "hand")
  <1>1. In(p, "hand")' = hand \cup {card} /\ card \notin hand
    BY DEF In
  <1>2. IsFiniteSet(hand)
    BY FS_Subset, DrawingAssumption DEF In
  <1> QED
    BY <1>1, <1>2, FS_AddElement

\* What becomes of the one draw that is no longer owed.
Outcome(p) ==
  \/ ~Permitted(p)
  \/ Library(p) = {} /\ p \in attempted'
  \/ Cardinality(In(p, "hand"))' = Cardinality(In(p, "hand")) + 1

LEMMA CommitOutcome ==
  ASSUME IInv, NEW card \in Library(current.player), Commit(card),
         NEW p \in Players, p = current.player
  PROVE  Settle /\ Outcome(p)
  <1>1. card \in Cards /\ Owner[card] = p /\ zone[card] = "library"
    BY DEF Library, In
  <1>2. Cardinality(In(p, "hand"))' = Cardinality(In(p, "hand")) + 1
    <2>1. /\ zone[card] # "hand" /\ zone'[card] = "hand"
          /\ \A c \in Cards \ {card} : zone'[c] = zone[c]
      BY <1>1 DEF Commit, IInv, TypeOK
    <2> QED
      BY <1>1, <2>1, HandGrows
  <1> QED
    BY <1>1, <1>2 DEF Commit, Outcome

LEMMA DredgeOutcome ==
  ASSUME IInv, NEW card \in Dredge(current.player), MillAndReturn(card),
         NEW p \in Players, p = current.player
  PROVE  Settle /\ Outcome(p)
  <1>1. /\ card \in Cards /\ Owner[card] = p
        /\ zone[card] = "graveyard"
    BY DEF Dredge, In
  <1>2. Cardinality(In(p, "hand"))' = Cardinality(In(p, "hand")) + 1
    <2>1. PICK milled \in SUBSET Library(current.player) :
            zone' = [c \in Cards |->
                       IF c = card THEN "hand"
                       ELSE IF c \in milled THEN "graveyard" ELSE zone[c]]
      BY DEF MillAndReturn
    <2>2. \A c \in milled : zone[c] = "library"
      BY DEF Library, In
    <2>3. /\ zone[card] # "hand" /\ zone'[card] = "hand"
          /\ \A c \in Cards \ {card} : zone'[c] = "hand" <=> zone[c] = "hand"
      BY <1>1, <2>1, <2>2
    <2> QED
      BY <1>1, <2>3, HandGrows
  <1> QED
    BY <1>1, <1>2 DEF MillAndReturn, Outcome

LEMMA OrdinaryOutcome ==
  ASSUME IInv, DrawOrdinarily, NEW p \in Players, p = current.player
  PROVE  \/ Settle /\ Outcome(p)
         \/ UNCHANGED <<current, queue, effects>>
  <1>1. CASE DrawFromEmpty
    BY <1>1 DEF DrawFromEmpty, Outcome
  <1>2. ASSUME NEW card \in Library(current.player),
               OfferReveal(card) \/ Commit(card)
        PROVE  \/ Settle /\ Outcome(p)
               \/ UNCHANGED <<current, queue, effects>>
    BY <1>2, CommitOutcome DEF OfferReveal
  <1> QED
    BY <1>1, <1>2 DEF DrawOrdinarily

\* Every step carries out one draw, or owes what was owed.
LEMMA StepOwes ==
  ASSUME IInv, [Next]_vars, NEW p \in Players, p = current.player
  PROVE  \/ current.count > 0 /\ Settle /\ Outcome(p)
         \/ \A q \in Players : Owed(q)' = Owed(q)
  <1>0. UNCHANGED <<current, queue, effects>> =>
          \A q \in Players : Owed(q)' = Owed(q)
    BY OwedIsSum
  <1>1. CASE Prohibited
    BY <1>1 DEF Prohibited, DrawsLeft, Outcome
  <1>2. CASE ReplaceAutomatically
    <2>1. PICK effect \in Doublers[current.player] :
            Options = {effect} /\ Double(effect)
      BY <1>2 DEF ReplaceAutomatically
    <2>2. effect \notin current.excluded
      BY <2>1, CurrentTyped, DrawingAssumption DEF Options, Dredge, IInv
    <2> QED
      BY <1>2, <2>1, <2>2, DoubleOwes DEF ReplaceAutomatically, DrawsLeft
  <1>3. CASE AskForReplacement
    BY <1>0, <1>3 DEF AskForReplacement
  <1>4. CASE DrawUnreplaced
    BY <1>0, <1>4, OrdinaryOutcome DEF DrawUnreplaced, DrawsLeft
  <1>5. CASE NextQueued \/ NextInstruction
    BY <1>5, NextOwes
  <1>6. CASE ChooseReplacement
    <2>1. Ready
      BY <1>6 DEF ChooseReplacement, IInv, Choices
    <2>2. PICK option \in Options :
            \/ option \notin Dredgers /\ Double(option)
            \/ option \in Dredgers /\ MillAndReturn(option)
      BY <1>6 DEF ChooseReplacement
    <2>3. CASE option \notin Dredgers /\ Double(option)
      BY <2>1, <2>2, <2>3, DoubleOwes DEF Options, Dredge, Ready
    <2>4. CASE option \in Dredgers /\ MillAndReturn(option)
      <3>1. option \in Dredge(current.player)
        BY <2>2, <2>4, CurrentTyped, DrawingAssumption DEF Options, IInv
      <3> QED
        BY <2>1, <2>4, <3>1, DredgeOutcome DEF Ready
    <2> QED
      BY <2>2, <2>3, <2>4
  <1>7. CASE ChooseDraw
    <2>1. Ready
      BY <1>7 DEF ChooseDraw, IInv, Choices
    <2> QED
      BY <1>0, <1>7, <2>1, OrdinaryOutcome DEF ChooseDraw, Ready
  <1>8. CASE AnswerReveal
    <2>1. Ready /\ decision.card \in Library(current.player)
      BY <1>8 DEF AnswerReveal, IInv, Choices
    <2> QED
      BY <1>0, <1>8, <2>1, CommitOutcome DEF AnswerReveal, Ready
  <1>9. CASE UNCHANGED vars
    BY <1>0, <1>9 DEF vars
  <1> QED
    BY <1>1, <1>2, <1>3, <1>4, <1>5, <1>6, <1>7, <1>8, <1>9
    DEF Next, Engine, Answer, Finished

CountsStep ==
  \A p \in Players :
    Owed(p)' # Owed(p) =>
      /\ p = current.player
      /\ Owed(p) - Owed(p)' = Cardinality(Shares([current EXCEPT !.count = 1]))
      /\ Outcome(p)

(* No draw of any instruction is lost or made twice: each is prohibited,   *)
(* met by an empty library, or worth one card, and what its replacements   *)
(* result in is owed in its place.                                         *)
THEOREM DrawsAreCounted == Spec => EveryDrawCounts
  <1>1. IInv /\ [Next]_vars => CountsStep
    <2> SUFFICES ASSUME IInv, [Next]_vars, NEW p \in Players,
                        Owed(p)' # Owed(p)
                 PROVE  /\ p = current.player
                        /\ Owed(p) - Owed(p)' =
                             Cardinality(Shares([current EXCEPT !.count = 1]))
                        /\ Outcome(p)
      BY DEF CountsStep
    <2>1. /\ current.count > 0 /\ Settle
          /\ p = current.player => Outcome(p)
      <3>1. current.player \in Players
        BY CurrentTyped DEF IInv
      <3>2. PICK q \in Players : q = current.player
        BY <3>1
      <3> QED
        BY <3>2, StepOwes
    <2>2. Owed(p) - Owed(p)' =
            IF p = current.player
            THEN Cardinality(Shares([current EXCEPT !.count = 1])) ELSE 0
      BY <2>1, SettleOwes
    <2>3. Owed(p) \in Nat /\ Owed(p)' \in Nat
      <3>1. TypeOK /\ TypeOK'
        BY StepOK DEF IInv
      <3>2. \A c \in QueuedDraw, q \in Seq(QueuedDraw), e \in Seq(Instruction) :
              Sum(c, q, e, p) \in Nat
        <4> TAKE c \in QueuedDraw, q \in Seq(QueuedDraw), e \in Seq(Instruction)
        <4>1. /\ Sum(c, q, e, p) = Share(c, p) + Later(q, e, p)
              /\ Later(q, e, p) \in Nat /\ Share(c, p) \in Nat
          BY SumSplits
        <4> QED
          BY <4>1
      <3> QED
        BY <3>1, <3>2, OwedIsSum DEF TypeOK
    <2>4. p = current.player
      BY <2>2, <2>3
    <2> QED
      BY <2>1, <2>2, <2>4
  <1>2. Spec => [][CountsStep]_vars
    BY <1>1, Invariant, PTL DEF Spec
  <1> QED
    BY <1>2 DEF EveryDrawCounts, CountsStep, Outcome

-----------------------------------------------------------------------------
(* Why the instructions come to an end: what a rank counts.                *)

\* The ends of draws and the replacements on the way.
Kinds == {"card", "replacement"}

\* All that can still happen to some draws, if every doubling effect applies
\* to each of them: a draw with n effects is a binary tree of that depth,
\* whose leaves, as many as there are sets of effects, are the cards, and whose
\* other nodes, one less, are the replacements.
Nodes(draw) ==
  (1 .. draw.count) \X ((Subsets(draw) \X Kinds) \ {<<{}, "replacement">>})

NodesOf(q) == [i \in DOMAIN q |-> Nodes(q[i])]

Effort(q) == Cardinality(Heap(NodesOf(q)))

\* Every replacement and every draw takes away a node, and starting with what
\* waits makes a queue shorter that a replacement makes longer by one.
Rank == 2 * Effort(Plans) + Len(queue) + Len(effects)

\* The questions that may come before the next draw.
Patience ==
  CASE decision.kind = "none" -> Reveals[current.player] + 2
    [] decision.kind = "draw.replacement" -> Reveals[current.player] + 1
    [] OTHER -> Reveals[current.player] - decision.asked

LEMMA NodesCount ==
  ASSUME NEW draw \in QueuedDraw
  PROVE  /\ IsFiniteSet(Nodes(draw)) /\ Cardinality(Nodes(draw)) \in Nat
         /\ Cardinality(Subsets(draw)) \in Nat \ {0}
         /\ Cardinality(Nodes(draw)) =
              draw.count * (2 * Cardinality(Subsets(draw)) - 1)
  <1> DEFINE B == Subsets(draw) \X Kinds
             N == B \ {<<{}, "replacement">>}
  <1>1. IsFiniteSet(Subsets(draw)) /\ Cardinality(Subsets(draw)) \in Nat
    BY SharesCount
  <1>2. Cardinality(Subsets(draw)) # 0
    BY <1>1, FS_EmptySet DEF Subsets
  <1>3. IsFiniteSet(Kinds) /\ Cardinality(Kinds) = 2
    <2>1. IsFiniteSet({"card"}) /\ Cardinality({"card"}) = 1
      BY FS_Singleton
    <2>2. Kinds = {"card"} \cup {"replacement"} /\ "replacement" \notin {"card"}
      BY DEF Kinds
    <2> QED
      BY <2>1, <2>2, FS_AddElement
  <1>4. IsFiniteSet(B) /\ Cardinality(B) = Cardinality(Subsets(draw)) * 2
    BY <1>1, <1>3, FS_Product
  <1>5. <<{}, "replacement">> \in B
    BY DEF Subsets, Kinds
  <1>6. IsFiniteSet(N) /\ Cardinality(N) = Cardinality(Subsets(draw)) * 2 - 1
    <2> HIDE DEF B
    <2> QED
      BY <1>4, <1>5, FS_RemoveElement
  <1>7. draw.count \in Nat
    BY DEF QueuedDraw
  <1>8. /\ IsFiniteSet(1 .. draw.count)
        /\ Cardinality(1 .. draw.count) = draw.count
    BY <1>7, FS_Interval
  <1> HIDE DEF N
  <1>9. /\ IsFiniteSet((1 .. draw.count) \X N)
        /\ Cardinality((1 .. draw.count) \X N) = draw.count * Cardinality(N)
    BY <1>6, <1>8, FS_Product
  <1>10. Nodes(draw) = (1 .. draw.count) \X N
    BY DEF Nodes, N
  <1>11. Cardinality(Nodes(draw)) \in Nat
    BY <1>9, <1>10, FS_CardinalityType
  <1>12. Cardinality(N) = 2 * Cardinality(Subsets(draw)) - 1
    BY <1>1, <1>6
  <1> QED
    BY <1>1, <1>2, <1>9, <1>10, <1>11, <1>12

LEMMA NodesOfFinite ==
  ASSUME NEW q \in Seq(QueuedDraw)
  PROVE  /\ Len(q) \in Nat /\ DOMAIN q = 1 .. Len(q)
         /\ DOMAIN NodesOf(q) = 1 .. Len(q)
         /\ \A i \in 1 .. Len(q) : IsFiniteSet(NodesOf(q)[i])
         /\ Effort(q) \in Nat
  <1>1. \A i \in DOMAIN q : q[i] \in QueuedDraw
    OBVIOUS
  <1>2. \A i \in DOMAIN q : IsFiniteSet(NodesOf(q)[i])
    BY <1>1, NodesCount DEF NodesOf
  <1>3. DOMAIN NodesOf(q) = 1 .. Len(q) /\ Len(q) \in Nat /\ DOMAIN q = 1 .. Len(q)
    BY DEF NodesOf
  <1> QED
    BY <1>2, <1>3, HeapFinite DEF Effort

LEMMA EffortHead ==
  ASSUME NEW draw \in QueuedDraw, NEW q \in Seq(QueuedDraw)
  PROVE  Effort(<<draw>> \o q) = Cardinality(Nodes(draw)) + Effort(q)
  <1> DEFINE w == <<draw>> \o q
             s == NodesOf(w)
             r == NodesOf(q)
  <1>1. /\ w \in Seq(QueuedDraw) /\ DOMAIN w = 1 .. Len(q) + 1
        /\ w[1] = draw /\ Len(w) = Len(q) + 1
        /\ Len(q) \in Nat /\ DOMAIN q = 1 .. Len(q)
        /\ \A i \in 1 .. Len(q) : i + 1 \in 1 .. Len(q) + 1 /\ w[i + 1] = q[i]
        /\ 1 \in 1 .. Len(q) + 1
    BY DrawBefore
  <1> HIDE DEF w
  <1>2. /\ DOMAIN s = 1 .. Len(q) + 1 /\ DOMAIN r = 1 .. Len(q)
        /\ \A i \in 1 .. Len(q) + 1 : IsFiniteSet(s[i])
    BY <1>1, NodesOfFinite
  <1>3. /\ \A i \in 1 .. Len(q) : r[i] = s[i + 1]
        /\ s[1] = Nodes(draw)
    BY <1>1 DEF NodesOf
  <1> HIDE DEF s, r
  <1>4. Cardinality(Heap(s)) = Cardinality(s[1]) + Cardinality(Heap(r))
    BY <1>1, <1>2, <1>3, HeapHead
  <1> QED
    BY <1>3, <1>4 DEF Effort, s, r, w

Left(q, e) == Effort(q \o Coming(e))

LEMMA WorkSplits ==
  ASSUME NEW c \in QueuedDraw, NEW q \in Seq(QueuedDraw),
         NEW e \in Seq(Instruction)
  PROVE  /\ Left(<<c>> \o q, e) = Cardinality(Nodes(c)) + Left(q, e)
         /\ Left(q, e) \in Nat
         /\ e # <<>> => Left(<<>>, e) = Left(<<Plain(Head(e))>> \o <<>>, Tail(e))
  <1>1. Coming(e) \in Seq(QueuedDraw) /\ q \o Coming(e) \in Seq(QueuedDraw)
    BY ComingTyped
  <1>2. (<<c>> \o q) \o Coming(e) = <<c>> \o (q \o Coming(e))
    BY <1>1
  <1>3. /\ Left(<<c>> \o q, e) = Cardinality(Nodes(c)) + Left(q, e)
        /\ Left(q, e) \in Nat
    BY <1>1, <1>2, EffortHead, NodesOfFinite DEF Left
  <1>4. ASSUME e # <<>>
        PROVE  Left(<<>>, e) = Left(<<Plain(Head(e))>> \o <<>>, Tail(e))
    <2>1. <<>> \o Coming(e) = Coming(e)
      BY <1>1
    <2>2. \A d : <<d>> \o <<>> = <<d>>
      OBVIOUS
    <2> QED
      BY <1>4, <2>1, <2>2, ComingSplits DEF Left
  <1> QED
    BY <1>3, <1>4

LEMMA RankIsLeft ==
  /\ Rank = 2 * Left(<<current>> \o queue, effects) + Len(queue) + Len(effects)
  /\ Rank' = 2 * Left(<<current'>> \o queue', effects')
               + Len(queue') + Len(effects')
  BY DEF Rank, Left, Plans, Coming

LEMMA RankType ==
  ASSUME IInv
  PROVE  Rank \in Nat /\ Patience \in Nat
  <1>1. Rank \in Nat
    <2>1. /\ current \in QueuedDraw
          /\ queue \in Seq(QueuedDraw) /\ effects \in Seq(Instruction)
      BY DEF IInv, TypeOK
    <2>2. Left(<<current>> \o queue, effects) \in Nat
      BY <2>1, WorkSplits, DrawBefore
    <2>3. Len(queue) \in Nat /\ Len(effects) \in Nat
      BY <2>1
    <2> QED
      BY <2>2, <2>3, RankIsLeft
  <1>2. Patience \in Nat
    <2>1. Reveals[current.player] \in Nat
      BY CurrentTyped, DrawingAssumption DEF IInv
    <2>2. decision.kind \in {"none", "draw.replacement", "draw.reveal"}
      BY DEF IInv, TypeOK
    <2>3. decision.kind = "draw.reveal" =>
            decision.asked \in 1 .. Reveals[current.player]
      BY DEF IInv, Choices
    <2> QED
      BY <2>1, <2>2, <2>3 DEF Patience
  <1> QED
    BY <1>1, <1>2

LEMMA SettleWorks ==
  ASSUME IInv, Settle, current.count > 0
  PROVE  Rank' < Rank
  <1> DEFINE w == Cardinality(Subsets(current))
             n == current.count
  <1>1. /\ current \in QueuedDraw /\ current' \in QueuedDraw
        /\ queue \in Seq(QueuedDraw) /\ effects \in Seq(Instruction)
        /\ queue' = queue /\ effects' = effects
    BY Settled DEF IInv, TypeOK, Settle
  <1>2. /\ current'.count = n - 1 /\ n \in Nat
        /\ Subsets(current') = Subsets(current)
    BY <1>1 DEF Settle, QueuedDraw, Subsets
  <1>3. /\ w \in Nat \ {0}
        /\ Cardinality(Nodes(current)) = n * (2 * w - 1)
        /\ Cardinality(Nodes(current')) = (n - 1) * (2 * w - 1)
        /\ Cardinality(Nodes(current')) \in Nat
    BY <1>1, <1>2, NodesCount
  <1>4. Left(queue, effects) \in Nat
    BY <1>1, WorkSplits
  <1>5. /\ Left(<<current>> \o queue, effects) =
             Cardinality(Nodes(current)) + Left(queue, effects)
        /\ Left(<<current'>> \o queue', effects') =
             Cardinality(Nodes(current')) + Left(queue, effects)
    BY <1>1, WorkSplits
  <1> HIDE DEF w, n
  <1>6. n * (2 * w - 1) = (n - 1) * (2 * w - 1) + (2 * w - 1)
    BY <1>2, <1>3
  <1>7. Len(queue) \in Nat /\ Len(effects) \in Nat
    BY <1>1
  <1> QED
    BY <1>1, <1>3, <1>4, <1>5, <1>6, <1>7, RankIsLeft

LEMMA DoubleWorks ==
  ASSUME IInv, current.count > 0, NEW effect \in Doublers[current.player],
         effect \notin current.excluded, Double(effect)
  PROVE  Rank' < Rank
  <1> DEFINE rest == [current EXCEPT !.count = @ - 1]
             X == Doublers[current.player] \ current.excluded
             w == Cardinality(Subsets(current))
             v == Cardinality(Subsets(current'))
             n == current.count
  <1>1. /\ current \in QueuedDraw /\ current' \in QueuedDraw
        /\ rest \in QueuedDraw
        /\ queue \in Seq(QueuedDraw) /\ effects \in Seq(Instruction)
        /\ n \in Nat \ {0}
    <2>1. /\ current \in QueuedDraw /\ effect \in EffectIds
          /\ queue \in Seq(QueuedDraw) /\ effects \in Seq(Instruction)
      BY CurrentTyped DEF IInv, TypeOK
    <2>2. n \in Nat \ {0} /\ current.count - 1 \in Nat
      BY <2>1 DEF QueuedDraw
    <2>3. current' \in QueuedDraw
      BY <2>1 DEF Double, QueuedDraw
    <2>4. rest \in QueuedDraw
      BY <2>1, <2>2 DEF QueuedDraw
    <2> QED
      BY <2>1, <2>2, <2>3, <2>4
  <1>2. /\ current'.count = 2 /\ rest.count = n - 1
        /\ Subsets(current) = SUBSET X /\ Subsets(rest) = SUBSET X
        /\ Subsets(current') = SUBSET (X \ {effect})
        /\ effects' = effects
        /\ queue' = IF n = 1 THEN queue ELSE <<rest>> \o queue
    BY <1>1 DEF Double, QueuedDraw, Subsets
  <1>3. w = 2 * v
    <2>1. IsFiniteSet(X) /\ effect \in X
      BY CurrentTyped, DrawingAssumption, FS_Difference DEF IInv
    <2> QED
      BY <1>2, <2>1, HalfTheSubsets
  <1>4. /\ w \in Nat \ {0} /\ v \in Nat \ {0}
        /\ Cardinality(Nodes(current)) = n * (2 * w - 1)
        /\ Cardinality(Nodes(rest)) = (n - 1) * (2 * w - 1)
        /\ Cardinality(Nodes(current')) = 2 * (2 * v - 1)
        /\ Cardinality(Nodes(rest)) \in Nat
    BY <1>1, <1>2, NodesCount
  <1> HIDE DEF rest, X, w, v, n
  <1>5. n * (2 * w - 1) = (n - 1) * (2 * w - 1) + (2 * w - 1)
    BY <1>1, <1>4
  <1>6. Cardinality(Nodes(current)) =
          Cardinality(Nodes(rest)) + Cardinality(Nodes(current')) + 1
    BY <1>3, <1>4, <1>5
  <1>7. /\ Left(<<current>> \o queue, effects) =
             Cardinality(Nodes(current)) + Left(queue, effects)
        /\ Left(queue, effects) \in Nat
        /\ Len(queue) \in Nat /\ Len(effects) \in Nat
    <2>1. Len(queue) \in Nat /\ Len(effects) \in Nat
      BY <1>1
    <2> QED
      BY <1>1, <2>1, WorkSplits
  <1>8. /\ queue' \in Seq(QueuedDraw)
        /\ Left(queue', effects) + Cardinality(Nodes(current')) < 
             Left(queue, effects) + Cardinality(Nodes(current))
        /\ Left(queue', effects) \in Nat
        /\ Len(queue') \in Nat /\ Len(queue') <= Len(queue) + 1
    <2>1. CASE n = 1
      BY <1>1, <1>2, <1>4, <1>6, <1>7, <2>1
    <2>2. CASE n # 1
      <3>1. queue' = <<rest>> \o queue
        BY <1>2, <2>2
      <3>2. queue' \in Seq(QueuedDraw) /\ Len(queue') = Len(queue) + 1
        BY <1>1, <3>1, DrawBefore
      <3>3. Left(queue', effects) = Cardinality(Nodes(rest)) + Left(queue, effects)
        BY <1>1, <3>1, WorkSplits
      <3> QED
        BY <1>4, <1>6, <1>7, <3>2, <3>3
    <2> QED
      BY <2>1, <2>2
  <1>9. Left(<<current'>> \o queue', effects) =
          Cardinality(Nodes(current')) + Left(queue', effects)
    BY <1>1, <1>8, WorkSplits
  <1>10. Cardinality(Nodes(current')) \in Nat /\ Cardinality(Nodes(current)) \in Nat
    BY <1>1, NodesCount
  <1> QED
    BY <1>2, <1>7, <1>8, <1>9, <1>10, RankIsLeft

LEMMA NextWorks ==
  ASSUME IInv, NextQueued \/ NextInstruction
  PROVE  Rank' < Rank
  <1>1. /\ current \in QueuedDraw /\ current.count = 0
        /\ queue \in Seq(QueuedDraw) /\ effects \in Seq(Instruction)
    BY DEF IInv, TypeOK, NextQueued, NextInstruction
  <1>2. Cardinality(Nodes(current)) = 0
    <2>1. /\ Cardinality(Subsets(current)) \in Nat
          /\ Cardinality(Nodes(current)) =
               0 * (2 * Cardinality(Subsets(current)) - 1)
      BY <1>1, NodesCount
    <2> QED
      BY <2>1
  <1>3. /\ Left(<<current>> \o queue, effects) = 0 + Left(queue, effects)
        /\ Left(queue, effects) \in Nat
    BY <1>1, <1>2, WorkSplits
  <1>4. CASE NextQueued
    <2>1. /\ queue # <<>> /\ current' = Head(queue) /\ queue' = Tail(queue)
          /\ effects' = effects
      BY <1>4 DEF NextQueued
    <2>2. /\ queue = <<current'>> \o queue'
          /\ Len(queue') \in Nat /\ Len(queue) = Len(queue') + 1
          /\ Len(effects) \in Nat
      BY <1>1, <2>1
    <2> QED
      BY <1>3, <2>1, <2>2, RankIsLeft
  <1>5. CASE NextInstruction
    <2>1. /\ queue = <<>> /\ effects # <<>> /\ current' = Plain(Head(effects))
          /\ effects' = Tail(effects) /\ queue' = <<>>
      BY <1>5 DEF NextInstruction
    <2>2. Left(queue, effects) = Left(<<current'>> \o queue', effects')
      BY <1>1, <2>1, WorkSplits
    <2>3. /\ Len(effects') \in Nat /\ Len(effects) = Len(effects') + 1
          /\ Len(queue) = 0 /\ Len(queue') = 0
      BY <1>1, <2>1
    <2> QED
      BY <1>3, <2>2, <2>3, RankIsLeft
  <1> QED
    BY <1>4, <1>5

\* A question takes patience.
LEMMA QuestionWaits ==
  ASSUME IInv, UNCHANGED <<current, queue, effects>>,
         \/ decision.kind = "none" /\ decision'.kind = "draw.replacement"
         \/ /\ decision.kind \in {"none", "draw.replacement"}
            /\ decision'.kind = "draw.reveal" /\ decision'.asked = 1
         \/ /\ decision.kind = "draw.reveal" /\ decision'.kind = "draw.reveal"
            /\ decision'.asked = decision.asked + 1
  PROVE  Rank' = Rank /\ Patience' < Patience
  <1>1. Rank' = Rank
    BY RankIsLeft
  <1>2. Reveals[current.player] \in Nat
    BY CurrentTyped, DrawingAssumption DEF IInv
  <1>3. decision.asked \in Nat
    BY DEF IInv, TypeOK
  <1>4. Patience' < Patience
    BY <1>2, <1>3 DEF Patience
  <1> QED
    BY <1>1, <1>4

LEMMA OrdinaryWorks ==
  ASSUME IInv, Ready, DrawOrdinarily,
         decision.kind \in {"none", "draw.replacement"}
  PROVE  Rank' < Rank \/ (Rank' = Rank /\ Patience' < Patience)
  <1>1. CASE DrawFromEmpty
    BY <1>1, SettleWorks DEF DrawFromEmpty, Ready
  <1>2. ASSUME NEW card \in Library(current.player), Commit(card)
        PROVE  Rank' < Rank
    BY <1>2, SettleWorks DEF Commit, Ready
  <1>3. ASSUME NEW card \in Library(current.player), OfferReveal(card)
        PROVE  Rank' = Rank /\ Patience' < Patience
    BY <1>3, QuestionWaits DEF OfferReveal
  <1> QED
    BY <1>1, <1>2, <1>3 DEF DrawOrdinarily

(* No resolution draws, replaces and asks for ever, whatever the effects   *)
(* and however players choose: every step of the engine and every answer   *)
(* takes something away from a rank of natural numbers.                    *)
THEOREM InstructionsRunOut ==
  Spec => /\ [](Rank \in Nat /\ Patience \in Nat)
          /\ [][Rank' < Rank \/ (Rank' = Rank /\ Patience' < Patience)]_vars
  <1>1. IInv /\ [Next]_vars =>
          [Rank' < Rank \/ (Rank' = Rank /\ Patience' < Patience)]_vars
    <2> SUFFICES ASSUME IInv, Engine \/ Answer
                 PROVE  Rank' < Rank \/ (Rank' = Rank /\ Patience' < Patience)
      BY DEF Next, Finished
    <2>1. CASE Prohibited
      BY <2>1, SettleWorks DEF Prohibited, DrawsLeft
    <2>2. CASE ReplaceAutomatically
      <3>1. PICK effect \in Doublers[current.player] :
              Options = {effect} /\ Double(effect)
        BY <2>2 DEF ReplaceAutomatically
      <3>2. effect \notin current.excluded
        BY <3>1, CurrentTyped, DrawingAssumption DEF Options, Dredge, IInv
      <3> QED
        BY <2>2, <3>1, <3>2, DoubleWorks DEF ReplaceAutomatically, DrawsLeft
    <2>3. CASE AskForReplacement
      <3>1. /\ decision.kind = "none" /\ decision'.kind = "draw.replacement"
            /\ UNCHANGED <<current, queue, effects>>
        BY <2>3, NothingPending DEF AskForReplacement, DrawsLeft, Running, NoDecision
      <3> QED
        BY <3>1, QuestionWaits
    <2>4. CASE DrawUnreplaced
      <3>1. decision.kind = "none" /\ Ready
        BY <2>4, NothingPending DEF DrawUnreplaced, DrawsLeft, Running, Ready
      <3> QED
        BY <2>4, <3>1, OrdinaryWorks DEF DrawUnreplaced
    <2>5. CASE NextQueued \/ NextInstruction
      BY <2>5, NextWorks
    <2>6. CASE ChooseReplacement
      <3>1. Ready
        BY <2>6 DEF ChooseReplacement, IInv, Choices
      <3>2. PICK option \in Options :
              \/ option \notin Dredgers /\ Double(option)
              \/ option \in Dredgers /\ MillAndReturn(option)
        BY <2>6 DEF ChooseReplacement
      <3>3. CASE option \notin Dredgers /\ Double(option)
        BY <3>1, <3>2, <3>3, DoubleWorks DEF Options, Dredge, Ready
      <3>4. CASE option \in Dredgers /\ MillAndReturn(option)
        BY <3>1, <3>4, SettleWorks DEF MillAndReturn, Ready
      <3> QED
        BY <3>2, <3>3, <3>4
    <2>7. CASE ChooseDraw
      <3>1. Ready /\ decision.kind = "draw.replacement"
        BY <2>7 DEF ChooseDraw, IInv, Choices
      <3> QED
        BY <2>7, <3>1, OrdinaryWorks DEF ChooseDraw
    <2>8. CASE AnswerReveal
      <3>1. Ready /\ decision.kind = "draw.reveal"
        BY <2>8 DEF AnswerReveal, IInv, Choices
      <3>2. CASE Commit(decision.card)
        BY <3>1, <3>2, SettleWorks DEF Commit, Ready
      <3>3. CASE /\ decision' = [decision EXCEPT !.asked = @ + 1]
                 /\ UNCHANGED <<zone, drawn, attempted, current, queue, effects>>
        <4>1. decision'.kind = "draw.reveal" /\ decision'.asked = decision.asked + 1
          BY <3>1, <3>3 DEF IInv, TypeOK
        <4> QED
          BY <3>1, <3>3, <4>1, QuestionWaits
      <3> QED
        BY <2>8, <3>2, <3>3 DEF AnswerReveal
    <2> QED
      BY <2>1, <2>2, <2>3, <2>4, <2>5, <2>6, <2>7, <2>8 DEF Engine, Answer
  <1>2. IInv => Rank \in Nat /\ Patience \in Nat
    BY RankType
  <1> QED
    BY <1>1, <1>2, Invariant, PTL DEF Spec
=============================================================================
