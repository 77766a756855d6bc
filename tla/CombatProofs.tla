---------------------------- MODULE CombatProofs ----------------------------
(***************************************************************************)
(* Proofs about the combat phase, for any number of seats, creatures,      *)
(* tokens and attackable permanents and any bound on what cards do.        *)
(***************************************************************************)
EXTENDS Combat, FiniteSetTheorems, TLAPS

(* Nothing of a combat has begun: what the last one left in the history    *)
(* has not been cleared yet.                                               *)
BetweenCombats ==
  step = "postcombat_main" \/ (step = "beginning_combat" /\ todo = "enter")

BeforeBlocks ==
  \/ step \in {"postcombat_main", "beginning_combat", "declare_attackers"}
  \/ step = "declare_blockers" /\ todo = "enter"

BeforeDamage ==
  \/ step \in {"postcombat_main", "beginning_combat", "declare_attackers",
               "declare_blockers"}
  \/ step = "combat_damage" /\ todo = "enter" /\ damageStep = 0

(* The first damage step has been dealt, and a second one has not.         *)
BetweenDamage ==
  /\ step = "combat_damage"
  /\ \/ damageStep = 0 /\ todo \in {"window", "advance"}
     \/ damageStep = 1 /\ todo \in {"enter", "assign"}

AfterDamage ==
  \/ step = "end_combat"
  \/ step = "combat_damage" /\ damageStep = 1 /\ todo \in {"window", "advance"}

(* Which call or answer belongs to which step.                             *)
CallsOfSteps ==
  /\ todo = "attack" => step = "declare_attackers" /\ Active \in inGame
  /\ todo \in {"next_defender", "block"} => step = "declare_blockers"
  /\ todo = "assign" => step = "combat_damage"
  /\ todo = "enter" => step # "postcombat_main"

(* Who attacks and who blocks; a blocker whose attacker has gone included. *)
Roster ==
  /\ \A a \in Attackers :
       /\ attackers[a] \in Opponents \cup Walkers
       /\ control[a] = Active /\ form[a] = "creature" /\ Active \in inGame
  /\ \A a \in Creatures : \A b \in blockers[a] :
       form[b] = "creature" /\ control[b] \in inGame \ {Active}
  /\ \A a \in Creatures : blockers[a] # {} => a \in blocked
  /\ \A a \in blocked : form[a] # "coming"
  /\ \A c \in Creatures : form[c] = "coming" => control[c] = Owner[c]
  /\ BeforeBlocks => blocked = {}
  /\ step \in {"postcombat_main", "beginning_combat"} => Attackers = {}

(* How many attacked defenders come before a seat.                         *)
Rank(seat) == Cardinality({s \in AttackedDefenders : s < seat})

(* The cursor counts the defenders that have been asked, and nobody blocks *)
(* who has not been asked.                                                 *)
BlockOrder ==
  /\ BeforeBlocks /\ ~BetweenCombats => asked = {}
  /\ todo \in {"next_defender", "block"} =>
       /\ asked = {s \in AttackedDefenders : Rank(s) < cursor}
       /\ \A a \in Creatures : \A b \in blockers[a] : control[b] \in asked
  /\ todo = "block" => IsNextDefender(decision)

(* What has been announced is what the sources of the step may damage.     *)
HitsAreAllowed ==
  /\ \A pair \in hits :
       todo = "assign" /\ pair[1] \in Sources /\ pair[2] \in Targets(pair[1])
  /\ ~BetweenCombats => wasBlocked \subseteq blocked

(* Where the two damage steps are.                                         *)
DamageSteps ==
  /\ BeforeDamage => ~initialized /\ damageStep = 0
  /\ step = "combat_damage" /\ todo # "enter" => initialized
  /\ damageStep = 1 =>
       initialized /\ firstStrike /\ step \in {"combat_damage", "end_combat"}
  /\ BeforeDamage /\ ~BetweenCombats =>
       fought = {} /\ \A c \in Creatures : assigned[c] = {}
  /\ \A c \in fought : form[c] # "coming"

(* Who has been a source, and who is to be one.                            *)
DamageDealt ==
  /\ todo = "assign" /\ damageStep = 0 =>
       /\ fought = Fighting
       /\ \A c \in Creatures : assigned[c] = {}
       /\ firstStrike => /\ \A c \in ordinary : strike[c] = "none"
                         /\ \A c \in Fighting :
                              strike[c] = "none" => c \in ordinary
  /\ BetweenDamage =>
       /\ firstStrike => \A c \in ordinary : assigned[c] = {}
       /\ \A c \in Fighting \cap fought :
            assigned[c] = {} => firstStrike /\ c \in ordinary
  /\ AfterDamage => \A c \in Fighting \cap fought : assigned[c] # {}

IInv ==
  /\ TypeOK
  /\ CallsOfSteps
  /\ RolesAgree
  /\ Roster
  /\ DefendersBlock
  /\ BlockOrder
  /\ HitsAreAllowed
  /\ DamageSteps
  /\ DamageDealt

-----------------------------------------------------------------------------
(* Types.                                                                  *)

(* The part of TypeOK that the cards and the roles of creatures are.       *)
CardsTyped ==
  /\ inGame \in SUBSET Seats
  /\ control \in [Creatures -> Seats]
  /\ form \in [Creatures -> {"coming", "creature", "other", "gone"}]
  /\ strike \in [Creatures -> StrikeAbilities]
  /\ standing \in SUBSET Walkers
  /\ attackers \in [Creatures -> Recipients \cup {None}]
  /\ blockers \in [Creatures -> SUBSET Creatures]
  /\ attacking \in [Creatures -> Recipients \cup {None}]
  /\ blocking \in [Creatures -> Creatures \cup {None}]
  /\ blocked \in SUBSET Creatures

OthersTyped ==
  /\ step \in Steps /\ todo \in Calls
  /\ decision \in Seats \cup {None}
  /\ decision = None <=> todo \notin {"attack", "block"}
  /\ {wasBlocked, ordinary, fought} \subseteq SUBSET Creatures
  /\ {hadAttacker, initialized, firstStrike} \subseteq BOOLEAN
  /\ cursor \in Nat /\ damageStep \in {0, 1} /\ events \in Nat
  /\ {pending, asked} \subseteq SUBSET Seats
  /\ hits \subseteq Creatures \X (Creatures \cup Recipients)
  /\ assigned \in [Creatures -> SUBSET {0, 1}]

LEMMA TypeParts == TypeOK <=> CardsTyped /\ OthersTyped
  BY DEF TypeOK, CardsTyped, OthersTyped

LEMMA InitTypes == Init => TypeOK
<1> SUFFICES ASSUME Init PROVE TypeOK
  OBVIOUS
<1>1. CardsTyped
  BY CombatAssumption DEF Init, NoCombat, CardsTyped
<1>2. OthersTyped
  BY CombatAssumption DEF Init, NoCombat, OthersTyped, Steps, Calls
<1> QED
  BY <1>1, <1>2, TypeParts

LEMMA FalloutTypes ==
  ASSUME TypeOK,
         NEW dead \in SUBSET Creatures, NEW changed \in SUBSET Creatures,
         NEW removed \in SUBSET Creatures, NEW losers \in SUBSET Seats,
         Fallout(dead, changed, removed, losers),
         strike' = strike, standing' \in SUBSET Walkers
  PROVE  CardsTyped'
  BY CombatAssumption
  DEF TypeOK, CardsTyped, Fallout, RemoveFromCombat

(* What cards do in a round of priority.                                   *)
CardsAct ==
  \/ \E c \in Creatures :
       \/ Die(c) \/ StopBeingCreature(c) \/ BecomeCreatureAgain(c)
       \/ LeaveCombat(c)
       \/ \E seat \in Seats : ChangeControl(c, seat)
       \/ \E ability \in StrikeAbilities : ChangeStrike(c, ability)
       \/ \E r \in Recipients : TokenAttacks(c, r)
  \/ \E w \in Walkers : RecipientGoes(w)
  \/ \E seat \in Seats : Lose(seat)

LEMMA CardsInWindow == ASSUME CardsAct PROVE InWindow
  BY DEF CardsAct, Die, StopBeingCreature, BecomeCreatureAgain, LeaveCombat,
         ChangeControl, ChangeStrike, TokenAttacks, RecipientGoes, Lose

LEMMA CardTypes == ASSUME TypeOK, CardsAct PROVE TypeOK'
<1>1. OthersTyped'
  <2>1. InWindow
    BY CardsInWindow
  <2>2. OthersTyped
    BY TypeParts
  <2> QED
    BY <2>1, <2>2 DEF OthersTyped, InWindow, blockVars, damageVars
<1>2. ASSUME NEW c \in Creatures, Die(c) PROVE CardsTyped'
  <2>1. Fallout({c}, {}, {}, {}) /\ strike' = strike /\ standing' = standing
    BY <1>2 DEF Die
  <2> QED BY <2>1, FalloutTypes DEF TypeOK
<1>3. ASSUME NEW c \in Creatures, StopBeingCreature(c) PROVE CardsTyped'
  <2>1. Fallout({}, {c}, {}, {}) /\ strike' = strike /\ standing' = standing
    BY <1>3 DEF StopBeingCreature
  <2> QED BY <2>1, FalloutTypes DEF TypeOK
<1>4. ASSUME NEW c \in Creatures, LeaveCombat(c) PROVE CardsTyped'
  <2>1. Fallout({}, {}, {c}, {}) /\ strike' = strike /\ standing' = standing
    BY <1>4 DEF LeaveCombat
  <2> QED BY <2>1, FalloutTypes DEF TypeOK
<1>5. ASSUME NEW seat \in Seats, Lose(seat) PROVE CardsTyped'
  <2>1. /\ Fallout({}, {}, {}, {seat}) /\ strike' = strike
        /\ standing' \in SUBSET standing
    BY <1>5 DEF Lose
  <2> QED BY <2>1, FalloutTypes DEF TypeOK
<1>6. ASSUME NEW c \in Creatures, BecomeCreatureAgain(c) PROVE CardsTyped'
  BY <1>6 DEF BecomeCreatureAgain, TypeOK, CardsTyped, roleVars
<1>7. ASSUME NEW c \in Creatures, NEW seat \in Seats, ChangeControl(c, seat)
      PROVE CardsTyped'
  BY <1>7 DEF ChangeControl, RemoveFromCombat, TypeOK, CardsTyped
<1>8. ASSUME NEW c \in Creatures, NEW ability \in StrikeAbilities,
             ChangeStrike(c, ability)
      PROVE CardsTyped'
  BY <1>8 DEF ChangeStrike, TypeOK, CardsTyped, roleVars
<1>9. ASSUME NEW c \in Creatures, NEW r \in Recipients, TokenAttacks(c, r)
      PROVE CardsTyped'
  BY <1>9 DEF TokenAttacks, TypeOK, CardsTyped
<1>10. ASSUME NEW w \in Walkers, RecipientGoes(w) PROVE CardsTyped'
  BY <1>10 DEF RecipientGoes, TypeOK, CardsTyped, roleVars
<1> QED
  BY <1>1, <1>2, <1>3, <1>4, <1>5, <1>6, <1>7, <1>8, <1>9, <1>10, TypeParts
  DEF CardsAct, TypeOK, CardsTyped, OthersTyped

(* The calls that change neither cards nor roles.                          *)
LEMMA QuietTypes ==
  ASSUME TypeOK, UNCHANGED <<cardVars, roleVars>>, OthersTyped'
  PROVE  TypeOK'
<1>1. CardsTyped'
  BY TypeParts DEF CardsTyped, cardVars, roleVars
<1> QED
  BY <1>1 DEF TypeOK, CardsTyped, OthersTyped

LEMMA SeatsAreNumbers == Seats \subseteq Nat /\ Active \in Seats
  BY SeatsAssumption DEF Seats, Active

(* What a source may damage is a creature or a recipient.                  *)
LEMMA TargetTypes ==
  ASSUME TypeOK, NEW c \in Creatures
  PROVE  Targets(c) \subseteq Creatures \cup Recipients
<1>1. CASE c \in Attackers
  <2>1. attackers[c] \in Recipients
    BY <1>1 DEF Attackers, TypeOK
  <2> QED BY <1>1, <2>1 DEF Targets, TypeOK
<1>2. CASE c \notin Attackers
  BY <1>2 DEF Targets, Attackers
<1> QED BY <1>1, <1>2

LEMMA DeclareTypes == ASSUME TypeOK, Declare PROVE TypeOK'
<1> USE SeatsAreNumbers
<1>0. OthersTyped /\ CardsTyped
  BY TypeParts
<1>1. CASE EnterDeclareAttackers
  <2>1. OthersTyped'
    BY <1>0, <1>1, CombatAssumption
    DEF EnterDeclareAttackers, OthersTyped, blockVars, damageVars, Calls
  <2> QED BY <1>1, <2>1, QuietTypes DEF EnterDeclareAttackers
<1>2. CASE DeclareAttackers
  <2>1. OthersTyped'
    BY <1>0, <1>2
    DEF DeclareAttackers, OthersTyped, blockVars, damageVars, Calls
  <2>2. attackers' \in [Creatures -> Recipients \cup {None}]
    BY <1>2 DEF DeclareAttackers
  <2>3. form' \in [Creatures -> {"coming", "creature", "other", "gone"}]
    BY <1>0, <1>2 DEF DeclareAttackers, CardsTyped
  <2>4. CardsTyped'
    BY <1>0, <1>2, <2>2, <2>3 DEF DeclareAttackers, CardsTyped
  <2> QED BY <2>1, <2>4 DEF TypeOK, CardsTyped, OthersTyped
<1>3. CASE EnterDeclareBlockers
  <2>1. OthersTyped'
    BY <1>0, <1>3 DEF EnterDeclareBlockers, OthersTyped, damageVars, Calls
  <2> QED BY <1>3, <2>1, QuietTypes DEF EnterDeclareBlockers
<1>4. ASSUME NEW seat \in Seats, AskDefender(seat) PROVE TypeOK'
  <2>1. OthersTyped'
    BY <1>0, <1>4, CombatAssumption
    DEF AskDefender, OthersTyped, blockVars, damageVars, Calls
  <2> QED BY <1>4, <2>1, QuietTypes DEF AskDefender
<1>5. ASSUME NEW seat \in Seats, SkipDefender(seat) PROVE TypeOK'
  <2>1. OthersTyped'
    BY <1>0, <1>5 DEF SkipDefender, OthersTyped, damageVars, Calls
  <2> QED BY <1>5, <2>1, QuietTypes DEF SkipDefender
<1>6. CASE NoMoreDefenders
  <2>1. OthersTyped'
    BY <1>0, <1>6
    DEF NoMoreDefenders, OthersTyped, blockVars, damageVars, Calls
  <2> QED BY <1>6, <2>1, QuietTypes DEF NoMoreDefenders
<1>7. CASE DeclareBlockers
  <2>0. PICK chosen \in SUBSET CreaturesOf(decision) :
          \E choice \in [chosen -> AttackersOf(decision)],
             spent \in SUBSET chosen : Block(chosen, choice, spent)
    BY <1>7 DEF DeclareBlockers
  <2>1. PICK choice \in [chosen -> AttackersOf(decision)],
             spent \in SUBSET chosen : Block(chosen, choice, spent)
    BY <2>0
  <2>2. \A c \in chosen : choice[c] \in Creatures
    BY DEF AttackersOf, Attackers, CreaturesOf
  <2>3. decision \in Seats
    BY <1>0, <1>7 DEF DeclareBlockers, OthersTyped
  <2>4. OthersTyped'
    BY <1>0, <1>7, <2>1, <2>2, <2>3
    DEF DeclareBlockers, Block, OthersTyped, damageVars, Calls
  <2>5. CardsTyped'
    BY <1>0, <1>7, <2>1, <2>2
    DEF DeclareBlockers, Block, CreaturesOf, CardsTyped
  <2> QED BY <2>4, <2>5 DEF TypeOK, CardsTyped, OthersTyped
<1> QED
  BY <1>1, <1>2, <1>3, <1>4, <1>5, <1>6, <1>7 DEF Declare

LEMMA FightingTypes == ASSUME TypeOK PROVE Fighting \subseteq Creatures
<1>1. \A a \in Attackers : a \in Creatures /\ blockers[a] \subseteq Creatures
  BY DEF Attackers, TypeOK
<1> QED
  BY <1>1 DEF Fighting

LEMMA DamageTypes == ASSUME TypeOK, Damage PROVE TypeOK'
<1>0. OthersTyped /\ CardsTyped
  BY TypeParts
<1>1. CASE EnterDamage
  <2>0. Sources' \subseteq Creatures
    <3>1. Fighting' = Fighting
      BY <1>1 DEF EnterDamage, Fighting, Attackers, roleVars
    <3> QED BY <3>1, FightingTypes DEF Sources
  <2>1. pending' \subseteq Seats
    BY <1>0, <1>1, <2>0 DEF EnterDamage, CardsTyped
  <2>2. /\ firstStrike' \in BOOLEAN /\ ordinary' \in SUBSET Creatures
        /\ fought' \in SUBSET Creatures
    <3>1. {c \in Combatants : strike[c] = "none"} \in SUBSET Creatures
      <4>1. \A a \in Creatures : blockers[a] \subseteq Creatures
        BY <1>0 DEF CardsTyped
      <4> QED BY <4>1 DEF Combatants, Attackers
    <3>2. CASE initialized
      BY <1>0, <1>1, <3>2 DEF EnterDamage, OthersTyped
    <3>3. CASE ~initialized
      BY <1>1, <3>1, <3>3, FightingTypes DEF EnterDamage
    <3> QED BY <3>2, <3>3
  <2>3. OthersTyped'
    BY <1>0, <1>1, <2>1, <2>2 DEF EnterDamage, OthersTyped, blockVars, Calls
  <2> QED BY <1>1, <2>3, QuietTypes DEF EnterDamage
<1>2. ASSUME NEW seat \in Seats, Announce(seat) PROVE TypeOK'
  <2>1. \A c \in SourcesOf(seat) :
          {c} \X Targets(c) \subseteq Creatures \X (Creatures \cup Recipients)
    <3>1. SourcesOf(seat) \subseteq Creatures
      BY <1>0 DEF SourcesOf, Sources, Fighting, Attackers, CardsTyped
    <3> QED BY <3>1, TargetTypes
  <2>2. hits' \subseteq Creatures \X (Creatures \cup Recipients)
    <3>1. PICK chosen \in SUBSET UNION {{c} \X Targets(c) :
                                          c \in SourcesOf(seat)} :
            hits' = hits \cup chosen
      BY <1>2 DEF Announce
    <3> QED BY <1>0, <2>1, <3>1 DEF OthersTyped
  <2>3. OthersTyped'
    BY <1>0, <1>2, <2>2 DEF Announce, OthersTyped, blockVars, Calls
  <2> QED BY <1>2, <2>3, QuietTypes DEF Announce
<1>3. CASE ApplyDamage
  <2>1. CardsTyped'
    <3>1. PICK dead \in SUBSET (Hit \cap Creatures),
               regenerated \in SUBSET (Hit \cap Creatures),
               losers \in SUBSET (Hit \cap Seats),
               left \in SUBSET (Hit \cap Walkers) :
            /\ Fallout(dead, {}, regenerated, losers)
            /\ standing' = {w \in standing \ left : Protector[w] \notin losers}
      BY <1>3 DEF ApplyDamage
    <3>2. standing' \in SUBSET Walkers /\ strike' = strike
      BY <1>0, <1>3, <3>1 DEF ApplyDamage, CardsTyped
    <3> QED BY <3>1, <3>2, FalloutTypes
  <2>2. OthersTyped'
    BY <1>0, <1>3 DEF ApplyDamage, OthersTyped, blockVars, Calls
  <2> QED BY <2>1, <2>2 DEF TypeOK, CardsTyped, OthersTyped
<1> QED
  BY <1>1, <1>2, <1>3 DEF Damage

LEMMA SteeringTypes == ASSUME TypeOK, Steering \/ CloseWindow PROVE TypeOK'
<1>0. OthersTyped /\ CardsTyped
  BY TypeParts
<1>1. CASE BeginCombat
  <2>1. CardsTyped'
    BY <1>0, <1>1 DEF BeginCombat, ResetCombat, CardsTyped, cardVars
  <2>2. OthersTyped'
    BY <1>0, <1>1 DEF BeginCombat, ResetCombat, OthersTyped, Calls
  <2> QED BY <2>1, <2>2 DEF TypeOK, CardsTyped, OthersTyped
<1>2. CASE EnterEndCombat \/ AdvanceToEnd \/ CloseWindow \/ NextCombat
  <2>1. OthersTyped'
    BY <1>0, <1>2
    DEF EnterEndCombat, AdvanceToEnd, CloseWindow, NextCombat, OthersTyped,
        Calls, Steps, NextStep, blockVars, damageVars
  <2> QED
    BY <1>2, <2>1, QuietTypes
    DEF EnterEndCombat, AdvanceToEnd, CloseWindow, NextCombat
<1>3. CASE AdvanceToSecondDamage
  <2>1. OthersTyped'
    BY <1>0, <1>3 DEF AdvanceToSecondDamage, OthersTyped, Calls, blockVars
  <2> QED BY <1>3, <2>1, QuietTypes DEF AdvanceToSecondDamage
<1>4. CASE Advance
  <2>1. OthersTyped'
    BY <1>0, <1>4
    DEF Advance, OthersTyped, Calls, Steps, NextStep, blockVars, damageVars
  <2> QED BY <1>4, <2>1, QuietTypes DEF Advance
<1>5. CASE FinishCombat
  <2>1. CardsTyped'
    BY <1>0, <1>5 DEF FinishCombat, ResetCombat, CardsTyped, cardVars
  <2>2. OthersTyped'
    BY <1>0, <1>5
    DEF FinishCombat, ResetCombat, OthersTyped, Calls, Steps, NextStep
  <2> QED BY <2>1, <2>2 DEF TypeOK, CardsTyped, OthersTyped
<1> QED
  BY <1>1, <1>2, <1>3, <1>4, <1>5 DEF Steering

LEMMA NextCases ==
  Next <=> CardsAct \/ Declare \/ Damage \/ Steering \/ CloseWindow
  BY DEF Next, Window, CardsAct

LEMMA StepTypes == ASSUME TypeOK, [Next]_vars PROVE TypeOK'
<1>1. CASE Next
  BY <1>1, NextCases, CardTypes, DeclareTypes, DamageTypes, SteeringTypes
<1>2. CASE UNCHANGED vars
  BY <1>2
  DEF TypeOK, vars, cardVars, roleVars, blockVars, damageVars
<1> QED BY <1>1, <1>2

(* Every variable keeps to its set, for any number of seats, creatures and *)
(* attackable permanents.                                                  *)
THEOREM TypeCorrect == Spec => []TypeOK
  BY InitTypes, StepTypes, PTL DEF Spec

-----------------------------------------------------------------------------
(* Who attacks and who blocks.                                             *)

RolesInv == RolesAgree /\ Roster /\ DefendersBlock

(* Objects leave combat; who is still a creature of a seat of the game and *)
(* does not leave stays what it is.                                        *)
Leaving(objects) ==
  /\ RemoveFromCombat(objects)
  /\ inGame' \subseteq inGame
  /\ \A c \in Creatures :
       form'[c] = "coming" => form[c] = "coming" /\ control'[c] = control[c]
  /\ \A c \in Creatures \ objects :
       form[c] = "creature" /\ control[c] \in inGame =>
         /\ form'[c] = "creature" /\ control'[c] = control[c]
         /\ control[c] \in inGame'

LEMMA FalloutIsLeaving ==
  ASSUME TypeOK,
         NEW dead \in SUBSET Creatures, NEW changed \in SUBSET Creatures,
         NEW removed \in SUBSET Creatures, NEW losers \in SUBSET Seats,
         Fallout(dead, changed, removed, losers)
  PROVE  \E objects \in SUBSET Creatures : Leaving(objects)
<1> DEFINE objects == dead \cup changed \cup removed \cup OwnedBy(losers)
                        \cup BorrowedBy(losers)
<1>1. objects \in SUBSET Creatures
  BY DEF OwnedBy, BorrowedBy
<1>2. RemoveFromCombat(objects) /\ inGame' \subseteq inGame
  BY DEF Fallout
<1>3. ASSUME NEW c \in Creatures, form'[c] = "coming"
      PROVE  form[c] = "coming" /\ control'[c] = control[c]
  BY <1>3 DEF Fallout, BorrowedBy, OnBattlefield
<1>4. ASSUME NEW c \in Creatures \ objects, form[c] = "creature",
             control[c] \in inGame
      PROVE  /\ form'[c] = "creature" /\ control'[c] = control[c]
             /\ control[c] \in inGame'
  <2>1. c \notin dead /\ c \notin changed /\ c \notin OwnedBy(losers)
        /\ c \notin BorrowedBy(losers)
    BY <1>4
  <2>2. control[c] \notin losers
    BY <1>4, <2>1 DEF OwnedBy, BorrowedBy, OnBattlefield
  <2> HIDE DEF objects
  <2> QED BY <1>4, <2>1, <2>2 DEF Fallout
<1> HIDE DEF objects
<1> QED BY <1>1, <1>2, <1>3, <1>4 DEF Leaving

LEMMA NothingLeaves ==
  ASSUME TypeOK, UNCHANGED roleVars, UNCHANGED <<inGame, control>>,
         \A c \in Creatures : form[c] \in {"creature", "gone"} =>
                                form'[c] = form[c],
         \A c \in Creatures : form'[c] = "coming" => form[c] = "coming"
  PROVE  \E objects \in SUBSET Creatures : Leaving(objects)
<1>1. RemoveFromCombat({})
  BY DEF RemoveFromCombat, roleVars, TypeOK
<1>2. Leaving({})
  BY <1>1 DEF Leaving
<1> QED BY <1>2

(* Whatever cards do, objects leave combat or a token joins it.            *)
LEMMA CardsLeaveOrJoin ==
  ASSUME TypeOK, CardsAct
  PROVE  \/ \E objects \in SUBSET Creatures : Leaving(objects)
         \/ \E c \in Creatures, r \in Recipients : TokenAttacks(c, r)
<1> DEFINE Goal == \E objects \in SUBSET Creatures : Leaving(objects)
<1>1. ASSUME NEW c \in Creatures, Die(c) PROVE Goal
  BY <1>1, FalloutIsLeaving DEF Die
<1>2. ASSUME NEW c \in Creatures, StopBeingCreature(c) PROVE Goal
  BY <1>2, FalloutIsLeaving DEF StopBeingCreature
<1>3. ASSUME NEW c \in Creatures, LeaveCombat(c) PROVE Goal
  BY <1>3, FalloutIsLeaving DEF LeaveCombat
<1>4. ASSUME NEW seat \in Seats, Lose(seat) PROVE Goal
  BY <1>4, FalloutIsLeaving DEF Lose
<1>5. ASSUME NEW c \in Creatures, BecomeCreatureAgain(c) PROVE Goal
  <2>1. \A x \in Creatures : form'[x] = IF x = c THEN "creature" ELSE form[x]
    BY <1>5 DEF BecomeCreatureAgain, TypeOK
  <2> QED
    BY <1>5, <2>1, NothingLeaves DEF BecomeCreatureAgain
<1>6. ASSUME NEW c \in Creatures, NEW seat \in Seats, ChangeControl(c, seat)
      PROVE  Goal
  <2>1. \A x \in Creatures \ {c} : control'[x] = control[x]
    BY <1>6 DEF ChangeControl, TypeOK
  <2>2. Leaving({c})
    BY <1>6, <2>1 DEF ChangeControl, Leaving, OnBattlefield
  <2> QED BY <2>2
<1>7. ASSUME NEW c \in Creatures, NEW ability \in StrikeAbilities,
             ChangeStrike(c, ability)
      PROVE  Goal
  BY <1>7, NothingLeaves DEF ChangeStrike
<1>8. ASSUME NEW w \in Walkers, RecipientGoes(w) PROVE Goal
  BY <1>8, NothingLeaves DEF RecipientGoes
<1> QED
  BY <1>1, <1>2, <1>3, <1>4, <1>5, <1>6, <1>7, <1>8 DEF CardsAct

LEMMA LeavingShrinks ==
  ASSUME TypeOK, NEW objects \in SUBSET Creatures, RemoveFromCombat(objects)
  PROVE  /\ Attackers' \subseteq Attackers \ objects
         /\ \A a \in Attackers' : attackers'[a] = attackers[a]
         /\ \A a \in Creatures : blockers'[a] = blockers[a] \ objects
         /\ Fighting' \subseteq Fighting
<1>1. Attackers' \subseteq Attackers \ objects
      /\ \A a \in Attackers' : attackers'[a] = attackers[a]
  BY DEF RemoveFromCombat, Attackers
<1>2. \A a \in Creatures : blockers'[a] = blockers[a] \ objects
  BY DEF RemoveFromCombat
<1>3. Fighting' \subseteq Fighting
  BY <1>1, <1>2 DEF Fighting, Attackers
<1> QED BY <1>1, <1>2, <1>3

LEMMA LeavingKeepsRoles ==
  ASSUME TypeOK, RolesInv, NEW objects \in SUBSET Creatures, Leaving(objects),
         step' = step, BeforeBlocks' => BeforeBlocks
  PROVE  RolesInv'
<1>1. RolesAgree'
  BY CombatAssumption
  DEF RolesInv, RolesAgree, Leaving, RemoveFromCombat, TypeOK
<1>2. RemoveFromCombat(objects)
  BY DEF Leaving
<1>3. Roster'
  <2>1. ASSUME NEW a \in Attackers'
        PROVE  /\ attackers'[a] \in Opponents \cup Walkers
               /\ control'[a] = Active /\ form'[a] = "creature"
               /\ Active \in inGame'
    BY <1>2, <2>1, LeavingShrinks DEF RolesInv, Roster, Leaving, Attackers
  <2>2. ASSUME NEW a \in Creatures, NEW b \in blockers'[a]
        PROVE  form'[b] = "creature" /\ control'[b] \in inGame' \ {Active}
    <3>1. b \in blockers[a] \ objects /\ b \in Creatures
      BY <1>2, <2>2, LeavingShrinks DEF TypeOK
    <3> QED BY <3>1 DEF RolesInv, Roster, Leaving
  <2>3. blocked' = blocked
    BY <1>2 DEF RemoveFromCombat
  <2>4. \A a \in blocked' : form'[a] # "coming"
    BY <2>3 DEF RolesInv, Roster, Leaving, TypeOK
  <2>5. \A a \in Creatures : blockers'[a] # {} => a \in blocked'
    BY <1>2, <2>3, LeavingShrinks DEF RolesInv, Roster
  <2>6. BeforeBlocks' => blocked' = {}
    BY <2>3 DEF RolesInv, Roster
  <2>7. step' \in {"postcombat_main", "beginning_combat"} => Attackers' = {}
    BY <1>2, LeavingShrinks DEF RolesInv, Roster
  <2>8. \A c \in Creatures : form'[c] = "coming" => control'[c] = Owner[c]
    BY DEF RolesInv, Roster, Leaving
  <2> QED BY <2>1, <2>2, <2>4, <2>5, <2>6, <2>7, <2>8 DEF Roster
<1>4. DefendersBlock'
  <2> SUFFICES ASSUME NEW a \in Attackers', NEW b \in blockers'[a]
               PROVE  control'[b] = DefenderOf(attackers'[a])
    BY DEF DefendersBlock, DefenderOf
  <2>1. a \in Attackers /\ a \in Creatures /\ attackers'[a] = attackers[a]
    BY <1>2, LeavingShrinks DEF Attackers
  <2>2. b \in blockers[a] \ objects /\ b \in Creatures
    BY <1>2, <2>1, LeavingShrinks DEF TypeOK
  <2>3. control'[b] = control[b]
    BY <2>1, <2>2 DEF RolesInv, Roster, Leaving
  <2> QED BY <2>1, <2>2, <2>3 DEF RolesInv, DefendersBlock
<1> QED BY <1>1, <1>3, <1>4 DEF RolesInv

(* A token that comes into the game has had no part in the combat.         *)
LEMMA ComingIsNew ==
  ASSUME TypeOK, RolesInv, NEW c \in Creatures, form[c] = "coming"
  PROVE  /\ c \notin Attackers /\ blockers[c] = {} /\ c \notin blocked
         /\ \A a \in Creatures : c \notin blockers[a]
  BY DEF RolesInv, Roster

LEMMA TokenJoins ==
  ASSUME TypeOK, RolesInv, NEW c \in Creatures, NEW r \in Recipients,
         TokenAttacks(c, r)
  PROVE  Attackers' = Attackers \cup {c} /\ Fighting' = Fighting \cup {c}
<1>1. attackers' = [attackers EXCEPT ![c] = r] /\ blockers' = blockers
      /\ form[c] = "coming" /\ r # None
  BY CombatAssumption DEF TokenAttacks, Recipients
<1>2. Attackers' = Attackers \cup {c}
  BY <1>1 DEF Attackers, TypeOK
<1> QED BY <1>1, <1>2, ComingIsNew DEF Fighting

LEMMA TokenKeepsRoles ==
  ASSUME TypeOK, RolesInv, NEW c \in Creatures, NEW r \in Recipients,
         TokenAttacks(c, r)
  PROVE  RolesInv'
<1>1. /\ UNCHANGED <<inGame, control, blockers, blocked, blocking, step, todo>>
      /\ attackers' = [attackers EXCEPT ![c] = r]
      /\ attacking' = [attacking EXCEPT ![c] = r]
      /\ form' = [form EXCEPT ![c] = "creature"]
      /\ form[c] = "coming" /\ r # None /\ Active \in inGame
      /\ step \in {"declare_attackers", "declare_blockers", "combat_damage"}
  BY CombatAssumption DEF TokenAttacks, InWindow, Recipients
<1>2. r \in Opponents \cup Walkers
  BY DEF TokenAttacks, CanBeAttacked, TypeOK
<1>3. RolesAgree'
  BY <1>1 DEF RolesInv, RolesAgree, TypeOK
<1>4. Roster'
  <2>1. ASSUME NEW a \in Attackers'
        PROVE  /\ attackers'[a] \in Opponents \cup Walkers
               /\ control'[a] = Active /\ form'[a] = "creature"
               /\ Active \in inGame'
    <3>1. control[c] = Active
      BY <1>1 DEF TokenAttacks, RolesInv, Roster
    <3> QED
      BY <1>1, <1>2, <2>1, <3>1 DEF RolesInv, Roster, Attackers, TypeOK
  <2>2. \A a \in Creatures : \A b \in blockers'[a] :
          form'[b] = "creature" /\ control'[b] \in inGame' \ {Active}
    BY <1>1 DEF RolesInv, Roster, TypeOK
  <2>3. \A a \in blocked' : form'[a] # "coming"
    BY <1>1 DEF RolesInv, Roster, TypeOK
  <2>4. (BeforeBlocks' => blocked' = {})
        /\ step' \notin {"postcombat_main", "beginning_combat"}
    BY <1>1 DEF RolesInv, Roster, BeforeBlocks
  <2>5. \A a \in Creatures : blockers'[a] # {} => a \in blocked'
    BY <1>1 DEF RolesInv, Roster
  <2>6. \A x \in Creatures : form'[x] = "coming" => control'[x] = Owner[x]
    BY <1>1 DEF RolesInv, Roster, TypeOK
  <2> QED BY <2>1, <2>2, <2>3, <2>4, <2>5, <2>6 DEF Roster
<1>5. DefendersBlock'
  BY <1>1, ComingIsNew
  DEF RolesInv, DefendersBlock, DefenderOf, Attackers, TypeOK
<1> QED BY <1>3, <1>4, <1>5 DEF RolesInv

LEMMA QuietKeepsRoles ==
  ASSUME RolesInv, UNCHANGED <<cardVars, roleVars>>,
         BeforeBlocks' => BeforeBlocks,
         step' \in {"postcombat_main", "beginning_combat"} =>
           step \in {"postcombat_main", "beginning_combat"}
  PROVE  RolesInv'
<1>1. UNCHANGED Attackers
  BY DEF Attackers, roleVars
<1>2. RolesAgree'
  BY DEF RolesInv, RolesAgree, roleVars
<1>3. Roster'
  BY <1>1 DEF RolesInv, Roster, cardVars, roleVars
<1>4. DefendersBlock'
  BY <1>1 DEF RolesInv, DefendersBlock, DefenderOf, cardVars, roleVars
<1> QED BY <1>2, <1>3, <1>4 DEF RolesInv

(* Before combat and after it nobody has a part in it.                     *)
LEMMA NobodyFights ==
  ASSUME TypeOK, RolesInv,
         BeforeBlocks
  PROVE  \A a \in Creatures : blockers[a] = {} /\ blocking[a] = None
<1>1. \A a \in Creatures : blockers[a] = {}
  BY DEF RolesInv, Roster
<1>2. \A a \in Creatures : blocking[a] = None
  BY <1>1 DEF RolesInv, RolesAgree, TypeOK
<1> QED BY <1>1, <1>2

LEMMA AttackKeepsRoles ==
  ASSUME TypeOK, CallsOfSteps, RolesInv, DeclareAttackers
  PROVE  RolesInv'
<1>0. BeforeBlocks /\ step = "declare_attackers" /\ blocked = {}
  BY DEF DeclareAttackers, CallsOfSteps, BeforeBlocks, RolesInv, Roster
<1>1. \A a \in Creatures : blockers'[a] = {} /\ blocking'[a] = None
  BY <1>0, NobodyFights DEF DeclareAttackers
<1>2. RolesAgree'
  BY <1>0, <1>1, CombatAssumption DEF DeclareAttackers, RolesAgree
<1>3. ASSUME NEW a \in Attackers'
      PROVE  /\ attackers'[a] \in Opponents \cup Walkers
             /\ control'[a] = Active /\ form'[a] = "creature"
             /\ Active \in inGame'
  <2>0. PICK chosen \in SUBSET CreaturesOf(Active) :
          \E target \in [chosen -> {r \in Recipients : CanBeAttacked(r)}],
             spent \in SUBSET chosen :
            /\ attackers' = [c \in Creatures |->
                               IF c \in chosen \ spent THEN target[c] ELSE None]
            /\ form' = [c \in Creatures |->
                          IF c \in spent THEN "gone" ELSE form[c]]
    BY DEF DeclareAttackers
  <2>1. PICK target \in [chosen -> {r \in Recipients : CanBeAttacked(r)}],
             spent \in SUBSET chosen :
            /\ attackers' = [c \in Creatures |->
                               IF c \in chosen \ spent THEN target[c] ELSE None]
            /\ form' = [c \in Creatures |->
                          IF c \in spent THEN "gone" ELSE form[c]]
    BY <2>0
  <2>2. a \in chosen \ spent /\ attackers'[a] = target[a]
    BY <1>3, <2>1 DEF Attackers
  <2>3. CanBeAttacked(target[a])
    BY <2>2
  <2>4. target[a] \in Opponents \cup Walkers
    BY <2>3 DEF CanBeAttacked, TypeOK
  <2>5. control[a] = Active /\ form[a] = "creature" /\ a \in Creatures
    BY <2>2 DEF CreaturesOf
  <2> QED
    BY <2>1, <2>2, <2>4, <2>5 DEF DeclareAttackers, CallsOfSteps
<1>4. Roster'
  <2>1. \A c \in Creatures : form'[c] = "coming" => form[c] = "coming"
    BY DEF DeclareAttackers
  <2>2. \A c \in Creatures : form'[c] = "coming" => control'[c] = Owner[c]
    BY <2>1 DEF RolesInv, Roster, DeclareAttackers
  <2> QED BY <1>0, <1>1, <1>3, <2>2 DEF Roster, DeclareAttackers
<1>5. DefendersBlock'
  BY <1>1 DEF DefendersBlock, Attackers
<1> QED BY <1>2, <1>4, <1>5 DEF RolesInv

-----------------------------------------------------------------------------
(* The order of the defenders.                                             *)

LEMMA DefendersAreSeats ==
  ASSUME TypeOK, RolesInv
  PROVE  /\ AttackedDefenders \subseteq inGame \cap Opponents
         /\ IsFiniteSet(AttackedDefenders)
<1>1. \A c \in Attackers : DefenderOf(attackers[c]) \in Opponents
  BY CombatAssumption DEF RolesInv, Roster, DefenderOf, Opponents
<1>2. AttackedDefenders \subseteq inGame \cap Opponents
  BY <1>1 DEF AttackedDefenders
<1>3. IsFiniteSet(Seats)
  BY SeatsAssumption, FS_Interval DEF Seats
<1>4. IsFiniteSet(AttackedDefenders)
  BY <1>2, <1>3, FS_Subset DEF Opponents
<1> QED BY <1>2, <1>4

LEMMA RankType ==
  ASSUME TypeOK, RolesInv, NEW seat \in Seats
  PROVE  /\ Rank(seat) \in Nat
         /\ IsFiniteSet({s \in AttackedDefenders : s < seat})
<1>1. IsFiniteSet({s \in AttackedDefenders : s < seat})
  BY DefendersAreSeats, FS_Subset
<1> QED BY <1>1, FS_CardinalityType DEF Rank

(* A later defender has a higher rank, and every rank is below the number  *)
(* of defenders.                                                           *)
LEMMA RankGrows ==
  ASSUME TypeOK, RolesInv,
         NEW seat \in AttackedDefenders, NEW other \in AttackedDefenders,
         seat < other
  PROVE  Rank(seat) < Rank(other)
<1> DEFINE before(t) == {s \in AttackedDefenders : s < t}
<1>1. seat \in Nat /\ other \in Nat /\ AttackedDefenders \subseteq Nat
  BY DefendersAreSeats, SeatsAreNumbers DEF Opponents
<1>2. before(seat) \subseteq before(other) /\ before(seat) # before(other)
  <2>1. ASSUME NEW s \in AttackedDefenders, s < seat PROVE s < other
    <3>1. s \in Nat
      BY <1>1
    <3> QED BY <1>1, <2>1, <3>1
  <2>2. seat \in before(other) /\ seat \notin before(seat)
    BY <1>1
  <2> QED BY <2>1, <2>2
<1>3. IsFiniteSet(before(other))
  BY RankType, DefendersAreSeats DEF Opponents
<1>4. /\ Cardinality(before(seat)) <= Cardinality(before(other))
      /\ Cardinality(before(seat)) = Cardinality(before(other)) =>
           before(seat) = before(other)
  BY <1>2, <1>3, FS_Subset
<1>5. Rank(seat) \in Nat /\ Rank(other) \in Nat
  BY RankType, DefendersAreSeats DEF Opponents
<1> QED BY <1>2, <1>4, <1>5 DEF Rank

LEMMA RankBelowAll ==
  ASSUME TypeOK, RolesInv, NEW seat \in AttackedDefenders
  PROVE  Rank(seat) < Cardinality(AttackedDefenders)
<1> DEFINE before == {s \in AttackedDefenders : s < seat}
<1>1. seat \in Nat
  BY DefendersAreSeats, SeatsAreNumbers DEF Opponents
<1>2. before \subseteq AttackedDefenders /\ before # AttackedDefenders
  BY <1>1
<1>3. /\ Cardinality(before) <= Cardinality(AttackedDefenders)
      /\ Cardinality(before) = Cardinality(AttackedDefenders) =>
           before = AttackedDefenders
  BY <1>2, DefendersAreSeats, FS_Subset
<1>4. Rank(seat) \in Nat /\ Cardinality(AttackedDefenders) \in Nat
  BY RankType, DefendersAreSeats, FS_CardinalityType DEF Opponents
<1> QED BY <1>2, <1>3, <1>4 DEF Rank

(* The defender at the cursor has not been asked, all before it have, and  *)
(* with it the cursor is one further.                                      *)
LEMMA NextDefender ==
  ASSUME TypeOK, RolesInv, BlockOrder, todo \in {"next_defender", "block"},
         NEW seat \in Seats, IsNextDefender(seat)
  PROVE  /\ seat \in AttackedDefenders /\ seat \notin asked
         /\ \A other \in AttackedDefenders : other < seat => other \in asked
         /\ asked \cup {seat} = {s \in AttackedDefenders : Rank(s) < cursor + 1}
<1>1. seat \in AttackedDefenders /\ Rank(seat) = cursor
  BY DEF IsNextDefender, Rank
<1>2. asked = {s \in AttackedDefenders : Rank(s) < cursor} /\ cursor \in Nat
  BY DEF BlockOrder, TypeOK
<1>3. \A s \in AttackedDefenders : Rank(s) \in Nat /\ s \in Nat
  BY RankType, DefendersAreSeats, SeatsAreNumbers DEF Opponents
<1>4. seat \notin asked
  BY <1>1, <1>2
<1>5. \A other \in AttackedDefenders : other < seat => other \in asked
  BY <1>1, <1>2, <1>3, RankGrows
<1>6. \A s \in AttackedDefenders : s # seat => Rank(s) # cursor
  <2> SUFFICES ASSUME NEW s \in AttackedDefenders, s # seat
               PROVE  Rank(s) # Rank(seat)
    BY <1>1
  <2>1. s < seat \/ seat < s
    BY <1>1, <1>3
  <2> QED BY <1>1, <1>3, <2>1, RankGrows
<1>7. asked \cup {seat} = {s \in AttackedDefenders : Rank(s) < cursor + 1}
  <2>1. \A s \in AttackedDefenders :
          Rank(s) < cursor + 1 <=> Rank(s) < cursor \/ s = seat
    BY <1>1, <1>2, <1>3, <1>6
  <2> QED BY <1>1, <1>2, <2>1
<1> QED BY <1>1, <1>4, <1>5, <1>7

(* The defenders and their ranks are what they were while the roster of    *)
(* attackers and the seats of the game are.                                *)
LEMMA SameDefenders ==
  ASSUME UNCHANGED <<inGame, attackers>>
  PROVE  /\ AttackedDefenders' = AttackedDefenders
         /\ \A s : Rank(s)' = Rank(s)
         /\ Attackers' = Attackers
<1>1. Attackers' = Attackers
  BY DEF Attackers
<1>2. AttackedDefenders' = AttackedDefenders
  BY <1>1 DEF AttackedDefenders, DefenderOf
<1> QED BY <1>1, <1>2 DEF Rank

LEMMA BlockKeepsRoles ==
  ASSUME TypeOK, CallsOfSteps, RolesInv, BlockOrder, DeclareBlockers
  PROVE  /\ RolesInv'
         /\ decision \in Seats /\ IsNextDefender(decision)
         /\ \A a \in Creatures : \A b \in blockers'[a] :
              control'[b] \in asked \cup {decision}
         /\ \E met \in SUBSET Creatures :
              blocked' = blocked \cup met /\ wasBlocked' = wasBlocked \cup met
         /\ \A c \in Creatures : form'[c] = "coming" => form[c] = "coming"
<1>1. PICK chosen \in SUBSET CreaturesOf(decision) :
        \E choice \in [chosen -> AttackersOf(decision)],
           spent \in SUBSET chosen : Block(chosen, choice, spent)
  BY DEF DeclareBlockers
<1>2. PICK choice \in [chosen -> AttackersOf(decision)],
           spent \in SUBSET chosen : Block(chosen, choice, spent)
  BY <1>1
<1>3. /\ todo = "block" /\ step = "declare_blockers" /\ step' = step
      /\ UNCHANGED <<inGame, control, attackers, attacking>>
      /\ todo' = "next_defender"
  BY DEF DeclareBlockers, CallsOfSteps
<1>4. decision \in Seats /\ IsNextDefender(decision)
  BY <1>3, CombatAssumption DEF TypeOK, BlockOrder
<1>5. decision \in inGame \ {Active} /\ decision \notin asked
  BY <1>3, <1>4, NextDefender, DefendersAreSeats DEF Opponents
<1>6. \A a \in Creatures : \A b \in blockers[a] : control[b] # decision
  BY <1>3, <1>5 DEF BlockOrder
<1>7. \A c \in chosen : /\ c \in Creatures /\ control[c] = decision
                        /\ form[c] = "creature" /\ c \notin Attackers
                        /\ choice[c] \in Attackers /\ choice[c] \in Creatures
                        /\ DefenderOf(attackers[choice[c]]) = decision
                        /\ \A a \in Creatures : c \notin blockers[a]
  BY <1>5, <1>6 DEF CreaturesOf, AttackersOf, Attackers, RolesInv, Roster
<1>8. \A a \in Creatures : \A b \in Creatures :
        b \in blockers'[a] <=> \/ b \in blockers[a]
                               \/ b \in chosen \ spent /\ choice[b] = a
  BY <1>2, <1>7 DEF Block, TypeOK
<1>9. \A c \in Creatures : /\ c \in spent => form'[c] = "gone"
                           /\ c \notin spent => form'[c] = form[c]
  BY <1>2 DEF Block
<1>10. \A a \in Creatures : blockers'[a] \subseteq Creatures
  BY <1>2, <1>7 DEF Block, TypeOK
<1>11. Attackers' = Attackers
  BY <1>3 DEF Attackers
<1>12. RolesAgree'
  <2>1. \A c \in Creatures : blocking'[c] = IF c \in spent THEN None
                               ELSE IF c \in chosen THEN choice[c]
                               ELSE blocking[c]
    BY <1>2 DEF Block
  <2>2. \A c, a \in Creatures : blocking'[c] = a <=> c \in blockers'[a]
    BY <1>7, <1>8, <2>1, CombatAssumption DEF RolesInv, RolesAgree
  <2> QED BY <1>3, <2>2 DEF RolesInv, RolesAgree
<1>13. blocked' = blocked \cup {choice[c] : c \in chosen \ spent}
       /\ wasBlocked' = wasBlocked \cup {choice[c] : c \in chosen \ spent}
  BY <1>2 DEF Block
<1>14. Roster'
  <2>1. ASSUME NEW a \in Attackers'
        PROVE  /\ attackers'[a] \in Opponents \cup Walkers
               /\ control'[a] = Active /\ form'[a] = "creature"
               /\ Active \in inGame'
    <3>1. a \in Attackers /\ a \in Creatures /\ a \notin spent
      BY <1>7, <1>11, <2>1 DEF Attackers
    <3> QED BY <1>3, <1>9, <3>1 DEF RolesInv, Roster
  <2>2. ASSUME NEW a \in Creatures, NEW b \in blockers'[a]
        PROVE  form'[b] = "creature" /\ control'[b] \in inGame' \ {Active}
    <3>1. b \in Creatures
      BY <1>10
    <3>2. CASE b \in blockers[a]
      <4>1. b \notin spent
        BY <1>7, <3>2
      <4> QED BY <1>3, <1>9, <3>1, <3>2, <4>1 DEF RolesInv, Roster
    <3>3. CASE b \in chosen \ spent
      BY <1>3, <1>5, <1>7, <1>9, <3>1, <3>3
    <3> QED BY <1>8, <3>1, <3>2, <3>3
  <2>3. \A a \in Creatures : blockers'[a] # {} => a \in blocked'
    BY <1>8, <1>10, <1>13 DEF RolesInv, Roster
  <2>4. \A a \in blocked' : form'[a] # "coming"
    BY <1>7, <1>9, <1>13 DEF RolesInv, Roster, TypeOK
  <2>5. \A c \in Creatures : form'[c] = "coming" => control'[c] = Owner[c]
    BY <1>3, <1>9 DEF RolesInv, Roster
  <2>6. ~BeforeBlocks' /\ step' \notin {"postcombat_main", "beginning_combat"}
    BY <1>3 DEF BeforeBlocks
  <2> QED BY <2>1, <2>2, <2>3, <2>4, <2>5, <2>6 DEF Roster
<1>15. DefendersBlock'
  <2> SUFFICES ASSUME NEW a \in Attackers', NEW b \in blockers'[a]
               PROVE  control'[b] = DefenderOf(attackers'[a])
    BY DEF DefendersBlock, DefenderOf
  <2>1. a \in Creatures /\ a \in Attackers /\ b \in Creatures
    BY <1>10, <1>11 DEF Attackers
  <2> QED BY <1>3, <1>7, <1>8, <2>1 DEF RolesInv, DefendersBlock
<1>16. \A a \in Creatures : \A b \in blockers'[a] :
         control'[b] \in asked \cup {decision}
  BY <1>3, <1>7, <1>8, <1>10 DEF BlockOrder
<1>17. {choice[c] : c \in chosen \ spent} \in SUBSET Creatures
  BY <1>7
<1> QED
  BY <1>4, <1>9, <1>12, <1>13, <1>14, <1>15, <1>16, <1>17 DEF RolesInv

-----------------------------------------------------------------------------
(* The parts of the invariant, step by step.                               *)

LEMMA CallsStep ==
  ASSUME TypeOK, CallsOfSteps, Next PROVE CallsOfSteps'
<1>1. CASE CardsAct
  <2>1. InWindow
    BY <1>1, CardsInWindow
  <2> QED BY <2>1 DEF CallsOfSteps, InWindow
<1>2. CASE Declare
  BY <1>2
  DEF CallsOfSteps, Declare, EnterDeclareAttackers, DeclareAttackers,
      EnterDeclareBlockers, AskDefender, SkipDefender, NoMoreDefenders,
      DeclareBlockers, cardVars
<1>3. CASE Damage
  BY <1>3 DEF CallsOfSteps, Damage, EnterDamage, Announce, ApplyDamage
<1>4. CASE Steering \/ CloseWindow
  <2>1. CASE BeginCombat \/ EnterEndCombat \/ FinishCombat \/ CloseWindow
    BY <2>1
    DEF CallsOfSteps, BeginCombat, EnterEndCombat, FinishCombat, CloseWindow
  <2>2. CASE AdvanceToEnd \/ AdvanceToSecondDamage
    BY <2>2
    DEF CallsOfSteps, AdvanceToEnd, AdvanceToSecondDamage, SecondDamageStep
  <2>3. CASE Advance \/ NextCombat
    BY <2>3 DEF CallsOfSteps, Advance, NextCombat, NextStep, Steps, TypeOK
  <2> QED BY <1>4, <2>1, <2>2, <2>3 DEF Steering
<1> QED BY <1>1, <1>2, <1>3, <1>4, NextCases

(* Nothing goes back before the blocks but the end of the combat.          *)
LEMMA StepsGoOn ==
  ASSUME TypeOK, CallsOfSteps, Next, ~FinishCombat
  PROVE  /\ BeforeBlocks' => BeforeBlocks
         /\ BeforeDamage' => BeforeDamage \/ damageStep = 0
         /\ step' \in {"postcombat_main", "beginning_combat"} =>
              step \in {"postcombat_main", "beginning_combat"}
         /\ ~BetweenCombats' => ~BetweenCombats \/ BeginCombat
         /\ NextCombat => BetweenCombats'
<1> USE DEF BeforeBlocks, BeforeDamage, BetweenCombats
<1>1. CASE CardsAct
  <2>1. InWindow
    BY <1>1, CardsInWindow
  <2>2. todo = "window" /\ todo' = "window" /\ step' = step /\ ~NextCombat
        /\ damageStep' = damageStep
    BY <2>1 DEF InWindow, NextCombat, damageVars
  <2> QED BY <2>2
<1>2. CASE Declare
  <2>1. step' = step /\ todo' # "enter" /\ ~NextCombat
        /\ damageStep' = damageStep
    BY <1>2
    DEF Declare, EnterDeclareAttackers, DeclareAttackers,
        EnterDeclareBlockers, AskDefender, SkipDefender, NoMoreDefenders,
        DeclareBlockers, NextCombat, damageVars
  <2>2. todo = "enter" => step \in {"declare_attackers", "declare_blockers"}
    BY <1>2
    DEF Declare, EnterDeclareAttackers, DeclareAttackers,
        EnterDeclareBlockers, AskDefender, SkipDefender, NoMoreDefenders,
        DeclareBlockers
  <2> QED BY <2>1, <2>2 DEF TypeOK
<1>3. CASE Damage
  BY <1>3
  DEF Damage, EnterDamage, Announce, ApplyDamage, NextCombat, TypeOK,
      CallsOfSteps
<1>4. CASE Steering \/ CloseWindow
  <2>1. BeginCombat \/ EnterEndCombat \/ AdvanceToEnd \/ AdvanceToSecondDamage
        \/ Advance \/ NextCombat \/ CloseWindow
    BY <1>4 DEF Steering
  <2>2. CASE BeginCombat \/ EnterEndCombat \/ CloseWindow
    BY <2>2
    DEF BeginCombat, EnterEndCombat, CloseWindow, NextCombat, ResetCombat,
        TypeOK, damageVars
  <2>3. CASE AdvanceToEnd \/ AdvanceToSecondDamage \/ NextCombat
    BY <2>3
    DEF AdvanceToEnd, AdvanceToSecondDamage, NextCombat, SkipToEnd,
        SecondDamageStep, NextStep, Steps, TypeOK, damageVars
  <2>4. CASE Advance
    BY <2>4
    DEF Advance, NextCombat, NextStep, Steps, TypeOK, damageVars
  <2> QED BY <2>1, <2>2, <2>3, <2>4
<1> QED BY <1>1, <1>2, <1>3, <1>4, NextCases

LEMMA RolesStep ==
  ASSUME TypeOK, CallsOfSteps, RolesInv, BlockOrder, Next
  PROVE  RolesInv'
<1>1. CASE CardsAct
  <2>1. step' = step /\ ~FinishCombat
    BY <1>1, CardsInWindow DEF InWindow, FinishCombat
  <2>2. BeforeBlocks' => BeforeBlocks
    BY <2>1, StepsGoOn
  <2> QED
    BY <1>1, <2>1, <2>2, CardsLeaveOrJoin, LeavingKeepsRoles, TokenKeepsRoles
<1>2. CASE DeclareAttackers
  BY <1>2, AttackKeepsRoles
<1>3. CASE DeclareBlockers
  BY <1>3, BlockKeepsRoles
<1>4. CASE ApplyDamage
  <2>1. step' = step /\ ~FinishCombat
    BY <1>4 DEF ApplyDamage, FinishCombat
  <2>2. BeforeBlocks' => BeforeBlocks
    BY <2>1, StepsGoOn
  <2>3. Hit \cap Creatures \subseteq Creatures
        /\ Hit \cap Seats \subseteq Seats
    OBVIOUS
  <2>4. PICK dead \in SUBSET (Hit \cap Creatures),
             regenerated \in SUBSET (Hit \cap Creatures),
             losers \in SUBSET (Hit \cap Seats) :
          Fallout(dead, {}, regenerated, losers)
    BY <1>4 DEF ApplyDamage
  <2>5. \E objects \in SUBSET Creatures : Leaving(objects)
    BY <2>4, FalloutIsLeaving
  <2> QED BY <2>1, <2>2, <2>5, LeavingKeepsRoles
<1>5. CASE BeginCombat
  <2>1. /\ blocked' = {} /\ Attackers' = {} /\ step = "beginning_combat"
        /\ \A c \in Creatures : attackers'[c] = None /\ blockers'[c] = {}
        /\ UNCHANGED <<cardVars, attacking, blocking, step>>
        /\ attackers' = [c \in Creatures |-> None]
    BY <1>5 DEF BeginCombat, ResetCombat, Attackers
  <2>2. \A c \in Creatures : attacking[c] = None /\ blocking[c] = None
    BY <2>1 DEF RolesInv, RolesAgree
  <2>3. RolesAgree'
    BY <2>1, <2>2, CombatAssumption DEF RolesAgree, TypeOK
  <2>4. Roster'
    BY <2>1 DEF RolesInv, Roster, cardVars
  <2>5. DefendersBlock'
    BY <2>1 DEF DefendersBlock
  <2> QED BY <2>3, <2>4, <2>5 DEF RolesInv
<1>6. CASE FinishCombat
  <2>1. /\ blocked' = {} /\ Attackers' = {}
        /\ \A c \in Creatures : attackers'[c] = None /\ blockers'[c] = {}
        /\ UNCHANGED cardVars
        /\ attackers' = [c \in Creatures |-> None]
        /\ attacking' = [c \in Creatures |-> None]
        /\ blocking' = [c \in Creatures |-> None]
    BY <1>6 DEF FinishCombat, ResetCombat, Attackers
  <2>2. RolesAgree'
    BY <2>1, CombatAssumption DEF RolesAgree
  <2>3. Roster'
    BY <2>1 DEF RolesInv, Roster, cardVars
  <2>4. DefendersBlock'
    BY <2>1 DEF DefendersBlock
  <2> QED BY <2>2, <2>3, <2>4 DEF RolesInv
<1>7. CASE /\ ~CardsAct /\ ~DeclareAttackers /\ ~DeclareBlockers
           /\ ~ApplyDamage /\ ~BeginCombat /\ ~FinishCombat
  <2>1. UNCHANGED <<cardVars, roleVars>>
    BY <1>7, NextCases
    DEF Declare, Damage, Steering, EnterDeclareAttackers,
        EnterDeclareBlockers, AskDefender, SkipDefender, NoMoreDefenders,
        EnterDamage, Announce, EnterEndCombat, AdvanceToEnd,
        AdvanceToSecondDamage, Advance, NextCombat, CloseWindow
  <2> QED BY <1>7, <2>1, StepsGoOn, QuietKeepsRoles
<1> QED BY <1>1, <1>2, <1>3, <1>4, <1>5, <1>6, <1>7

LEMMA BlockOrderStep ==
  ASSUME TypeOK, CallsOfSteps, RolesInv, BlockOrder, Next
  PROVE  BlockOrder'
<1>1. CASE EnterDeclareBlockers
  <2>1. asked = {} /\ asked' = {} /\ ~BeforeBlocks'
    BY <1>1
    DEF EnterDeclareBlockers, BlockOrder, BeforeBlocks, BetweenCombats
  <2>2. \A a \in Creatures : blockers'[a] = {}
    BY <1>1, NobodyFights DEF EnterDeclareBlockers, BeforeBlocks, roleVars
  <2>3. UNCHANGED <<inGame, attackers>>
    BY <1>1 DEF EnterDeclareBlockers, cardVars, roleVars
  <2>4. todo' # "window" => cursor' = 0
    BY <1>1 DEF EnterDeclareBlockers
  <2>5. \A s \in AttackedDefenders : Rank(s) \in Nat
    BY RankType, DefendersAreSeats DEF Opponents
  <2>6. todo' # "window" => {s \in AttackedDefenders' : Rank(s)' < cursor'} = {}
    BY <2>3, <2>4, <2>5, SameDefenders
  <2>7. todo' \in {"window", "next_defender"}
    BY <1>1 DEF EnterDeclareBlockers
  <2> QED BY <2>1, <2>2, <2>6, <2>7 DEF BlockOrder
<1>2. ASSUME NEW seat \in Seats, AskDefender(seat) PROVE BlockOrder'
  <2>1. /\ UNCHANGED <<inGame, attackers, blockers, control, cursor, asked>>
        /\ todo = "next_defender" /\ todo' = "block" /\ decision' = seat
        /\ IsNextDefender(seat) /\ step' = step /\ step = "declare_blockers"
    BY <1>2
    DEF AskDefender, cardVars, roleVars, blockVars, CallsOfSteps
  <2>2. IsNextDefender(decision)'
    BY <2>1, SameDefenders DEF IsNextDefender
  <2>3. asked' = {s \in AttackedDefenders' : Rank(s)' < cursor'}
    BY <2>1, SameDefenders DEF BlockOrder
  <2>4. \A a \in Creatures : \A b \in blockers'[a] : control'[b] \in asked'
    BY <2>1 DEF BlockOrder
  <2> QED BY <2>1, <2>2, <2>3, <2>4 DEF BlockOrder, BeforeBlocks
<1>3. ASSUME NEW seat \in Seats, SkipDefender(seat) PROVE BlockOrder'
  <2>1. /\ UNCHANGED <<inGame, attackers, blockers, control>>
        /\ todo = "next_defender" /\ todo' = todo /\ IsNextDefender(seat)
        /\ cursor' = cursor + 1 /\ asked' = asked \cup {seat}
        /\ step' = step /\ step = "declare_blockers"
    BY <1>3 DEF SkipDefender, cardVars, roleVars, CallsOfSteps
  <2>2. asked' = {s \in AttackedDefenders' : Rank(s)' < cursor'}
    BY <2>1, SameDefenders, NextDefender
  <2>3. \A a \in Creatures : \A b \in blockers'[a] : control'[b] \in asked'
    BY <2>1 DEF BlockOrder
  <2> QED BY <2>1, <2>2, <2>3 DEF BlockOrder, BeforeBlocks
<1>4. CASE DeclareBlockers
  <2>1. /\ UNCHANGED <<inGame, attackers, control>>
        /\ todo = "block" /\ todo' = "next_defender"
        /\ cursor' = cursor + 1 /\ asked' = asked \cup {decision}
        /\ step' = step /\ step = "declare_blockers"
    BY <1>4 DEF DeclareBlockers, CallsOfSteps
  <2>2. decision \in Seats /\ IsNextDefender(decision)
        /\ \A a \in Creatures : \A b \in blockers'[a] : control'[b] \in asked'
    BY <1>4, <2>1, BlockKeepsRoles
  <2>3. asked' = {s \in AttackedDefenders' : Rank(s)' < cursor'}
    BY <2>1, <2>2, SameDefenders, NextDefender
  <2> QED BY <2>1, <2>2, <2>3 DEF BlockOrder, BeforeBlocks
<1>5. CASE BeginCombat
  BY <1>5 DEF BeginCombat, BlockOrder
<1>6. CASE FinishCombat
  BY <1>6
  DEF FinishCombat, BlockOrder, BetweenCombats, NextStep, Steps, TypeOK
<1>7. CASE CardsAct
  <2>1. todo = "window" /\ UNCHANGED <<todo, step, asked>>
    BY <1>7, CardsInWindow DEF InWindow, blockVars
  <2> QED BY <2>1 DEF BlockOrder, BeforeBlocks, BetweenCombats
<1>8. CASE \/ EnterDeclareAttackers \/ DeclareAttackers \/ NoMoreDefenders
           \/ Damage \/ CloseWindow
           \/ EnterEndCombat \/ AdvanceToEnd \/ AdvanceToSecondDamage
           \/ Advance \/ NextCombat
  <2>1. /\ asked' = asked /\ todo' \notin {"next_defender", "block"}
        /\ ~FinishCombat /\ ~BeginCombat
    BY <1>8
    DEF EnterDeclareAttackers, DeclareAttackers, NoMoreDefenders, Damage,
        EnterDamage, Announce, ApplyDamage, CloseWindow, EnterEndCombat,
        AdvanceToEnd, AdvanceToSecondDamage, Advance, NextCombat, blockVars,
        FinishCombat, BeginCombat
  <2> QED BY <2>1, StepsGoOn DEF BlockOrder
<1> QED
  BY <1>1, <1>2, <1>3, <1>4, <1>5, <1>6, <1>7, <1>8, NextCases
  DEF Declare, Steering

LEMMA HitsStep ==
  ASSUME TypeOK, CallsOfSteps, RolesInv, BlockOrder, HitsAreAllowed, Next
  PROVE  HitsAreAllowed'
<1>1. CASE EnterDamage
  BY <1>1 DEF EnterDamage, HitsAreAllowed, roleVars, blockVars, BetweenCombats
<1>2. ASSUME NEW seat \in Seats, Announce(seat) PROVE HitsAreAllowed'
  <2>1. /\ UNCHANGED <<cardVars, roleVars, blockVars, damageStep, firstStrike,
                       ordinary, step, todo>>
        /\ todo = "assign"
    BY <1>2 DEF Announce
  <2>2. /\ Sources' = Sources
        /\ \A c : Targets(c)' = Targets(c)
    BY <2>1
    DEF Sources, Targets, Assigns, Fighting, Attackers, IsThere, cardVars,
        roleVars
  <2>3. PICK chosen \in SUBSET UNION {{c} \X Targets(c) :
                                        c \in SourcesOf(seat)} :
          hits' = hits \cup chosen
    BY <1>2 DEF Announce
  <2>4. \A pair \in chosen : pair[1] \in Sources /\ pair[2] \in Targets(pair[1])
    BY DEF SourcesOf
  <2>5. \A pair \in hits' : pair[1] \in Sources' /\ pair[2] \in Targets(pair[1])'
    BY <2>2, <2>3, <2>4 DEF HitsAreAllowed
  <2> QED
    BY <2>1, <2>5 DEF HitsAreAllowed, BetweenCombats, roleVars, blockVars
<1>3. CASE ApplyDamage
  <2>1. hits' = {} /\ wasBlocked' = wasBlocked /\ step' = step
        /\ step = "combat_damage"
    BY <1>3 DEF ApplyDamage, blockVars, CallsOfSteps
  <2>2. blocked' = blocked
    BY <1>3 DEF ApplyDamage, Fallout, RemoveFromCombat
  <2> QED BY <2>1, <2>2 DEF HitsAreAllowed, BetweenCombats
<1>4. CASE DeclareBlockers
  <2>1. hits' = hits /\ todo # "assign" /\ step = "declare_blockers"
    BY <1>4 DEF DeclareBlockers, damageVars, CallsOfSteps
  <2>2. wasBlocked' \subseteq blocked'
    BY <1>4, <2>1, BlockKeepsRoles DEF HitsAreAllowed, BetweenCombats
  <2> QED BY <2>1, <2>2 DEF HitsAreAllowed
<1>5. CASE BeginCombat
  BY <1>5 DEF BeginCombat, HitsAreAllowed
<1>6. CASE FinishCombat
  BY <1>6
  DEF FinishCombat, HitsAreAllowed, BetweenCombats, NextStep, Steps, TypeOK
<1>7. CASE CardsAct
  <2>1. todo = "window" /\ UNCHANGED <<hits, todo, step, wasBlocked>>
    BY <1>7, CardsInWindow DEF InWindow, blockVars, damageVars
  <2>2. blocked' = blocked
    BY <1>7, CardsLeaveOrJoin DEF Leaving, RemoveFromCombat, TokenAttacks
  <2> QED BY <2>1, <2>2 DEF HitsAreAllowed, BetweenCombats
<1>8. CASE \/ EnterDeclareAttackers \/ DeclareAttackers \/ NoMoreDefenders
           \/ EnterDeclareBlockers \/ CloseWindow
           \/ EnterEndCombat \/ AdvanceToEnd \/ AdvanceToSecondDamage
           \/ Advance \/ NextCombat
           \/ \E seat \in Seats : AskDefender(seat) \/ SkipDefender(seat)
  <2>1. /\ UNCHANGED <<hits, blocked, wasBlocked>>
        /\ todo # "assign" /\ ~FinishCombat /\ ~BeginCombat
    BY <1>8
    DEF EnterDeclareAttackers, DeclareAttackers, NoMoreDefenders,
        EnterDeclareBlockers, AskDefender, SkipDefender, CloseWindow,
        EnterEndCombat, AdvanceToEnd, AdvanceToSecondDamage, Advance,
        NextCombat, blockVars, roleVars, damageVars, FinishCombat, BeginCombat
  <2> QED BY <2>1, StepsGoOn DEF HitsAreAllowed
<1> QED
  BY <1>1, <1>2, <1>3, <1>4, <1>5, <1>6, <1>7, <1>8, NextCases
  DEF Declare, Damage, Steering

LEMMA DamageStepsStep ==
  ASSUME TypeOK, CallsOfSteps, RolesInv, BlockOrder, DamageSteps, Next
  PROVE  DamageSteps'
<1>0. \A c \in Creatures :
        form'[c] = "coming" => form[c] = "coming"
  <2>1. CASE CardsAct
    BY <2>1, CardsLeaveOrJoin DEF Leaving, TokenAttacks, TypeOK
  <2>2. CASE DeclareAttackers
    BY <2>2 DEF DeclareAttackers
  <2>3. CASE DeclareBlockers
    BY <2>3, BlockKeepsRoles
  <2>4. CASE ApplyDamage
    <3>1. PICK dead \in SUBSET (Hit \cap Creatures),
               regenerated \in SUBSET (Hit \cap Creatures),
               losers \in SUBSET (Hit \cap Seats) :
            Fallout(dead, {}, regenerated, losers)
      BY <2>4 DEF ApplyDamage
    <3> QED BY <3>1 DEF Fallout
  <2>5. CASE ~CardsAct /\ ~DeclareAttackers /\ ~DeclareBlockers /\ ~ApplyDamage
    <3>1. UNCHANGED cardVars
      BY <2>5, NextCases
      DEF Declare, Damage, Steering, EnterDeclareAttackers,
          EnterDeclareBlockers, AskDefender, SkipDefender, NoMoreDefenders,
          EnterDamage, Announce, EnterEndCombat, AdvanceToEnd, BeginCombat,
          FinishCombat, AdvanceToSecondDamage, Advance, NextCombat, CloseWindow
    <3> QED BY <3>1 DEF cardVars
  <2> QED BY <2>1, <2>2, <2>3, <2>4, <2>5
<1>1. CASE EnterDamage
  <2>1. damageStep' = damageStep /\ step' = step /\ todo' = "assign"
        /\ step = "combat_damage" /\ initialized' = TRUE
    BY <1>1 DEF EnterDamage
  <2>2. damageStep' = 1 => firstStrike'
    BY <1>1, <2>1 DEF EnterDamage, DamageSteps
  <2>3. fought' \in SUBSET Creatures /\ \A c \in fought' : form'[c] # "coming"
    <3>1. \A c \in Fighting : form[c] = "creature"
      BY DEF RolesInv, Roster, Fighting, Attackers
    <3>2. CASE initialized
      BY <1>0, <1>1, <3>2 DEF EnterDamage, DamageSteps, TypeOK
    <3>3. CASE ~initialized
      BY <1>0, <1>1, <3>1, <3>3, FightingTypes DEF EnterDamage
    <3> QED BY <3>2, <3>3
  <2> QED BY <2>1, <2>2, <2>3 DEF DamageSteps, BeforeDamage
<1>2. CASE BeginCombat
  BY <1>2 DEF BeginCombat, ResetCombat, DamageSteps
<1>3. CASE FinishCombat
  <2>1. step' = "postcombat_main" /\ damageStep' = 0 /\ ~initialized'
        /\ fought' = fought
    BY <1>3 DEF FinishCombat, ResetCombat, NextStep, Steps, TypeOK
  <2> QED
    BY <1>0, <2>1 DEF DamageSteps, BetweenCombats, TypeOK
<1>4. CASE AdvanceToSecondDamage
  <2>1. /\ step = "combat_damage" /\ step' = step /\ firstStrike
        /\ damageStep' = 1 /\ todo = "advance"
        /\ UNCHANGED <<initialized, firstStrike, fought>>
    BY <1>4 DEF AdvanceToSecondDamage, SecondDamageStep
  <2> QED
    BY <1>0, <2>1 DEF DamageSteps, BeforeDamage, TypeOK
<1>5. CASE AdvanceToEnd \/ Advance \/ NextCombat
  <2>1. UNCHANGED <<initialized, firstStrike, fought, damageStep, assigned>>
        /\ todo' = "enter"
    BY <1>5 DEF AdvanceToEnd, Advance, NextCombat, damageVars
  <2>2. CASE AdvanceToEnd
    BY <1>0, <2>1, <2>2
    DEF AdvanceToEnd, SkipToEnd, DamageSteps, BeforeDamage, TypeOK
  <2>3. CASE Advance
    <3>1. \/ step = "beginning_combat" /\ step' = "declare_attackers"
          \/ step = "declare_attackers" /\ step' = "declare_blockers"
          \/ step = "declare_blockers" /\ step' = "combat_damage"
          \/ step = "combat_damage" /\ step' = "end_combat"
      BY <2>3 DEF Advance, NextStep, Steps, TypeOK
    <3>2. todo = "advance"
      BY <2>3 DEF Advance
    <3> QED
      BY <1>0, <2>1, <3>1, <3>2
      DEF DamageSteps, BeforeDamage, BetweenCombats, TypeOK
  <2>4. CASE NextCombat
    <3>1. step = "postcombat_main" /\ step' = "beginning_combat"
      BY <2>4 DEF NextCombat, NextStep, Steps
    <3> QED
      BY <1>0, <2>1, <3>1
      DEF DamageSteps, BeforeDamage, BetweenCombats, TypeOK
  <2> QED BY <1>5, <2>2, <2>3, <2>4
<1>6. CASE (\E seat \in Seats : Announce(seat)) \/ ApplyDamage
  <2>1. /\ UNCHANGED <<initialized, firstStrike, fought, damageStep, step>>
        /\ step = "combat_damage" /\ todo = "assign"
        /\ todo' # "enter"
    BY <1>6 DEF Announce, ApplyDamage, CallsOfSteps
  <2> QED BY <1>0, <2>1 DEF DamageSteps, BeforeDamage, TypeOK
<1>7. CASE Declare \/ CardsAct \/ CloseWindow \/ EnterEndCombat
  <2>1. /\ UNCHANGED <<initialized, firstStrike, fought, damageStep, step,
                       assigned>>
        /\ todo' # "enter"
    BY <1>7, CardsInWindow
    DEF Declare, EnterDeclareAttackers, DeclareAttackers, NoMoreDefenders,
        EnterDeclareBlockers, AskDefender, SkipDefender, DeclareBlockers,
        CloseWindow, EnterEndCombat, InWindow, damageVars
  <2>2. todo = "enter" => step \in {"declare_attackers", "declare_blockers",
                                    "end_combat"}
    BY <1>7, CardsInWindow
    DEF Declare, EnterDeclareAttackers, DeclareAttackers, NoMoreDefenders,
        EnterDeclareBlockers, AskDefender, SkipDefender, DeclareBlockers,
        CloseWindow, EnterEndCombat, InWindow
  <2> QED
    BY <1>0, <2>1, <2>2 DEF DamageSteps, BeforeDamage, BetweenCombats, TypeOK
<1> QED
  BY <1>1, <1>2, <1>3, <1>4, <1>5, <1>6, <1>7, NextCases DEF Damage, Steering

LEMMA DamageDealtStep ==
  ASSUME TypeOK, CallsOfSteps, RolesInv, BlockOrder, DamageSteps, DamageDealt,
         Next
  PROVE  DamageDealt'
<1>1. CASE EnterDamage
  <2>1. /\ step = "combat_damage" /\ step' = step /\ todo = "enter"
        /\ todo' = "assign"
        /\ UNCHANGED <<cardVars, roleVars, damageStep, assigned>>
    BY <1>1 DEF EnterDamage
  <2>2. Fighting' = Fighting /\ strike' = strike
    BY <2>1 DEF Fighting, Attackers, cardVars, roleVars
  <2>3. CASE damageStep = 0
    <3>1. ~initialized /\ \A c \in Creatures : assigned[c] = {}
      BY <2>1, <2>3 DEF DamageSteps, BeforeDamage, BetweenCombats
    <3>2. fought' = Fighting
          /\ (firstStrike' =>
                ordinary' = {c \in Combatants : strike[c] = "none"})
      BY <1>1, <3>1 DEF EnterDamage
    <3>3. Fighting \subseteq Combatants
      BY DEF RolesInv, Roster, Fighting, Combatants, Attackers
    <3>4. firstStrike' => /\ \A c \in ordinary' : strike'[c] = "none"
                          /\ \A c \in Fighting' :
                               strike'[c] = "none" => c \in ordinary'
      BY <2>2, <3>2, <3>3
    <3> QED
      BY <2>1, <2>2, <2>3, <3>1, <3>2, <3>4
      DEF DamageDealt, BetweenDamage, AfterDamage
  <2>4. CASE damageStep = 1
    <3>1. initialized /\ BetweenDamage
      BY <2>1, <2>4 DEF DamageSteps, BetweenDamage
    <3>2. UNCHANGED <<firstStrike, ordinary, fought>>
      BY <1>1, <3>1 DEF EnterDamage
    <3> QED
      BY <2>1, <2>2, <2>4, <3>1, <3>2 DEF DamageDealt, AfterDamage
  <2> QED BY <2>3, <2>4 DEF TypeOK
<1>2. CASE ApplyDamage
  <2>1. /\ todo = "assign" /\ step = "combat_damage" /\ step' = step
        /\ todo' = "window"
        /\ UNCHANGED <<strike, damageStep, firstStrike, ordinary, fought>>
        /\ \A c \in Creatures :
             assigned'[c] = IF c \in Sources THEN assigned[c] \cup {damageStep}
                            ELSE assigned[c]
    BY <1>2 DEF ApplyDamage, CallsOfSteps
  <2>2. Fighting' \subseteq Fighting /\ Fighting \subseteq Creatures
    <3>1. PICK dead \in SUBSET (Hit \cap Creatures),
               regenerated \in SUBSET (Hit \cap Creatures),
               losers \in SUBSET (Hit \cap Seats) :
            Fallout(dead, {}, regenerated, losers)
      BY <1>2 DEF ApplyDamage
    <3>2. PICK objects \in SUBSET Creatures : RemoveFromCombat(objects)
      BY <3>1, FalloutIsLeaving DEF Leaving
    <3> QED BY <3>2, LeavingShrinks, FightingTypes
  <2>3. CASE damageStep = 0
    <3>1. fought = Fighting /\ \A c \in Creatures : assigned[c] = {}
      BY <2>1, <2>3 DEF DamageDealt
    <3>2. firstStrike => \A c \in ordinary : assigned'[c] = {}
      <4> SUFFICES ASSUME firstStrike, NEW c \in ordinary
                   PROVE  assigned'[c] = {}
        OBVIOUS
      <4>1. strike[c] = "none" /\ c \in Creatures
        BY <2>1, <2>3 DEF DamageDealt, TypeOK
      <4>2. c \notin Sources
        BY <2>3, <4>1 DEF Sources, Assigns
      <4> QED BY <2>1, <3>1, <4>1, <4>2
    <3>3. \A c \in Fighting' \cap fought :
            assigned'[c] = {} => firstStrike /\ c \in ordinary
      <4> SUFFICES ASSUME NEW c \in Fighting, assigned'[c] = {}
                   PROVE  firstStrike /\ c \in ordinary
        BY <2>2
      <4>1. c \notin Sources
        BY <2>1, <2>2
      <4>2. firstStrike /\ strike[c] = "none"
        BY <2>3, <4>1 DEF Sources, Assigns
      <4> QED BY <2>1, <2>3, <4>2 DEF DamageDealt
    <3> QED
      BY <2>1, <2>3, <3>2, <3>3 DEF DamageDealt, BetweenDamage, AfterDamage
  <2>4. CASE damageStep = 1
    <3>1. \A c \in Fighting' \cap fought : assigned'[c] # {}
      <4> SUFFICES ASSUME NEW c \in Fighting \cap fought, assigned'[c] = {}
                   PROVE  FALSE
        BY <2>2
      <4>1. assigned[c] = {} /\ c \notin Sources
        BY <2>1, <2>2
      <4>2. firstStrike /\ c \in ordinary
        BY <2>1, <2>4, <4>1 DEF DamageDealt, BetweenDamage
      <4> QED BY <2>4, <4>1, <4>2 DEF Sources, Assigns
    <3> QED BY <2>1, <2>4, <3>1 DEF DamageDealt, BetweenDamage
  <2> QED BY <2>3, <2>4 DEF TypeOK
<1>3. CASE CardsAct
  <2>1. /\ todo = "window" /\ UNCHANGED <<todo, step>>
        /\ UNCHANGED <<damageStep, firstStrike, ordinary, fought, assigned>>
    BY <1>3, CardsInWindow DEF InWindow, damageVars
  <2>2. Fighting' \cap fought \subseteq Fighting \cap fought
    <3>1. CASE \E objects \in SUBSET Creatures : Leaving(objects)
      BY <3>1, LeavingShrinks DEF Leaving
    <3>2. ASSUME NEW c \in Creatures, NEW r \in Recipients, TokenAttacks(c, r)
          PROVE  Fighting' \cap fought \subseteq Fighting \cap fought
      <4>1. Fighting' = Fighting \cup {c} /\ form[c] = "coming"
        BY <3>2, TokenJoins DEF TokenAttacks
      <4> QED BY <4>1 DEF DamageSteps
    <3> QED BY <1>3, <3>1, <3>2, CardsLeaveOrJoin
  <2> QED
    BY <2>1, <2>2 DEF DamageDealt, BetweenDamage, AfterDamage
<1>4. CASE Declare \/ BeginCombat \/ FinishCombat \/ NextCombat
  <2>1. step' \notin {"combat_damage", "end_combat"} /\ todo' # "assign"
    BY <1>4
    DEF Declare, EnterDeclareAttackers, DeclareAttackers, NoMoreDefenders,
        EnterDeclareBlockers, AskDefender, SkipDefender, DeclareBlockers,
        BeginCombat, FinishCombat, NextCombat, NextStep, Steps, CallsOfSteps
  <2> QED BY <2>1 DEF DamageDealt, BetweenDamage, AfterDamage
<1>5. CASE \/ \E seat \in Seats : Announce(seat)
           \/ CloseWindow \/ EnterEndCombat
           \/ AdvanceToEnd \/ AdvanceToSecondDamage \/ Advance
  <2>1. /\ UNCHANGED <<strike, firstStrike, ordinary, fought, assigned>>
        /\ UNCHANGED <<attackers, blockers>>
    BY <1>5
    DEF Announce, CloseWindow, EnterEndCombat, AdvanceToEnd,
        AdvanceToSecondDamage, Advance, cardVars, roleVars, damageVars
  <2>2. Fighting' = Fighting
    BY <2>1 DEF Fighting, Attackers
  <2>3. CASE \E seat \in Seats : Announce(seat)
    <3>1. todo = "assign" /\ todo' = "assign" /\ step = "combat_damage"
          /\ UNCHANGED <<step, damageStep>>
      BY <2>3 DEF Announce, CallsOfSteps
    <3> QED
      BY <2>1, <2>2, <3>1 DEF DamageDealt, BetweenDamage, AfterDamage
  <2>4. CASE CloseWindow \/ EnterEndCombat
    <3>1. /\ UNCHANGED <<step, damageStep>> /\ todo' \in {"advance", "window"}
          /\ \/ todo = "window" /\ todo' = "advance"
             \/ step = "end_combat"
      BY <2>4 DEF CloseWindow, EnterEndCombat, damageVars
    <3> QED
      BY <2>1, <2>2, <3>1 DEF DamageDealt, BetweenDamage, AfterDamage
  <2>5. CASE AdvanceToEnd
    <3>1. fought = {} /\ step' = "end_combat" /\ todo' = "enter"
      BY <2>5
      DEF AdvanceToEnd, SkipToEnd, DamageSteps, BeforeDamage, BetweenCombats
    <3> QED
      BY <2>1, <3>1 DEF DamageDealt, BetweenDamage, AfterDamage
  <2>6. CASE AdvanceToSecondDamage
    <3>1. BetweenDamage /\ step' = "combat_damage" /\ todo' = "enter"
      BY <2>6 DEF AdvanceToSecondDamage, SecondDamageStep, BetweenDamage
    <3> QED
      BY <2>1, <2>2, <3>1, <2>6
      DEF DamageDealt, BetweenDamage, AfterDamage, AdvanceToSecondDamage
  <2>7. CASE Advance
    <3>1. \/ /\ step \in {"beginning_combat", "declare_attackers",
                          "declare_blockers"}
             /\ step' \in {"declare_attackers", "declare_blockers"}
          \/ step = "declare_blockers" /\ step' = "combat_damage"
          \/ step = "combat_damage" /\ step' = "end_combat"
      BY <2>7 DEF Advance, NextStep, Steps, TypeOK
    <3>2. todo = "advance" /\ todo' = "enter" /\ damageStep' = damageStep
      BY <2>7 DEF Advance, damageVars
    <3>3. CASE step = "combat_damage"
      <4>1. firstStrike => damageStep = 1
        BY <2>7, <3>3 DEF Advance, SecondDamageStep, TypeOK
      <4>2. \A c \in Fighting \cap fought : assigned[c] # {}
        BY <3>2, <3>3, <4>1 DEF DamageDealt, BetweenDamage, AfterDamage, TypeOK
      <4> QED
        BY <2>1, <2>2, <3>1, <3>2, <3>3, <4>2
        DEF DamageDealt, BetweenDamage, AfterDamage
    <3>4. CASE step # "combat_damage"
      <4>1. step' \in {"declare_attackers", "declare_blockers",
                       "combat_damage"}
            /\ damageStep' = 0
        BY <3>1, <3>2, <3>4 DEF DamageSteps, BeforeDamage
      <4> QED
        BY <3>2, <4>1 DEF DamageDealt, BetweenDamage, AfterDamage
    <3> QED BY <3>3, <3>4
  <2> QED BY <1>5, <2>3, <2>4, <2>5, <2>6, <2>7
<1> QED
  BY <1>1, <1>2, <1>3, <1>4, <1>5, NextCases DEF Damage, Steering

-----------------------------------------------------------------------------
(* The invariant and what follows from it.                                 *)

LEMMA InitInv == Init => IInv
<1> SUFFICES ASSUME Init PROVE IInv
  OBVIOUS
<1>1. TypeOK
  BY InitTypes
<1>2. Attackers = {} /\ blocked = {}
      /\ \A c \in Creatures : /\ blockers[c] = {} /\ blocking[c] = None
                              /\ attackers[c] = None
  BY DEF Init, NoCombat, Attackers
<1>3. step = "beginning_combat" /\ todo = "enter"
  BY DEF Init
<1>4. RolesAgree
  BY <1>2, CombatAssumption DEF Init, NoCombat, RolesAgree
<1>5. Roster
  BY <1>2 DEF Init, Roster
<1>6. DefendersBlock
  BY <1>2 DEF DefendersBlock
<1>7. CallsOfSteps /\ BlockOrder
  BY <1>3 DEF CallsOfSteps, BlockOrder, BetweenCombats
<1>8. HitsAreAllowed
  BY <1>3 DEF Init, HitsAreAllowed, BetweenCombats
<1>9. DamageSteps
  BY <1>3 DEF Init, NoCombat, DamageSteps, BetweenCombats
<1>10. DamageDealt
  BY <1>3 DEF DamageDealt, BetweenDamage, AfterDamage
<1> QED
  BY <1>1, <1>4, <1>5, <1>6, <1>7, <1>8, <1>9, <1>10 DEF IInv

LEMMA StutterInv == IInv /\ UNCHANGED vars => IInv'
<1> SUFFICES ASSUME IInv, UNCHANGED vars PROVE IInv'
  OBVIOUS
<1> USE DEF vars, cardVars, roleVars, blockVars, damageVars
<1>1. TypeOK'
  BY StepTypes DEF IInv
<1>2. RolesInv'
  BY QuietKeepsRoles DEF IInv, RolesInv, BeforeBlocks
<1>3. CallsOfSteps' /\ DamageSteps'
  BY DEF IInv, CallsOfSteps, DamageSteps, BeforeDamage, BetweenCombats
<1>4. BlockOrder'
  BY SameDefenders
  DEF IInv, BlockOrder, BeforeBlocks, BetweenCombats, IsNextDefender
<1>5. UNCHANGED <<Attackers, Fighting, Sources>> /\ \A c : Targets(c)' = Targets(c)
  BY DEF Attackers, Fighting, Sources, Assigns, Targets, IsThere
<1>6. HitsAreAllowed'
  BY <1>5 DEF IInv, HitsAreAllowed, BetweenCombats
<1>7. DamageDealt'
  BY <1>5 DEF IInv, DamageDealt, BetweenDamage, AfterDamage
<1> QED BY <1>1, <1>2, <1>3, <1>4, <1>6, <1>7 DEF IInv, RolesInv

LEMMA StepInv == IInv /\ [Next]_vars => IInv'
<1> SUFFICES ASSUME IInv, Next PROVE IInv'
  BY StutterInv
<1>1. /\ TypeOK /\ CallsOfSteps /\ RolesInv /\ BlockOrder /\ HitsAreAllowed
      /\ DamageSteps /\ DamageDealt
  BY DEF IInv, RolesInv
<1> QED
  BY <1>1, StepTypes, CallsStep, RolesStep, BlockOrderStep, HitsStep,
     DamageStepsStep, DamageDealtStep
  DEF IInv, RolesInv

LEMMA InvariantHolds == Spec => []IInv
  BY InitInv, StepInv, PTL DEF Spec

(* What the combat and the cards say of creatures agrees.                  *)
THEOREM RolesStayInStep == Spec => []RolesAgree
<1>1. IInv => RolesAgree
  BY DEF IInv
<1> QED BY <1>1, InvariantHolds, PTL

(* The damage snapshot can always be built.                                *)
THEOREM SnapshotIsClosed == Spec => []SnapshotCloses
<1>1. IInv => SnapshotCloses
  BY DEF IInv, Roster, SnapshotCloses, Fighting, Attackers
<1> QED BY <1>1, InvariantHolds, PTL

(* Only the player an attacker attacks has creatures that block it.        *)
THEOREM BlockersAreDefenders == Spec => []DefendersBlock
<1>1. IInv => DefendersBlock
  BY DEF IInv
<1> QED BY <1>1, InvariantHolds, PTL

(* Damage goes where it may.                                               *)
THEOREM DamageIsAllowed == Spec => []DamageGoesWhereItMay
<1>1. ASSUME IInv, NEW pair \in hits
      PROVE  /\ pair[2] \in Recipients =>
                  IsThere(pair[2])
                    /\ (pair[1] \in wasBlocked => pair[1] \in Trample)
             /\ pair[2] \in Creatures => {pair[1], pair[2]} \subseteq Fighting
  <2>1. /\ todo = "assign" /\ step = "combat_damage"
        /\ pair[1] \in Fighting /\ pair[2] \in Targets(pair[1])
        /\ wasBlocked \subseteq blocked
    BY <1>1
    DEF IInv, HitsAreAllowed, CallsOfSteps, BetweenCombats, Sources
  <2>2. pair[1] \in Creatures
    BY <1>1, <2>1, FightingTypes DEF IInv
  <2>3. CASE pair[1] \in Attackers
    <3>1. \/ pair[2] \in blockers[pair[1]]
          \/ /\ IsThere(pair[2]) /\ pair[2] = attackers[pair[1]]
             /\ pair[1] \notin blocked \/ pair[1] \in Trample
      BY <2>1, <2>3 DEF Targets
    <3>2. /\ attackers[pair[1]] \notin Creatures
          /\ blockers[pair[1]] \subseteq Creatures
      BY <1>1, <2>2, <2>3, CombatAssumption
      DEF IInv, TypeOK, Attackers, Recipients
    <3>3. \A b \in blockers[pair[1]] : b \in Fighting /\ b \notin Recipients
      BY <2>3, <3>2, CombatAssumption DEF Fighting, Recipients
    <3> QED BY <2>1, <3>1, <3>2, <3>3
  <2>4. CASE pair[1] \notin Attackers
    <3>1. pair[2] \in Attackers
      BY <2>1, <2>4 DEF Targets
    <3>2. pair[2] \in Fighting /\ pair[2] \notin Recipients
      BY <3>1, CombatAssumption DEF Fighting, Attackers, Recipients
    <3> QED BY <2>1, <3>2
  <2> QED BY <2>3, <2>4
<1>2. IInv => DamageGoesWhereItMay
  BY <1>1 DEF DamageGoesWhereItMay
<1> QED BY <1>2, InvariantHolds, PTL

(* Nobody who fights to the end is left out of the damage.                 *)
THEOREM EverybodyStrikes == Spec => []NobodyIsSkipped
<1>1. IInv => NobodyIsSkipped
  BY DEF IInv, DamageDealt, AfterDamage, NobodyIsSkipped
<1> QED BY <1>1, InvariantHolds, PTL

(* Only a creature with double strike is a source in both damage steps.    *)
THEOREM OneStrike == Spec => StrikesOnce
<1> DEFINE Once == \A c \in Creatures :
                     assigned[c] # {} /\ assigned'[c] \notin {assigned[c], {}} =>
                       damageStep = 1 /\ strike[c] = "double"
<1>1. ASSUME IInv, Next, NEW c \in Creatures, assigned[c] # {},
             assigned'[c] \notin {assigned[c], {}}
      PROVE  damageStep = 1 /\ strike[c] = "double"
  <2>1. ApplyDamage
    BY <1>1, NextCases, CardsInWindow
    DEF InWindow, Declare, Damage, Steering, EnterDeclareAttackers,
        DeclareAttackers, EnterDeclareBlockers, AskDefender, SkipDefender,
        NoMoreDefenders, DeclareBlockers, EnterDamage, Announce, BeginCombat,
        EnterEndCombat, AdvanceToEnd, AdvanceToSecondDamage, Advance,
        FinishCombat, NextCombat, CloseWindow, damageVars
  <2>2. todo = "assign" /\ step = "combat_damage" /\ c \in Sources
    BY <1>1, <2>1 DEF ApplyDamage, IInv, CallsOfSteps
  <2>3. damageStep = 1
    BY <1>1, <2>2 DEF IInv, DamageDealt, TypeOK
  <2>4. firstStrike /\ c \notin ordinary
    BY <1>1, <2>2, <2>3
    DEF IInv, DamageSteps, DamageDealt, BetweenDamage
  <2> QED BY <2>2, <2>3, <2>4 DEF Sources, Assigns
<1>2. IInv /\ [Next]_vars => [Once]_vars
  BY <1>1
<1> QED BY <1>2, InvariantHolds, PTL DEF StrikesOnce, Spec

(* Defenders are asked in turn order and none is forgotten.                *)
THEOREM EveryDefenderIsAsked == Spec => DefendersInTurn
<1> DEFINE InTurn ==
      /\ \A seat \in asked' \ asked :
           \A other \in AttackedDefenders : other < seat => other \in asked
      /\ todo = "next_defender" /\ todo' = "window" =>
           AttackedDefenders \subseteq asked
<1>1. ASSUME IInv, Next PROVE InTurn
  <2>0. TypeOK /\ RolesInv /\ BlockOrder
    BY <1>1 DEF IInv, RolesInv
  <2>1. ASSUME NEW seat \in Seats, SkipDefender(seat) PROVE InTurn
    <3>1. asked' = asked \cup {seat} /\ todo' = "next_defender"
          /\ todo = "next_defender" /\ IsNextDefender(seat)
      BY <2>1 DEF SkipDefender
    <3> QED BY <2>0, <3>1, NextDefender
  <2>2. CASE DeclareBlockers
    <3>1. asked' = asked \cup {decision} /\ todo = "block"
          /\ decision \in Seats /\ IsNextDefender(decision)
      BY <1>1, <2>0, <2>2, BlockKeepsRoles DEF DeclareBlockers, IInv
    <3> QED BY <2>0, <3>1, NextDefender
  <2>3. CASE NoMoreDefenders
    <3>1. todo = "next_defender" /\ cursor >= Cardinality(AttackedDefenders)
          /\ asked' = asked
      BY <2>3 DEF NoMoreDefenders, blockVars
    <3>2. ASSUME NEW s \in AttackedDefenders PROVE s \in asked
      <4>1. Rank(s) < Cardinality(AttackedDefenders) /\ Rank(s) \in Nat
        BY <2>0, RankBelowAll, RankType, DefendersAreSeats DEF Opponents
      <4>2. cursor \in Nat /\ Cardinality(AttackedDefenders) \in Nat
        BY <2>0, DefendersAreSeats, FS_CardinalityType DEF TypeOK
      <4> QED BY <2>0, <3>1, <4>1, <4>2 DEF BlockOrder
    <3> QED BY <3>1, <3>2
  <2>4. CASE /\ ~DeclareBlockers /\ ~NoMoreDefenders
             /\ \A seat \in Seats : ~SkipDefender(seat)
    <3>1. asked' \subseteq asked
          /\ ~(todo = "next_defender" /\ todo' = "window")
      BY <1>1, <2>4, NextCases, CardsInWindow
      DEF InWindow, Declare, Damage, Steering, EnterDeclareAttackers,
          DeclareAttackers, EnterDeclareBlockers, AskDefender, EnterDamage,
          Announce, ApplyDamage, BeginCombat, EnterEndCombat, AdvanceToEnd,
          AdvanceToSecondDamage, Advance, FinishCombat, NextCombat,
          CloseWindow, blockVars
    <3> QED BY <3>1
  <2> QED BY <2>1, <2>2, <2>3, <2>4
<1>2. IInv /\ [Next]_vars => [InTurn]_vars
  BY <1>1
<1> QED BY <1>2, InvariantHolds, PTL DEF DefendersInTurn, Spec

=============================================================================
