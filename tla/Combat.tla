------------------------------- MODULE Combat -------------------------------
(***************************************************************************)
(* The combat phase of the rules engine (the combat part of                *)
(* quorune/engine.py, combat_relationship_state.py, combat.py,             *)
(* combat_damage_snapshot.py, combat_damage_assignment.py and              *)
(* turn_step_owner.py).                                                    *)
(*                                                                         *)
(* As in TurnPriority the engine runs from one answer to the next, and     *)
(* `todo' is the call or the answer that comes next.  A round of priority  *)
(* is "window", in which cards do what matters to a combat: creatures die, *)
(* change sides, stop being creatures, are taken out of combat, gain and   *)
(* lose strike abilities, tokens enter attacking, what is attacked goes    *)
(* away, players lose.  At most MaxEvents such things happen.              *)
(* Seats are numbered in turn order from the active player on.             *)
(***************************************************************************)
EXTENDS Integers, FiniteSets

CONSTANTS
  N,          \* number of seats; the combat is seat 1's
  Creatures,  \* every object that is or comes to be a creature
  Tokens,     \* those that are not on the battlefield yet
  Owner,      \* the seat that owns a creature
  Walkers,    \* planeswalkers and battles that can be attacked
  Protector,  \* the seat that defends such a permanent
  Trample,    \* the creatures with trample
  Printed,    \* the strike ability a creature has to begin with
  MaxEvents,  \* bound: what cards do in the windows
  None        \* not attacking, not blocking, nobody asked

ASSUME SeatsAssumption == N \in Nat /\ N >= 2

Seats == 1..N
Active == 1
Opponents == Seats \ {Active}
Recipients == Seats \cup Walkers

StrikeAbilities == {"none", "first", "double"}

ASSUME CombatAssumption ==
  /\ Tokens \subseteq Creatures
  /\ Trample \subseteq Creatures
  /\ Owner \in [Creatures -> Seats]
  /\ Protector \in [Walkers -> Opponents]
  /\ Printed \in [Creatures -> StrikeAbilities]
  /\ MaxEvents \in Nat
  /\ None \notin Creatures \cup Walkers \cup Seats
  /\ Creatures \cap (Walkers \cup Seats) = {}
  /\ Walkers \cap Seats = {}

Steps == {"beginning_combat", "declare_attackers", "declare_blockers",
          "combat_damage", "end_combat", "postcombat_main"}

Calls == {"enter", "attack", "next_defender", "block", "assign", "window",
          "advance"}

VARIABLES
  inGame,      \* active_seats
  control,     \* card.controller
  form,        \* "creature", "other" (on the battlefield, no creature), "coming"
               \* (a token before it is made) or "gone"
  strike,      \* the strike ability of a creature
  standing,    \* the attackable permanents that their protector still has
  step,        \* state.step
  todo,        \* the call the engine is about to make, or the answer it awaits
  decision,    \* the seat that has to declare or to assign
  attackers,   \* combat.attackers, with attack_target_context
  blockers,    \* combat.blockers, without its keys
  blocked,     \* the keys of combat.blockers
  attacking,   \* card.attacking
  blocking,    \* card.blocking
  hadAttacker, \* combat.had_attacking_creature
  cursor,      \* combat.blocker_cursor
  damageStep,  \* combat.damage_step_index
  initialized, \* combat.damage_step_initialized
  firstStrike, \* combat.first_strike_step
  ordinary,    \* combat.ordinary_second_damage_combatants
  pending,     \* the seats that have not announced their damage yet
  hits,        \* the assignments announced: who damages what
  asked,       \* history: the defenders that could declare blockers
  wasBlocked,  \* history: the attackers that ever had a blocker
  fought,      \* history: who was fighting when damage began
  assigned,    \* history: the damage steps in which a creature was a source
  events       \* what cards have done (bound MaxEvents)

cardVars == <<inGame, control, form, strike, standing>>
roleVars == <<attackers, blockers, blocked, attacking, blocking>>
blockVars == <<cursor, asked, wasBlocked>>
damageVars == <<damageStep, initialized, firstStrike, ordinary, pending, hits,
                fought, assigned>>
vars == <<cardVars, step, todo, decision, roleVars, hadAttacker, blockVars,
          damageVars, events>>

\* A new CombatState, before anything of this combat has happened.
NoCombat ==
  /\ attackers = [c \in Creatures |-> None]
  /\ blockers = [c \in Creatures |-> {}]
  /\ blocked = {}
  /\ hadAttacker = FALSE
  /\ cursor = 0
  /\ damageStep = 0
  /\ initialized = FALSE
  /\ firstStrike = FALSE
  /\ ordinary = {}

ResetCombat ==
  /\ attackers' = [c \in Creatures |-> None]
  /\ blockers' = [c \in Creatures |-> {}]
  /\ blocked' = {}
  /\ hadAttacker' = FALSE
  /\ cursor' = 0
  /\ damageStep' = 0
  /\ initialized' = FALSE
  /\ firstStrike' = FALSE
  /\ ordinary' = {}

Init ==
  /\ inGame = Seats
  /\ control = Owner
  /\ form = [c \in Creatures |-> IF c \in Tokens THEN "coming" ELSE "creature"]
  /\ strike = Printed
  /\ standing = Walkers
  /\ step = "beginning_combat"
  /\ todo = "enter"
  /\ decision = None
  /\ NoCombat
  /\ attacking = [c \in Creatures |-> None]
  /\ blocking = [c \in Creatures |-> None]
  /\ pending = {}
  /\ hits = {}
  /\ asked = {}
  /\ wasBlocked = {}
  /\ fought = {}
  /\ assigned = [c \in Creatures |-> {}]
  /\ events = 0

-----------------------------------------------------------------------------
(* Who is in combat.                                                       *)

Attackers == {c \in Creatures : attackers[c] # None}

\* participant_object_ids: the attackers and the blockers of attackers that
\* are still in combat.
Fighting == Attackers \cup UNION {blockers[a] : a \in Attackers}

\* _combat_damage_participants also counts creatures whose attacker has gone:
\* they are blocking still.
Combatants ==
  {c \in Attackers \cup UNION {blockers[a] : a \in Creatures} :
     form[c] = "creature"}

OnBattlefield(c) == form[c] \in {"creature", "other"}

CreaturesOf(seat) ==
  {c \in Creatures : form[c] = "creature" /\ control[c] = seat}

\* The player a creature that attacks r attacks (CR 508.5), as fixed by
\* attack_target_context.
DefenderOf(r) == IF r \in Walkers THEN Protector[r] ELSE r

\* _attacked_defending_players.
AttackedDefenders == {DefenderOf(attackers[c]) : c \in Attackers} \cap inGame

\* _attack_target_details, for the active player.
CanBeAttacked(r) ==
  \/ r \in inGame \cap Opponents
  \/ r \in standing /\ Protector[r] \in inGame

\* _combat_damage_target_exists.
IsThere(r) ==
  \/ r \in Seats /\ r \in inGame
  \/ r \in standing /\ Protector[r] \in inGame

-----------------------------------------------------------------------------
(* Leaving combat.                                                         *)

(* Bug: an attacker without blockers is unblocked again.                  *)
ForgetBlocks(objects) ==
  /\ attackers' = [c \in Creatures |->
                     IF c \in objects THEN None ELSE attackers[c]]
  /\ blockers' = [a \in Creatures |-> blockers[a] \ objects]
  /\ blocked' = {a \in blocked : blockers'[a] # {}}
  /\ attacking' = [c \in Creatures |->
                     IF c \in objects THEN None ELSE attacking[c]]
  /\ blocking' = [c \in Creatures |->
                    IF c \in objects THEN None ELSE blocking[c]]

\* _remove_object_from_combat: what blocked an attacker that is removed keeps
\* blocking, and what was blocked stays blocked.
RemoveFromCombat(objects) ==
  /\ attackers' = [c \in Creatures |->
                     IF c \in objects THEN None ELSE attackers[c]]
  /\ blockers' = [a \in Creatures |-> blockers[a] \ objects]
  /\ attacking' = [c \in Creatures |->
                     IF c \in objects THEN None ELSE attacking[c]]
  /\ blocking' = [c \in Creatures |->
                    IF c \in objects THEN None ELSE blocking[c]]
  /\ UNCHANGED blocked

\* What a departing seat owns leaves the game ...
OwnedBy(losers) == {c \in Creatures : Owner[c] \in losers}

\* ... and what it only controls goes back to its owner, or to exile.
BorrowedBy(losers) ==
  {c \in Creatures \ OwnedBy(losers) :
     control[c] \in losers /\ OnBattlefield(c)}

(* Bug: what is no creature any more fights on.                           *)
FalloutKeepsChanged(dead, changed, removed, losers) ==
  /\ inGame' = inGame \ losers
  /\ form' = [c \in Creatures |->
                IF c \in dead \cup OwnedBy(losers) THEN "gone"
                ELSE IF c \in changed THEN "other" ELSE form[c]]
  /\ control' = [c \in Creatures |->
                   IF c \in BorrowedBy(losers) THEN Owner[c] ELSE control[c]]
  /\ RemoveFromCombat(dead \cup removed \cup OwnedBy(losers)
                        \cup BorrowedBy(losers))

\* Creatures die, stop being creatures or are removed from combat and seats
\* lose, up to the end of the _stabilize that follows before anybody can act:
\* _eliminate_players, then _remove_invalid_combat_objects.
Fallout(dead, changed, removed, losers) ==
  /\ inGame' = inGame \ losers
  /\ form' = [c \in Creatures |->
                IF c \in dead \cup OwnedBy(losers) THEN "gone"
                ELSE IF /\ c \in BorrowedBy(losers)
                        /\ Owner[c] \notin inGame' THEN "gone"
                ELSE IF c \in changed THEN "other" ELSE form[c]]
  /\ control' = [c \in Creatures |->
                   IF c \in BorrowedBy(losers) /\ Owner[c] \in inGame'
                   THEN Owner[c] ELSE control[c]]
  /\ RemoveFromCombat(dead \cup changed \cup removed \cup OwnedBy(losers)
                        \cup BorrowedBy(losers))

-----------------------------------------------------------------------------
(* A round of priority.                                                    *)

InWindow ==
  /\ todo = "window" /\ Cardinality(inGame) > 1
  /\ events < MaxEvents
  /\ events' = events + 1
  /\ UNCHANGED <<step, todo, decision, hadAttacker, blockVars, damageVars>>

Die(c) ==
  /\ InWindow /\ OnBattlefield(c)
  /\ Fallout({c}, {}, {}, {})
  /\ UNCHANGED <<strike, standing>>

StopBeingCreature(c) ==
  /\ InWindow /\ form[c] = "creature"
  /\ Fallout({}, {c}, {}, {})
  /\ UNCHANGED <<strike, standing>>

BecomeCreatureAgain(c) ==
  /\ InWindow /\ form[c] = "other"
  /\ form' = [form EXCEPT ![c] = "creature"]
  /\ UNCHANGED <<inGame, control, strike, standing, roleVars>>

\* Regeneration, and effects that say so.
LeaveCombat(c) ==
  /\ InWindow /\ c \in Combatants
  /\ Fallout({}, {}, {c}, {})
  /\ UNCHANGED <<strike, standing>>

\* change_control.
ChangeControl(c, seat) ==
  /\ InWindow /\ OnBattlefield(c)
  /\ seat \in inGame \ {control[c]}
  /\ control' = [control EXCEPT ![c] = seat]
  /\ RemoveFromCombat({c})
  /\ UNCHANGED <<inGame, form, strike, standing>>

ChangeStrike(c, ability) ==
  /\ InWindow /\ form[c] = "creature" /\ ability # strike[c]
  /\ strike' = [strike EXCEPT ![c] = ability]
  /\ UNCHANGED <<inGame, control, form, standing, roleVars>>

\* _commit_token_object, for a token that enters attacking.
TokenAttacks(c, r) ==
  /\ InWindow /\ form[c] = "coming"
  /\ step \in {"declare_attackers", "declare_blockers", "combat_damage"}
  /\ Active \in inGame /\ Owner[c] = Active
  /\ CanBeAttacked(r)
  /\ form' = [form EXCEPT ![c] = "creature"]
  /\ attackers' = [attackers EXCEPT ![c] = r]
  /\ attacking' = [attacking EXCEPT ![c] = r]
  /\ UNCHANGED <<inGame, control, strike, standing, blockers, blocked, blocking>>

\* An attacked permanent leaves or changes sides; its attackers stay.
RecipientGoes(w) ==
  /\ InWindow /\ w \in standing
  /\ standing' = standing \ {w}
  /\ UNCHANGED <<inGame, control, form, strike, roleVars>>

\* A seat loses or concedes.
Lose(seat) ==
  /\ InWindow /\ seat \in inGame
  /\ Fallout({}, {}, {}, {seat})
  /\ standing' = {w \in standing : Protector[w] # seat}
  /\ UNCHANGED strike

\* Everybody has passed; a game that is over does not go on.
CloseWindow ==
  /\ todo = "window"
  /\ Cardinality(inGame) > 1
  /\ todo' = "advance"
  /\ UNCHANGED <<cardVars, step, decision, roleVars, hadAttacker, blockVars,
                 damageVars, events>>

-----------------------------------------------------------------------------
(* Attackers.                                                              *)

\* enter_step: the combat starts with a new CombatState.
BeginCombat ==
  /\ todo = "enter" /\ step = "beginning_combat"
  /\ ResetCombat
  /\ todo' = "window"
  /\ asked' = {} /\ wasBlocked' = {} /\ fought' = {}
  /\ assigned' = [c \in Creatures |-> {}]
  /\ UNCHANGED <<cardVars, step, decision, attacking, blocking, pending, hits,
                 events>>

EnterEndCombat ==
  /\ todo = "enter" /\ step = "end_combat"
  /\ todo' = "window"
  /\ UNCHANGED <<cardVars, step, decision, roleVars, hadAttacker, blockVars,
                 damageVars, events>>

\* _issue_attackers: an active player who has left attacks nobody, and without
\* a creature that may attack there is no declaration.
EnterDeclareAttackers ==
  /\ todo = "enter" /\ step = "declare_attackers"
  /\ \/ Active \notin inGame /\ todo' = "advance" /\ UNCHANGED decision
     \/ Active \in inGame /\ todo' = "window" /\ UNCHANGED decision
     \/ /\ CreaturesOf(Active) # {}
        /\ Active \in inGame
        /\ todo' = "attack" /\ decision' = Active
  /\ UNCHANGED <<cardVars, step, roleVars, hadAttacker, blockVars, damageVars,
                 events>>

\* _complete_attackers and commit_attack_declaration: what the payment of the
\* declaration's costs has used up (`spent') does not attack.
DeclareAttackers ==
  /\ todo = "attack"
  /\ \E chosen \in SUBSET CreaturesOf(Active) :
     \E target \in [chosen -> {r \in Recipients : CanBeAttacked(r)}],
        spent \in SUBSET chosen :
       /\ attackers' = [c \in Creatures |->
                          IF c \in chosen \ spent THEN target[c] ELSE None]
       /\ hadAttacker' = (chosen # spent)
       /\ form' = [c \in Creatures |-> IF c \in spent THEN "gone" ELSE form[c]]
  /\ attacking' = attackers'
  /\ decision' = None
  /\ todo' = "window"
  /\ UNCHANGED <<inGame, control, strike, standing, step, blockers, blocked,
                 blocking, blockVars, damageVars, events>>

-----------------------------------------------------------------------------
(* Blockers.                                                               *)

\* _begin_blocker_decisions.
EnterDeclareBlockers ==
  /\ todo = "enter" /\ step = "declare_blockers"
  /\ todo' = IF Attackers = {} THEN "window" ELSE "next_defender"
  /\ cursor' = IF Attackers = {} THEN cursor ELSE 0
  /\ UNCHANGED <<cardVars, step, decision, roleVars, hadAttacker, asked,
                 wasBlocked, damageVars, events>>

\* _issue_next_blocker looks up the defender at the cursor among those that
\* are attacked now.
IsNextDefender(seat) ==
  /\ seat \in AttackedDefenders
  /\ Cardinality({s \in AttackedDefenders : s < seat}) = cursor

AskDefender(seat) ==
  /\ todo = "next_defender" /\ IsNextDefender(seat)
  /\ CreaturesOf(seat) # {}
  /\ todo' = "block" /\ decision' = seat
  /\ UNCHANGED <<cardVars, step, roleVars, hadAttacker, blockVars, damageVars,
                 events>>

\* A defender without a legal block is passed over.
SkipDefender(seat) ==
  /\ todo = "next_defender" /\ IsNextDefender(seat)
  /\ cursor' = cursor + 1
  /\ asked' = asked \cup {seat}
  /\ UNCHANGED <<cardVars, step, todo, decision, roleVars, hadAttacker,
                 wasBlocked, damageVars, events>>

(* Bug: the last defender is not asked.                                   *)
NoMoreDefendersEarly ==
  /\ todo = "next_defender"
  /\ cursor + 1 >= Cardinality(AttackedDefenders)
  /\ todo' = "window"
  /\ UNCHANGED <<cardVars, step, decision, roleVars, hadAttacker, blockVars,
                 damageVars, events>>

NoMoreDefenders ==
  /\ todo = "next_defender"
  /\ cursor >= Cardinality(AttackedDefenders)
  /\ todo' = "window"
  /\ UNCHANGED <<cardVars, step, decision, roleVars, hadAttacker, blockVars,
                 damageVars, events>>

\* The attackers that the seat may block: those that attack it or what it
\* defends.
AttackersOf(seat) == {a \in Attackers : DefenderOf(attackers[a]) = seat}

\* commit_block_declaration: a blocker that the payment of the declaration's
\* costs has used up (`spent') does not block.
Block(chosen, choice, spent) ==
  LET met == {choice[c] : c \in chosen \ spent}
  IN /\ blockers' = [a \in Creatures |->
                       (blockers[a] \ spent)
                         \cup {c \in chosen \ spent : choice[c] = a}]
     /\ blocked' = blocked \cup met
     /\ wasBlocked' = wasBlocked \cup met
     /\ blocking' = [c \in Creatures |->
                       IF c \in spent THEN None
                       ELSE IF c \in chosen THEN choice[c] ELSE blocking[c]]
     /\ form' = [c \in Creatures |-> IF c \in spent THEN "gone" ELSE form[c]]

\* _complete_blockers.
DeclareBlockers ==
  /\ todo = "block"
  /\ \E chosen \in SUBSET CreaturesOf(decision) :
     \E choice \in [chosen -> AttackersOf(decision)], spent \in SUBSET chosen :
       Block(chosen, choice, spent)
  /\ asked' = asked \cup {decision}
  /\ cursor' = cursor + 1
  /\ decision' = None
  /\ todo' = "next_defender"
  /\ UNCHANGED <<inGame, control, strike, standing, step, attackers, attacking,
                 hadAttacker, damageVars, events>>

-----------------------------------------------------------------------------
(* Damage.                                                                 *)

(* Bug: the second step looks at what creatures have now.                 *)
AssignsByCurrentStrike(c) ==
  IF ~firstStrike THEN damageStep = 0
  ELSE IF damageStep = 0 THEN strike[c] # "none"
  ELSE strike[c] # "first"

\* assigns_in_damage_step (CR 510.4).
Assigns(c) ==
  IF ~firstStrike THEN damageStep = 0
  ELSE IF damageStep = 0 THEN strike[c] # "none"
  ELSE c \in ordinary \/ strike[c] = "double"

\* The sources of the step, and what each may damage
\* (build_combat_damage_assignment_proposal).
Sources == {c \in Fighting : Assigns(c)}

Targets(c) ==
  IF c \in Attackers
  THEN (IF c \in blocked THEN blockers[c] ELSE {})
         \cup {r \in {attackers[c]} :
                 IsThere(r) /\ (c \notin blocked \/ c \in Trample)}
  ELSE {a \in Attackers : c \in blockers[a]}

SourcesOf(seat) == {c \in Sources : control[c] = seat}

\* _initialize_combat_damage_steps: once in a combat.
EnterDamage ==
  /\ todo = "enter" /\ step = "combat_damage"
  /\ initialized' = TRUE
  /\ IF initialized
     THEN UNCHANGED <<firstStrike, ordinary, fought>>
     ELSE /\ firstStrike' = \E c \in Combatants : strike[c] # "none"
          /\ ordinary' = IF firstStrike'
                         THEN {c \in Combatants : strike[c] = "none"} ELSE {}
          /\ fought' = Fighting
  /\ todo' = "assign"
  /\ hits' = {}
  /\ UNCHANGED <<cardVars, step, decision, roleVars, hadAttacker, blockVars,
                 damageStep, assigned, events>>
  /\ pending' = {control[c] : c \in Sources'}

\* A seat announces what its sources do, in turn order; without a choice the
\* engine announces for it.
Announce(seat) ==
  /\ todo = "assign" /\ seat \in pending
  /\ \A other \in pending : seat <= other
  /\ pending' = pending \ {seat}
  /\ \E chosen \in SUBSET UNION {{c} \X Targets(c) : c \in SourcesOf(seat)} :
       hits' = hits \cup chosen
  /\ UNCHANGED <<cardVars, step, todo, decision, roleVars, hadAttacker,
                 blockVars, damageStep, initialized, firstStrike, ordinary,
                 fought, assigned, events>>

Hit == {pair[2] : pair \in hits}

\* _apply_combat_assignments: all damage at once, then state-based actions;
\* of what was damaged, some dies, some regenerates, some loses, some goes.
ApplyDamage ==
  /\ todo = "assign" /\ pending = {}
  /\ assigned' = [c \in Creatures |->
                    IF c \in Sources THEN assigned[c] \cup {damageStep}
                    ELSE assigned[c]]
  /\ \E dead \in SUBSET (Hit \cap Creatures),
        regenerated \in SUBSET (Hit \cap Creatures),
        losers \in SUBSET (Hit \cap Seats),
        left \in SUBSET (Hit \cap Walkers) :
       /\ dead \cap regenerated = {}
       /\ Fallout(dead, {}, regenerated, losers)
       /\ standing' = {w \in standing \ left : Protector[w] \notin losers}
  /\ hits' = {}
  /\ todo' = "window"
  /\ UNCHANGED <<strike, step, decision, hadAttacker, blockVars, damageStep,
                 initialized, firstStrike, ordinary, pending, fought, events>>

-----------------------------------------------------------------------------
(* From step to step (advance_step).                                       *)

NextStep == [s \in Steps |->
  CASE s = "beginning_combat"  -> "declare_attackers"
    [] s = "declare_attackers" -> "declare_blockers"
    [] s = "declare_blockers"  -> "combat_damage"
    [] s = "combat_damage"     -> "end_combat"
    [] s = "end_combat"        -> "postcombat_main"
    [] s = "postcombat_main"   -> "beginning_combat"]

SkipToEnd ==
  /\ step = "declare_attackers" /\ ~hadAttacker /\ Attackers = {}

SecondDamageStep ==
  /\ step = "combat_damage" /\ firstStrike /\ damageStep = 0

\* Without attackers the combat ends here (CR 508.8) ...
AdvanceToEnd ==
  /\ todo = "advance" /\ SkipToEnd
  /\ step' = "end_combat"
  /\ todo' = "enter"
  /\ UNCHANGED <<cardVars, decision, roleVars, hadAttacker, blockVars,
                 damageVars, events>>

\* ... first strike makes a second damage step ...
AdvanceToSecondDamage ==
  /\ todo = "advance" /\ SecondDamageStep
  /\ damageStep' = 1
  /\ todo' = "enter"
  /\ UNCHANGED <<cardVars, step, decision, roleVars, hadAttacker, blockVars,
                 initialized, firstStrike, ordinary, pending, hits, fought,
                 assigned, events>>

Advance ==
  /\ todo = "advance" /\ ~SkipToEnd /\ ~SecondDamageStep
  /\ step \notin {"end_combat", "postcombat_main"}
  /\ step' = NextStep[step]
  /\ todo' = "enter"
  /\ UNCHANGED <<cardVars, decision, roleVars, hadAttacker, blockVars,
                 damageVars, events>>

(* Bug: only the attackers are told that combat is over.                  *)
FinishAttackOnly ==
  /\ todo = "advance" /\ step = "end_combat"
  /\ ResetCombat
  /\ attacking' = [c \in Creatures |-> None]
  /\ step' = NextStep[step]
  /\ todo' = "window"
  /\ UNCHANGED <<cardVars, decision, blocking, asked, wasBlocked, pending,
                 hits, fought, assigned, events>>

\* _finish_combat_phase: every object is removed from combat.
FinishCombat ==
  /\ todo = "advance" /\ step = "end_combat"
  /\ ResetCombat
  /\ attacking' = [c \in Creatures |-> None]
  /\ blocking' = [c \in Creatures |-> None]
  /\ step' = NextStep[step]
  /\ todo' = "window"
  /\ UNCHANGED <<cardVars, decision, asked, wasBlocked, pending, hits, fought,
                 assigned, events>>

\* The next combat of the seat, in a later turn.
NextCombat ==
  /\ todo = "advance" /\ step = "postcombat_main"
  /\ Active \in inGame
  /\ step' = NextStep[step]
  /\ todo' = "enter"
  /\ UNCHANGED <<cardVars, decision, roleVars, hadAttacker, blockVars,
                 damageVars, events>>

-----------------------------------------------------------------------------
Window ==
  \/ \E c \in Creatures :
       \/ Die(c) \/ StopBeingCreature(c) \/ BecomeCreatureAgain(c)
       \/ LeaveCombat(c)
       \/ \E seat \in Seats : ChangeControl(c, seat)
       \/ \E ability \in StrikeAbilities : ChangeStrike(c, ability)
       \/ \E r \in Recipients : TokenAttacks(c, r)
  \/ \E w \in Walkers : RecipientGoes(w)
  \/ \E seat \in Seats : Lose(seat)
  \/ CloseWindow

Declare ==
  \/ EnterDeclareAttackers \/ DeclareAttackers \/ EnterDeclareBlockers
  \/ \E seat \in Seats : AskDefender(seat) \/ SkipDefender(seat)
  \/ NoMoreDefenders \/ DeclareBlockers

Damage == EnterDamage \/ (\E seat \in Seats : Announce(seat)) \/ ApplyDamage

Steering ==
  \/ BeginCombat \/ EnterEndCombat \/ AdvanceToEnd \/ AdvanceToSecondDamage
  \/ Advance \/ FinishCombat \/ NextCombat

Next == Window \/ Declare \/ Damage \/ Steering

Spec == Init /\ [][Next]_vars

-----------------------------------------------------------------------------
(* Properties.                                                             *)

\* Every variable keeps to its set, and somebody is asked exactly while the
\* engine waits for a declaration.
TypeOK ==
  /\ inGame \in SUBSET Seats
  /\ control \in [Creatures -> Seats]
  /\ form \in [Creatures -> {"coming", "creature", "other", "gone"}]
  /\ strike \in [Creatures -> StrikeAbilities]
  /\ standing \in SUBSET Walkers
  /\ step \in Steps /\ todo \in Calls
  /\ decision \in Seats \cup {None}
  /\ decision = None <=> todo \notin {"attack", "block"}
  /\ attackers \in [Creatures -> Recipients \cup {None}]
  /\ blockers \in [Creatures -> SUBSET Creatures]
  /\ attacking \in [Creatures -> Recipients \cup {None}]
  /\ blocking \in [Creatures -> Creatures \cup {None}]
  /\ {blocked, wasBlocked, ordinary, fought} \subseteq SUBSET Creatures
  /\ {hadAttacker, initialized, firstStrike} \subseteq BOOLEAN
  /\ cursor \in Nat /\ damageStep \in {0, 1} /\ events \in Nat
  /\ {pending, asked} \subseteq SUBSET Seats
  /\ hits \subseteq Creatures \X (Creatures \cup Recipients)
  /\ assigned \in [Creatures -> SUBSET {0, 1}]

\* What the combat says of a creature and what its card says agree, whatever
\* happens to it, and outside of combat nothing attacks or blocks
\* (combat.attackers and combat.blockers, card.attacking and card.blocking).
RolesAgree ==
  /\ attacking = attackers
  /\ \A c, a \in Creatures : blocking[c] = a <=> c \in blockers[a]
  /\ step \in {"postcombat_main", "beginning_combat"} =>
       \A c \in Creatures : attacking[c] = None /\ blocking[c] = None

\* The damage snapshot can always be built: who fights is a creature on the
\* battlefield, an attacker is the active player's, nobody attacks and blocks,
\* and who is blocked is known to be (the CombatDamageSnapshotErrors of
\* combat_damage_snapshot.py and combat_damage_engine_adapter.py).
SnapshotCloses ==
  /\ \A c \in Fighting : form[c] = "creature" /\ control[c] \in inGame
  /\ \A a \in Attackers : control[a] = Active
  /\ \A a, b \in Attackers : b \notin blockers[a]
  /\ \A a \in Attackers : blockers[a] # {} => a \in blocked

\* An attacker is blocked only by creatures of the player it attacks, also
\* after creatures have changed sides and players have left.
DefendersBlock ==
  \A a \in Attackers : \A b \in blockers[a] :
    control[b] = DefenderOf(attackers[a])

\* Combat damage goes where it may: an attacker that was ever blocked damages
\* what it attacks only with trample, also when its blockers are gone; nothing
\* is dealt to players or permanents that have left, and creatures are damaged
\* only in combat (build_combat_damage_assignment_proposal).
DamageGoesWhereItMay ==
  \A pair \in hits :
    /\ pair[2] \in Recipients =>
         IsThere(pair[2]) /\ (pair[1] \in wasBlocked => pair[1] \in Trample)
    /\ pair[2] \in Creatures => {pair[1], pair[2]} \subseteq Fighting

\* Nobody strikes twice without double strike, whatever strike abilities come
\* and go between the damage steps (assigns_in_damage_step).
StrikesOnce ==
  [][\A c \in Creatures :
       assigned[c] # {} /\ assigned'[c] \notin {assigned[c], {}} =>
         damageStep = 1 /\ strike[c] = "double"]_vars

\* Nobody is left out: who fought when damage began and still fights when the
\* combat ends has been a source of damage (ordinary_second_step_combatants).
NobodyIsSkipped ==
  step = "end_combat" => \A c \in Fighting \cap fought : assigned[c] # {}

\* Every attacked player of the game can declare blockers before priority
\* comes, in turn order, although the list the cursor points into is made
\* anew for each of them (_issue_next_blocker).
DefendersInTurn ==
  [][/\ \A seat \in asked' \ asked :
          \A other \in AttackedDefenders : other < seat => other \in asked
     /\ todo = "next_defender" /\ todo' = "window" =>
          AttackedDefenders \subseteq asked]_vars

=============================================================================
