------------------------------ MODULE Decisions ------------------------------
(***************************************************************************)
(* The decision a game waits for and the capabilities that answer it: the  *)
(* CapabilityManager of the engine, as operators on its state.  What a     *)
(* completed decision does to the game belongs to the modules that use it. *)
(*                                                                         *)
(* A capability that is consumed is never accepted again, so only the live *)
(* ones are kept; closing a decision consumes all of them.  The code draws *)
(* 256 random bits for a token and no two are equal: here a token names    *)
(* the occasion it was issued on and its actor.  Every actor is a pilot    *)
(* who acts for its own seat, so seat and principal are one.               *)
(***************************************************************************)
EXTENDS Integers

CONSTANTS
  Seats,       \* the seats of the table
  NoAnswer,    \* an actor that has not answered
  NoDecision   \* nothing is pending

\* One fresh capability for each of these actors.
Fresh(occasion, id, actors) ==
  {[token |-> <<occasion, s>>, decision |-> id, actor |-> s] : s \in actors}

\* A decision is asked of its actors, all at once.
Issue(p, kind, actors, actions, continuation) ==
  [decision |->
     [id |-> p.counter + 1, kind |-> kind, actors |-> actors,
      actions |-> actions, responses |-> [s \in Seats |-> NoAnswer],
      continuation |-> continuation],
   counter |-> p.counter + 1,
   capabilities |-> p.capabilities
                      \cup Fresh(p.occasions + 1, p.counter + 1, actors),
   occasions |-> p.occasions + 1]

\* The capability that lets this seat answer with this action, if it holds it.
Authorized(p, seat, token, action) ==
  /\ p.decision # NoDecision
  /\ action \in p.decision.actions
  /\ [token |-> token, decision |-> p.decision.id, actor |-> seat]
       \in p.capabilities

\* Bug: the token of an answer stays valid.
RespondAgain(p, seat, token, answer) ==
  [p EXCEPT !.decision.responses[seat] = answer]

\* An answer consumes its token and is recorded.
Respond(p, seat, token, answer) ==
  [decision |-> [p.decision EXCEPT !.responses[seat] = answer],
   counter |-> p.counter,
   capabilities |-> {c \in p.capabilities : c.token # token},
   occasions |-> p.occasions]

\* The actors that a decision still waits for.
Unanswered(decision) ==
  {s \in decision.actors : decision.responses[s] = NoAnswer}

Complete(decision) == Unanswered(decision) = {}

Close(p) ==
  [decision |-> NoDecision, counter |-> p.counter, capabilities |-> {},
   occasions |-> p.occasions]

\* Bug: the actors that have answered are given a token, too.
ReissueToAll(p) ==
  IF p.decision = NoDecision
  THEN [p EXCEPT !.capabilities = {}]
  ELSE [p EXCEPT
          !.capabilities =
             Fresh(p.occasions + 1, p.decision.id, p.decision.actors),
          !.occasions = @ + 1]

\* Bug: a loaded decision is taken for answered.
ReissueNone(p) == [p EXCEPT !.capabilities = {}]

\* Tokens are not saved: whoever loads a game gives new ones to the actors
\* that have not answered.
Reissue(p) ==
  IF p.decision = NoDecision
  THEN [p EXCEPT !.capabilities = {}]
  ELSE [p EXCEPT
          !.capabilities =
             Fresh(p.occasions + 1, p.decision.id, Unanswered(p.decision)),
          !.occasions = @ + 1]
=============================================================================
