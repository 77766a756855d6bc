# Formal model of Quorune

Quorune is a deterministic Commander rules engine with a local multiplayer
server. Its two promises are that the engine alone decides what happens in a
game, and that a game survives: every accepted command is on disk before anybody
is told of it, and the record of a game can be replayed. This directory holds
TLA+ models of the parts whose behaviour depends on the order in which things
happen, TLC configurations that check them on small instances, and TLAPS proofs
of their main properties for every value of the constants.

`PROJECT.json` lists the runs, the mutants that show each property can fail, the
theorems, the source lines behind each definition, and the hazards the
properties are for.

- [The system](#the-system)
- [The modules](#the-modules)
- [What the runs check](#what-the-runs-check)
- [Fairness](#fairness)
- [What is proved](#what-is-proved)
- [Where the code and its documents disagree](#where-the-code-and-its-documents-disagree)
- [What is not modelled](#what-is-not-modelled)
- [Plan](#plan)

## The system

### How the parts interact

A browser sends a command envelope (protocol version, game, command identifier,
revision of its view, capability token, action) to a FastAPI route
(`server/app.py`). The route looks up the seat of the guest in the room store
(SQLite, `server/store.py`) and the game's **actor** (`quorune/runtime.py`), and
puts a message into the actor's bounded mailbox. The actor's worker handles one
message at a time. For a command it asks the **game service**
(`quorune/service.py`), which checks the envelope, looks in the idempotency
store, and hands the action to the session. The session (`quorune/session.py`)
authorizes it by capability and calls the **engine** (`quorune/engine.py` and
its owners), which runs one transaction: answer the pending decision, then run
turns, priority, triggers and state-based actions until somebody has to decide
again. An accepted command is journalled and the whole **Game Record**
(`quorune/record.py`) is saved in a thread, then the row of the control plane is
updated, then the receipt is stored and sent. Streams (`ProjectionHub`) are
told that a revision is there, and each viewer observes the game through a
**projection** that hides private zones.

| Part | State it keeps | Operations | What makes it correct |
|---|---|---|---|
| Game actor, command service | mailbox, worker, failure and closed flags, session in memory, idempotency store, control-plane row | command, observe, poll, pause, resume, close; save; load | what is acknowledged is durable; a command counts once; a failed actor serves nobody; declines change nothing |
| Game Record | the files of one directory | save (file by file), load, replay, verify | whatever a process leaves behind loads, replays and contains what was acknowledged |
| Turns, steps, priority | active player, step, extra turns, priority holder, passes, yields | answers of the holder; enter, advance, begin turn, grant, pass, cleanup | turns rotate, everybody has a say, the engine never waits for nobody |
| State-based actions, elimination | who is in the game, losses to come | stabilize, eliminate, concede | losses are simultaneous, the last seat wins, nothing of a departed seat stays |
| Trigger batches and the stack | waiting groups, stack objects, ordering decision | enqueue, place in APNAP order, order, resolve | every trigger reaches the stack before priority, in order |
| Capabilities and decisions | pending decision, responses, tokens | issue, authorize, record, close, reissue | a token is good once, for one decision and one seat, also after a restart |
| Mulligans | round, declarations, penalties, hands | declare, redraw, bottom | nobody redraws before all have declared; the game starts when all have kept |
| Combat | attackers, blockers, damage steps; the same roles on the cards | declare, block, leave combat, announce, deal | combat and cards agree; damage goes where it may; everybody strikes as often as the strike abilities say |
| Rooms, decks, seats | rooms, seats, members, decks, invites | create, join, save deck, replace, leave, start | a started game has the seats and decks that were ready |
| Browser streams, web client | version and event per game; cursor and handler per connection; what a page shows | notify, wait, send; connect, ingest, retry | no viewer sleeps through a change, no packet is refused, a page only advances |
| Mana, costs, casting | pools, payments, undo stack, continuations | pay, undo, commit | a cast happens with all its costs or not at all |
| Zones and drawing | zones, draw instruction, queued draws, choices | draw, replace, reveal, mill | no draw is lost or made twice, limits and mandatory effects hold on every way to a draw |
| Replacement effects | pending event, applied effects | choose, apply | each effect applies at most once to an event |
| Continuous effects, keyword rules, card programs, compiler, card data, pilots, tools | rules data, caches | some hundreds of deterministic functions | see "What is not modelled" |

### What is hard

- **Concurrency.** One event loop, one worker per game, senders suspended before
  a full mailbox, a save in a thread, and `close`, failure and process exit at
  any await.
- **Failure.** A crash between any two files of a save, or between the save, the
  row and the receipt; writes that raise; an engine that raises.
- **Retries.** A client whose answer was lost sends the same command again,
  also after a restart, also with a newer view.
- **Protocol of the rules.** Players leave in the middle of rounds of
  priority, of combats, of their own turn; extra turns, triggers with an order to
  choose, cleanup steps that repeat, yields that pass for a seat.
- **Progress.** The engine runs a chain of calls after each answer; it has to
  stop, and it has to stop with a question that somebody can answer.
- **Connections.** A page loses its connection and opens another while the old
  handler still runs; a message of the page cancels a wait that has just been
  fulfilled; packets of an old connection are still being ingested.
- **Two places for one fact.** Seats and members of a room, the combat and its
  cards, the record on disk and the row of the game say the same thing twice.
- **Choices in the middle.** A draw, a mulligan, a declaration of blockers or of
  damage stops for an answer and goes on with what it stored before.

There are no timeouts in the engine; the only one of the server is the ping of a
stream. The clients' side of the network is the loss and repetition of requests
and the loss of connections.

## The modules

Definitions under a comment that begins with "Bug:" are alternatives that no specification
uses: each is a plausible mistake in the code, against which a property is
tested. They are not part of the models.

| Module | What it is |
|---|---|
| `CommandLedger` | What the command boundary promises: an append-only ledger, one entry per identifier, one fate per request. |
| `GameActor` | One game of the server: mailbox, worker, checks, save, idempotency store, crash and restart. Implements `CommandLedger`. |
| `GameRecord`, `RecordEnds` | The files of one record, the steps of a save, what a restart reads, replay; and the same with a history of where processes ended. |
| `TurnPriority`, `PriorityRounds` | Turn order, steps, priority, elimination and trigger placement of the engine; and the same with a history of who has been heard in the round. |
| `Decisions`, `Mulligan` | The pending decision and its capabilities, as operators; the opening hands, which use them with simultaneous answers, late answers and restarts. |
| `Combat` | The combat phase from the first step to the end, and what cards do to it in between. |
| `Drawing` | The draw instructions of a resolving object, with prohibitions, replacements and reveals. |
| `GameViews` | What the streams of a game promise its pages. |
| `GameStream` | The hub, the handlers of connections, their cursors, and the pages. Implements `GameViews`. |
| `Rooms` | The control plane's tables, its operations, and the start of a game. |
| `...Proofs` | The theorems of the module they are named after; those of `PriorityRounds` are in `TurnPriorityProofs`. |
| `MC...` | The instances of the runs. |

The modules meet at what each takes for granted of another. `GameStream` counts a
revision when it is saved, which is `SeenIsDurable` of `GameActor`. `GameActor`
writes the record in one step and `GameRecord` shows what the single files may
look like. `Rooms` takes the status of a game from the actor's save, which is
the `games` row of `GameActor`. `Mulligan` ends where `TurnPriority` begins.
`Combat` refines one answer of `TurnPriority` ("combat") without being formally
composed with it, and the draw step of `TurnPriority` begins what `Drawing`
carries out for an object.

### GameActor

A handler of the event loop is atomic up to its awaits. The worker awaits in one
place that matters, the save: `stage` says how far it is ("record", "games",
"reply"), and requests, `close` and crashes may fall between.

| Model | Code |
|---|---|
| `actor`, `failed`, `closed` | presence of the actor in `GameManager`, `_failure`, `_closed` |
| `mailbox`, `putters` | the `asyncio.Queue`, and the tasks suspended in its `put` |
| `sess`, `disk`, `games`, `idem` | the session, the Game Record, the control-plane row, `IdempotencyRepository` |
| `acked`, `seen` | histories: receipts given, highest revision shown |
| `Request`, `Wake`, `Close`, `Stop` | `GameActor._request`, the queue, `close`, the stop message in `_run` |
| `Observe`, `Replay`, `Decline`, `Execute`, `Pause`, `Resume`, `KeepLifecycle` | the branches of `_run` and `_handle_command` |
| `SaveRecord`, `UpdateGames`, `Reply`, `SaveFails` | `_persist` and the server's persistence callback |
| `Crash`, `Exit`, `Load`, `Publish` | end of the process; `ServerRuntime.actor` |
| `AnswerElsewhere` | the actor of another game that declines a request naming this one |

The engine is a choice among the outcomes the service tells apart: another
decision of some pilots, one of the arbiter, an unsupported effect, the end. The
revision is the length of the journal, because nothing else increments it. The
record is written in one step here.

### GameRecord

`WriteFile` replaces one file per step in the order of `write_record`:
`checkpoint.json`, `commands.jsonl`, `events.jsonl`, `initial` checkpoint,
`manifest.json`. The three files written in place (`cursors.json`,
`pilot-profiles.json`, `plans.json`) are truncated and then filled. `EndPoints`
are the steps at which a process may end; `Load` is what the next one makes of
the files. The state is the sequence of requests whose effects it has, so equal
states are equal hashes, and replay compares the state before and after each
command of the journal.
`semantics.json`, `opportunities.jsonl`, `decisions.jsonl` and derived files are
left out: nothing a restart decides depends on how far they lag.

### TurnPriority

The engine is sequential, and the calls between two questions are tail calls, so
the chain is one variable, `todo`: the call about to be made, or "answer" while
the engine waits. A seat is its position in `turn_order`.

| Model | Code |
|---|---|
| `activePlayer`, `lastNormal`, `extraTurns`, `phaseIndex` | fields of the same names in the game state (`last_normal_turn_player`) |
| `stack`, `waiting`, `doomed` | stack objects per controller, controllers of pending trigger groups, seats that meet a loss condition |
| `priorityPlayer`, `priorityPasses`, `yields`, `decision` | `priority_player`, `priority_passes`, yield policies, `pending_decision` |
| `raised` | the error that takes the answer back. It ends the model; in the program the answer is declined or the actor fails, and other answers may still be possible |
| `EnterDraw`, `RefuseDraw`, `AnswerDraw` | the draw of the draw step: it begins, is refused for an active player who has left, or asks and goes on |
| `EnterUntap` ... `EnterCleanup`, `AdvanceStep`, `FinishCleanup` | `enter_step`, `advance_step`, `finish_cleanup` of `turn_step_owner.py` and the step handlers of `engine.py` |
| `BeginExtraTurn`, `BeginNormalTurn` | `select_next_turn`, `next_normal_player`, `begin_turn` |
| `GrantPriority`, `PumpPass`, `PumpAsk`, `PassPriority` | `turn_priority_owner.py` |
| `Stabilize`, `Leave`, `PriorityAfterLeaving` | `_stabilize`, `_eliminate_players` |
| `PlaceGroups`, `AnswerOrder` | `begin_pending_trigger_batch`, `complete_trigger_order` |
| `AnswerPass`, `AnswerCast`, `AnswerMana`, `AnswerSpecialAction`, `AnswerConcede`, `AnswerAttackers`, `AnswerCombat`, `AnswerDiscard` | the completions of the decisions |

What cards do is the environment's: at a resolution, an action or the beginning
of a step, seats may come to lose, abilities may trigger, an extra turn may be
given. `MaxEvents` bounds how many of these things happen in all; turns go on
for ever. A yield may be invalidated at any time. A cleanup step may find that
something else happened in it (other state-based actions).

`AutoPass` is `config.auto_pass_empty_priority`: FALSE at tables of the server
(`server/app.py:1026`), TRUE by default for the command line.

### PriorityRounds

`unheard` is the set of seats of the game that have not passed since the window
opened and since anybody last acted in it. It observes the engine and never
restricts it.

### RecordEnds

`torn` remembers whether a process has ever ended between the first and the last
file of a save. What holds only of records that no process has left torn is
stated as `~torn => ...` (`WholeUnlessTorn`), so that one run checks both.

`Served` is `CommandLedger` once more, over what the files say: the requests in
the checkpoint are its ledger, what clients were told are its receipts. It is
the abstract specification of the actor, too, whose save is one step; here the
save is one file after the other, and `LedgerUnlessTorn` says that nobody can
tell the difference until a process ends inside it.

### Decisions and Mulligan

`permissions` is the `CapabilityManager` with the pending decision; `Respond`,
`Complete`, `Close` and `Reissue` are its methods. `Submit` is one transaction
with any token that was ever given out: an answer that the engine refuses leaves
the state of before, so it is no step. Hands are counted. Which cards they are,
and whether a hand counts as functional, is the fitness of an answer.

| Model | Code |
|---|---|
| `hand`, `taken`, `kept`, `round` | hands, `mulligans_taken`, `kept_hand`, `mulligan_round` |
| `OpenRound`, `CompleteDeclaration`, `Redraw`, `CompleteBottom` | `_begin_mulligan_round` and the completions of `engine.py` |
| `Restart` | a load: `CapabilityManager.reissue` |

### Combat

| Model | Code |
|---|---|
| `attackers`, `blockers`, `blocked`, `hadAttacker`, `cursor`, `damageStep`, `initialized`, `firstStrike`, `ordinary` | the fields of `CombatState` |
| `attacking`, `blocking` | the fields of the cards |
| `EnterDeclareAttackers`, `DeclareAttackers`, `AskDefender`, `SkipDefender`, `NoMoreDefenders`, `DeclareBlockers` | `_issue_attackers`, `_complete_attackers`, `_issue_next_blocker`, `_complete_blockers` |
| `EnterDamage`, `Announce`, `ApplyDamage` | `_initialize_combat_damage_steps`, `_continue_combat_damage_assignments`, `_apply_combat_assignments` |
| `Die`, `StopBeingCreature`, `ChangeControl`, `LeaveCombat`, `TokenAttacks`, `ChangeStrike`, `RecipientGoes`, `Lose` | what cards and players do while players have priority, with the `_stabilize` that follows |
| `asked`, `wasBlocked`, `fought`, `assigned` | histories, for the properties |

The declarations choose any creature of the declaring seat: restrictions,
requirements, costs and evasion only make the choice smaller, and what paying
costs uses up is chosen too (`spent`). Damage is who damages whom, without
amounts; what was damaged may die, regenerate, lose or go. The check that an
announcement is not stale cannot fail, because nothing happens between the
announcements of one step. First strike is looked for among blockers whose attacker
has gone as well, as the code does. Phasing is left out: no code sets
`phased_out`. `end_turn_now` resets the combat without its cards, and the cleanup
step that it goes to clears them.

One seat attacks, again and again (`NextCombat`); seats are numbered from it.

### Drawing

| Model | Code |
|---|---|
| `current`, `queue` | the draw that is carried out and `queued_draws` of `DrawResume`, each with the effects it results from |
| `effects` | the instructions with which the resolution continues |
| `decision` | the pending `draw.replacement` or `draw.reveal` |
| `drawn`, `attempted` | cards drawn this turn; players who drew from an empty library |
| `Prohibited` ... `NextQueued` | the loop of `_continue_draw_sequence` |
| `ChooseReplacement`, `ChooseDraw`, `AnswerReveal` | `complete_draw_replacement`, `complete_draw_reveal` |
| `Commit`, `DrawFromEmpty`, `MillAndReturn` | the commits of `transaction.py` |

The battlefield is constant: nothing enters or leaves it and nobody can
concede while a draw waits for a choice. `Owed` is what a player is still to draw:
each draw under way is worth a power of two, by the doubling effects that have
not applied to it yet (`Shares`), and the tickets of all of them are counted, so
that replacing a draw by two owes exactly what it owed. The order of a library is
open until a card is looked at. The permission to draw is looked up before the choices about
a draw and not again after them, as in the code.

### GameStream and GameViews

| Model | Code |
|---|---|
| `told`, `hub`, `result` | version and event of `ProjectionHub`, the task in `wait`, what it returned |
| `stream`, `version`, `inbox` | the handler of `game_stream`, its `version`, messages it has not received |
| `cursor` | the session's projection cursors |
| `owed` | changes whose request handler has not called `notify` yet |
| `wire`, `chain`, `view`, `first`, `closed` | packets under way, the ingestion chain of `App.tsx`, what the page shows, and its connections |

A view is known by its revision: equal revisions are equal hashes. Observing and
sending are one step. One page with two connections that overlap is the case in
which cursors, tasks and packets of one principal could be confused.

### Rooms

An operation is one SQLite transaction, and no handler awaits between two of
them, so an operation is a step; what it refuses is none. Only the end of the
process falls between the two writes of a start. Guests may use any invite code
that was ever given out. A record that no room leads to is allowed (it is what a
crash leaves), and so are rows of decks that a newer deck has replaced.

## What the runs check

| Run | Instance | States | What it shows |
|---|---|---|---|
| `actor_retries` | 2 seats, 1 sender; a command, the same identifier for another action, and the same command from a newer view; 2 faults; 2 revisions | 258,084 | `CommandLedger` is implemented: nothing acknowledged is lost, nothing is applied twice, each request has one fate; memory, record and row agree between messages, pauses hold, the record stays loadable |
| `actor_mailbox` | 2 senders, mailbox of 1; a command, one of an outdated client, one naming another game; 1 fault; fair | 167,028 | nobody reads what a crash can take back; what reached the mailbox leaves it; `close` ends the worker |
| `record` | 4 requests, 2 ends anywhere | 99,396 | the order of writes keeps what was acknowledged in every file that matters, no effects twice, a restart at rest changes nothing; unless a save was torn, the record replays, loads, and shows an unsupported effect as a pause, and checkpoint and answers implement `CommandLedger` |
| `turn_table` | 3 seats, 2 events, concessions, no automatic passes; fair | 355,221 | the scheduler never waits for a departed seat and keeps nothing of it, turns rotate, the last seat wins, everybody has a say in each round; the engine stops, and every seat has its turn again and again |
| `mulligan` | 4 seats, one free mulligan, hands of 3, 2 restarts, two careless clients; fair | 11,982 | tokens, answers and rounds stand through late answers and restarts, and the game starts |
| `combat` | 3 seats, a creature with first strike and a token with trample against a creature, and a creature with double strike and a planeswalker; 2 events | 1,343,734 | combat and cards agree, the damage snapshot can be built, damage goes where it may, nobody strikes too often, each defender is asked once, in order |
| `drawing` | 3 players with doubling effects, dredge, a limit and reveals; every sequence of 3 instructions of 1 to 3 draws; fair | 122,031 | who may reveal the first card of its turn is asked before it is drawn, what a replacement results in comes first, no draw is lost or made twice, the instructions end |
| `streams` | 1 page, 2 connections, 2 changes, 1 message; fair | 346,607 | no wake-up is lost, no packet is refused, pages only advance (`GameViews`) and catch up without the timeout |
| `rooms` | 2 rooms, 3 guests, 2 seats, 3 decks, 2 games, 3 codes | 80,822 | the tables and the records agree, decks belong to their seats, roles and members agree, no game is without its record |
| `actor_conflict`, `turn_concede`, `turn_departed` | small | | the findings below |

The runs do not repeat everything that is proved. The type invariants, and the
properties named below that no cfg lists, were model-checked on these instances
before they were proved; they stay with the theorems, which cover every
instance.

### Why the bounds are enough

- **Actor.** One identifier suffices for reuse, two seats for equal identifiers
  of different seats. Two faults are a failed save and a crash after it, or a
  crash of the process that recovers from a crash. Two revisions tell a stale
  view from a fresh one. A mailbox of one with two senders has every case of
  room and no room; a third message only queues behind.
- **Record.** Four requests: two that compete for the first view, one each for
  the next two. Two ends: a second process that inherits torn files and ends in
  the middle of repairing them.
- **Table.** A table has two to four seats; three is the least number at which
  a departure leaves a game to go on with, at which the next seat is not simply
  the other one, and at which two can lose together. (Four seats with two
  events are beyond five minutes; `turn_concede` uses four.) Two events are
  enough for an object with an effect, two seats losing together, two groups of
  triggers, an extra turn. Sequences of several extra turns are covered by the
  proof only.
- **Mulligan.** Four seats are a full table. `MaxTaken` is what the hand allows
  with the free mulligan; beyond it no answer fits any more (`engine.py:1728`),
  and that case is kept out. Two restarts give a decision a second generation
  of reissued tokens.
- **Combat.** Two defenders are needed for an order among them and one with a
  planeswalker for a defender who is not the recipient. Each strike ability
  occurs and can change. Two events: what leaves or changes, and what happens to
  the rest of the combat after it. More are covered by the proof.
- **Drawing.** Two doubling effects of one player make replacements inside of
  replacements, with a choice of their order; dredge beside them makes a mixed
  choice. Three instructions let every player's turn come before and after
  every other's.
- **Streams.** Two connections overlap; a third would only follow a second. Two
  changes are one that a handler has seen and one that it has not. The theorems
  cover any number of pages, connections and changes.
- **Rooms.** Three guests are an owner, another player and somebody who comes
  back or watches; two rooms are a room and its replacement. `Seats` stands for
  two or four seats, which no operation distinguishes.

The runs of actor, record, combat, mulligan and streams say `CHECK_DEADLOCK
FALSE`: a game nobody plays may stop, a torn record keeps a game from loading, a
game that is over does not go on, opening hands and streams come to rest. The table, the rooms and the drawing never
deadlock: a stuttering `Finished` step is the only way to stand still where there
is an end.

## Fairness

All fairness is weak: nothing disables the steps concerned but their own doing or
a crash.

- **Actor** (`FairSpec`): the event loop runs a worker that has a message, a
  sender that has room, and a save that has started comes to an end. Nobody is
  obliged to send, to close or to fail.
- **Table**: `EngineStops` needs only that the engine's own calls run, which is
  what a synchronous call does. `EverySeatHasItsTurn` assumes as well that seats
  answer. No clock in the engine enforces this; a table where a player walks
  away stops, and the property says that this is the only way. A seat with a
  yield lets turns pass without being asked, and the yield is forgotten when its
  own turn begins; without that line the engine would run for ever.
- **Mulligan**: some client that can go on with a fit answer does so.
- **Drawing**: the loop runs, and players answer.
- **Streams**: the event loop runs the tasks that are ready, and an open page
  reads what it receives and connects again. Nothing makes the game change, a
  page speak or a connection last, and the timeout of a stream is not used.

Records, rooms and combats have no liveness of their own.

## What is proved

TLAPS checks these for every value of the constants that meets the named
assumptions of the modules. So neither the number of seats, players, clients,
pages, rooms, creatures or cards nor that of requests, faults, restarts or
events matters to them. Each proof module has its type invariant as
`TypeCorrect`; `PROJECT.json` lists the theorems a reader should know of. None of the invariants below follows from its property
alone; each is named `IInv`, `RInv` or `StreamInv`.

**GameActor.** `TypeCorrect`, `Durability`, `OncePerCommand`,
`RequestsHaveOneFate`, `ReadsAreDurable`, `NothingSeenIsLost`,
`FailureIsFinal`, `NobodyWaitsForAnArbiter`, `PausesHold`, `RestartsLoad`,
`RejectionsAreHarmless`, `OnlyFaultsFail`, `OneRequestEach`, `ClosingRunsOut`,
`MailboxMovesUp`, and `Refinement`: the actor implements `CommandLedger`. Whether
an identifier is used twice depends on what the store remembers, which depends on
what the journal holds and how far a save has come. `IInv` says for each stage how far memory is
ahead of the disk (`MemoryInv`), that the command being saved is new
(`JournalInv`), that the store has the receipt of every journalled command
except the one being saved and except while no actor is there (`RememberedInv`),
that it calls nothing accepted that is not in the journal (`StoreInv`), and that
every answer given is stored (`AckInv`). `RestartsLoad` assumes that no request
reaches the actor of another game (`Misdirected = {}`; see below), and adds
that the key of a command being saved is free (`FreshInv`). `PausesHold` and
`NobodyWaitsForAnArbiter` rest on `StatusInv`, about what a settled session may be.
For the refinement each step maps to `Commit` (the record is written), `Confirm`
or `Decline` (an answer is given), or a stutter.

`RejectionsAreHarmless` and `OnlyFaultsFail` say how far finding 1 reaches. They are
about clients whose requests are current, name this game (`ToThisGame`) and have
an identifier of their own (`OwnIdentifiers`). The web client is one: it draws a
random identifier for each command (`web/src/App.tsx:1098`) and repeats a request
as it was (`App.tsx:1510`). No declined command costs such clients their actor, and
an actor that no misdirected request reaches either (`Misdirected = {}`) fails of
nothing but a fault of the engine or the storage. `KeyedInv` is
the strengthening: the store has a record only under the key of the request that
the record is for, so a request that the store does not replay finds its key free.

The mailbox has an invariant of its own, `QueueInv`: a caller's request is in one
place only, the mailbox, among those that wait for room, or with the worker
(`OneRequestEach`), and a stop message is in the mailbox or waits for room when the
actor is closed and runs, and never before it is closed. From it, `ClosingRunsOut`: a message
that waits weighs 8, one in the mailbox 4, and a save the steps left of it, and
whatever touches the queue or a save of a closed actor lowers the sum. And
`MailboxMovesUp`: what reached the mailbox of an open actor stands before any
stop message, and nobody in it is overtaken or left behind.

**GameRecord.** `TypeCorrect`, `MarkerComesLast`, `Durability`,
`NoSecondEffect`, `OrderOfWrites`, `RestartIsFaithful`. `IInv` says what each
file holds at each step of the save (`ProgressInv`), that a state has the
effects of a request at the revision it was made for (`OrderInv`), and that the
journals are covered by the states they may be combined with (`CoverInv`).
`Durability` holds because `checkpoint.json` goes first: the journal on disk is
covered both by the old and by the new checkpoint. `RestingGamesReplay` and
`RestartsLoad` are about `RecordEnds`: as long as no save is torn, the session
is what its journal leads to (`LeadsAppend`: one more command leads to its
state), and between two saves the directory agrees with itself (`Settled`),
whichever process wrote it. `WholeRecords` is the two together.
`SavesAreOneWrite` is the refinement of `CommandLedger`: writing the checkpoint is
its `Commit`, the answer its `Confirm` or `Decline`, every other file a stutter;
what is proved beside the invariant is that an answer "accepted" names the
position at which the checkpoint has the request, and that a request is
declined only if the checkpoint does not have it. `OneGap` says which end breaks
this: if no process ends with the checkpoint written and the journal not, the
record implements the ledger without any proviso, wherever else processes end.

**TurnPriority.** `TypeCorrect`, `Departures`, `NoHang`, `Ending`, `QuietEnd`,
`Rotation`, `Heard`, `PassesOnce`, `DuelNeverFails`, `EngineRunsOut`,
`TurnsComeRound`. The
strengthening is which call may find which state (`Table`,
`Control`, `Window`, `Holder`): no decision is pending while the engine runs;
while a seat has priority no trigger waits and nobody is about to lose, which is
why a concession need not stabilize; and the holder is in the game except between
an action and the question that follows it. `Holder` excludes tables with
automatic passes, where a seat that has just been eliminated may hold the
priority until it is passed for it. `Heard`, about `PriorityRounds`: at a table
whose seats pass for themselves a round ends only when every seat has passed
since the last action. `Rounds` is that a seat that has not been heard is in the
game and has not passed.

Two theorems bound the findings about the turn engine. `PassesOnce` assumes two
seats or a table where nobody concedes; then no round has a seat twice
(`OInv`: every seat between one that has passed and the holder, in turn order,
has passed as well, and the holder has not). So a concession at a table of three is the
only way to that error. `DuelNeverFails` assumes two seats; then none of the
three errors of the model can be raised, because whoever leaves ends the game.

`EngineRunsOut` is what `EngineStops` is about, without fairness: at a table whose
seats pass for themselves each call of the engine leads to a question or makes
`Rank` fall. Its seven natural numbers are compared from the first on:
what cards can still do (seats of the game and unused events), whether the turn of
a seat that will be asked is still to come, the steps left in the turn, the
triggers waiting, the objects on the stack, the place of the call in the chain,
and the passes left in the round. The second is why the engine cannot go round
the table past yields for ever: a yield is forgotten when its seat's turn begins,
and that seat has the first window of its turn.

`TurnsComeRound` counts answers as well, for one seat and at every table: until the
seat begins a turn, leaves, or the game ends or fails, each step of Next makes
`Ahead(s)` fall, nine natural numbers compared from the first on. They are what
cards can still do, the distance of the seat from the last normal turn, the extra turns,
the steps of the turn, the triggers, the stack, the place in the step (questions
among the calls), the passes left, and the questions left at that place. A draw
that asks again changes nothing at all. `Ordered` is needed for it: a seat that
is asked to order its triggers still has them waiting.

**Mulligan.** Every invariant and action property of the run, the sizes of hands
(`HandsFit`), that a seat that has kept is never asked again
(`KeepingIsFinal`), and that opening hands run out (`OpeningHandsRunOut`): the
answers still to come are at most `2 * N * (MaxTaken + 1)`, two for each player in
each round that the mulligans left allow; each accepted answer starts the game or
lowers their number (`Ahead`), and a restart takes none of it back. `MaxTaken` is
the model's bound: it stands for the clients' not taking more mulligans than their
hands can bottom. `Taking` says that no seat has taken more than that, and that
one about to take another has one left. `IInv` says that
the capabilities are those of the pending decision, one for each actor that has
not answered (`Tokened`), who still declares and who has declared
(`Declaring`), and that a fit answer is possible with the hand (`Bottoming`).

**Combat.** Every property of the run, that blockers are those of the defender
(`BlockersAreDefenders`), and that no attacker or blocker that should deal damage
is passed over (`EverybodyStrikes`). Beside the roles (`RolesAgree`,
`DefendersBlock`), `IInv` has the roster (who attacks is a creature of the active
player, who blocks is one of a player in the game, the blockers of attackers that
have gone included), the order of defenders (the cursor is the number of attacked
defenders asked, and nobody blocks who was not asked: `BlockOrder`), and the
bookkeeping of the two damage steps (`DamageSteps`, `DamageDealt`): who has been
a source and who is still to be one.

**Drawing.** Every safety property of the run and `TypeCorrect`, `Limits`,
`DoublersAlwaysApply`, `InstructionsRunOut`. `IInv` adds what an answer may rely
on (`Choices`): the draw a choice is about is still to be made and permitted, and
a card that may be revealed is in the library of a player whom no doubling
effect applies to any more. Only a player's own instruction draws while it is
asked, which is why the permission of before the choice is still good.
`DrawsAreCounted` (`EveryDrawCounts`) counts tickets: a draw stands for the
subsets of the doubling effects left to it, and halving those (`HalfTheSubsets`)
is what makes the two draws that replace it worth the same. A queue of any length
is a disjoint union of its draws (`Heap`), so no induction over it is needed.
`InstructionsRunOut` counts the nodes of the trees that the draws may unfold into,
and between two draws the questions that may still come (`Patience`).

**GameStream.** `TypeCorrect`, `NoLostWakeUp`, `PacketsApply`, `PagesComeCloser`,
and `Refinement`: the streams implement `GameViews`. `HubInv`: a handler
that waits has seen the game as it is, or a change is still to be announced, or
the hub has gone beyond the version it waits for. `PageInv`: what a page has
received and what is on its way continue each other and the cursor of the
connection in use. For the refinement, `Aging`: what a page shows, what it has
received and what is on its way are ever later revisions.

`PagesComeCloser` has three parts. A page that does not show the game as it is has
something coming: `Behind` lists the guards of the steps that are then possible.
Each of these steps lowers `Ahead(p)`, eight natural numbers compared from the first
on: the changes and messages still possible (by the model's bounds), the
connections left, the changes to announce, and for the connection in use the
messages to receive, the versions to see and the handler's stage, last the packets.
And no step of any actor raises them; a timeout leaves them as they are. It needs
`TaskInv` (the result of a hub's task is beyond the version its handler has, so taking it
is progress) and `SpareInv` (a page whose connection is closed has another, since
nothing is refused).

**Rooms.** Every property of the run, and that the line-up of a started game stays
as it was (`LineupIsFixed`). `IInv` adds that the game of a start between
its two writes is that of an open room whose line-up is the saved one.

Only model-checked are the liveness properties (`MailboxIsServed`, `CloseStops`,
`EngineStops`, `EverySeatHasItsTurn`, `GameStarts`, `PagesCatchUp`,
`InstructionsEnd`), since the prover handles neither fairness nor ENABLED. The
safety core of each is proved, the numbers that must fall: `MailboxMovesUp`,
`ClosingRunsOut`, `EngineRunsOut`, `TurnsComeRound`, `OpeningHandsRunOut`,
`PagesComeCloser`, `InstructionsRunOut`. What is left to TLC is that naturals, and
tuples of them, do not fall for ever, and that a step that is possible is taken.
The three properties that runs refute are proved
under the conditions above. A table with automatic passes is covered by the
theorems and by no run.

## Where the code and its documents disagree

Each was met while modelling and read back in the code; the two of the rules
engine were also reproduced by running it.

1. **A reused identifier disables the game** (`actor_conflict`). The receipt of a
   conflict is put over the receipt it conflicts with; the store refuses, and
   the actor takes that for a durable failure (`quorune/runtime.py:293`).
2. **A concession at the end of a round of passes** (`turn_concede`), with three or
   more seats, leaves everybody else having passed; the next pass raises an
   invariant error that nothing turns into a declined command, so the actor fails
   and fails again after a restart (`quorune/engine.py:7395`).
3. **A departed player's upkeep cannot end** (`turn_departed`). The draw step is
   entered for the active player without asking whether it is still in the game,
   and the collection of replacement effects refuses a player who has left; the
   error takes back the pass that closed the upkeep, and every later one
   (`quorune/engine.py:2018`).

Further disagreements that earlier runs of these models found. No run
expects them any more; where a property would fail it is stated without them, as
named.

- A request that names another game can make that game unloadable: the declined
  receipt is stored under the game the request names (`service.py:353`); if that
  game has the command in its journal and, after a crash, not yet in the store,
  its load raises. `Loadable` is stated with `Misdirected = {}`.
- A save that ends between checkpoint and journal (`record.py:884`) leaves a game
  whose journal never again leads to its state: a load compares nothing, although
  `record.py:936-937`, `game-record.md:101-105` and `replay.md:24-25` take the
  manifest for the mark of a complete record. The client of the lost command, if
  it asks again, can be told that it was declined, although its effects are in
  the game. Before `manifest.json`, the same leaves an unsupported effect without
  its pause. Hence `WholeUnlessTorn` and `LedgerUnlessTorn`.
- Files written in place (`session.py:979`) can be empty after a crash, and the
  game does not load. Hence `WholeUnlessTorn`, too.
- A wrong choice of cards to bottom is recorded, and judged only when the last
  seat answers (`engine.py:1791`); every last answer is then refused with "must
  bottom exactly" and no seat can correct its own, although `protocol.md:53`
  says that a rejected attempt does not consume the capability. `GameStarts` is
  stated for tables on which no such answer is recorded.
- After the state-based actions of a land play (`engine.py:2794`), a mana ability
  (`mana_activation.py:183`), an activation (`rules/activation/commit.py:576`),
  a cast (`rules/casting/commit.py:1033`) or a special action
  (`turn_priority_owner.py:255`) the priority goes back to the seat that acted,
  also if it was eliminated; "Priority belongs to a player who is not in the
  game" (`engine.py:806`) then takes the action back, so it can never be taken.

## What is not modelled

- **By choice, in the modelled parts.** Statistics and background tasks of the
  actor; provenance, fingerprints and migration of records; targets, choices and
  order of objects on the stack (an object resolves in one step); spells owned by
  other seats than their controller; the legend rule and commander zone choices;
  turns controlled by another player; undoing mana; pauses for unsupported
  effects inside a turn; the limits of 1000 transitions (`pump`) and 100 rounds
  (`_stabilize`); ending the turn while the object that ends it is still
  resolving (`turn_step_owner.py:540`); amounts, restrictions and requirements of
  combat, and attacking groups; actions after a draw, and the draw
  instructions and continuations of older records (`coordinator.py:555-587`
  applies a doubling effect again to what is left of them); a stream whose actor
  has failed; guest sessions and their expiry.
- **Mailbox order.** `asyncio.Queue` lets a new sender overtake one that was
  woken, and a sender that waited for room can put its message after the stop
  message, where nobody answers it (`runtime.py:97`, `runtime.py:306`).
  `MailboxIsServed` is about messages that reached the mailbox of an open actor.
- **A stream is only woken by those who notify.** A game that is saved by a
  handler that raises before its `notify` shows its change after the timeout
  only; `owed` supposes that handlers come to their end.
- **Rules data.** Continuous effects, keyword mechanics, counters, tokens, card
  programs and the Oracle compiler are deterministic functions over card data.
  A model would repeat their tables, and the tests of the repository check them
  card by card. They are by far the greater part of the source.
- **Input and output.** Card database and downloads, decks, the command line,
  pilots and reports, contributor tools. They are clients of the same service or
  never touch a running game.
- **Display.** What the web client shows, and its forms and automation. What it
  may send is what `GameActor` receives.

## Plan

1. *Done.* Actor and ledger, record, table and rounds, decisions and mulligans,
   combat, draw instructions, streams and pages, rooms.
2. `Stack` and `TriggerBatches`: objects one by one, resolution in parts, merged
   batches, ending the turn. `TurnPriority` is to be the abstract
   specification that it implements, and `Combat` and `Drawing` its parts.
3. Mana: payment plans, the undo stack of activations, and the continuation of a
   suspended payment. Property: a cast happens with all its costs or not at all.
4. Replacement of damage and of zone changes, as operators against a reference
   definition on bounded inputs: each effect at most once per event.
5. Composition of the actor with the record (actor and record implement the same
   `CommandLedger` now, each on its own; the one-step save of `GameActor` is to be
   replaced by the file-by-file save), and of the hub with the actor.
6. Proofs: the refinement of the stack, and of the composed actor and record.
