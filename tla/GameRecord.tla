----------------------------- MODULE GameRecord -----------------------------
(***************************************************************************)
(* The Game Record of one game: how a save writes its files one after the  *)
(* other, what remains of them when the process ends in between (it dies,  *)
(* or a write fails and the actor is given up), what a restart makes of    *)
(* that, and when the record still replays.                                *)
(*                                                                         *)
(* A file that is replaced (write aside, rename) is written in one step.   *)
(* cursors.json, pilot-profiles.json and plans.json are truncated and then *)
(* filled; they stand here as one file in two steps.  semantics.json,      *)
(* opportunities.jsonl, decisions.jsonl and the derived files are not      *)
(* modelled: nothing that a restart or a replay decides depends on how far *)
(* they lag.                                                               *)
(*                                                                         *)
(* The authoritative state is the sequence of requests whose effects it    *)
(* has, so equal states are equal hashes.  The actor in front of the       *)
(* record, with its mailbox and its stages, is GameActor.                  *)
(***************************************************************************)
EXTENDS Integers, Sequences, FiniteSets

CONSTANTS
  Requests,    \* what clients ask for, each under a command identifier
  View,        \* the revision of the view a request was made from
  EndPoints,   \* the points of a save, and "rest", at which the process may end
  MaxEnds,     \* bound: how many processes end
  NoRequest    \* the save answers nobody: it belongs to a start, stop or resume

Steps == {"checkpoint", "commands", "events", "initial", "manifest",
          "truncate", "text", "answer"}

ASSUME GameRecordAssumption ==
  /\ View \in [Requests -> Nat]
  /\ EndPoints \subseteq Steps \cup {"rest"}
  /\ MaxEnds \in Nat
  /\ NoRequest \notin Requests

VARIABLES
  running,   \* a process serves the game
  session,   \* the session of that process
  step,      \* the next step of the save, or "rest"
  saving,    \* the request that the save will answer
  present,   \* the files that exist in the directory of the record
  files,     \* and their contents
  store,     \* the idempotency store: the fate of each request
  told,      \* history: what the client of each request was told
  ends       \* how many processes have ended

vars == <<running, session, step, saving, present, files, store, told, ends>>

directory == <<present, files>>

-----------------------------------------------------------------------------
(* The session.                                                            *)

(* What the journal says of an accepted request.                           *)
Command(s, r) ==
  [request |-> r, before |-> s.applied, after |-> Append(s.applied, r)]

(* Who has to act: some pilots, an arbiter, nobody because an effect is    *)
(* not supported or was given up, nobody because the game is over.         *)
Decisions == {"pilots", "arbiter", "unsupported", "nobody", "over"}

NewSession ==
  [applied |-> <<>>, journal |-> <<>>, log |-> <<>>, decision |-> "pilots",
   status |-> "active", pause |-> "none"]

(* The browser has no arbiter: its decision pauses the game.               *)
BrowserBoundary(s) ==
  IF s.status = "active" /\ s.decision = "arbiter"
  THEN [s EXCEPT !.status = "paused", !.pause = "rules"]
  ELSE s

(* The session after an accepted request that leaves this decision.        *)
After(s, r, decision) ==
  BrowserBoundary(
    [applied |-> Append(s.applied, r),
     journal |-> Append(s.journal, Command(s, r)),
     log |-> Append(s.log, r),
     decision |-> decision,
     status |-> CASE decision = "over" -> "complete"
                  [] decision = "unsupported" -> "paused"
                  [] OTHER -> "active",
     pause |-> IF decision = "unsupported" THEN "rules" ELSE "none"])

(* Bug: the view of a request does not matter.                             *)
AdmitsAnyView(s, r) ==
  /\ store[r] = "unknown"
  /\ s.status = "active" /\ s.decision = "pilots"

Admits(s, r) ==
  /\ store[r] = "unknown"
  /\ s.status = "active" /\ s.decision = "pilots"
  /\ View[r] = Len(s.applied)

-----------------------------------------------------------------------------
(* The files.                                                              *)

Checkpoint(s) == [applied |-> s.applied, decision |-> s.decision]

(* Bug: the manifest describes the state before the last command.          *)
ManifestBehind(s) ==
  [status |-> s.status, pause |-> s.pause,
   final |-> SubSeq(s.applied, 1, Len(s.applied) - 1)]

Manifest(s) ==
  [status |-> IF s.decision = "over" THEN "complete" ELSE s.status,
   pause |-> s.pause, final |-> s.applied]

(* The directory of a game that was never saved.                           *)
Untouched(s) ==
  [checkpoint |-> Checkpoint(s), commands |-> s.journal, events |-> s.log,
   manifest |-> Manifest(s), text |-> "whole"]

Readable ==
  /\ "manifest" \in present
  /\ files.text = "whole"

Loaded ==
  [applied |-> files.checkpoint.applied, decision |-> files.checkpoint.decision,
   journal |-> files.commands, log |-> files.events,
   status |-> files.manifest.status, pause |-> files.manifest.pause]

(* Replay resubmits the commands from the initial checkpoint, compares the *)
(* state before and after each, and in the end the manifest's.             *)
Resubmitted(journal) == [i \in DOMAIN journal |-> journal[i].request]

JournalReplays(journal) ==
  \A i \in DOMAIN journal :
    /\ journal[i].before = SubSeq(Resubmitted(journal), 1, i - 1)
    /\ journal[i].after = SubSeq(Resubmitted(journal), 1, i)

RecordReplays ==
  /\ "initial" \in present
  /\ JournalReplays(files.commands)
  /\ Resubmitted(files.commands) = files.manifest.final

-----------------------------------------------------------------------------
(* A game that start_game has just created, whose first save begins.       *)
Init ==
  /\ running = TRUE
  /\ session = NewSession
  /\ step = "checkpoint"
  /\ saving = NoRequest
  /\ present = {}
  /\ files = Untouched(NewSession)
  /\ store = [r \in Requests |-> "unknown"]
  /\ told = [r \in Requests |-> "nothing"]
  /\ ends = 0

AtRest == running /\ step = "rest"

BeginSave(r) ==
  /\ step' = "checkpoint"
  /\ saving' = r

Accept(r) ==
  /\ AtRest
  /\ Admits(session, r)
  /\ \E decision \in Decisions \ {"nobody"} :
       session' = After(session, r, decision)
  /\ BeginSave(r)
  /\ UNCHANGED <<running, directory, store, told, ends>>

(* A request that does not fit, or that the rules refuse.                  *)
Decline(r) ==
  /\ AtRest
  /\ store[r] = "unknown"
  /\ store' = [store EXCEPT ![r] = "declined"]
  /\ told' = [told EXCEPT ![r] = "declined"]
  /\ UNCHANGED <<running, session, step, saving, directory, ends>>

(* A request that was answered before gets that answer again.              *)
Repeat(r) ==
  /\ AtRest
  /\ store[r] # "unknown"
  /\ told' = [told EXCEPT ![r] = store[r]]
  /\ UNCHANGED <<running, session, step, saving, directory, store, ends>>

Stop ==
  /\ AtRest
  /\ session.decision # "over"
  /\ session.status = "active"
  /\ session' = [session EXCEPT !.status = "paused",
                                !.pause = "administrative_stop"]
  /\ BeginSave(NoRequest)
  /\ UNCHANGED <<running, directory, store, told, ends>>

(* A resume also gives up the effect that was not supported.               *)
Resume ==
  /\ AtRest
  /\ session.decision # "over"
  /\ session.status = "paused"
  /\ session.pause = "administrative_stop"
  /\ session' = [session EXCEPT !.status = "active", !.pause = "none",
                                !.decision = IF @ = "unsupported"
                                             THEN "nobody" ELSE @]
  /\ BeginSave(NoRequest)
  /\ UNCHANGED <<running, directory, store, told, ends>>

-----------------------------------------------------------------------------
(* The save.                                                               *)

Write(here, file, contents, next) ==
  /\ running
  /\ step = here
  /\ present' = present \cup {file}
  /\ files' = contents
  /\ step' = next
  /\ UNCHANGED <<running, session, saving, store, told, ends>>

WriteCheckpoint ==
  Write("checkpoint", "checkpoint",
        [files EXCEPT !.checkpoint = Checkpoint(session)], "commands")

WriteCommands ==
  Write("commands", "commands",
        [files EXCEPT !.commands = session.journal], "events")

WriteEvents ==
  Write("events", "events", [files EXCEPT !.events = session.log], "initial")

(* The initial checkpoint is written once; it is the new session's.        *)
WriteInitial == Write("initial", "initial", files, "manifest")

WriteManifest ==
  Write("manifest", "manifest",
        [files EXCEPT !.manifest = Manifest(session)], "truncate")

(* Bug: the answer does not wait until the text is out of the buffers.     *)
TruncateAndGoOn ==
  Write("truncate", "text", [files EXCEPT !.text = "torn"], "answer")

TruncateText ==
  Write("truncate", "text", [files EXCEPT !.text = "torn"], "text")

WriteText == Write("text", "text", [files EXCEPT !.text = "whole"], "answer")

WriteFile ==
  \/ WriteCheckpoint \/ WriteCommands \/ WriteEvents \/ WriteInitial
  \/ WriteManifest \/ TruncateText \/ WriteText

(* Bug: the answer does not wait for the rest of the save.                 *)
AnswerEarly ==
  /\ running
  /\ step = "commands"
  /\ saving # NoRequest
  /\ store' = [store EXCEPT ![saving] = "accepted"]
  /\ told' = [told EXCEPT ![saving] = "accepted"]
  /\ step' = "rest"
  /\ saving' = NoRequest
  /\ UNCHANGED <<running, session, directory, ends>>

(* The receipt is stored and given to the client.                          *)
Answer ==
  /\ running
  /\ step = "answer"
  /\ step' = "rest"
  /\ saving' = NoRequest
  /\ IF saving = NoRequest
     THEN UNCHANGED <<store, told>>
     ELSE /\ store' = [store EXCEPT ![saving] = "accepted"]
          /\ told' = [told EXCEPT ![saving] = "accepted"]
  /\ UNCHANGED <<running, session, directory, ends>>

(* The process ends: it exits or dies, or a write raises and the actor     *)
(* serves nobody until the next process.                                   *)
End ==
  /\ running
  /\ step \in EndPoints
  /\ ends < MaxEnds
  /\ ends' = ends + 1
  /\ running' = FALSE
  /\ session' = NewSession
  /\ step' = "rest"
  /\ saving' = NoRequest
  /\ UNCHANGED <<directory, store, told>>

(* Bug: an arbiter's decision pauses the game in memory only.              *)
LoadUnsaved ==
  /\ ~running
  /\ Readable
  /\ running' = TRUE
  /\ session' = BrowserBoundary(Loaded)
  /\ store' = [r \in Requests |->
                 IF \E i \in DOMAIN files.commands :
                      files.commands[i].request = r
                 THEN "accepted" ELSE store[r]]
  /\ UNCHANGED <<step, saving, directory, told, ends>>

(* Bug: the receipts of the journal are not given to the store.            *)
LoadWithoutReceipts ==
  /\ ~running
  /\ Readable
  /\ running' = TRUE
  /\ session' = BrowserBoundary(Loaded)
  /\ step' = IF session' = Loaded THEN "rest" ELSE "checkpoint"
  /\ UNCHANGED <<saving, directory, store, told, ends>>

(* The first request after a restart reads the files back, gives the       *)
(* receipts of the journal to the idempotency store, which refuses one it  *)
(* contradicts, and saves the game if an arbiter's decision paused it.     *)
Load ==
  /\ ~running
  /\ Readable
  /\ \A i \in DOMAIN files.commands :
       store[files.commands[i].request] # "declined"
  /\ running' = TRUE
  /\ session' = BrowserBoundary(Loaded)
  /\ store' = [r \in Requests |->
                 IF \E i \in DOMAIN files.commands :
                      files.commands[i].request = r
                 THEN "accepted" ELSE store[r]]
  /\ step' = IF session' = Loaded THEN "rest" ELSE "checkpoint"
  /\ UNCHANGED <<saving, directory, told, ends>>

Next ==
  \/ \E r \in Requests : Accept(r) \/ Decline(r) \/ Repeat(r)
  \/ Stop \/ Resume
  \/ WriteFile \/ Answer
  \/ End \/ Load

Spec == Init /\ [][Next]_vars

-----------------------------------------------------------------------------
(* Properties.                                                             *)

Commands ==
  [request : Requests, before : Seq(Requests), after : Seq(Requests)]

Statuses == {"active", "paused", "complete"}

Pauses == {"none", "administrative_stop", "rules"}

Sessions ==
  [applied : Seq(Requests), journal : Seq(Commands), log : Seq(Requests),
   decision : Decisions, status : Statuses, pause : Pauses]

Checkpoints == [applied : Seq(Requests), decision : Decisions]

Manifests == [status : Statuses, pause : Pauses, final : Seq(Requests)]

FileNames == {"checkpoint", "commands", "events", "initial", "manifest", "text"}

Directories ==
  [checkpoint : Checkpoints, commands : Seq(Commands), events : Seq(Requests),
   manifest : Manifests, text : {"whole", "torn"}]

(* Every variable has the type of the object or the files it models.       *)
TypeOK ==
  /\ running \in BOOLEAN
  /\ session \in Sessions
  /\ step \in Steps \cup {"rest"}
  /\ saving \in Requests \cup {NoRequest}
  /\ present \subseteq FileNames
  /\ files \in Directories
  /\ store \in [Requests -> {"unknown", "accepted", "declined"}]
  /\ told \in [Requests -> {"nothing", "accepted", "declined"}]
  /\ ends \in Nat

(* The first manifest is the last file of the first save: a record that    *)
(* exists at all has everything that load_record_state reads.              *)
MarkerIsLast ==
  "manifest" \in present =>
    {"checkpoint", "commands", "events", "initial"} \subseteq present

Applied(r) == \E i \in DOMAIN files.checkpoint.applied :
                files.checkpoint.applied[i] = r

Journalled(r) == \E i \in DOMAIN files.commands :
                   files.commands[i].request = r

(* What a client was told is accepted is in the files at every moment, in  *)
(* the state and in the journal, wherever a later save stops               *)
(* (_handle_command answers after write_record).                           *)
NothingAckedIsLost ==
  \A r \in Requests : told[r] = "accepted" =>
    "manifest" \in present /\ Applied(r) /\ Journalled(r)

(* The checkpoint never lags behind the journal: no restart sees a command *)
(* whose effects are missing (write_record writes checkpoint.json first).  *)
JournalIsApplied ==
  \A i \in DOMAIN files.commands : Applied(files.commands[i].request)

(* The effects of a request are in the state at most once, even if its     *)
(* journal entry was lost and its client sends it again: the state that    *)
(* has them is not the view the request was made from.                     *)
EffectsOnce ==
  \A i, j \in DOMAIN session.applied :
    session.applied[i] = session.applied[j] => i = j

(* A restart of a game at rest finds the game that was served.             *)
RestartChangesNothing == AtRest => Loaded = session

(* The journal of a game at rest leads from the initial checkpoint to the  *)
(* state that is served (replay.md: "Checkpoints accelerate recovery;      *)
(* commands remain the authority").                                        *)
JournalLeadsToState ==
  AtRest => /\ JournalReplays(files.commands)
            /\ Resubmitted(files.commands) = files.checkpoint.applied

(* A game at rest passes verification (game-record.md: "An unfinished or   *)
(* paused record verifies its accepted-command prefix").                   *)
RestingRecordReplays == AtRest => RecordReplays

(* An effect that cannot be executed is always surfaced as a pause         *)
(* (session.py: otherwise "every client look[s] like it is endlessly       *)
(* passing priority").                                                     *)
UnsupportedIsPaused ==
  AtRest /\ session.decision = "unsupported" => session.status = "paused"

(* A record that exists can be loaded by the next process                  *)
(* (server-runtime.md: a restart "lazily recreates the actor").            *)
RestartPossible == ~running /\ "manifest" \in present => Readable
=============================================================================
