----------------------------- MODULE RecordEnds -----------------------------
(***************************************************************************)
(* GameRecord with a history variable: whether a process has ever ended in *)
(* the middle of a save, after it replaced the first file and before the   *)
(* last.  The history observes the processes and never restricts them.     *)
(***************************************************************************)
EXTENDS GameRecord

VARIABLE torn

Tear ==
  torn' = (torn \/ (End /\ step \notin {"checkpoint", "answer", "rest"}))

EndsInit == Init /\ torn = FALSE
EndsNext == Next /\ Tear
EndsSpec == EndsInit /\ [][EndsNext]_<<vars, torn>>

\* As long as no process has ended in the middle of a save: the journal of a
\* game at rest leads to the state that is served, and replays to the manifest
\* (replay_all_commands compares the two).
ReplaysUnlessTorn == ~torn => JournalLeadsToState /\ RestingRecordReplays

\* As long as no process has ended in the middle of a save: the next process
\* can load the record, and serves no game as active whose effect it cannot
\* execute (load_record_state takes the pause from the manifest).
LoadsUnlessTorn == ~torn => RestartPossible /\ UnsupportedIsPaused

\* A record that no process has left torn replays, loads, and shows an effect
\* that cannot be executed as a pause.
WholeUnlessTorn == ReplaysUnlessTorn /\ LoadsUnlessTorn

-----------------------------------------------------------------------------
(* The checkpoint and the answers, as the ledger of the command boundary.  *)
(* The requests stand for those of one client.                             *)

Envelope(r) == [command_id |-> r]

DurableLedger ==
  [i \in DOMAIN files.checkpoint.applied |->
     [principal |-> "client",
      envelope |-> Envelope(files.checkpoint.applied[i])]]

ReceiptOf(r) ==
  [code |-> told[r], revision |-> IF told[r] = "accepted" THEN View[r] + 1 ELSE 0]

Receipts ==
  {[principal |-> "client", envelope |-> Envelope(r), receipt |-> ReceiptOf(r)] :
     r \in {q \in Requests : told[q] # "nothing"}}

Served ==
  INSTANCE CommandLedger WITH
    Principals <- {"client"}, Envelopes <- {Envelope(r) : r \in Requests},
    ledger <- DurableLedger, acked <- Receipts

\* Until a process ends in the middle of a save, the save of several files is
\* the one write that the ledger takes it for: the checkpoint commits a
\* request, an accepted one is confirmed at its position, and nobody is told
\* that a request was declined whose effects are in the game
\* (_hydrate_idempotency_from_journal gives a lost receipt back).
LedgerUnlessTorn ==
  Served!Init /\ [][torn \/ Served!Next]_<<DurableLedger, Receipts>>
=============================================================================
