----------------------------- MODULE GameActor -----------------------------
(***************************************************************************)
(* One game of the Quorune server: the GameActor that owns it, the bounded *)
(* mailbox in front of the actor, the command checks of GameService, the   *)
(* save that precedes every acknowledgement, the idempotency store, and    *)
(* the restart that rebuilds the actor from what was saved.                *)
(*                                                                         *)
(* The event loop runs one handler at a time, so a handler is atomic up to *)
(* its awaits.  The worker awaits in one place, the save that runs in a    *)
(* thread: a command, a pause or a resume that changes the game is handled *)
(* in the stages "record" (write the Game Record), "games" (update the     *)
(* control plane's row) and "reply" (back on the loop), and requests, a    *)
(* close or a crash may fall between them.  What the engine does with an   *)
(* action is a choice among the outcomes the service tells apart.          *)
(*                                                                         *)
(* The Game Record is written here in one step; how its files reach the    *)
(* disk one by one is not this module's subject.                           *)
(***************************************************************************)
EXTENDS Integers, Sequences, FiniteSets

CONSTANTS
  Callers,      \* the tasks that can be suspended in GameActor._request
  Principals,   \* the seated pilots
  CommandIds,   \* client command identifiers
  Bodies,       \* what a request asks for: action and choices
  Envelopes,    \* the requests that clients send
  Misdirected,  \* requests for this game that also reach another game's actor
  QueueLimit,   \* the capacity of the mailbox
  MaxRevision,  \* bound: the engine accepts no command beyond this revision
  MaxFaults,    \* bound: crashes, failed saves and engine exceptions in all
  NoRecord,     \* the value of an idempotency key that was never stored
  NoMessage     \* what the worker holds when it waits for a message

Games == {"this", "other"}

EnvelopeType ==
  [protocol : {"current", "old"}, game : Games, command_id : CommandIds,
   body : Bodies, view : Nat]

ASSUME GameActorAssumption ==
  /\ Envelopes \subseteq EnvelopeType
  /\ Misdirected \subseteq {e \in Envelopes : e.game = "this"}
  /\ QueueLimit \in Nat \ {0}
  /\ MaxRevision \in Nat
  /\ MaxFaults \in Nat

VARIABLES
  actor,    \* "absent" (no actor in this process), "loading", "running" or
            \* "stopped" (the worker has consumed the stop message)
  failed,   \* the actor's _failure is set
  closed,   \* the actor's _closed is set
  mailbox,  \* the messages in the queue
  putters,  \* the messages whose sender waits for room in the queue
  stage,    \* "idle", or how far the worker's save has come
  current,  \* the message being saved
  sess,     \* the session in memory
  disk,     \* the Game Record
  games,    \* the control plane's row for the game
  idem,     \* the idempotency store
  acked,    \* history: every receipt given to a client
  seen,     \* history: the highest revision shown to a client
  faults    \* how many faults have happened

vars == <<actor, failed, closed, mailbox, putters, stage, current, sess,
          disk, games, idem, acked, seen, faults>>

-----------------------------------------------------------------------------
(* Messages.  "observe" stands for every message that reads: observe,      *)
(* public_events, inspect, drop_cursor, and poll, whose pump finds the     *)
(* decision that the last command left pending.                            *)

CommandMessage(c, p, e) ==
  [kind |-> "command", caller |-> c, principal |-> p, envelope |-> e]

PlainMessage(k, c) == [kind |-> k, caller |-> c]

StopMessage == [kind |-> "stop"]

Requests(c) ==
  {CommandMessage(c, p, e) : p \in Principals, e \in Envelopes}
    \cup {PlainMessage(k, c) : k \in {"observe", "pause", "resume"}}

Messages == {StopMessage} \cup UNION {Requests(c) : c \in Callers}

ASSUME NoMessageAssumption == NoMessage \notin Messages

InMailbox(c) == \E i \in DOMAIN mailbox : mailbox[i] \in Requests(c)

Waiting(c) ==
  \/ InMailbox(c)
  \/ \E m \in putters : m \in Requests(c)
  \/ current \in Requests(c)

-----------------------------------------------------------------------------
(* The session.  Its revision grows with every accepted command and with   *)
(* nothing else, so it is the length of the journal.                       *)

Entry(p, e) == [principal |-> p, envelope |-> e]

Entries == [principal : Principals, envelope : Envelopes]

Revision(s) == Len(s.journal)

Decisions == {"pilots", "arbiter", "none"}

Sessions ==
  [journal : Seq(Entries), decision : Decisions, holders : SUBSET Principals,
   status : {"active", "paused", "complete"},
   pause : {"none", "administrative_stop", "rules"}]

(* The browser has no arbiter: a decision that only an arbiter could make  *)
(* pauses the game.                                                        *)
BrowserBoundary(s) ==
  IF s.status = "active" /\ s.decision = "arbiter"
  THEN [s EXCEPT !.status = "paused", !.pause = "rules"]
  ELSE s

(* The sessions an accepted action can lead to: another decision of some   *)
(* pilots, one of the arbiter, an effect nobody can execute, or the end.   *)
Outcomes(s, p, e) ==
  LET at(decision, holders, status, pause) ==
        [journal |-> Append(s.journal, Entry(p, e)), decision |-> decision,
         holders |-> holders, status |-> status, pause |-> pause]
  IN {at("pilots", h, "active", "none") : h \in SUBSET Principals \ {{}}}
       \cup {at("arbiter", {}, "active", "none"),
             at("none", {}, "paused", "rules"),
             at("none", {}, "complete", "none")}

RowOf(s) == [revision |-> Revision(s), status |-> s.status]

-----------------------------------------------------------------------------
(* Receipts and the idempotency store.  The fingerprint of a request is    *)
(* the whole envelope except its capability, which is not modelled: that a *)
(* client sends the wrong one is among the reasons to refuse.              *)

Keys == Games \X Principals \X CommandIds

KeyOf(p, e) == <<e.game, p, e.command_id>>

Codes == {"accepted", "unsupported_protocol", "wrong_game",
          "idempotency_conflict", "game_paused", "game_not_active",
          "stale_view", "refused"}

Receipts == [code : Codes, revision : Nat]

Receipt(code, revision) == [code |-> code, revision |-> revision]

Records == [fingerprint : Envelopes, receipt : Receipts]

ASSUME NoRecordAssumption == NoRecord \notin Records

Record(e, receipt) == [fingerprint |-> e, receipt |-> receipt]

Ack(p, e, receipt) == [principal |-> p, envelope |-> e, receipt |-> receipt]

Acks == [principal : Principals, envelope : Envelopes, receipt : Receipts]

(* A stored record may be stored again, never changed.                     *)
CanPut(key, record) == idem[key] \in {NoRecord, record}

(* The checks of GameService.command in their order.                       *)
Verdict(p, e) ==
  LET prior == idem[KeyOf(p, e)]
  IN IF e.protocol # "current" THEN "unsupported_protocol"
     ELSE IF e.game # "this" THEN "wrong_game"
     ELSE IF prior # NoRecord
          THEN IF prior.fingerprint = e THEN "replay"
                                        ELSE "idempotency_conflict"
     ELSE IF sess.status = "paused" THEN "game_paused"
     ELSE IF sess.status # "active" THEN "game_not_active"
     ELSE IF e.view # Revision(sess) THEN "stale_view"
     ELSE "execute"

-----------------------------------------------------------------------------
(* A new game, whose actor start_game has just added; or a record that an  *)
(* earlier process left behind, which may be waiting for an arbiter.       *)
Init ==
  /\ \/ \E h \in SUBSET Principals \ {{}} :
          disk = [journal |-> <<>>, decision |-> "pilots", holders |-> h,
                  status |-> "active", pause |-> "none"]
     \/ disk = [journal |-> <<>>, decision |-> "arbiter", holders |-> {},
                status |-> "active", pause |-> "none"]
  /\ sess = disk
  /\ games = RowOf(disk)
  /\ actor \in (IF disk.decision = "arbiter" THEN {"absent"}
                                             ELSE {"absent", "running"})
  /\ failed = FALSE
  /\ closed = FALSE
  /\ mailbox = <<>>
  /\ putters = {}
  /\ stage = "idle"
  /\ current = NoMessage
  /\ idem = [k \in Keys |-> NoRecord]
  /\ acked = {}
  /\ seen = 0
  /\ faults = 0

memory == <<sess, stage, current>>
durable == <<disk, games, idem>>
history == <<acked, seen>>
flags == <<actor, failed, closed>>

-----------------------------------------------------------------------------
(* The mailbox.                                                            *)

Put(m) ==
  \/ /\ Len(mailbox) < QueueLimit
     /\ mailbox' = Append(mailbox, m)
     /\ UNCHANGED putters
  \/ /\ Len(mailbox) >= QueueLimit
     /\ putters' = putters \cup {m}
     /\ UNCHANGED mailbox

(* A handler sends a message and waits for its answer.  A closed or failed *)
(* actor refuses at once, which changes nothing.                           *)
Request(c, m) ==
  /\ actor = "running" /\ ~closed /\ ~failed
  /\ ~Waiting(c)
  /\ Put(m)
  /\ UNCHANGED <<flags, memory, durable, history, faults>>

(* A sender that waited for room puts its message without another check.   *)
Wake(m) ==
  /\ actor = "running"
  /\ m \in putters
  /\ Len(mailbox) < QueueLimit
  /\ mailbox' = Append(mailbox, m)
  /\ putters' = putters \ {m}
  /\ UNCHANGED <<flags, memory, durable, history, faults>>

(* Bug: a close that only sets the flag.                                   *)
CloseWithoutStop ==
  /\ actor = "running" /\ ~closed
  /\ closed' = TRUE
  /\ UNCHANGED <<actor, failed, mailbox, putters, memory, durable, history,
                 faults>>

Close ==
  /\ actor = "running" /\ ~closed
  /\ closed' = TRUE
  /\ Put(StopMessage)
  /\ UNCHANGED <<actor, failed, memory, durable, history, faults>>

-----------------------------------------------------------------------------
(* The worker takes the next message.                                      *)

(* Bug: the save runs in the background and the worker goes on.            *)
TakeDuringSave(m) ==
  /\ actor = "running"
  /\ mailbox # <<>> /\ m = Head(mailbox)
  /\ mailbox' = Tail(mailbox)
  /\ UNCHANGED putters

Take(m) ==
  /\ actor = "running" /\ stage = "idle"
  /\ mailbox # <<>> /\ m = Head(mailbox)
  /\ mailbox' = Tail(mailbox)
  /\ UNCHANGED putters

Serve(m, kind) == Take(m) /\ m.kind = kind /\ ~failed

Stop(m) ==
  /\ Take(m) /\ m.kind = "stop"
  /\ actor' = "stopped"
  /\ UNCHANGED <<failed, closed, memory, durable, history, faults>>

(* Bug: a failed actor leaves its mailbox alone.                           *)
AnswerNobody(m) == FALSE /\ Take(m) /\ UNCHANGED vars

AnswerUnavailable(m) ==
  /\ Take(m) /\ m.kind # "stop" /\ failed
  /\ UNCHANGED <<flags, memory, durable, history, faults>>

Observe(m) ==
  /\ Serve(m, "observe")
  /\ seen' = IF Revision(sess) > seen THEN Revision(sess) ELSE seen
  /\ UNCHANGED <<flags, memory, durable, acked, faults>>

(* A request whose receipt is stored gets that receipt again.              *)
Replay(m) ==
  /\ Serve(m, "command")
  /\ Verdict(m.principal, m.envelope) = "replay"
  /\ acked' = acked \cup
       {Ack(m.principal, m.envelope,
            idem[KeyOf(m.principal, m.envelope)].receipt)}
  /\ UNCHANGED <<flags, memory, durable, seen, faults>>

(* Bug: INSERT OR REPLACE.                                                 *)
RememberOverwriting(p, e, receipt) ==
  /\ idem' = [idem EXCEPT ![KeyOf(p, e)] = Record(e, receipt)]
  /\ acked' = acked \cup {Ack(p, e, receipt)}
  /\ UNCHANGED failed

(* The receipt of a command is stored, then given to its sender; a store   *)
(* that holds another record for the identifier raises, and the actor is   *)
(* failed for good.                                                        *)
RememberAndAnswer(p, e, receipt) ==
  \/ /\ CanPut(KeyOf(p, e), Record(e, receipt))
     /\ idem' = [idem EXCEPT ![KeyOf(p, e)] = Record(e, receipt)]
     /\ acked' = acked \cup {Ack(p, e, receipt)}
     /\ UNCHANGED failed
  \/ /\ ~CanPut(KeyOf(p, e), Record(e, receipt))
     /\ failed' = TRUE
     /\ UNCHANGED <<idem, acked>>

(* A check fails, or the capability, the catalog, the choices or the rules *)
(* refuse the action; the engine rolls back what it had begun.             *)
DeclineCode(p, e) ==
  IF Verdict(p, e) = "execute" THEN "refused" ELSE Verdict(p, e)

Decline(m) ==
  /\ Serve(m, "command")
  /\ Verdict(m.principal, m.envelope) # "replay"
  /\ RememberAndAnswer(m.principal, m.envelope,
       Receipt(DeclineCode(m.principal, m.envelope), Revision(sess)))
  /\ UNCHANGED <<actor, closed, memory, disk, games, seen, faults>>

(* The holder of a capability acts, and the engine accepts.                *)
Execute(m) ==
  /\ Serve(m, "command")
  /\ Verdict(m.principal, m.envelope) = "execute"
  /\ m.principal \in sess.holders
  /\ Revision(sess) < MaxRevision
  /\ \E s \in Outcomes(sess, m.principal, m.envelope) :
       sess' = BrowserBoundary(s)
  /\ stage' = "record"
  /\ current' = m
  /\ UNCHANGED <<flags, durable, history, faults>>

(* The engine raises something that is not a rejection.                    *)
EngineRaises(m) ==
  /\ Serve(m, "command")
  /\ Verdict(m.principal, m.envelope) = "execute"
  /\ m.principal \in sess.holders
  /\ faults < MaxFaults
  /\ faults' = faults + 1
  /\ failed' = TRUE
  /\ UNCHANGED <<actor, closed, memory, durable, history>>

(* An administrative stop of a game that runs.                             *)
Pause(m) ==
  /\ Serve(m, "pause")
  /\ sess.status = "active"
  /\ sess' = [sess EXCEPT !.status = "paused", !.pause = "administrative_stop"]
  /\ stage' = "record"
  /\ current' = m
  /\ UNCHANGED <<flags, durable, history, faults>>

(* Bug: whatever paused the game.                                          *)
ResumeAnyPause(m) ==
  /\ Serve(m, "resume")
  /\ sess.status = "paused"
  /\ sess' = [sess EXCEPT !.status = "active", !.pause = "none"]
  /\ stage' = "record"
  /\ current' = m
  /\ UNCHANGED <<flags, durable, history, faults>>

(* An administrative resume of a game that an administrative stop paused.  *)
Resume(m) ==
  /\ Serve(m, "resume")
  /\ sess.status = "paused" /\ sess.pause = "administrative_stop"
  /\ sess' = [sess EXCEPT !.status = "active", !.pause = "none"]
  /\ stage' = "record"
  /\ current' = m
  /\ UNCHANGED <<flags, durable, history, faults>>

(* A stop or a resume that finds nothing to do, or that is a conflict.     *)
KeepLifecycle(m) ==
  /\ \/ Serve(m, "pause") /\ sess.status # "active"
     \/ /\ Serve(m, "resume")
        /\ ~(sess.status = "paused" /\ sess.pause = "administrative_stop")
  /\ UNCHANGED <<flags, memory, durable, history, faults>>

-----------------------------------------------------------------------------
(* The save, and the answer that follows it.                               *)

SaveRecord ==
  /\ stage = "record"
  /\ disk' = BrowserBoundary(sess)
  /\ sess' = BrowserBoundary(sess)
  /\ stage' = "games"
  /\ UNCHANGED <<flags, mailbox, putters, current, games, idem, history, faults>>

UpdateGames ==
  /\ stage = "games"
  /\ games' = RowOf(sess)
  /\ stage' = "reply"
  /\ UNCHANGED <<flags, mailbox, putters, current, sess, disk, idem, history,
                 faults>>

Reply ==
  /\ stage = "reply"
  /\ \/ /\ current.kind = "command"
        /\ RememberAndAnswer(current.principal, current.envelope,
             Receipt("accepted", Revision(sess)))
     \/ /\ current.kind # "command"
        /\ UNCHANGED <<failed, idem, acked>>
  /\ stage' = "idle"
  /\ current' = NoMessage
  /\ UNCHANGED <<actor, closed, mailbox, putters, sess, disk, games, seen,
                 faults>>

(* Bug: an exception of the save is logged and forgotten.                  *)
SaveFailsQuietly ==
  /\ stage # "idle"
  /\ faults < MaxFaults
  /\ faults' = faults + 1
  /\ stage' = "idle"
  /\ current' = NoMessage
  /\ UNCHANGED <<flags, mailbox, putters, sess, durable, history>>

(* The save or the idempotency store raises: what is durable stays, the    *)
(* sender is told that the actor is unavailable.                           *)
SaveFails ==
  /\ stage # "idle"
  /\ stage = "reply" => current.kind = "command"
  /\ faults < MaxFaults
  /\ faults' = faults + 1
  /\ failed' = TRUE
  /\ stage' = "idle"
  /\ current' = NoMessage
  /\ UNCHANGED <<actor, closed, mailbox, putters, sess, durable, history>>

-----------------------------------------------------------------------------
(* The end of a process and the next one.                                  *)

Forget ==
  /\ actor' = "absent"
  /\ failed' = FALSE
  /\ closed' = FALSE
  /\ mailbox' = <<>>
  /\ putters' = {}
  /\ stage' = "idle"
  /\ current' = NoMessage
  /\ sess' = disk
  /\ UNCHANGED <<durable, history>>

Crash ==
  /\ actor # "absent"
  /\ faults < MaxFaults
  /\ faults' = faults + 1
  /\ Forget

(* A process whose actor has stopped exits.                                *)
Exit ==
  /\ actor = "stopped"
  /\ Forget
  /\ UNCHANGED faults

(* The first request for a game that has no actor loads the record: the    *)
(* receipts of the journal go back to the idempotency store, which refuses *)
(* a record it holds with another content; a decision of the arbiter       *)
(* becomes a pause and is saved as such.                                   *)
JournalRecord(s, i) == Record(s.journal[i].envelope, Receipt("accepted", i))

JournalKey(s, i) == KeyOf(s.journal[i].principal, s.journal[i].envelope)

(* Bug: the receipts of the journal stay in the journal.                   *)
LoadWithoutReceipts ==
  /\ actor = "absent"
  /\ disk' = BrowserBoundary(disk)
  /\ sess' = BrowserBoundary(disk)
  /\ actor' = "loading"
  /\ UNCHANGED <<failed, closed, mailbox, putters, stage, current, games,
                 idem, history, faults>>

Load ==
  /\ actor = "absent"
  /\ \A i \in DOMAIN disk.journal :
       CanPut(JournalKey(disk, i), JournalRecord(disk, i))
  /\ idem' = [k \in Keys |->
                IF \E i \in DOMAIN disk.journal : JournalKey(disk, i) = k
                THEN JournalRecord(disk, CHOOSE i \in DOMAIN disk.journal :
                                           JournalKey(disk, i) = k)
                ELSE idem[k]]
  /\ disk' = BrowserBoundary(disk)
  /\ sess' = BrowserBoundary(disk)
  /\ actor' = "loading"
  /\ UNCHANGED <<failed, closed, mailbox, putters, stage, current, games,
                 history, faults>>

(* The row is brought up to date, then the manager has the actor.          *)
Publish ==
  /\ actor = "loading"
  /\ games' = RowOf(sess)
  /\ actor' = "running"
  /\ UNCHANGED <<failed, closed, mailbox, putters, memory, disk, idem, history,
                 faults>>

(* Another game's actor declines a request that names this game, and       *)
(* stores its receipt under the game that the request names.               *)
AnswerElsewhere(p, e) ==
  /\ idem[KeyOf(p, e)] = NoRecord
  /\ idem' = [idem EXCEPT ![KeyOf(p, e)] = Record(e, Receipt("wrong_game", 0))]
  /\ UNCHANGED <<flags, mailbox, putters, memory, disk, games, history, faults>>

-----------------------------------------------------------------------------
HandleMessage(m) ==
  \/ Stop(m) \/ AnswerUnavailable(m) \/ Observe(m)
  \/ Replay(m) \/ Decline(m) \/ Execute(m)
  \/ Pause(m) \/ Resume(m) \/ KeepLifecycle(m)

Save == SaveRecord \/ UpdateGames \/ Reply

Next ==
  \/ \E c \in Callers : \E m \in Requests(c) : Request(c, m)
  \/ \E m \in Messages : Wake(m) \/ HandleMessage(m) \/ EngineRaises(m)
  \/ Close \/ Save \/ SaveFails
  \/ Crash \/ Exit \/ Load \/ Publish
  \/ \E p \in Principals, e \in Misdirected : AnswerElsewhere(p, e)

Spec == Init /\ [][Next]_vars

(* The event loop runs the worker and every sender that can go on, and a   *)
(* thread that saves comes to an end.  Nothing obliges anybody to send, to *)
(* close, or to fail.                                                      *)
Fairness ==
  /\ WF_vars(\E m \in Messages : HandleMessage(m))
  /\ WF_vars(Save)
  /\ \A m \in Messages : WF_vars(Wake(m))

FairSpec == Spec /\ Fairness

-----------------------------------------------------------------------------
(* Properties.                                                             *)

(* Every variable has the type of the attribute, file or table it models.  *)
TypeOK ==
  /\ actor \in {"absent", "loading", "running", "stopped"}
  /\ failed \in BOOLEAN /\ closed \in BOOLEAN
  /\ mailbox \in Seq(Messages)
  /\ putters \subseteq Messages
  /\ stage \in {"idle", "record", "games", "reply"}
  /\ current \in IF stage = "idle" THEN {NoMessage} ELSE Messages
  /\ sess \in Sessions /\ disk \in Sessions
  /\ games \in [revision : Nat, status : {"active", "paused", "complete"}]
  /\ idem \in [Keys -> Records \cup {NoRecord}]
  /\ acked \subseteq Acks
  /\ seen \in Nat /\ faults \in Nat

(* A client that was told "accepted" finds its command in the durable      *)
(* journal at the revision of its receipt, whatever crashed since          *)
(* (_handle_command persists before it answers).                           *)
AckedIsDurable ==
  \A a \in acked : a.receipt.code = "accepted" =>
    /\ a.receipt.revision \in DOMAIN disk.journal
    /\ disk.journal[a.receipt.revision] = Entry(a.principal, a.envelope)

(* A command identifier of a principal is applied at most once, through    *)
(* duplicates, retries after a lost answer, and restarts between the save  *)
(* and the receipt (GameService.command, _hydrate_idempotency_from_journal).*)
SameCommand(x, y) ==
  /\ x.principal = y.principal
  /\ x.envelope.command_id = y.envelope.command_id

AppliedAtMostOnce ==
  \A i, j \in DOMAIN disk.journal :
    SameCommand(disk.journal[i], disk.journal[j]) => i = j

(* A request has one fate: two answers about it carry the same receipt,    *)
(* and one that was declined is never in the game afterwards.              *)
OneFate ==
  /\ \A a, b \in acked :
       a.principal = b.principal /\ a.envelope = b.envelope
         => a.receipt = b.receipt
  /\ \A a \in acked : a.receipt.code # "accepted" =>
       \A i \in DOMAIN disk.journal :
         disk.journal[i] # Entry(a.principal, a.envelope)

(* Whenever the actor is between two messages, and so whenever anybody can *)
(* read the game, its memory, its record and its row agree: an actor whose *)
(* save broke half-way never gets there.                                   *)
Serving == actor = "running" /\ ~failed /\ stage = "idle"

ServesOnlyDurableState == Serving => sess = disk /\ games = RowOf(sess)

(* No client was ever shown a revision that a crash could take back.       *)
SeenIsDurable == seen <= Revision(disk)

(* A record can always be loaded again: the receipts of its journal do not *)
(* contradict the idempotency store.                                       *)
Loadable ==
  \A i \in DOMAIN disk.journal :
    CanPut(JournalKey(disk, i), JournalRecord(disk, i))

(* No table is served that waits for the arbiter it does not have, whether *)
(* the decision came from a command or from an older record.               *)
NoArbiterWait ==
  Serving => ~(sess.status = "active" /\ sess.decision = "arbiter")

(* Administrative stop and resume, restarts and commands never lift a      *)
(* pause at a rules boundary nor reopen a finished game.                   *)
BoundariesHold ==
  [][ /\ disk.pause = "rules" => disk'.pause = "rules"
      /\ disk.status = "complete" => disk'.status = "complete" ]_disk

(* A failed actor tells nobody anything about the game and touches nothing *)
(* durable; only another process ends the failure.                         *)
FailedIsClosed ==
  [][ failed => /\ UNCHANGED <<disk, games, acked, seen>>
                /\ failed' \/ actor' = "absent" ]_vars

(* A request that is declined, whatever the reason, leaves the actor able  *)
(* to serve the game (protocol.md: a reused identifier "is a conflict",    *)
(* and a rejected attempt rolls back).                                     *)
DeclineKeepsActor ==
  [][ \A m \in Messages : Decline(m) => ~failed' ]_vars

(* The commands on disk and the receipts given to clients behave like the  *)
(* ledger that the protocol promises.                                      *)
Ledger == INSTANCE CommandLedger WITH ledger <- disk.journal

ImplementsLedger == Ledger!Spec

(* A message that reached the mailbox of an open actor leaves it, even     *)
(* when the actor is closed or fails in the meantime.                      *)
MailboxIsServed ==
  \A c \in Callers : (InMailbox(c) /\ ~closed) ~> ~InMailbox(c)

(* A closed actor stops, even when its stop message has to wait for room.  *)
CloseStops == (actor = "running" /\ closed) ~> actor # "running"
=============================================================================
