-------------------------- MODULE GameActorProofs --------------------------
(***************************************************************************)
(* Theorems about GameActor, for every set of callers, seats, identifiers  *)
(* and requests, every mailbox capacity, and any number of faults.         *)
(***************************************************************************)
EXTENDS GameActor, FiniteSetTheorems, TLAPS

-----------------------------------------------------------------------------
(* Lemmas about the operators of the specification.                        *)

(* The arbiter's pause leaves a session a session with the same journal.   *)
LEMMA BoundaryKeepsJournal ==
  ASSUME NEW s \in Sessions
  PROVE  /\ BrowserBoundary(s) \in Sessions
         /\ BrowserBoundary(s).journal = s.journal
  BY DEF BrowserBoundary, Sessions, Decisions

(* An accepted action appends its command to the journal.                  *)
LEMMA OutcomesAppend ==
  ASSUME NEW s \in Sessions, NEW p \in Principals, NEW e \in Envelopes,
         NEW t \in Outcomes(s, p, e)
  PROVE  /\ t \in Sessions
         /\ t.journal = Append(s.journal, Entry(p, e))
  <1>1. Append(s.journal, Entry(p, e)) \in Seq(Entries)
    BY DEF Sessions, Entry, Entries
  <1>2. CASE \E h \in SUBSET Principals \ {{}} :
               t = [journal |-> Append(s.journal, Entry(p, e)),
                    decision |-> "pilots", holders |-> h,
                    status |-> "active", pause |-> "none"]
    BY <1>1, <1>2 DEF Sessions, Decisions
  <1>3. CASE \E d \in Decisions, st \in {"active", "paused", "complete"},
                pa \in {"none", "rules"} :
               t = [journal |-> Append(s.journal, Entry(p, e)),
                    decision |-> d, holders |-> {}, status |-> st, pause |-> pa]
    BY <1>1, <1>3 DEF Sessions, Decisions
  <1> QED
    BY <1>2, <1>3 DEF Outcomes, Decisions

(* What the fields of a message can be.                                    *)
LEMMA MessageFields ==
  ASSUME NEW m \in Messages
  PROVE  /\ m.kind \in {"command", "observe", "pause", "resume", "stop"}
         /\ m.kind = "command" => /\ m.principal \in Principals
                                  /\ m.envelope \in Envelopes
         /\ m # NoMessage
  <1>1. CASE m = StopMessage
    BY <1>1, NoMessageAssumption DEF StopMessage
  <1>2. ASSUME NEW c \in Callers, m \in Requests(c)
        PROVE  /\ m.kind \in {"command", "observe", "pause", "resume", "stop"}
               /\ m.kind = "command" => /\ m.principal \in Principals
                                        /\ m.envelope \in Envelopes
    BY <1>2 DEF Requests, CommandMessage, PlainMessage
  <1>3. m = StopMessage \/ \E c \in Callers : m \in Requests(c)
    BY Zenon DEF Messages
  <1> QED
    BY <1>1, <1>2, <1>3, NoMessageAssumption

(* Every request that is decided on has a key, a verdict that is a code or *)
(* a course of action, and a code to decline it with.                      *)
LEMMA KeyTypes ==
  ASSUME NEW p \in Principals, NEW e \in Envelopes
  PROVE  /\ KeyOf(p, e) \in Keys
         /\ Verdict(p, e) \in (Codes \cup {"replay", "execute"}) \ {"accepted"}
         /\ Verdict(p, e) # "replay" => DeclineCode(p, e) \in Codes \ {"accepted"}
  BY GameActorAssumption
  DEF KeyOf, Keys, Verdict, DeclineCode, Codes, EnvelopeType, Games

(* Storing a receipt keeps the store a store.                              *)
LEMMA StoreTypes ==
  ASSUME TypeOK, NEW p \in Principals, NEW e \in Envelopes,
         NEW r \in Receipts, RememberAndAnswer(p, e, r)
  PROVE  /\ failed' \in BOOLEAN
         /\ idem' \in [Keys -> Records \cup {NoRecord}]
         /\ acked' \subseteq Acks
  <1>1. KeyOf(p, e) \in Keys
    BY KeyTypes
  <1>2. Record(e, r) \in Records /\ Ack(p, e, r) \in Acks
    BY DEF Record, Records, Ack, Acks
  <1> QED
    BY <1>1, <1>2 DEF TypeOK, RememberAndAnswer

-----------------------------------------------------------------------------
(* The inductive invariant, in named parts.                                *)

Committing == stage # "idle" /\ current.kind = "command"

PendingEntry == Entry(current.principal, current.envelope)

(* The actor that saves runs and has not failed, and one that has just     *)
(* been loaded has not failed either.                                      *)
ControlInv ==
  /\ stage # "idle" => /\ actor = "running" /\ ~failed
                       /\ current.kind \in {"command", "pause", "resume"}
  /\ actor \in {"absent", "loading"} => ~failed

(* How far memory may be ahead of the disk in each stage.                  *)
MemoryInv ==
  /\ actor = "loading" => sess = disk
  /\ ServesOnlyDurableState
  /\ stage \in {"games", "reply"} => sess = disk
  /\ stage = "reply" => games = RowOf(sess)
  /\ stage = "record" =>
       sess.journal = IF current.kind = "command"
                      THEN Append(disk.journal, PendingEntry)
                      ELSE disk.journal
  /\ Committing /\ stage # "record" =>
       /\ disk.journal # <<>>
       /\ disk.journal[Len(disk.journal)] = PendingEntry

(* The journal holds current requests for this game, one per identifier,   *)
(* and the command being saved is not among them.                          *)
JournalInv ==
  /\ \A i \in DOMAIN disk.journal :
       /\ disk.journal[i].envelope.game = "this"
       /\ disk.journal[i].envelope.protocol = "current"
  /\ AppliedAtMostOnce
  /\ Committing /\ stage = "record" =>
       /\ current.envelope.game = "this"
       /\ current.envelope.protocol = "current"
       /\ \A i \in DOMAIN disk.journal :
            ~SameCommand(disk.journal[i], PendingEntry)

(* Every command of the journal has its receipt in the store, except the   *)
(* one whose save is not over, and except while no actor is there.         *)
Remembered(i) == idem[JournalKey(disk, i)] = JournalRecord(disk, i)

RememberedInv ==
  actor = "loading" \/ (actor = "running" /\ ~failed) =>
    \A i \in DOMAIN disk.journal :
      \/ Remembered(i)
      \/ Committing /\ stage # "record" /\ i = Len(disk.journal)

(* The store says "accepted" only of commands in the journal.              *)
StoreInv ==
  \A k \in Keys :
    idem[k] # NoRecord /\ idem[k].receipt.code = "accepted" =>
      /\ idem[k].receipt.revision \in DOMAIN disk.journal
      /\ disk.journal[idem[k].receipt.revision] = Entry(k[2], idem[k].fingerprint)

(* Every receipt a client was given is stored; what was declined is not in *)
(* the journal; and the command being saved was never answered.            *)
AckInv ==
  /\ \A a \in acked :
       idem[KeyOf(a.principal, a.envelope)] = Record(a.envelope, a.receipt)
  /\ \A a \in acked : a.receipt.code # "accepted" =>
       \A i \in DOMAIN disk.journal :
         disk.journal[i] # Entry(a.principal, a.envelope)
  /\ Committing /\ stage = "record" =>
       \A a \in acked : Entry(a.principal, a.envelope) # PendingEntry

IInv ==
  /\ TypeOK /\ ControlInv /\ MemoryInv /\ JournalInv /\ RememberedInv
  /\ StoreInv /\ AckInv /\ SeenIsDurable

-----------------------------------------------------------------------------
(* Type correctness.                                                       *)

LEMMA InitType == Init => TypeOK
  <1> SUFFICES ASSUME Init PROVE TypeOK
    OBVIOUS
  <1>1. disk \in Sessions
    <2>1. <<>> \in Seq(Entries)
      OBVIOUS
    <2>2. PICK d \in Decisions, h \in SUBSET Principals :
            disk = [journal |-> <<>>, decision |-> d, holders |-> h,
                    status |-> "active", pause |-> "none"]
      BY DEF Init, Decisions
    <2> QED
      BY <2>1, <2>2 DEF Sessions
  <1>2. games \in [revision : Nat, status : {"active", "paused", "complete"}]
    BY <1>1 DEF Init, RowOf, Revision, Sessions
  <1>3. mailbox \in Seq(Messages)
    BY DEF Init
  <1> QED
    BY <1>1, <1>2, <1>3 DEF Init, TypeOK

(* The row, the stored receipts of a journal and a new message are what    *)
(* the variables that take them hold.                                      *)
LEMMA RowType ==
  ASSUME NEW s \in Sessions
  PROVE  /\ RowOf(s) \in [revision : Nat, status : {"active", "paused", "complete"}]
         /\ Revision(s) \in Nat
  BY DEF RowOf, Revision, Sessions

LEMMA JournalTypes ==
  ASSUME NEW s \in Sessions, NEW i \in DOMAIN s.journal
  PROVE  /\ s.journal[i] \in Entries
         /\ i \in Nat \ {0}
         /\ JournalKey(s, i) \in Keys
         /\ JournalRecord(s, i) \in Records
  <1>1. s.journal \in Seq(Entries)
    BY DEF Sessions
  <1>2. s.journal[i] \in Entries /\ i \in Nat \ {0}
    BY <1>1
  <1>3. JournalKey(s, i) \in Keys
    BY <1>2, KeyTypes DEF JournalKey, Entries
  <1>4. JournalRecord(s, i) \in Records
    BY <1>2 DEF JournalRecord, Record, Records, Receipt, Receipts, Codes, Entries
  <1> QED
    BY <1>2, <1>3, <1>4

LEMMA PutType ==
  ASSUME TypeOK, NEW m \in Messages, Put(m)
  PROVE  mailbox' \in Seq(Messages) /\ putters' \subseteq Messages
  BY DEF TypeOK, Put

LEMMA TakeType ==
  ASSUME TypeOK, NEW m, Take(m)
  PROVE  /\ mailbox' \in Seq(Messages) /\ putters' \subseteq Messages
         /\ m \in Messages
  BY DEF TypeOK, Take

LEMMA StepType == TypeOK /\ [Next]_vars => TypeOK'
  <1> SUFFICES ASSUME TypeOK, [Next]_vars PROVE TypeOK'
    OBVIOUS
  <1> USE DEF flags, memory, durable, history
  <1>1. ASSUME NEW c \in Callers, NEW m \in Requests(c), Request(c, m)
        PROVE  TypeOK'
    <2>1. m \in Messages
      BY <1>1 DEF Messages
    <2> QED
      BY <1>1, <2>1, PutType DEF TypeOK, Request
  <1>2. ASSUME NEW m \in Messages, Wake(m)
        PROVE  TypeOK'
    BY <1>2 DEF TypeOK, Wake
  <1>3. ASSUME NEW m \in Messages, HandleMessage(m)
        PROVE  TypeOK'
    <2>1. CASE Stop(m)
      BY <2>1, TakeType DEF TypeOK, Stop
    <2>2. CASE AnswerUnavailable(m)
      BY <2>2, TakeType DEF TypeOK, AnswerUnavailable
    <2>3. CASE Observe(m)
      BY <2>3, TakeType, RowType DEF TypeOK, Observe, Serve
    <2>4. CASE Replay(m)
      <3>1. /\ m.principal \in Principals /\ m.envelope \in Envelopes
            /\ KeyOf(m.principal, m.envelope) \in Keys
        BY <2>4, MessageFields, KeyTypes DEF Replay, Serve
      <3>2. idem[KeyOf(m.principal, m.envelope)] # NoRecord
        BY <2>4 DEF Replay, Verdict
      <3>3. idem[KeyOf(m.principal, m.envelope)].receipt \in Receipts
        BY <3>1, <3>2 DEF TypeOK, Records
      <3>4. acked' \subseteq Acks
        BY <2>4, <3>1, <3>3 DEF TypeOK, Replay, Ack, Acks
      <3> QED
        BY <2>4, <3>4, TakeType DEF TypeOK, Replay, Serve
    <2>5. CASE Decline(m)
      <3>1. /\ m.principal \in Principals /\ m.envelope \in Envelopes
            /\ DeclineCode(m.principal, m.envelope) \in Codes
        BY <2>5, MessageFields, KeyTypes DEF Decline, Serve
      <3>2. Receipt(DeclineCode(m.principal, m.envelope), Revision(sess))
              \in Receipts
        BY <3>1, RowType DEF TypeOK, Receipt, Receipts
      <3> QED
        BY <2>5, <3>1, <3>2, StoreTypes, TakeType DEF TypeOK, Decline, Serve
    <2>6. CASE Execute(m)
      <3>1. m.principal \in Principals /\ m.envelope \in Envelopes
        BY <2>6, MessageFields DEF Execute, Serve
      <3>2. sess' \in Sessions
        BY <2>6, <3>1, OutcomesAppend, BoundaryKeepsJournal
        DEF TypeOK, Execute
      <3> QED
        BY <2>6, <3>2, TakeType DEF TypeOK, Execute, Serve
    <2>7. CASE Pause(m)
      <3>1. sess' \in Sessions
        BY <2>7 DEF TypeOK, Pause, Sessions
      <3> QED
        BY <2>7, <3>1, TakeType DEF TypeOK, Pause, Serve
    <2>8. CASE Resume(m)
      <3>1. sess' \in Sessions
        BY <2>8 DEF TypeOK, Resume, Sessions
      <3> QED
        BY <2>8, <3>1, TakeType DEF TypeOK, Resume, Serve
    <2>9. CASE KeepLifecycle(m)
      BY <2>9, TakeType DEF TypeOK, KeepLifecycle, Serve
    <2> QED
      BY <1>3, <2>1, <2>2, <2>3, <2>4, <2>5, <2>6, <2>7, <2>8, <2>9
      DEF HandleMessage
  <1>4. ASSUME NEW m \in Messages, EngineRaises(m)
        PROVE  TypeOK'
    BY <1>4, TakeType, GameActorAssumption DEF TypeOK, EngineRaises, Serve
  <1>5. CASE Close
    <2>1. StopMessage \in Messages
      BY Zenon DEF Messages
    <2> QED
      BY <1>5, <2>1, PutType DEF TypeOK, Close
  <1>6. CASE SaveRecord
    BY <1>6, BoundaryKeepsJournal DEF TypeOK, SaveRecord
  <1>7. CASE UpdateGames
    BY <1>7, RowType DEF TypeOK, UpdateGames
  <1>8. CASE Reply
    <2>1. CASE current.kind = "command"
      <3>1. /\ current.principal \in Principals
            /\ current.envelope \in Envelopes
        BY <1>8, <2>1, MessageFields DEF TypeOK, Reply
      <3>2. Receipt("accepted", Revision(sess)) \in Receipts
        BY RowType DEF TypeOK, Receipt, Receipts, Codes
      <3>3. RememberAndAnswer(current.principal, current.envelope,
                              Receipt("accepted", Revision(sess)))
        BY <1>8, <2>1 DEF Reply
      <3> QED
        BY <1>8, <3>1, <3>2, <3>3, StoreTypes DEF TypeOK, Reply
    <2>2. CASE current.kind # "command"
      BY <1>8, <2>2 DEF TypeOK, Reply
    <2> QED
      BY <2>1, <2>2 DEF TypeOK
  <1>9. CASE SaveFails
    BY <1>9, GameActorAssumption DEF TypeOK, SaveFails
  <1>10. CASE Crash
    <2>1. mailbox' \in Seq(Messages) /\ faults' \in Nat
      BY <1>10 DEF TypeOK, Crash, Forget
    <2> QED
      BY <1>10, <2>1 DEF TypeOK, Crash, Forget
  <1>11. CASE Exit
    <2>1. mailbox' \in Seq(Messages)
      BY <1>11 DEF Exit, Forget
    <2> QED
      BY <1>11, <2>1 DEF TypeOK, Exit, Forget
  <1>12. CASE Load
    <2>1. idem' \in [Keys -> Records \cup {NoRecord}]
      BY <1>12, JournalTypes DEF TypeOK, Load
    <2> QED
      BY <1>12, <2>1, BoundaryKeepsJournal DEF TypeOK, Load
  <1>13. CASE Publish
    BY <1>13, RowType DEF TypeOK, Publish
  <1>14. ASSUME NEW p \in Principals, NEW e \in Misdirected,
                AnswerElsewhere(p, e)
         PROVE  TypeOK'
    <2>1. e \in Envelopes
      BY GameActorAssumption
    <2>2. Record(e, Receipt("wrong_game", 0)) \in Records
      BY <2>1 DEF Record, Records, Receipt, Receipts, Codes
    <2> QED
      BY <1>14, <2>1, <2>2, KeyTypes DEF TypeOK, AnswerElsewhere
  <1>15. CASE UNCHANGED vars
    BY <1>15 DEF TypeOK, vars
  <1> QED
    BY <1>1, <1>2, <1>3, <1>4, <1>5, <1>6, <1>7, <1>8, <1>9, <1>10, <1>11,
       <1>12, <1>13, <1>14, <1>15 DEF Next, Save

(* Every reachable state has the types of TypeOK.                          *)
THEOREM TypeCorrect == Spec => []TypeOK
  <1>1. Init => TypeOK
    BY InitType
  <1>2. TypeOK /\ [Next]_vars => TypeOK'
    BY StepType
  <1> QED
    BY <1>1, <1>2, PTL DEF Spec
-----------------------------------------------------------------------------
(* What a step can do to the variables of the invariant.                   *)

(* Messages come, go and are refused; a worker ends.                       *)
Quiet ==
  /\ UNCHANGED <<failed, memory, durable, history>>
  /\ \/ actor' = actor
     \/ actor = "running" /\ actor' = "stopped" /\ stage = "idle"

(* The actor fails and forgets what it was saving.                         *)
Fails ==
  /\ actor = "running" /\ actor' = actor
  /\ failed' = TRUE
  /\ stage' = "idle" /\ current' = NoMessage
  /\ UNCHANGED <<sess, durable, history>>

(* The receipt of a declined command is stored and given.                  *)
Declines(p, e) ==
  /\ Serving
  /\ Verdict(p, e) # "replay"
  /\ LET receipt == Receipt(DeclineCode(p, e), Revision(sess)) IN
       /\ CanPut(KeyOf(p, e), Record(e, receipt))
       /\ idem' = [idem EXCEPT ![KeyOf(p, e)] = Record(e, receipt)]
       /\ acked' = acked \cup {Ack(p, e, receipt)}
  /\ UNCHANGED <<flags, memory, disk, games, seen>>

(* The receipt of a stored command is given.                               *)
Replays(p, e) ==
  /\ Serving
  /\ Verdict(p, e) = "replay"
  /\ acked' = acked \cup {Ack(p, e, idem[KeyOf(p, e)].receipt)}
  /\ UNCHANGED <<flags, memory, durable, seen>>

(* Rules pause a game that is paused: no game goes on past such a boundary. *)
Settled(s) == s.pause = "rules" => s.status = "paused"

(* The save of an accepted command begins.                                 *)
Begins(p, e) ==
  /\ Serving
  /\ Verdict(p, e) = "execute"
  /\ Settled(sess')
  /\ sess'.journal = Append(sess.journal, Entry(p, e))
  /\ stage' = "record"
  /\ current'.kind = "command"
  /\ current'.principal = p /\ current'.envelope = e
  /\ UNCHANGED <<flags, durable, history>>

(* The save of a stop or a resume begins.                                  *)
Turns ==
  /\ Serving
  /\ \/ sess.status = "active"
     \/ sess.status = "paused" /\ sess.pause = "administrative_stop"
  /\ Settled(sess')
  /\ sess'.journal = sess.journal
  /\ stage' = "record"
  /\ current'.kind \in {"pause", "resume"}
  /\ UNCHANGED <<flags, durable, history>>

(* A save ends, and its command, if it is one, has its receipt.            *)
Ends ==
  /\ stage = "reply" /\ stage' = "idle" /\ current' = NoMessage
  /\ \/ /\ current.kind = "command"
        /\ LET p == current.principal
               e == current.envelope
               receipt == Receipt("accepted", Revision(sess))
           IN /\ CanPut(KeyOf(p, e), Record(e, receipt))
              /\ idem' = [idem EXCEPT ![KeyOf(p, e)] = Record(e, receipt)]
              /\ acked' = acked \cup {Ack(p, e, receipt)}
     \/ /\ current.kind # "command"
        /\ UNCHANGED <<idem, acked>>
  /\ UNCHANGED <<flags, sess, disk, games, seen>>

Effect ==
  \/ Quiet \/ Fails \/ Turns \/ SaveRecord \/ UpdateGames \/ Ends
  \/ Forget \/ Load \/ Publish
  \/ \E m \in Messages : Observe(m)
  \/ \E p \in Principals, e \in Envelopes :
       Declines(p, e) \/ Replays(p, e) \/ Begins(p, e)
  \/ \E p \in Principals, e \in Misdirected : AnswerElsewhere(p, e)

(* What an accepted action leads to is settled, and the boundary of the    *)
(* browser keeps it so.                                                    *)
LEMMA BoundarySettles ==
  ASSUME NEW s \in Sessions, Settled(s)
  PROVE  Settled(BrowserBoundary(s))
  BY DEF Settled, BrowserBoundary, Sessions

LEMMA OutcomesSettled ==
  ASSUME NEW p, NEW e, NEW s \in Outcomes(sess, p, e)
  PROVE  Settled(BrowserBoundary(s))
  BY DEF Outcomes, Settled, BrowserBoundary

(* Every step is one of these.                                             *)
LEMMA StepEffect ==
  ASSUME TypeOK, ControlInv, [Next]_vars
  PROVE  Effect
  <1> USE DEF flags, memory, durable, history, Serving
  <1>1. ASSUME NEW c \in Callers, NEW m \in Requests(c), Request(c, m)
        PROVE  Quiet
    BY <1>1 DEF Request, Quiet
  <1>2. ASSUME NEW m \in Messages, Wake(m)
        PROVE  Quiet
    BY <1>2 DEF Wake, Quiet
  <1>3. ASSUME NEW m \in Messages, HandleMessage(m)
        PROVE  Effect
    <2>1. CASE Stop(m)
      BY <2>1 DEF Stop, Take, Quiet, Effect
    <2>2. CASE AnswerUnavailable(m)
      BY <2>2 DEF AnswerUnavailable, Quiet, Effect
    <2>3. CASE Observe(m)
      BY <2>3 DEF Effect
    <2>4. CASE Replay(m)
      <3>1. m.principal \in Principals /\ m.envelope \in Envelopes
        BY <2>4, MessageFields DEF Replay, Serve
      <3>2. Replays(m.principal, m.envelope)
        BY <2>4 DEF Replay, Serve, Take, Replays
      <3> QED
        BY <3>1, <3>2 DEF Effect
    <2>5. CASE Decline(m)
      <3>1. m.principal \in Principals /\ m.envelope \in Envelopes
        BY <2>5, MessageFields DEF Decline, Serve
      <3>2. Declines(m.principal, m.envelope) \/ Fails
        BY <2>5 DEF Decline, Serve, Take, RememberAndAnswer, Declines, Fails,
                    TypeOK
      <3> QED
        BY <3>1, <3>2 DEF Effect
    <2>6. CASE Execute(m)
      <3>1. m.principal \in Principals /\ m.envelope \in Envelopes
        BY <2>6, MessageFields DEF Execute, Serve
      <3>2. sess'.journal = Append(sess.journal, Entry(m.principal, m.envelope))
        BY <2>6, <3>1, OutcomesAppend, BoundaryKeepsJournal
        DEF TypeOK, Execute
      <3>3. Settled(sess')
        BY <2>6, OutcomesSettled DEF Execute
      <3>4. Begins(m.principal, m.envelope)
        BY <2>6, <3>2, <3>3 DEF Execute, Serve, Take, Begins
      <3> QED
        BY <3>1, <3>4 DEF Effect
    <2>7. CASE Pause(m)
      <3>1. sess'.journal = sess.journal /\ Settled(sess')
        BY <2>7 DEF TypeOK, Pause, Sessions, Settled
      <3> QED
        BY <2>7, <3>1 DEF Pause, Serve, Take, Turns, Effect
    <2>8. CASE Resume(m)
      <3>1. sess'.journal = sess.journal /\ Settled(sess')
        BY <2>8 DEF TypeOK, Resume, Sessions, Settled
      <3> QED
        BY <2>8, <3>1 DEF Resume, Serve, Take, Turns, Effect
    <2>9. CASE KeepLifecycle(m)
      BY <2>9 DEF KeepLifecycle, Quiet, Effect
    <2> QED
      BY <1>3, <2>1, <2>2, <2>3, <2>4, <2>5, <2>6, <2>7, <2>8, <2>9
      DEF HandleMessage
  <1>4. ASSUME NEW m \in Messages, EngineRaises(m)
        PROVE  Fails
    BY <1>4 DEF EngineRaises, Serve, Take, Fails, TypeOK
  <1>5. CASE Close
    BY <1>5 DEF Close, Quiet, Effect
  <1>6. CASE Reply
    <2>1. stage = "reply" /\ actor = "running" /\ ~failed
      BY <1>6 DEF Reply, ControlInv
    <2>2. Ends \/ Fails
      BY <1>6, <2>1 DEF Reply, RememberAndAnswer, Ends, Fails
    <2> QED
      BY <2>2 DEF Effect
  <1>7. CASE SaveFails
    BY <1>7 DEF SaveFails, ControlInv, Fails, Effect
  <1>8. CASE Crash \/ Exit
    BY <1>8 DEF Crash, Exit, Effect
  <1>9. CASE SaveRecord \/ UpdateGames \/ Load \/ Publish
    BY <1>9 DEF Effect
  <1>10. CASE \E p \in Principals, e \in Misdirected : AnswerElsewhere(p, e)
    BY <1>10 DEF Effect
  <1>11. CASE UNCHANGED vars
    BY <1>11 DEF vars, Quiet, Effect
  <1> QED
    BY <1>1, <1>2, <1>3, <1>4, <1>5, <1>6, <1>7, <1>8, <1>9, <1>10, <1>11
    DEF Next, Save, Effect

(* The parts of the invariant that say how far each stage has come.        *)
LEMMA InitControl == Init => ControlInv /\ MemoryInv
  <1> SUFFICES ASSUME Init PROVE ControlInv /\ MemoryInv
    OBVIOUS
  <1>1. stage = "idle" /\ sess = disk /\ games = RowOf(sess) /\ failed = FALSE
    BY DEF Init
  <1> QED
    BY <1>1 DEF ControlInv, MemoryInv, ServesOnlyDurableState, Committing

LEMMA StepControl ==
  ASSUME TypeOK, ControlInv, MemoryInv, TypeOK', Effect
  PROVE  ControlInv'
  <1> USE DEF ControlInv, flags, memory, durable, history
  <1>1. CASE Quiet \/ Fails \/ Turns
    BY <1>1 DEF Quiet, Fails, Turns, Serving
  <1>2. CASE SaveRecord \/ UpdateGames \/ Ends
    BY <1>2 DEF SaveRecord, UpdateGames, Ends
  <1>3. CASE Forget \/ Load \/ Publish
    BY <1>3 DEF Forget, Load, Publish
  <1>4. CASE \E m \in Messages : Observe(m)
    BY <1>4 DEF Observe
  <1>5. ASSUME NEW p \in Principals, NEW e \in Envelopes,
               Declines(p, e) \/ Replays(p, e) \/ Begins(p, e)
        PROVE  ControlInv'
    BY <1>5 DEF Declines, Replays, Begins, Serving
  <1>6. CASE \E p \in Principals, e \in Misdirected : AnswerElsewhere(p, e)
    BY <1>6 DEF AnswerElsewhere
  <1> QED
    BY <1>1, <1>2, <1>3, <1>4, <1>5, <1>6 DEF Effect

LEMMA StepMemory ==
  ASSUME TypeOK, ControlInv, MemoryInv, TypeOK', Effect
  PROVE  MemoryInv'
  <1> USE DEF MemoryInv, ServesOnlyDurableState, Serving, Committing,
              PendingEntry, flags, memory, durable, history
  <1>1. CASE Quiet
    BY <1>1 DEF Quiet, RowOf, Revision
  <1>2. CASE Fails
    BY <1>2 DEF Fails
  <1>3. CASE Turns
    BY <1>3 DEF Turns
  <1>4. CASE SaveRecord
    <2>1. /\ sess' = disk' /\ stage' = "games"
          /\ disk'.journal = sess.journal
          /\ UNCHANGED <<actor, current>>
      BY <1>4, BoundaryKeepsJournal DEF SaveRecord, TypeOK
    <2>2. CASE current.kind = "command"
      <3>1. /\ disk.journal \in Seq(Entries)
            /\ disk'.journal = Append(disk.journal, PendingEntry)
        BY <1>4, <2>1, <2>2 DEF SaveRecord, TypeOK, Sessions
      <3>2. disk'.journal # <<>> /\ disk'.journal[Len(disk'.journal)] = PendingEntry
        BY <3>1
      <3> QED
        BY <1>4, <2>1, <2>2, <3>2 DEF SaveRecord, ControlInv
    <2>3. CASE current.kind # "command"
      BY <1>4, <2>1, <2>3 DEF SaveRecord, ControlInv
    <2> QED
      BY <2>2, <2>3
  <1>5. CASE UpdateGames
    BY <1>5 DEF UpdateGames, ControlInv, RowOf, Revision
  <1>6. CASE Ends
    BY <1>6 DEF Ends, RowOf, Revision
  <1>7. CASE Forget \/ Load \/ Publish
    BY <1>7 DEF Forget, Load, Publish, ControlInv, RowOf, Revision
  <1>8. CASE \E m \in Messages : Observe(m)
    BY <1>8 DEF Observe, RowOf, Revision
  <1>9. ASSUME NEW p \in Principals, NEW e \in Envelopes,
               Declines(p, e) \/ Replays(p, e)
        PROVE  MemoryInv'
    BY <1>9 DEF Declines, Replays, RowOf, Revision
  <1>10. ASSUME NEW p \in Principals, NEW e \in Envelopes, Begins(p, e)
         PROVE  MemoryInv'
    BY <1>10 DEF Begins
  <1>11. CASE \E p \in Principals, e \in Misdirected : AnswerElsewhere(p, e)
    BY <1>11 DEF AnswerElsewhere, RowOf, Revision
  <1> QED
    BY <1>1, <1>2, <1>3, <1>4, <1>5, <1>6, <1>7, <1>8, <1>9, <1>10, <1>11
    DEF Effect

-----------------------------------------------------------------------------
(* The journal.                                                            *)

(* Either a step leaves the journal on disk alone, or it is the save of an *)
(* accepted command, which appends that command.                           *)
LEMMA StepJournal ==
  ASSUME TypeOK, ControlInv, MemoryInv, Effect
  PROVE  \/ disk'.journal = disk.journal
         \/ /\ SaveRecord /\ Committing
            /\ disk'.journal = Append(disk.journal, PendingEntry)
            /\ PendingEntry \in Entries
  <1> USE DEF flags, memory, durable, history
  <1>1. CASE SaveRecord
    <2>1. disk'.journal = sess.journal
      BY <1>1, BoundaryKeepsJournal DEF SaveRecord, TypeOK
    <2>2. current \in Messages
      BY <1>1 DEF SaveRecord, TypeOK
    <2> QED
      BY <1>1, <2>1, <2>2, MessageFields
      DEF SaveRecord, MemoryInv, Committing, PendingEntry, Entry, Entries
  <1>2. CASE Load
    BY <1>2, BoundaryKeepsJournal DEF Load, TypeOK
  <1>3. CASE Quiet \/ Fails \/ Turns \/ UpdateGames \/ Ends \/ Forget \/ Publish
    BY <1>3 DEF Quiet, Fails, Turns, UpdateGames, Ends, Forget, Publish
  <1>4. CASE \E m \in Messages : Observe(m)
    BY <1>4 DEF Observe
  <1>5. CASE \E p \in Principals, e \in Envelopes :
               Declines(p, e) \/ Replays(p, e) \/ Begins(p, e)
    BY <1>5 DEF Declines, Replays, Begins
  <1>6. CASE \E p \in Principals, e \in Misdirected : AnswerElsewhere(p, e)
    BY <1>6 DEF AnswerElsewhere
  <1> QED
    BY <1>1, <1>2, <1>3, <1>4, <1>5, <1>6 DEF Effect

(* A journal with one more entry has the old ones where they were.         *)
LEMMA AppendFacts ==
  ASSUME NEW j \in Seq(Entries), NEW x \in Entries
  PROVE  LET k == Append(j, x) IN
           /\ Len(k) = Len(j) + 1
           /\ DOMAIN k = DOMAIN j \cup {Len(j) + 1}
           /\ Len(j) + 1 \notin DOMAIN j
           /\ \A i \in DOMAIN j : k[i] = j[i]
           /\ k[Len(j) + 1] = x
           /\ \A i \in DOMAIN k : i \in DOMAIN j \/ i = Len(j) + 1
  OBVIOUS

(* A save that is going on stays the same save until it ends.              *)
LEMMA StepPending ==
  ASSUME TypeOK, ControlInv, Effect,
         Committing', stage' = "record"
  PROVE  \/ /\ Committing /\ stage = "record"
            /\ PendingEntry' = PendingEntry /\ current' = current
            /\ UNCHANGED <<acked, disk>>
         \/ \E p \in Principals, e \in Envelopes :
              /\ Begins(p, e) /\ PendingEntry' = Entry(p, e)
              /\ current'.envelope = e
  <1> USE DEF flags, memory, durable, history, Committing, PendingEntry, Serving
  <1>1. CASE Quiet \/ Fails \/ Turns \/ SaveRecord \/ UpdateGames \/ Ends
    BY <1>1 DEF Quiet, Fails, Turns, SaveRecord, UpdateGames, Ends
  <1>2. CASE Forget \/ Load \/ Publish
    BY <1>2 DEF Forget, Load, Publish, ControlInv
  <1>3. CASE \E m \in Messages : Observe(m)
    BY <1>3 DEF Observe, Serve, Take
  <1>4. ASSUME NEW p \in Principals, NEW e \in Envelopes,
               Declines(p, e) \/ Replays(p, e) \/ Begins(p, e)
        PROVE  Begins(p, e) /\ PendingEntry' = Entry(p, e)
                 /\ current'.envelope = e
    BY <1>4 DEF Declines, Replays, Begins, Entry
  <1>5. CASE \E p \in Principals, e \in Misdirected : AnswerElsewhere(p, e)
    BY <1>5 DEF AnswerElsewhere
  <1> QED
    BY <1>1, <1>2, <1>3, <1>4, <1>5 DEF Effect

(* While the actor serves, every command of the journal has its receipt in *)
(* the store, so a command that is new to the store is new to the journal. *)
LEMMA ServingRemembers ==
  ASSUME TypeOK, MemoryInv, JournalInv, RememberedInv, Serving,
         NEW i \in DOMAIN disk.journal,
         NEW p \in Principals, NEW e \in Envelopes, e.game = "this",
         SameCommand(disk.journal[i], Entry(p, e))
  PROVE  /\ idem[KeyOf(p, e)] = JournalRecord(disk, i)
         /\ idem[KeyOf(p, e)] # NoRecord
         /\ idem[KeyOf(p, e)].receipt.code = "accepted"
  <1>1. Remembered(i)
    BY DEF RememberedInv, Serving, Committing
  <1>2. JournalKey(disk, i) = KeyOf(p, e)
    BY DEF JournalInv, JournalKey, KeyOf, SameCommand, Entry
  <1>3. JournalRecord(disk, i) \in Records
    BY JournalTypes DEF TypeOK
  <1>4. JournalRecord(disk, i).receipt.code = "accepted"
    BY DEF JournalRecord, Record, Receipt
  <1> QED
    BY <1>1, <1>2, <1>3, <1>4, NoRecordAssumption DEF Remembered

LEMMA InitJournal == Init => JournalInv
  BY DEF Init, JournalInv, AppliedAtMostOnce, Committing

LEMMA StepJournalInv ==
  ASSUME TypeOK, ControlInv, MemoryInv, JournalInv, RememberedInv, TypeOK',
         Effect
  PROVE  JournalInv'
  <1>1. /\ \A i \in DOMAIN disk'.journal :
             /\ disk'.journal[i].envelope.game = "this"
             /\ disk'.journal[i].envelope.protocol = "current"
        /\ AppliedAtMostOnce'
    <2>1. CASE disk'.journal = disk.journal
      BY <2>1 DEF JournalInv, AppliedAtMostOnce
    <2>2. CASE /\ SaveRecord /\ Committing
               /\ disk'.journal = Append(disk.journal, PendingEntry)
               /\ PendingEntry \in Entries
      <3>1. disk.journal \in Seq(Entries)
        BY DEF TypeOK, Sessions
      <3>2. /\ PendingEntry.envelope.game = "this"
            /\ PendingEntry.envelope.protocol = "current"
            /\ \A i \in DOMAIN disk.journal :
                 ~SameCommand(disk.journal[i], PendingEntry)
        BY <2>2 DEF JournalInv, SaveRecord, PendingEntry, Entry
      <3>3. \A i \in DOMAIN disk.journal :
              ~SameCommand(PendingEntry, disk.journal[i])
        BY <3>2 DEF SameCommand
      <3> HIDE DEF SameCommand
      <3> QED
        BY <2>2, <3>1, <3>2, <3>3, AppendFacts
        DEF JournalInv, AppliedAtMostOnce
    <2> QED
      BY <2>1, <2>2, StepJournal
  <1>2. ASSUME Committing', stage' = "record"
        PROVE  /\ current'.envelope.game = "this"
               /\ current'.envelope.protocol = "current"
               /\ \A i \in DOMAIN disk'.journal :
                    ~SameCommand(disk'.journal[i], PendingEntry')
    <2>1. CASE /\ Committing /\ stage = "record"
               /\ PendingEntry' = PendingEntry /\ current' = current
               /\ UNCHANGED <<acked, disk>>
      BY <2>1 DEF JournalInv
    <2>2. ASSUME NEW p \in Principals, NEW e \in Envelopes,
                 Begins(p, e), PendingEntry' = Entry(p, e),
                 current'.envelope = e
          PROVE  /\ current'.envelope.game = "this"
                 /\ current'.envelope.protocol = "current"
                 /\ \A i \in DOMAIN disk'.journal :
                      ~SameCommand(disk'.journal[i], PendingEntry')
      <3>1. /\ e.game = "this" /\ e.protocol = "current"
            /\ idem[KeyOf(p, e)] = NoRecord
            /\ Serving /\ disk' = disk
        BY <2>2, GameActorAssumption
        DEF Begins, Verdict, durable, EnvelopeType, Games
      <3> QED
        BY <2>2, <3>1, ServingRemembers
    <2> QED
      BY <1>2, <2>1, <2>2, StepPending
  <1> QED
    BY <1>1, <1>2 DEF JournalInv

-----------------------------------------------------------------------------
(* The idempotency store.                                                  *)

(* A stored record is never changed.                                       *)
LEMMA StoreIsStable ==
  ASSUME TypeOK, Effect, NEW k \in Keys, idem[k] # NoRecord
  PROVE  idem'[k] = idem[k]
  <1> USE DEF flags, memory, durable, history
  <1>1. CASE Quiet \/ Fails \/ Turns \/ SaveRecord \/ UpdateGames
    BY <1>1 DEF Quiet, Fails, Turns, SaveRecord, UpdateGames
  <1>2. CASE Ends
    BY <1>2 DEF Ends, TypeOK, CanPut
  <1>3. CASE Forget \/ Publish
    BY <1>3 DEF Forget, Publish
  <1>4. CASE Load
    <2>1. CASE \E i \in DOMAIN disk.journal : JournalKey(disk, i) = k
      <3>1. PICK i \in DOMAIN disk.journal :
              /\ JournalKey(disk, i) = k
              /\ idem'[k] = JournalRecord(disk, i)
        BY <1>4, <2>1 DEF Load
      <3> QED
        BY <1>4, <3>1 DEF Load, CanPut
    <2>2. CASE ~\E i \in DOMAIN disk.journal : JournalKey(disk, i) = k
      BY <1>4, <2>2 DEF Load
    <2> QED
      BY <2>1, <2>2
  <1>5. CASE \E m \in Messages : Observe(m)
    BY <1>5 DEF Observe
  <1>6. ASSUME NEW p \in Principals, NEW e \in Envelopes,
               Declines(p, e) \/ Replays(p, e) \/ Begins(p, e)
        PROVE  idem'[k] = idem[k]
    BY <1>6 DEF Declines, Replays, Begins, TypeOK, CanPut
  <1>7. CASE \E p \in Principals, e \in Misdirected : AnswerElsewhere(p, e)
    BY <1>7 DEF AnswerElsewhere, TypeOK
  <1> QED
    BY <1>1, <1>2, <1>3, <1>4, <1>5, <1>6, <1>7 DEF Effect

(* What a step can add to the store.                                       *)
LEMMA StoreAdditions ==
  ASSUME TypeOK, ControlInv, MemoryInv, Effect,
         NEW k \in Keys, idem'[k] # idem[k],
         idem'[k].receipt.code = "accepted"
  PROVE  \E i \in DOMAIN disk.journal :
           /\ k = JournalKey(disk, i)
           /\ idem'[k] = JournalRecord(disk, i)
           /\ disk'.journal = disk.journal
  <1> USE DEF flags, memory, durable, history
  <1>1. CASE Quiet \/ Fails \/ Turns \/ SaveRecord \/ UpdateGames
    BY <1>1 DEF Quiet, Fails, Turns, SaveRecord, UpdateGames
  <1>2. CASE Ends
    <2>1. /\ current.kind = "command"
          /\ stage = "reply"
          /\ k = KeyOf(current.principal, current.envelope)
          /\ idem'[k] = Record(current.envelope,
                               Receipt("accepted", Len(disk.journal)))
          /\ disk' = disk
      BY <1>2 DEF Ends, TypeOK, MemoryInv, Revision
    <2>2. /\ Len(disk.journal) \in DOMAIN disk.journal
          /\ disk.journal[Len(disk.journal)] = PendingEntry
      <3>1. disk.journal # <<>> /\ disk.journal[Len(disk.journal)] = PendingEntry
        BY <2>1 DEF MemoryInv, Committing
      <3>2. disk.journal \in Seq(Entries)
        BY DEF TypeOK, Sessions
      <3> QED
        BY <3>1, <3>2
    <2> QED
      BY <2>1, <2>2 DEF JournalKey, JournalRecord, PendingEntry, Entry
  <1>3. CASE Forget \/ Publish
    BY <1>3 DEF Forget, Publish
  <1>4. CASE Load
    <2>1. disk'.journal = disk.journal
      BY <1>4, BoundaryKeepsJournal DEF Load, TypeOK
    <2> QED
      BY <1>4, <2>1 DEF Load
  <1>5. CASE \E m \in Messages : Observe(m)
    BY <1>5 DEF Observe
  <1>6. ASSUME NEW p \in Principals, NEW e \in Envelopes,
               Declines(p, e) \/ Replays(p, e) \/ Begins(p, e)
        PROVE  FALSE
    <2>1. Declines(p, e) /\ k = KeyOf(p, e)
      BY <1>6 DEF Declines, Replays, Begins, TypeOK
    <2>2. idem'[k].receipt.code = DeclineCode(p, e)
      BY <2>1 DEF Declines, TypeOK, Record, Receipt
    <2> QED
      BY <2>1, <2>2, KeyTypes DEF Declines
  <1>7. ASSUME NEW p \in Principals, NEW e \in Misdirected,
               AnswerElsewhere(p, e)
        PROVE  FALSE
    BY <1>7 DEF AnswerElsewhere, TypeOK, Record, Receipt
  <1> QED
    BY <1>1, <1>2, <1>3, <1>4, <1>5, <1>6, <1>7 DEF Effect

LEMMA InitStore == Init => RememberedInv /\ StoreInv /\ AckInv /\ SeenIsDurable
  <1> SUFFICES ASSUME Init
               PROVE  RememberedInv /\ StoreInv /\ AckInv /\ SeenIsDurable
    OBVIOUS
  <1>1. disk.journal = <<>> /\ stage = "idle" /\ acked = {} /\ seen = 0
        /\ \A k \in Keys : idem[k] = NoRecord
    BY DEF Init
  <1> QED
    BY <1>1 DEF RememberedInv, StoreInv, AckInv, SeenIsDurable, Committing,
                Revision

LEMMA StepStoreInv ==
  ASSUME TypeOK, ControlInv, MemoryInv, StoreInv, TypeOK', Effect
  PROVE  StoreInv'
  <1> SUFFICES ASSUME NEW k \in Keys, idem'[k] # NoRecord,
                      idem'[k].receipt.code = "accepted"
               PROVE  /\ idem'[k].receipt.revision \in DOMAIN disk'.journal
                      /\ disk'.journal[idem'[k].receipt.revision]
                           = Entry(k[2], idem'[k].fingerprint)
    BY DEF StoreInv
  <1>1. CASE idem'[k] = idem[k]
    <2>1. /\ idem[k].receipt.revision \in DOMAIN disk.journal
          /\ disk.journal[idem[k].receipt.revision]
               = Entry(k[2], idem[k].fingerprint)
      BY <1>1 DEF StoreInv
    <2>2. disk.journal \in Seq(Entries)
      BY DEF TypeOK, Sessions
    <2> QED
      BY <1>1, <2>1, <2>2, StepJournal, AppendFacts
  <1>2. CASE idem'[k] # idem[k]
    <2>1. PICK i \in DOMAIN disk.journal :
             /\ k = JournalKey(disk, i)
             /\ idem'[k] = JournalRecord(disk, i)
             /\ disk'.journal = disk.journal
      BY <1>2, StoreAdditions
    <2>2. disk.journal[i] \in Entries
      BY JournalTypes DEF TypeOK
    <2>3. disk.journal[i] = Entry(k[2], idem'[k].fingerprint)
      BY <2>1, <2>2 DEF JournalKey, JournalRecord, KeyOf, Record, Entry, Entries
    <2>4. idem'[k].receipt.revision = i
      BY <2>1 DEF JournalRecord, Record, Receipt
    <2> QED
      BY <2>1, <2>3, <2>4
  <1> QED
    BY <1>1, <1>2

-----------------------------------------------------------------------------
(* The receipts of the journal.                                            *)

LEMMA StaysRemembered ==
  ASSUME TypeOK, Effect, NEW i \in DOMAIN disk.journal, Remembered(i),
         disk'.journal[i] = disk.journal[i]
  PROVE  Remembered(i)'
  <1>1. JournalKey(disk, i) \in Keys /\ JournalRecord(disk, i) \in Records
    BY JournalTypes DEF TypeOK
  <1>2. idem[JournalKey(disk, i)] # NoRecord
    BY <1>1, NoRecordAssumption DEF Remembered
  <1>3. idem'[JournalKey(disk, i)] = JournalRecord(disk, i)
    BY <1>1, <1>2, StoreIsStable DEF Remembered
  <1> QED
    BY <1>3 DEF Remembered, JournalKey, JournalRecord

(* A step that is neither the save of a record, nor the end of a save, nor *)
(* a load, forgets nothing and owes no new receipt.                        *)
LEMMA QuietStepsRemember ==
  ASSUME TypeOK, ControlInv, Effect,
         actor' = "loading" \/ (actor' = "running" /\ ~failed'),
         ~SaveRecord, ~Ends, ~Load
  PROVE  /\ disk' = disk
         /\ actor = "loading" \/ (actor = "running" /\ ~failed)
         /\ Committing /\ stage # "record" => Committing' /\ stage' # "record"
  <1> USE DEF flags, memory, durable, history, Committing, Serving, ControlInv
  <1>1. CASE Quiet \/ Fails \/ Turns \/ UpdateGames
    BY <1>1 DEF Quiet, Fails, Turns, UpdateGames
  <1>2. CASE Forget \/ Publish
    BY <1>2 DEF Forget, Publish
  <1>3. CASE \E m \in Messages : Observe(m)
    BY <1>3 DEF Observe
  <1>4. ASSUME NEW p \in Principals, NEW e \in Envelopes,
               Declines(p, e) \/ Replays(p, e) \/ Begins(p, e)
        PROVE  /\ disk' = disk /\ Serving
    BY <1>4 DEF Declines, Replays, Begins
  <1>5. CASE \E p \in Principals, e \in Misdirected : AnswerElsewhere(p, e)
    BY <1>5 DEF AnswerElsewhere
  <1> QED
    BY <1>1, <1>2, <1>3, <1>4, <1>5 DEF Effect

LEMMA StepRemembered ==
  ASSUME TypeOK, ControlInv, MemoryInv, JournalInv, RememberedInv, TypeOK',
         Effect
  PROVE  RememberedInv'
  <1> SUFFICES ASSUME actor' = "loading" \/ (actor' = "running" /\ ~failed'),
                      NEW i \in DOMAIN disk'.journal
               PROVE  \/ Remembered(i)'
                      \/ /\ Committing' /\ stage' # "record"
                         /\ i = Len(disk'.journal)
    BY DEF RememberedInv
  <1>0. disk.journal \in Seq(Entries)
    BY DEF TypeOK, Sessions
  <1>1. CASE SaveRecord
    <2>1. /\ actor = "running" /\ ~failed
          /\ Committing' = Committing /\ stage' # "record"
      BY <1>1 DEF SaveRecord, ControlInv, flags, Committing
    <2>2. CASE i \in DOMAIN disk.journal
      <3>1. Remembered(i)
        BY <1>1, <2>1, <2>2 DEF SaveRecord, RememberedInv
      <3>2. disk'.journal[i] = disk.journal[i]
        BY <1>0, <2>2, StepJournal, AppendFacts
      <3> QED
        BY <2>2, <3>1, <3>2, StaysRemembered
    <2>3. CASE i \notin DOMAIN disk.journal
      <3>1. /\ Committing
            /\ disk'.journal = Append(disk.journal, PendingEntry)
            /\ PendingEntry \in Entries
        BY <2>3, StepJournal
      <3>2. i = Len(disk'.journal)
        BY <1>0, <2>3, <3>1, AppendFacts
      <3> QED
        BY <2>1, <3>1, <3>2
    <2> QED
      BY <2>2, <2>3
  <1>2. CASE Ends
    <2>1. /\ disk' = disk /\ actor = "running" /\ ~failed
          /\ stage = "reply" /\ i \in DOMAIN disk.journal
      BY <1>2 DEF Ends, ControlInv, flags
    <2>2. CASE Remembered(i)
      BY <2>1, <2>2, StaysRemembered
    <2>3. CASE ~Remembered(i)
      <3>1. Committing /\ i = Len(disk.journal)
        BY <2>1, <2>3 DEF RememberedInv
      <3>2. disk.journal[i] = PendingEntry /\ sess = disk
        BY <2>1, <3>1 DEF MemoryInv
      <3>3. KeyOf(current.principal, current.envelope) \in Keys
        BY <2>1, <3>1, MessageFields, KeyTypes DEF TypeOK, Committing
      <3>4. idem'[KeyOf(current.principal, current.envelope)]
              = Record(current.envelope, Receipt("accepted", i))
        BY <1>2, <3>1, <3>2, <3>3 DEF Ends, Committing, TypeOK, Revision
      <3> QED
        BY <2>1, <3>2, <3>4
        DEF Remembered, JournalKey, JournalRecord, PendingEntry, Entry
    <2> QED
      BY <2>2, <2>3
  <1>3. CASE Load
    <2>1. disk'.journal = disk.journal
      BY <1>3, BoundaryKeepsJournal DEF Load, TypeOK
    <2>2. \A j \in DOMAIN disk.journal :
            JournalKey(disk, j) = JournalKey(disk, i) => j = i
      BY <2>1 DEF JournalInv, AppliedAtMostOnce, SameCommand, JournalKey, KeyOf
    <2>3. JournalKey(disk, i) \in Keys
      BY <2>1, JournalTypes DEF TypeOK
    <2>4. idem'[JournalKey(disk, i)] = JournalRecord(disk, i)
      BY <1>3, <2>1, <2>2, <2>3 DEF Load
    <2> QED
      BY <2>1, <2>4 DEF Remembered, JournalKey, JournalRecord
  <1>4. CASE ~SaveRecord /\ ~Ends /\ ~Load
    <2>1. /\ disk' = disk
          /\ actor = "loading" \/ (actor = "running" /\ ~failed)
          /\ Committing /\ stage # "record" => Committing' /\ stage' # "record"
      BY <1>4, QuietStepsRemember
    <2>2. CASE Remembered(i)
      BY <2>1, <2>2, StaysRemembered
    <2>3. CASE ~Remembered(i)
      BY <2>1, <2>3 DEF RememberedInv
    <2> QED
      BY <2>2, <2>3
  <1> QED
    BY <1>1, <1>2, <1>3, <1>4

-----------------------------------------------------------------------------
(* The receipts given to clients.                                          *)

(* An answer about a request that is new is stored when it is given; and   *)
(* unless it says "accepted", the request is not in the journal.           *)
LEMMA NewAnswers ==
  ASSUME TypeOK, ControlInv, MemoryInv, JournalInv, RememberedInv, Effect,
         NEW a \in acked', a \notin acked
  PROVE  /\ disk' = disk
         /\ a \in Acks
         /\ idem'[KeyOf(a.principal, a.envelope)] = Record(a.envelope, a.receipt)
         /\ a.receipt.code # "accepted" =>
              \A i \in DOMAIN disk.journal :
                disk.journal[i] # Entry(a.principal, a.envelope)
  <1> USE DEF flags, memory, durable, history
  <1>1. CASE Quiet \/ Fails \/ Turns \/ SaveRecord \/ UpdateGames
    BY <1>1 DEF Quiet, Fails, Turns, SaveRecord, UpdateGames
  <1>2. CASE Forget \/ Load \/ Publish
    BY <1>2 DEF Forget, Load, Publish
  <1>3. CASE \E m \in Messages : Observe(m)
    BY <1>3 DEF Observe
  <1>4. CASE \E p \in Principals, e \in Misdirected : AnswerElsewhere(p, e)
    BY <1>4 DEF AnswerElsewhere
  <1>5. CASE Ends
    <2>1. /\ current.kind = "command" /\ stage = "reply" /\ disk' = disk
      BY <1>5 DEF Ends
    <2>2. /\ current.principal \in Principals /\ current.envelope \in Envelopes
      BY <2>1, MessageFields DEF TypeOK
    <2>3. Receipt("accepted", Revision(sess)) \in Receipts
      BY RowType DEF TypeOK, Receipt, Receipts, Codes
    <2>4. /\ a = Ack(current.principal, current.envelope,
                     Receipt("accepted", Revision(sess)))
          /\ idem'[KeyOf(current.principal, current.envelope)]
               = Record(current.envelope, Receipt("accepted", Revision(sess)))
      BY <1>5, <2>1, <2>2, KeyTypes DEF Ends, TypeOK
    <2> QED
      BY <2>1, <2>2, <2>3, <2>4 DEF Ack, Acks, Receipt
  <1>6. ASSUME NEW p \in Principals, NEW e \in Envelopes, Declines(p, e)
        PROVE  /\ disk' = disk
               /\ a \in Acks
               /\ idem'[KeyOf(a.principal, a.envelope)]
                    = Record(a.envelope, a.receipt)
               /\ \A i \in DOMAIN disk.journal :
                    disk.journal[i] # Entry(a.principal, a.envelope)
    <2> DEFINE receipt == Receipt(DeclineCode(p, e), Revision(sess))
    <2>1. receipt \in Receipts
      BY <1>6, KeyTypes, RowType DEF TypeOK, Declines, Receipt, Receipts
    <2>2. /\ a = Ack(p, e, receipt)
          /\ idem'[KeyOf(p, e)] = Record(e, receipt)
          /\ disk' = disk /\ Serving /\ Verdict(p, e) # "replay"
      BY <1>6, KeyTypes DEF Declines, TypeOK
    <2>3. ASSUME NEW i \in DOMAIN disk.journal, disk.journal[i] = Entry(p, e)
          PROVE  FALSE
      <3>1. /\ e.protocol = "current" /\ e.game = "this"
            /\ SameCommand(disk.journal[i], Entry(p, e))
        BY <2>3 DEF JournalInv, Entry, SameCommand
      <3>2. /\ idem[KeyOf(p, e)] = JournalRecord(disk, i)
            /\ idem[KeyOf(p, e)] # NoRecord
        BY <2>2, <3>1, ServingRemembers
      <3>3. idem[KeyOf(p, e)].fingerprint = e
        BY <2>3, <3>2 DEF JournalRecord, Record, Entry
      <3> QED
        BY <2>2, <3>1, <3>2, <3>3 DEF Verdict
    <2>4. a.principal = p /\ a.envelope = e /\ a.receipt = receipt
      BY <2>2 DEF Ack
    <2> QED
      BY <2>1, <2>2, <2>3, <2>4 DEF Ack, Acks
  <1>7. ASSUME NEW p \in Principals, NEW e \in Envelopes, Replays(p, e)
        PROVE  /\ disk' = disk
               /\ a \in Acks
               /\ idem'[KeyOf(a.principal, a.envelope)]
                    = Record(a.envelope, a.receipt)
               /\ a.receipt.code # "accepted" =>
                    \A i \in DOMAIN disk.journal :
                      disk.journal[i] # Entry(a.principal, a.envelope)
    <2>1. /\ a = Ack(p, e, idem[KeyOf(p, e)].receipt)
          /\ idem' = idem /\ disk' = disk /\ Serving
          /\ e.game = "this"
          /\ idem[KeyOf(p, e)] # NoRecord
          /\ idem[KeyOf(p, e)].fingerprint = e
      BY <1>7 DEF Replays, Verdict
    <2>2. idem[KeyOf(p, e)] \in Records
      BY <2>1, KeyTypes DEF TypeOK
    <2>3. a.principal = p /\ a.envelope = e
          /\ a.receipt = idem[KeyOf(p, e)].receipt
      BY <2>1 DEF Ack
    <2>4. idem[KeyOf(p, e)] = Record(e, a.receipt)
      BY <2>1, <2>2, <2>3 DEF Record, Records
    <2>5. ASSUME NEW i \in DOMAIN disk.journal, disk.journal[i] = Entry(p, e)
          PROVE  a.receipt.code = "accepted"
      BY <2>1, <2>3, <2>5, ServingRemembers DEF SameCommand
    <2>6. a \in Acks
      BY <2>1, <2>2 DEF Records, Ack, Acks
    <2> QED
      BY <2>1, <2>3, <2>4, <2>5, <2>6
  <1>8. ASSUME NEW p \in Principals, NEW e \in Envelopes, Begins(p, e)
        PROVE  FALSE
    BY <1>8 DEF Begins
  <1> QED
    BY <1>1, <1>2, <1>3, <1>4, <1>5, <1>6, <1>7, <1>8 DEF Effect

LEMMA StepAck ==
  ASSUME TypeOK, ControlInv, MemoryInv, JournalInv, RememberedInv, AckInv,
         TypeOK', Effect
  PROVE  AckInv'
  <1>1. ASSUME NEW a \in acked'
        PROVE  idem'[KeyOf(a.principal, a.envelope)]
                 = Record(a.envelope, a.receipt)
    <2>1. CASE a \in acked
      <3>1. /\ KeyOf(a.principal, a.envelope) \in Keys
            /\ Record(a.envelope, a.receipt) \in Records
        BY <2>1, KeyTypes DEF TypeOK, Acks, Record, Records
      <3>2. idem[KeyOf(a.principal, a.envelope)]
              = Record(a.envelope, a.receipt)
        BY <2>1 DEF AckInv
      <3> QED
        BY <3>1, <3>2, StoreIsStable, NoRecordAssumption
    <2> QED
      BY <2>1, NewAnswers
  <1>2. ASSUME NEW a \in acked', a.receipt.code # "accepted",
               NEW i \in DOMAIN disk'.journal
        PROVE  disk'.journal[i] # Entry(a.principal, a.envelope)
    <2>1. CASE a \in acked /\ disk'.journal = disk.journal
      BY <1>2, <2>1 DEF AckInv
    <2>2. CASE /\ a \in acked /\ SaveRecord /\ Committing
               /\ disk'.journal = Append(disk.journal, PendingEntry)
               /\ PendingEntry \in Entries
      <3>1. disk.journal \in Seq(Entries)
        BY DEF TypeOK, Sessions
      <3>2. PendingEntry # Entry(a.principal, a.envelope)
        BY <2>2 DEF AckInv, SaveRecord
      <3> QED
        BY <1>2, <2>2, <3>1, <3>2, AppendFacts DEF AckInv
    <2>3. CASE a \notin acked
      BY <1>2, <2>3, NewAnswers
    <2> QED
      BY <2>1, <2>2, <2>3, StepJournal
  <1>3. ASSUME Committing', stage' = "record", NEW a \in acked'
        PROVE  Entry(a.principal, a.envelope) # PendingEntry'
    <2>1. CASE /\ Committing /\ stage = "record"
               /\ PendingEntry' = PendingEntry /\ current' = current
               /\ UNCHANGED <<acked, disk>>
      BY <1>3, <2>1 DEF AckInv
    <2>2. ASSUME NEW p \in Principals, NEW e \in Envelopes,
                 Begins(p, e), PendingEntry' = Entry(p, e)
          PROVE  Entry(a.principal, a.envelope) # PendingEntry'
      <3>1. idem[KeyOf(p, e)] = NoRecord /\ a \in acked
        BY <1>3, <2>2 DEF Begins, Verdict, history
      <3>2. /\ idem[KeyOf(a.principal, a.envelope)]
                 = Record(a.envelope, a.receipt)
            /\ Record(a.envelope, a.receipt) \in Records
        BY <3>1 DEF AckInv, TypeOK, Acks, Record, Records
      <3> QED
        BY <2>2, <3>1, <3>2, NoRecordAssumption DEF Entry
    <2> QED
      BY <1>3, <2>1, <2>2, StepPending
  <1> QED
    BY <1>1, <1>2, <1>3 DEF AckInv

LEMMA StepSeen ==
  ASSUME TypeOK, ControlInv, MemoryInv, SeenIsDurable, TypeOK', Effect
  PROVE  SeenIsDurable'
  <1> USE DEF flags, memory, durable, history
  <1>1. Len(disk.journal) \in Nat /\ Len(disk'.journal) \in Nat /\ seen \in Nat
    BY DEF TypeOK, Sessions
  <1>2. Len(disk'.journal) >= Len(disk.journal)
    <2>1. disk.journal \in Seq(Entries)
      BY DEF TypeOK, Sessions
    <2> QED
      BY <1>1, <2>1, StepJournal, AppendFacts
  <1>3. CASE seen' = seen
    BY <1>1, <1>2, <1>3 DEF SeenIsDurable, Revision
  <1>4. ASSUME NEW m \in Messages, Observe(m)
        PROVE  seen' <= Len(disk'.journal)
    <2>1. sess = disk /\ disk' = disk
      BY <1>4 DEF Observe, Serve, Take, MemoryInv, ServesOnlyDurableState,
                  Serving
    <2> QED
      BY <1>1, <1>4, <2>1 DEF Observe, SeenIsDurable, Revision
  <1>5. seen' = seen \/ \E m \in Messages : Observe(m)
    BY DEF Effect, Quiet, Fails, Turns, SaveRecord, UpdateGames, Ends, Forget,
           Load, Publish, Declines, Replays, Begins, AnswerElsewhere
  <1> QED
    BY <1>3, <1>4, <1>5 DEF SeenIsDurable, Revision

-----------------------------------------------------------------------------
(* The invariant, and what it implies.                                     *)

LEMMA Inductive ==
  /\ Init => IInv
  /\ IInv /\ [Next]_vars => IInv'
  <1>1. Init => IInv
    BY InitType, InitControl, InitJournal, InitStore DEF IInv
  <1>2. ASSUME IInv, [Next]_vars
        PROVE  IInv'
    <2>1. Effect
      BY <1>2, StepEffect DEF IInv
    <2>2. TypeOK'
      BY <1>2, StepType DEF IInv
    <2> QED
      BY <1>2, <2>1, <2>2, StepControl, StepMemory, StepJournalInv,
         StepRemembered, StepStoreInv, StepAck, StepSeen
      DEF IInv
  <1> QED
    BY <1>1, <1>2

LEMMA Invariance == Spec => []IInv
  BY Inductive, PTL DEF Spec

(* What a receipt says is in the record that survives a crash.             *)
LEMMA AckedAreStored ==
  ASSUME IInv
  PROVE  AckedIsDurable
  <1> SUFFICES ASSUME NEW a \in acked, a.receipt.code = "accepted"
               PROVE  /\ a.receipt.revision \in DOMAIN disk.journal
                      /\ disk.journal[a.receipt.revision]
                           = Entry(a.principal, a.envelope)
    BY DEF AckedIsDurable
  <1>1. /\ KeyOf(a.principal, a.envelope) \in Keys
        /\ Record(a.envelope, a.receipt) \in Records
    BY KeyTypes DEF IInv, TypeOK, Acks, Record, Records
  <1>2. idem[KeyOf(a.principal, a.envelope)] = Record(a.envelope, a.receipt)
    BY DEF IInv, AckInv
  <1> QED
    BY <1>1, <1>2, NoRecordAssumption DEF IInv, StoreInv, Record, KeyOf

LEMMA AnswersAgree ==
  ASSUME IInv
  PROVE  OneFate
  <1>1. ASSUME NEW a \in acked, NEW b \in acked,
               a.principal = b.principal, a.envelope = b.envelope
        PROVE  a.receipt = b.receipt
    <2>1. Record(a.envelope, a.receipt) = Record(b.envelope, b.receipt)
      BY <1>1 DEF IInv, AckInv
    <2> QED
      BY <2>1 DEF Record
  <1> QED
    BY <1>1 DEF IInv, AckInv, OneFate

(* Every accepted receipt is about a command of the durable journal.       *)
THEOREM Durability == Spec => []AckedIsDurable
  BY Invariance, AckedAreStored, PTL

(* A command identifier is applied at most once.                           *)
THEOREM OncePerCommand == Spec => []AppliedAtMostOnce
  <1>1. IInv => AppliedAtMostOnce
    BY DEF IInv, JournalInv
  <1> QED
    BY <1>1, Invariance, PTL

(* All answers about a request agree, and with the game.                   *)
THEOREM RequestsHaveOneFate == Spec => []OneFate
  BY Invariance, AnswersAgree, PTL

(* Whoever reads the game reads what is on disk.                           *)
THEOREM ReadsAreDurable == Spec => []ServesOnlyDurableState
  <1>1. IInv => ServesOnlyDurableState
    BY DEF IInv, MemoryInv
  <1> QED
    BY <1>1, Invariance, PTL

(* No revision that a client has seen is ever taken back.                  *)
THEOREM NothingSeenIsLost == Spec => []SeenIsDurable
  <1>1. IInv => SeenIsDurable
    BY DEF IInv
  <1> QED
    BY <1>1, Invariance, PTL

(* A failed actor is silent about the game and harmless to it.             *)
THEOREM FailureIsFinal == Spec => FailedIsClosed
  <1>1. ASSUME IInv, [Next]_vars, failed
        PROVE  /\ UNCHANGED <<disk, games, acked, seen>>
               /\ failed' \/ actor' = "absent"
    <2> USE <1>1 DEF flags, memory, durable, history, ControlInv
    <2>1. Effect /\ ControlInv
      BY StepEffect DEF IInv
    <2>2. CASE Quiet \/ Fails \/ Turns
      BY <2>2 DEF Quiet, Fails, Turns, Serving
    <2>3. CASE SaveRecord \/ UpdateGames \/ Ends
      BY <2>1, <2>3 DEF SaveRecord, UpdateGames, Ends
    <2>4. CASE Forget \/ Load \/ Publish
      BY <2>1, <2>4 DEF Forget, Load, Publish
    <2>5. CASE \E m \in Messages : Observe(m)
      BY <2>5 DEF Observe, Serve
    <2>6. ASSUME NEW p \in Principals, NEW e \in Envelopes,
                 Declines(p, e) \/ Replays(p, e) \/ Begins(p, e)
          PROVE  FALSE
      BY <2>6 DEF Declines, Replays, Begins, Serving
    <2>7. CASE \E p \in Principals, e \in Misdirected : AnswerElsewhere(p, e)
      BY <2>7 DEF AnswerElsewhere
    <2> QED
      BY <2>1, <2>2, <2>3, <2>4, <2>5, <2>6, <2>7 DEF Effect
  <1>2. IInv /\ [Next]_vars =>
          [ failed => /\ UNCHANGED <<disk, games, acked, seen>>
                      /\ failed' \/ actor' = "absent" ]_vars
    BY <1>1
  <1> QED
    BY <1>2, Invariance, PTL DEF Spec, FailedIsClosed

-----------------------------------------------------------------------------
(* A record can always be loaded where no other game's actor stores        *)
(* receipts under this game: the identifier of a command that is being     *)
(* saved is free, and the store never holds anything but the receipt of    *)
(* the journal for a command of the journal.                               *)
FreshInv ==
  Committing /\ stage = "record" =>
    idem[KeyOf(current.principal, current.envelope)] = NoRecord

LEMMA InitLoadable == Init => FreshInv /\ Loadable
  <1> SUFFICES ASSUME Init PROVE FreshInv /\ Loadable
    OBVIOUS
  <1>1. disk.journal = <<>> /\ stage = "idle"
    BY DEF Init
  <1> QED
    BY <1>1 DEF FreshInv, Committing, Loadable

LEMMA StepFresh ==
  ASSUME IInv, FreshInv, Misdirected = {}, [Next]_vars
  PROVE  FreshInv'
  <1> USE DEF flags, memory, durable, history
  <1> SUFFICES ASSUME Committing', stage' = "record"
               PROVE  idem'[KeyOf(current'.principal, current'.envelope)]
                        = NoRecord
    BY DEF FreshInv, KeyOf
  <1>1. Effect /\ TypeOK /\ ControlInv
    BY StepEffect DEF IInv
  <1>2. CASE Committing /\ stage = "record" /\ current' = current
    <2>1. idem' = idem
      BY <1>1, <1>2
      DEF Effect, ControlInv, Quiet, Fails, Turns, SaveRecord, UpdateGames,
          Ends, Forget, Load, Publish, Observe, Declines, Replays, Begins,
          Serving, Committing
    <2> QED
      BY <1>2, <2>1 DEF FreshInv
  <1>3. ASSUME NEW p \in Principals, NEW e \in Envelopes, Begins(p, e)
        PROVE  idem'[KeyOf(current'.principal, current'.envelope)] = NoRecord
    BY <1>3 DEF Begins, Verdict
  <1> QED
    BY <1>1, <1>2, <1>3, StepPending

LEMMA StepLoadable ==
  ASSUME IInv, FreshInv, Loadable, Misdirected = {}, [Next]_vars
  PROVE  Loadable'
  <1> USE DEF flags, memory, durable, history
  <1> SUFFICES ASSUME NEW i \in DOMAIN disk'.journal
               PROVE  idem'[JournalKey(disk', i)]
                        \in {NoRecord, JournalRecord(disk', i)}
    BY DEF Loadable, CanPut, JournalKey, JournalRecord, KeyOf, Record, Receipt
  <1>1. /\ Effect /\ TypeOK /\ ControlInv /\ MemoryInv /\ JournalInv
        /\ RememberedInv /\ disk.journal \in Seq(Entries)
    BY StepEffect DEF IInv, TypeOK, Sessions
  <1>2. CASE disk'.journal = disk.journal
    <2> DEFINE k == JournalKey(disk, i)
    <2>1. /\ k \in Keys /\ JournalKey(disk', i) = k
          /\ JournalRecord(disk', i) = JournalRecord(disk, i)
          /\ JournalRecord(disk, i) \in Records
      BY <1>1, <1>2, JournalTypes DEF JournalKey, JournalRecord, TypeOK
    <2>2. CASE idem'[k] = idem[k]
      BY <1>2, <2>1, <2>2 DEF Loadable, CanPut
    <2>3. CASE idem'[k] # idem[k]
      <3>1. idem[k] = NoRecord
        BY <1>1, <2>1, <2>3, StoreIsStable
      <3>2. ~Serving
        BY <1>1, <1>2, <2>1, <3>1, NoRecordAssumption
        DEF RememberedInv, Remembered, Serving, Committing
      <3>3. Ends \/ Load
        BY <1>1, <2>3, <3>2
        DEF Effect, Quiet, Fails, Turns, SaveRecord, UpdateGames, Forget,
            Publish, Observe, Declines, Replays, Begins
      <3>4. idem'[k].receipt.code = "accepted"
        <4>1. CASE Ends
          BY <1>1, <2>1, <2>3, <4>1 DEF Ends, TypeOK, Record, Receipt
        <4>2. CASE Load
          BY <2>1, <2>3, <4>2 DEF Load, JournalRecord, Record, Receipt
        <4> QED
          BY <3>3, <4>1, <4>2
      <3>5. PICK j \in DOMAIN disk.journal :
              k = JournalKey(disk, j) /\ idem'[k] = JournalRecord(disk, j)
        BY <1>1, <2>1, <2>3, <3>4, StoreAdditions
      <3>6. j = i
        BY <1>1, <1>2, <3>5
        DEF JournalInv, AppliedAtMostOnce, SameCommand, JournalKey, KeyOf
      <3> QED
        BY <2>1, <3>5, <3>6
    <2> QED
      BY <2>2, <2>3
  <1>3. CASE disk'.journal # disk.journal
    <2>1. /\ SaveRecord /\ Committing /\ idem' = idem
          /\ disk'.journal = Append(disk.journal, PendingEntry)
          /\ PendingEntry \in Entries
      <3>1. \/ /\ Committing /\ PendingEntry \in Entries
               /\ disk'.journal = Append(disk.journal, PendingEntry)
            \/ UNCHANGED <<disk.journal>>
        BY <1>1, StepJournal
      <3>2. SaveRecord
        BY <1>1, <1>3, BoundaryKeepsJournal
        DEF Effect, Quiet, Fails, Turns, UpdateGames, Ends, Forget, Publish,
            Load, Observe, Declines, Replays, Begins, TypeOK
      <3> QED
        BY <1>3, <3>1, <3>2 DEF SaveRecord
    <2>2. CASE i \in DOMAIN disk.journal
      <3>1. disk'.journal[i] = disk.journal[i]
        BY <1>1, <2>1, <2>2, AppendFacts
      <3> QED
        BY <2>1, <2>2, <3>1
        DEF Loadable, CanPut, JournalKey, JournalRecord
    <2>3. CASE i \notin DOMAIN disk.journal
      <3>1. disk'.journal[i] = PendingEntry
        BY <1>1, <2>1, <2>3, AppendFacts
      <3> QED
        BY <2>1, <3>1
        DEF FreshInv, SaveRecord, JournalKey, PendingEntry, Entry
    <2> QED
      BY <2>2, <2>3
  <1> QED
    BY <1>2, <1>3

(* Every restart finds a record that it can load.                          *)
THEOREM RestartsLoad ==
  ASSUME Misdirected = {}
  PROVE  Spec => []Loadable
  <1>1. IInv /\ FreshInv /\ Loadable /\ [Next]_vars => FreshInv' /\ Loadable'
    BY StepFresh, StepLoadable
  <1> QED
    BY InitLoadable, <1>1, Invariance, PTL DEF Spec

-----------------------------------------------------------------------------
(* Clients that keep to the protocol: their requests are current, name     *)
(* this game, and give every request an identifier of its own.             *)
ToThisGame ==
  \A e \in Envelopes : e.protocol = "current" /\ e.game = "this"

OwnIdentifiers ==
  \A e, f \in Envelopes : e.command_id = f.command_id => e = f

(* The store keeps a receipt under the key of the request it is for.       *)
KeyedInv ==
  \A k \in Keys : idem[k] # NoRecord => KeyOf(k[2], idem[k].fingerprint) = k

LEMMA StepKeyed ==
  ASSUME IInv, KeyedInv, [Next]_vars
  PROVE  KeyedInv'
  <1> USE DEF flags, memory, durable, history
  <1> SUFFICES ASSUME NEW k \in Keys, idem'[k] # NoRecord, idem'[k] # idem[k]
               PROVE  KeyOf(k[2], idem'[k].fingerprint) = k
    BY DEF KeyedInv, KeyOf
  <1>1. Effect /\ TypeOK /\ ControlInv
    BY StepEffect DEF IInv
  <1>2. ASSUME NEW p, NEW e, NEW r, k = KeyOf(p, e), idem'[k] = Record(e, r)
        PROVE  KeyOf(k[2], idem'[k].fingerprint) = k
    BY <1>2 DEF KeyOf, Record
  <1>3. \E p, e, r : k = KeyOf(p, e) /\ idem'[k] = Record(e, r)
    <2>1. CASE Quiet \/ Fails \/ Turns \/ SaveRecord \/ UpdateGames
                 \/ Forget \/ Publish
      BY <2>1 DEF Quiet, Fails, Turns, SaveRecord, UpdateGames, Forget, Publish
    <2>2. CASE Ends
      BY <1>1, <2>2 DEF Ends, TypeOK
    <2>3. CASE Load
      <3>1. PICK i \in DOMAIN disk.journal :
              JournalKey(disk, i) = k /\ idem'[k] = JournalRecord(disk, i)
        BY <2>3 DEF Load
      <3> QED
        BY <3>1 DEF JournalKey, JournalRecord
    <2>4. CASE \E m \in Messages : Observe(m)
      BY <2>4 DEF Observe
    <2>5. ASSUME NEW p \in Principals, NEW e \in Envelopes,
                 Declines(p, e) \/ Replays(p, e) \/ Begins(p, e)
          PROVE  \E q, f, r : k = KeyOf(q, f) /\ idem'[k] = Record(f, r)
      BY <1>1, <2>5 DEF Declines, Replays, Begins, TypeOK
    <2>6. CASE \E p \in Principals, e \in Misdirected : AnswerElsewhere(p, e)
      BY <1>1, <2>6 DEF AnswerElsewhere, TypeOK
    <2> QED
      BY <1>1, <2>1, <2>2, <2>3, <2>4, <2>5, <2>6 DEF Effect
  <1> QED
    BY <1>2, <1>3

LEMMA KeyedInvariance == Spec => [](IInv /\ KeyedInv)
  <1>1. Init => KeyedInv
    BY DEF Init, KeyedInv
  <1> QED
    BY <1>1, StepKeyed, Invariance, PTL DEF Spec

(* A declined request of such a client finds no other record under its     *)
(* identifier.                                                             *)
LEMMA DeclineFindsRoom ==
  ASSUME IInv, KeyedInv, ToThisGame, OwnIdentifiers,
         NEW p \in Principals, NEW e \in Envelopes, Verdict(p, e) # "replay"
  PROVE  idem[KeyOf(p, e)] = NoRecord
  <1> SUFFICES ASSUME idem[KeyOf(p, e)] # NoRecord PROVE FALSE
    OBVIOUS
  <1>1. KeyOf(p, e) \in Keys /\ idem[KeyOf(p, e)] \in Records
    BY KeyTypes DEF IInv, TypeOK
  <1>2. idem[KeyOf(p, e)].fingerprint \in Envelopes
    BY <1>1 DEF Records
  <1>3. idem[KeyOf(p, e)].fingerprint.command_id = e.command_id
    BY <1>1 DEF KeyedInv, KeyOf
  <1>4. idem[KeyOf(p, e)].fingerprint = e
    BY <1>2, <1>3 DEF OwnIdentifiers
  <1> QED
    BY <1>4 DEF Verdict, ToThisGame

(* Declining a request never costs the actor, when no request is outdated, *)
(* for another game, or under the identifier of another request: those     *)
(* three are what a rejection fails the actor on.                          *)
THEOREM RejectionsAreHarmless ==
  ASSUME ToThisGame, OwnIdentifiers
  PROVE  Spec => DeclineKeepsActor
  <1>1. ASSUME IInv, KeyedInv, NEW m \in Messages, Decline(m)
        PROVE  ~failed'
    <2>1. m.principal \in Principals /\ m.envelope \in Envelopes
      BY <1>1, MessageFields DEF Decline, Serve
    <2>2. idem[KeyOf(m.principal, m.envelope)] = NoRecord
      BY <1>1, <2>1, DeclineFindsRoom DEF Decline
    <2> QED
      BY <1>1, <2>2 DEF Decline, Serve, RememberAndAnswer, CanPut
  <1>2. IInv /\ KeyedInv /\ [Next]_vars =>
          [\A m \in Messages : Decline(m) => ~failed']_vars
    BY <1>1
  <1> QED
    BY <1>2, KeyedInvariance, PTL DEF Spec, DeclineKeepsActor

(* What fails an actor is a fault, and nothing a client sends.             *)
LEMMA StepFault ==
  ASSUME ToThisGame, OwnIdentifiers, Misdirected = {},
         IInv, KeyedInv, Loadable, failed => faults > 0, [Next]_vars
  PROVE  failed' => faults' > 0
  <1> USE DEF flags, memory, durable, history
  <1> SUFFICES ASSUME failed' PROVE faults' > 0
    OBVIOUS
  <1>1. TypeOK /\ ControlInv /\ MemoryInv /\ faults \in Nat
    BY DEF IInv, TypeOK
  <1>2. ASSUME NEW c \in Callers, NEW m \in Requests(c), Request(c, m)
        PROVE  faults' > 0
    BY <1>2 DEF Request
  <1>3. ASSUME NEW m \in Messages, Wake(m) \/ HandleMessage(m) \/ EngineRaises(m)
        PROVE  faults' > 0
    <2>1. CASE Decline(m)
      <3>1. m.principal \in Principals /\ m.envelope \in Envelopes
        BY <2>1, MessageFields DEF Decline, Serve
      <3>2. idem[KeyOf(m.principal, m.envelope)] = NoRecord
        BY <2>1, <3>1, DeclineFindsRoom DEF Decline
      <3> QED
        BY <2>1, <3>2 DEF Decline, Serve, RememberAndAnswer, CanPut
    <2>2. CASE EngineRaises(m)
      BY <1>1, <2>2 DEF EngineRaises
    <2>3. CASE Wake(m) \/ Stop(m) \/ AnswerUnavailable(m) \/ Observe(m) \/ Replay(m)
                 \/ Execute(m) \/ Pause(m) \/ Resume(m) \/ KeepLifecycle(m)
      BY <2>3 DEF Wake, Stop, AnswerUnavailable, Observe, Replay, Execute, Pause,
                  Resume, KeepLifecycle, Serve
    <2> QED
      BY <1>3, <2>1, <2>2, <2>3 DEF HandleMessage
  <1>4. CASE Reply
    <2>1. ~failed
      BY <1>4 DEF Reply, IInv, ControlInv
    <2>2. current.kind = "command" /\ Committing
      BY <1>4, <2>1 DEF Reply, Committing
    <2>3. /\ disk.journal # <<>> /\ sess = disk
          /\ disk.journal[Len(disk.journal)] = PendingEntry
      BY <1>1, <1>4, <2>2 DEF Reply, MemoryInv
    <2>4. disk.journal \in Seq(Entries)
      BY <1>1 DEF TypeOK, Sessions
    <2>5. CanPut(JournalKey(disk, Len(disk.journal)),
                 JournalRecord(disk, Len(disk.journal)))
      BY <2>3, <2>4 DEF Loadable
    <2>6. CanPut(KeyOf(current.principal, current.envelope),
                 Record(current.envelope, Receipt("accepted", Revision(sess))))
      BY <2>3, <2>5
      DEF JournalKey, JournalRecord, PendingEntry, Entry, Revision
    <2> QED
      BY <1>4, <2>1, <2>2, <2>6 DEF Reply, RememberAndAnswer
  <1>5. CASE SaveFails
    BY <1>1, <1>5 DEF SaveFails
  <1>6. CASE Close \/ SaveRecord \/ UpdateGames \/ Load \/ Publish
    BY <1>6 DEF Close, SaveRecord, UpdateGames, Load, Publish
  <1>7. CASE Crash \/ Exit
    BY <1>7 DEF Crash, Exit, Forget
  <1>8. CASE UNCHANGED vars
    BY <1>8 DEF vars
  <1> QED
    BY <1>2, <1>3, <1>4, <1>5, <1>6, <1>7, <1>8 DEF Next, Save

(* With such clients, and no request that reaches another game's actor as  *)
(* well, an actor fails only of a fault: of an exception of the engine, of *)
(* the save or of the store itself.                                        *)
THEOREM OnlyFaultsFail ==
  ASSUME ToThisGame, OwnIdentifiers, Misdirected = {}
  PROVE  Spec => [](failed => faults > 0)
  <1> DEFINE Blamed == failed => faults > 0
  <1>1. Init => Blamed
    BY DEF Init
  <1>2. IInv /\ KeyedInv /\ Loadable /\ Blamed /\ [Next]_vars => Blamed'
    BY StepFault
  <1>3. Spec => []Loadable
    BY RestartsLoad
  <1> HIDE DEF Blamed
  <1>4. Spec => []Blamed
    BY <1>1, <1>2, <1>3, KeyedInvariance, PTL DEF Spec
  <1> QED
    BY <1>4 DEF Blamed

-----------------------------------------------------------------------------
(* The status of a game: which sessions may be on disk, in memory, and in  *)
(* the middle of a save.                                                   *)

WaitsForArbiter(s) == s.status = "active" /\ s.decision = "arbiter"

StatusInv ==
  /\ Settled(disk) /\ Settled(sess)
  /\ stage = "record" => disk.pause # "rules" /\ disk.status # "complete"
  /\ actor # "absent" /\ ~failed /\ stage # "record" => ~WaitsForArbiter(sess)

LEMMA InitStatus == Init => StatusInv
  BY DEF Init, StatusInv, Settled, WaitsForArbiter

LEMMA BoundaryNeverWaits ==
  ASSUME NEW s \in Sessions
  PROVE  ~WaitsForArbiter(BrowserBoundary(s))
  BY DEF WaitsForArbiter, BrowserBoundary, Sessions

LEMMA StepStatus ==
  ASSUME IInv, StatusInv, [Next]_vars
  PROVE  StatusInv'
  <1> USE DEF flags, memory, durable, history
  <1>1. Effect /\ TypeOK /\ ControlInv /\ MemoryInv
    BY StepEffect DEF IInv
  <1>2. CASE Quiet \/ Fails
    BY <1>1, <1>2 DEF Quiet, Fails, StatusInv
  <1>3. CASE Turns
    BY <1>1, <1>3
    DEF Turns, StatusInv, MemoryInv, ServesOnlyDurableState, Serving, Settled
  <1>4. CASE SaveRecord
    <2>1. Settled(BrowserBoundary(sess)) /\ ~WaitsForArbiter(BrowserBoundary(sess))
      BY <1>1, BoundarySettles, BoundaryNeverWaits DEF StatusInv, TypeOK
    <2> QED
      BY <1>4, <2>1 DEF SaveRecord, StatusInv
  <1>5. CASE UpdateGames \/ Ends
    BY <1>5 DEF UpdateGames, Ends, StatusInv
  <1>6. CASE Forget
    BY <1>6 DEF Forget, StatusInv
  <1>7. CASE Load
    <2>1. Settled(BrowserBoundary(disk)) /\ ~WaitsForArbiter(BrowserBoundary(disk))
      BY <1>1, BoundarySettles, BoundaryNeverWaits DEF StatusInv, TypeOK
    <2>2. stage' # "record"
      BY <1>1, <1>7 DEF Load, ControlInv
    <2> QED
      BY <1>7, <2>1, <2>2 DEF Load, StatusInv
  <1>8. CASE Publish
    BY <1>1, <1>8 DEF Publish, ControlInv, StatusInv
  <1>9. CASE \E m \in Messages : Observe(m)
    BY <1>9 DEF Observe, StatusInv
  <1>10. ASSUME NEW p \in Principals, NEW e \in Envelopes,
                Declines(p, e) \/ Replays(p, e) \/ Begins(p, e)
         PROVE  StatusInv'
    <2>1. CASE Declines(p, e) \/ Replays(p, e)
      BY <2>1 DEF Declines, Replays, StatusInv
    <2>2. CASE Begins(p, e)
      <3>1. sess.status = "active" /\ sess = disk
        BY <1>1, <2>2
        DEF Begins, Verdict, MemoryInv, ServesOnlyDurableState, Serving,
            TypeOK, Sessions
      <3> QED
        BY <2>2, <3>1 DEF Begins, StatusInv, Settled
    <2> QED
      BY <1>10, <2>1, <2>2
  <1>11. CASE \E p \in Principals, e \in Misdirected : AnswerElsewhere(p, e)
    BY <1>11 DEF AnswerElsewhere, StatusInv
  <1> QED
    BY <1>1, <1>2, <1>3, <1>4, <1>5, <1>6, <1>7, <1>8, <1>9, <1>10, <1>11
    DEF Effect

LEMMA StatusInvariance == Spec => []StatusInv
  <1>1. IInv /\ StatusInv /\ [Next]_vars => StatusInv'
    BY StepStatus
  <1> QED
    BY InitStatus, <1>1, Invariance, PTL DEF Spec

(* Nobody is served a game that waits for an arbiter it does not have.     *)
THEOREM NobodyWaitsForAnArbiter == Spec => []NoArbiterWait
  <1>1. StatusInv => NoArbiterWait
    BY DEF StatusInv, NoArbiterWait, Serving, WaitsForArbiter
  <1> QED
    BY <1>1, StatusInvariance, PTL

(* A pause that the rules imposed and the end of a game are for ever.      *)
THEOREM PausesHold == Spec => BoundariesHold
  <1>1. ASSUME IInv, StatusInv, [Next]_vars
        PROVE  [ /\ disk.pause = "rules" => disk'.pause = "rules"
                 /\ disk.status = "complete" => disk'.status = "complete" ]_disk
    <2> USE DEF flags, memory, durable, history
    <2>1. Effect /\ disk \in Sessions
      BY <1>1, StepEffect DEF IInv, TypeOK
    <2>2. CASE SaveRecord
      BY <1>1, <2>2 DEF SaveRecord, StatusInv
    <2>3. CASE Load
      BY <2>1, <2>3 DEF Load, BrowserBoundary, Sessions
    <2>4. CASE disk' = disk
      BY <2>4
    <2>5. SaveRecord \/ Load \/ disk' = disk
      BY <2>1
      DEF Effect, Quiet, Fails, Turns, UpdateGames, Ends, Forget, Publish,
          Observe, Declines, Replays, Begins, AnswerElsewhere
    <2> QED
      BY <2>2, <2>3, <2>4, <2>5
  <1>2. IInv /\ StatusInv /\ [Next]_vars =>
          [ /\ disk.pause = "rules" => disk'.pause = "rules"
            /\ disk.status = "complete" => disk'.status = "complete" ]_disk
    BY <1>1
  <1> QED
    BY <1>2, Invariance, StatusInvariance, PTL DEF Spec, BoundariesHold

-----------------------------------------------------------------------------
(* The ledger: the save of an accepted command commits it, the end of that *)
(* save confirms it, a replay confirms or declines again, and every other  *)
(* step stutters.                                                          *)
LEMMA LedgerInit == Init => Ledger!Init
  BY DEF Init, Ledger!Init

LEMMA CommitStep ==
  ASSUME IInv, SaveRecord, Committing,
         disk'.journal = Append(disk.journal, PendingEntry)
  PROVE  \E p \in Principals, e \in Envelopes : Ledger!Commit(p, e)
  <1> DEFINE p == current.principal
             e == current.envelope
  <1>1. p \in Principals /\ e \in Envelopes
    BY MessageFields DEF IInv, TypeOK, Committing
  <1>2. ASSUME NEW i \in DOMAIN disk.journal
        PROVE  ~Ledger!SameCommand(p, e, disk.journal[i])
    BY DEF IInv, JournalInv, SaveRecord, SameCommand, Ledger!SameCommand,
           PendingEntry, Entry
  <1>3. ASSUME NEW a \in acked
        PROVE  ~(a.principal = p /\ a.envelope = e)
    BY DEF IInv, AckInv, SaveRecord, PendingEntry, Entry
  <1>4. acked' = acked
    BY DEF SaveRecord, history
  <1>5. Ledger!Commit(p, e)
    BY <1>2, <1>3, <1>4
    DEF Ledger!Commit, Ledger!LedgerEntry, PendingEntry, Entry
  <1> QED
    BY <1>1, <1>5

LEMMA ConfirmStep ==
  ASSUME IInv, Ends, current.kind = "command"
  PROVE  \E p \in Principals, e \in Envelopes :
           \E revision \in DOMAIN disk.journal : Ledger!Confirm(p, e, revision)
  <1> DEFINE p == current.principal
             e == current.envelope
             last == Len(disk.journal)
  <1>1. p \in Principals /\ e \in Envelopes
    BY MessageFields DEF IInv, TypeOK, Ends
  <1>2. /\ disk.journal # <<>> /\ disk.journal[last] = PendingEntry
        /\ sess = disk /\ disk' = disk
    BY DEF IInv, MemoryInv, Committing, Ends
  <1>3. last \in DOMAIN disk.journal
    BY <1>2 DEF IInv, TypeOK, Sessions
  <1>4. acked' = acked \cup {Ack(p, e, Receipt("accepted", last))}
    BY <1>2 DEF Ends, Revision
  <1>5. Ledger!Confirm(p, e, last)
    BY <1>2, <1>3, <1>4
    DEF Ledger!Confirm, Ledger!LedgerEntry, Ledger!Ack, Ledger!Receipt,
        PendingEntry, Entry, Ack, Receipt
  <1> QED
    BY <1>1, <1>3, <1>5

LEMMA ReplayStep ==
  ASSUME IInv, Effect, NEW p \in Principals, NEW e \in Envelopes, Replays(p, e)
  PROVE  \/ \E revision \in DOMAIN disk.journal : Ledger!Confirm(p, e, revision)
         \/ \E a \in acked' : Ledger!Decline(p, e, a.receipt)
  <1> DEFINE stored == idem[KeyOf(p, e)]
             answer == Ack(p, e, stored.receipt)
  <1>1. /\ KeyOf(p, e) \in Keys /\ stored # NoRecord
        /\ stored \in Records /\ stored.fingerprint = e
    BY KeyTypes DEF IInv, TypeOK, Replays, Verdict
  <1>2. acked' = acked \cup {answer} /\ disk' = disk
    BY DEF Replays, durable
  <1>3. CASE stored.receipt.code = "accepted"
    <2>1. /\ stored.receipt.revision \in DOMAIN disk.journal
          /\ disk.journal[stored.receipt.revision] = Entry(p, e)
      BY <1>1, <1>3 DEF IInv, StoreInv, KeyOf
    <2>2. stored.receipt = Receipt("accepted", stored.receipt.revision)
      BY <1>1, <1>3 DEF Records, Receipts, Receipt
    <2>3. Ledger!Confirm(p, e, stored.receipt.revision)
      BY <1>2, <2>1, <2>2
      DEF Ledger!Confirm, Ledger!LedgerEntry, Ledger!Ack, Ledger!Receipt,
          Entry, Ack, Receipt
    <2> QED
      BY <2>1, <2>3
  <1>4. CASE stored.receipt.code # "accepted"
    <2>1. /\ answer.principal = p /\ answer.envelope = e
          /\ answer.receipt = stored.receipt
      BY DEF Ack
    <2>2. ASSUME NEW i \in DOMAIN disk.journal
          PROVE  disk.journal[i] # Entry(p, e)
      <3>1. CASE answer \in acked
        BY <1>4, <2>1, <3>1 DEF IInv, AckInv
      <3>2. CASE answer \notin acked
        BY <1>2, <1>4, <2>1, <3>2, NewAnswers DEF IInv
      <3> QED
        BY <3>1, <3>2
    <2>3. ASSUME NEW a \in acked, a.principal = p, a.envelope = e
          PROVE  a.receipt = stored.receipt
      <3>1. stored = Record(e, a.receipt)
        BY <2>3 DEF IInv, AckInv
      <3> QED
        BY <3>1 DEF Record
    <2>4. Ledger!Decline(p, e, answer.receipt)
      BY <1>2, <1>4, <2>1, <2>2, <2>3
      DEF Ledger!Decline, Ledger!LedgerEntry, Ledger!Ack, Entry, Ack
    <2> QED
      BY <1>2, <2>4
  <1> QED
    BY <1>3, <1>4

LEMMA DeclineStep ==
  ASSUME IInv, Effect, NEW p \in Principals, NEW e \in Envelopes,
         Declines(p, e)
  PROVE  \E a \in acked' : Ledger!Decline(p, e, a.receipt)
  <1> DEFINE receipt == Receipt(DeclineCode(p, e), Revision(sess))
             answer == Ack(p, e, receipt)
  <1>1. /\ acked' = acked \cup {answer} /\ disk' = disk
        /\ CanPut(KeyOf(p, e), Record(e, receipt))
        /\ receipt.code # "accepted"
    BY KeyTypes DEF Declines, Receipt
  <1>2. /\ answer.principal = p /\ answer.envelope = e
        /\ answer.receipt = receipt
    BY DEF Ack
  <1>3. ASSUME NEW i \in DOMAIN disk.journal
        PROVE  disk.journal[i] # Entry(p, e)
    <2>1. CASE answer \in acked
      BY <1>1, <1>2, <2>1 DEF IInv, AckInv
    <2>2. CASE answer \notin acked
      BY <1>1, <1>2, <2>2, NewAnswers DEF IInv
    <2> QED
      BY <2>1, <2>2
  <1>4. ASSUME NEW a \in acked, a.principal = p, a.envelope = e
        PROVE  a.receipt = receipt
    <2>1. /\ idem[KeyOf(p, e)] = Record(e, a.receipt)
          /\ Record(e, a.receipt) \in Records
      BY <1>4 DEF IInv, AckInv, TypeOK, Acks, Record, Records
    <2>2. Record(e, a.receipt) = Record(e, receipt)
      BY <1>1, <2>1, NoRecordAssumption DEF CanPut
    <2> QED
      BY <2>2 DEF Record
  <1>5. Ledger!Decline(p, e, answer.receipt)
    BY <1>1, <1>2, <1>3, <1>4
    DEF Ledger!Decline, Ledger!LedgerEntry, Ledger!Ack, Entry, Ack
  <1> QED
    BY <1>1, <1>5

LEMMA LedgerStep ==
  ASSUME IInv, [Next]_vars
  PROVE  [Ledger!Next]_<<disk.journal, acked>>
  <1> USE DEF flags, memory, durable, history
  <1>1. Effect
    BY StepEffect DEF IInv
  <1>2. disk' = disk /\ acked' = acked => UNCHANGED <<disk.journal, acked>>
    OBVIOUS
  <1>3. CASE SaveRecord
    <2>1. CASE disk'.journal = disk.journal
      BY <1>3, <2>1 DEF SaveRecord
    <2>2. CASE /\ Committing
               /\ disk'.journal = Append(disk.journal, PendingEntry)
      BY <1>3, <2>2, CommitStep DEF Ledger!Next
    <2> QED
      BY <1>1, <2>1, <2>2, StepJournal DEF IInv
  <1>4. CASE Ends
    <2>1. CASE current.kind = "command"
      BY <1>4, <2>1, ConfirmStep DEF Ledger!Next
    <2> QED
      BY <1>4, <2>1 DEF Ends
  <1>5. ASSUME NEW p \in Principals, NEW e \in Envelopes,
               Replays(p, e) \/ Declines(p, e)
        PROVE  Ledger!Next
    BY <1>1, <1>5, ReplayStep, DeclineStep DEF Ledger!Next
  <1>6. ASSUME NEW p \in Principals, NEW e \in Envelopes, Begins(p, e)
        PROVE  UNCHANGED <<disk.journal, acked>>
    BY <1>6 DEF Begins
  <1>7. CASE Load
    <2>1. disk'.journal = disk.journal
      BY <1>7, BoundaryKeepsJournal DEF Load, IInv, TypeOK
    <2> QED
      BY <1>7, <2>1 DEF Load
  <1>8. CASE Quiet \/ Fails \/ Turns \/ UpdateGames \/ Forget \/ Publish
    BY <1>8 DEF Quiet, Fails, Turns, UpdateGames, Forget, Publish
  <1>9. CASE \E m \in Messages : Observe(m)
    BY <1>9 DEF Observe
  <1>10. CASE \E p \in Principals, e \in Misdirected : AnswerElsewhere(p, e)
    BY <1>10 DEF AnswerElsewhere
  <1> QED
    BY <1>1, <1>3, <1>4, <1>5, <1>6, <1>7, <1>8, <1>9, <1>10 DEF Effect

(* The journal on disk and the receipts given to clients behave like the   *)
(* ledger of CommandLedger.                                                *)
THEOREM Refinement == Spec => ImplementsLedger
  <1>1. IInv /\ [Next]_vars => [Ledger!Next]_<<disk.journal, acked>>
    BY LedgerStep
  <1> QED
    BY <1>1, LedgerInit, Invariance, PTL
    DEF Spec, ImplementsLedger, Ledger!Spec

-----------------------------------------------------------------------------
(* The mailbox: who is in it, how it moves, and how a closing actor ends.  *)

StageLeft ==
  CASE stage = "record" -> 3
    [] stage = "games"  -> 2
    [] stage = "reply"  -> 1
    [] OTHER            -> 0

(* What a step does to the queue, the worker and the two flags.            *)
Sends ==
  \E c \in Callers : \E m \in Requests(c) :
    /\ actor = "running" /\ ~closed /\ ~Waiting(c) /\ Put(m)
    /\ UNCHANGED <<actor, closed, stage, current>>

Closes ==
  /\ actor = "running" /\ ~closed /\ closed' = TRUE /\ Put(StopMessage)
  /\ UNCHANGED <<actor, stage, current>>

Wakes ==
  \E m \in putters :
    /\ mailbox' = Append(mailbox, m) /\ putters' = putters \ {m}
    /\ UNCHANGED <<actor, closed, stage, current>>

Stops ==
  /\ mailbox # <<>> /\ Head(mailbox) = StopMessage
  /\ mailbox' = Tail(mailbox) /\ actor' = "stopped"
  /\ UNCHANGED <<closed, putters, stage, current>>

Takes ==
  /\ actor = "running" /\ mailbox # <<>> /\ Head(mailbox) # StopMessage
  /\ mailbox' = Tail(mailbox) /\ stage = "idle"
  /\ UNCHANGED <<actor, closed, putters>>
  /\ \/ UNCHANGED <<stage, current>>
     \/ stage' = "record" /\ current' = Head(mailbox)

Saves ==
  /\ StageLeft' < StageLeft
  /\ current' \in {current, NoMessage}
  /\ UNCHANGED <<actor, closed, mailbox, putters>>

Vanishes ==
  /\ actor' = "absent" /\ ~closed' /\ mailbox' = <<>> /\ putters' = {}
  /\ stage' = "idle" /\ current' = NoMessage

Rests ==
  /\ UNCHANGED <<closed, mailbox, putters, stage, current>>
  /\ actor' = actor \/ actor \in {"absent", "loading"}

LEMMA QueueStep ==
  ASSUME IInv, [Next]_vars
  PROVE  \/ Sends \/ Closes \/ Wakes \/ Stops
         \/ Takes \/ Saves \/ Vanishes \/ Rests
  <1> USE DEF flags, memory, durable, history
  <1>1. ASSUME NEW c \in Callers, NEW m \in Requests(c), Request(c, m)
        PROVE  Sends
    BY <1>1 DEF Request, Sends
  <1>2. ASSUME NEW m \in Messages, Wake(m)
        PROVE  Wakes
    BY <1>2 DEF Wake, Wakes
  <1>3. ASSUME NEW m \in Messages, HandleMessage(m) \/ EngineRaises(m)
        PROVE  Stops \/ Takes
    <2>1. (m.kind = "stop") <=> (m = StopMessage)
      <3>1. ASSUME NEW c \in Callers, m \in Requests(c)
            PROVE  m.kind # "stop"
        BY <3>1 DEF Requests, CommandMessage, PlainMessage
      <3>2. m = StopMessage \/ \E c \in Callers : m \in Requests(c)
        BY Zenon DEF Messages
      <3> QED
        BY <3>1, <3>2 DEF StopMessage
    <2>2. CASE Stop(m)
      BY <2>1, <2>2 DEF Stop, Take, Stops
    <2>3. CASE AnswerUnavailable(m) \/ Observe(m) \/ Replay(m) \/ Decline(m)
                 \/ KeepLifecycle(m) \/ EngineRaises(m)
      BY <2>1, <2>3 DEF AnswerUnavailable, Observe, Replay, Decline,
                        KeepLifecycle, EngineRaises, Serve, Take, Takes
    <2>4. CASE Execute(m) \/ Pause(m) \/ Resume(m)
      BY <2>1, <2>4 DEF Execute, Pause, Resume, Serve, Take, Takes
    <2> QED
      BY <1>3, <2>2, <2>3, <2>4 DEF HandleMessage
  <1>4. CASE Close
    BY <1>4 DEF Close, Closes
  <1>5. CASE SaveRecord \/ UpdateGames \/ Reply
    BY <1>5 DEF SaveRecord, UpdateGames, Reply, Saves, StageLeft
  <1>6. CASE SaveFails
    BY <1>6 DEF SaveFails, Saves, StageLeft, IInv, TypeOK
  <1>7. CASE Crash \/ Exit
    BY <1>7 DEF Crash, Exit, Forget, Vanishes
  <1>8. CASE Load \/ Publish
    BY <1>8 DEF Load, Publish, Rests
  <1>9. ASSUME NEW p \in Principals, NEW e \in Misdirected, AnswerElsewhere(p, e)
        PROVE  Rests
    BY <1>9 DEF AnswerElsewhere, Rests
  <1>10. CASE UNCHANGED vars
    BY <1>10 DEF vars, Rests
  <1> QED
    BY <1>1, <1>2, <1>3, <1>4, <1>5, <1>6, <1>7, <1>8, <1>9, <1>10 DEF Next, Save

(* Where a caller's request is.                                            *)
InPutters(c) == \E m \in putters : m \in Requests(c)

Once(c) ==
  /\ \A i, j \in DOMAIN mailbox :
       mailbox[i] \in Requests(c) /\ mailbox[j] \in Requests(c) => i = j
  /\ \A m, n \in putters : m \in Requests(c) /\ n \in Requests(c) => m = n
  /\ ~(InMailbox(c) /\ InPutters(c))
  /\ ~(InMailbox(c) /\ current \in Requests(c))
  /\ ~(InPutters(c) /\ current \in Requests(c))

StopQueued == \E i \in DOMAIN mailbox : mailbox[i] = StopMessage

(* A stop message is somewhere only because the actor was closed, and in   *)
(* an actor that is closed and runs it still is.                           *)
StopInv ==
  /\ StopQueued \/ StopMessage \in putters => closed
  /\ actor = "running" /\ closed => StopQueued \/ StopMessage \in putters
  /\ actor \in {"absent", "loading"} => ~closed
  /\ IsFiniteSet(putters)

QueueInv == (\A c \in Callers : Once(c)) /\ StopInv

LEMMA InitQueue == Init => QueueInv
  BY FS_EmptySet, NoMessageAssumption
  DEF Init, QueueInv, Once, StopInv, StopQueued, InMailbox, InPutters, Messages

(* A message that is put is at the end of the mailbox or among the putters.*)
LEMMA Shorter ==
  ASSUME TypeOK, mailbox # <<>>, mailbox' = Tail(mailbox)
  PROVE  /\ Len(mailbox) >= 1 /\ 1 \in DOMAIN mailbox
         /\ Head(mailbox) = mailbox[1]
         /\ Len(mailbox') = Len(mailbox) - 1
         /\ \A i \in DOMAIN mailbox' :
              i + 1 \in DOMAIN mailbox /\ mailbox'[i] = mailbox[i + 1]
         /\ \A i \in DOMAIN mailbox :
              i # 1 => i - 1 \in DOMAIN mailbox' /\ mailbox'[i - 1] = mailbox[i]
  BY DEF TypeOK

LEMMA Longer ==
  ASSUME TypeOK, NEW m \in Messages, mailbox' = Append(mailbox, m)
  PROVE  /\ Len(mailbox') = Len(mailbox) + 1
         /\ Len(mailbox') \in DOMAIN mailbox' /\ mailbox'[Len(mailbox')] = m
         /\ \A i \in DOMAIN mailbox :
              i \in DOMAIN mailbox' /\ mailbox'[i] = mailbox[i]
         /\ \A i \in DOMAIN mailbox' :
              i = Len(mailbox') \/ (i \in DOMAIN mailbox /\ mailbox'[i] = mailbox[i])
  BY DEF TypeOK

LEMMA RequestsApart ==
  ASSUME NEW c \in Callers
  PROVE  /\ Requests(c) \subseteq Messages
         /\ StopMessage \notin Requests(c) /\ NoMessage \notin Requests(c)
         /\ \A d \in Callers : \A m \in Requests(c) : m \in Requests(d) => d = c
  <1>1. Requests(c) \subseteq Messages
    BY DEF Messages
  <1>2. \A d \in Callers : \A m \in Requests(d) : m.caller = d /\ m.kind # "stop"
    BY DEF Requests, CommandMessage, PlainMessage
  <1>3. StopMessage \notin Requests(c)
    BY <1>2 DEF StopMessage
  <1> QED
    BY <1>1, <1>2, <1>3, NoMessageAssumption

(* A request that joins the mailbox is its caller's only one if it was so  *)
(* before.                                                                 *)
LEMMA JoinOnce ==
  ASSUME TypeOK, NEW c \in Callers, NEW m \in Messages,
         mailbox' = Append(mailbox, m), current' = current,
         putters' \subseteq putters, Once(c),
         m \in Requests(c) => /\ ~InMailbox(c) /\ current \notin Requests(c)
                             /\ \A n \in putters' : n \notin Requests(c)
  PROVE  Once(c)'
  <1>1. CASE m \in Requests(c)
    <2>1. \A i \in DOMAIN mailbox : mailbox[i] \notin Requests(c)
      BY <1>1 DEF InMailbox
    <2>2. \A i \in DOMAIN mailbox' :
            mailbox'[i] \in Requests(c) => i = Len(mailbox')
      BY <2>1, Longer
    <2> QED
      BY <1>1, <2>2 DEF Once, InPutters, InMailbox
  <1>2. CASE m \notin Requests(c)
    <2>1. \A i \in DOMAIN mailbox' : mailbox'[i] \in Requests(c) =>
            i \in DOMAIN mailbox /\ mailbox'[i] = mailbox[i]
      BY <1>2, Longer
    <2>2. InMailbox(c)' => InMailbox(c)
      BY <2>1 DEF InMailbox
    <2>3. InPutters(c)' => InPutters(c)
      BY DEF InPutters
    <2>4. \A i, j \in DOMAIN mailbox' :
            mailbox'[i] \in Requests(c) /\ mailbox'[j] \in Requests(c) => i = j
      BY <2>1 DEF Once
    <2>5. \A k, n \in putters' : k \in Requests(c) /\ n \in Requests(c) => k = n
      BY DEF Once
    <2> QED
      BY <2>2, <2>3, <2>4, <2>5 DEF Once
  <1> QED
    BY <1>1, <1>2

LEMMA WaitOnce ==
  ASSUME NEW c \in Callers, NEW m \in Messages,
         putters' = putters \cup {m}, mailbox' = mailbox, current' = current,
         Once(c), m \in Requests(c) => ~Waiting(c)
  PROVE  Once(c)'
  <1>1. CASE m \in Requests(c)
    BY <1>1 DEF Once, Waiting, InMailbox, InPutters
  <1>2. CASE m \notin Requests(c)
    <2>1. InPutters(c)' <=> InPutters(c)
      BY <1>2 DEF InPutters
    <2>2. InMailbox(c)' <=> InMailbox(c)
      BY DEF InMailbox
    <2>3. \A k, n \in putters' : k \in Requests(c) /\ n \in Requests(c) => k = n
      BY <1>2 DEF Once
    <2> QED
      BY <2>1, <2>2, <2>3 DEF Once
  <1> QED
    BY <1>1, <1>2

LEMMA TailOnce ==
  ASSUME TypeOK, NEW c \in Callers, mailbox # <<>>, mailbox' = Tail(mailbox),
         putters' = putters, Once(c),
         \/ current' = current
         \/ current' = Head(mailbox)
  PROVE  Once(c)'
  <1>1. /\ 1 \in DOMAIN mailbox /\ Head(mailbox) = mailbox[1]
        /\ \A i \in DOMAIN mailbox' : /\ i \in Nat /\ i + 1 # 1
                                      /\ i + 1 \in DOMAIN mailbox
                                      /\ mailbox'[i] = mailbox[i + 1]
    BY Shorter DEF TypeOK
  <1>2. InMailbox(c)' => InMailbox(c)
    BY <1>1 DEF InMailbox
  <1>3. mailbox[1] \in Requests(c) => ~InMailbox(c)' /\ InMailbox(c)
    BY <1>1 DEF InMailbox, Once
  <1>4. \A i, j \in DOMAIN mailbox' :
          mailbox'[i] \in Requests(c) /\ mailbox'[j] \in Requests(c) => i = j
    BY <1>1 DEF Once
  <1>5. InPutters(c)' <=> InPutters(c)
    BY DEF InPutters
  <1>6. current' \in Requests(c) =>
          current \in Requests(c) \/ mailbox[1] \in Requests(c)
    BY <1>1
  <1> QED
    BY <1>2, <1>3, <1>4, <1>5, <1>6 DEF Once

LEMMA StepOnce ==
  ASSUME IInv, QueueInv, [Next]_vars, NEW c \in Callers
  PROVE  Once(c)'
  <1>1. TypeOK /\ Once(c)
    BY DEF IInv, QueueInv
  <1>2. CASE Sends
    <2>1. PICK d \in Callers : \E m \in Requests(d) :
            ~Waiting(d) /\ Put(m) /\ current' = current
      BY <1>2 DEF Sends
    <2>2. PICK m \in Requests(d) : ~Waiting(d) /\ Put(m) /\ current' = current
      BY <2>1
    <2>3. m \in Messages /\ (m \in Requests(c) => d = c)
      BY RequestsApart
    <2>4. CASE mailbox' = Append(mailbox, m) /\ putters' = putters
      BY <1>1, <2>2, <2>3, <2>4, JoinOnce DEF Waiting, InMailbox
    <2>5. CASE mailbox' = mailbox /\ putters' = putters \cup {m}
      BY <1>1, <2>2, <2>3, <2>5, WaitOnce
    <2> QED
      BY <2>2, <2>4, <2>5 DEF Put
  <1>3. CASE Closes
    <2>1. StopMessage \in Messages /\ StopMessage \notin Requests(c)
      BY RequestsApart DEF Messages
    <2>2. Put(StopMessage) /\ current' = current
      BY <1>3 DEF Closes
    <2>3. CASE mailbox' = Append(mailbox, StopMessage) /\ putters' = putters
      BY <1>1, <2>1, <2>2, <2>3, JoinOnce
    <2>4. CASE mailbox' = mailbox /\ putters' = putters \cup {StopMessage}
      BY <1>1, <2>1, <2>2, <2>4, WaitOnce
    <2> QED
      BY <2>2, <2>3, <2>4 DEF Put
  <1>4. CASE Wakes
    <2>1. PICK m \in putters : /\ mailbox' = Append(mailbox, m)
                               /\ putters' = putters \ {m}
                               /\ current' = current
      BY <1>4 DEF Wakes
    <2>2. m \in Messages
      BY <1>1 DEF TypeOK
    <2>3. m \in Requests(c) => /\ ~InMailbox(c) /\ current \notin Requests(c)
                              /\ \A n \in putters' : n \notin Requests(c)
      BY <1>1, <2>1 DEF Once, InPutters
    <2> QED
      BY <1>1, <2>1, <2>2, <2>3, JoinOnce
  <1>5. CASE Stops
    BY <1>1, <1>5, TailOnce DEF Stops
  <1>6. CASE Takes
    BY <1>1, <1>6, TailOnce DEF Takes
  <1>7. CASE Saves
    BY <1>1, <1>7, RequestsApart DEF Saves, Once, InMailbox, InPutters
  <1>8. CASE Vanishes
    BY <1>8, RequestsApart DEF Vanishes, Once, InMailbox, InPutters
  <1>9. CASE Rests
    BY <1>1, <1>9 DEF Rests, Once, InMailbox, InPutters
  <1> QED
    BY <1>2, <1>3, <1>4, <1>5, <1>6, <1>7, <1>8, <1>9, QueueStep

LEMMA StepStop ==
  ASSUME IInv, QueueInv, [Next]_vars
  PROVE  StopInv'
  <1>1. TypeOK /\ StopInv
    BY DEF IInv, QueueInv
  <1>2. ASSUME NEW m \in Messages, mailbox' = Append(mailbox, m)
        PROVE  StopQueued' <=> StopQueued \/ m = StopMessage
    BY <1>1, <1>2, Longer DEF StopQueued
  <1>3. ASSUME mailbox # <<>>, mailbox' = Tail(mailbox)
        PROVE  /\ StopQueued' => StopQueued
               /\ StopQueued /\ Head(mailbox) # StopMessage => StopQueued'
    <2>1. StopQueued' => StopQueued
      BY <1>1, <1>3, Shorter DEF StopQueued
    <2>2. ASSUME StopQueued, Head(mailbox) # StopMessage
          PROVE  StopQueued'
      <3>1. PICK i \in DOMAIN mailbox : mailbox[i] = StopMessage
        BY <2>2 DEF StopQueued
      <3>2. i # 1
        BY <1>1, <1>3, <2>2, <3>1, Shorter
      <3> QED
        BY <1>1, <1>3, <3>1, <3>2, Shorter DEF StopQueued
    <2> QED
      BY <2>1, <2>2
  <1>4. CASE Sends
    <2>1. PICK d \in Callers : \E m \in Requests(d) :
            /\ actor = "running" /\ ~closed /\ Put(m)
            /\ UNCHANGED <<actor, closed>>
      BY <1>4 DEF Sends
    <2>2. PICK m \in Requests(d) : Put(m)
      BY <2>1
    <2>3. m \in Messages /\ m # StopMessage
      BY RequestsApart
    <2>4. IsFiniteSet(putters \cup {m})
      BY <1>1, FS_AddElement DEF StopInv
    <2>5. ~StopQueued /\ StopMessage \notin putters /\ IsFiniteSet(putters)
      BY <1>1, <2>1 DEF StopInv
    <2>6. CASE mailbox' = Append(mailbox, m) /\ putters' = putters
      <3>1. ~StopQueued'
        BY <1>2, <2>3, <2>5, <2>6
      <3> QED
        BY <2>1, <2>5, <2>6, <3>1 DEF StopInv
    <2>7. CASE mailbox' = mailbox /\ putters' = putters \cup {m}
      <3>1. ~StopQueued' /\ StopMessage \notin putters'
        BY <2>3, <2>5, <2>7 DEF StopQueued
      <3> QED
        BY <2>1, <2>4, <2>7, <3>1 DEF StopInv
    <2> QED
      BY <2>2, <2>6, <2>7 DEF Put
  <1>5. CASE Closes
    <2>1. StopMessage \in Messages
      BY DEF Messages
    <2>2. IsFiniteSet(putters \cup {StopMessage})
      BY <1>1, FS_AddElement DEF StopInv
    <2> QED
      BY <1>1, <1>2, <1>5, <2>1, <2>2 DEF Closes, Put, StopInv, StopQueued
  <1>6. CASE Wakes
    <2>1. PICK m \in putters : /\ mailbox' = Append(mailbox, m)
                               /\ putters' = putters \ {m}
                               /\ UNCHANGED <<actor, closed>>
      BY <1>6 DEF Wakes
    <2>2. m \in Messages /\ IsFiniteSet(putters \ {m})
      BY <1>1, FS_RemoveElement DEF TypeOK, StopInv
    <2> QED
      BY <1>1, <1>2, <2>1, <2>2 DEF StopInv
  <1>7. CASE Stops
    BY <1>1, <1>3, <1>7 DEF Stops, StopInv
  <1>8. CASE Takes
    BY <1>1, <1>3, <1>8 DEF Takes, StopInv
  <1>9. CASE Saves
    BY <1>1, <1>9 DEF Saves, StopInv, StopQueued
  <1>10. CASE Vanishes
    BY <1>10, FS_EmptySet DEF Vanishes, StopInv, StopQueued
  <1>11. CASE Rests
    BY <1>1, <1>11 DEF Rests, StopInv, StopQueued
  <1> QED
    BY <1>4, <1>5, <1>6, <1>7, <1>8, <1>9, <1>10, <1>11, QueueStep

LEMMA QueueInvariance == Spec => [](IInv /\ QueueInv)
  <1>1. IInv /\ QueueInv /\ [Next]_vars => QueueInv'
    BY StepOnce, StepStop DEF QueueInv
  <1> QED
    BY <1>1, InitQueue, Invariance, PTL DEF Spec

(* A caller whose request is under way has it in one place only: in the    *)
(* mailbox, among those that wait for room, or with the worker, which is   *)
(* what lets an answer find the task that waits for it (_request awaits    *)
(* the future it has put with its message).                                *)
THEOREM OneRequestEach == Spec => [](\A c \in Callers : Once(c))
  BY QueueInvariance, PTL DEF QueueInv

(* What an actor has still to do before it has consumed everything: a      *)
(* message that waits for room is moved and taken, one in the mailbox is   *)
(* taken, and every taking may begin a save of three steps.                *)
Weight == 8 * Cardinality(putters) + 4 * Len(mailbox) + StageLeft

Closing == actor = "running" /\ closed

LEMMA WeightType ==
  ASSUME IInv, QueueInv
  PROVE  /\ Cardinality(putters) \in Nat /\ Len(mailbox) \in Nat
         /\ StageLeft \in 0..3 /\ Weight \in Nat
  <1>1. Cardinality(putters) \in Nat
    BY FS_CardinalityType DEF QueueInv, StopInv
  <1>2. Len(mailbox) \in Nat
    BY DEF IInv, TypeOK
  <1>3. StageLeft \in 0..3
    BY DEF StageLeft
  <1> QED
    BY <1>1, <1>2, <1>3 DEF Weight

LEMMA ClosingStep ==
  ASSUME IInv, QueueInv, [Next]_vars, Closing
  PROVE  \/ actor' # "running"
         \/ closed' /\ Weight' < Weight
         \/ closed' /\ UNCHANGED <<mailbox, putters, stage>>
  <1>1. TypeOK /\ actor = "running" /\ closed /\ IsFiniteSet(putters)
    BY DEF IInv, QueueInv, StopInv, Closing
  <1>2. /\ Cardinality(putters) \in Nat /\ Len(mailbox) \in Nat
        /\ StageLeft \in 0..3
    BY WeightType
  <1>3. CASE Wakes
    <2>1. PICK m \in putters : /\ mailbox' = Append(mailbox, m)
                               /\ putters' = putters \ {m}
                               /\ UNCHANGED <<actor, closed, stage>>
      BY <1>3 DEF Wakes
    <2>2. Len(mailbox') = Len(mailbox) + 1
      BY <1>1, <2>1, Longer DEF TypeOK
    <2>3. Cardinality(putters') = Cardinality(putters) - 1
      BY <1>1, <2>1, FS_RemoveElement
    <2>4. StageLeft' = StageLeft
      BY <2>1 DEF StageLeft
    <2>5. Weight' < Weight
      BY <1>2, <2>2, <2>3, <2>4 DEF Weight
    <2> QED
      BY <1>1, <2>1, <2>5
  <1>4. CASE Takes
    <2>1. /\ Len(mailbox') = Len(mailbox) - 1 /\ putters' = putters
          /\ closed' = closed
      BY <1>1, <1>4, Shorter DEF Takes
    <2>2. StageLeft = 0 /\ StageLeft' \in 0..3
      BY <1>4 DEF Takes, StageLeft
    <2>3. Weight' < Weight
      BY <1>2, <2>1, <2>2 DEF Weight
    <2> QED
      BY <1>1, <2>1, <2>3
  <1>5. CASE Saves
    <2>1. /\ StageLeft' < StageLeft /\ StageLeft' \in 0..3
          /\ UNCHANGED <<mailbox, putters, closed>>
      BY <1>5 DEF Saves, StageLeft
    <2>2. Weight' < Weight
      BY <1>2, <2>1 DEF Weight
    <2> QED
      BY <1>1, <2>1, <2>2
  <1>6. CASE Stops \/ Vanishes
    BY <1>6 DEF Stops, Vanishes
  <1>7. CASE Rests
    BY <1>1, <1>7 DEF Rests
  <1>8. ~Sends /\ ~Closes
    BY <1>1 DEF Sends, Closes
  <1> QED
    BY <1>3, <1>4, <1>5, <1>6, <1>7, <1>8, QueueStep

(* A closed actor runs out of work: its stop message is in the mailbox or  *)
(* still waits for room there, and every step that touches the queue or a  *)
(* save lowers a natural number.  Nothing is added to it, so it stops,     *)
(* unless the loop leaves a sender or the worker alone, which CloseStops   *)
(* excludes by its fairness.                                               *)
THEOREM ClosingRunsOut ==
  Spec => /\ [](Closing => /\ Weight \in Nat
                           /\ StopQueued \/ StopMessage \in putters)
          /\ [][ Closing => \/ actor' # "running"
                            \/ closed' /\ Weight' < Weight
                            \/ closed' /\ UNCHANGED <<mailbox, putters, stage>>
                ]_vars
  <1> DEFINE A == Closing => \/ actor' # "running"
                             \/ closed' /\ Weight' < Weight
                             \/ closed' /\ UNCHANGED <<mailbox, putters, stage>>
             J == Closing => /\ Weight \in Nat
                             /\ StopQueued \/ StopMessage \in putters
  <1>1. IInv /\ QueueInv /\ [Next]_vars => [A]_vars
    BY ClosingStep
  <1>2. IInv /\ QueueInv => J
    BY WeightType DEF Closing, QueueInv, StopInv
  <1> HIDE DEF A, J
  <1>3. Spec => [][A]_vars
    BY <1>1, QueueInvariance, PTL DEF Spec
  <1>4. Spec => []J
    BY <1>2, QueueInvariance, PTL
  <1> QED
    BY <1>3, <1>4 DEF A, J

(* The request of c is the i-th of the mailbox, and no stop comes first.   *)
At(c, i) ==
  /\ i \in DOMAIN mailbox /\ mailbox[i] \in Requests(c)
  /\ \A j \in DOMAIN mailbox : j <= i => mailbox[j] # StopMessage

LEMMA PlaceStep ==
  ASSUME IInv, QueueInv, [Next]_vars, NEW c \in Callers, NEW i, At(c, i)
  PROVE  \/ i = 1 /\ ~InMailbox(c)'
         \/ i > 1 /\ At(c, i - 1)'
         \/ At(c, i)' /\ (stage' = stage \/ StageLeft' < StageLeft)
         \/ actor' = "absent"
  <1>1. /\ TypeOK /\ Once(c)
        /\ i \in DOMAIN mailbox /\ mailbox[i] \in Requests(c)
        /\ \A j \in DOMAIN mailbox : j <= i => mailbox[j] # StopMessage
    BY DEF IInv, QueueInv, At
  <1>2. DOMAIN mailbox = 1..Len(mailbox) /\ Len(mailbox) \in Nat
    BY <1>1 DEF TypeOK
  <1>3. ASSUME NEW m \in Messages, mailbox' = Append(mailbox, m)
        PROVE  At(c, i)'
    <2>1. \A j \in DOMAIN mailbox' :
            j <= i => j \in DOMAIN mailbox /\ mailbox'[j] = mailbox[j]
      BY <1>1, <1>2, <1>3, Longer
    <2>2. i \in DOMAIN mailbox' /\ mailbox'[i] = mailbox[i]
      BY <1>1, <1>3, Longer
    <2> QED
      BY <1>1, <2>1, <2>2 DEF At
  <1>4. CASE Sends
    <2>1. PICK d \in Callers : \E m \in Requests(d) : Put(m) /\ stage' = stage
      BY <1>4 DEF Sends
    <2>2. PICK m \in Requests(d) : Put(m) /\ stage' = stage
      BY <2>1
    <2>3. m \in Messages
      BY RequestsApart
    <2>4. mailbox' = Append(mailbox, m) \/ mailbox' = mailbox
      BY <2>2 DEF Put
    <2> QED
      BY <1>1, <1>3, <2>2, <2>3, <2>4 DEF At
  <1>5. CASE Closes
    <2>1. StopMessage \in Messages
      BY DEF Messages
    <2>2. /\ mailbox' = Append(mailbox, StopMessage) \/ mailbox' = mailbox
          /\ stage' = stage
      BY <1>5 DEF Closes, Put
    <2> QED
      BY <1>1, <1>3, <2>1, <2>2 DEF At
  <1>6. CASE Wakes
    BY <1>1, <1>3, <1>6 DEF Wakes, TypeOK
  <1>7. CASE Takes
    <2>1. /\ Head(mailbox) = mailbox[1]
          /\ \A j \in DOMAIN mailbox' :
               j + 1 \in DOMAIN mailbox /\ mailbox'[j] = mailbox[j + 1]
          /\ \A j \in DOMAIN mailbox :
               j # 1 => j - 1 \in DOMAIN mailbox' /\ mailbox'[j - 1] = mailbox[j]
          /\ DOMAIN mailbox' \subseteq Nat \ {0} /\ 1 \in DOMAIN mailbox
      <3>1. mailbox' \in Seq(Messages)
        BY <1>1, <1>7 DEF Takes, TypeOK
      <3> QED
        BY <1>1, <1>7, <3>1, Shorter DEF Takes
    <2>2. CASE i = 1
      <3>1. \A j \in DOMAIN mailbox' : mailbox'[j] \notin Requests(c)
        <4>1. \A j \in DOMAIN mailbox' : j + 1 # 1
          BY <2>1
        <4> QED
          BY <1>1, <2>1, <2>2, <4>1 DEF Once
      <3> QED
        BY <2>2, <3>1 DEF InMailbox
    <2>3. CASE i # 1
      <3>1. i > 1 /\ i - 1 \in DOMAIN mailbox' /\ mailbox'[i - 1] = mailbox[i]
        BY <1>1, <1>2, <2>1, <2>3
      <3>2. \A j \in DOMAIN mailbox' : j <= i - 1 => mailbox'[j] # StopMessage
        BY <1>1, <1>2, <2>1
      <3> QED
        BY <1>1, <3>1, <3>2 DEF At
    <2> QED
      BY <2>2, <2>3
  <1>8. ~Stops
    <2>1. mailbox # <<>> => Head(mailbox) = mailbox[1] /\ 1 \in DOMAIN mailbox
      BY <1>1 DEF TypeOK
    <2> QED
      BY <1>1, <1>2, <2>1 DEF Stops
  <1>9. CASE Saves
    BY <1>1, <1>9 DEF Saves, At
  <1>10. CASE Vanishes
    BY <1>10 DEF Vanishes
  <1>11. CASE Rests
    BY <1>1, <1>11 DEF Rests, At
  <1> QED
    BY <1>4, <1>5, <1>6, <1>7, <1>8, <1>9, <1>10, <1>11, QueueStep

(* Nobody is left behind in the mailbox: a request that reached it while   *)
(* the actor was open comes before any stop message, keeps its place when  *)
(* others send, wait or close, and moves up one place whenever the worker  *)
(* takes a message, whether the actor has failed or not, until it is taken *)
(* itself or the process ends; between two takings a save only advances.   *)
(* This is what MailboxIsServed asks of every fair behaviour.              *)
THEOREM MailboxMovesUp ==
  Spec => /\ [](\A c \in Callers : InMailbox(c) /\ ~closed => \E i \in Nat : At(c, i))
          /\ [][ \A c \in Callers : \A i \in Nat : At(c, i) =>
                   \/ i = 1 /\ ~InMailbox(c)'
                   \/ i > 1 /\ At(c, i - 1)'
                   \/ At(c, i)' /\ (stage' = stage \/ StageLeft' < StageLeft)
                   \/ actor' = "absent" ]_vars
  <1> DEFINE A == \A c \in Callers : \A i \in Nat : At(c, i) =>
                    \/ i = 1 /\ ~InMailbox(c)'
                    \/ i > 1 /\ At(c, i - 1)'
                    \/ At(c, i)' /\ (stage' = stage \/ StageLeft' < StageLeft)
                    \/ actor' = "absent"
             J == \A c \in Callers :
                    InMailbox(c) /\ ~closed => \E i \in Nat : At(c, i)
  <1>1. IInv /\ QueueInv /\ [Next]_vars => [A]_vars
    BY PlaceStep
  <1>2. IInv /\ QueueInv => J
    <2> SUFFICES ASSUME IInv, QueueInv, NEW c \in Callers, InMailbox(c), ~closed
                 PROVE  \E i \in Nat : At(c, i)
      OBVIOUS
    <2>1. PICK i \in DOMAIN mailbox : mailbox[i] \in Requests(c)
      BY DEF InMailbox
    <2>2. i \in Nat
      BY DEF IInv, TypeOK
    <2>3. At(c, i)
      BY <2>1 DEF At, QueueInv, StopInv, StopQueued
    <2> QED
      BY <2>2, <2>3
  <1> HIDE DEF A, J
  <1>3. Spec => [][A]_vars
    BY <1>1, QueueInvariance, PTL DEF Spec
  <1>4. Spec => []J
    BY <1>2, QueueInvariance, PTL
  <1> QED
    BY <1>3, <1>4 DEF A, J
=============================================================================
