-------------------------- MODULE GameRecordProofs --------------------------
(***************************************************************************)
(* Theorems about GameRecord: what no end of a process, at whatever step   *)
(* of whatever save, can do to the record.                                 *)
(***************************************************************************)
EXTENDS RecordEnds, SequenceTheorems, TLAPS

-----------------------------------------------------------------------------
(* The invariant, in named parts.                                          *)

(* The steps after which a file is the session's.                          *)
PastCheckpoint == (Steps \ {"checkpoint"}) \cup {"rest"}
PastCommands == PastCheckpoint \ {"commands"}
PastEvents == PastCommands \ {"events"}
PastInitial == PastEvents \ {"initial"}
PastManifest == PastInitial \ {"manifest"}

(* How far the directory has come.                                         *)
ProgressInv ==
  /\ MarkerIsLast
  /\ ~running => step = "rest"
  /\ running =>
       /\ step \in PastCheckpoint =>
            /\ "checkpoint" \in present
            /\ files.checkpoint = Checkpoint(session)
       /\ step \in PastCommands =>
            /\ "commands" \in present
            /\ files.commands = session.journal
       /\ step \in PastEvents =>
            /\ "events" \in present
            /\ files.events = session.log
       /\ step \in PastInitial => "initial" \in present
       /\ step \in PastManifest =>
            /\ "manifest" \in present
            /\ files.manifest.status = session.status
            /\ files.manifest.pause = session.pause
       /\ step # "rest" /\ session.decision = "over" =>
            session.status = "complete"

(* A state has the effects of a request at the revision the request was    *)
(* made for.                                                               *)
InOrder(applied) == \A i \in DOMAIN applied : View[applied[i]] = i - 1

OrderInv == InOrder(session.applied) /\ InOrder(files.checkpoint.applied)

(* Every journal is applied: the one in memory, and the one on disk both   *)
(* to the checkpoint and to the state that will replace it.                *)
Has(applied, r) == \E i \in DOMAIN applied : applied[i] = r

Covers(applied, journal) ==
  \A i \in DOMAIN journal : Has(applied, journal[i].request)

CoverInv ==
  /\ Covers(session.applied, session.journal)
  /\ Covers(files.checkpoint.applied, files.commands)
  /\ running => Covers(session.applied, files.commands)

(* What the store calls accepted is in every copy of the game, and clients *)
(* are told what the store says.                                           *)
Lists(journal, r) == \E i \in DOMAIN journal : journal[i].request = r

AcceptedInv ==
  \A r \in Requests :
    /\ store[r] = "accepted" =>
         /\ "manifest" \in present
         /\ Has(files.checkpoint.applied, r) /\ Lists(files.commands, r)
         /\ running => Has(session.applied, r) /\ Lists(session.journal, r)
    /\ told[r] = "accepted" => store[r] = "accepted"

(* The save of a request has put it into the session.                      *)
SavingInv ==
  saving # NoRequest =>
    /\ running
    /\ Has(session.applied, saving) /\ Lists(session.journal, saving)

IInv ==
  /\ TypeOK /\ ProgressInv /\ OrderInv /\ CoverInv /\ AcceptedInv /\ SavingInv

-----------------------------------------------------------------------------
(* Lemmas about the operators of the specification.                        *)

LEMMA NewSessionType == NewSession \in Sessions
  <1>1. <<>> \in Seq(Requests) /\ <<>> \in Seq(Commands)
    OBVIOUS
  <1> QED
    BY <1>1 DEF NewSession, Sessions, Decisions, Statuses, Pauses

LEMMA BoundaryType ==
  ASSUME NEW s \in Sessions
  PROVE  /\ BrowserBoundary(s) \in Sessions
         /\ BrowserBoundary(s).applied = s.applied
         /\ BrowserBoundary(s).journal = s.journal
         /\ BrowserBoundary(s).log = s.log
         /\ BrowserBoundary(s).decision = s.decision
         /\ s.decision = "over" => BrowserBoundary(s).status = s.status
  BY DEF BrowserBoundary, Sessions, Statuses, Pauses

(* An accepted request enters the state and the journal together.          *)
LEMMA AfterFacts ==
  ASSUME NEW s \in Sessions, NEW r \in Requests,
         NEW d \in Decisions \ {"nobody"}
  PROVE  /\ After(s, r, d) \in Sessions
         /\ After(s, r, d).applied = Append(s.applied, r)
         /\ After(s, r, d).journal = Append(s.journal, Command(s, r))
         /\ Command(s, r) \in Commands
         /\ Command(s, r).request = r
         /\ After(s, r, d).decision = "over" =>
              After(s, r, d).status = "complete"
  <1> DEFINE t == [applied |-> Append(s.applied, r),
                   journal |-> Append(s.journal, Command(s, r)),
                   log |-> Append(s.log, r),
                   decision |-> d,
                   status |-> CASE d = "over" -> "complete"
                                [] d = "unsupported" -> "paused"
                                [] OTHER -> "active",
                   pause |-> IF d = "unsupported" THEN "rules" ELSE "none"]
  <1>1. Command(s, r) \in Commands /\ Command(s, r).request = r
    BY DEF Command, Commands, Sessions
  <1>2. /\ Append(s.applied, r) \in Seq(Requests)
        /\ Append(s.journal, Command(s, r)) \in Seq(Commands)
        /\ Append(s.log, r) \in Seq(Requests)
    BY <1>1 DEF Sessions
  <1>3. t \in Sessions /\ (t.decision = "over" => t.status = "complete")
    BY <1>2 DEF Sessions, Decisions, Statuses, Pauses
  <1>4. After(s, r, d) = BrowserBoundary(t)
    BY DEF After
  <1> HIDE DEF t
  <1>5. t.applied = Append(s.applied, r)
        /\ t.journal = Append(s.journal, Command(s, r))
    BY DEF t
  <1> QED
    BY <1>1, <1>3, <1>4, <1>5, BoundaryType

LEMMA LoadedType ==
  ASSUME TypeOK
  PROVE  Loaded \in Sessions
  BY DEF TypeOK, Loaded, Sessions, Checkpoints, Manifests, Directories

LEMMA FileTypes ==
  ASSUME NEW s \in Sessions
  PROVE  Checkpoint(s) \in Checkpoints /\ Manifest(s) \in Manifests
  BY DEF Sessions, Checkpoint, Manifest, Checkpoints, Manifests, Statuses

-----------------------------------------------------------------------------
(* Type correctness.                                                       *)

LEMMA InitType == Init => TypeOK
  <1> SUFFICES ASSUME Init PROVE TypeOK
    OBVIOUS
  <1>1. session \in Sessions
    BY NewSessionType DEF Init
  <1>2. files \in Directories
    BY NewSessionType, FileTypes DEF Init, Untouched, Sessions, Directories
  <1> QED
    BY <1>1, <1>2 DEF Init, TypeOK, Steps

LEMMA StepType == TypeOK /\ [Next]_vars => TypeOK'
  <1> SUFFICES ASSUME TypeOK, [Next]_vars PROVE TypeOK'
    OBVIOUS
  <1> USE DEF directory
  <1>1. ASSUME NEW r \in Requests, Accept(r)
        PROVE  TypeOK'
    <2>1. session' \in Sessions
      BY <1>1, AfterFacts DEF TypeOK, Accept
    <2> QED
      BY <1>1, <2>1 DEF TypeOK, Accept, BeginSave, Steps
  <1>2. ASSUME NEW r \in Requests, Decline(r) \/ Repeat(r)
        PROVE  TypeOK'
    <2>1. CASE Decline(r)
      BY <2>1 DEF TypeOK, Decline
    <2>2. CASE Repeat(r)
      BY <2>2 DEF TypeOK, Repeat
    <2> QED
      BY <1>2, <2>1, <2>2
  <1>3. CASE Stop
    <2>1. session' \in Sessions
      BY <1>3 DEF TypeOK, Stop, Sessions, Statuses, Pauses
    <2> QED
      BY <1>3, <2>1 DEF TypeOK, Stop, BeginSave, Steps
  <1>4. CASE Resume
    <2>1. session' \in Sessions
      BY <1>4 DEF TypeOK, Resume, Sessions, Statuses, Pauses, Decisions
    <2> QED
      BY <1>4, <2>1 DEF TypeOK, Resume, BeginSave, Steps
  <1>5. CASE WriteFile
    <2>1. files' \in Directories
      BY <1>5, FileTypes
      DEF TypeOK, Directories, Sessions, WriteFile, WriteCheckpoint,
          WriteCommands, WriteEvents, WriteInitial, WriteManifest,
          TruncateText, WriteText, Write
    <2> QED
      BY <1>5, <2>1
      DEF TypeOK, FileNames, WriteFile, WriteCheckpoint, WriteCommands,
          WriteEvents, WriteInitial, WriteManifest, TruncateText, WriteText,
          Write, Steps
  <1>6. CASE Answer
    BY <1>6 DEF TypeOK, Answer
  <1>7. CASE End
    <2>1. session' \in Sessions /\ UNCHANGED <<present, files, store, told>>
      BY <1>7, NewSessionType DEF End
    <2>2. ends' \in Nat /\ running' = FALSE /\ step' = "rest"
          /\ saving' = NoRequest
      BY <1>7 DEF TypeOK, End
    <2> QED
      BY <2>1, <2>2 DEF TypeOK
  <1>8. CASE Load
    <2>1. session' \in Sessions
      BY <1>8, LoadedType, BoundaryType DEF Load
    <2> QED
      BY <1>8, <2>1 DEF TypeOK, Load, Steps
  <1>9. CASE UNCHANGED vars
    BY <1>9 DEF TypeOK, vars
  <1> QED
    BY <1>1, <1>2, <1>3, <1>4, <1>5, <1>6, <1>7, <1>8, <1>9 DEF Next

(* Every reachable state has the types of TypeOK.                          *)
THEOREM TypeCorrect == Spec => []TypeOK
  BY InitType, StepType, PTL DEF Spec

-----------------------------------------------------------------------------
(* What a step does to the session and to the directory.                   *)

SameGame ==
  /\ running' = running
  /\ session'.applied = session.applied
  /\ session'.journal = session.journal

Extends(r) ==
  /\ AtRest /\ running' = running /\ UNCHANGED directory
  /\ Admits(session, r)
  /\ session'.applied = Append(session.applied, r)
  /\ session'.journal = Append(session.journal, Command(session, r))
  /\ Command(session, r) \in Commands
  /\ Command(session, r).request = r

Loads ==
  /\ Load /\ UNCHANGED directory
  /\ session'.applied = files.checkpoint.applied
  /\ session'.journal = files.commands

LEMMA SessionStep ==
  ASSUME TypeOK, [Next]_vars
  PROVE  \/ SameGame
         \/ \E r \in Requests : Extends(r) /\ Accept(r)
         \/ End
         \/ Loads
  <1>1. ASSUME NEW r \in Requests, Accept(r)
        PROVE  Extends(r)
    BY <1>1, AfterFacts DEF TypeOK, Accept, Extends
  <1>2. CASE Stop \/ Resume
    BY <1>2 DEF TypeOK, Sessions, Stop, Resume, SameGame
  <1>3. ASSUME NEW r \in Requests, Decline(r) \/ Repeat(r)
        PROVE  SameGame
    BY <1>3 DEF Decline, Repeat, SameGame
  <1>4. CASE WriteFile \/ Answer
    BY <1>4
    DEF WriteFile, WriteCheckpoint, WriteCommands, WriteEvents, WriteInitial,
        WriteManifest, TruncateText, WriteText, Write, Answer, SameGame
  <1>5. CASE Load
    <2>1. /\ session'.applied = Loaded.applied
          /\ session'.journal = Loaded.journal
      BY <1>5, LoadedType, BoundaryType DEF Load
    <2> QED
      BY <1>5, <2>1 DEF Load, Loads, Loaded
  <1>6. CASE UNCHANGED vars
    BY <1>6 DEF vars, SameGame
  <1> QED
    BY <1>1, <1>2, <1>3, <1>4, <1>5, <1>6 DEF Next

(* A file changes only to what the session holds, at its step of a save.   *)
LEMMA DirectoryStep ==
  ASSUME TypeOK, [Next]_vars
  PROVE  /\ present \subseteq present'
         /\ \/ UNCHANGED files
            \/ WriteFile /\ running /\ UNCHANGED <<session, store, told, saving>>
         /\ \/ files'.checkpoint = files.checkpoint
            \/ /\ running /\ step = "checkpoint" /\ session' = session
               /\ files'.checkpoint = Checkpoint(session)
               /\ files'.commands = files.commands
         /\ \/ files'.commands = files.commands
            \/ /\ running /\ step = "commands" /\ session' = session
               /\ files'.commands = session.journal
               /\ files'.checkpoint = files.checkpoint
  <1> USE DEF directory
  <1>1. CASE WriteFile
    BY <1>1
    DEF TypeOK, Directories, WriteFile, WriteCheckpoint, WriteCommands,
        WriteEvents, WriteInitial, WriteManifest, TruncateText, WriteText, Write
  <1>2. CASE UNCHANGED directory
    BY <1>2
  <1>3. \/ WriteFile
        \/ UNCHANGED directory
    BY DEF Next, vars, Accept, Decline, Repeat, Stop, Resume, Answer, End, Load
  <1> QED
    BY <1>1, <1>2, <1>3

-----------------------------------------------------------------------------
(* The parts of the invariant.                                             *)

LEMMA StepProgress ==
  ASSUME TypeOK, ProgressInv, TypeOK', [Next]_vars
  PROVE  ProgressInv'
  <1> USE DEF ProgressInv, MarkerIsLast, directory, PastCheckpoint,
              PastCommands, PastEvents, PastInitial, PastManifest, Steps
  <1>1. ASSUME NEW r \in Requests, Accept(r)
        PROVE  ProgressInv'
    <2>1. session'.decision = "over" => session'.status = "complete"
      BY <1>1, AfterFacts DEF TypeOK, Accept
    <2> QED
      BY <1>1, <2>1 DEF Accept, AtRest, BeginSave
  <1>2. ASSUME NEW r \in Requests, Decline(r) \/ Repeat(r)
        PROVE  ProgressInv'
    BY <1>2 DEF Decline, Repeat
  <1>3. CASE Stop \/ Resume
    BY <1>3 DEF TypeOK, Sessions, Stop, Resume, AtRest, BeginSave
  <1>4. CASE WriteFile
    <2>1. CASE WriteCheckpoint
      BY <2>1 DEF WriteCheckpoint, Write, TypeOK, Directories
    <2>2. CASE WriteCommands
      BY <2>2 DEF WriteCommands, Write, TypeOK, Directories
    <2>3. CASE WriteEvents
      BY <2>3 DEF WriteEvents, Write, TypeOK, Directories
    <2>4. CASE WriteInitial
      BY <2>4 DEF WriteInitial, Write, TypeOK, Directories
    <2>5. CASE WriteManifest
      BY <2>5 DEF WriteManifest, Write, TypeOK, Directories, Manifest
    <2>6. CASE TruncateText \/ WriteText
      BY <2>6 DEF TruncateText, WriteText, Write, TypeOK, Directories
    <2> QED
      BY <1>4, <2>1, <2>2, <2>3, <2>4, <2>5, <2>6 DEF WriteFile
  <1>5. CASE Answer
    BY <1>5 DEF Answer
  <1>6. CASE End
    BY <1>6 DEF End
  <1>7. CASE Load
    <2>1. CASE session' = Loaded
      BY <1>7, <2>1 DEF Load, Readable, Loaded, Checkpoint, TypeOK,
                        Directories, Checkpoints
    <2>2. CASE session' # Loaded
      <3>1. session'.decision = "arbiter"
        BY <1>7, <2>2, LoadedType, BoundaryType DEF Load, BrowserBoundary
      <3> QED
        BY <1>7, <2>2, <3>1 DEF Load, Readable
    <2> QED
      BY <2>1, <2>2
  <1>8. CASE UNCHANGED vars
    BY <1>8 DEF vars
  <1> QED
    BY <1>1, <1>2, <1>3, <1>4, <1>5, <1>6, <1>7, <1>8 DEF Next

LEMMA InOrderAppend ==
  ASSUME NEW a \in Seq(Requests), NEW r \in Requests, InOrder(a),
         View[r] = Len(a)
  PROVE  InOrder(Append(a, r))
  BY DEF InOrder

LEMMA StepOrder ==
  ASSUME TypeOK, OrderInv, [Next]_vars
  PROVE  OrderInv'
  <1>1. InOrder(session'.applied)
    <2>1. ASSUME NEW r \in Requests, Extends(r)
          PROVE  InOrder(session'.applied)
      BY <2>1, InOrderAppend DEF Extends, Admits, OrderInv, TypeOK, Sessions
    <2>2. CASE SameGame
      BY <2>2 DEF SameGame, OrderInv
    <2>3. CASE End
      BY <2>3 DEF End, NewSession, InOrder
    <2>4. CASE Loads
      BY <2>4 DEF Loads, OrderInv
    <2> QED
      BY <2>1, <2>2, <2>3, <2>4, SessionStep
  <1>2. InOrder(files'.checkpoint.applied)
    BY DirectoryStep DEF OrderInv, Checkpoint
  <1> QED
    BY <1>1, <1>2 DEF OrderInv

LEMMA HasAppend ==
  ASSUME NEW a \in Seq(Requests), NEW r \in Requests
  PROVE  /\ Has(Append(a, r), r)
         /\ \A q \in Requests : Has(a, q) => Has(Append(a, r), q)
  <1>1. Append(a, r)[Len(a) + 1] = r /\ Len(a) + 1 \in DOMAIN Append(a, r)
    OBVIOUS
  <1>2. \A i \in DOMAIN a : i \in DOMAIN Append(a, r) /\ Append(a, r)[i] = a[i]
    OBVIOUS
  <1> QED
    BY <1>1, <1>2 DEF Has

LEMMA ListsAppend ==
  ASSUME NEW j \in Seq(Commands), NEW c \in Commands
  PROVE  /\ Lists(Append(j, c), c.request)
         /\ \A q \in Requests : Lists(j, q) => Lists(Append(j, c), q)
  <1>1. Append(j, c)[Len(j) + 1] = c /\ Len(j) + 1 \in DOMAIN Append(j, c)
    OBVIOUS
  <1>2. \A i \in DOMAIN j : i \in DOMAIN Append(j, c) /\ Append(j, c)[i] = j[i]
    OBVIOUS
  <1> QED
    BY <1>1, <1>2 DEF Lists

LEMMA CoversAppend ==
  ASSUME NEW a \in Seq(Requests), NEW r \in Requests,
         NEW j \in Seq(Commands), Covers(a, j)
  PROVE  /\ Covers(Append(a, r), j)
         /\ \A c \in Commands :
              c.request = r => Covers(Append(a, r), Append(j, c))
  <1>1. \A i \in DOMAIN j : j[i].request \in Requests
    <2>1. \A i \in DOMAIN j : j[i] \in Commands
      OBVIOUS
    <2> QED
      BY <2>1 DEF Commands
  <1>2. Covers(Append(a, r), j)
    BY <1>1, HasAppend DEF Covers
  <1>3. ASSUME NEW c \in Commands, c.request = r
        PROVE  Covers(Append(a, r), Append(j, c))
    <2>1. \A i \in DOMAIN Append(j, c) :
            \/ i \in DOMAIN j /\ Append(j, c)[i] = j[i]
            \/ Append(j, c)[i] = c
      OBVIOUS
    <2> QED
      BY <1>2, <1>3, <2>1, HasAppend DEF Covers
  <1> QED
    BY <1>2, <1>3

LEMMA StepCover ==
  ASSUME TypeOK, ProgressInv, CoverInv, [Next]_vars
  PROVE  CoverInv'
  <1>1. Covers(files'.checkpoint.applied, files'.commands)
    <2>1. running /\ step = "commands" =>
            files.checkpoint.applied = session.applied
      BY DEF ProgressInv, PastCheckpoint, Steps, Checkpoint
    <2> QED
      BY <2>1, DirectoryStep DEF CoverInv, Checkpoint
  <1>2. /\ Covers(session'.applied, session'.journal)
        /\ running' => Covers(session'.applied, files'.commands)
    <2>1. ASSUME NEW r \in Requests, Extends(r)
          PROVE  /\ Covers(session'.applied, session'.journal)
                 /\ running' => Covers(session'.applied, files'.commands)
      <3>1. /\ session.applied \in Seq(Requests)
            /\ session.journal \in Seq(Commands)
            /\ files.commands \in Seq(Commands)
            /\ files' = files /\ running
        BY <2>1 DEF Extends, AtRest, TypeOK, Sessions, Directories, directory
      <3> QED
        BY <2>1, <3>1, CoversAppend DEF Extends, CoverInv
    <2>2. CASE SameGame
      <3>1. CASE files'.commands = files.commands
        BY <2>2, <3>1 DEF SameGame, CoverInv
      <3>2. CASE files'.commands = session.journal
        BY <2>2, <3>2 DEF SameGame, CoverInv
      <3> QED
        BY <3>1, <3>2, DirectoryStep
    <2>3. CASE End
      BY <2>3 DEF End, NewSession, Covers
    <2>4. CASE Loads
      BY <2>4 DEF Loads, CoverInv, directory
    <2> QED
      BY <2>1, <2>2, <2>3, <2>4, SessionStep
  <1> QED
    BY <1>1, <1>2 DEF CoverInv

LEMMA StepSaving ==
  ASSUME TypeOK, ProgressInv, SavingInv, [Next]_vars
  PROVE  SavingInv'
  <1>1. ASSUME NEW r \in Requests, Extends(r), Accept(r)
        PROVE  SavingInv'
    <2>1. /\ session.applied \in Seq(Requests)
          /\ session.journal \in Seq(Commands)
          /\ saving' = r /\ running'
      BY <1>1 DEF Extends, Accept, AtRest, BeginSave, TypeOK, Sessions
    <2> QED
      BY <1>1, <2>1, HasAppend, ListsAppend DEF SavingInv, Extends
  <1>2. CASE SameGame
    <2>1. saving' = saving \/ saving' = NoRequest \/ \E r \in Requests : Accept(r)
      BY DEF Next, vars, Decline, Repeat, Stop, Resume, BeginSave, WriteFile,
             WriteCheckpoint, WriteCommands, WriteEvents, WriteInitial,
             WriteManifest, TruncateText, WriteText, Write, Answer, End, Load
    <2>2. ASSUME NEW r \in Requests, Accept(r)
          PROVE  FALSE
      <3>1. session'.applied = Append(session.applied, r)
        BY <2>2, AfterFacts DEF TypeOK, Accept
      <3> QED
        BY <1>2, <3>1 DEF SameGame, TypeOK, Sessions
    <2> QED
      BY <1>2, <2>1, <2>2 DEF SameGame, SavingInv
  <1>3. CASE End
    BY <1>3 DEF End, SavingInv
  <1>4. CASE Loads
    BY <1>4 DEF Loads, Load, SavingInv
  <1> QED
    BY <1>1, <1>2, <1>3, <1>4, SessionStep

(* The copies of a request in the game survive a step.                     *)
LEMMA CopiesSurvive ==
  ASSUME TypeOK, ProgressInv, AcceptedInv, [Next]_vars,
         NEW r \in Requests, store[r] = "accepted"
  PROVE  /\ "manifest" \in present'
         /\ Has(files'.checkpoint.applied, r) /\ Lists(files'.commands, r)
         /\ running' => Has(session'.applied, r) /\ Lists(session'.journal, r)
  <1>1. /\ "manifest" \in present
        /\ Has(files.checkpoint.applied, r) /\ Lists(files.commands, r)
        /\ running => Has(session.applied, r) /\ Lists(session.journal, r)
    BY DEF AcceptedInv
  <1>2. /\ Has(files'.checkpoint.applied, r) /\ Lists(files'.commands, r)
        /\ "manifest" \in present'
    BY <1>1, DirectoryStep DEF Checkpoint
  <1>3. ASSUME NEW q \in Requests, Extends(q)
        PROVE  Has(session'.applied, r) /\ Lists(session'.journal, r)
    BY <1>1, <1>3, HasAppend, ListsAppend
    DEF Extends, AtRest, TypeOK, Sessions
  <1>4. CASE SameGame
    BY <1>1, <1>2, <1>4 DEF SameGame
  <1>5. CASE End
    BY <1>2, <1>5 DEF End
  <1>6. CASE Loads
    BY <1>1, <1>2, <1>6 DEF Loads
  <1> QED
    BY <1>2, <1>3, <1>4, <1>5, <1>6, SessionStep

LEMMA StepAccepted ==
  ASSUME TypeOK, ProgressInv, CoverInv, AcceptedInv, SavingInv, [Next]_vars
  PROVE  AcceptedInv'
  <1> SUFFICES ASSUME NEW r \in Requests
      PROVE /\ store'[r] = "accepted" =>
                 /\ "manifest" \in present'
                 /\ Has(files'.checkpoint.applied, r)
                 /\ Lists(files'.commands, r)
                 /\ running' => Has(session'.applied, r)
                                  /\ Lists(session'.journal, r)
            /\ told'[r] = "accepted" => store'[r] = "accepted"
    BY DEF AcceptedInv
  <1>1. told[r] = "accepted" => store[r] = "accepted"
    BY DEF AcceptedInv
  <1>2. CASE UNCHANGED <<store, told>>
    BY <1>1, <1>2, CopiesSurvive
  <1>3. ASSUME NEW q \in Requests, Decline(q) \/ Repeat(q)
        PROVE  /\ store'[r] = "accepted" => store[r] = "accepted"
               /\ told'[r] = "accepted" => store'[r] = "accepted"
    BY <1>1, <1>3 DEF Decline, Repeat, TypeOK
  <1>4. CASE Answer
    <2>1. CASE saving = NoRequest
      BY <1>2, <1>4, <2>1 DEF Answer
    <2>2. CASE saving # NoRequest /\ r # saving
      BY <1>1, <1>4, <2>2, CopiesSurvive DEF Answer, TypeOK
    <2>3. CASE saving # NoRequest /\ r = saving
      <3>1. /\ "manifest" \in present
            /\ files.checkpoint.applied = session.applied
            /\ files.commands = session.journal
            /\ UNCHANGED <<running, session, present, files>>
        BY <1>4
        DEF Answer, directory, ProgressInv, PastCheckpoint, PastCommands,
            PastEvents, PastInitial, PastManifest, Steps, Checkpoint
      <3>2. Has(session.applied, r) /\ Lists(session.journal, r)
        BY <2>3 DEF SavingInv
      <3>3. store'[r] = "accepted"
        BY <1>4, <2>3 DEF Answer, TypeOK
      <3> QED
        BY <3>1, <3>2, <3>3
    <2> QED
      BY <2>1, <2>2, <2>3
  <1>5. CASE Loads
    <2>1. told' = told
      BY <1>5 DEF Loads, Load
    <2>2. CASE Lists(files.commands, r)
      <3>1. Has(files.checkpoint.applied, r)
        BY <2>2 DEF CoverInv, Covers, Lists
      <3>2. "manifest" \in present /\ UNCHANGED <<present, files>>
        BY <1>5 DEF Loads, Load, Readable, directory
      <3>3. store'[r] = "accepted"
        BY <1>5, <2>2 DEF Loads, Load, Lists
      <3> QED
        BY <1>5, <2>2, <3>1, <3>2, <3>3 DEF Loads
    <2>3. CASE ~Lists(files.commands, r)
      <3>1. store'[r] = store[r]
        BY <1>5, <2>3 DEF Loads, Load, Lists
      <3> QED
        BY <1>1, <2>1, <3>1, CopiesSurvive
    <2> QED
      BY <2>2, <2>3
  <1>6. \/ UNCHANGED <<store, told>>
        \/ \E q \in Requests : Decline(q) \/ Repeat(q)
        \/ Answer \/ Load
    BY DEF Next, vars, Accept, Stop, Resume, End, WriteFile, WriteCheckpoint,
           WriteCommands, WriteEvents, WriteInitial, WriteManifest,
           TruncateText, WriteText, Write
  <1>7. Load => Loads
    <2> SUFFICES ASSUME Load PROVE Loads
      OBVIOUS
    <2>1. /\ session'.applied = Loaded.applied
          /\ session'.journal = Loaded.journal
      BY LoadedType, BoundaryType DEF Load
    <2> QED
      BY <2>1 DEF Load, Loads, Loaded
  <1> QED
    BY <1>2, <1>3, <1>4, <1>5, <1>6, <1>7, CopiesSurvive

LEMMA InitInvariant == Init => IInv
  <1> SUFFICES ASSUME Init PROVE IInv
    OBVIOUS
  <1>1. ProgressInv
    BY DEF Init, ProgressInv, MarkerIsLast, PastCheckpoint, PastCommands,
           PastEvents, PastInitial, PastManifest, Steps, NewSession
  <1>2. OrderInv /\ CoverInv
    BY DEF Init, OrderInv, InOrder, CoverInv, Covers, NewSession, Untouched,
           Checkpoint
  <1>3. AcceptedInv /\ SavingInv
    BY DEF Init, AcceptedInv, SavingInv
  <1> QED
    BY <1>1, <1>2, <1>3, InitType DEF IInv

LEMMA Inductive == IInv /\ [Next]_vars => IInv'
  <1> SUFFICES ASSUME IInv, [Next]_vars PROVE IInv'
    OBVIOUS
  <1>1. TypeOK'
    BY StepType DEF IInv
  <1> QED
    BY <1>1, StepProgress, StepOrder, StepCover, StepAccepted, StepSaving
    DEF IInv

LEMMA Invariance == Spec => []IInv
  BY InitInvariant, Inductive, PTL DEF Spec

-----------------------------------------------------------------------------
(* What a client was told is accepted is in the files at every moment.     *)
THEOREM Durability == Spec => []NothingAckedIsLost
  <1>1. IInv => NothingAckedIsLost
    BY DEF IInv, AcceptedInv, NothingAckedIsLost, Applied, Journalled, Has,
           Lists
  <1> QED
    BY <1>1, Invariance, PTL

(* The effects of a request are in the state at most once.                 *)
THEOREM NoSecondEffect == Spec => []EffectsOnce
  <1>1. IInv => EffectsOnce
    BY DEF IInv, TypeOK, Sessions, OrderInv, InOrder, EffectsOnce
  <1> QED
    BY <1>1, Invariance, PTL

(* The journal never runs ahead of the checkpoint.                         *)
THEOREM OrderOfWrites == Spec => []JournalIsApplied
  <1>1. IInv => JournalIsApplied
    BY DEF IInv, CoverInv, Covers, Has, JournalIsApplied, Applied
  <1> QED
    BY <1>1, Invariance, PTL

(* The manifest, which marks a record, exists only with the files a load   *)
(* needs.                                                                  *)
THEOREM MarkerComesLast == Spec => []MarkerIsLast
  <1>1. IInv => MarkerIsLast
    BY DEF IInv, ProgressInv, MarkerIsLast
  <1> QED
    BY <1>1, Invariance, PTL

(* A restart of a game at rest finds the game that was served.             *)
THEOREM RestartIsFaithful == Spec => []RestartChangesNothing
  <1>1. IInv => RestartChangesNothing
    <2> SUFFICES ASSUME IInv, AtRest PROVE Loaded = session
      BY DEF RestartChangesNothing
    <2>1. /\ files.checkpoint = Checkpoint(session)
          /\ files.commands = session.journal /\ files.events = session.log
          /\ files.manifest.status = session.status
          /\ files.manifest.pause = session.pause
      BY DEF IInv, ProgressInv, AtRest, PastCheckpoint, PastCommands,
             PastEvents, PastInitial, PastManifest, Steps
    <2>2. session \in Sessions
      BY DEF IInv, TypeOK
    <2> QED
      BY <2>1, <2>2 DEF Loaded, Checkpoint, Sessions
  <1> QED
    BY <1>1, Invariance, PTL

-----------------------------------------------------------------------------
(* Records that no process has left torn.                                  *)

Leads(journal, applied) ==
  JournalReplays(journal) /\ Resubmitted(journal) = applied

Surfaced(decision, status) == decision = "unsupported" => status = "paused"

(* Nothing is half done in the directory.                                  *)
Settled ==
  /\ Leads(files.commands, files.checkpoint.applied)
  /\ Surfaced(files.checkpoint.decision, files.manifest.status)
  /\ files.manifest.final = files.checkpoint.applied

SoundInv ==
  /\ running => /\ Leads(session.journal, session.applied)
                /\ Surfaced(session.decision, session.status)
  /\ files.text = "torn" => running /\ step = "text"
  /\ step \in {"checkpoint", "rest"} => Settled
  /\ step \in {"truncate", "text", "answer"} =>
       files.manifest.final = session.applied

EndsInv == IInv /\ torn \in BOOLEAN /\ (~torn => SoundInv)

LEMMA SameStart ==
  ASSUME NEW s \in Seq(Requests), NEW r \in Requests, NEW i \in 0 .. Len(s)
  PROVE  SubSeq(Append(s, r), 1, i) = SubSeq(s, 1, i)
  <1> DEFINE t == Append(s, r)
  <1>1. /\ t \in Seq(Requests) /\ Len(t) = Len(s) + 1 /\ Len(s) \in Nat
        /\ \A j \in 1 .. Len(s) : t[j] = s[j]
    BY AppendProperties
  <1> HIDE DEF t
  <1>2. \A j \in 1 .. i : j \in 1 .. Len(s) /\ j \in 1 .. Len(t)
    BY <1>1
  <1>3. \A j \in 1 .. i : s[j] \in Requests /\ t[j] \in Requests
    BY <1>1, <1>2, ElementOfSeq
  <1>4. /\ SubSeq(s, 1, i) \in Seq(Requests) /\ SubSeq(t, 1, i) \in Seq(Requests)
        /\ Len(SubSeq(s, 1, i)) = i /\ Len(SubSeq(t, 1, i)) = i
        /\ \A j \in 1 .. i : SubSeq(s, 1, i)[j] = s[j] /\ SubSeq(t, 1, i)[j] = t[j]
    BY <1>1, <1>3, SubSeqProperties
  <1>5. SubSeq(t, 1, i) = SubSeq(s, 1, i)
    BY <1>1, <1>2, <1>4, SeqEqual
  <1> QED
    BY <1>5 DEF t

(* One more command leads to its state.                                    *)
LEMMA LeadsAppend ==
  ASSUME NEW journal \in Seq(Commands), NEW applied \in Seq(Requests),
         NEW r \in Requests, NEW c \in Commands, Leads(journal, applied),
         c.request = r, c.before = applied, c.after = Append(applied, r)
  PROVE  Leads(Append(journal, c), Append(applied, r))
  <1> DEFINE n == Len(journal)
             j2 == Append(journal, c)
             a2 == Append(applied, r)
  <1>1. /\ n \in Nat /\ DOMAIN journal = 1 .. n
        /\ j2 \in Seq(Commands) /\ Len(j2) = n + 1 /\ DOMAIN j2 = 1 .. n + 1
        /\ \A i \in 1 .. n : j2[i] = journal[i]
        /\ j2[n + 1] = c
    BY AppendProperties, LenProperties
  <1>2. applied = [i \in 1 .. n |-> journal[i].request]
    BY <1>1 DEF Leads, Resubmitted
  <1>3. Len(applied) = n
    BY <1>1, <1>2
  <1>4. /\ a2 \in Seq(Requests) /\ Len(a2) = n + 1 /\ DOMAIN a2 = 1 .. n + 1
        /\ \A i \in 1 .. n : a2[i] = applied[i]
        /\ a2[n + 1] = r
    BY <1>3, AppendProperties, LenProperties
  <1> HIDE DEF j2, a2, n
  <1>5. Resubmitted(j2) = a2
    <2>1. \A i \in 1 .. n + 1 : a2[i] = j2[i].request
      <3> SUFFICES ASSUME NEW i \in 1 .. n + 1 PROVE a2[i] = j2[i].request
        OBVIOUS
      <3>1. CASE i = n + 1
        BY <1>1, <1>4, <3>1
      <3>2. CASE i \in 1 .. n
        BY <1>1, <1>2, <1>4, <3>2
      <3> QED
        BY <1>1, <3>1, <3>2
    <2>2. a2 = [i \in 1 .. n + 1 |-> a2[i]]
      BY <1>4
    <2> QED
      BY <1>1, <2>1, <2>2 DEF Resubmitted
  <1>6. JournalReplays(j2)
    <2> SUFFICES ASSUME NEW i \in 1 .. n + 1
                 PROVE  /\ j2[i].before = SubSeq(a2, 1, i - 1)
                        /\ j2[i].after = SubSeq(a2, 1, i)
      BY <1>1, <1>5 DEF JournalReplays
    <2>1. CASE i = n + 1
      <3>1. SubSeq(a2, 1, n) = SubSeq(applied, 1, n)
        BY <1>1, <1>3, SameStart DEF a2
      <3>2. SubSeq(applied, 1, n) = applied /\ SubSeq(a2, 1, n + 1) = a2
        BY <1>3, <1>4, SubSeqFull
      <3>3. i - 1 = n
        BY <1>1, <2>1
      <3> QED
        BY <1>1, <2>1, <3>1, <3>2, <3>3 DEF a2
    <2>2. CASE i \in 1 .. n
      <3>1. i \in 0 .. Len(applied) /\ i - 1 \in 0 .. Len(applied)
        BY <1>1, <1>3, <2>2
      <3>2. /\ SubSeq(a2, 1, i) = SubSeq(applied, 1, i)
            /\ SubSeq(a2, 1, i - 1) = SubSeq(applied, 1, i - 1)
        BY <3>1, SameStart DEF a2
      <3>3. /\ journal[i].before = SubSeq(applied, 1, i - 1)
            /\ journal[i].after = SubSeq(applied, 1, i)
        BY <1>1, <2>2 DEF Leads, JournalReplays
      <3> QED
        BY <1>1, <2>2, <3>2, <3>3
    <2> QED
      BY <1>1, <2>1, <2>2
  <1> QED
    BY <1>5, <1>6 DEF Leads, j2, a2

LEMMA NothingLeads == Leads(<<>>, <<>>)
  BY DEF Leads, JournalReplays, Resubmitted

(* What the engine and the browser boundary do not execute is paused.      *)
LEMMA SurfacedAfter ==
  ASSUME NEW s \in Sessions, NEW r \in Requests,
         NEW d \in Decisions \ {"nobody"}
  PROVE  Surfaced(After(s, r, d).decision, After(s, r, d).status)
  <1> DEFINE t == [applied |-> Append(s.applied, r),
                   journal |-> Append(s.journal, Command(s, r)),
                   log |-> Append(s.log, r),
                   decision |-> d,
                   status |-> CASE d = "over" -> "complete"
                                [] d = "unsupported" -> "paused"
                                [] OTHER -> "active",
                   pause |-> IF d = "unsupported" THEN "rules" ELSE "none"]
  <1>1. t.decision = d /\ (d = "unsupported" => t.status = "paused")
    OBVIOUS
  <1>2. After(s, r, d) = BrowserBoundary(t)
    BY DEF After
  <1> HIDE DEF t
  <1>3. CASE t.status = "active" /\ t.decision = "arbiter"
    <2>1. BrowserBoundary(t) = [t EXCEPT !.status = "paused", !.pause = "rules"]
      BY <1>3 DEF BrowserBoundary
    <2>2. BrowserBoundary(t).decision = d
      BY <1>1, <2>1 DEF t
    <2> QED
      BY <1>1, <1>2, <1>3, <2>2 DEF Surfaced
  <1>4. CASE ~(t.status = "active" /\ t.decision = "arbiter")
    BY <1>1, <1>2, <1>4 DEF BrowserBoundary, Surfaced
  <1> QED
    BY <1>3, <1>4

LEMMA SurfacedBoundary ==
  ASSUME NEW s \in Sessions, Surfaced(s.decision, s.status)
  PROVE  Surfaced(BrowserBoundary(s).decision, BrowserBoundary(s).status)
  BY DEF Surfaced, BrowserBoundary, Sessions

LEMMA StepSound ==
  ASSUME IInv, SoundInv, [Next]_vars,
         End => step \in {"checkpoint", "answer", "rest"}
  PROVE  SoundInv'
  <1> USE DEF directory
  <1>1. TypeOK /\ ProgressInv
    BY DEF IInv
  <1>2. ASSUME NEW r \in Requests, Accept(r)
        PROVE  SoundInv'
    <2>1. PICK d \in Decisions \ {"nobody"} : session' = After(session, r, d)
      BY <1>2 DEF Accept
    <2>2. /\ running /\ running' /\ step = "rest" /\ step' = "checkpoint"
          /\ UNCHANGED files /\ session \in Sessions
      BY <1>1, <1>2 DEF Accept, AtRest, BeginSave, TypeOK
    <2>3. /\ session'.applied = Append(session.applied, r)
          /\ session'.journal = Append(session.journal, Command(session, r))
          /\ Command(session, r) \in Commands
      BY <2>1, <2>2, AfterFacts
    <2>4. /\ Command(session, r).request = r
          /\ Command(session, r).before = session.applied
          /\ Command(session, r).after = Append(session.applied, r)
          /\ session.journal \in Seq(Commands)
          /\ session.applied \in Seq(Requests)
      BY <2>2 DEF Command, Sessions
    <2>5. Leads(session.journal, session.applied)
      BY <2>2 DEF SoundInv
    <2>6. Leads(session'.journal, session'.applied)
      BY <2>3, <2>4, <2>5, LeadsAppend
    <2>7. Surfaced(session'.decision, session'.status)
      BY <2>1, <2>2, SurfacedAfter
    <2>8. Settled' /\ files'.text # "torn"
      BY <2>2 DEF SoundInv, Settled
    <2> QED
      BY <2>2, <2>6, <2>7, <2>8 DEF SoundInv
  <1>3. ASSUME NEW r \in Requests, Decline(r) \/ Repeat(r)
        PROVE  SoundInv'
    BY <1>3 DEF Decline, Repeat, SoundInv, Settled
  <1>4. CASE Stop \/ Resume
    <2>1. /\ running /\ running' /\ step = "rest" /\ step' = "checkpoint"
          /\ UNCHANGED files /\ session \in Sessions
      BY <1>1, <1>4 DEF Stop, Resume, AtRest, BeginSave, TypeOK
    <2>2. /\ session'.journal = session.journal
          /\ session'.applied = session.applied
          /\ session'.status = "paused" \/ session'.decision # "unsupported"
      BY <1>4, <2>1 DEF Stop, Resume, Sessions
    <2> QED
      BY <2>1, <2>2 DEF SoundInv, Settled, Surfaced
  <1>5. CASE WriteCheckpoint
    BY <1>1, <1>5 DEF WriteCheckpoint, Write, SoundInv, TypeOK, Directories
  <1>6. CASE WriteCommands \/ WriteEvents \/ WriteInitial
    BY <1>1, <1>6 DEF WriteCommands, WriteEvents, WriteInitial, Write,
                      SoundInv, TypeOK, Directories
  <1>7. CASE WriteManifest
    <2>1. files'.manifest.final = session.applied /\ files'.text = files.text
      BY <1>1, <1>7 DEF WriteManifest, Write, Manifest, TypeOK, Directories
    <2> QED
      BY <1>7, <2>1 DEF WriteManifest, Write, SoundInv
  <1>8. CASE TruncateText \/ WriteText
    <2>1. files'.manifest = files.manifest
            /\ (files'.text = "torn" => step' = "text")
      BY <1>1, <1>8 DEF TruncateText, WriteText, Write, TypeOK, Directories
    <2> QED
      BY <1>8, <2>1 DEF TruncateText, WriteText, Write, SoundInv
  <1>9. step = "answer" => Settled
    <2> SUFFICES ASSUME step = "answer" PROVE Settled
      OBVIOUS
    <2>1. running
      BY <1>1 DEF ProgressInv
    <2>2. /\ files.checkpoint = Checkpoint(session)
          /\ files.commands = session.journal
          /\ files.manifest.status = session.status
      BY <1>1, <2>1 DEF ProgressInv, PastCheckpoint, PastCommands, PastEvents,
                        PastInitial, PastManifest, Steps
    <2> QED
      BY <2>1, <2>2 DEF SoundInv, Settled, Checkpoint
  <1>10. CASE Answer
    BY <1>9, <1>10 DEF Answer, SoundInv, Settled
  <1>13. CASE End
    <2>1. /\ step' = "rest" /\ ~running' /\ UNCHANGED files
          /\ step \in {"checkpoint", "answer", "rest"} /\ running
      BY <1>13 DEF End
    <2>2. Settled /\ files.text # "torn"
      BY <1>9, <2>1 DEF SoundInv
    <2> QED
      BY <2>1, <2>2 DEF SoundInv, Settled
  <1>11. CASE Load
    <2>1. /\ ~running /\ step = "rest" /\ running' /\ UNCHANGED files
          /\ step' \in {"rest", "checkpoint"}
          /\ session' = BrowserBoundary(Loaded)
      BY <1>1, <1>11 DEF Load, ProgressInv
    <2>2. Settled /\ files.text # "torn"
      BY <2>1 DEF SoundInv
    <2>3. /\ session'.applied = files.checkpoint.applied
          /\ session'.journal = files.commands
      BY <1>1, <2>1, LoadedType, BoundaryType DEF Loaded
    <2>4. Surfaced(Loaded.decision, Loaded.status)
      BY <2>2 DEF Settled, Loaded
    <2>5. Surfaced(session'.decision, session'.status)
      BY <1>1, <2>1, <2>4, LoadedType, SurfacedBoundary
    <2> QED
      BY <2>1, <2>2, <2>3, <2>5 DEF SoundInv, Settled
  <1>12. CASE UNCHANGED vars
    BY <1>12 DEF vars, SoundInv, Settled
  <1> QED
    BY <1>2, <1>3, <1>4, <1>5, <1>6, <1>7, <1>8, <1>10, <1>11, <1>12, <1>13
    DEF Next, WriteFile

LEMMA EndsInvariance == EndsSpec => []EndsInv
  <1>1. EndsInit => EndsInv
    <2> SUFFICES ASSUME EndsInit PROVE EndsInv
      OBVIOUS
    <2>1. Init /\ torn = FALSE
      BY DEF EndsInit
    <2>2. SoundInv
      BY <2>1, NothingLeads
      DEF Init, SoundInv, Settled, Surfaced, Untouched, NewSession, Checkpoint,
          Manifest
    <2> QED
      BY <2>1, <2>2, InitInvariant DEF EndsInv
  <1>2. EndsInv /\ [EndsNext]_<<vars, torn>> => EndsInv'
    <2> SUFFICES ASSUME EndsInv, [EndsNext]_<<vars, torn>> PROVE EndsInv'
      OBVIOUS
    <2>1. [Next]_vars
      BY DEF EndsNext
    <2>2. IInv'
      BY <2>1, Inductive DEF EndsInv
    <2>3. CASE UNCHANGED <<vars, torn>>
      <3>1. ~End \/ step \in {"checkpoint", "answer", "rest"}
        BY <2>3 DEF End, vars, EndsInv, IInv, TypeOK
      <3>2. SoundInv => SoundInv'
        BY <2>1, <3>1, StepSound DEF EndsInv
      <3> QED
        BY <2>2, <2>3, <3>2 DEF EndsInv
    <2>4. CASE EndsNext
      <3> DEFINE tears == End /\ step \notin {"checkpoint", "answer", "rest"}
      <3>1. torn' = (torn \/ tears)
        BY <2>4 DEF EndsNext, Tear
      <3>2. ~tears => (End => step \in {"checkpoint", "answer", "rest"})
        OBVIOUS
      <3> HIDE DEF tears
      <3>3. ~tears /\ SoundInv => SoundInv'
        BY <2>1, <3>2, StepSound DEF EndsInv
      <3> QED
        BY <2>2, <3>1, <3>3, Zenon DEF EndsInv
    <2> QED
      BY <2>3, <2>4
  <1> QED
    BY <1>1, <1>2, PTL DEF EndsSpec

(* As long as no process has ended in the middle of a save, the journal of *)
(* a game at rest leads to the state that is served, and replays.          *)
THEOREM RestingGamesReplay == EndsSpec => []ReplaysUnlessTorn
  <1>1. EndsInv => ReplaysUnlessTorn
    <2> SUFFICES ASSUME EndsInv, ~torn, AtRest
                 PROVE  JournalLeadsToState /\ RestingRecordReplays
      BY DEF ReplaysUnlessTorn, JournalLeadsToState, RestingRecordReplays
    <2>1. Settled
      BY DEF EndsInv, SoundInv, AtRest
    <2>2. "initial" \in present
      BY DEF EndsInv, IInv, ProgressInv, AtRest, PastCheckpoint, PastCommands,
             PastEvents, PastInitial, Steps
    <2> QED
      BY <2>1, <2>2 DEF Settled, Leads, JournalLeadsToState,
                        RestingRecordReplays, RecordReplays
  <1> QED
    BY <1>1, EndsInvariance, PTL

(* As long as no process has ended in the middle of a save, the next one   *)
(* can load the record, and no game is served as active whose effect       *)
(* cannot be executed.                                                     *)
THEOREM RestartsLoad == EndsSpec => []LoadsUnlessTorn
  <1>1. EndsInv => LoadsUnlessTorn
    <2> SUFFICES ASSUME EndsInv, ~torn
                 PROVE  RestartPossible /\ UnsupportedIsPaused
      BY DEF LoadsUnlessTorn
    <2>1. UnsupportedIsPaused
      BY DEF EndsInv, SoundInv, AtRest, UnsupportedIsPaused, Surfaced
    <2>2. ~running => files.text = "whole"
      BY DEF EndsInv, IInv, TypeOK, Directories, SoundInv
    <2> QED
      BY <2>1, <2>2 DEF RestartPossible, Readable
  <1> QED
    BY <1>1, EndsInvariance, PTL

(* A record that no process has left torn replays, loads, and surfaces     *)
(* what cannot be executed.                                                *)
THEOREM WholeRecords == EndsSpec => []WholeUnlessTorn
  BY RestingGamesReplay, RestartsLoad, PTL DEF WholeUnlessTorn

-----------------------------------------------------------------------------
(* The record and the answers as the ledger of the command boundary.       *)

(* The save of a request is about one that nobody has been answered, and   *)
(* adds it, and nothing else, to the checkpoint.                           *)
PendingInv ==
  /\ step = "rest" => saving = NoRequest
  /\ saving # NoRequest => store[saving] = "unknown"
  /\ running /\ step = "checkpoint" =>
       session.applied = IF saving = NoRequest THEN files.checkpoint.applied
                         ELSE Append(files.checkpoint.applied, saving)

(* Clients know what the store knows, and the store knows what is in the   *)
(* journal of the game that is served, but for the request being saved.    *)
KnownInv ==
  \A r \in Requests :
    /\ told[r] \in {"nothing", store[r]}
    /\ store[r] = "declined" => told[r] = "declined"
    /\ running /\ Lists(session.journal, r) =>
         store[r] = "accepted" \/ r = saving

LedgerInv == PendingInv /\ KnownInv

(* What is applied is in the journal, except in a checkpoint that is ahead *)
(* of its journal because a save is between the two.                       *)
CompleteInv ==
  \A r \in Requests :
    /\ running /\ Has(session.applied, r) => Lists(session.journal, r)
    /\ step # "commands" /\ Has(files.checkpoint.applied, r) =>
         Lists(files.commands, r)

LEMMA AppendOrigin ==
  ASSUME NEW a \in Seq(Requests), NEW j \in Seq(Commands),
         NEW r \in Requests, NEW c \in Commands, c.request = r,
         NEW q \in Requests, q # r
  PROVE  /\ Has(Append(a, r), q) => Has(a, q)
         /\ Lists(Append(j, c), q) => Lists(j, q)
  <1>1. /\ \A i \in DOMAIN Append(a, r) :
             \/ i \in DOMAIN a /\ Append(a, r)[i] = a[i]
             \/ Append(a, r)[i] = r
        /\ \A i \in DOMAIN Append(j, c) :
             \/ i \in DOMAIN j /\ Append(j, c)[i] = j[i]
             \/ Append(j, c)[i] = c
    OBVIOUS
  <1> QED
    BY <1>1 DEF Has, Lists

LEMMA SessionType ==
  ASSUME TypeOK
  PROVE  /\ session.applied \in Seq(Requests)
         /\ session.journal \in Seq(Commands)
         /\ files.checkpoint.applied \in Seq(Requests)
         /\ files.commands \in Seq(Commands)
  BY DEF TypeOK, Sessions, Directories, Checkpoints

(* What the steps that change the session do, in terms of the ledger.      *)
AcceptEffect(r) ==
  /\ running /\ step = "rest" /\ running' /\ step' = "checkpoint"
  /\ saving' = r /\ store[r] = "unknown"
  /\ UNCHANGED <<files, store, told>>
  /\ session.applied = files.checkpoint.applied
  /\ session'.applied = Append(session.applied, r)
  /\ Command(session, r) \in Commands /\ Command(session, r).request = r
  /\ session'.journal = Append(session.journal, Command(session, r))

LoadEffect ==
  /\ ~running /\ running' /\ step = "rest"
  /\ step' \in {"rest", "checkpoint"}
  /\ UNCHANGED <<saving, files, told>>
  /\ session'.applied = files.checkpoint.applied
  /\ session'.journal = files.commands
  /\ \A r \in Requests :
       IF Lists(files.commands, r)
         THEN store'[r] = "accepted" /\ store[r] # "declined"
         ELSE store'[r] = store[r]

LEMMA AcceptFacts ==
  ASSUME IInv, NEW r \in Requests, Accept(r)
  PROVE  AcceptEffect(r)
  <1>1. PICK d \in Decisions \ {"nobody"} : session' = After(session, r, d)
    BY DEF Accept
  <1>2. session \in Sessions /\ running /\ step = "rest"
    BY DEF IInv, TypeOK, Accept, AtRest
  <1>3. files.checkpoint = Checkpoint(session)
    BY <1>2 DEF IInv, ProgressInv, PastCheckpoint
  <1> QED
    BY <1>1, <1>2, <1>3, AfterFacts
    DEF Accept, Admits, BeginSave, directory, Checkpoint, AcceptEffect

LEMMA LoadFacts ==
  ASSUME IInv, Load
  PROVE  LoadEffect
  <1>1. /\ session'.applied = Loaded.applied
        /\ session'.journal = Loaded.journal
    BY LoadedType, BoundaryType DEF IInv, Load
  <1> QED
    BY <1>1 DEF IInv, ProgressInv, Load, Loaded, directory, Lists, LoadEffect

(* The other steps leave the game alone, or write one of its files.        *)
LEMMA OtherFacts ==
  ASSUME IInv, Stop \/ Resume \/ WriteFile
  PROVE  /\ running /\ running' /\ UNCHANGED <<store, told>>
         /\ session'.applied = session.applied
         /\ session'.journal = session.journal
         /\ Stop \/ Resume => /\ step = "rest" /\ step' = "checkpoint"
                              /\ saving' = NoRequest /\ UNCHANGED files
                              /\ session.applied = files.checkpoint.applied
         /\ WriteFile =>
              /\ step \notin {"rest", "answer"} /\ step' \notin {"rest", "checkpoint"}
              /\ UNCHANGED saving
         /\ step' = "commands" <=> WriteCheckpoint
         /\ files'.checkpoint = IF WriteCheckpoint THEN Checkpoint(session)
                                 ELSE files.checkpoint
         /\ files'.commands = IF WriteCommands THEN session.journal
                               ELSE files.commands
  <1> USE DEF IInv, TypeOK, directory
  <1>1. CASE Stop \/ Resume
    <2>1. running /\ step = "rest"
      BY <1>1 DEF Stop, Resume, AtRest
    <2>2. files.checkpoint = Checkpoint(session)
      BY <2>1 DEF ProgressInv, PastCheckpoint
    <2>3. ~WriteFile /\ ~WriteCheckpoint /\ ~WriteCommands
      BY <2>1 DEF WriteFile, WriteCheckpoint, WriteCommands, WriteEvents,
                  WriteInitial, WriteManifest, TruncateText, WriteText, Write
    <2>4. /\ session'.applied = session.applied
          /\ session'.journal = session.journal
      BY <1>1 DEF Stop, Resume, Sessions
    <2>5. /\ running' /\ UNCHANGED <<store, told, files>>
          /\ step' = "checkpoint" /\ saving' = NoRequest
      BY <1>1, <2>1 DEF Stop, Resume, BeginSave
    <2>6. session.applied = files.checkpoint.applied
      BY <2>2 DEF Checkpoint
    <2> HIDE DEF IInv, TypeOK, directory
    <2> QED
      BY <2>1, <2>3, <2>4, <2>5, <2>6
  <1>2. CASE WriteFile
    BY <1>2
    DEF WriteFile, Directories, WriteCheckpoint, WriteCommands, WriteEvents,
        WriteInitial, WriteManifest, TruncateText, WriteText, Write, Stop,
        Resume, AtRest
  <1> QED
    BY <1>1, <1>2

LEMMA StepLedgerInv ==
  ASSUME IInv, LedgerInv, [Next]_vars
  PROVE  LedgerInv'
  <1> USE DEF LedgerInv, PendingInv, KnownInv
  <1>1. ASSUME NEW r \in Requests, Accept(r)
        PROVE  LedgerInv'
    <2>1. /\ AcceptEffect(r) /\ SavingInv /\ saving = NoRequest
          /\ session.applied \in Seq(Requests)
          /\ session.journal \in Seq(Commands)
      BY <1>1, AcceptFacts, SessionType DEF IInv, AcceptEffect
    <2>2. PendingInv'
      BY <2>1, GameRecordAssumption DEF AcceptEffect
    <2>3. ASSUME NEW q \in Requests, q # r, Lists(session'.journal, q)
          PROVE  Lists(session.journal, q)
      BY <2>1, <2>3, AppendOrigin DEF AcceptEffect
    <2>4. KnownInv'
      BY <2>1, <2>3, GameRecordAssumption DEF AcceptEffect
    <2> QED
      BY <2>2, <2>4
  <1>2. ASSUME NEW r \in Requests, Decline(r) \/ Repeat(r)
        PROVE  LedgerInv'
    <2>1. /\ running /\ running' /\ step = "rest" /\ step' = "rest"
          /\ UNCHANGED <<session, files, saving>> /\ saving = NoRequest
          /\ store \in [Requests -> {"unknown", "accepted", "declined"}]
          /\ told \in [Requests -> {"nothing", "accepted", "declined"}]
      BY <1>2 DEF IInv, TypeOK, Decline, Repeat, AtRest, directory
    <2>2. PendingInv'
      BY <1>2, <2>1 DEF Decline, Repeat
    <2>3. ASSUME NEW q \in Requests
          PROVE  /\ told'[q] \in {"nothing", store'[q]}
                 /\ store'[q] = "declined" => told'[q] = "declined"
                 /\ Lists(session.journal, q) => store'[q] = "accepted"
      <3>1. CASE q = r
        BY <1>2, <2>1, <3>1, GameRecordAssumption DEF Decline, Repeat
      <3>2. CASE q # r
        BY <1>2, <2>1, <3>2, GameRecordAssumption DEF Decline, Repeat
      <3> QED
        BY <3>1, <3>2
    <2> QED
      BY <2>1, <2>2, <2>3
  <1>3. CASE Stop \/ Resume \/ WriteFile
    BY <1>3, OtherFacts, GameRecordAssumption
  <1>4. CASE Answer
    <2>1. /\ store \in [Requests -> {"unknown", "accepted", "declined"}]
          /\ told \in [Requests -> {"nothing", "accepted", "declined"}]
          /\ saving \in Requests \cup {NoRequest}
      BY DEF IInv, TypeOK
    <2> QED
      BY <1>4, <2>1, GameRecordAssumption DEF Answer
  <1>5. CASE End
    BY <1>5, GameRecordAssumption DEF End, NewSession
  <1>6. CASE Load
    <2>1. LoadEffect /\ saving = NoRequest
      BY <1>6, LoadFacts DEF LoadEffect
    <2>2. PendingInv'
      BY <2>1 DEF LoadEffect
    <2>3. ASSUME NEW q \in Requests
          PROVE  /\ told'[q] \in {"nothing", store'[q]}
                 /\ store'[q] = "declined" => told'[q] = "declined"
                 /\ Lists(session'.journal, q) => store'[q] = "accepted"
      <3>1. told[q] \in {"nothing", "accepted", "declined"}
        BY DEF IInv, TypeOK
      <3>2. told[q] = "accepted" => Lists(files.commands, q)
        BY DEF IInv, AcceptedInv
      <3> QED
        BY <2>1, <3>1, <3>2 DEF LoadEffect
    <2> QED
      BY <2>1, <2>2, <2>3
  <1>7. CASE UNCHANGED vars
    BY <1>7 DEF vars, directory
  <1> QED
    BY <1>1, <1>2, <1>3, <1>4, <1>5, <1>6, <1>7 DEF Next

LEMMA StepComplete ==
  ASSUME IInv, CompleteInv, [Next]_vars, End => step # "commands"
  PROVE  CompleteInv'
  <1> USE DEF CompleteInv
  <1>1. ASSUME NEW r \in Requests, Accept(r)
        PROVE  CompleteInv'
    <2>1. /\ AcceptEffect(r)
          /\ session.applied \in Seq(Requests)
          /\ session.journal \in Seq(Commands)
      BY <1>1, AcceptFacts, SessionType DEF IInv
    <2>2. Lists(session'.journal, r)
      BY <2>1, ListsAppend DEF AcceptEffect
    <2>3. ASSUME NEW q \in Requests, q # r, Has(session'.applied, q)
          PROVE  Lists(session'.journal, q)
      <3>1. Has(session.applied, q)
        BY <2>1, <2>3, AppendOrigin DEF AcceptEffect
      <3>2. Lists(session.journal, q)
        BY <2>1, <3>1 DEF AcceptEffect
      <3> QED
        BY <2>1, <3>2, ListsAppend DEF AcceptEffect
    <2> QED
      BY <2>1, <2>2, <2>3 DEF AcceptEffect
  <1>2. ASSUME NEW r \in Requests, Decline(r) \/ Repeat(r)
        PROVE  CompleteInv'
    BY <1>2 DEF Decline, Repeat, directory
  <1>3. CASE Stop \/ Resume
    BY <1>3, OtherFacts DEF Has
  <1>4. CASE WriteFile
    <2>1. step = "commands" => files.checkpoint = Checkpoint(session)
      BY DEF IInv, ProgressInv, PastCheckpoint, Steps
    <2>2. step = "commands" <=> WriteCommands
      BY <1>4 DEF WriteFile, WriteCheckpoint, WriteCommands, WriteEvents,
                  WriteInitial, WriteManifest, TruncateText, WriteText, Write
    <2> QED
      BY <1>4, <2>1, <2>2, OtherFacts DEF Checkpoint
  <1>5. CASE Answer
    BY <1>5 DEF Answer, directory
  <1>6. CASE End
    BY <1>6 DEF End, directory
  <1>7. CASE Load
    BY <1>7, LoadFacts DEF LoadEffect
  <1>8. CASE UNCHANGED vars
    BY <1>8 DEF vars, directory
  <1> QED
    BY <1>1, <1>2, <1>3, <1>4, <1>5, <1>6, <1>7, <1>8 DEF Next

(* A request that is applied although it is not being saved was accepted,  *)
(* so nobody is told that it was declined.                                 *)
LEMMA AppliedIsAccepted ==
  ASSUME IInv, LedgerInv, CompleteInv, AtRest, NEW r \in Requests,
         Has(files.checkpoint.applied, r)
  PROVE  store[r] = "accepted"
  <1>1. /\ running /\ step = "rest" /\ saving = NoRequest
        /\ files.commands = session.journal
    BY DEF AtRest, IInv, ProgressInv, LedgerInv, PendingInv, PastCommands,
           PastCheckpoint
  <1>2. Lists(session.journal, r)
    BY <1>1 DEF CompleteInv
  <1> QED
    BY <1>1, <1>2, GameRecordAssumption DEF LedgerInv, KnownInv

LEMMA EntryFacts ==
  ASSUME TypeOK
  PROVE  /\ DOMAIN DurableLedger = DOMAIN files.checkpoint.applied
         /\ \A i \in DOMAIN DurableLedger :
              DurableLedger[i] =
                Served!LedgerEntry("client", Envelope(files.checkpoint.applied[i]))
  BY DEF DurableLedger, Served!LedgerEntry

(* The answers after a client has been told about a request for the first  *)
(* time.                                                                   *)
LEMMA NewReceipt ==
  ASSUME TypeOK, NEW r \in Requests, told[r] = "nothing",
         NEW fate \in {"accepted", "declined"},
         told' = [told EXCEPT ![r] = fate]
  PROVE  /\ Receipts' = Receipts \cup
              {Served!Ack("client", Envelope(r),
                 Served!Receipt(fate, IF fate = "accepted" THEN View[r] + 1
                                      ELSE 0))}
         /\ \A a \in Receipts : a.envelope # Envelope(r)
  <1> DEFINE new == Served!Ack("client", Envelope(r),
                      Served!Receipt(fate, IF fate = "accepted"
                                           THEN View[r] + 1 ELSE 0))
             Item(q, t) ==
               [principal |-> "client", envelope |-> Envelope(q),
                receipt |-> [code |-> t,
                             revision |-> IF t = "accepted" THEN View[q] + 1
                                          ELSE 0]]
  <1>1. /\ Receipts = {Item(q, told[q]) : q \in {p \in Requests : told[p] # "nothing"}}
        /\ Receipts' = {Item(q, told'[q]) : q \in {p \in Requests : told'[p] # "nothing"}}
    BY DEF Receipts, ReceiptOf
  <1>2. new = Item(r, fate)
    BY DEF Served!Ack, Served!Receipt
  <1>3. /\ told'[r] = fate
        /\ \A q \in Requests : q # r => told'[q] = told[q]
    BY DEF TypeOK
  <1>4. \A q, t : Item(q, t).envelope = [command_id |-> q]
    BY DEF Envelope
  <1>5. \A q \in Requests : q # r => Envelope(q) # Envelope(r)
    <2>1. \A q : Envelope(q).command_id = q
      BY DEF Envelope
    <2> QED
      BY <2>1
  <1>6. told[r] = "nothing"
    OBVIOUS
  <1> HIDE DEF Item, new
  <1>7. Receipts' = Receipts \cup {new}
    BY <1>1, <1>2, <1>3
  <1>8. ASSUME NEW a \in Receipts
        PROVE  a.envelope # Envelope(r)
    <2>1. PICK q \in Requests : told[q] # "nothing" /\ a = Item(q, told[q])
      BY <1>1
    <2>2. a.envelope = Envelope(q)
      BY <1>4, <2>1 DEF Envelope
    <2>3. q # r
      BY <1>6, <2>1
    <2> QED
      BY <1>5, <2>2, <2>3
  <1> QED
    BY <1>7, <1>8 DEF new

LEMMA CommitStep ==
  ASSUME IInv, LedgerInv, WriteCheckpoint
  PROVE  [Served!Next]_<<DurableLedger, Receipts>>
  <1>1. /\ running /\ step = "checkpoint" /\ told' = told
        /\ files'.checkpoint.applied = session.applied
    BY DEF IInv, TypeOK, Directories, WriteCheckpoint, Write, Checkpoint
  <1>2. Receipts' = Receipts
    BY <1>1 DEF Receipts, ReceiptOf
  <1>3. CASE saving = NoRequest
    <2>1. files'.checkpoint.applied = files.checkpoint.applied
      BY <1>1, <1>3 DEF LedgerInv, PendingInv
    <2> QED
      BY <1>2, <2>1 DEF DurableLedger
  <1>4. CASE saving # NoRequest
    <2> DEFINE a == files.checkpoint.applied
               b == files'.checkpoint.applied
               e == Envelope(saving)
    <2>1. /\ a \in Seq(Requests) /\ saving \in Requests /\ b = Append(a, saving)
      BY <1>1, <1>4, SessionType DEF IInv, TypeOK, LedgerInv, PendingInv
    <2>2. /\ Len(b) = Len(a) + 1 /\ Len(a) \in Nat
          /\ DOMAIN a = 1 .. Len(a) /\ DOMAIN b = 1 .. Len(a) + 1
          /\ \A i \in 1 .. Len(a) : b[i] = a[i]
          /\ b[Len(a) + 1] = saving
      BY <2>1
    <2>3. \A i \in DOMAIN a : a[i] # saving
      <3>1. InOrder(b)
        BY <1>1 DEF IInv, OrderInv
      <3> HIDE DEF a, b
      <3>2. View[saving] = Len(a)
        BY <2>2, <3>1 DEF InOrder
      <3>3. \A i \in 1 .. Len(a) : View[a[i]] = i - 1 /\ i - 1 # Len(a)
        BY <2>2, <3>1 DEF InOrder
      <3> QED
        BY <2>2, <3>2, <3>3
    <2>4. told[saving] = "nothing"
      BY <1>4, <2>1, GameRecordAssumption
      DEF LedgerInv, PendingInv, KnownInv, IInv, TypeOK
    <2> HIDE DEF a, b, e
    <2>5. DurableLedger' =
            Append(DurableLedger, Served!LedgerEntry("client", e))
      <3> DEFINE entry(x) == [principal |-> "client", envelope |-> Envelope(x)]
      <3>1. /\ DurableLedger = [i \in 1 .. Len(a) |-> entry(a[i])]
            /\ DurableLedger' = [i \in 1 .. Len(a) + 1 |-> entry(b[i])]
        BY <2>2 DEF DurableLedger, a, b
      <3>2. Served!LedgerEntry("client", e) = entry(saving)
        BY DEF Served!LedgerEntry, e
      <3> HIDE DEF entry
      <3> QED
        BY <2>2, <3>1, <3>2
    <2>6. \A i \in DOMAIN DurableLedger :
            ~Served!SameCommand("client", e, DurableLedger[i])
      BY <2>3 DEF DurableLedger, Served!SameCommand, Envelope, a, e
    <2>7. ASSUME NEW ack \in Receipts
          PROVE  ~(ack.principal = "client" /\ ack.envelope = e)
      BY <2>1, <2>4 DEF Receipts, Envelope, e
    <2>8. Served!Commit("client", e)
      BY <1>2, <2>5, <2>6, <2>7 DEF Served!Commit
    <2> QED
      BY <2>1, <2>8 DEF Served!Next, e
  <1> QED
    BY <1>3, <1>4

LEMMA ConfirmStep ==
  ASSUME IInv, LedgerInv, NEW r \in Requests, told[r] = "nothing",
         Has(files.checkpoint.applied, r), UNCHANGED files,
         told' = [told EXCEPT ![r] = "accepted"]
  PROVE  Served!Next
  <1>1. PICK i \in DOMAIN files.checkpoint.applied :
          files.checkpoint.applied[i] = r
    BY DEF Has
  <1>2. i = View[r] + 1
    BY <1>1, SessionType, GameRecordAssumption DEF IInv, OrderInv, InOrder
  <1>3. /\ i \in DOMAIN DurableLedger
        /\ DurableLedger[i] = Served!LedgerEntry("client", Envelope(r))
        /\ DurableLedger' = DurableLedger
    BY <1>1 DEF DurableLedger, Served!LedgerEntry
  <1>4. Receipts' = Receipts \cup
          {Served!Ack("client", Envelope(r), Served!Receipt("accepted", i))}
    BY <1>2, NewReceipt DEF IInv
  <1>5. Served!Confirm("client", Envelope(r), i)
    BY <1>3, <1>4 DEF Served!Confirm
  <1> QED
    BY <1>3, <1>5 DEF Served!Next

LEMMA DeclineStep ==
  ASSUME IInv, LedgerInv, NEW r \in Requests, told[r] = "nothing",
         ~Has(files.checkpoint.applied, r), UNCHANGED files,
         told' = [told EXCEPT ![r] = "declined"]
  PROVE  Served!Next
  <1> DEFINE e == Envelope(r)
             receipt == Served!Receipt("declined", 0)
             answer == Served!Ack("client", e, receipt)
  <1>1. /\ Receipts' = Receipts \cup {answer}
        /\ \A a \in Receipts : a.envelope # e
    BY NewReceipt DEF IInv
  <1>2. DurableLedger' = DurableLedger
    BY DEF DurableLedger
  <1>3. ASSUME NEW i \in DOMAIN DurableLedger
        PROVE  DurableLedger[i] # Served!LedgerEntry("client", e)
    <2>1. files.checkpoint.applied[i] # r
      BY DEF Has, DurableLedger
    <2>2. \A q : Served!LedgerEntry("client", Envelope(q)).envelope.command_id = q
      BY DEF Served!LedgerEntry, Envelope
    <2> QED
      BY <2>1, <2>2, EntryFacts DEF IInv, e
  <1>4. receipt.code # "accepted" /\ answer.receipt = receipt
    BY DEF Served!Receipt, Served!Ack
  <1>5. Served!Decline("client", e, answer.receipt)
    BY <1>1, <1>2, <1>3, <1>4 DEF Served!Decline
  <1> QED
    BY <1>1, <1>5 DEF Served!Next, e

(* An acceptance given once: by the save that it waited for, or again to a *)
(* client that asks again.                                                 *)
LEMMA SameReceipts ==
  ASSUME UNCHANGED told, files'.checkpoint.applied = files.checkpoint.applied
  PROVE  UNCHANGED <<DurableLedger, Receipts>>
  BY DEF DurableLedger, Receipts, ReceiptOf

LEMMA ServedStep ==
  ASSUME IInv, LedgerInv, CompleteInv, [Next]_vars
  PROVE  [Served!Next]_<<DurableLedger, Receipts>>
  <1>0. /\ store \in [Requests -> {"unknown", "accepted", "declined"}]
        /\ told \in [Requests -> {"nothing", "accepted", "declined"}]
        /\ saving \in Requests \cup {NoRequest}
    BY DEF IInv, TypeOK
  <1>1. ASSUME NEW r \in Requests, Accept(r)
        PROVE  UNCHANGED <<DurableLedger, Receipts>>
    BY <1>1, SameReceipts DEF Accept, directory
  <1>2. ASSUME NEW r \in Requests, Decline(r)
        PROVE  [Served!Next]_<<DurableLedger, Receipts>>
    <2>1. /\ AtRest /\ store[r] = "unknown" /\ UNCHANGED files
          /\ told' = [told EXCEPT ![r] = "declined"]
      BY <1>2 DEF Decline, directory
    <2>2. told[r] = "nothing"
      BY <1>0, <2>1 DEF LedgerInv, KnownInv
    <2>3. ~Has(files.checkpoint.applied, r)
      BY <2>1, AppliedIsAccepted
    <2> QED
      BY <2>1, <2>2, <2>3, DeclineStep
  <1>3. ASSUME NEW r \in Requests, Repeat(r)
        PROVE  [Served!Next]_<<DurableLedger, Receipts>>
    <2>1. /\ AtRest /\ store[r] # "unknown" /\ UNCHANGED files
          /\ told' = [told EXCEPT ![r] = store[r]]
      BY <1>3 DEF Repeat, directory
    <2>2. CASE told[r] = "nothing"
      <3>1. store[r] = "accepted"
        BY <1>0, <2>1, <2>2 DEF LedgerInv, KnownInv
      <3>2. Has(files.checkpoint.applied, r)
        BY <3>1 DEF IInv, AcceptedInv
      <3> QED
        BY <2>1, <2>2, <3>1, <3>2, ConfirmStep
    <2>3. CASE told[r] # "nothing"
      <3>1. told[r] = store[r]
        BY <2>3 DEF LedgerInv, KnownInv
      <3>2. told' = told
        BY <1>0, <2>1, <3>1
      <3> QED
        BY <2>1, <3>2, SameReceipts
    <2> QED
      BY <2>2, <2>3
  <1>4. CASE Stop \/ Resume
    BY <1>4, SameReceipts DEF Stop, Resume, directory
  <1>5. CASE WriteFile
    <2>1. CASE WriteCheckpoint
      BY <2>1, CommitStep
    <2>2. CASE ~WriteCheckpoint
      BY <1>5, <2>2, OtherFacts, SameReceipts
    <2> QED
      BY <2>1, <2>2
  <1>6. CASE Answer
    <2>1. running /\ step = "answer" /\ UNCHANGED files
      BY <1>6 DEF Answer, directory
    <2>2. CASE saving = NoRequest
      BY <1>6, <2>1, <2>2, SameReceipts DEF Answer
    <2>3. CASE saving # NoRequest
      <3>1. /\ saving \in Requests
            /\ told' = [told EXCEPT ![saving] = "accepted"]
        BY <1>0, <1>6, <2>3 DEF Answer
      <3>2. told[saving] = "nothing"
        BY <1>0, <2>3, <3>1 DEF LedgerInv, PendingInv, KnownInv
      <3>3. Has(files.checkpoint.applied, saving)
        BY <2>1, <2>3
        DEF IInv, SavingInv, ProgressInv, PastCheckpoint, Steps, Checkpoint
      <3> QED
        BY <2>1, <3>1, <3>2, <3>3, ConfirmStep
    <2> QED
      BY <2>2, <2>3
  <1>7. CASE End
    BY <1>7, SameReceipts DEF End, directory
  <1>8. CASE Load
    BY <1>8, SameReceipts DEF Load, directory
  <1>9. CASE UNCHANGED vars
    BY <1>9, SameReceipts DEF vars, directory
  <1> QED
    BY <1>1, <1>2, <1>3, <1>4, <1>5, <1>6, <1>7, <1>8, <1>9 DEF Next

LEMMA InitServed == Init => LedgerInv /\ CompleteInv /\ Served!Init
  <1> SUFFICES ASSUME Init PROVE LedgerInv /\ CompleteInv /\ Served!Init
    OBVIOUS
  <1>1. /\ step = "checkpoint" /\ saving = NoRequest
        /\ session.applied = <<>> /\ session.journal = <<>>
        /\ files.checkpoint.applied = <<>> /\ files.commands = <<>>
        /\ \A r \in Requests : store[r] = "unknown" /\ told[r] = "nothing"
    BY DEF Init, NewSession, Untouched, Checkpoint
  <1>2. LedgerInv
    BY <1>1, GameRecordAssumption DEF LedgerInv, PendingInv, KnownInv, Lists
  <1>3. CompleteInv
    BY <1>1 DEF CompleteInv, Has, Lists
  <1>4. Receipts = {}
    BY <1>1 DEF Receipts
  <1>5. DurableLedger = <<>>
    <2>1. DOMAIN files.checkpoint.applied = 1 .. 0
      BY <1>1
    <2> QED
      BY <2>1 DEF DurableLedger
  <1> QED
    BY <1>2, <1>3, <1>4, <1>5 DEF Served!Init

(* Until a process ends in the middle of a save, checkpoint and answers    *)
(* are a CommandLedger: a save of several files is one write to whoever    *)
(* asks, whatever processes ended before and after it.                     *)
THEOREM SavesAreOneWrite == EndsSpec => LedgerUnlessTorn
  <1> DEFINE Inv == /\ IInv /\ LedgerInv /\ torn \in BOOLEAN
                    /\ ~torn => CompleteInv
  <1>1. EndsInit => Inv /\ Served!Init
    BY InitInvariant, InitServed DEF EndsInit
  <1>2. Inv /\ [EndsNext]_<<vars, torn>> => Inv'
    <2> SUFFICES ASSUME Inv, [EndsNext]_<<vars, torn>> PROVE Inv'
      OBVIOUS
    <2>1. [Next]_vars
      BY DEF EndsNext
    <2>2. IInv' /\ LedgerInv'
      BY <2>1, Inductive, StepLedgerInv
    <2>3. /\ torn' \in BOOLEAN
          /\ ~torn' => ~torn /\ (End => step # "commands")
      BY DEF EndsNext, Tear, End, vars
    <2>4. ~torn' => CompleteInv'
      BY <2>1, <2>3, StepComplete
    <2> QED
      BY <2>2, <2>3, <2>4
  <1>3. Inv /\ [EndsNext]_<<vars, torn>>
          => [torn \/ Served!Next]_<<DurableLedger, Receipts>>
    <2> SUFFICES ASSUME Inv, [EndsNext]_<<vars, torn>>, ~torn
                 PROVE  [Served!Next]_<<DurableLedger, Receipts>>
      OBVIOUS
    <2>1. [Next]_vars
      BY DEF EndsNext
    <2> QED
      BY <2>1, ServedStep
  <1> QED
    BY <1>1, <1>2, <1>3, PTL DEF EndsSpec, LedgerUnlessTorn

(* The one gap is between the checkpoint and the journal: in a program     *)
(* whose processes end anywhere but there, the record implements the       *)
(* ledger outright.                                                        *)
THEOREM OneGap ==
  ASSUME "commands" \notin EndPoints
  PROVE  Spec => Served!Spec
  <1> DEFINE Inv == IInv /\ LedgerInv /\ CompleteInv
  <1>1. Init => Inv /\ Served!Init
    BY InitInvariant, InitServed
  <1>2. Inv /\ [Next]_vars => Inv'
    <2>1. End => step # "commands"
      BY DEF End
    <2> QED
      BY <2>1, Inductive, StepLedgerInv, StepComplete
  <1>3. Inv /\ [Next]_vars => [Served!Next]_<<DurableLedger, Receipts>>
    BY ServedStep
  <1> QED
    BY <1>1, <1>2, <1>3, PTL DEF Spec, Served!Spec
=============================================================================
