----------------------------- MODULE GameStream -----------------------------
(***************************************************************************)
(* The live view of one game: the hub that announces its changes, one      *)
(* stream per connection with a projection cursor of its own, and the      *)
(* browser pages that apply full packets and deltas to what they show and  *)
(* connect again when a connection is lost.                                *)
(*                                                                         *)
(* A view is known by the revision it shows: its hash and its patch are    *)
(* abstracted to that.  The actor answers a stream at once; what the       *)
(* actor does with commands is the subject of GameActor, and a revision    *)
(* counts here when it is saved.  All pages belong to one principal, the   *)
(* case in which their cursors could be confused.                          *)
(***************************************************************************)
EXTENDS Integers, Sequences

CONSTANTS
  Pages,        \* the browser pages that watch the game
  MaxOpened,    \* bound: connections of one page
  MaxRevision,  \* bound: changes of the game
  MaxSpoken,    \* bound: messages that the pages send on their connections
  NoCursor,     \* a cursor key that the session does not hold
  NoView        \* a page that shows nothing yet

Connections == Pages \X (1 .. MaxOpened)

VARIABLES
  revision,  \* of the saved game
  owed,      \* changes whose request handler has not yet called notify
  told,      \* the hub's version
  cursor,    \* the session's projection cursors, by connection
  stream,    \* where the handler of a connection is
  version,   \* the hub's version that the handler waits to be exceeded
  hub,       \* the task of the handler that waits on the hub
  result,    \* what that task has returned
  inbox,     \* messages of the page that the handler has not received
  spoken,    \* how many messages pages have sent
  opened,    \* how many connections a page has opened; the last is in use
  first,     \* the first connection since the page was last blanked
  closed,    \* the connections that are closed at the page
  wire,      \* packets on their way to a page
  chain,     \* packets that a page has received and not yet ingested
  view       \* what a page shows

serverVars == <<revision, owed, told, cursor, stream, version, hub, result>>
pageVars == <<opened, first, closed, wire, chain, view>>
vars == <<serverVars, inbox, spoken, pageVars>>

Cursors == [revision : 0 .. MaxRevision, number : Nat]

ASSUME GameStreamAssumption ==
  /\ MaxOpened \in Nat \ {0}
  /\ MaxRevision \in Nat
  /\ MaxSpoken \in Nat
  /\ NoCursor \notin Cursors
  /\ NoView \notin Cursors

Packets ==
  [full : BOOLEAN, base : 0 .. MaxRevision, revision : 0 .. MaxRevision,
   number : Nat, connection : 1 .. MaxOpened]

Current(p) == <<p, opened[p]>>

-----------------------------------------------------------------------------
(* Projection cursors.                                                     *)

(* Bug: the connections of a principal share its cursor.                   *)
PrincipalKey(c) == <<CHOOSE p \in Pages : TRUE, 1>>

CursorKey(c) == c

(* The next packet of a cursor: the whole view, or the difference to the   *)
(* view that the cursor remembers.                                         *)
Packet(c, full) ==
  LET key == CursorKey(c)
      whole == full \/ cursor[key] = NoCursor
  IN [full |-> whole,
      base |-> IF whole THEN 0 ELSE cursor[key].revision,
      revision |-> revision,
      number |-> IF cursor[key] = NoCursor THEN 1 ELSE cursor[key].number + 1,
      connection |-> c[2]]

Advance(c) ==
  cursor' = [cursor EXCEPT ![CursorKey(c)] =
               [revision |-> revision, number |-> Packet(c, FALSE).number]]

-----------------------------------------------------------------------------
(* The game changes, and then the handler of the request announces it.     *)

Command ==
  /\ revision < MaxRevision
  /\ revision' = revision + 1
  /\ owed' = owed + 1
  /\ UNCHANGED <<told, cursor, stream, version, hub, result, inbox, spoken>>
  /\ UNCHANGED pageVars

(* Bug: the hub forgets the event without setting it.                      *)
ForgetWaiters == hub

WakeWaiters ==
  [c \in Connections |-> IF hub[c] = "asleep" THEN "called" ELSE hub[c]]

Due == owed > 0

Notify ==
  /\ Due
  /\ owed' = owed - 1
  /\ told' = told + 1
  /\ hub' = WakeWaiters
  /\ UNCHANGED <<revision, cursor, stream, version, result, inbox, spoken>>
  /\ UNCHANGED pageVars

-----------------------------------------------------------------------------
(* The task that waits on the hub.                                         *)

Ask(c) ==
  /\ hub[c] = "asking"
  /\ IF told > version[c]
     THEN /\ hub' = [hub EXCEPT ![c] = "done"]
          /\ result' = [result EXCEPT ![c] = told]
     ELSE hub' = [hub EXCEPT ![c] = "asleep"] /\ UNCHANGED result
  /\ UNCHANGED <<revision, owed, told, cursor, stream, version>>
  /\ UNCHANGED <<inbox, spoken, pageVars>>

Called(c) ==
  /\ hub[c] = "called"
  /\ hub' = [hub EXCEPT ![c] = "done"]
  /\ result' = [result EXCEPT ![c] = told]
  /\ UNCHANGED <<revision, owed, told, cursor, stream, version>>
  /\ UNCHANGED <<inbox, spoken, pageVars>>

(* The wait has taken too long, even if the event has just been set: the   *)
(* handler sends a ping, which pages ignore, and asks again.               *)
Timeout(c) ==
  /\ hub[c] \in {"asleep", "called"}
  /\ hub' = [hub EXCEPT ![c] = "asking"]
  /\ UNCHANGED <<revision, owed, told, cursor, stream, version, result>>
  /\ UNCHANGED <<inbox, spoken, pageVars>>

-----------------------------------------------------------------------------
(* The handler of a connection.                                            *)

(* It observes the game and sends the packet.  To send it to a connection  *)
(* that the page has closed loses the packet or ends the handler.          *)
Serve(c) ==
  /\ stream[c] \in {"opening", "observing"}
  /\ Advance(c)
  /\ IF c \in closed
     THEN UNCHANGED wire
     ELSE wire' = [wire EXCEPT ![c[1]] =
                     Append(@, Packet(c, stream[c] = "opening"))]
  /\ \/ /\ stream' = [stream EXCEPT ![c] = "waiting"]
        /\ hub' = [hub EXCEPT ![c] = "asking"]
     \/ /\ c \in closed
        /\ stream' = [stream EXCEPT ![c] = "leaving"]
        /\ UNCHANGED hub
  /\ UNCHANGED <<revision, owed, told, version, result, inbox, spoken>>
  /\ UNCHANGED <<opened, first, closed, chain, view>>

(* The hub has something new.                                              *)
Wake(c) ==
  /\ stream[c] = "waiting"
  /\ hub[c] = "done"
  /\ version' = [version EXCEPT ![c] = result[c]]
  /\ stream' = [stream EXCEPT ![c] = "observing"]
  /\ hub' = [hub EXCEPT ![c] = "none"]
  /\ result' = [result EXCEPT ![c] = 0]
  /\ UNCHANGED <<revision, owed, told, cursor, inbox, spoken, pageVars>>

(* Bug: a version is taken for seen although nothing was observed.         *)
KeepResult(c) ==
  version' = [version EXCEPT ![c] = IF hub[c] = "done" THEN result[c] ELSE @]

DiscardResult(c) == UNCHANGED version

(* A message of the page: the task that waits on the hub is cancelled,     *)
(* its result, if it has one, is not used, and a new one asks again.       *)
Receive(c) ==
  /\ stream[c] = "waiting"
  /\ inbox[c] > 0
  /\ inbox' = [inbox EXCEPT ![c] = @ - 1]
  /\ hub' = [hub EXCEPT ![c] = "asking"]
  /\ DiscardResult(c)
  /\ result' = [result EXCEPT ![c] = 0]
  /\ UNCHANGED <<revision, owed, told, cursor, stream, spoken, pageVars>>

(* The handler learns that the page is gone.                               *)
Disconnect(c) ==
  /\ stream[c] = "waiting"
  /\ c \in closed
  /\ stream' = [stream EXCEPT ![c] = "leaving"]
  /\ hub' = [hub EXCEPT ![c] = "none"]
  /\ result' = [result EXCEPT ![c] = 0]
  /\ UNCHANGED <<revision, owed, told, cursor, version>>
  /\ UNCHANGED <<inbox, spoken, pageVars>>

DropCursor(c) == [cursor EXCEPT ![CursorKey(c)] = NoCursor]

Leave(c) ==
  /\ stream[c] = "leaving"
  /\ cursor' = DropCursor(c)
  /\ stream' = [stream EXCEPT ![c] = "ended"]
  /\ version' = [version EXCEPT ![c] = 0]
  /\ inbox' = [inbox EXCEPT ![c] = 0]
  /\ UNCHANGED <<revision, owed, told, hub, result, spoken, pageVars>>

-----------------------------------------------------------------------------
(* The page.                                                               *)

(* The handler reads the hub's version before it observes the game.        *)
Open(p) ==
  LET c == <<p, opened[p] + 1>>
  IN /\ opened[p] < MaxOpened
     /\ opened' = [opened EXCEPT ![p] = @ + 1]
     /\ stream' = [stream EXCEPT ![c] = "opening"]
     /\ version' = [version EXCEPT ![c] = told]
     /\ UNCHANGED <<revision, owed, told, cursor, hub, result>>
     /\ UNCHANGED <<inbox, spoken, closed, wire, chain>>

(* A page that comes up, or whose connection was closed, connects.         *)
Connect(p) ==
  /\ opened[p] = 0 \/ Current(p) \in closed
  /\ Open(p)
  /\ UNCHANGED <<first, view>>

(* "Retry now" while the page is not connected: it starts from nothing,    *)
(* but what it has received is still in its chain.                         *)
Retry(p) ==
  /\ opened[p] > 0
  /\ Current(p) \in closed
  /\ Open(p)
  /\ first' = [first EXCEPT ![p] = opened[p] + 1]
  /\ view' = [view EXCEPT ![p] = NoView]

Speak(p) ==
  /\ spoken < MaxSpoken
  /\ opened[p] > 0
  /\ Current(p) \notin closed
  /\ spoken' = spoken + 1
  /\ inbox' = [inbox EXCEPT ![Current(p)] = @ + 1]
  /\ UNCHANGED <<serverVars, pageVars>>

Deliver(p) ==
  /\ wire[p] # <<>>
  /\ chain' = [chain EXCEPT ![p] = Append(@, Head(wire[p]))]
  /\ wire' = [wire EXCEPT ![p] = Tail(@)]
  /\ UNCHANGED <<serverVars, inbox, spoken, opened, first, closed, view>>

(* ingestPacket accepts a full packet, or the next delta to what is shown. *)
Applies(v, m) ==
  \/ m.full
  \/ /\ v # NoView
     /\ m.number > v.number
     /\ m.base = v.revision

Shown(m) == [revision |-> m.revision, number |-> m.number]

(* Packets are ingested one after the other, in the order of their arrival.*)
(* Bug: each as soon as its hash is computed.                              *)
AnyIngested(p) == DOMAIN chain[p]

NextIngested(p) == {i \in DOMAIN chain[p] : i = 1}

Without(s, i) == [j \in 1 .. Len(s) - 1 |-> s[IF j < i THEN j ELSE j + 1]]

Ingest(p) ==
  \E i \in NextIngested(p) :
    /\ Applies(view[p], chain[p][i])
    /\ view' = [view EXCEPT ![p] = Shown(chain[p][i])]
    /\ chain' = [chain EXCEPT ![p] = Without(@, i)]
    /\ UNCHANGED <<serverVars, inbox, spoken, opened, first, closed, wire>>

(* The connection of a page is closed, and what is on its way is lost.     *)
Close(pages) ==
  /\ closed' = closed \cup {Current(p) : p \in pages}
  /\ wire' = [p \in Pages |-> IF p \in pages THEN <<>> ELSE wire[p]]

(* A packet that does not apply closes the connection in use, unless it is *)
(* from before the page was blanked.                                       *)
Refuse(p) ==
  \E i \in NextIngested(p) :
    /\ ~Applies(view[p], chain[p][i])
    /\ chain' = [chain EXCEPT ![p] = Without(@, i)]
    /\ IF chain[p][i].connection >= first[p]
       THEN Close({p})
       ELSE UNCHANGED <<closed, wire>>
    /\ UNCHANGED <<serverVars, inbox, spoken, opened, first, view>>

(* Bound: the last connection of a page is not lost.                       *)
Spare(p) == opened[p] < MaxOpened

Cut(p) ==
  /\ opened[p] > 0 /\ Spare(p)
  /\ Current(p) \notin closed
  /\ Close({p})
  /\ UNCHANGED <<serverVars, inbox, spoken, opened, first, chain, view>>

(* The server's process ends and starts again: its games are those saved,  *)
(* its hub and its sessions are new, and every connection is lost.         *)
Restart ==
  /\ \A p \in Pages : Spare(p)
  /\ Close({p \in Pages : opened[p] > 0})
  /\ owed' = 0
  /\ told' = 0
  /\ cursor' = [c \in Connections |-> NoCursor]
  /\ stream' = [c \in Connections |->
                  IF stream[c] = "unused" THEN "unused" ELSE "ended"]
  /\ hub' = [c \in Connections |-> "none"]
  /\ version' = [c \in Connections |-> 0]
  /\ result' = [c \in Connections |-> 0]
  /\ inbox' = [c \in Connections |-> 0]
  /\ UNCHANGED <<revision, spoken>>
  /\ UNCHANGED <<opened, first, chain, view>>

-----------------------------------------------------------------------------
Init ==
  /\ revision = 0 /\ owed = 0 /\ told = 0 /\ spoken = 0
  /\ cursor = [c \in Connections |-> NoCursor]
  /\ stream = [c \in Connections |-> "unused"]
  /\ version = [c \in Connections |-> 0]
  /\ hub = [c \in Connections |-> "none"]
  /\ result = [c \in Connections |-> 0]
  /\ inbox = [c \in Connections |-> 0]
  /\ opened = [p \in Pages |-> 0]
  /\ first = [p \in Pages |-> 1]
  /\ closed = {}
  /\ wire = [p \in Pages |-> <<>>]
  /\ chain = [p \in Pages |-> <<>>]
  /\ view = [p \in Pages |-> NoView]

HubTask(c) == Ask(c) \/ Called(c)

Handler(c) == Serve(c) \/ Wake(c) \/ Receive(c) \/ Disconnect(c) \/ Leave(c)

Page(p) == Connect(p) \/ Deliver(p) \/ Ingest(p) \/ Refuse(p)

Next ==
  \/ Command \/ Notify \/ Restart
  \/ \E c \in Connections : HubTask(c) \/ Timeout(c) \/ Handler(c)
  \/ \E p \in Pages : Page(p) \/ Retry(p) \/ Speak(p) \/ Cut(p)

Spec == Init /\ [][Next]_vars

(* The event loop runs the tasks that are ready, and an open page reads    *)
(* what it receives and connects again.  Nothing makes the game change, a  *)
(* page speak or a connection last, and no timeout is needed.              *)
FairSpec ==
  /\ Spec
  /\ WF_vars(Notify)
  /\ \A c \in Connections : WF_vars(HubTask(c)) /\ WF_vars(Handler(c))
  /\ \A p \in Pages : WF_vars(Page(p))

-----------------------------------------------------------------------------
TypeOK ==
  /\ revision \in 0 .. MaxRevision
  /\ owed \in Nat /\ told \in Nat /\ owed + told <= revision
  /\ spoken \in 0 .. MaxSpoken
  /\ cursor \in [Connections -> Cursors \cup {NoCursor}]
  /\ stream \in [Connections ->
       {"unused", "opening", "observing", "waiting", "leaving", "ended"}]
  /\ version \in [Connections -> Nat] /\ result \in [Connections -> Nat]
  /\ hub \in [Connections -> {"none", "asking", "asleep", "called", "done"}]
  /\ inbox \in [Connections -> Nat]
  /\ opened \in [Pages -> 0 .. MaxOpened] /\ first \in [Pages -> Nat]
  /\ closed \subseteq Connections
  /\ wire \in [Pages -> Seq(Packets)] /\ chain \in [Pages -> Seq(Packets)]
  /\ view \in [Pages -> Cursors \cup {NoView}]

(* No wake-up is lost: when every change has been announced, a handler     *)
(* that sleeps on the hub's event has observed the latest one; nothing     *)
(* else would wake it but the next change or the timeout.                  *)
SleepersAreCurrent ==
  \A c \in Connections :
    hub[c] = "asleep" /\ owed = 0 =>
      /\ cursor[CursorKey(c)] # NoCursor
      /\ cursor[CursorKey(c)].revision = revision

(* A page never has reason to refuse what its present effect has received: *)
(* each packet is the full view or the difference to what the page shows   *)
(* when the packet's turn comes, whatever was lost with the connections    *)
(* before.  A refusal would close a healthy connection.                    *)
NothingIsRefused ==
  \A p \in Pages :
    chain[p] # <<>> /\ Head(chain[p]).connection >= first[p] =>
      Applies(view[p], Head(chain[p]))

(* What a page shows is a revision that the game has had, and only ever    *)
(* advances: connecting again never takes it back.                         *)
Views == INSTANCE GameViews WITH
  shown <- [p \in Pages |-> IF view[p] = NoView THEN -1 ELSE view[p].revision]

PagesFollowTheGame == Views!Spec

(* Every change of the game reaches every page, whatever connections are   *)
(* lost, and without the timeout: once the game rests, all pages show it.  *)
PagesCatchUp ==
  \A p \in Pages : <>[](view[p] # NoView /\ view[p].revision = revision)

=============================================================================
