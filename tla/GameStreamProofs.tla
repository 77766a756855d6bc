--------------------------- MODULE GameStreamProofs ---------------------------
(***************************************************************************)
(* Proofs about the streams of a game: no wake-up is lost, a page never    *)
(* has reason to refuse a packet, what pages show only advances, and every *)
(* step that is taken for a page brings it closer to the game.             *)
(***************************************************************************)
EXTENDS GameStream, SequenceTheorems, TLAPS

USE GameStreamAssumption

(* The handler that waits has seen the game as it is, or a change is still *)
(* to be announced, or the hub has gone beyond what it waits for.          *)
HubInv ==
  \A c \in Connections :
    /\ version[c] <= told /\ result[c] <= told
    /\ c[2] > opened[c[1]] => stream[c] = "unused"
    /\ hub[c] # "none" => stream[c] = "waiting"
    /\ hub[c] = "asleep" => told = version[c]
    /\ stream[c] = "waiting" =>
         /\ cursor[c] # NoCursor
         /\ cursor[c].revision = revision \/ owed > 0 \/ told > version[c]

(* A packet that applies once a has been ingested.                         *)
Follows(a, m) ==
  \/ m.full
  \/ /\ a.connection = m.connection
     /\ a.number < m.number
     /\ a.revision = m.base

Linked(s) == \A i \in 1 .. Len(s) - 1 : Follows(s[i], s[i + 1])

(* The connections of a page: one after the other.                         *)
Opened(p) ==
  /\ opened[p] = 0 => first[p] = 1 /\ chain[p] = <<>> /\ wire[p] = <<>>
  /\ opened[p] > 0 => first[p] <= opened[p]
  /\ Current(p) \in closed => wire[p] = <<>>
  /\ \A i \in 1 .. Len(wire[p]) : wire[p][i].connection = opened[p]
  /\ \A i \in 1 .. Len(chain[p]) : chain[p][i].connection <= opened[p]

(* What a page has received and what is on its way continue each other.    *)
Joined(p) ==
  /\ chain[p] # <<>> /\ wire[p] # <<>> =>
       Follows(chain[p][Len(chain[p])], wire[p][1])
  /\ chain[p] = <<>> /\ wire[p] # <<>> => Applies(view[p], wire[p][1])

(* The first packet of the chain applies, unless it is an old one.         *)
Ready(p) ==
  chain[p] # <<>> /\ chain[p][1].connection >= first[p] =>
    Applies(view[p], chain[p][1])

Last(p, m) ==
  /\ m.connection = opened[p]
  /\ m.revision = cursor[Current(p)].revision
  /\ m.number = cursor[Current(p)].number

(* The last packet of the connection in use is what its cursor remembers.  *)
Remembered(p) ==
  /\ wire[p] # <<>> => Last(p, wire[p][Len(wire[p])])
  /\ wire[p] = <<>> /\ chain[p] # <<>> => Last(p, chain[p][Len(chain[p])])
  /\ wire[p] = <<>> /\ chain[p] = <<>> => view[p] = cursor[Current(p)]

InUse(p) ==
  opened[p] > 0 /\ Current(p) \notin closed =>
    /\ stream[Current(p)] \in {"opening", "observing", "waiting"}
    /\ stream[Current(p)] = "opening" =>
         cursor[Current(p)] = NoCursor /\ wire[p] = <<>>
    /\ stream[Current(p)] # "opening" =>
         cursor[Current(p)] # NoCursor /\ Remembered(p)

PageOK(p) ==
  /\ Opened(p)
  /\ Linked(chain[p])
  /\ Linked(wire[p])
  /\ Joined(p)
  /\ Ready(p)
  /\ InUse(p)

PageInv == \A p \in Pages : PageOK(p)

ConnectionInv ==
  \A c \in Connections :
    /\ stream[c] = "unused" <=> c[2] > opened[c[1]]
    /\ stream[c] = "unused" => cursor[c] = NoCursor /\ c \notin closed
    /\ c[2] < opened[c[1]] => c \in closed

-----------------------------------------------------------------------------
(* Facts about the values of the variables.                                *)

LEMMA ConnectionFacts ==
  /\ \A p \in Pages, n \in 1 .. MaxOpened : <<p, n>> \in Connections
  /\ \A c \in Connections : c[1] \in Pages /\ c[2] \in 1 .. MaxOpened
                              /\ c = <<c[1], c[2]>>
BY DEF Connections

LEMMA PacketType ==
  ASSUME TypeOK, NEW c \in Connections, NEW full \in BOOLEAN
  PROVE  /\ Packet(c, full) \in Packets
         /\ Packet(c, full).connection = c[2]
         /\ Packet(c, full).revision = revision
         /\ Packet(c, full).number = Packet(c, FALSE).number
         /\ full \/ cursor[c] = NoCursor => Packet(c, full).full
         /\ cursor[c] # NoCursor =>
              /\ Packet(c, full).full \/ Packet(c, full).base = cursor[c].revision
              /\ Packet(c, full).number = cursor[c].number + 1
<1>1. cursor[c] \in Cursors \cup {NoCursor} /\ revision \in 0 .. MaxRevision
  BY DEF TypeOK
<1>2. c[2] \in 1 .. MaxOpened
  BY ConnectionFacts
<1> DEFINE whole == full \/ cursor[c] = NoCursor
           base == IF whole THEN 0 ELSE cursor[c].revision
           number == IF cursor[c] = NoCursor THEN 1 ELSE cursor[c].number + 1
<1>3. /\ Packet(c, full).full = whole
      /\ Packet(c, full).base = base
      /\ Packet(c, full).revision = revision
      /\ Packet(c, full).number = number
      /\ Packet(c, full).connection = c[2]
      /\ Packet(c, FALSE).number = number
  BY DEF Packet, CursorKey
<1>4. base \in 0 .. MaxRevision /\ number \in Nat
  BY <1>1 DEF Cursors
<1>5. Packet(c, full) = [full |-> whole, base |-> base, revision |-> revision,
                         number |-> number, connection |-> c[2]]
  BY DEF Packet, CursorKey
<1>6. whole \in BOOLEAN
  OBVIOUS
<1>7. Packet(c, full) \in Packets
  <2> HIDE DEF whole, base, number
  <2> QED
    BY <1>1, <1>2, <1>4, <1>5, <1>6 DEF Packets
<1>8. Packet(c, full).full <=> whole
  BY <1>3
<1>9. CASE whole
  BY <1>3, <1>7, <1>8, <1>9
<1>10. CASE ~whole
  BY <1>3, <1>7, <1>8, <1>10
<1> QED
  BY <1>9, <1>10

LEMMA WithoutFirst ==
  ASSUME NEW s \in Seq(Packets), s # <<>>
  PROVE  /\ Without(s, 1) \in Seq(Packets)
         /\ Len(Without(s, 1)) = Len(s) - 1
         /\ Without(s, 1) = <<>> <=> Len(s) = 1
         /\ \A j \in 1 .. Len(s) - 1 : Without(s, 1)[j] = s[j + 1]
<1> DEFINE w == [j \in 1 .. Len(s) - 1 |-> s[IF j < 1 THEN j ELSE j + 1]]
<1>1. Len(s) \in Nat \ {0}
  OBVIOUS
<1>2. \A j \in 1 .. Len(s) - 1 : w[j] = s[j + 1] /\ s[j + 1] \in Packets
  BY <1>1
<1>3. w \in [1 .. Len(s) - 1 -> Packets]
  BY <1>1, <1>2
<1>4. w \in Seq(Packets) /\ Len(w) = Len(s) - 1
  <2>1. w \in Seq(Packets)
    BY <1>1, <1>3, SeqDef
  <2>2. Len(w) \in Nat /\ DOMAIN w = 1 .. Len(w)
    BY <2>1, LenProperties
  <2> QED
    BY <1>1, <2>1, <2>2
<1>5. w = <<>> <=> Len(s) = 1
  <2>1. w = <<>> => Len(w) = 0
    BY EmptySeq
  <2>2. w # <<>> => Len(w) \in Nat \ {0}
    BY <1>4, EmptySeq
  <2> QED
    BY <1>1, <1>4, <2>1, <2>2
<1>6. Without(s, 1) = w
  BY DEF Without
<1> QED
  BY <1>2, <1>4, <1>5, <1>6

LEMMA FirstIngested ==
  ASSUME TypeOK, NEW p \in Pages, NEW i \in NextIngested(p)
  PROVE  i = 1 /\ chain[p] # <<>> /\ chain[p] \in Seq(Packets)
<1>1. chain[p] \in Seq(Packets)
  BY DEF TypeOK
<1> QED
  BY <1>1 DEF NextIngested

-----------------------------------------------------------------------------
(* Typing.                                                                 *)

LEMMA TypeInit == Init => TypeOK
BY DEF Init, TypeOK

LEMMA TypeServer ==
  ASSUME TypeOK, Command \/ Notify
  PROVE  TypeOK'
<1>1. revision \in 0 .. MaxRevision /\ owed \in Nat /\ told \in Nat
        /\ owed + told <= revision /\ MaxRevision \in Nat
  BY DEF TypeOK
<1>2. CASE Command
  <2>1. revision' \in 0 .. MaxRevision /\ owed' \in Nat /\ told' \in Nat
          /\ owed' + told' <= revision'
    BY <1>1, <1>2 DEF Command
  <2> QED
    BY <1>2, <2>1 DEF TypeOK, Command, pageVars
<1>3. CASE Notify
  <2>1. owed' \in Nat /\ told' \in Nat /\ owed' + told' <= revision'
    BY <1>1, <1>3 DEF Notify, Due
  <2>2. hub' \in [Connections -> {"none", "asking", "asleep", "called", "done"}]
    BY <1>3 DEF Notify, WakeWaiters, TypeOK
  <2> QED
    BY <1>3, <2>1, <2>2 DEF TypeOK, Notify, pageVars
<1> QED
  BY <1>2, <1>3

LEMMA TypeHub ==
  ASSUME TypeOK, NEW c \in Connections,
         Ask(c) \/ Called(c) \/ Timeout(c) \/ Wake(c) \/ Receive(c)
           \/ Disconnect(c) \/ Leave(c)
  PROVE  TypeOK'
<1>1. CASE Ask(c)
  BY <1>1 DEF TypeOK, Ask, pageVars
<1>2. CASE Called(c)
  BY <1>2 DEF TypeOK, Called, pageVars
<1>3. CASE Timeout(c)
  BY <1>3 DEF TypeOK, Timeout, pageVars
<1>4. CASE Wake(c)
  BY <1>4 DEF TypeOK, Wake, pageVars
<1>5. CASE Receive(c)
  BY <1>5 DEF TypeOK, Receive, DiscardResult, pageVars
<1>6. CASE Disconnect(c)
  BY <1>6 DEF TypeOK, Disconnect, pageVars
<1>7. CASE Leave(c)
  BY <1>7 DEF TypeOK, Leave, DropCursor, CursorKey, pageVars
<1> QED
  BY <1>1, <1>2, <1>3, <1>4, <1>5, <1>6, <1>7

LEMMA TypeServe ==
  ASSUME TypeOK, NEW c \in Connections, Serve(c)
  PROVE  TypeOK'
<1>1. c[1] \in Pages
  BY ConnectionFacts
<1>2. Packet(c, stream[c] = "opening") \in Packets
  BY PacketType
<1>3. cursor' \in [Connections -> Cursors \cup {NoCursor}]
  <2>1. Packet(c, FALSE).number \in Nat
    BY PacketType DEF Packets
  <2>2. [revision |-> revision, number |-> Packet(c, FALSE).number] \in Cursors
    BY <2>1 DEF Cursors, TypeOK
  <2> QED
    BY <2>2 DEF Serve, Advance, CursorKey, TypeOK
<1>4. wire' \in [Pages -> Seq(Packets)]
  <2>1. wire[c[1]] \in Seq(Packets)
    BY <1>1 DEF TypeOK
  <2>2. Append(wire[c[1]], Packet(c, stream[c] = "opening")) \in Seq(Packets)
    BY <1>2, <2>1
  <2> QED
    BY <1>1, <2>2 DEF Serve, TypeOK
<1> QED
  BY <1>3, <1>4 DEF TypeOK, Serve

LEMMA TypePage ==
  ASSUME TypeOK, PageInv, NEW p \in Pages,
         Connect(p) \/ Retry(p) \/ Speak(p) \/ Cut(p) \/ Deliver(p)
           \/ Ingest(p) \/ Refuse(p)
  PROVE  TypeOK'
<1>1. CASE Connect(p) \/ Retry(p)
  <2>1. <<p, opened[p] + 1>> \in Connections /\ opened[p] + 1 \in 1 .. MaxOpened
    <3>1. opened[p] \in 0 .. MaxOpened /\ opened[p] < MaxOpened
      BY <1>1 DEF Connect, Retry, Open, TypeOK
    <3>2. opened[p] + 1 \in 1 .. MaxOpened
      BY <3>1
    <3> QED
      BY <3>2, ConnectionFacts
  <2>2. Open(p) /\ first' \in [Pages -> Nat]
               /\ view' \in [Pages -> Cursors \cup {NoView}]
    <3>1. CASE Connect(p)
      BY <3>1 DEF Connect, TypeOK
    <3>2. CASE Retry(p)
      BY <2>1, <3>2 DEF Retry, TypeOK
    <3> QED
      BY <1>1, <3>1, <3>2
  <2> QED
    BY <2>1, <2>2 DEF TypeOK, Open
<1>2. CASE Speak(p)
  <2>1. Current(p) \in Connections
    BY <1>2, ConnectionFacts DEF Speak, Current, TypeOK
  <2> QED
    BY <1>2, <2>1 DEF TypeOK, Speak, serverVars, pageVars
<1>3. CASE Cut(p)
  <2>1. Current(p) \in Connections
    BY <1>3, ConnectionFacts DEF Cut, Spare, Current, TypeOK
  <2>2. wire' \in [Pages -> Seq(Packets)]
    BY <1>3 DEF TypeOK, Cut, Close
  <2> QED
    BY <1>3, <2>1, <2>2 DEF TypeOK, Cut, Close, serverVars
<1>4. CASE Deliver(p)
  <2>1. Head(wire[p]) \in Packets /\ Tail(wire[p]) \in Seq(Packets)
    BY <1>4, HeadTailProperties DEF Deliver, TypeOK
  <2> QED
    BY <1>4, <2>1 DEF TypeOK, Deliver, serverVars
<1>5. ASSUME NEW i \in NextIngested(p)
      PROVE  Without(chain[p], i) \in Seq(Packets) /\ chain[p][i] \in Packets
  BY FirstIngested, WithoutFirst DEF TypeOK
<1>6. CASE Ingest(p)
  <2>1. PICK i \in NextIngested(p) : Ingest(p)!(i)
    BY <1>6 DEF Ingest
  <2>2. Shown(chain[p][i]) \in Cursors
    BY <1>5 DEF Shown, Packets, Cursors
  <2> QED
    BY <1>5, <2>1, <2>2 DEF TypeOK, serverVars
<1>7. CASE Refuse(p)
  <2>1. PICK i \in NextIngested(p) : Refuse(p)!(i)
    BY <1>7 DEF Refuse
  <2>2. chain' \in [Pages -> Seq(Packets)]
    BY <1>5, <2>1 DEF TypeOK
  <2>3. CASE chain[p][i].connection >= first[p]
    <3>1. Current(p) \in Connections
      <4>1. chain[p] # <<>>
        BY FirstIngested
      <4>2. opened[p] \in 1 .. MaxOpened
        BY <4>1 DEF PageInv, PageOK, Opened, TypeOK
      <4> QED
        BY <4>2, ConnectionFacts DEF Current
    <3>2. wire' \in [Pages -> Seq(Packets)] /\ closed' \subseteq Connections
      <4>1. Close({p})
        BY <2>1, <2>3
      <4> QED
        BY <3>1, <4>1 DEF Close, TypeOK
    <3> QED
      BY <2>1, <2>2, <3>2 DEF TypeOK, serverVars
  <2>4. CASE ~(chain[p][i].connection >= first[p])
    BY <2>1, <2>2, <2>4 DEF TypeOK, serverVars
  <2> QED
    BY <2>3, <2>4
<1> QED
  BY <1>1, <1>2, <1>3, <1>4, <1>6, <1>7

-----------------------------------------------------------------------------
(* The hub.                                                                *)

LEMMA HubInit == Init => HubInv
<1>1. SUFFICES ASSUME Init PROVE HubInv
  OBVIOUS
<1>2. \A c \in Connections : c[1] \in Pages
  BY ConnectionFacts
<1> QED
  BY <1>1, <1>2 DEF Init, HubInv

LEMMA HubChange ==
  ASSUME TypeOK, HubInv, Command \/ Notify
  PROVE  HubInv'
<1>1. told \in Nat /\ owed \in Nat /\ revision \in Nat
  BY DEF TypeOK
<1>2. \A c \in Connections : version[c] \in Nat /\ result[c] \in Nat
  BY DEF TypeOK
<1>3. CASE Command
  BY <1>1, <1>2, <1>3 DEF Command, HubInv, pageVars
<1>4. CASE Notify
  <2> SUFFICES ASSUME NEW c \in Connections PROVE HubInv!(c)'
    BY DEF HubInv
  <2>1. hub'[c] = IF hub[c] = "asleep" THEN "called" ELSE hub[c]
    BY <1>4 DEF Notify, WakeWaiters
  <2> QED
    BY <1>1, <1>2, <1>4, <2>1 DEF Notify, HubInv, pageVars
<1> QED
  BY <1>3, <1>4

LEMMA HubHandler ==
  ASSUME TypeOK, HubInv, NEW d \in Connections,
         HubTask(d) \/ Timeout(d) \/ Handler(d)
  PROVE  HubInv'
<1> SUFFICES ASSUME NEW c \in Connections PROVE HubInv!(c)'
  BY DEF HubInv
<1>1. told \in Nat /\ owed \in Nat /\ revision \in Nat
  BY DEF TypeOK
<1>2. version[c] \in Nat /\ result[c] \in Nat /\ version[d] \in Nat
        /\ result[d] \in Nat
  BY DEF TypeOK
<1>3. HubInv!(c) /\ HubInv!(d)
  BY DEF HubInv
<1> DEFINE typed == /\ cursor \in [Connections -> Cursors \cup {NoCursor}]
                    /\ stream \in [Connections -> {"unused", "opening",
                         "observing", "waiting", "leaving", "ended"}]
                    /\ hub \in [Connections -> {"none", "asking", "asleep",
                         "called", "done"}]
                    /\ version \in [Connections -> Nat]
                    /\ result \in [Connections -> Nat]
<1>4. typed
  BY DEF TypeOK
<1>5. CASE Ask(d)
  BY <1>1, <1>2, <1>3, <1>4, <1>5 DEF Ask, pageVars
<1>6. CASE Called(d)
  BY <1>1, <1>2, <1>3, <1>4, <1>6 DEF Called, pageVars
<1>7. CASE Timeout(d)
  BY <1>1, <1>2, <1>3, <1>4, <1>7 DEF Timeout, pageVars
<1>8. CASE Serve(d)
  <2>1. cursor' = [cursor EXCEPT ![d] =
                    [revision |-> revision, number |-> Packet(d, FALSE).number]]
    BY <1>8 DEF Serve, Advance, CursorKey
  <2>2. [revision |-> revision, number |-> Packet(d, FALSE).number] # NoCursor
    <3>1. Packet(d, FALSE).number \in Nat
      BY PacketType DEF Packets
    <3>2. [revision |-> revision, number |-> Packet(d, FALSE).number] \in Cursors
      BY <3>1 DEF Cursors, TypeOK
    <3> QED
      BY <3>2
  <2>3. cursor'[d] # NoCursor /\ cursor'[d].revision = revision
    BY <1>4, <2>1, <2>2
  <2>4. c # d => cursor'[c] = cursor[c]
    BY <1>4, <2>1
  <2> QED
    BY <1>1, <1>2, <1>3, <1>4, <1>8, <2>3, <2>4 DEF Serve
<1>9. CASE Wake(d)
  BY <1>1, <1>2, <1>3, <1>4, <1>9 DEF Wake, pageVars
<1>10. CASE Receive(d)
  BY <1>1, <1>2, <1>3, <1>4, <1>10 DEF Receive, DiscardResult, pageVars
<1>11. CASE Disconnect(d)
  BY <1>1, <1>2, <1>3, <1>4, <1>11 DEF Disconnect, pageVars
<1>12. CASE Leave(d)
  BY <1>1, <1>2, <1>3, <1>4, <1>12 DEF Leave, DropCursor, CursorKey, pageVars
<1> QED
  BY <1>5, <1>6, <1>7, <1>8, <1>9, <1>10, <1>11, <1>12 DEF HubTask, Handler

LEMMA HubPage ==
  ASSUME TypeOK, HubInv, NEW p \in Pages,
         Page(p) \/ Retry(p) \/ Speak(p) \/ Cut(p)
  PROVE  HubInv'
<1>1. opened \in [Pages -> Nat] /\ \A c \in Connections :
        c[1] \in Pages /\ c[2] \in Nat
  BY ConnectionFacts DEF TypeOK
<1>2. CASE Connect(p) \/ Retry(p)
  <2> DEFINE d == <<p, opened[p] + 1>>
  <2>1. Open(p)
    BY <1>2 DEF Connect, Retry
  <2>2. d \in Connections /\ d[1] = p /\ d[2] = opened[p] + 1
    <3>1. opened[p] + 1 \in 1 .. MaxOpened
      BY <1>1, <2>1 DEF Open
    <3> QED
      BY <3>1, ConnectionFacts
  <2>3. stream[d] = "unused" /\ hub[d] = "none"
    <3>1. d[2] > opened[d[1]]
      BY <1>1, <2>2
    <3> HIDE DEF d
    <3> QED
      BY <2>2, <3>1 DEF HubInv
  <2> SUFFICES ASSUME NEW c \in Connections PROVE HubInv!(c)'
    BY DEF HubInv
  <2>4. HubInv!(c) /\ told \in Nat
    BY DEF HubInv, TypeOK
  <2>5. /\ opened' = [opened EXCEPT ![p] = @ + 1]
        /\ stream' = [stream EXCEPT ![d] = "opening"]
        /\ version' = [version EXCEPT ![d] = told]
        /\ UNCHANGED <<revision, owed, told, cursor, hub, result>>
    BY <2>1 DEF Open
  <2>6. c[2] > opened'[c[1]] => c[2] > opened[c[1]] /\ c # d
    BY <1>1, <2>2, <2>5
  <2>7. CASE c = d
    <3> HIDE DEF d
    <3>1. stream'[c] = "opening" /\ version'[c] = told
      BY <2>5, <2>7 DEF TypeOK
    <3> QED
      BY <2>3, <2>4, <2>5, <2>6, <2>7, <3>1
  <2>8. CASE c # d
    <3> HIDE DEF d
    <3>1. stream'[c] = stream[c] /\ version'[c] = version[c]
      BY <2>5, <2>8 DEF TypeOK
    <3> QED
      BY <2>4, <2>5, <2>6, <3>1
  <2> QED
    BY <2>7, <2>8
<1>3. CASE UNCHANGED <<serverVars, opened>>
  BY <1>3 DEF HubInv, serverVars
<1>4. Speak(p) \/ Cut(p) \/ Deliver(p) \/ Ingest(p) \/ Refuse(p)
        => UNCHANGED <<serverVars, opened>>
  BY DEF Speak, Cut, Deliver, Ingest, Refuse, pageVars
<1> QED
  BY <1>2, <1>3, <1>4 DEF Page

LEMMA HubRestart ==
  ASSUME TypeOK, HubInv, Restart
  PROVE  HubInv'
<1> SUFFICES ASSUME NEW c \in Connections PROVE HubInv!(c)'
  BY DEF HubInv
<1>1. /\ told' = 0 /\ version'[c] = 0 /\ result'[c] = 0 /\ hub'[c] = "none"
      /\ stream'[c] = IF stream[c] = "unused" THEN "unused" ELSE "ended"
      /\ opened' = opened
  BY DEF Restart
<1> QED
  BY <1>1 DEF HubInv

-----------------------------------------------------------------------------
(* The connections.                                                        *)

LEMMA CurrentFacts ==
  ASSUME TypeOK, NEW p \in Pages
  PROVE  /\ opened[p] \in 0 .. MaxOpened
         /\ opened[p] > 0 => Current(p) \in Connections
         /\ Current(p)[1] = p /\ Current(p)[2] = opened[p]
<1>1. opened[p] \in 0 .. MaxOpened
  BY DEF TypeOK
<1>2. opened[p] > 0 => opened[p] \in 1 .. MaxOpened
  BY <1>1
<1> QED
  BY <1>1, <1>2, ConnectionFacts DEF Current

LEMMA OpenFacts ==
  ASSUME TypeOK, ConnectionInv, NEW p \in Pages, Open(p)
  PROVE  /\ Current(p)' = <<p, opened[p] + 1>>
         /\ Current(p)' \in Connections
         /\ opened'[p] = opened[p] + 1
         /\ stream'[Current(p)'] = "opening"
         /\ cursor'[Current(p)'] = NoCursor
         /\ Current(p)' \notin closed'
<1> DEFINE d == <<p, opened[p] + 1>>
<1>1. opened[p] \in 0 .. MaxOpened /\ opened[p] < MaxOpened
  BY DEF TypeOK, Open
<1>2. opened[p] + 1 \in 1 .. MaxOpened
  BY <1>1
<1>3. d \in Connections /\ d[1] = p /\ d[2] = opened[p] + 1
  BY <1>2, ConnectionFacts
<1>4. opened'[p] = opened[p] + 1
  BY <1>1 DEF Open, TypeOK
<1>5. Current(p)' = d
  BY <1>4 DEF Current
<1>6. d[2] > opened[d[1]]
  BY <1>1, <1>3
<1>7. cursor[d] = NoCursor /\ d \notin closed
  <2> HIDE DEF d
  <2> QED
    BY <1>3, <1>6 DEF ConnectionInv
<1>8. stream'[d] = "opening"
  BY <1>3 DEF Open, TypeOK
<1>9. cursor' = cursor /\ closed' = closed
  BY DEF Open
<1> QED
  BY <1>3, <1>4, <1>5, <1>7, <1>8, <1>9

LEMMA ConnectionKept ==
  ASSUME TypeOK, ConnectionInv, UNCHANGED <<opened, closed>>,
         NEW d \in Connections, stream[d] # "unused", stream'[d] # "unused",
         \A c \in Connections \ {d} : stream'[c] = stream[c] /\ cursor'[c] = cursor[c]
  PROVE  ConnectionInv'
BY DEF ConnectionInv

LEMMA ConnectionHandler ==
  ASSUME TypeOK, HubInv, ConnectionInv, NEW d \in Connections,
         HubTask(d) \/ Timeout(d) \/ Handler(d)
  PROVE  ConnectionInv'
<1>1. ASSUME HubTask(d) \/ Timeout(d) \/ Receive(d)
      PROVE  UNCHANGED <<opened, closed, stream, cursor>>
  BY <1>1 DEF HubTask, Ask, Called, Timeout, Receive, pageVars
<1>2. ASSUME Serve(d) \/ Wake(d) \/ Disconnect(d) \/ Leave(d)
      PROVE  /\ UNCHANGED <<opened, closed>>
             /\ stream[d] # "unused" /\ stream'[d] # "unused"
             /\ \A c \in Connections \ {d} :
                  stream'[c] = stream[c] /\ cursor'[c] = cursor[c]
  BY <1>2 DEF Serve, Advance, CursorKey, Wake, Disconnect, Leave, DropCursor,
              TypeOK, pageVars
<1>3. CASE HubTask(d) \/ Timeout(d) \/ Receive(d)
  BY <1>1, <1>3 DEF ConnectionInv
<1>4. CASE Serve(d) \/ Wake(d) \/ Disconnect(d) \/ Leave(d)
  BY <1>2, <1>4, ConnectionKept
<1> QED
  BY <1>3, <1>4 DEF Handler

LEMMA ConnectionOpen ==
  ASSUME TypeOK, ConnectionInv, NEW p \in Pages, Open(p),
         opened[p] = 0 \/ Current(p) \in closed
  PROVE  ConnectionInv'
<1> DEFINE d == <<p, opened[p] + 1>>
<1>1. d \in Connections /\ d[1] = p /\ d[2] = opened[p] + 1
  BY OpenFacts
<1>2. opened[p] \in Nat /\ opened' = [opened EXCEPT ![p] = @ + 1]
        /\ opened \in [Pages -> Nat]
  BY DEF TypeOK, Open
<1>3. UNCHANGED <<cursor, closed>> /\ stream' = [stream EXCEPT ![d] = "opening"]
  BY DEF Open
<1> SUFFICES ASSUME NEW c \in Connections PROVE ConnectionInv!(c)'
  BY DEF ConnectionInv
<1>4. ConnectionInv!(c) /\ c[1] \in Pages /\ c[2] \in Nat /\ c = <<c[1], c[2]>>
  BY ConnectionFacts DEF ConnectionInv
<1>5. CASE c[1] # p
  <2>1. opened'[c[1]] = opened[c[1]] /\ c # d
    BY <1>1, <1>2, <1>4, <1>5
  <2>2. stream'[c] = stream[c]
    BY <1>3, <2>1 DEF TypeOK
  <2> QED
    BY <1>3, <1>4, <2>1, <2>2
<1>6. CASE c[1] = p
  <2>1. opened'[c[1]] = opened[p] + 1
    BY <1>2, <1>6
  <2>2. CASE c[2] = opened[p] + 1
    <3>1. c = d
      BY <1>4, <1>6, <2>2
    <3>2. stream'[c] = "opening"
      BY <1>3, <3>1 DEF TypeOK
    <3> QED
      BY <1>2, <2>1, <2>2, <3>2
  <2>3. CASE c[2] # opened[p] + 1
    <3>1. c # d
      BY <1>1, <2>3
    <3>2. stream'[c] = stream[c]
      BY <1>3, <3>1 DEF TypeOK
    <3>3. c[2] > opened[p] + 1 <=> c[2] > opened[p]
      BY <1>2, <1>4, <2>3
    <3>4. c[2] = opened[p] => c = Current(p) /\ opened[p] > 0
      BY <1>4, <1>6, ConnectionFacts DEF Current
    <3> QED
      BY <1>2, <1>3, <1>4, <1>6, <2>1, <3>2, <3>3, <3>4
  <2> QED
    BY <2>2, <2>3
<1> QED
  BY <1>5, <1>6

LEMMA ConnectionClose ==
  ASSUME TypeOK, ConnectionInv, NEW pages \in SUBSET Pages, Close(pages),
         \A p \in pages : opened[p] > 0, UNCHANGED opened,
         \A c \in Connections :
           /\ stream[c] = "unused" <=> stream'[c] = "unused"
           /\ cursor'[c] \in {cursor[c], NoCursor}
  PROVE  ConnectionInv'
<1> SUFFICES ASSUME NEW c \in Connections PROVE ConnectionInv!(c)'
  BY DEF ConnectionInv
<1>1. ConnectionInv!(c)
  BY DEF ConnectionInv
<1>2. c \in closed' => c \in closed \/ ~(c[2] > opened[c[1]])
  BY CurrentFacts DEF Close
<1>3. closed \subseteq closed'
  BY DEF Close
<1> QED
  BY <1>1, <1>2, <1>3

-----------------------------------------------------------------------------
(* The pages.                                                              *)

LEMMA PageInit == Init => PageInv /\ ConnectionInv
<1>1. SUFFICES ASSUME Init PROVE PageInv /\ ConnectionInv
  OBVIOUS
<1>2. PageInv
  <2> SUFFICES ASSUME NEW p \in Pages PROVE PageOK(p)
    BY DEF PageInv
  <2>1. wire[p] = <<>> /\ chain[p] = <<>> /\ opened[p] = 0 /\ first[p] = 1
    BY <1>1 DEF Init
  <2>2. Len(wire[p]) = 0 /\ Len(chain[p]) = 0
    BY <2>1
  <2> QED
    BY <2>1, <2>2 DEF PageOK, Opened, Linked, Joined, Ready, InUse
<1>3. ConnectionInv
  BY <1>1, ConnectionFacts DEF Init, ConnectionInv
<1> QED
  BY <1>2, <1>3

(* What the page has is not touched.                                       *)
LEMMA PageKept ==
  ASSUME NEW p \in Pages, PageOK(p), UNCHANGED pageVars, InUse(p)'
  PROVE  PageOK(p)'
BY DEF PageOK, Opened, Joined, Ready, Current, pageVars

LEMMA InUseKept ==
  ASSUME NEW p \in Pages, InUse(p), UNCHANGED pageVars,
         \/ Current(p) \in closed
         \/ /\ UNCHANGED <<stream[Current(p)], cursor[Current(p)]>>
         \/ /\ stream[Current(p)] = "waiting" /\ stream'[Current(p)] = "observing"
            /\ UNCHANGED <<cursor[Current(p)]>>
  PROVE  InUse(p)'
<1>1. Current(p)' = Current(p) /\ closed' = closed /\ opened' = opened
        /\ wire' = wire /\ chain' = chain /\ view' = view
  BY DEF Current, pageVars
<1> QED
  BY <1>1 DEF InUse, Remembered, Last

LEMMA PageHandler ==
  ASSUME TypeOK, ConnectionInv, PageInv, NEW d \in Connections,
         \/ HubTask(d) \/ Timeout(d) \/ Wake(d) \/ Receive(d)
         \/ Disconnect(d) \/ Leave(d)
  PROVE  PageInv'
<1> SUFFICES ASSUME NEW p \in Pages PROVE PageOK(p)'
  BY DEF PageInv
<1>1. PageOK(p) /\ InUse(p)
  BY DEF PageInv, PageOK
<1>2. UNCHANGED pageVars
  BY DEF HubTask, Ask, Called, Timeout, Wake, Receive, Disconnect, Leave
<1>3. Current(p)' = Current(p)
  BY <1>2 DEF Current, pageVars
<1>4. CASE HubTask(d) \/ Timeout(d) \/ Receive(d)
  <2>1. UNCHANGED <<stream, cursor>>
    BY <1>4 DEF HubTask, Ask, Called, Timeout, Receive
  <2>2. UNCHANGED <<stream[Current(p)], cursor[Current(p)]>>
    BY <1>3, <2>1
  <2> QED
    BY <1>1, <1>2, <2>2, InUseKept, PageKept
<1>5. CASE opened[p] = 0
  <2>1. InUse(p)'
    BY <1>2, <1>5 DEF InUse, pageVars
  <2> QED
    BY <1>1, <1>2, <2>1, PageKept
<1>6. CASE opened[p] # 0 /\ (Wake(d) \/ Disconnect(d) \/ Leave(d))
  <2>1. Current(p) \in Connections /\ opened[p] > 0
    BY <1>6, CurrentFacts
  <2>2. CASE Current(p) \in closed
    BY <1>1, <1>2, <2>2, InUseKept, PageKept
  <2>3. CASE Current(p) \notin closed /\ Current(p) # d
    <3>1. UNCHANGED <<stream[Current(p)], cursor[Current(p)]>>
      BY <1>6, <1>3, <2>1, <2>3
        DEF Wake, Disconnect, Leave, DropCursor, CursorKey, TypeOK
    <3> QED
      BY <1>1, <1>2, <3>1, InUseKept, PageKept
  <2>4. CASE Current(p) \notin closed /\ Current(p) = d
    <3>1. Wake(d)
      BY <1>1, <1>6, <2>1, <2>4 DEF InUse, Disconnect, Leave
    <3>2. stream[Current(p)] = "waiting" /\ stream'[Current(p)] = "observing"
            /\ UNCHANGED <<cursor[Current(p)]>>
      BY <1>3, <2>4, <3>1 DEF Wake, TypeOK
    <3> QED
      BY <1>1, <1>2, <3>2, InUseKept, PageKept
  <2> QED
    BY <2>2, <2>3, <2>4
<1> QED
  BY <1>4, <1>5, <1>6

LEMMA PageAnnounce ==
  ASSUME PageInv, Command \/ Notify \/ \E p \in Pages : Speak(p)
  PROVE  PageInv'
<1> SUFFICES ASSUME NEW p \in Pages PROVE PageOK(p)'
  BY DEF PageInv
<1>1. PageOK(p) /\ InUse(p)
  BY DEF PageInv, PageOK
<1>2. UNCHANGED <<pageVars, stream, cursor>>
  BY DEF Command, Notify, Speak, serverVars
<1>3. UNCHANGED <<stream[Current(p)], cursor[Current(p)]>>
  BY <1>2 DEF Current, pageVars
<1> QED
  BY <1>1, <1>2, <1>3, InUseKept, PageKept

LEMMA PageOpen ==
  ASSUME TypeOK, ConnectionInv, PageInv, NEW q \in Pages, Connect(q) \/ Retry(q)
  PROVE  PageInv'
<1> SUFFICES ASSUME NEW p \in Pages PROVE PageOK(p)'
  BY DEF PageInv
<1>1. PageOK(p) /\ InUse(p)
  BY DEF PageInv, PageOK
<1>2. Open(q) /\ UNCHANGED <<closed, wire, chain, cursor>>
  BY DEF Connect, Retry, Open
<1>3. opened[q] \in Nat /\ first[p] \in Nat
  BY DEF TypeOK
<1>4. CASE p # q
  <2>1. UNCHANGED <<opened[p], first[p], view[p]>>
    BY <1>2, <1>4 DEF Connect, Retry, Open, TypeOK
  <2>2. Current(p)' = Current(p)
    BY <2>1 DEF Current
  <2>3. opened[p] > 0 => UNCHANGED <<stream[Current(p)]>>
    <3>1. Current(p) # <<q, opened[q] + 1>>
      BY <1>4, CurrentFacts
    <3>2. stream' = [stream EXCEPT ![<<q, opened[q] + 1>>] = "opening"]
      BY <1>2 DEF Open
    <3> QED
      BY <2>2, <3>1, <3>2, CurrentFacts DEF TypeOK
  <2> QED
    BY <1>1, <1>2, <2>1, <2>2, <2>3
      DEF PageOK, Opened, Joined, Ready, InUse, Remembered, Last
<1>5. CASE p = q
  <2>1. /\ opened'[p] = opened[p] + 1
        /\ stream'[Current(p)'] = "opening"
        /\ cursor'[Current(p)'] = NoCursor
        /\ Current(p)' \notin closed'
    BY <1>2, <1>5, OpenFacts
  <2>2. wire[p] = <<>>
    BY <1>1, <1>5 DEF PageOK, Opened, Connect, Retry
  <2>3. InUse(p)'
    BY <1>2, <2>1, <2>2 DEF InUse
  <2>4. Len(wire[p]) = 0
    BY <2>2
  <2>5. \A i \in 1 .. Len(chain[p]) :
          chain[p][i].connection <= opened[p] /\ chain[p][i].connection \in Nat
    <3>1. chain[p] \in Seq(Packets)
      BY DEF TypeOK
    <3>2. \A i \in 1 .. Len(chain[p]) : chain[p][i] \in Packets
      BY <3>1, ElementOfSeq
    <3> QED
      BY <1>1, <3>2 DEF PageOK, Opened, Packets
  <2>6. \A i \in 1 .. Len(chain[p]) : chain[p][i].connection <= opened[p] + 1
    BY <1>3, <1>5, <2>5
  <2>7. CASE Connect(q)
    <3>1. UNCHANGED <<first, view>>
      BY <2>7 DEF Connect
    <3>2. first[p] <= opened[p] + 1
      BY <1>1, <1>3, <1>5 DEF PageOK, Opened
    <3> QED
      BY <1>1, <1>2, <1>3, <1>5, <2>1, <2>2, <2>3, <2>4, <2>6, <3>1, <3>2
        DEF PageOK, Opened, Joined, Ready
  <2>8. CASE Retry(q)
    <3>1. first'[p] = opened[p] + 1
      BY <1>5, <2>8 DEF Retry, TypeOK
    <3>2. Opened(p)'
      BY <1>2, <1>3, <1>5, <2>1, <2>2, <2>4, <2>6, <3>1 DEF Opened
    <3>3. Ready(p)'
      <4>1. chain[p] # <<>> => Len(chain[p]) \in Nat \ {0}
        BY EmptySeq DEF TypeOK
      <4> QED
        BY <1>2, <1>3, <1>5, <2>5, <3>1, <4>1 DEF Ready
    <3> QED
      BY <1>1, <1>2, <2>2, <2>3, <3>2, <3>3 DEF PageOK, Joined
  <2> QED
    BY <2>7, <2>8
<1> QED
  BY <1>4, <1>5

LEMMA PageClose ==
  ASSUME TypeOK, PageInv, NEW pages \in SUBSET Pages, Close(pages),
         UNCHANGED <<opened, first, chain, view>>,
         \A p \in Pages \ pages :
           \/ opened[p] = 0
           \/ UNCHANGED <<stream[Current(p)], cursor[Current(p)]>>
  PROVE  PageInv'
<1> SUFFICES ASSUME NEW p \in Pages PROVE PageOK(p)'
  BY DEF PageInv
<1>1. PageOK(p) /\ Current(p)' = Current(p)
  BY DEF PageInv, Current
<1>2. CASE p \in pages
  <2>1. Current(p) \in closed' /\ wire'[p] = <<>> /\ Len(wire'[p]) = 0
    BY <1>2 DEF Close
  <2>2. \A i \in 1 .. Len(wire'[p]) : FALSE
    BY <2>1
  <2> QED
    BY <1>1, <2>1, <2>2
      DEF PageOK, Opened, Linked, Joined, Ready, InUse
<1>3. CASE p \notin pages
  <2>1. wire'[p] = wire[p]
    BY <1>3 DEF Close
  <2>2. Current(p) \in closed' <=> Current(p) \in closed
    BY <1>3, CurrentFacts DEF Close
  <2> QED
    BY <1>1, <1>3, <2>1, <2>2
      DEF PageOK, Opened, Joined, Ready, InUse, Remembered, Last
<1> QED
  BY <1>2, <1>3

LEMMA Appended ==
  ASSUME NEW s \in Seq(Packets), NEW m \in Packets, Linked(s),
         s # <<>> => Follows(s[Len(s)], m)
  PROVE  /\ Append(s, m) \in Seq(Packets) /\ Append(s, m) # <<>>
         /\ Len(Append(s, m)) = Len(s) + 1
         /\ Append(s, m)[Len(s) + 1] = m
         /\ s # <<>> => Append(s, m)[1] = s[1] /\ Len(s) \in Nat \ {0}
         /\ \A i \in 1 .. Len(s) + 1 : Append(s, m)[i] = IF i = Len(s) + 1 THEN m ELSE s[i]
         /\ Linked(Append(s, m))
<1>1. Len(s) \in Nat /\ (s # <<>> => Len(s) \in Nat \ {0})
  BY EmptySeq
<1>2. /\ Append(s, m) \in Seq(Packets) /\ Append(s, m) # <<>>
      /\ Len(Append(s, m)) = Len(s) + 1
      /\ \A i \in 1 .. Len(s) : Append(s, m)[i] = s[i]
      /\ Append(s, m)[Len(s) + 1] = m
  BY AppendProperties
<1>3. Linked(Append(s, m))
  <2> SUFFICES ASSUME NEW i \in 1 .. Len(s)
               PROVE  Follows(Append(s, m)[i], Append(s, m)[i + 1])
    BY <1>2 DEF Linked
  <2>1. CASE i = Len(s)
    <3>1. s # <<>>
      BY <1>1, <2>1, EmptySeq
    <3> QED
      BY <1>2, <2>1, <3>1
  <2>2. CASE i # Len(s)
    <3>1. i \in 1 .. Len(s) - 1 /\ i + 1 \in 1 .. Len(s)
      BY <1>1, <2>2
    <3> QED
      BY <1>2, <3>1 DEF Linked
  <2> QED
    BY <2>1, <2>2
<1> QED
  BY <1>1, <1>2, <1>3

LEMMA PageServe ==
  ASSUME TypeOK, HubInv, ConnectionInv, PageInv, NEW d \in Connections, Serve(d)
  PROVE  PageInv'
<1> SUFFICES ASSUME NEW p \in Pages PROVE PageOK(p)'
  BY DEF PageInv
<1>1. PageOK(p)
  BY DEF PageInv
<1>2. UNCHANGED <<opened, first, closed, chain, view>> /\ Current(p)' = Current(p)
  BY DEF Serve, Current
<1>3. d[1] \in Pages /\ d[2] \in 1 .. MaxOpened /\ d = <<d[1], d[2]>>
  BY ConnectionFacts
<1>4. stream[d] \in {"opening", "observing"}
  BY DEF Serve
<1>5. CASE opened[p] = 0 \/ Current(p) \in closed \/ Current(p) # d
  <2>1. wire'[p] = wire[p]
    <3>1. CASE d \in closed
      BY <3>1 DEF Serve
    <3>2. CASE d \notin closed
      <4>1. ~(d[2] > opened[d[1]]) /\ ~(d[2] < opened[d[1]])
        BY <1>4, <3>2 DEF ConnectionInv
      <4>2. d[1] # p
        BY <1>3, <1>5, <3>2, <4>1, CurrentFacts DEF Current
      <4> QED
        BY <4>2 DEF Serve, TypeOK
    <3> QED
      BY <3>1, <3>2
  <2>2. CASE opened[p] = 0 \/ Current(p) \in closed
    BY <1>1, <1>2, <2>1, <2>2, CurrentFacts
      DEF PageOK, Opened, Joined, Ready, InUse
  <2>3. CASE opened[p] # 0 /\ Current(p) # d
    <3>1. Current(p) \in Connections
      BY <2>3, CurrentFacts
    <3>2. UNCHANGED <<stream[Current(p)], cursor[Current(p)]>>
      BY <1>2, <2>3, <3>1 DEF Serve, Advance, CursorKey, TypeOK
    <3> QED
      BY <1>1, <1>2, <2>1, <3>2
        DEF PageOK, Opened, Joined, Ready, InUse, Remembered, Last
  <2> QED
    BY <1>5, <2>2, <2>3
<1>6. CASE opened[p] # 0 /\ Current(p) \notin closed /\ Current(p) = d
  <2> DEFINE m == Packet(d, stream[d] = "opening")
  <2>1. d[1] = p /\ d[2] = opened[p] /\ d \notin closed /\ opened[p] > 0
    BY <1>6, CurrentFacts
  <2>2. wire[p] \in Seq(Packets) /\ chain[p] \in Seq(Packets)
    BY DEF TypeOK
  <2>3. wire'[p] = Append(wire[p], m)
    BY <2>1 DEF Serve, TypeOK
  <2>4. cursor'[d] = [revision |-> m.revision, number |-> m.number]
    <3>1. m.revision = revision /\ m.number = Packet(d, FALSE).number
      BY PacketType
    <3> QED
      BY <3>1 DEF Serve, Advance, CursorKey, TypeOK
  <2>5. /\ m \in Packets /\ m.connection = opened[p]
        /\ stream[d] = "opening" => m.full
        /\ cursor[d] # NoCursor =>
             /\ m.full \/ m.base = cursor[d].revision
             /\ m.number = cursor[d].number + 1
    BY <2>1, PacketType
  <2>6. stream[d] = "opening" => wire[p] = <<>>
    BY <1>1, <1>6, <2>1 DEF PageOK, InUse
  <2>7. stream[d] # "opening" =>
          /\ cursor[d] # NoCursor /\ cursor[d].number \in Nat
          /\ Remembered(p)
    BY <1>1, <1>6, <2>1 DEF PageOK, InUse, TypeOK, Cursors
  <2> HIDE DEF m
  <2>8. ASSUME NEW a, Last(p, a), stream[d] # "opening"
        PROVE  Follows(a, m)
    BY <1>6, <2>5, <2>7, <2>8 DEF Last, Follows
  <2>9. wire[p] # <<>> => Follows(wire[p][Len(wire[p])], m)
    BY <2>6, <2>7, <2>8 DEF Remembered
  <2>10. chain[p] # <<>> /\ wire[p] = <<>> => Follows(chain[p][Len(chain[p])], m)
    BY <2>5, <2>7, <2>8 DEF Remembered, Follows
  <2>11. chain[p] = <<>> /\ wire[p] = <<>> => Applies(view[p], m)
    <3>1. CASE m.full
      BY <3>1 DEF Applies
    <3>2. CASE ~m.full /\ chain[p] = <<>> /\ wire[p] = <<>>
      <4>1. stream[d] # "opening"
        BY <2>5, <3>2
      <4>2. view[p] = cursor[d] /\ cursor[d] # NoCursor
        BY <1>6, <2>7, <3>2, <4>1 DEF Remembered
      <4>3. view[p] # NoView
        BY <4>2 DEF TypeOK
      <4> QED
        BY <2>5, <2>7, <3>2, <4>1, <4>2, <4>3 DEF Applies
    <3> QED
      BY <3>1, <3>2
  <2>12. Linked(wire[p]) /\ Opened(p) /\ Joined(p)
    BY <1>1 DEF PageOK
  <2> DEFINE w == Append(wire[p], m)
  <2>13. /\ w \in Seq(Packets) /\ w # <<>> /\ Len(w) = Len(wire[p]) + 1
         /\ w[Len(w)] = m /\ Linked(w)
         /\ wire[p] # <<>> => w[1] = wire[p][1]
         /\ wire[p] = <<>> => w[1] = m
         /\ \A i \in 1 .. Len(w) : w[i].connection = opened[p]
    <3>1. \A i \in 1 .. Len(wire[p]) : wire[p][i].connection = opened[p]
      BY <2>12 DEF Opened
    <3>2. wire[p] = <<>> => Len(wire[p]) = 0
      OBVIOUS
    <3> QED
      BY <2>2, <2>5, <2>9, <2>12, <3>1, <3>2, Appended
  <2>14. wire'[p] = w
    BY <2>3
  <2> HIDE DEF w
  <2>15. Opened(p)'
    BY <1>2, <1>6, <2>1, <2>12, <2>13, <2>14 DEF Opened
  <2>16. Joined(p)'
    BY <1>2, <2>10, <2>11, <2>12, <2>13, <2>14 DEF Joined
  <2>17. InUse(p)'
    <3>1. stream'[d] = "waiting"
      BY <2>1 DEF Serve, TypeOK
    <3>2. cursor'[d] # NoCursor
      <4>1. cursor'[d] \in Cursors
        BY <2>4, <2>5 DEF Cursors, Packets
      <4> QED
        BY <4>1
    <3>3. /\ m.connection = opened'[p]
          /\ m.revision = cursor'[d].revision
          /\ m.number = cursor'[d].number
      BY <1>2, <2>4, <2>5
    <3>4. Remembered(p)'
      BY <1>2, <1>6, <2>13, <2>14, <3>3 DEF Remembered, Last
    <3> QED
      BY <1>2, <1>6, <3>1, <3>2, <3>4 DEF InUse
  <2> QED
    BY <1>1, <1>2, <2>13, <2>14, <2>15, <2>16, <2>17 DEF PageOK, Ready
<1> QED
  BY <1>5, <1>6

LEMMA PageDeliver ==
  ASSUME TypeOK, PageInv, NEW q \in Pages, Deliver(q)
  PROVE  PageInv'
<1> SUFFICES ASSUME NEW p \in Pages PROVE PageOK(p)'
  BY DEF PageInv
<1>1. PageOK(p)
  BY DEF PageInv
<1>2. UNCHANGED <<opened, first, closed, view, stream, cursor>>
        /\ Current(p)' = Current(p)
  BY DEF Deliver, Current, serverVars
<1>3. CASE p # q
  <2>1. UNCHANGED <<wire[p], chain[p]>>
    BY <1>3 DEF Deliver, TypeOK
  <2> QED
    BY <1>1, <1>2, <2>1
      DEF PageOK, Opened, Joined, Ready, InUse, Remembered, Last
<1>4. CASE p = q
  <2> DEFINE s == chain[p]
             w == wire[p]
             m == w[1]
  <2>1. s \in Seq(Packets) /\ w \in Seq(Packets) /\ w # <<>>
    BY <1>4 DEF Deliver, TypeOK
  <2>2. Len(w) \in Nat \ {0} /\ m \in Packets /\ Head(w) = m
    <3>1. Len(w) \in Nat \ {0}
      BY <2>1, EmptySeq
    <3>2. 1 \in 1 .. Len(w)
      BY <3>1
    <3> QED
      BY <2>1, <3>1, <3>2, ElementOfSeq
  <2>3. /\ Tail(w) \in Seq(Packets) /\ Len(Tail(w)) = Len(w) - 1
        /\ \A i \in 1 .. Len(w) - 1 : Tail(w)[i] = w[i + 1]
    BY <2>1, HeadTailProperties
  <2>4. chain'[p] = Append(s, m) /\ wire'[p] = Tail(w)
    BY <1>4, <2>2 DEF Deliver, TypeOK
  <2>5. Tail(w) = <<>> <=> Len(w) = 1
    <3>1. Tail(w) = <<>> => Len(Tail(w)) = 0
      BY EmptySeq
    <3>2. Tail(w) # <<>> => Len(Tail(w)) \in Nat \ {0}
      BY <2>3, EmptySeq
    <3> QED
      BY <2>2, <2>3, <3>1, <3>2
  <2>6. s # <<>> => Follows(s[Len(s)], m)
    BY <1>1, <2>1 DEF PageOK, Joined
  <2> DEFINE t == Append(s, m)
  <2>7. /\ t # <<>> /\ Len(t) = Len(s) + 1 /\ t[Len(t)] = m /\ Linked(t)
        /\ s # <<>> => t[1] = s[1]
        /\ s = <<>> => t[1] = m
        /\ \A i \in 1 .. Len(t) : t[i] = m \/ (i \in 1 .. Len(s) /\ t[i] = s[i])
    <3>1. Linked(s)
      BY <1>1 DEF PageOK
    <3>2. s = <<>> => Len(s) = 0
      OBVIOUS
    <3>3. Len(s) \in Nat
      BY <2>1, LenProperties
    <3> HIDE DEF s, m
    <3> QED
      BY <2>1, <2>2, <2>6, <3>1, <3>2, <3>3, Appended
  <2>8. /\ \A i \in 1 .. Len(w) : w[i].connection = opened[p]
        /\ \A i \in 1 .. Len(s) : s[i].connection <= opened[p]
        /\ opened[p] = 0 => w = <<>>
        /\ opened[p] > 0 => first[p] <= opened[p]
        /\ Current(p) \in closed => w = <<>>
        /\ opened[p] \in Nat
    BY <1>1 DEF PageOK, Opened, TypeOK
  <2>9. Linked(w) /\ Joined(p) /\ Ready(p) /\ InUse(p)
    BY <1>1 DEF PageOK
  <2>10. m.connection = opened[p] /\ opened[p] > 0
    BY <2>1, <2>2, <2>8
  <2>11. Opened(p)'
    <3>1. \A i \in 1 .. Len(Tail(w)) : Tail(w)[i].connection = opened[p]
      BY <2>2, <2>3, <2>8
    <3>2. \A i \in 1 .. Len(t) : t[i].connection <= opened[p]
      <4> HIDE DEF t, s, m, w
      <4> QED
        BY <2>7, <2>8, <2>10
    <3> HIDE DEF t, s, m, w
    <3> QED
      BY <1>2, <2>1, <2>4, <2>8, <2>10, <3>1, <3>2 DEF Opened, t
  <2>12. Linked(Tail(w))
    <3> SUFFICES ASSUME NEW i \in 1 .. Len(Tail(w)) - 1
                 PROVE  Follows(Tail(w)[i], Tail(w)[i + 1])
      BY DEF Linked
    <3>1. /\ i + 1 \in 1 .. Len(w) - 1
          /\ Tail(w)[i] = w[i + 1] /\ Tail(w)[i + 1] = w[(i + 1) + 1]
      BY <2>2, <2>3
    <3> QED
      BY <2>9, <3>1 DEF Linked
  <2>13. Joined(p)'
    <3>1. Tail(w) # <<>> => Follows(m, Tail(w)[1])
      <4>1. Tail(w) # <<>> => 1 \in 1 .. Len(w) - 1
        BY <2>2, <2>5
      <4> QED
        BY <2>3, <2>9, <4>1 DEF Linked
    <3> HIDE DEF s, m, w
    <3> QED
      BY <2>4, <2>7, <3>1 DEF Joined
  <2>14. Ready(p)'
    <3>1. s = <<>> => Applies(view[p], m)
      BY <2>1, <2>9 DEF Joined
    <3>2. s # <<>> /\ s[1].connection >= first[p] => Applies(view[p], s[1])
      BY <2>9 DEF Ready
    <3> HIDE DEF s, m, w
    <3> QED
      BY <1>2, <2>4, <2>7, <3>1, <3>2 DEF Ready
  <2>15. InUse(p)'
    <3>1. CASE Current(p) \in closed
      BY <1>2, <3>1 DEF InUse
    <3>2. CASE Current(p) \notin closed
      <4>1. /\ stream[Current(p)] \in {"observing", "waiting"}
            /\ cursor[Current(p)] # NoCursor
            /\ Last(p, w[Len(w)])
        BY <2>1, <2>9, <2>10, <3>2 DEF InUse, Remembered
      <4>2. Tail(w) # <<>> => Tail(w)[Len(Tail(w))] = w[Len(w)]
        <5>1. Tail(w) # <<>> => Len(w) - 1 \in 1 .. Len(w) - 1
          BY <2>2, <2>5
        <5> QED
          BY <2>2, <2>3, <5>1
      <4>3. Tail(w) = <<>> => t[Len(t)] = w[Len(w)]
        BY <2>5, <2>7
      <4> HIDE DEF s, m, w, t
      <4>4. Remembered(p)'
        BY <1>2, <2>4, <2>7, <4>1, <4>2, <4>3 DEF Remembered, Last, t
      <4> QED
        BY <1>2, <4>1, <4>4 DEF InUse
    <3> QED
      BY <3>1, <3>2
  <2> HIDE DEF s, m, w
  <2> QED
    BY <2>4, <2>7, <2>11, <2>12, <2>13, <2>14, <2>15 DEF PageOK
<1> QED
  BY <1>3, <1>4

LEMMA PageIngest ==
  ASSUME TypeOK, PageInv, NEW q \in Pages, Ingest(q) \/ Refuse(q)
  PROVE  PageInv'
<1> SUFFICES ASSUME NEW p \in Pages PROVE PageOK(p)'
  BY DEF PageInv
<1>1. PageOK(p) /\ PageOK(q)
  BY DEF PageInv
<1>2. PICK i \in NextIngested(q) :
        /\ chain' = [chain EXCEPT ![q] = Without(@, i)]
        /\ UNCHANGED <<serverVars, opened, first>>
        /\ \/ /\ Applies(view[q], chain[q][i])
              /\ view' = [view EXCEPT ![q] = Shown(chain[q][i])]
              /\ UNCHANGED <<closed, wire>>
           \/ /\ ~Applies(view[q], chain[q][i])
              /\ UNCHANGED view
              /\ chain[q][i].connection < first[q] => UNCHANGED <<closed, wire>>
  <2>1. CASE Ingest(q)
    BY <2>1 DEF Ingest
  <2>2. CASE Refuse(q)
    <3>1. PICK i \in NextIngested(q) : Refuse(q)!(i)
      BY <2>2 DEF Refuse
    <3>2. i = 1 /\ chain[q] \in Seq(Packets) /\ chain[q] # <<>>
      BY FirstIngested
    <3>3. 1 \in 1 .. Len(chain[q])
      <4>1. Len(chain[q]) \in Nat \ {0}
        BY <3>2, EmptySeq
      <4> QED
        BY <4>1
    <3>4. chain[q][i].connection \in Nat /\ first[q] \in Nat
      <4>1. chain[q][1] \in Packets
        BY <3>2, <3>3, ElementOfSeq
      <4> QED
        BY <3>2, <4>1 DEF Packets, TypeOK
    <3>5. chain[q][i].connection < first[q] => UNCHANGED <<closed, wire>>
      BY <3>1, <3>4
    <3> QED
      BY <3>1, <3>5
  <2> QED
    BY <2>1, <2>2
<1>3. i = 1 /\ chain[q] # <<>> /\ chain[q] \in Seq(Packets)
  BY FirstIngested
<1> DEFINE s == chain[q]
           a == s[1]
           t == Without(s, 1)
<1>4. Len(s) \in Nat \ {0} /\ a \in Packets
  <2>1. Len(s) \in Nat \ {0}
    BY <1>3, EmptySeq
  <2>2. 1 \in 1 .. Len(s)
    BY <2>1
  <2> QED
    BY <1>3, <2>1, <2>2, ElementOfSeq
<1>5. UNCHANGED <<closed, wire>>
  <2>1. CASE Applies(view[q], a)
    BY <1>2, <1>3, <2>1
  <2>2. CASE ~Applies(view[q], a)
    <3>1. ~(a.connection >= first[q])
      BY <1>1, <1>3, <2>2 DEF PageOK, Ready
    <3>2. a.connection < first[q]
      BY <1>4, <3>1 DEF Packets, TypeOK
    <3> QED
      BY <1>2, <1>3, <2>2, <3>2
  <2> QED
    BY <2>1, <2>2
<1>6. UNCHANGED <<opened, first, stream, cursor>> /\ Current(p)' = Current(p)
  BY <1>2 DEF serverVars, Current
<1>7. CASE p # q
  <2>1. UNCHANGED <<chain[p], view[p]>>
    BY <1>2, <1>7 DEF TypeOK
  <2> QED
    BY <1>1, <1>5, <1>6, <2>1
      DEF PageOK, Opened, Joined, Ready, InUse, Remembered, Last
<1>8. CASE p = q
  <2>1. chain'[p] = t
    BY <1>2, <1>3, <1>8 DEF TypeOK
  <2>2. /\ t \in Seq(Packets) /\ Len(t) = Len(s) - 1
        /\ t = <<>> <=> Len(s) = 1
        /\ \A j \in 1 .. Len(s) - 1 : t[j] = s[j + 1]
    BY <1>3, WithoutFirst
  <2>3. /\ Opened(p) /\ Linked(s) /\ Linked(wire[p]) /\ Joined(p) /\ InUse(p)
        /\ Ready(p)
    BY <1>1, <1>8 DEF PageOK
  <2> DEFINE old == a.connection < first[p]
  <2>4. \/ view'[p] = Shown(a)
        \/ UNCHANGED <<view[p]>> /\ old
    <3>1. CASE Applies(view[q], a)
      BY <1>2, <1>3, <1>8, <3>1 DEF TypeOK
    <3>2. CASE ~Applies(view[q], a)
      <4>1. ~(a.connection >= first[p])
        BY <1>3, <1>8, <2>3, <3>2 DEF Ready
      <4>2. old
        BY <1>4, <4>1 DEF Packets, TypeOK
      <4> QED
        BY <1>2, <1>3, <3>2, <4>2
    <3> QED
      BY <3>1, <3>2
  <2>5. t # <<>> => t[1] = s[2] /\ t[Len(t)] = s[Len(s)] /\ Len(s) > 1
    BY <1>4, <2>2
  <2>6. t = <<>> => s[Len(s)] = a
    BY <2>2
  <2>7. opened[p] \in Nat /\ first[p] \in Nat /\ a.connection \in Nat
    BY <1>4 DEF TypeOK, Packets
  <2>8. opened[p] > 0 /\ first[p] <= opened[p]
    BY <1>3, <1>8, <2>3, <2>7 DEF Opened
  <2>9. Shown(a) # NoView /\ Shown(a).revision = a.revision
          /\ Shown(a).number = a.number
    <3>1. Shown(a) \in Cursors
      BY <1>4 DEF Shown, Packets, Cursors
    <3> QED
      BY <3>1 DEF Shown
  <2>10. ASSUME NEW m, Follows(a, m)
         PROVE  Applies(view'[p], m) \/ (old /\ m.connection = a.connection)
    <3>1. CASE m.full
      BY <3>1 DEF Applies
    <3>2. CASE ~m.full
      BY <2>4, <2>9, <2>10, <3>2 DEF Follows, Applies
    <3> QED
      BY <3>1, <3>2
  <2> HIDE DEF s, a, t
  <2>11. Opened(p)'
    <3>1. \A j \in 1 .. Len(t) : t[j].connection <= opened[p]
      <4>1. \A j \in 1 .. Len(t) : j + 1 \in 1 .. Len(s) /\ t[j] = s[j + 1]
        BY <1>4, <2>2
      <4>2. \A j \in 1 .. Len(s) : s[j].connection <= opened[p]
        BY <1>8, <2>3 DEF Opened, s
      <4> QED
        BY <4>1, <4>2
    <3> QED
      BY <1>5, <1>6, <2>1, <2>3, <2>8, <3>1 DEF Opened
  <2>12. Linked(t)
    <3> SUFFICES ASSUME NEW j \in 1 .. Len(t) - 1
                 PROVE  Follows(t[j], t[j + 1])
      BY DEF Linked
    <3>1. /\ j + 1 \in 1 .. Len(s) - 1
          /\ t[j] = s[j + 1] /\ t[j + 1] = s[(j + 1) + 1]
      BY <1>4, <2>2
    <3> QED
      BY <2>3, <3>1 DEF Linked
  <2>13. Ready(p)'
    <3>1. t # <<>> => Follows(a, t[1])
      <4>1. t # <<>> => 1 \in 1 .. Len(s) - 1
        BY <1>4, <2>2
      <4> QED
        BY <2>3, <2>5, <4>1 DEF Linked, a
    <3>2. t # <<>> =>
            Applies(view'[p], t[1]) \/ (old /\ t[1].connection = a.connection)
      BY <2>10, <3>1
    <3> QED
      BY <1>6, <2>1, <2>7, <3>2 DEF Ready
  <2>14. Joined(p)'
    <3>1. ASSUME t # <<>>, wire[p] # <<>>
          PROVE  Follows(t[Len(t)], wire[p][1])
      BY <1>3, <1>8, <2>3, <2>5, <3>1 DEF Joined, s
    <3>2. ASSUME t = <<>>, wire[p] # <<>>
          PROVE  Applies(view'[p], wire[p][1])
      <4>1. Follows(a, wire[p][1])
        BY <1>3, <1>8, <2>3, <2>6, <3>2 DEF Joined, s
      <4>2. wire[p][1].connection = opened[p]
        <5>1. Len(wire[p]) \in Nat \ {0}
          BY <3>2, EmptySeq DEF TypeOK
        <5> QED
          BY <2>3, <5>1 DEF Opened
      <4> QED
        BY <2>7, <2>8, <2>10, <4>1, <4>2
    <3> QED
      BY <1>5, <2>1, <3>1, <3>2 DEF Joined
  <2>15. InUse(p)'
    <3>1. ASSUME Current(p) \notin closed, stream[Current(p)] # "opening"
          PROVE  Remembered(p)'
      <4>1. Remembered(p)
        BY <2>3, <2>8, <3>1 DEF InUse
      <4>2. ASSUME wire[p] = <<>>, t # <<>>
            PROVE  Last(p, t[Len(t)])
        BY <1>3, <1>8, <2>5, <4>1, <4>2 DEF Remembered, s
      <4>3. ASSUME wire[p] = <<>>, t = <<>>
            PROVE  view'[p] = cursor[Current(p)]
        <5>1. Last(p, a)
          BY <1>3, <1>8, <2>6, <4>1, <4>3 DEF Remembered, s
        <5>2. ~old
          BY <2>7, <2>8, <5>1 DEF Last
        <5>3. cursor[Current(p)] \in Cursors
          BY <2>3, <2>8, <3>1, CurrentFacts DEF InUse, TypeOK
        <5> QED
          BY <2>4, <5>1, <5>2, <5>3 DEF Last, Shown, Cursors
      <4> QED
        BY <1>5, <1>6, <2>1, <4>1, <4>2, <4>3 DEF Remembered, Last
    <3> QED
      BY <1>5, <1>6, <2>3, <3>1 DEF InUse
  <2> QED
    BY <1>5, <2>1, <2>3, <2>11, <2>12, <2>13, <2>14, <2>15 DEF PageOK
<1> QED
  BY <1>7, <1>8

-----------------------------------------------------------------------------
(* The theorems.                                                           *)

StreamInv == TypeOK /\ HubInv /\ ConnectionInv /\ PageInv

LEMMA TypeRestart ==
  ASSUME TypeOK, Restart
  PROVE  TypeOK'
<1>1. closed' \subseteq Connections
  BY CurrentFacts DEF Restart, Close, TypeOK
<1>2. wire' \in [Pages -> Seq(Packets)]
  BY DEF Restart, Close, TypeOK
<1> QED
  BY <1>1, <1>2 DEF Restart, TypeOK

LEMMA StreamNext ==
  ASSUME StreamInv, [Next]_vars
  PROVE  StreamInv'
<1> USE DEF StreamInv
<1>1. CASE Command \/ Notify
  <2>1. UNCHANGED <<opened, closed, stream, cursor>>
    BY <1>1 DEF Command, Notify, pageVars
  <2>2. ConnectionInv'
    BY <2>1 DEF ConnectionInv
  <2> QED
    BY <1>1, <2>2, TypeServer, HubChange, PageAnnounce
<1>2. CASE Restart
  <2>1. ConnectionInv'
    <3> DEFINE pages == {p \in Pages : opened[p] > 0}
    <3>1. Close(pages) /\ pages \in SUBSET Pages /\ UNCHANGED opened
      BY <1>2 DEF Restart
    <3>2. \A c \in Connections :
            /\ stream[c] = "unused" <=> stream'[c] = "unused"
            /\ cursor'[c] \in {cursor[c], NoCursor}
      BY <1>2 DEF Restart
    <3> HIDE DEF pages
    <3>3. \A p \in pages : opened[p] > 0
      BY DEF pages
    <3> QED
      BY <3>1, <3>2, <3>3, ConnectionClose
  <2>2. PageInv'
    <3> DEFINE pages == {p \in Pages : opened[p] > 0}
    <3>1. Close(pages) /\ pages \in SUBSET Pages
            /\ UNCHANGED <<opened, first, chain, view>>
      BY <1>2 DEF Restart
    <3>2. \A p \in Pages \ pages : opened[p] = 0
      BY DEF TypeOK
    <3> HIDE DEF pages
    <3> QED
      BY <3>1, <3>2, PageClose
  <2> QED
    BY <1>2, <2>1, <2>2, TypeRestart, HubRestart
<1>3. ASSUME NEW c \in Connections, HubTask(c) \/ Timeout(c) \/ Handler(c)
      PROVE  StreamInv'
  <2>1. TypeOK' /\ HubInv' /\ ConnectionInv'
    BY <1>3, TypeHub, TypeServe, HubHandler, ConnectionHandler
      DEF HubTask, Handler
  <2>2. PageInv'
    BY <1>3, PageHandler, PageServe DEF Handler
  <2> QED
    BY <2>1, <2>2
<1>4. ASSUME NEW p \in Pages, Page(p) \/ Retry(p) \/ Speak(p) \/ Cut(p)
      PROVE  StreamInv'
  <2>1. TypeOK' /\ HubInv'
    BY <1>4, TypePage, HubPage DEF Page
  <2>2. CASE Connect(p) \/ Retry(p)
    <3>1. Open(p) /\ (opened[p] = 0 \/ Current(p) \in closed)
      BY <2>2 DEF Connect, Retry
    <3> QED
      BY <2>1, <2>2, <3>1, ConnectionOpen, PageOpen
  <2>3. CASE Cut(p)
    <3>1. Close({p}) /\ opened[p] > 0
            /\ UNCHANGED <<opened, first, chain, view, stream, cursor>>
      BY <2>3 DEF Cut, serverVars
    <3>2. ConnectionInv'
      BY <3>1, ConnectionClose
    <3>3. \A q \in Pages : Current(q)' = Current(q)
      BY <3>1 DEF Current
    <3>4. \A q \in Pages \ {p} :
            UNCHANGED <<stream[Current(q)], cursor[Current(q)]>>
      BY <3>1, <3>3
    <3>5. PageInv'
      BY <3>1, <3>4, PageClose
    <3> QED
      BY <2>1, <3>2, <3>5
  <2>4. CASE Speak(p) \/ Deliver(p) \/ Ingest(p) \/ Refuse(p)
    <3>1. PageInv'
      BY <2>4, PageAnnounce, PageDeliver, PageIngest
    <3>2. UNCHANGED <<opened, stream, cursor>>
      BY <2>4 DEF Speak, Deliver, Ingest, Refuse, serverVars, pageVars
    <3>3. closed \subseteq closed'
            /\ \A c \in Connections :
                 c \in closed' => c \in closed \/ c = Current(p)
      BY <2>4 DEF Speak, Deliver, Ingest, Refuse, Close, pageVars
    <3>4. opened[p] = 0 => UNCHANGED closed
      BY <2>4 DEF Speak, Deliver, Ingest, Refuse, pageVars, PageInv, PageOK,
                  Opened, NextIngested
    <3>5. ConnectionInv'
      BY <3>2, <3>3, <3>4, CurrentFacts DEF ConnectionInv
    <3> QED
      BY <2>1, <3>1, <3>5
  <2> QED
    BY <1>4, <2>2, <2>3, <2>4 DEF Page
<1>5. CASE UNCHANGED vars
  <2>1. UNCHANGED <<serverVars, pageVars, inbox, spoken>>
    BY <1>5 DEF vars
  <2>2. TypeOK' /\ HubInv' /\ ConnectionInv'
    BY <2>1 DEF TypeOK, HubInv, ConnectionInv, serverVars, pageVars
  <2>3. PageInv'
    BY <2>1 DEF PageInv, PageOK, Opened, Joined, Ready, InUse, Remembered,
                Last, Current, serverVars, pageVars
  <2> QED
    BY <2>2, <2>3
<1> QED
  BY <1>1, <1>2, <1>3, <1>4, <1>5 DEF Next

LEMMA StreamInvariant == Spec => []StreamInv
<1>1. Init => StreamInv
  BY TypeInit, HubInit, PageInit DEF StreamInv
<1>2. StreamInv /\ [Next]_vars => StreamInv'
  BY StreamNext
<1> QED
  BY <1>1, <1>2, PTL DEF Spec

(* Every reachable state of the streams is well typed.                     *)
THEOREM TypeCorrect == Spec => []TypeOK
BY StreamInvariant, PTL DEF StreamInv

(* No interleaving of commands, notifications, messages, timeouts,         *)
(* reconnections and restarts leaves a handler asleep that has not         *)
(* observed the latest announced change (ProjectionHub.wait and notify).   *)
THEOREM NoLostWakeUp == Spec => []SleepersAreCurrent
<1>1. StreamInv => SleepersAreCurrent
  <2> SUFFICES ASSUME StreamInv, NEW c \in Connections,
                      hub[c] = "asleep", owed = 0
               PROVE  cursor[c] # NoCursor /\ cursor[c].revision = revision
    BY DEF SleepersAreCurrent, CursorKey
  <2>1. told = version[c] /\ told \in Nat /\ stream[c] = "waiting"
    BY DEF StreamInv, HubInv, TypeOK
  <2> QED
    BY <2>1 DEF StreamInv, HubInv
<1> QED
  BY <1>1, StreamInvariant, PTL

(* However connections are lost, opened again and overlap, a page never    *)
(* refuses a packet of its present effect (ingestPacket): deltas and full  *)
(* views arrive as a chain that begins at what the page shows.             *)
THEOREM PacketsApply == Spec => []NothingIsRefused
<1>1. StreamInv => NothingIsRefused
  <2> SUFFICES ASSUME StreamInv, NEW p \in Pages, chain[p] # <<>>,
                      Head(chain[p]).connection >= first[p]
               PROVE  Applies(view[p], Head(chain[p]))
    BY DEF NothingIsRefused
  <2>1. Head(chain[p]) = chain[p][1]
    BY DEF StreamInv, TypeOK
  <2> QED
    BY <2>1 DEF StreamInv, PageInv, PageOK, Ready
<1> QED
  BY <1>1, StreamInvariant, PTL

-----------------------------------------------------------------------------
(* The streams implement GameViews: a page only advances.                  *)

Rising(s) ==
  \A i, j \in 1 .. Len(s) : i <= j => s[i].revision <= s[j].revision

(* What a page shows, what it has received and what is on its way are ever *)
(* later revisions of the game.                                            *)
Aging(p) ==
  /\ Rising(chain[p]) /\ Rising(wire[p])
  /\ \A i \in 1 .. Len(chain[p]), j \in 1 .. Len(wire[p]) :
       chain[p][i].revision <= wire[p][j].revision
  /\ \A i \in 1 .. Len(chain[p]) : chain[p][i].revision <= revision
  /\ \A i \in 1 .. Len(wire[p]) : wire[p][i].revision <= revision
  /\ view[p] # NoView =>
       /\ view[p].revision <= revision
       /\ \A i \in 1 .. Len(chain[p]) :
            view[p].revision <= chain[p][i].revision
       /\ \A i \in 1 .. Len(wire[p]) :
            view[p].revision <= wire[p][i].revision

AgeInv == TypeOK /\ \A p \in Pages : Aging(p)

LEMMA AgeTypes ==
  ASSUME TypeOK, NEW p \in Pages
  PROVE  /\ revision \in Nat
         /\ chain[p] \in Seq(Packets) /\ Len(chain[p]) \in Nat
         /\ wire[p] \in Seq(Packets) /\ Len(wire[p]) \in Nat
         /\ \A i \in 1 .. Len(chain[p]) : chain[p][i].revision \in Nat
         /\ \A i \in 1 .. Len(wire[p]) : wire[p][i].revision \in Nat
         /\ view[p] # NoView => view[p].revision \in Nat
<1>1. chain[p] \in Seq(Packets) /\ wire[p] \in Seq(Packets)
  BY DEF TypeOK
<1>2. \A m \in Packets : m.revision \in Nat
  BY DEF Packets
<1>3. \A s \in Seq(Packets) : Len(s) \in Nat /\ \A i \in 1 .. Len(s) : s[i] \in Packets
  BY ElementOfSeq, LenProperties
<1>4. view[p] # NoView => view[p].revision \in Nat
  BY DEF TypeOK, Cursors
<1>5. revision \in Nat
  BY DEF TypeOK
<1> QED
  BY <1>1, <1>2, <1>3, <1>4, <1>5

(* The game moves on, and what is on its way may be lost.                  *)
LEMMA AgeKept ==
  ASSUME TypeOK, TypeOK', NEW p \in Pages, Aging(p), revision <= revision',
         UNCHANGED <<chain[p], view[p]>>, wire'[p] \in {wire[p], <<>>}
  PROVE  Aging(p)'
<1>1. /\ revision \in Nat /\ revision' \in Nat
      /\ \A n \in Nat : n <= revision => n <= revision'
  BY DEF TypeOK
<1>2. /\ Len(wire'[p]) \in Nat
      /\ \A i \in 1 .. Len(wire'[p]) :
           i \in 1 .. Len(wire[p]) /\ wire'[p] = wire[p]
  OBVIOUS
<1>3. Rising(chain[p])' /\ Rising(wire[p])'
  BY <1>2 DEF Aging, Rising
<1>4. /\ \A i \in 1 .. Len(chain'[p]) : chain'[p][i].revision <= revision'
      /\ \A i \in 1 .. Len(wire'[p]) : wire'[p][i].revision <= revision'
      /\ view'[p] # NoView => view'[p].revision <= revision'
  BY <1>1, <1>2, AgeTypes DEF Aging
<1> QED
  BY <1>2, <1>3, <1>4 DEF Aging

LEMMA AgeServe ==
  ASSUME TypeOK, NEW c \in Connections, Serve(c), NEW p \in Pages, Aging(p)
  PROVE  Aging(p)'
<1> DEFINE m == Packet(c, stream[c] = "opening")
<1>1. UNCHANGED <<revision, chain, view>>
        /\ wire'[p] \in {wire[p], Append(wire[p], m)}
  BY DEF Serve, TypeOK
<1>2. CASE wire'[p] = wire[p]
  BY <1>1, <1>2 DEF Aging, Rising
<1>3. CASE wire'[p] = Append(wire[p], m)
  <2>1. m \in Packets /\ m.revision = revision
    BY PacketType
  <2> HIDE DEF m
  <2> DEFINE n == Len(wire[p])
  <2>2. /\ n \in Nat /\ Len(wire'[p]) = n + 1
        /\ \A i \in 1 .. n : wire'[p][i] = wire[p][i]
        /\ wire'[p][n + 1] = m
    BY <1>3, <2>1, AgeTypes, AppendProperties
  <2>3. \A i \in 1 .. n + 1 : i \in 1 .. n \/ i = n + 1
    BY <2>2
  <2>4. \A i \in 1 .. n : wire[p][i].revision <= revision
          /\ wire[p][i].revision \in Nat
    BY AgeTypes DEF Aging
  <2>5. Rising(wire[p])'
    <3> SUFFICES ASSUME NEW i \in 1 .. n + 1, NEW j \in 1 .. n + 1, i <= j
                 PROVE  wire'[p][i].revision <= wire'[p][j].revision
      BY <2>2 DEF Rising
    <3>1. CASE j = n + 1
      BY <2>1, <2>2, <2>3, <2>4, <3>1, AgeTypes
    <3>2. CASE j \in 1 .. n
      <4>1. i \in 1 .. n
        BY <2>2, <3>2
      <4> QED
        BY <2>2, <3>2, <4>1 DEF Aging, Rising
    <3> QED
      BY <2>3, <3>1, <3>2
  <2>6. \A i \in 1 .. Len(chain[p]) : chain[p][i].revision <= revision
    BY DEF Aging
  <2>7. \A j \in 1 .. n + 1 : wire'[p][j].revision <= revision
    BY <2>1, <2>2, <2>3, <2>4, AgeTypes
  <2>8. \A i \in 1 .. Len(chain[p]), j \in 1 .. n + 1 :
          chain[p][i].revision <= wire'[p][j].revision
    BY <2>1, <2>2, <2>3, <2>6 DEF Aging
  <2>9. view[p] # NoView =>
          \A j \in 1 .. n + 1 : view[p].revision <= wire'[p][j].revision
    BY <2>1, <2>2, <2>3 DEF Aging
  <2> HIDE DEF n
  <2> QED
    BY <1>1, <2>2, <2>5, <2>7, <2>8, <2>9 DEF Aging
<1> QED
  BY <1>1, <1>2, <1>3

LEMMA AgeDeliver ==
  ASSUME TypeOK, NEW q \in Pages, Deliver(q), NEW p \in Pages, Aging(p)
  PROVE  Aging(p)'
<1>1. UNCHANGED <<revision, view>>
  BY DEF Deliver, serverVars
<1>2. CASE p # q
  <2>1. wire'[p] = wire[p] /\ chain'[p] = chain[p]
    BY <1>2 DEF Deliver, TypeOK
  <2> QED
    BY <1>1, <2>1 DEF Aging, Rising
<1>3. CASE p = q
  <2> DEFINE n == Len(chain[p])
             k == Len(wire[p])
  <2>1. wire[p] # <<>> /\ wire'[p] = Tail(wire[p])
          /\ chain'[p] = Append(chain[p], Head(wire[p]))
    BY <1>3 DEF Deliver, TypeOK
  <2>2. wire[p] \in Seq(Packets) /\ chain[p] \in Seq(Packets)
          /\ n \in Nat /\ k \in Nat \ {0}
    BY <2>1, AgeTypes, EmptySeq
  <2>3. /\ Head(wire[p]) = wire[p][1] /\ Head(wire[p]) \in Packets
        /\ Len(wire'[p]) = k - 1
        /\ \A i \in 1 .. k - 1 : wire'[p][i] = wire[p][i + 1]
    BY <2>1, <2>2, HeadTailProperties
  <2>4. /\ Len(chain'[p]) = n + 1
        /\ \A i \in 1 .. n : chain'[p][i] = chain[p][i]
        /\ chain'[p][n + 1] = wire[p][1]
    BY <2>1, <2>2, <2>3, AppendProperties
  <2>5. /\ \A i \in 1 .. n + 1 : i \in 1 .. n \/ i = n + 1
        /\ \A i \in 1 .. k - 1 : i + 1 \in 1 .. k /\ 1 <= i + 1
        /\ 1 \in 1 .. k
    BY <2>2
  <2>6. Rising(chain[p])'
    <3> SUFFICES ASSUME NEW i \in 1 .. n + 1, NEW j \in 1 .. n + 1, i <= j
                 PROVE  chain'[p][i].revision <= chain'[p][j].revision
      BY <2>4 DEF Rising
    <3>1. CASE j = n + 1
      <4>1. \A l \in 1 .. n : chain[p][l].revision <= wire[p][1].revision
        BY <2>5 DEF Aging
      <4>2. wire[p][1].revision \in Nat
        BY <2>5, AgeTypes
      <4>3. wire[p][1].revision <= wire[p][1].revision
        BY <4>2
      <4> QED
        BY <2>4, <2>5, <3>1, <4>1, <4>3
    <3>2. CASE j \in 1 .. n
      <4>1. i \in 1 .. n
        BY <2>2, <3>2
      <4> QED
        BY <2>4, <3>2, <4>1 DEF Aging, Rising
    <3> QED
      BY <2>5, <3>1, <3>2
  <2>7. Rising(wire[p])'
    <3> SUFFICES ASSUME NEW i \in 1 .. k - 1, NEW j \in 1 .. k - 1, i <= j
                 PROVE  wire'[p][i].revision <= wire'[p][j].revision
      BY <2>3 DEF Rising
    <3>1. i + 1 <= j + 1
      OBVIOUS
    <3> QED
      BY <2>3, <2>5, <3>1 DEF Aging, Rising
  <2>8. \A i \in 1 .. k - 1 : wire[p][1].revision <= wire[p][i + 1].revision
    BY <2>5 DEF Aging, Rising
  <2>9. /\ \A i \in 1 .. n + 1 : chain'[p][i].revision <= revision
        /\ \A i \in 1 .. k - 1 : wire'[p][i].revision <= revision
    BY <2>3, <2>4, <2>5 DEF Aging
  <2>10. \A i \in 1 .. n + 1, j \in 1 .. k - 1 :
           chain'[p][i].revision <= wire'[p][j].revision
    <3> SUFFICES ASSUME NEW i \in 1 .. n + 1, NEW j \in 1 .. k - 1
                 PROVE  chain'[p][i].revision <= wire[p][j + 1].revision
      BY <2>3
    <3>1. CASE i = n + 1
      BY <2>4, <2>8, <3>1
    <3>2. CASE i \in 1 .. n
      BY <2>4, <2>5, <3>2 DEF Aging
    <3> QED
      BY <2>5, <3>1, <3>2
  <2>11. view[p] # NoView =>
           /\ \A i \in 1 .. n + 1 : view[p].revision <= chain'[p][i].revision
           /\ \A i \in 1 .. k - 1 : view[p].revision <= wire'[p][i].revision
    BY <2>3, <2>4, <2>5 DEF Aging
  <2>12. view[p] # NoView => view[p].revision <= revision
    BY DEF Aging
  <2> HIDE DEF n, k
  <2> QED
    BY <1>1, <2>3, <2>4, <2>6, <2>7, <2>9, <2>10, <2>11, <2>12 DEF Aging
<1> QED
  BY <1>2, <1>3

(* The first packet of the chain is ingested or dropped.                   *)
LEMMA AgeIngest ==
  ASSUME TypeOK, NEW q \in Pages, Ingest(q) \/ Refuse(q),
         NEW p \in Pages, Aging(p)
  PROVE  Aging(p)'
<1>1. UNCHANGED revision
  BY DEF Ingest, Refuse, serverVars
<1>2. CASE p # q
  <2>1. chain'[p] = chain[p] /\ view'[p] = view[p]
          /\ wire'[p] \in {wire[p], <<>>}
    BY <1>2 DEF Ingest, Refuse, Close, TypeOK
  <2> QED
    BY <1>1, <2>1 DEF Aging, Rising
<1>3. CASE p = q
  <2> DEFINE n == Len(chain[p])
  <2>1. /\ chain[p] # <<>> /\ chain[p] \in Seq(Packets)
        /\ chain'[p] = Without(chain[p], 1)
        /\ view'[p] \in {view[p], Shown(chain[p][1])}
        /\ wire'[p] \in {wire[p], <<>>}
    BY <1>3, FirstIngested DEF Ingest, Refuse, Close, TypeOK
  <2>2. n \in Nat \ {0} /\ Len(chain'[p]) = n - 1
          /\ \A i \in 1 .. n - 1 : chain'[p][i] = chain[p][i + 1]
    BY <2>1, WithoutFirst, EmptySeq
  <2>3. 1 \in 1 .. n /\ \A i \in 1 .. n - 1 : i + 1 \in 1 .. n /\ 1 <= i + 1
    BY <2>2
  <2>4. Rising(chain[p])'
    <3> SUFFICES ASSUME NEW i \in 1 .. n - 1, NEW j \in 1 .. n - 1, i <= j
                 PROVE  chain'[p][i].revision <= chain'[p][j].revision
      BY <2>2 DEF Rising
    <3>1. i + 1 <= j + 1
      OBVIOUS
    <3> QED
      BY <2>2, <2>3, <3>1 DEF Aging, Rising
  <2>5. Shown(chain[p][1]).revision = chain[p][1].revision
    BY DEF Shown
  <2>6. \A i \in 1 .. n - 1 : chain[p][1].revision <= chain[p][i + 1].revision
    BY <2>3 DEF Aging, Rising
  <2>7. \A i \in 1 .. Len(wire'[p]) :
          /\ Len(wire'[p]) = Len(wire[p]) /\ wire'[p] = wire[p]
    BY <2>1
  <2>8. Rising(wire[p])'
    BY <2>7 DEF Aging, Rising
  <2> QED
    BY <1>1, <2>1, <2>2, <2>3, <2>4, <2>5, <2>6, <2>7, <2>8 DEF Aging
<1> QED
  BY <1>2, <1>3

LEMMA AgeRetry ==
  ASSUME NEW q \in Pages, Retry(q), TypeOK, NEW p \in Pages, Aging(p)
  PROVE  Aging(p)'
<1>1. UNCHANGED <<revision, wire, chain>> /\ view'[p] \in {view[p], NoView}
  BY DEF Retry, Open, TypeOK
<1> QED
  BY <1>1 DEF Aging, Rising

(* A step advances the game and leaves the pages as they are, or leaves it *)
(* as it is and shows something later, or nothing, on one page.            *)
Moves ==
  \/ /\ revision' \in {revision, revision + 1} /\ UNCHANGED view
  \/ /\ UNCHANGED revision
     /\ \E p \in Pages, v \in Cursors \cup {NoView} :
          /\ view' = [view EXCEPT ![p] = v]
          /\ v # NoView => v.revision <= revision
          /\ v # NoView /\ view[p] # NoView =>
               view[p].revision <= v.revision

LEMMA AgeNext ==
  ASSUME AgeInv, TypeOK', [Next]_vars
  PROVE  AgeInv' /\ Moves
<1> SUFFICES (\A p \in Pages : Aging(p)') /\ Moves
  BY DEF AgeInv
<1> USE DEF AgeInv
<1>1. CASE Command \/ Notify \/ Restart \/ UNCHANGED vars
  <2>1. revision' \in {revision, revision + 1} /\ UNCHANGED <<chain, view>>
    BY <1>1 DEF Command, Notify, Restart, pageVars, serverVars, vars
  <2>2. \A p \in Pages : wire'[p] \in {wire[p], <<>>}
    BY <1>1 DEF Command, Notify, Restart, Close, pageVars, vars
  <2>3. revision <= revision'
    BY <2>1 DEF TypeOK
  <2> QED
    BY <2>1, <2>2, <2>3, AgeKept DEF Moves
<1>2. ASSUME NEW c \in Connections, HubTask(c) \/ Timeout(c) \/ Handler(c)
      PROVE  (\A p \in Pages : Aging(p)') /\ Moves
  <2>1. UNCHANGED <<revision, chain, view>>
    BY <1>2 DEF HubTask, Ask, Called, Timeout, Handler, Serve, Wake, Receive,
                Disconnect, Leave, pageVars
  <2>2. CASE Serve(c)
    BY <2>1, <2>2, AgeServe DEF Moves
  <2>3. CASE ~Serve(c)
    <3>1. UNCHANGED wire
      BY <1>2, <2>3 DEF HubTask, Ask, Called, Timeout, Handler, Wake, Receive,
                  Disconnect, Leave, pageVars
    <3>2. revision <= revision'
      BY <2>1 DEF TypeOK
    <3> QED
      BY <2>1, <3>1, <3>2, AgeKept DEF Moves
  <2> QED
    BY <2>2, <2>3
<1>3. ASSUME NEW q \in Pages, Connect(q) \/ Speak(q) \/ Cut(q)
      PROVE  (\A p \in Pages : Aging(p)') /\ Moves
  <2>1. UNCHANGED <<revision, chain, view>>
    BY <1>3 DEF Connect, Open, Speak, Cut, serverVars, pageVars
  <2>2. \A p \in Pages : wire'[p] \in {wire[p], <<>>}
    BY <1>3 DEF Connect, Open, Speak, Cut, Close, pageVars
  <2>3. revision <= revision'
    BY <2>1 DEF TypeOK
  <2> QED
    BY <2>1, <2>2, <2>3, AgeKept DEF Moves
<1>4. ASSUME NEW q \in Pages, Retry(q)
      PROVE  (\A p \in Pages : Aging(p)') /\ Moves
  <2>1. UNCHANGED revision /\ view' = [view EXCEPT ![q] = NoView]
    BY <1>4 DEF Retry, Open
  <2> QED
    BY <1>4, <2>1, AgeRetry DEF Moves
<1>5. ASSUME NEW q \in Pages, Deliver(q)
      PROVE  (\A p \in Pages : Aging(p)') /\ Moves
  <2>1. UNCHANGED <<revision, view>>
    BY <1>5 DEF Deliver, serverVars
  <2> QED
    BY <1>5, <2>1, AgeDeliver DEF Moves
<1>6. ASSUME NEW q \in Pages, Refuse(q)
      PROVE  (\A p \in Pages : Aging(p)') /\ Moves
  <2>1. UNCHANGED <<revision, view>>
    BY <1>6 DEF Refuse, serverVars
  <2> QED
    BY <1>6, <2>1, AgeIngest DEF Moves
<1>7. ASSUME NEW q \in Pages, Ingest(q)
      PROVE  (\A p \in Pages : Aging(p)') /\ Moves
  <2> DEFINE m == chain[q][1]
  <2>1. UNCHANGED revision /\ view' = [view EXCEPT ![q] = Shown(m)]
          /\ chain[q] # <<>> /\ chain[q] \in Seq(Packets)
    BY <1>7, FirstIngested DEF Ingest, serverVars
  <2>2. m \in Packets /\ 1 \in 1 .. Len(chain[q])
    BY <2>1, EmptySeq
  <2>3. Shown(m) \in Cursors /\ Shown(m).revision = m.revision
    BY <2>2 DEF Shown, Packets, Cursors
  <2>4. /\ m.revision <= revision
        /\ view[q] # NoView => view[q].revision <= m.revision
    BY <2>2 DEF Aging
  <2> HIDE DEF m
  <2>5. Moves
    BY <2>1, <2>3, <2>4 DEF Moves
  <2> QED
    BY <1>7, <2>5, AgeIngest
<1> QED
  BY <1>1, <1>2, <1>3, <1>4, <1>5, <1>6, <1>7 DEF Next, Page

LEMMA AgeInvariant == Spec => []AgeInv
<1>1. Init => AgeInv
  <2> SUFFICES ASSUME Init PROVE AgeInv
    OBVIOUS
  <2>1. \A p \in Pages :
          chain[p] = <<>> /\ wire[p] = <<>> /\ view[p] = NoView
    BY DEF Init
  <2> QED
    BY <2>1, TypeInit DEF AgeInv, Aging, Rising
<1>2. AgeInv /\ TypeOK' /\ [Next]_vars => AgeInv'
  BY AgeNext
<1> QED
  BY <1>1, <1>2, TypeCorrect, PTL DEF Spec

ShownAt == [p \in Pages |-> IF view[p] = NoView THEN -1 ELSE view[p].revision]

LEMMA ViewsStep ==
  ASSUME AgeInv, Moves
  PROVE  [Views!Next]_<<revision, ShownAt>>
<1>1. CASE revision' \in {revision, revision + 1} /\ UNCHANGED view
  BY <1>1 DEF ShownAt, Views!Next, Views!Publish
<1>2. ASSUME UNCHANGED revision,
             NEW p \in Pages, NEW v \in Cursors \cup {NoView},
             view' = [view EXCEPT ![p] = v],
             v # NoView => v.revision <= revision,
             v # NoView /\ view[p] # NoView => view[p].revision <= v.revision
      PROVE  [Views!Next]_<<revision, ShownAt>>
  <2> DEFINE r == IF v = NoView THEN -1 ELSE v.revision
  <2>1. ShownAt' = [ShownAt EXCEPT ![p] = r]
    BY <1>2 DEF ShownAt, AgeInv, TypeOK
  <2>2. CASE v = NoView
    <3>1. Views!Clear(p)
      BY <1>2, <2>1, <2>2 DEF ShownAt, Views!Clear, Views!Blank
    <3> QED
      BY <3>1 DEF Views!Next
  <2>3. CASE v # NoView
    <3>1. /\ ShownAt[p] \in Int /\ r \in Nat /\ revision \in Nat
          /\ ShownAt[p] <= r /\ r <= revision
      BY <1>2, <2>3 DEF ShownAt, AgeInv, TypeOK, Cursors
    <3>2. CASE ShownAt[p] = r
      <4>1. ShownAt' = ShownAt
        BY <2>1, <3>2 DEF ShownAt
      <4> QED
        BY <1>2, <4>1
    <3>3. CASE ShownAt[p] # r
      <4>1. r \in ShownAt[p] + 1 .. revision
        BY <3>1, <3>3
      <4>2. Views!Show(p)
        BY <1>2, <2>1, <4>1 DEF ShownAt, Views!Show
      <4> QED
        BY <4>2 DEF Views!Next
    <3> QED
      BY <3>2, <3>3
  <2> QED
    BY <2>2, <2>3
<1> QED
  BY <1>1, <1>2 DEF Moves

(* Whatever connections are lost, opened again and overlap, a page shows   *)
(* revisions that the game has had, each later than the one before, until  *)
(* "Retry now" blanks it: the streams implement GameViews.                 *)
THEOREM Refinement == Spec => PagesFollowTheGame
<1>1. Init => Views!Init
  BY DEF Init, Views!Init, Views!Blank
<1>2. AgeInv /\ TypeOK' /\ [Next]_vars => [Views!Next]_<<revision, ShownAt>>
  BY AgeNext, ViewsStep
<1> QED
  BY <1>1, <1>2, AgeInvariant, TypeCorrect, PTL
  DEF Spec, PagesFollowTheGame, Views!Spec, ShownAt

-----------------------------------------------------------------------------
(* Every page catches up: what is left before it does.                     *)

\* The page has a connection in use.
Online(p) == opened[p] > 0 /\ Current(p) \notin closed

UpToDate(p) == view[p] # NoView /\ view[p].revision = revision

\* A handler that waits has a task, and what the task says has come.
TaskInv ==
  \A c \in Connections :
    /\ stream[c] = "waiting" => hub[c] # "none"
    /\ hub[c] = "called" => told > version[c]
    /\ hub[c] = "done" => result[c] > version[c]

\* A page whose connection is closed has another.
SpareInv == \A p \in Pages : Current(p) \in closed => Spare(p)

\* What the handler of a connection still does before it waits for the hub's
\* next version.
Stage(c) ==
  IF stream[c] # "waiting" THEN 2 ELSE IF hub[c] = "done" THEN 0 ELSE 1

Openings(p) == 2 * (MaxOpened - opened[p]) + (IF Online(p) THEN 1 ELSE 0)

\* Messages to receive, versions to see, and the handler's stage.
Rest(p) ==
  IF Online(p)
  THEN <<inbox[Current(p)], told - version[Current(p)], Stage(Current(p))>>
  ELSE <<0, 0, 0>>

OnTheWay(p) == 2 * Len(wire[p]) + Len(chain[p])

\* What is left before page p shows the game at rest, from the changes of the
\* game down to one packet.
Ahead(p) ==
  <<MaxRevision - revision, MaxSpoken - spoken, Openings(p), owed,
    Rest(p)[1], Rest(p)[2], Rest(p)[3], OnTheWay(p)>>

CloserPage(p) ==
  \E i \in 1..8 :
    /\ Ahead(p)'[i] < Ahead(p)[i]
    /\ \A j \in 1..(i - 1) : Ahead(p)'[j] = Ahead(p)[j]

\* There is something to do about a page: the guards of Notify, Connect,
\* Deliver, Ingest and Refuse, Serve, and Ask, Called and Wake.
Behind(p) ==
  \/ Due
  \/ ~Online(p) /\ Spare(p)
  \/ wire[p] # <<>> \/ chain[p] # <<>>
  \/ /\ Online(p)
     /\ \/ stream[Current(p)] \in {"opening", "observing"}
        \/ /\ stream[Current(p)] = "waiting"
           /\ told > version[Current(p)]
           /\ hub[Current(p)] \in {"asking", "called", "done"}

\* The steps that do something about it.
Helps(p) ==
  \/ Notify \/ Page(p)
  \/ /\ Online(p)
     /\ \/ Handler(Current(p))
        \/ HubTask(Current(p)) /\ told > version[Current(p)]

LEMMA OnlineFacts ==
  ASSUME StreamInv, NEW p \in Pages, Online(p)
  PROVE  /\ Current(p) \in Connections /\ Current(p) \notin closed
         /\ stream[Current(p)] \in {"opening", "observing", "waiting"}
         /\ told - version[Current(p)] \in Nat
<1>1. Current(p) \in Connections
  BY CurrentFacts DEF StreamInv, Online
<1>2. InUse(p)
  BY DEF StreamInv, PageInv, PageOK
<1>3. version[Current(p)] \in Nat /\ told \in Nat /\ version[Current(p)] <= told
  BY <1>1 DEF StreamInv, HubInv, TypeOK
<1> QED
  BY <1>1, <1>2, <1>3 DEF InUse, Online

(* The numbers ahead of a page are natural.                                *)
LEMMA AheadNatural ==
  ASSUME StreamInv, NEW p \in Pages
  PROVE  /\ MaxRevision - revision \in Nat /\ MaxSpoken - spoken \in Nat
         /\ Openings(p) \in Nat /\ owed \in Nat
         /\ \A i \in 1..3 : Rest(p)[i] \in Nat
         /\ Len(wire[p]) \in Nat /\ Len(chain[p]) \in Nat
         /\ OnTheWay(p) \in Nat
<1>1. MaxRevision - revision \in Nat /\ MaxSpoken - spoken \in Nat /\ owed \in Nat
  BY DEF StreamInv, TypeOK
<1>2. Openings(p) \in Nat
  BY DEF StreamInv, TypeOK, Openings
<1>3. Len(wire[p]) \in Nat /\ Len(chain[p]) \in Nat
  <2>1. wire[p] \in Seq(Packets) /\ chain[p] \in Seq(Packets)
    BY DEF StreamInv, TypeOK
  <2> QED
    BY <2>1, LenProperties
<1>4. \A i \in 1..3 : Rest(p)[i] \in Nat
  <2>1. CASE Online(p)
    <3>1. inbox[Current(p)] \in Nat /\ told - version[Current(p)] \in Nat
      BY <2>1, OnlineFacts DEF StreamInv, TypeOK
    <3>2. Stage(Current(p)) \in Nat
      BY DEF Stage
    <3> QED
      BY <2>1, <3>1, <3>2 DEF Rest
  <2>2. CASE ~Online(p)
    BY <2>2 DEF Rest
  <2> QED
    BY <2>1, <2>2
<1>5. OnTheWay(p) \in Nat
  <2> DEFINE w == Len(wire[p])
             k == Len(chain[p])
  <2>1. OnTheWay(p) = 2 * w + k
    BY DEF OnTheWay
  <2>2. w \in Nat /\ k \in Nat
    BY <1>3
  <2> HIDE DEF w, k
  <2> QED
    BY <2>1, <2>2
<1> QED
  BY <1>1, <1>2, <1>3, <1>4, <1>5

LEMMA LessLeft ==
  ASSUME NEW m \in Nat, NEW a \in Nat, NEW b \in Nat, b > a
  PROVE  m - b < m - a
OBVIOUS

(* Which of the eight numbers falls.                                       *)
LEMMA FallsFirst ==
  ASSUME TypeOK, TypeOK', NEW p \in Pages,
         \/ revision' > revision
         \/ revision' = revision /\ spoken' > spoken
  PROVE  CloserPage(p)
<1>1. /\ revision \in Nat /\ revision' \in Nat /\ MaxRevision \in Nat
      /\ spoken \in Nat /\ spoken' \in Nat /\ MaxSpoken \in Nat
  BY DEF TypeOK
<1>2. CASE revision' > revision
  <2>1. Ahead(p)[1] = MaxRevision - revision /\ Ahead(p)'[1] = MaxRevision - revision'
    BY DEF Ahead
  <2>3. MaxRevision - revision' < MaxRevision - revision
    BY <1>1, <1>2, LessLeft
  <2>2. Ahead(p)'[1] < Ahead(p)[1]
    BY <2>1, <2>3
  <2> QED
    BY <2>2 DEF CloserPage
<1>3. CASE revision' = revision /\ spoken' > spoken
  <2>4. /\ Ahead(p)[1] = MaxRevision - revision /\ Ahead(p)'[1] = MaxRevision - revision'
        /\ Ahead(p)[2] = MaxSpoken - spoken /\ Ahead(p)'[2] = MaxSpoken - spoken'
    BY DEF Ahead
  <2>1. Ahead(p)'[2] < Ahead(p)[2] /\ Ahead(p)'[1] = Ahead(p)[1]
    <3>1. MaxSpoken - spoken' < MaxSpoken - spoken
      BY <1>1, <1>3, LessLeft
    <3> QED
      BY <1>3, <2>4, <3>1
  <2>2. \A j \in 1..(2 - 1) : j = 1
    OBVIOUS
  <2>3. 2 \in 1..8
    OBVIOUS
  <2> QED
    BY <2>1, <2>2, <2>3 DEF CloserPage
<1> QED
  BY <1>2, <1>3

InPage(p) ==
  \/ Openings(p)' < Openings(p)
  \/ /\ Openings(p)' = Openings(p)
     /\ \/ owed' < owed
        \/ /\ owed' = owed
           /\ \/ Rest(p)'[1] < Rest(p)[1]
              \/ /\ Rest(p)'[1] = Rest(p)[1]
                 /\ \/ Rest(p)'[2] < Rest(p)[2]
                    \/ /\ Rest(p)'[2] = Rest(p)[2]
                       /\ \/ Rest(p)'[3] < Rest(p)[3]
                          \/ /\ Rest(p)'[3] = Rest(p)[3]
                             /\ OnTheWay(p)' < OnTheWay(p)

LEMMA FallsInPage ==
  ASSUME NEW p \in Pages, UNCHANGED <<revision, spoken>>, InPage(p)
  PROVE  CloserPage(p)
<1>1. /\ Ahead(p)'[1] = Ahead(p)[1] /\ Ahead(p)'[2] = Ahead(p)[2]
      /\ Ahead(p)[3] = Openings(p) /\ Ahead(p)'[3] = Openings(p)'
      /\ Ahead(p)[4] = owed /\ Ahead(p)'[4] = owed'
      /\ Ahead(p)[5] = Rest(p)[1] /\ Ahead(p)'[5] = Rest(p)'[1]
      /\ Ahead(p)[6] = Rest(p)[2] /\ Ahead(p)'[6] = Rest(p)'[2]
      /\ Ahead(p)[7] = Rest(p)[3] /\ Ahead(p)'[7] = Rest(p)'[3]
      /\ Ahead(p)[8] = OnTheWay(p) /\ Ahead(p)'[8] = OnTheWay(p)'
  BY DEF Ahead
<1>2. PICK i \in 3..8 :
        /\ Ahead(p)'[i] < Ahead(p)[i]
        /\ \A j \in 3..(i - 1) : Ahead(p)'[j] = Ahead(p)[j]
  <2> DEFINE F(i) == /\ Ahead(p)'[i] < Ahead(p)[i]
                     /\ \A j \in 3..(i - 1) : Ahead(p)'[j] = Ahead(p)[j]
  <2>1. Openings(p)' < Openings(p) => F(3)
    BY <1>1
  <2>2. Openings(p)' = Openings(p) /\ owed' < owed => F(4)
    BY <1>1
  <2>3. /\ Openings(p)' = Openings(p) /\ owed' = owed
        /\ Rest(p)'[1] < Rest(p)[1]
        => F(5)
    BY <1>1
  <2>4. /\ Openings(p)' = Openings(p) /\ owed' = owed
        /\ Rest(p)'[1] = Rest(p)[1] /\ Rest(p)'[2] < Rest(p)[2]
        => F(6)
    BY <1>1
  <2>5. /\ Openings(p)' = Openings(p) /\ owed' = owed
        /\ Rest(p)'[1] = Rest(p)[1] /\ Rest(p)'[2] = Rest(p)[2]
        /\ Rest(p)'[3] < Rest(p)[3]
        => F(7)
    BY <1>1
  <2>6. /\ Openings(p)' = Openings(p) /\ owed' = owed
        /\ Rest(p)'[1] = Rest(p)[1] /\ Rest(p)'[2] = Rest(p)[2]
        /\ Rest(p)'[3] = Rest(p)[3] /\ OnTheWay(p)' < OnTheWay(p)
        => F(8)
    BY <1>1
  <2> HIDE DEF F
  <2>7. F(3) \/ F(4) \/ F(5) \/ F(6) \/ F(7) \/ F(8)
    BY <2>1, <2>2, <2>3, <2>4, <2>5, <2>6 DEF InPage
  <2>8. \E i \in 3..8 : F(i)
    BY <2>7
  <2> QED
    BY <2>8 DEF F
<1>3. \A j \in 1..(i - 1) : j = 1 \/ j = 2 \/ j \in 3..(i - 1)
  OBVIOUS
<1>4. i \in 1..8
  OBVIOUS
<1> QED
  BY <1>1, <1>2, <1>3, <1>4 DEF CloserPage

(* The tasks of the hub, and the connections that are left.                *)
LEMMA TaskOther ==
  ASSUME TypeOK, TaskInv, NEW d \in Connections, told' = told,
         \A c \in Connections \ {d} :
           /\ stream'[c] = stream[c] /\ hub'[c] = hub[c]
           /\ version'[c] = version[c] /\ result'[c] = result[c],
         /\ stream'[d] = "waiting" => hub'[d] # "none"
         /\ hub'[d] = "called" => told > version'[d]
         /\ hub'[d] = "done" => result'[d] > version'[d]
  PROVE  TaskInv'
BY DEF TaskInv

LEMMA TaskHandler ==
  ASSUME TypeOK, HubInv, TaskInv, NEW d \in Connections,
         HubTask(d) \/ Timeout(d) \/ Handler(d)
  PROVE  TaskInv'
<1>1. told' = told
  BY DEF HubTask, Ask, Called, Timeout, Handler, Serve, Wake, Receive,
         Disconnect, Leave
<1>2. \A c \in Connections \ {d} :
        /\ stream'[c] = stream[c] /\ hub'[c] = hub[c]
        /\ version'[c] = version[c] /\ result'[c] = result[c]
  BY DEF HubTask, Ask, Called, Timeout, Handler, Serve, Wake, Receive,
         DiscardResult, Disconnect, Leave, TypeOK
<1>3. HubInv!(d) /\ TaskInv!(d)
  BY DEF HubInv, TaskInv
<1>4. /\ stream'[d] = "waiting" => hub'[d] # "none"
      /\ hub'[d] = "called" => told > version'[d]
      /\ hub'[d] = "done" => result'[d] > version'[d]
  <2> DEFINE typed == /\ stream \in [Connections -> {"unused", "opening",
                           "observing", "waiting", "leaving", "ended"}]
                      /\ hub \in [Connections -> {"none", "asking", "asleep",
                           "called", "done"}]
                      /\ version \in [Connections -> Nat]
                      /\ result \in [Connections -> Nat]
  <2>1. typed
    BY DEF TypeOK
  <2>2. CASE Ask(d)
    BY <1>3, <2>1, <2>2 DEF Ask
  <2>3. CASE Called(d)
    BY <1>3, <2>1, <2>3 DEF Called
  <2>4. CASE Timeout(d)
    BY <1>3, <2>1, <2>4 DEF Timeout
  <2>5. CASE Serve(d)
    BY <1>3, <2>1, <2>5 DEF Serve
  <2>6. CASE Wake(d)
    BY <1>3, <2>1, <2>6 DEF Wake
  <2>7. CASE Receive(d)
    BY <1>3, <2>1, <2>7 DEF Receive, DiscardResult
  <2>8. CASE Disconnect(d)
    BY <1>3, <2>1, <2>8 DEF Disconnect
  <2>9. CASE Leave(d)
    BY <1>3, <2>1, <2>9 DEF Leave
  <2> QED
    BY <2>2, <2>3, <2>4, <2>5, <2>6, <2>7, <2>8, <2>9 DEF HubTask, Handler
<1> QED
  BY <1>1, <1>2, <1>4, TaskOther

LEMMA TaskNext ==
  ASSUME StreamInv, TaskInv, [Next]_vars
  PROVE  TaskInv'
<1> USE DEF StreamInv
<1>1. CASE Notify
  <2> SUFFICES ASSUME NEW c \in Connections PROVE TaskInv!(c)'
    BY DEF TaskInv
  <2>1. /\ hub'[c] = IF hub[c] = "asleep" THEN "called" ELSE hub[c]
        /\ told' = told + 1 /\ UNCHANGED <<stream, version, result>>
    BY <1>1 DEF Notify, WakeWaiters
  <2>2. told \in Nat /\ version[c] \in Nat /\ result[c] \in Nat
    BY DEF TypeOK
  <2>3. TaskInv!(c) /\ (hub[c] = "asleep" => told = version[c])
    BY DEF TaskInv, HubInv
  <2> QED
    BY <2>1, <2>2, <2>3
<1>2. CASE Restart
  BY <1>2 DEF Restart, TaskInv
<1>3. ASSUME NEW c \in Connections, HubTask(c) \/ Timeout(c) \/ Handler(c)
      PROVE  TaskInv'
  BY <1>3, TaskHandler
<1>4. ASSUME NEW p \in Pages, Connect(p) \/ Retry(p)
      PROVE  TaskInv'
  <2> DEFINE d == <<p, opened[p] + 1>>
  <2>1. Open(p)
    BY <1>4 DEF Connect, Retry
  <2>2. d \in Connections /\ d[1] = p /\ d[2] = opened[p] + 1
    BY <2>1, OpenFacts
  <2>3. opened[p] \in Nat
    BY DEF TypeOK
  <2>4. hub[d] = "none" /\ d[2] > opened[d[1]]
    <3>1. d[2] > opened[d[1]]
      BY <2>2, <2>3
    <3> HIDE DEF d
    <3> QED
      BY <2>2, <3>1 DEF HubInv
  <2>5. /\ stream' = [stream EXCEPT ![d] = "opening"]
        /\ version' = [version EXCEPT ![d] = told]
        /\ UNCHANGED <<told, hub, result>>
    BY <2>1 DEF Open
  <2> HIDE DEF d
  <2>6. \A c \in Connections \ {d} :
          /\ stream'[c] = stream[c] /\ hub'[c] = hub[c]
          /\ version'[c] = version[c] /\ result'[c] = result[c]
    BY <2>5 DEF TypeOK
  <2>7. stream'[d] = "opening" /\ hub'[d] = "none"
    BY <2>2, <2>4, <2>5 DEF TypeOK
  <2> QED
    BY <2>2, <2>5, <2>6, <2>7, TaskOther
<1>5. CASE UNCHANGED <<told, hub, stream, version, result>>
  BY <1>5 DEF TaskInv
<1>6. Command \/ UNCHANGED vars => UNCHANGED <<told, hub, stream, version, result>>
  BY DEF Command, vars, serverVars
<1>7. ASSUME NEW p \in Pages,
             Speak(p) \/ Cut(p) \/ Deliver(p) \/ Ingest(p) \/ Refuse(p)
      PROVE  UNCHANGED <<told, hub, stream, version, result>>
  BY <1>7 DEF Speak, Cut, Deliver, Ingest, Refuse, serverVars
<1> QED
  BY <1>1, <1>2, <1>3, <1>4, <1>5, <1>6, <1>7 DEF Next, Page

(* A page refuses nothing of the connection in use.                        *)
LEMMA RefuseOld ==
  ASSUME StreamInv, NEW p \in Pages, Refuse(p)
  PROVE  /\ UNCHANGED <<serverVars, inbox, spoken, opened, closed, wire>>
         /\ chain[p] # <<>> /\ chain' = [chain EXCEPT ![p] = Without(@, 1)]
<1>1. PICK i \in NextIngested(p) : Refuse(p)!(i)
  BY DEF Refuse
<1>2. i = 1 /\ chain[p] # <<>>
  BY FirstIngested DEF StreamInv
<1>3. Ready(p)
  BY DEF StreamInv, PageInv, PageOK
<1>4. ~(chain[p][1].connection >= first[p])
  BY <1>1, <1>2, <1>3 DEF Ready
<1> QED
  BY <1>1, <1>2, <1>4

LEMMA SpareNext ==
  ASSUME StreamInv, SpareInv, [Next]_vars
  PROVE  SpareInv'
<1> SUFFICES ASSUME NEW p \in Pages, Current(p)' \in closed'
             PROVE  Spare(p)'
  BY DEF SpareInv
<1>1. CASE opened'[p] = opened[p] /\ (Current(p) \in closed' => Current(p) \in closed)
  BY <1>1 DEF SpareInv, Spare, Current
<1>2. CASE opened'[p] = opened[p] /\ Spare(p)
  BY <1>2 DEF Spare
<1>3. CASE Command \/ Notify \/ UNCHANGED vars
  <2>1. UNCHANGED <<opened, closed>>
    BY <1>3 DEF Command, Notify, vars, pageVars
  <2> QED
    BY <1>1, <2>1
<1>4. CASE Restart
  BY <1>2, <1>4 DEF Restart
<1>5. ASSUME NEW c \in Connections, HubTask(c) \/ Timeout(c) \/ Handler(c)
      PROVE  Spare(p)'
  <2>1. UNCHANGED <<opened, closed>>
    BY <1>5 DEF HubTask, Ask, Called, Timeout, Handler, Serve, Wake, Receive,
                Disconnect, Leave, pageVars
  <2> QED
    BY <1>1, <2>1
<1>6. ASSUME NEW q \in Pages, Connect(q) \/ Retry(q)
      PROVE  Spare(p)'
  <2>1. Open(q)
    BY <1>6 DEF Connect, Retry
  <2>2. CASE p = q
    BY <2>1, <2>2, OpenFacts DEF StreamInv
  <2>3. CASE p # q
    <3>1. opened'[p] = opened[p] /\ closed' = closed
      BY <2>1, <2>3 DEF Open, StreamInv, TypeOK
    <3> QED
      BY <1>1, <3>1
  <2> QED
    BY <2>2, <2>3
<1>7. ASSUME NEW q \in Pages, Cut(q)
      PROVE  Spare(p)'
  <2>1. Spare(q) /\ opened' = opened /\ closed' = closed \cup {Current(q)}
    BY <1>7 DEF Cut, Close
  <2>2. CASE p = q
    BY <1>2, <2>1, <2>2
  <2>3. CASE p # q
    BY <1>1, <2>1, <2>3 DEF Current
  <2> QED
    BY <2>2, <2>3
<1>8. ASSUME NEW q \in Pages, Speak(q) \/ Deliver(q) \/ Ingest(q) \/ Refuse(q)
      PROVE  Spare(p)'
  <2>1. UNCHANGED <<opened, closed>>
    BY <1>8, RefuseOld DEF Speak, Deliver, Ingest, pageVars
  <2> QED
    BY <1>1, <2>1
<1> QED
  BY <1>3, <1>4, <1>5, <1>6, <1>7, <1>8 DEF Next, Page

(* A page that does not show the game as it is has something coming.       *)
LEMMA SomethingComes ==
  ASSUME StreamInv, TaskInv, SpareInv, NEW p \in Pages, ~Behind(p)
  PROVE  UpToDate(p)
<1> DEFINE c == Current(p)
<1>1. owed = 0 /\ wire[p] = <<>> /\ chain[p] = <<>>
  BY DEF Behind, Due, StreamInv, TypeOK
<1>2. Online(p)
  <2>1. CASE opened[p] > 0
    BY <2>1 DEF Behind, SpareInv, Online
  <2>2. CASE ~(opened[p] > 0)
    BY <2>2 DEF Behind, Spare, StreamInv, TypeOK
  <2> QED
    BY <2>1, <2>2
<1>3. c \in Connections /\ stream[c] = "waiting" /\ told - version[c] \in Nat
  BY <1>2, OnlineFacts DEF Behind
<1>4. view[p] = cursor[c] /\ cursor[c] # NoCursor
  <2>1. InUse(p)
    BY DEF StreamInv, PageInv, PageOK
  <2> QED
    BY <1>1, <1>2, <1>3, <2>1 DEF InUse, Online, Remembered
<1>5. cursor[c] \in Cursors
  BY <1>3, <1>4 DEF StreamInv, TypeOK
<1>6. ~(told > version[c])
  <2>1. hub[c] # "none" /\ (hub[c] = "asleep" => told = version[c])
    BY <1>3 DEF TaskInv, StreamInv, HubInv
  <2>2. hub[c] \in {"none", "asking", "asleep", "called", "done"}
          /\ told \in Nat /\ version[c] \in Nat
    BY <1>3 DEF StreamInv, TypeOK
  <2> QED
    BY <1>2, <1>3, <2>1, <2>2 DEF Behind
<1>7. cursor[c].revision = revision
  BY <1>1, <1>3, <1>6 DEF StreamInv, HubInv
<1>8. view[p] # NoView
  BY <1>4, <1>5
<1> QED
  BY <1>4, <1>7, <1>8 DEF UpToDate

LEMMA OnlineKept ==
  ASSUME NEW p \in Pages, opened'[p] = opened[p],
         Current(p) \in closed' <=> Current(p) \in closed
  PROVE  /\ Current(p)' = Current(p) /\ (Online(p)' <=> Online(p))
         /\ Openings(p)' = Openings(p)
BY DEF Current, Online, Openings

LEMMA RestKept ==
  ASSUME NEW p \in Pages, opened'[p] = opened[p],
         Current(p) \in closed' <=> Current(p) \in closed,
         Online(p) => /\ inbox'[Current(p)] = inbox[Current(p)]
                      /\ told' - version'[Current(p)] = told - version[Current(p)]
                      /\ Stage(Current(p))' = Stage(Current(p))
  PROVE  /\ Current(p)' = Current(p) /\ (Online(p)' <=> Online(p))
         /\ Openings(p)' = Openings(p) /\ Rest(p)' = Rest(p)
<1>1. Current(p)' = Current(p) /\ (Online(p)' <=> Online(p))
        /\ Openings(p)' = Openings(p)
  BY OnlineKept
<1>2. CASE Online(p)
  BY <1>1, <1>2 DEF Rest
<1>3. CASE ~Online(p)
  BY <1>1, <1>3 DEF Rest
<1> QED
  BY <1>1, <1>2, <1>3

\* A step that leaves the connection in use alone: only packets and changes
\* to announce may become fewer.
LEMMA AheadKept ==
  ASSUME NEW p \in Pages, UNCHANGED <<revision, spoken, owed>>,
         Openings(p)' = Openings(p), Rest(p)' = Rest(p),
         wire'[p] = wire[p], chain'[p] = chain[p]
  PROVE  UNCHANGED Ahead(p)
BY DEF Ahead, OnTheWay

LEMMA FewerPackets ==
  ASSUME StreamInv, NEW p \in Pages, UNCHANGED <<revision, spoken, owed>>,
         Openings(p)' = Openings(p), Rest(p)' = Rest(p),
         OnTheWay(p)' < OnTheWay(p)
  PROVE  CloserPage(p)
BY FallsInPage DEF InPage

(* Commands, announcements and the server's end.                           *)
LEMMA ServerAhead ==
  ASSUME StreamInv, StreamInv', NEW p \in Pages, Command \/ Notify
  PROVE  CloserPage(p)
<1>1. CASE Command
  <2>1. revision' > revision
    BY <1>1 DEF Command, StreamInv, TypeOK
  <2> QED
    BY <2>1, FallsFirst DEF StreamInv
<1>2. CASE Notify
  <2>1. UNCHANGED <<revision, spoken, opened, closed>> /\ owed' = owed - 1
    BY <1>2 DEF Notify, pageVars
  <2>2. Openings(p)' = Openings(p)
    BY <2>1, OnlineKept
  <2>3. owed' < owed
    BY <2>1 DEF StreamInv, TypeOK
  <2> QED
    BY <2>1, <2>2, <2>3, FallsInPage DEF InPage
<1> QED
  BY <1>1, <1>2

LEMMA LosesConnection ==
  ASSUME StreamInv, NEW p \in Pages, Online(p), opened'[p] = opened[p],
         Current(p) \in closed', UNCHANGED <<revision, spoken>>
  PROVE  CloserPage(p)
<1>1. Current(p)' = Current(p)
  BY DEF Current
<1>2. ~Online(p)'
  BY <1>1 DEF Online
<1>3. Openings(p)' = 2 * (MaxOpened - opened[p]) /\ opened[p] \in Nat
  BY <1>2 DEF Openings, StreamInv, TypeOK
<1>4. Openings(p) = 2 * (MaxOpened - opened[p]) + 1
  BY DEF Openings
<1>5. Openings(p)' < Openings(p)
  BY <1>3, <1>4
<1> QED
  BY <1>5, FallsInPage DEF InPage

LEMMA RestartAhead ==
  ASSUME StreamInv, NEW p \in Pages, Restart
  PROVE  CloserPage(p) \/ UNCHANGED Ahead(p)
<1> DEFINE pages == {q \in Pages : opened[q] > 0}
<1>1. /\ UNCHANGED <<revision, spoken, opened, chain>> /\ owed' = 0
      /\ closed' = closed \cup {Current(q) : q \in pages}
      /\ wire' = [q \in Pages |-> IF q \in pages THEN <<>> ELSE wire[q]]
  BY DEF Restart, Close
<1>2. CASE Online(p)
  <2>1. Current(p) \in closed'
    BY <1>1, <1>2 DEF Online
  <2> QED
    BY <1>1, <1>2, <2>1, LosesConnection
<1>3. CASE ~Online(p)
  <2>1. ~Online(p)' /\ Current(p)' = Current(p)
    BY <1>1, <1>3 DEF Online, Current
  <2>2. Rest(p)' = Rest(p) /\ Openings(p)' = Openings(p)
    BY <1>1, <1>3, <2>1 DEF Rest, Openings
  <2>3. wire'[p] = wire[p]
    <3>1. Opened(p)
      BY DEF StreamInv, PageInv, PageOK
    <3>2. CASE p \in pages
      BY <1>1, <1>3, <3>1, <3>2 DEF Opened, Online
    <3>3. CASE p \notin pages
      BY <1>1, <3>3
    <3> QED
      BY <3>2, <3>3
  <2>4. CASE owed = 0
    BY <1>1, <2>2, <2>3, <2>4, AheadKept
  <2>5. CASE owed # 0
    <3>1. owed' < owed
      BY <1>1, <2>5 DEF StreamInv, TypeOK
    <3> QED
      BY <1>1, <2>2, <3>1, FallsInPage DEF InPage
  <2> QED
    BY <2>4, <2>5
<1> QED
  BY <1>2, <1>3

(* The tasks and handlers of connections.                                  *)
LEMMA HandlerKeeps ==
  ASSUME NEW d \in Connections, HubTask(d) \/ Timeout(d) \/ Handler(d)
  PROVE  UNCHANGED <<revision, spoken, owed, told, opened, closed, chain>>
BY DEF HubTask, Ask, Called, Timeout, Handler, Serve, Wake, Receive,
       Disconnect, Leave, pageVars

\* The connection in use: what its handler and its task do.
LEMMA HandlerHelps ==
  ASSUME StreamInv, TaskInv, NEW p \in Pages, Online(p),
         NEW c \in Connections, c = Current(p),
         Handler(c) \/ Called(c) \/ (Ask(c) /\ told > version[c])
  PROVE  CloserPage(p)
<1>1. /\ c \notin closed
      /\ stream[c] \in {"opening", "observing", "waiting"}
      /\ told - version[c] \in Nat
  BY OnlineFacts
<1>2. UNCHANGED <<revision, spoken, owed, told, opened, closed, chain>>
  BY HandlerKeeps DEF HubTask
<1>3. /\ Current(p)' = c /\ Online(p)'
      /\ Openings(p)' = Openings(p)
  BY <1>2, OnlineKept
<1>4. /\ Rest(p) = <<inbox[c], told - version[c], Stage(c)>>
      /\ Rest(p)' = <<inbox'[c], told' - version'[c], Stage(c)'>>
  <2>1. Rest(p) = <<inbox[c], told - version[c], Stage(c)>>
    BY DEF Rest
  <2>2. Rest(p)' = <<inbox'[c], told' - version'[c], Stage(c)'>>
    BY <1>3 DEF Rest
  <2> QED
    BY <2>1, <2>2
<1>5. /\ told \in Nat /\ version[c] \in Nat /\ inbox[c] \in Nat
      /\ (hub[c] # "none" => stream[c] = "waiting")
      /\ (hub[c] = "called" => told > version[c])
      /\ (hub[c] = "done" => result[c] > version[c])
      /\ result[c] <= told /\ result[c] \in Nat
  BY DEF StreamInv, HubInv, TaskInv, TypeOK
<1>6. CASE Ask(c) /\ told > version[c]
  <2>1. /\ hub'[c] = "done" /\ stream' = stream /\ version' = version
        /\ inbox' = inbox /\ hub[c] = "asking"
    BY <1>6 DEF Ask, StreamInv, TypeOK
  <2>2. Stage(c) = 1 /\ Stage(c)' = 0
    BY <1>5, <2>1 DEF Stage
  <2> QED
    BY <1>2, <1>3, <1>4, <2>1, <2>2, FallsInPage DEF InPage
<1>7. CASE Called(c)
  <2>1. /\ hub'[c] = "done" /\ stream' = stream /\ version' = version
        /\ inbox' = inbox /\ hub[c] = "called"
    BY <1>7 DEF Called, StreamInv, TypeOK
  <2>2. Stage(c) = 1 /\ Stage(c)' = 0
    BY <1>5, <2>1 DEF Stage
  <2> QED
    BY <1>2, <1>3, <1>4, <2>1, <2>2, FallsInPage DEF InPage
<1>8. CASE Serve(c)
  <2>1. /\ stream[c] \in {"opening", "observing"}
        /\ stream'[c] = "waiting" /\ hub'[c] = "asking"
        /\ version' = version /\ inbox' = inbox
    BY <1>1, <1>8 DEF Serve, StreamInv, TypeOK
  <2>2. Stage(c) = 2 /\ Stage(c)' = 1
    BY <2>1 DEF Stage
  <2> QED
    BY <1>2, <1>3, <1>4, <2>1, <2>2, FallsInPage DEF InPage
<1>9. CASE Wake(c)
  <2>1. hub[c] = "done" /\ version'[c] = result[c] /\ inbox' = inbox
    BY <1>9 DEF Wake, StreamInv, TypeOK
  <2>2. told' - version'[c] < told - version[c]
    BY <1>2, <1>5, <2>1
  <2> QED
    BY <1>2, <1>3, <1>4, <2>1, <2>2, FallsInPage DEF InPage
<1>10. CASE Receive(c)
  <2>1. inbox'[c] = inbox[c] - 1 /\ inbox[c] > 0
    BY <1>10 DEF Receive, StreamInv, TypeOK
  <2>2. inbox'[c] < inbox[c]
    BY <1>5, <2>1
  <2> QED
    BY <1>2, <1>3, <1>4, <2>2, FallsInPage DEF InPage
<1>11. ~Disconnect(c) /\ ~Leave(c)
  BY <1>1 DEF Disconnect, Leave
<1> QED
  BY <1>6, <1>7, <1>8, <1>9, <1>10, <1>11 DEF Handler

\* Other connections, timeouts, and a task that finds nothing new.
LEMMA OtherHandlers ==
  ASSUME StreamInv, NEW p \in Pages, NEW d \in Connections,
         \/ HubTask(d) \/ Timeout(d) \/ Handler(d),
         \/ ~Online(p) \/ d # Current(p)
         \/ Timeout(d) \/ (Ask(d) /\ ~(told > version[d]))
  PROVE  UNCHANGED Ahead(p)
<1>1. UNCHANGED <<revision, spoken, owed, told, opened, closed, chain>>
  BY HandlerKeeps
<1>2. wire'[p] = wire[p]
  <2>1. CASE Serve(d) /\ d[1] = p
    <3>1. ~Timeout(d) /\ ~Ask(d)
      BY <2>1 DEF Serve, Timeout, Ask, StreamInv, HubInv
    <3>2. d = <<p, d[2]>> /\ d[2] \in 1 .. MaxOpened /\ stream[d] # "unused"
      BY <2>1, ConnectionFacts DEF Serve
    <3>3. d[2] <= opened[p] /\ (d[2] < opened[p] => d \in closed)
            /\ opened[p] \in Nat
      BY <2>1, <3>2 DEF StreamInv, ConnectionInv, TypeOK
    <3>4. d[2] = opened[p] => d = Current(p) /\ opened[p] > 0
      BY <3>2 DEF Current
    <3>5. d \in closed
      BY <3>1, <3>2, <3>3, <3>4 DEF Online
    <3> QED
      BY <2>1, <3>5 DEF Serve
  <2>2. CASE Serve(d) /\ d[1] # p
    BY <2>2 DEF Serve, StreamInv, TypeOK
  <2>3. CASE ~Serve(d)
    BY <2>3 DEF HubTask, Ask, Called, Timeout, Handler, Wake, Receive,
       Disconnect, Leave, pageVars
  <2> QED
    BY <2>1, <2>2, <2>3
<1>3. \A c \in Connections \ {d} :
        /\ inbox'[c] = inbox[c] /\ version'[c] = version[c]
        /\ stream'[c] = stream[c] /\ hub'[c] = hub[c]
  BY DEF HubTask, Ask, Called, Timeout, Handler, Serve, Wake, Receive,
         DiscardResult, Disconnect, Leave, StreamInv, TypeOK
<1>4. Current(p)' = Current(p)
  BY <1>1, OnlineKept
<1>5. CASE ~Online(p) \/ d # Current(p)
  <2>1. Online(p) => /\ inbox'[Current(p)] = inbox[Current(p)]
                     /\ told' - version'[Current(p)] = told - version[Current(p)]
                     /\ Stage(Current(p))' = Stage(Current(p))
    BY <1>1, <1>3, <1>4, <1>5, OnlineFacts DEF Stage
  <2> QED
    BY <1>1, <1>2, <2>1, RestKept, AheadKept
<1>6. CASE /\ Online(p) /\ d = Current(p)
           /\ Timeout(d) \/ (Ask(d) /\ ~(told > version[d]))
  <2>1. /\ UNCHANGED <<inbox, version, stream>>
        /\ hub[d] # "done" /\ hub'[d] # "done"
    BY <1>6 DEF Timeout, Ask, StreamInv, TypeOK
  <2>2. Stage(Current(p))' = Stage(Current(p))
    BY <1>4, <1>6, <2>1 DEF Stage
  <2> QED
    BY <1>1, <1>2, <2>1, <2>2, RestKept, AheadKept
<1> QED
  BY <1>5, <1>6

(* A packet moves from the wire to the chain, or leaves the chain.         *)
LEMMA Fewer ==
  ASSUME NEW w \in Nat, NEW k \in Nat, NEW x \in Int, NEW y \in Int,
         \/ x = w - 1 /\ y = k + 1
         \/ x = w /\ y = k - 1
  PROVE  2 * x + y < 2 * w + k
OBVIOUS

(* The page itself.                                                        *)
LEMMA PageSteps ==
  ASSUME StreamInv, NEW p \in Pages, Page(p) \/ Retry(p)
  PROVE  CloserPage(p)
<1>1. CASE Connect(p) \/ Retry(p)
  <2>1. Open(p) /\ ~Online(p)
    BY <1>1 DEF Connect, Retry, Online
  <2>2. UNCHANGED <<revision, spoken>> /\ opened'[p] = opened[p] + 1
    BY <2>1 DEF Open, StreamInv, TypeOK
  <2>3. opened[p] \in Nat
    BY DEF StreamInv, TypeOK
  <2>4. Openings(p) = 2 * (MaxOpened - opened[p])
    BY <2>1, <2>3 DEF Openings
  <2>5. Openings(p)' <= 2 * (MaxOpened - (opened[p] + 1)) + 1
    BY <2>2, <2>3 DEF Openings
  <2>6. Openings(p)' \in Int
    BY <2>2, <2>3 DEF Openings
  <2>7. Openings(p)' < Openings(p)
    BY <2>3, <2>4, <2>5, <2>6
  <2> QED
    BY <2>2, <2>7, FallsInPage DEF InPage
<1>2. CASE Deliver(p) \/ Ingest(p) \/ Refuse(p)
  <2>1. UNCHANGED <<serverVars, inbox, spoken, opened, closed>>
    BY <1>2, RefuseOld DEF Deliver, Ingest
  <2>2. Openings(p)' = Openings(p) /\ Rest(p)' = Rest(p)
          /\ UNCHANGED <<revision, owed>>
    <3>1. UNCHANGED <<told, version, stream, hub, revision, owed>>
      BY <2>1 DEF serverVars
    <3>2. Current(p)' = Current(p)
      BY <2>1 DEF Current
    <3>3. Stage(Current(p))' = Stage(Current(p))
      BY <3>1, <3>2 DEF Stage
    <3> QED
      BY <2>1, <3>1, <3>3, RestKept
  <2>3. wire[p] \in Seq(Packets) /\ chain[p] \in Seq(Packets)
    BY DEF StreamInv, TypeOK
  <2>4. Len(wire[p]) \in Nat /\ Len(chain[p]) \in Nat
    BY <2>3, LenProperties
  <2> DEFINE w == Len(wire[p])
             k == Len(chain[p])
             x == Len(wire'[p])
             y == Len(chain'[p])
  <2>7. OnTheWay(p) = 2 * w + k /\ OnTheWay(p)' = 2 * x + y
    BY DEF OnTheWay
  <2>8. w \in Nat /\ k \in Nat
    BY <2>4
  <2>9. ASSUME Deliver(p) PROVE 2 * x + y < 2 * w + k
    <3>1. /\ wire[p] # <<>> /\ wire'[p] = Tail(wire[p])
          /\ chain'[p] = Append(chain[p], Head(wire[p]))
      BY <2>9 DEF Deliver, StreamInv, TypeOK
    <3>2. x = w - 1
      BY <2>3, <3>1, HeadTailProperties
    <3>3. y = k + 1
      BY <2>3, <3>1, HeadTailProperties, AppendProperties
    <3> HIDE DEF w, k, x, y
    <3> QED
      BY <2>8, <3>2, <3>3, Fewer
  <2>10. ASSUME Ingest(p) \/ Refuse(p) PROVE 2 * x + y < 2 * w + k
    <3>1. wire'[p] = wire[p] /\ chain[p] # <<>>
            /\ chain' = [chain EXCEPT ![p] = Without(@, 1)]
      BY <2>10, RefuseOld, FirstIngested DEF Ingest, StreamInv
    <3>2. chain'[p] = Without(chain[p], 1)
      BY <3>1 DEF StreamInv, TypeOK
    <3>3. x = w /\ y = k - 1
      BY <2>3, <3>1, <3>2, WithoutFirst
    <3> HIDE DEF w, k, x, y
    <3> QED
      BY <2>8, <3>3, Fewer
  <2>6. OnTheWay(p)' < OnTheWay(p)
    <3> HIDE DEF w, k, x, y
    <3>1. 2 * x + y < 2 * w + k
      BY <1>2, <2>9, <2>10
    <3> QED
      BY <2>7, <3>1
  <2> QED
    BY <2>1, <2>2, <2>6, FewerPackets
<1> QED
  BY <1>1, <1>2 DEF Page

LEMMA SpeakCloser ==
  ASSUME StreamInv, StreamInv', NEW p \in Pages, NEW q \in Pages, Speak(q)
  PROVE  CloserPage(p)
<1>1. revision' = revision /\ spoken' > spoken
  BY DEF Speak, serverVars, StreamInv, TypeOK
<1> QED
  BY <1>1, FallsFirst DEF StreamInv

LEMMA CutCloser ==
  ASSUME StreamInv, NEW p \in Pages, Cut(p)
  PROVE  CloserPage(p)
<1>1. /\ Online(p) /\ UNCHANGED <<revision, spoken>>
      /\ opened' = opened /\ closed' = closed \cup {Current(p)}
  BY DEF Cut, Close, Online, serverVars
<1> QED
  BY <1>1, LosesConnection

(* What another page does.                                                 *)
LEMMA OtherPages ==
  ASSUME StreamInv, NEW p \in Pages, NEW q \in Pages \ {p},
         Page(q) \/ Retry(q) \/ Cut(q)
  PROVE  UNCHANGED Ahead(p)
<1>1. CASE Connect(q) \/ Retry(q)
  <2>1. Open(q)
    BY <1>1 DEF Connect, Retry
  <2> DEFINE d == <<q, opened[q] + 1>>
  <2>2. d \in Connections /\ d # Current(p)
    BY <2>1, OpenFacts DEF StreamInv, Current
  <2>3. /\ UNCHANGED <<revision, spoken, owed, told, hub, inbox, closed, wire, chain>>
        /\ opened'[p] = opened[p]
        /\ stream' = [stream EXCEPT ![d] = "opening"]
        /\ version' = [version EXCEPT ![d] = told]
    BY <2>1 DEF Open, StreamInv, TypeOK
  <2> HIDE DEF d
  <2>4. Current(p)' = Current(p)
    BY <2>3 DEF Current
  <2>5. Online(p) => /\ version'[Current(p)] = version[Current(p)]
                     /\ Stage(Current(p))' = Stage(Current(p))
    <3> SUFFICES ASSUME Online(p)
                 PROVE  /\ version'[Current(p)] = version[Current(p)]
                        /\ Stage(Current(p))' = Stage(Current(p))
      OBVIOUS
    <3>1. Current(p) \in Connections
      BY OnlineFacts
    <3>2. /\ version'[Current(p)] = version[Current(p)]
          /\ stream'[Current(p)] = stream[Current(p)]
      BY <2>2, <2>3, <3>1 DEF StreamInv, TypeOK
    <3> QED
      BY <2>3, <2>4, <3>2 DEF Stage
  <2> QED
    BY <2>3, <2>5, RestKept, AheadKept
<1>2. CASE Deliver(q) \/ Ingest(q) \/ Refuse(q) \/ Cut(q)
  <2>1. UNCHANGED <<serverVars, inbox, spoken, opened>>
    BY <1>2, RefuseOld DEF Deliver, Ingest, Cut
  <2>2. wire'[p] = wire[p] /\ chain'[p] = chain[p]
    BY <1>2, RefuseOld DEF Deliver, Ingest, Cut, Close, StreamInv, TypeOK
  <2>3. Current(p) \in closed' <=> Current(p) \in closed
    <3>1. Current(q) # Current(p)
      BY DEF Current
    <3> QED
      BY <1>2, <3>1, RefuseOld DEF Deliver, Ingest, Cut, Close
  <2>4. UNCHANGED <<told, version, stream, hub, revision, owed>>
          /\ Current(p)' = Current(p)
    BY <2>1 DEF serverVars, Current
  <2>5. Stage(Current(p))' = Stage(Current(p))
    BY <2>4 DEF Stage
  <2> QED
    BY <2>1, <2>2, <2>3, <2>4, <2>5, RestKept, AheadKept
<1> QED
  BY <1>1, <1>2 DEF Page

LEMMA HelpStep ==
  ASSUME StreamInv, StreamInv', TaskInv, NEW p \in Pages,
         Helps(p) \/ Command \/ Retry(p)
  PROVE  CloserPage(p)
<1>1. CASE Notify \/ Command
  BY <1>1, ServerAhead
<1>2. CASE Page(p) \/ Retry(p)
  BY <1>2, PageSteps
<1>3. ASSUME Online(p), \/ Handler(Current(p))
                        \/ /\ HubTask(Current(p))
                           /\ told > version[Current(p)]
      PROVE  CloserPage(p)
  BY <1>3, OnlineFacts, HandlerHelps DEF HubTask
<1> QED
  BY <1>1, <1>2, <1>3 DEF Helps

LEMMA AheadStep ==
  ASSUME StreamInv, StreamInv', TaskInv, [Next]_vars, NEW p \in Pages
  PROVE  CloserPage(p) \/ UNCHANGED Ahead(p)
<1>1. CASE Command \/ Notify
  BY <1>1, ServerAhead
<1>2. CASE Restart
  BY <1>2, RestartAhead
<1>3. ASSUME NEW d \in Connections, HubTask(d) \/ Timeout(d) \/ Handler(d)
      PROVE  CloserPage(p) \/ UNCHANGED Ahead(p)
  <2>1. CASE \/ ~Online(p) \/ d # Current(p)
             \/ Timeout(d) \/ (Ask(d) /\ ~(told > version[d]))
    BY <1>3, <2>1, OtherHandlers
  <2>2. CASE /\ Online(p) /\ d = Current(p)
             /\ \/ Handler(d) \/ Called(d)
                \/ Ask(d) /\ told > version[d]
    BY <2>2, HandlerHelps
  <2> QED
    BY <1>3, <2>1, <2>2 DEF HubTask
<1>4. ASSUME NEW q \in Pages, Page(q) \/ Retry(q) \/ Speak(q) \/ Cut(q)
      PROVE  CloserPage(p) \/ UNCHANGED Ahead(p)
  <2>1. CASE q = p
    BY <1>4, <2>1, PageSteps, SpeakCloser, CutCloser
  <2>2. CASE q # p
    BY <1>4, <2>2, OtherPages, SpeakCloser
  <2> QED
    BY <2>1, <2>2
<1>5. CASE UNCHANGED vars
  BY <1>5 DEF vars, serverVars, pageVars, Ahead, OnTheWay, Openings, Rest,
              Online, Current, Stage
<1> QED
  BY <1>1, <1>2, <1>3, <1>4, <1>5 DEF Next

(* Every page catches up.  A page that does not show the game as it is has *)
(* something coming: a change to announce, a connection to open, a packet  *)
(* to deliver or to ingest, or a handler or a task of its connection that  *)
(* goes on.  Each step that does such a thing, and each change, message    *)
(* and loss of its connection, makes Ahead(p) fall, eight natural numbers  *)
(* of which the first that changes gets smaller, and no other step touches *)
(* them: a timeout, an old connection's handler and another page take      *)
(* nothing back.  So once changes, messages and losses end, the handlers   *)
(* of stream_session and the page's effect bring the page to the last      *)
(* revision whatever their order and without the timeout (PagesCatchUp     *)
(* says the same of every fair behaviour).                                 *)
THEOREM PagesComeCloser ==
  Spec => /\ [](\A p \in Pages :
                  /\ \A i \in 1..8 : Ahead(p)[i] \in Nat
                  /\ UpToDate(p) \/ Behind(p))
          /\ [][ \A p \in Pages :
                   /\ CloserPage(p) \/ UNCHANGED Ahead(p)
                   /\ Helps(p) \/ Command \/ Retry(p) => CloserPage(p) ]_vars
  <1> DEFINE J == \A p \in Pages :
                    /\ \A i \in 1..8 : Ahead(p)[i] \in Nat
                    /\ UpToDate(p) \/ Behind(p)
             A == \A p \in Pages :
                    /\ CloserPage(p) \/ UNCHANGED Ahead(p)
                    /\ Helps(p) \/ Command \/ Retry(p) => CloserPage(p)
             I == StreamInv /\ TaskInv /\ SpareInv
  <1>1. Init => I
    <2>1. ASSUME Init PROVE TaskInv /\ SpareInv
      BY <2>1 DEF Init, TaskInv, SpareInv
    <2> QED
      BY <2>1, TypeInit, HubInit, PageInit DEF StreamInv
  <1>2. I /\ [Next]_vars => I'
    BY StreamNext, TaskNext, SpareNext
  <1>3. I => J
    <2> SUFFICES ASSUME I, NEW p \in Pages
                 PROVE  /\ \A i \in 1..8 : Ahead(p)[i] \in Nat
                        /\ UpToDate(p) \/ Behind(p)
      OBVIOUS
    <2>2. /\ MaxRevision - revision \in Nat /\ MaxSpoken - spoken \in Nat
          /\ Openings(p) \in Nat /\ owed \in Nat
          /\ Rest(p)[1] \in Nat /\ Rest(p)[2] \in Nat /\ Rest(p)[3] \in Nat
          /\ OnTheWay(p) \in Nat
      BY AheadNatural
    <2>1. \A i \in 1..8 : Ahead(p)[i] \in Nat
      BY <2>2 DEF Ahead
    <2> QED
      BY <2>1, SomethingComes
  <1>4. I /\ I' /\ [Next]_vars => [A]_vars
    BY AheadStep, HelpStep
  <1> HIDE DEF J, A, I
  <1>5. Spec => []I
    BY <1>1, <1>2, PTL DEF Spec
  <1>6. Spec => []J
    BY <1>3, <1>5, PTL
  <1>7. Spec => [][A]_vars
    BY <1>4, <1>5, PTL DEF Spec
  <1> QED
    BY <1>6, <1>7 DEF J, A
=============================================================================
