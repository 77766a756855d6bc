----------------------------- MODULE RoomsProofs -----------------------------
(***************************************************************************)
(* Proofs about the tables of rooms, for any number of rooms, guests,      *)
(* seats, decks, games and invite codes.                                   *)
(***************************************************************************)
EXTENDS Rooms, TLAPS

(* A game that is starting is that of an open room, whose seats cannot     *)
(* change before the second write.                                         *)
StartStands ==
  starting # None =>
    /\ IsOpen(starting.room)
    /\ game[starting.game] = None
    /\ record[starting.game] = Lineup(starting.room)

IInv ==
  /\ TypeOK
  /\ PlayersAreSeated
  /\ DecksOfSeats
  /\ StartStands
  /\ GamesAreRecorded

-----------------------------------------------------------------------------
(* The rows that the operations write.                                     *)

LEMMA RowTypes ==
  ASSUME TypeOK
  PROVE  /\ \A r \in RoomIds : room[r] # None => room[r] \in RoomRows
         /\ \A r \in RoomIds, s \in Seats : seat[r][s] \in SeatRows
         /\ \A x \in Games :
              game[x] # None => game[x] \in GameRows
         /\ Vacant \in SeatRows
         /\ starting # None => starting \in Starts
  BY RoomsAssumption DEF TypeOK, SeatRows, RoomRows, Vacant

LEMMA NewRowTypes ==
  ASSUME TypeOK, NEW g \in Guests, codes < MaxCodes
  PROVE  /\ NewRoom(g) \in RoomRows
         /\ NewSeats(g) \in [Seats -> SeatRows]
         /\ NewMembers(g) \in [Guests -> {"none", "player", "spectator"}]
         /\ codes + 1 \in 0 .. MaxCodes
<1>1. codes + 1 \in 0 .. MaxCodes
  BY RoomsAssumption DEF TypeOK
<1>2. NewRoom(g) \in RoomRows
  BY <1>1 DEF NewRoom, RoomRows
<1>3. Vacant \in SeatRows /\ [Vacant EXCEPT !.guest = g] \in SeatRows
  BY DEF Vacant, SeatRows
<1>4. NewSeats(g) \in [Seats -> SeatRows]
  BY <1>3 DEF NewSeats
<1>5. NewMembers(g) \in [Guests -> {"none", "player", "spectator"}]
  BY DEF NewMembers
<1> QED
  BY <1>1, <1>2, <1>4, <1>5

(* Rows of decks that are deleted, at whatever seats.                      *)
LEMMA DeleteType ==
  ASSUME TypeOK, NEW ids \in SUBSET (Decks \cup {None}), DeleteDecks(ids)
  PROVE  /\ deck' \in [Decks -> Guests \cup {None}]
         /\ gone' \subseteq {d \in Decks : deck'[d] = None}
  BY RoomsAssumption DEF TypeOK, DeleteDecks

LEMMA VacateType ==
  ASSUME TypeOK, NEW r \in RoomIds, NEW s \in Seats, seat[r][s].guest # None,
         Vacate(r, s)
  PROVE  /\ seat' \in [RoomIds -> [Seats -> SeatRows]]
         /\ \A q \in RoomIds, t \in Seats : seat'[q][t].ready <=> seat'[q][t].deck # None
         /\ member' \in [RoomIds -> [Guests -> {"none", "player", "spectator"}]]
         /\ deck' \in [Decks -> Guests \cup {None}]
         /\ gone' \subseteq {d \in Decks : deck'[d] = None}
<1>1. seat[r][s] \in SeatRows /\ Vacant \in SeatRows
  BY RowTypes
<1>2. Vacant.ready = FALSE /\ Vacant.deck = None
  BY DEF Vacant
<1>3. seat' \in [RoomIds -> [Seats -> SeatRows]]
  BY <1>1 DEF Vacate, TypeOK
<1>4. \A q \in RoomIds, t \in Seats :
        seat'[q][t] = IF q = r /\ t = s THEN Vacant ELSE seat[q][t]
  BY DEF Vacate, TypeOK
<1>5. \A q \in RoomIds, t \in Seats : seat'[q][t].ready <=> seat'[q][t].deck # None
  BY <1>2, <1>4 DEF TypeOK
<1>6. member' \in [RoomIds -> [Guests -> {"none", "player", "spectator"}]]
  BY <1>1 DEF Vacate, TypeOK, SeatRows
<1>7. /\ deck' \in [Decks -> Guests \cup {None}]
      /\ gone' \subseteq {d \in Decks : deck'[d] = None}
  BY <1>1, DeleteType DEF Vacate, SeatRows
<1> QED
  BY <1>3, <1>5, <1>6, <1>7

LEMMA TypeStep ==
  ASSUME TypeOK, GamesAreRecorded, [Next]_vars
  PROVE  TypeOK'
<1> USE DEF GameStatuses
<1>1. ASSUME NEW r \in RoomIds, NEW g \in Guests, CreateRoom(r, g)
      PROVE  TypeOK'
  <2>1. /\ room' \in [RoomIds -> RoomRows \cup {None}]
        /\ seat' \in [RoomIds -> [Seats -> SeatRows]]
        /\ member' \in [RoomIds -> [Guests -> {"none", "player", "spectator"}]]
        /\ codes' \in 0 .. MaxCodes
    BY <1>1, NewRowTypes DEF CreateRoom, TypeOK
  <2>2. \A q \in RoomIds, t \in Seats : seat'[q][t].ready <=> seat'[q][t].deck # None
    BY <1>1 DEF CreateRoom, TypeOK, NewSeats, Vacant
  <2> QED
    BY <1>1, <2>1, <2>2 DEF CreateRoom, TypeOK
<1>2. ASSUME NEW r \in RoomIds, NEW n \in RoomIds \ {r}, NEW g \in Guests,
             ReplaceRoom(r, n, g)
      PROVE  TypeOK'
  <2>1. room[r] \in RoomRows /\ NewRoom(g) \in RoomRows /\ codes + 1 \in 0 .. MaxCodes
    BY <1>2, RowTypes, NewRowTypes DEF ReplaceRoom, IsOpen
  <2>2. room' \in [RoomIds -> RoomRows \cup {None}]
    <3>1. [room[r] EXCEPT !.status = "closed"] \in RoomRows
      BY <2>1 DEF RoomRows
    <3>2. Secret \in 0 .. MaxCodes
      BY RoomsAssumption DEF Secret
    <3>3. [[room[r] EXCEPT !.status = "closed"] EXCEPT !.invite = Secret] \in RoomRows
      BY <3>1, <3>2 DEF RoomRows
    <3> QED
      BY <1>2, <2>1, <3>3 DEF ReplaceRoom, TypeOK
  <2>3. \A t \in Seats : WithoutDecks(seat[r][t]) \in SeatRows
    BY RowTypes DEF WithoutDecks, SeatRows
  <2>4. seat' \in [RoomIds -> [Seats -> SeatRows]]
    BY <1>2, <2>3, NewRowTypes DEF ReplaceRoom, TypeOK
  <2>5. member' \in [RoomIds -> [Guests -> {"none", "player", "spectator"}]]
    BY <1>2, NewRowTypes DEF ReplaceRoom, TypeOK
  <2>6. \A q \in RoomIds, t \in Seats : seat'[q][t].ready <=> seat'[q][t].deck # None
    <3>1. \A t \in Seats : WithoutDecks(seat[r][t]).ready = FALSE
                           /\ WithoutDecks(seat[r][t]).deck = None
      BY RowTypes DEF WithoutDecks, SeatRows
    <3>2. \A t \in Seats : NewSeats(g)[t].ready = FALSE /\ NewSeats(g)[t].deck = None
      BY DEF NewSeats, Vacant
    <3>3. \A q \in RoomIds, t \in Seats :
            seat'[q][t] = IF q = n THEN NewSeats(g)[t]
                          ELSE IF q = r THEN WithoutDecks(seat[r][t])
                          ELSE seat[q][t]
      BY <1>2 DEF ReplaceRoom, TypeOK
    <3>4. ASSUME NEW q \in RoomIds, NEW t \in Seats
          PROVE  seat'[q][t].ready <=> seat'[q][t].deck # None
      <4>1. CASE q = n
        BY <3>2, <3>3, <4>1
      <4>2. CASE q # n /\ q = r
        BY <3>1, <3>3, <4>2
      <4>3. CASE q # n /\ q # r
        <5>1. seat'[q][t] = seat[q][t]
          BY <3>3, <4>3
        <5> QED
          BY <5>1 DEF TypeOK
      <4> QED
        BY <4>1, <4>2, <4>3
    <3> QED
      BY <3>4
  <2>7. DecksIn(r) \in SUBSET (Decks \cup {None})
    BY RowTypes DEF DecksIn, SeatRows
  <2>8. /\ deck' \in [Decks -> Guests \cup {None}]
        /\ gone' \subseteq {d \in Decks : deck'[d] = None}
    BY <1>2, <2>7, DeleteType DEF ReplaceRoom
  <2> QED
    BY <1>2, <2>1, <2>2, <2>4, <2>5, <2>6, <2>8 DEF ReplaceRoom, TypeOK
<1>3. ASSUME NEW r \in RoomIds, NEW g \in Guests, RotateInvite(r, g)
      PROVE  TypeOK'
  <2>1. room[r] \in RoomRows /\ codes + 1 \in 0 .. MaxCodes
    BY <1>3, RowTypes, NewRowTypes DEF RotateInvite, IsOpen
  <2>2. [room[r] EXCEPT !.invite = codes + 1] \in RoomRows
    BY <2>1 DEF RoomRows
  <2> QED
    BY <1>3, <2>1, <2>2 DEF RotateInvite, TypeOK
<1>4. ASSUME NEW r \in RoomIds, NEW g \in Guests, NEW c \in 1 .. codes, NEW s \in Seats,
             JoinRoom(r, g, c, s)
      PROVE  TypeOK'
  <2>1. seat[r][s] \in SeatRows
    BY RowTypes
  <2>2. [seat[r][s] EXCEPT !.guest = g] \in SeatRows
    BY <2>1 DEF SeatRows
  <2>3. /\ [seat[r][s] EXCEPT !.guest = g].ready = seat[r][s].ready
        /\ [seat[r][s] EXCEPT !.guest = g].deck = seat[r][s].deck
    BY <2>1 DEF SeatRows
  <2>4. \A q \in RoomIds, t \in Seats :
          seat'[q][t] = IF q = r /\ t = s THEN [seat[r][s] EXCEPT !.guest = g]
                        ELSE seat[q][t]
    BY <1>4 DEF JoinRoom, TypeOK
  <2>5. seat' \in [RoomIds -> [Seats -> SeatRows]]
    BY <1>4, <2>2 DEF JoinRoom, TypeOK
  <2>6. \A q \in RoomIds, t \in Seats : seat'[q][t].ready <=> seat'[q][t].deck # None
    <3> SUFFICES ASSUME NEW q \in RoomIds, NEW t \in Seats
                 PROVE  seat'[q][t].ready <=> seat'[q][t].deck # None
      OBVIOUS
    <3>1. seat'[q][t].ready = seat[q][t].ready /\ seat'[q][t].deck = seat[q][t].deck
      BY <2>3, <2>4
    <3>2. seat[q][t].ready <=> seat[q][t].deck # None
      BY DEF TypeOK
    <3> QED
      BY <3>1, <3>2, Zenon
  <2> QED
    BY <1>4, <2>5, <2>6 DEF JoinRoom, TypeOK
<1>5. ASSUME NEW r \in RoomIds, NEW g \in Guests, NEW c \in 1 .. codes,
             JoinSpectator(r, g, c)
      PROVE  TypeOK'
  BY <1>5 DEF JoinSpectator, RoleToWatch, TypeOK
<1>6. ASSUME NEW r \in RoomIds, NEW g \in Guests, NEW s \in Seats,
             RemoveSeat(r, g, s) \/ LeaveSeat(r, g, s)
      PROVE  TypeOK'
  <2>1. seat[r][s].guest # None
    BY <1>6, RoomsAssumption DEF RemoveSeat, LeaveSeat, SeatOf
  <2>2. Vacate(r, s) /\ UNCHANGED <<room, game, record, starting, codes>>
    BY <1>6 DEF RemoveSeat, LeaveSeat
  <2> QED
    BY <2>1, <2>2, VacateType DEF TypeOK
<1>7. ASSUME NEW r \in RoomIds, NEW g \in Guests, StopWatching(r, g)
      PROVE  TypeOK'
  BY <1>7 DEF StopWatching, TypeOK
<1>8. ASSUME NEW r \in RoomIds, NEW g \in Guests, NEW s \in Seats, NEW d \in Decks,
             SaveDeck(r, g, s, d)
      PROVE  TypeOK'
  <2>1. seat[r][s] \in SeatRows
    BY RowTypes
  <2> DEFINE new == [seat[r][s] EXCEPT !.deck = d, !.ready = TRUE]
  <2>2. new \in SeatRows /\ new.ready = TRUE /\ new.deck = d
    BY <2>1 DEF SeatRows
  <2>3. seat' = [seat EXCEPT ![r] = [seat[r] EXCEPT ![s] = new]]
    BY <1>8 DEF SaveDeck, TypeOK
  <2> HIDE DEF new
  <2>4. seat' \in [RoomIds -> [Seats -> SeatRows]]
    BY <2>2, <2>3 DEF TypeOK
  <2>5. \A q \in RoomIds, t \in Seats : seat'[q][t].ready <=> seat'[q][t].deck # None
    <3>1. \A q \in RoomIds, t \in Seats :
            seat'[q][t] = IF q = r /\ t = s THEN new ELSE seat[q][t]
      BY <2>3 DEF TypeOK
    <3> QED
      BY <2>2, <3>1, RoomsAssumption DEF TypeOK
  <2>6. /\ deck' \in [Decks -> Guests \cup {None}]
        /\ gone' \subseteq {e \in Decks : deck'[e] = None}
    BY <1>8 DEF SaveDeck, TypeOK
  <2> QED
    BY <1>8, <2>4, <2>5, <2>6 DEF SaveDeck, TypeOK
<1>9. ASSUME NEW r \in RoomIds, NEW g \in Guests, NEW s \in Seats, ClearDeck(r, g, s)
      PROVE  TypeOK'
  <2>1. seat[r][s] \in SeatRows
    BY RowTypes
  <2>2. /\ WithoutDecks(seat[r][s]) \in SeatRows
        /\ WithoutDecks(seat[r][s]).ready = FALSE /\ WithoutDecks(seat[r][s]).deck = None
    BY <2>1 DEF WithoutDecks, SeatRows
  <2>3. \A q \in RoomIds, t \in Seats :
          seat'[q][t] = IF q = r /\ t = s THEN WithoutDecks(seat[r][s]) ELSE seat[q][t]
    BY <1>9 DEF ClearDeck, TypeOK
  <2>4. seat' \in [RoomIds -> [Seats -> SeatRows]]
    BY <1>9, <2>2 DEF ClearDeck, TypeOK
  <2>5. \A q \in RoomIds, t \in Seats : seat'[q][t].ready <=> seat'[q][t].deck # None
    BY <2>2, <2>3 DEF TypeOK
  <2>6. {seat[r][s].deck} \in SUBSET (Decks \cup {None})
    BY <2>1 DEF SeatRows
  <2>7. /\ deck' \in [Decks -> Guests \cup {None}]
        /\ gone' \subseteq {d \in Decks : deck'[d] = None}
    BY <1>9, <2>6, DeleteType DEF ClearDeck
  <2> QED
    BY <1>9, <2>4, <2>5, <2>7 DEF ClearDeck, TypeOK
<1>10. ASSUME NEW r \in RoomIds, NEW g \in Guests, NEW x \in Games, StartGame(r, g, x)
       PROVE  TypeOK'
  <2>1. Lineup(r) \in Lineups
    BY <1>10, RowTypes DEF StartGame, Ready, Lineup, Lineups, SeatRows
  <2> QED
    BY <1>10, <2>1 DEF StartGame, SaveAndCommit, SaveRecord, TypeOK, Starts
<1>11. ASSUME GameStarts
       PROVE  TypeOK'
  <2>1. starting \in Starts
    BY <1>11, RowTypes DEF GameStarts, Idle
  <2> DEFINE r == starting.room
             x == starting.game
  <2>2. CommitGame(r, x)
    BY <1>11 DEF GameStarts, SaveAndCommit
  <2>3. r \in RoomIds /\ x \in Games /\ room[r] \in RoomRows
    BY <2>1, <2>2, RowTypes DEF CommitGame, IsOpen, Starts
  <2>4. [room[r] EXCEPT !.status = "active", !.game = x] \in RoomRows
    BY <2>3 DEF RoomRows
  <2> HIDE DEF r, x
  <2>5. room' = [room EXCEPT ![r] = [room[r] EXCEPT !.status = "active", !.game = x]]
    BY <2>2, <2>3 DEF CommitGame, TypeOK
  <2>6. room' \in [RoomIds -> RoomRows \cup {None}]
    BY <2>3, <2>4, <2>5 DEF TypeOK
  <2>7. game' \in [Games -> GameRows \cup {None}]
    BY <2>2, <2>3 DEF CommitGame, TypeOK, GameRows
  <2>8. record' = record
    BY <2>2 DEF CommitGame
  <2> QED
    BY <1>11, <2>6, <2>7, <2>8 DEF GameStarts, TypeOK
<1>12. CASE Crash
  BY <1>12 DEF Crash, TypeOK
<1>13. ASSUME NEW x \in Games, NEW status \in GameStatuses, UpdateGame(x, status)
       PROVE  TypeOK'
  <2>1. game[x] \in GameRows
    BY <1>13, RowTypes DEF UpdateGame
  <2>2. game' \in [Games -> GameRows \cup {None}]
    BY <1>13, <2>1 DEF UpdateGame, BothRows, TypeOK, GameRows
  <2>3. room' \in [RoomIds -> RoomRows \cup {None}]
    <3>1. room[game[x].room] \in RoomRows
      BY <1>13, <2>1, RowTypes DEF UpdateGame, GamesAreRecorded, GameRows
    <3> QED
      BY <1>13, <2>1, <3>1 DEF UpdateGame, BothRows, TypeOK, RoomRows
  <2> QED
    BY <1>13, <2>2, <2>3 DEF UpdateGame, TypeOK
<1>14. CASE UNCHANGED vars
  BY <1>14 DEF vars, TypeOK
<1> QED
  BY <1>1, <1>2, <1>3, <1>4, <1>5, <1>6, <1>7, <1>8, <1>9, <1>10, <1>11, <1>12, <1>13,
     <1>14 DEF Next, Lobby

-----------------------------------------------------------------------------
(* The two tables that say who plays.                                      *)

SeatedIn(r) ==
  /\ seat[r][OwnerSeat].guest = room[r].owner
  /\ \A g \in Guests :
       /\ member[r][g] = "player" <=> SeatOf(r, g) # {}
       /\ \A s, t \in SeatOf(r, g) : s = t

(* A room whose owner, guests and members are the same.                    *)
SameGuests(r) ==
  /\ room[r] # None
  /\ room'[r].owner = room[r].owner
  /\ \A t \in Seats : seat'[r][t].guest = seat[r][t].guest
  /\ member'[r] = member[r]

LEMMA SameSeated ==
  ASSUME NEW r \in RoomIds, PlayersAreSeated, SameGuests(r)
  PROVE  SeatedIn(r)'
<1>1. SeatedIn(r)
  BY DEF SameGuests, PlayersAreSeated, SeatedIn
<1>2. \A g \in Guests : SeatOf(r, g)' = SeatOf(r, g)
  BY DEF SameGuests, SeatOf
<1>3. seat'[r][OwnerSeat].guest = room'[r].owner
  BY <1>1, RoomsAssumption DEF SeatedIn, SameGuests
<1>4. ASSUME NEW g \in Guests
      PROVE  /\ member'[r][g] = "player" <=> SeatOf(r, g)' # {}
             /\ \A s, t \in SeatOf(r, g)' : s = t
  <2>1. SeatOf(r, g)' = SeatOf(r, g) /\ member'[r][g] = member[r][g]
    BY <1>2 DEF SameGuests
  <2> QED
    BY <1>1, <2>1 DEF SeatedIn
<1> QED
  BY <1>3, <1>4 DEF SeatedIn

LEMMA NewSeated ==
  ASSUME TypeOK, NEW r \in RoomIds, NEW g \in Guests,
         room'[r] = NewRoom(g), seat'[r] = NewSeats(g), member'[r] = NewMembers(g)
  PROVE  SeatedIn(r)'
<1>1. \A t \in Seats : seat'[r][t].guest = IF t = OwnerSeat THEN g ELSE None
  BY DEF NewSeats, Vacant
<1>2. room'[r].owner = g
  BY DEF NewRoom
<1>3. ASSUME NEW h \in Guests
      PROVE  SeatOf(r, h)' = IF h = g THEN {OwnerSeat} ELSE {}
  BY <1>1, RoomsAssumption DEF SeatOf
<1>4. \A h \in Guests : member'[r][h] = IF h = g THEN "player" ELSE "none"
  BY DEF NewMembers
<1> QED
  BY <1>1, <1>2, <1>3, <1>4, RoomsAssumption DEF SeatedIn

(* A guest takes a seat that nobody else has.                              *)
LEMMA JoinSeated ==
  ASSUME TypeOK, PlayersAreSeated, NEW r \in RoomIds, NEW g \in Guests, NEW s \in Seats,
         NEW c \in 1 .. codes, JoinRoom(r, g, c, s)
  PROVE  SeatedIn(r)'
<1>1. SeatedIn(r) /\ room[r] \in RoomRows
  BY RowTypes DEF JoinRoom, IsOpen, PlayersAreSeated, SeatedIn
<1>2. \A t \in Seats : seat'[r][t].guest = IF t = s THEN g ELSE seat[r][t].guest
  <2>1. seat[r][s] \in SeatRows
    BY RowTypes
  <2>2. [seat[r][s] EXCEPT !.guest = g].guest = g
    BY <2>1 DEF SeatRows
  <2> QED
    BY <2>2 DEF JoinRoom, TypeOK
<1>3. SeatOf(r, g)' = {s}
  BY <1>2 DEF SeatOf, JoinRoom
<1>4. \A h \in Guests \ {g} : SeatOf(r, h)' = SeatOf(r, h)
  <2>1. seat[r][s].guest \in {None, g}
    BY DEF JoinRoom
  <2> QED
    BY <1>2, <2>1, RoomsAssumption DEF SeatOf
<1>5. seat'[r][OwnerSeat].guest = room'[r].owner
  <2>1. room[r].owner \in Guests
    BY <1>1 DEF RoomRows
  <2>2. seat[r][s].guest \in {None, g} /\ room' = room
    BY DEF JoinRoom
  <2> QED
    BY <1>1, <1>2, <2>1, <2>2, RoomsAssumption DEF SeatedIn
<1>6. \A h \in Guests : member'[r][h] = IF h = g THEN "player" ELSE member[r][h]
  BY DEF JoinRoom, TypeOK
<1>7. ASSUME NEW h \in Guests \ {g}
      PROVE  /\ member'[r][h] = "player" <=> SeatOf(r, h)' # {}
             /\ \A t, u \in SeatOf(r, h)' : t = u
  <2>1. SeatOf(r, h)' = SeatOf(r, h) /\ member'[r][h] = member[r][h]
    BY <1>4, <1>6
  <2> QED
    BY <1>1, <2>1 DEF SeatedIn
<1>8. /\ member'[r][g] = "player" <=> SeatOf(r, g)' # {}
      /\ \A t, u \in SeatOf(r, g)' : t = u
  BY <1>3, <1>6
<1> QED
  BY <1>5, <1>7, <1>8 DEF SeatedIn

(* A seat is given up or taken away, and it is not the owner's.            *)
LEMMA VacateSeated ==
  ASSUME TypeOK, PlayersAreSeated, NEW r \in RoomIds, NEW s \in Seats, room[r] # None,
         s # OwnerSeat, NEW g \in Guests, seat[r][s].guest = g, Vacate(r, s),
         room' = room
  PROVE  SeatedIn(r)'
<1>1. SeatedIn(r)
  BY DEF PlayersAreSeated, SeatedIn
<1>2. \A t \in Seats : seat'[r][t].guest = IF t = s THEN None ELSE seat[r][t].guest
  BY DEF Vacate, TypeOK, Vacant
<1>3. \A h \in Guests : member'[r][h] = IF h = g THEN "none" ELSE member[r][h]
  BY DEF Vacate, TypeOK
<1>4. SeatOf(r, g)' = {}
  <2>1. \A t \in SeatOf(r, g) : t = s
    BY <1>1 DEF SeatedIn, SeatOf
  <2>2. \A t \in Seats : seat'[r][t].guest # g
    BY <1>2, <2>1, RoomsAssumption DEF SeatOf
  <2> QED
    BY <2>2 DEF SeatOf
<1>5. \A h \in Guests \ {g} : SeatOf(r, h)' = SeatOf(r, h)
  BY <1>2, RoomsAssumption DEF SeatOf
<1>6. seat'[r][OwnerSeat].guest = room'[r].owner
  BY <1>1, <1>2, RoomsAssumption DEF SeatedIn
<1>8. ASSUME NEW h \in Guests \ {g}
      PROVE  /\ member'[r][h] = "player" <=> SeatOf(r, h)' # {}
             /\ \A t, u \in SeatOf(r, h)' : t = u
  <2>1. SeatOf(r, h)' = SeatOf(r, h) /\ member'[r][h] = member[r][h]
    BY <1>3, <1>5
  <2> QED
    BY <1>1, <2>1 DEF SeatedIn
<1>9. /\ member'[r][g] = "player" <=> SeatOf(r, g)' # {}
      /\ \A t, u \in SeatOf(r, g)' : t = u
  BY <1>3, <1>4
<1> QED
  BY <1>6, <1>8, <1>9 DEF SeatedIn

(* What a step may do to the rooms for the players to stay seated.         *)
LEMMA SeatsStep ==
  ASSUME TypeOK, GamesAreRecorded, PlayersAreSeated, [Next]_vars
  PROVE  PlayersAreSeated'
<1> SUFFICES ASSUME NEW q \in RoomIds, room'[q] # None
             PROVE  SeatedIn(q)'
  BY DEF PlayersAreSeated, SeatedIn
<1>1. ASSUME NEW r \in RoomIds, NEW g \in Guests, CreateRoom(r, g)
      PROVE  SeatedIn(q)'
  <2>1. CASE q = r
    BY <1>1, <2>1, NewSeated DEF CreateRoom, TypeOK
  <2>2. CASE q # r
    BY <1>1, <2>2, SameSeated DEF CreateRoom, SameGuests, TypeOK
  <2> QED
    BY <2>1, <2>2
<1>2. ASSUME NEW r \in RoomIds, NEW n \in RoomIds \ {r}, NEW g \in Guests,
             ReplaceRoom(r, n, g)
      PROVE  SeatedIn(q)'
  <2>1. CASE q = n
    BY <1>2, <2>1, NewSeated DEF ReplaceRoom, TypeOK
  <2>2. CASE q = r
    <3>1. room[r] # None /\ room[r] \in RoomRows
      BY <1>2, RowTypes DEF ReplaceRoom, IsOpen
    <3>2. room'[r].owner = room[r].owner /\ member'[r] = member[r]
      BY <1>2, <3>1 DEF ReplaceRoom, TypeOK, RoomRows
    <3>3. \A t \in Seats : seat'[r][t].guest = seat[r][t].guest
      <4>1. \A t \in Seats : WithoutDecks(seat[r][t]).guest = seat[r][t].guest
        BY RowTypes DEF WithoutDecks, SeatRows
      <4> QED
        BY <1>2, <4>1 DEF ReplaceRoom, TypeOK
    <3> QED
      BY <2>2, <3>1, <3>2, <3>3, SameSeated DEF SameGuests
  <2>3. CASE q \notin {r, n}
    BY <1>2, <2>3, SameSeated DEF ReplaceRoom, SameGuests, TypeOK
  <2> QED
    BY <2>1, <2>2, <2>3
<1>3. ASSUME NEW r \in RoomIds, NEW g \in Guests, RotateInvite(r, g)
      PROVE  SeatedIn(q)'
  <2>1. room[q] # None /\ room[q] \in RoomRows /\ room[r] \in RoomRows
    BY <1>3, RowTypes DEF RotateInvite, IsOpen, TypeOK
  <2>2. room'[q].owner = room[q].owner
    BY <1>3, <2>1 DEF RotateInvite, TypeOK, RoomRows
  <2> QED
    BY <1>3, <2>1, <2>2, SameSeated DEF RotateInvite, SameGuests
<1>4. ASSUME NEW r \in RoomIds, NEW g \in Guests, NEW c \in 1 .. codes, NEW s \in Seats,
             JoinRoom(r, g, c, s)
      PROVE  SeatedIn(q)'
  <2>1. CASE q = r
    BY <1>4, <2>1, JoinSeated
  <2>2. CASE q # r
    BY <1>4, <2>2, SameSeated DEF JoinRoom, SameGuests, TypeOK
  <2> QED
    BY <2>1, <2>2
<1>5. ASSUME NEW r \in RoomIds, NEW g \in Guests,
             (\E c \in 1 .. codes : JoinSpectator(r, g, c)) \/ StopWatching(r, g)
      PROVE  SeatedIn(q)'
  <2>1. room' = room /\ seat' = seat
    BY <1>5 DEF JoinSpectator, StopWatching
  <2>2. SeatedIn(q)
    BY <2>1 DEF PlayersAreSeated, SeatedIn
  <2>3. \A h \in Guests : SeatOf(q, h)' = SeatOf(q, h)
    BY <2>1 DEF SeatOf
  <2>4. \A h \in Guests : member'[q][h] = "player" <=> SeatOf(q, h) # {}
    BY <1>5, <2>2 DEF JoinSpectator, StopWatching, RoleToWatch, SeatedIn, TypeOK
  <2> QED
    BY <2>1, <2>2, <2>3, <2>4 DEF SeatedIn
<1>6. ASSUME NEW r \in RoomIds, NEW g \in Guests, NEW s \in Seats,
             RemoveSeat(r, g, s) \/ LeaveSeat(r, g, s)
      PROVE  SeatedIn(q)'
  <2>1. room[r] # None /\ Vacate(r, s) /\ room' = room
    BY <1>6 DEF RemoveSeat, LeaveSeat, IsOpen
  <2>2. seat[r][s].guest \in Guests
    BY <1>6, RowTypes DEF RemoveSeat, LeaveSeat, SeatOf, SeatRows
  <2>3. s # OwnerSeat
    BY <1>6, <2>1, RoomsAssumption DEF RemoveSeat, LeaveSeat, SeatOf, Owns, PlayersAreSeated
  <2>4. CASE q = r
    BY <2>1, <2>2, <2>3, <2>4, VacateSeated
  <2>5. CASE q # r
    BY <2>1, <2>5, SameSeated DEF Vacate, SameGuests, TypeOK
  <2> QED
    BY <2>4, <2>5
<1>7. ASSUME NEW r \in RoomIds, NEW g \in Guests, NEW s \in Seats,
             ClearDeck(r, g, s) \/ \E d \in Decks : SaveDeck(r, g, s, d)
      PROVE  SeatedIn(q)'
  <2>1. seat[r][s] \in SeatRows
    BY RowTypes
  <2>2. \A t \in Seats : seat'[q][t].guest = seat[q][t].guest
    <3>1. CASE ClearDeck(r, g, s)
      <4>1. WithoutDecks(seat[r][s]).guest = seat[r][s].guest
        BY <2>1 DEF WithoutDecks, SeatRows
      <4> QED
        BY <3>1, <4>1 DEF ClearDeck, TypeOK
    <3>2. ASSUME NEW d \in Decks, SaveDeck(r, g, s, d)
          PROVE  \A t \in Seats : seat'[q][t].guest = seat[q][t].guest
      <4>1. [seat[r][s] EXCEPT !.deck = d, !.ready = TRUE].guest = seat[r][s].guest
        BY <2>1 DEF SeatRows
      <4>2. seat' = [seat EXCEPT ![r] = [seat[r] EXCEPT
                       ![s] = [seat[r][s] EXCEPT !.deck = d, !.ready = TRUE]]]
        BY <3>2 DEF SaveDeck, TypeOK
      <4> QED
        BY <4>1, <4>2 DEF TypeOK
    <3> QED
      BY <1>7, <3>1, <3>2
  <2>3. room' = room /\ member' = member
    BY <1>7 DEF ClearDeck, SaveDeck
  <2> QED
    BY <2>2, <2>3, SameSeated DEF SameGuests
<1>8. ASSUME \/ \E r \in RoomIds, g \in Guests, x \in Games : StartGame(r, g, x)
             \/ Crash \/ UNCHANGED vars
      PROVE  SeatedIn(q)'
  <2>1. room' = room /\ seat' = seat /\ member' = member
    BY <1>8 DEF StartGame, SaveAndCommit, SaveRecord, Crash, vars
  <2> QED
    BY <2>1, SameSeated DEF SameGuests
<1>9. ASSUME GameStarts
      PROVE  SeatedIn(q)'
  <2>1. CommitGame(starting.room, starting.game) /\ seat' = seat /\ member' = member
    BY <1>9 DEF GameStarts, SaveAndCommit
  <2>2. room[q] # None /\ room[q] \in RoomRows
    BY <2>1, RowTypes DEF CommitGame, IsOpen, TypeOK
  <2>3. room'[q].owner = room[q].owner
    BY <2>1, <2>2 DEF CommitGame, TypeOK, RoomRows
  <2> QED
    BY <2>1, <2>2, <2>3, SameSeated DEF SameGuests
<1>10. ASSUME NEW x \in Games, NEW status \in GameStatuses, UpdateGame(x, status)
       PROVE  SeatedIn(q)'
  <2>1. seat' = seat /\ member' = member
    BY <1>10 DEF UpdateGame
  <2>2. game[x] \in GameRows
    BY <1>10, RowTypes DEF UpdateGame
  <2>3. room[q] # None /\ room[q] \in RoomRows
    BY <1>10, <2>2, RowTypes DEF UpdateGame, BothRows, GamesAreRecorded, TypeOK
  <2>4. room'[q].owner = room[q].owner
    BY <1>10, <2>3 DEF UpdateGame, BothRows, TypeOK, RoomRows
  <2> QED
    BY <2>1, <2>3, <2>4, SameSeated DEF SameGuests
<1> QED
  BY <1>1, <1>2, <1>3, <1>4, <1>5, <1>6, <1>7, <1>8, <1>9, <1>10 DEF Next, Lobby

-----------------------------------------------------------------------------
(* The rows of decks.                                                      *)

(* The decks of some seats are deleted, or none, and no other seat is      *)
(* given one.                                                              *)
DecksStay(ids) ==
  /\ \A d \in Decks \ ids : deck'[d] = deck[d]
  /\ \A q \in RoomIds, t \in Seats :
       \/ seat'[q][t].deck = None
       \/ /\ seat'[q][t].deck = seat[q][t].deck
          /\ seat'[q][t].guest = seat[q][t].guest
          /\ seat[q][t].deck \notin ids

LEMMA DecksKept ==
  ASSUME TypeOK, DecksOfSeats, NEW ids, DecksStay(ids)
  PROVE  DecksOfSeats'
<1> SUFFICES ASSUME NEW q \in RoomIds, NEW t \in Seats, seat'[q][t].deck # None
             PROVE  LET d == seat'[q][t].deck
                    IN /\ deck'[d] # None /\ deck'[d] = seat'[q][t].guest
                       /\ \A p \in RoomIds, u \in Seats :
                            seat'[p][u].deck = d => p = q /\ u = t
  BY DEF DecksOfSeats
<1>1. /\ seat'[q][t].deck = seat[q][t].deck /\ seat'[q][t].guest = seat[q][t].guest
      /\ seat[q][t].deck \in Decks \ ids
  BY RowTypes DEF SeatRows, DecksStay
<1>2. deck'[seat[q][t].deck] = seat[q][t].guest /\ deck[seat[q][t].deck] # None
      /\ deck'[seat[q][t].deck] = deck[seat[q][t].deck]
  BY <1>1 DEF DecksOfSeats, DecksStay
<1>3. ASSUME NEW p \in RoomIds, NEW u \in Seats, seat'[p][u].deck = seat[q][t].deck
      PROVE  p = q /\ u = t
  <2>1. seat[p][u].deck = seat[q][t].deck
    BY <1>1, <1>3 DEF DecksStay
  <2> QED
    BY <1>1, <2>1 DEF DecksOfSeats
<1> QED
  BY <1>1, <1>2, <1>3

LEMMA DecksStep ==
  ASSUME TypeOK, DecksOfSeats, [Next]_vars
  PROVE  DecksOfSeats'
<1>1. ASSUME NEW r \in RoomIds, NEW g \in Guests, CreateRoom(r, g)
      PROVE  DecksOfSeats'
  <2>1. \A t \in Seats : NewSeats(g)[t].deck = None
    BY DEF NewSeats, Vacant
  <2>2. DecksStay({})
    BY <1>1, <2>1 DEF CreateRoom, TypeOK, DecksStay
  <2> QED
    BY <2>2, DecksKept
<1>2. ASSUME NEW r \in RoomIds, NEW n \in RoomIds \ {r}, NEW g \in Guests,
             ReplaceRoom(r, n, g)
      PROVE  DecksOfSeats'
  <2>1. \A t \in Seats : NewSeats(g)[t].deck = None
    BY DEF NewSeats, Vacant
  <2>2. \A t \in Seats : WithoutDecks(seat[r][t]).deck = None
    BY RowTypes DEF WithoutDecks, SeatRows
  <2>3. ASSUME NEW q \in RoomIds, NEW t \in Seats, seat'[q][t].deck # None
        PROVE  /\ seat'[q][t] = seat[q][t]
               /\ seat[q][t].deck \notin DecksIn(r)
    <3>1. q # n /\ q # r
      BY <1>2, <2>1, <2>2, <2>3 DEF ReplaceRoom, TypeOK
    <3>2. seat'[q][t] = seat[q][t]
      BY <1>2, <3>1 DEF ReplaceRoom, TypeOK
    <3>3. seat[q][t].deck \notin DecksIn(r)
      BY <2>3, <3>1, <3>2 DEF DecksIn, DecksOfSeats
    <3> QED
      BY <3>2, <3>3
  <2>4. \A d \in Decks \ DecksIn(r) : deck'[d] = deck[d]
    BY <1>2 DEF ReplaceRoom, DeleteDecks
  <2>5. DecksStay(DecksIn(r))
    BY <2>3, <2>4 DEF DecksStay
  <2> QED
    BY <2>5, DecksKept
<1>3. ASSUME NEW r \in RoomIds, NEW g \in Guests, NEW c \in 1 .. codes, NEW s \in Seats,
             JoinRoom(r, g, c, s)
      PROVE  DecksOfSeats'
  <2>1. seat[r][s] \in SeatRows
    BY RowTypes
  <2>2. [seat[r][s] EXCEPT !.guest = g].deck = seat[r][s].deck
        /\ [seat[r][s] EXCEPT !.guest = g].guest = g
    BY <2>1 DEF SeatRows
  <2>3. seat[r][s].deck = None \/ seat[r][s].guest = g
    BY <1>3 DEF JoinRoom, DecksOfSeats
  <2>4. DecksStay({})
    BY <1>3, <2>2, <2>3 DEF JoinRoom, TypeOK, DecksStay
  <2> QED
    BY <2>4, DecksKept
<1>4. ASSUME NEW r \in RoomIds, NEW g \in Guests, NEW s \in Seats,
             \/ RemoveSeat(r, g, s) \/ LeaveSeat(r, g, s)
             \/ ClearDeck(r, g, s)
      PROVE  DecksOfSeats'
  <2>1. DeleteDecks({seat[r][s].deck})
    BY <1>4 DEF RemoveSeat, LeaveSeat, ClearDeck, Vacate
  <2>2. \A d \in Decks \ {seat[r][s].deck} : deck'[d] = deck[d]
    BY <2>1 DEF DeleteDecks
  <2>3. seat'[r][s].deck = None
    <3>1. WithoutDecks(seat[r][s]).deck = None /\ Vacant.deck = None
      BY RowTypes DEF WithoutDecks, SeatRows, Vacant
    <3> QED
      BY <1>4, <3>1 DEF RemoveSeat, LeaveSeat, ClearDeck, Vacate, TypeOK
  <2>4. \A q \in RoomIds, t \in Seats : (q # r \/ t # s) => seat'[q][t] = seat[q][t]
    BY <1>4 DEF RemoveSeat, LeaveSeat, ClearDeck, Vacate, TypeOK
  <2>5. ASSUME NEW q \in RoomIds, NEW t \in Seats, seat'[q][t].deck # None
        PROVE  seat'[q][t] = seat[q][t] /\ seat[q][t].deck # seat[r][s].deck
    <3>1. (q # r \/ t # s) /\ seat'[q][t] = seat[q][t]
      BY <2>3, <2>4, <2>5
    <3> QED
      BY <2>5, <3>1 DEF DecksOfSeats
  <2>6. DecksStay({seat[r][s].deck})
    BY <2>2, <2>5 DEF DecksStay
  <2> QED
    BY <2>6, DecksKept
<1>5. ASSUME NEW r \in RoomIds, NEW g \in Guests, NEW s \in Seats, NEW d \in Decks,
             SaveDeck(r, g, s, d)
      PROVE  DecksOfSeats'
  <2>1. seat[r][s] \in SeatRows /\ seat[r][s].guest = g
    BY <1>5, RowTypes DEF SaveDeck, SeatOf
  <2>2. /\ [seat[r][s] EXCEPT !.deck = d, !.ready = TRUE].guest = g
        /\ [seat[r][s] EXCEPT !.deck = d, !.ready = TRUE].deck = d
    BY <2>1 DEF SeatRows
  <2>3. seat' = [seat EXCEPT ![r] = [seat[r] EXCEPT
                   ![s] = [seat[r][s] EXCEPT !.deck = d, !.ready = TRUE]]]
    BY <1>5 DEF SaveDeck, TypeOK
  <2>4. seat'[r][s].deck = d /\ seat'[r][s].guest = g
    BY <2>2, <2>3 DEF TypeOK
  <2>5. \A q \in RoomIds, t \in Seats : (q # r \/ t # s) => seat'[q][t] = seat[q][t]
    BY <2>3 DEF TypeOK
  <2>6. deck[d] = None /\ deck'[d] = g /\ g # None
        /\ \A e \in Decks \ {d} : deck'[e] = deck[e]
    BY <1>5, RoomsAssumption DEF SaveDeck, TypeOK
  <2>7. \A q \in RoomIds, t \in Seats : seat[q][t].deck # d
    BY <2>6, RoomsAssumption DEF DecksOfSeats
  <2>8. ASSUME NEW q \in RoomIds, NEW t \in Seats, q # r \/ t # s,
               seat'[q][t].deck # None
        PROVE  /\ deck'[seat'[q][t].deck] # None
               /\ deck'[seat'[q][t].deck] = seat'[q][t].guest
               /\ \A p \in RoomIds, u \in Seats :
                    seat'[p][u].deck = seat'[q][t].deck => p = q /\ u = t
    <3>1. seat'[q][t] = seat[q][t] /\ seat[q][t].deck \in Decks \ {d}
      BY <2>5, <2>7, <2>8, RowTypes DEF SeatRows
    <3>2. deck'[seat[q][t].deck] = deck[seat[q][t].deck]
      BY <2>6, <3>1
    <3>3. ASSUME NEW p \in RoomIds, NEW u \in Seats, seat'[p][u].deck = seat[q][t].deck
          PROVE  p = q /\ u = t
      <4>1. p # r \/ u # s
        BY <2>4, <3>1, <3>3
      <4>2. seat[p][u].deck = seat[q][t].deck
        BY <2>5, <3>3, <4>1
      <4> QED
        BY <2>8, <3>1, <4>2 DEF DecksOfSeats
    <3> QED
      BY <2>8, <3>1, <3>2, <3>3 DEF DecksOfSeats
  <2>9. \A p \in RoomIds, u \in Seats : seat'[p][u].deck = d => p = r /\ u = s
    BY <2>5, <2>7
  <2> QED
    BY <2>4, <2>6, <2>8, <2>9 DEF DecksOfSeats
<1>6. ASSUME seat' = seat /\ deck' = deck
      PROVE  DecksOfSeats'
  <2>1. DecksStay({})
    BY <1>6 DEF DecksStay
  <2> QED
    BY <2>1, DecksKept
<1>7. ASSUME \/ \E r \in RoomIds, g \in Guests :
                  \/ RotateInvite(r, g) \/ StopWatching(r, g)
                  \/ \E c \in 1 .. codes : JoinSpectator(r, g, c)
                  \/ \E x \in Games : StartGame(r, g, x)
             \/ GameStarts \/ Crash \/ UNCHANGED vars
             \/ \E x \in Games, status \in GameStatuses : UpdateGame(x, status)
      PROVE  DecksOfSeats'
  BY <1>6, <1>7 DEF RotateInvite, StopWatching, JoinSpectator, StartGame, GameStarts, Crash,
     UpdateGame, vars
<1> QED
  BY <1>1, <1>2, <1>3, <1>4, <1>5, <1>7 DEF Next, Lobby

-----------------------------------------------------------------------------
(* The games and their records.                                            *)

(* What the operations of the lobby do to rooms: those that play keep      *)
(* their seats, no room gets or loses a game, and a new one has none.      *)
LobbyAlone(q) ==
  /\ room[q] = None /\ room'[q] # None =>
       room'[q].status = "open" /\ room'[q].game = None
  /\ room[q] # None =>
       /\ room'[q] # None /\ room'[q].game = room[q].game
       /\ \/ room'[q].status = room[q].status
          \/ room[q].status = "open" /\ room'[q].status = "closed"
       /\ room[q].status \in GameStatuses => seat'[q] = seat[q]

LobbyStep ==
  /\ starting = None /\ UNCHANGED <<game, record, starting>>
  /\ \A q \in RoomIds : LobbyAlone(q)

LEMMA LobbyGames ==
  ASSUME TypeOK, GamesAreRecorded, LobbyStep
  PROVE  GamesAreRecorded' /\ StartStands'
<1> USE DEF GameStatuses
<1>1. ASSUME NEW x \in Games, game'[x] # None
      PROVE  LET r == game'[x].room
             IN /\ room'[r] # None /\ room'[r].game = x
                /\ room'[r].status = game'[x].status
                /\ record'[x] = [s \in Seats |-> seat'[r][s].deck]
  <2> DEFINE r == game[x].room
  <2>1. game'[x] = game[x] /\ record'[x] = record[x]
    BY DEF LobbyStep
  <2>2. /\ r \in RoomIds /\ room[r] # None /\ room[r].game = x
        /\ room[r].status = game[x].status /\ game[x].status \in GameStatuses
        /\ record[x] = Lineup(r)
    BY <1>1, <2>1, RowTypes DEF GamesAreRecorded, GameRows
  <2> HIDE DEF r
  <2>3. /\ room'[r] # None /\ room'[r].game = x /\ room'[r].status = game[x].status
        /\ seat'[r] = seat[r]
    BY <2>2 DEF LobbyStep, LobbyAlone
  <2> QED
    BY <2>1, <2>2, <2>3 DEF Lineup, r
<1>2. ASSUME NEW r \in RoomIds, room'[r] # None
      PROVE  /\ room'[r].game # None =>
                  game'[room'[r].game] # None /\ game'[room'[r].game].room = r
             /\ room'[r].game = None <=> room'[r].status \in {"open", "closed"}
  <2>1. CASE room[r] = None
    BY <1>2, <2>1 DEF LobbyStep, LobbyAlone
  <2>2. CASE room[r] # None
    <3>1. /\ room'[r].game = room[r].game /\ game' = game
          /\ \/ room'[r].status = room[r].status
             \/ room[r].status = "open" /\ room'[r].status = "closed"
      BY <2>2 DEF LobbyStep, LobbyAlone
    <3> QED
      BY <2>2, <3>1 DEF GamesAreRecorded
  <2> QED
    BY <2>1, <2>2
<1>3. StartStands'
  BY DEF LobbyStep, StartStands
<1> QED
  BY <1>1, <1>2, <1>3 DEF GamesAreRecorded, Lineup

(* An operation on the seats or the code of an open room.                  *)
LEMMA OpenRoomIsAlone ==
  ASSUME TypeOK, NEW r \in RoomIds, IsOpen(r), room' = room,
         \A q \in RoomIds \ {r} : seat'[q] = seat[q]
  PROVE  \A q \in RoomIds : LobbyAlone(q)
BY DEF IsOpen, LobbyAlone, GameStatuses

LEMMA LobbyOperations ==
  ASSUME TypeOK, NEW r \in RoomIds, NEW g \in Guests, Lobby(r, g),
         ~ \E x \in Games : StartGame(r, g, x)
  PROVE  LobbyStep
<1> USE DEF GameStatuses
<1>1. CASE CreateRoom(r, g)
  BY <1>1 DEF CreateRoom, NewRoom, Idle, LobbyStep, LobbyAlone, TypeOK
<1>2. ASSUME NEW n \in RoomIds \ {r}, ReplaceRoom(r, n, g)
      PROVE  LobbyStep
  <2>1. /\ room[r] # None /\ room[r] \in RoomRows /\ room[r].status = "open"
        /\ room[n] = None
    BY <1>2, RowTypes DEF ReplaceRoom, IsOpen
  <2>2. LobbyAlone(r)
    <3>1. /\ room'[r] # None /\ room'[r].game = room[r].game
          /\ room'[r].status = "closed"
      <4>1. room'[r] = [[room[r] EXCEPT !.status = "closed"] EXCEPT !.invite = Secret]
        BY <1>2 DEF ReplaceRoom, TypeOK
      <4>2. [room[r] EXCEPT !.status = "closed"] \in RoomRows
        BY <2>1 DEF RoomRows
      <4>3. /\ room'[r].status = "closed" /\ room'[r].game = room[r].game
        BY <2>1, <4>1, <4>2 DEF RoomRows
      <4>4. room'[r] # None
        <5>1. room'[r] \in RoomRows
          <6>1. Secret \in 0 .. MaxCodes
            BY RoomsAssumption DEF Secret
          <6> QED
            BY <4>1, <4>2, <6>1 DEF RoomRows
        <5> QED
          BY <5>1, RowsAssumption
      <4> QED
        BY <4>3, <4>4
    <3> QED
      BY <2>1, <3>1 DEF LobbyAlone
  <2>3. LobbyAlone(n)
    BY <1>2, <2>1 DEF ReplaceRoom, NewRoom, LobbyAlone, TypeOK
  <2>4. \A q \in RoomIds \ {r, n} : room'[q] = room[q] /\ seat'[q] = seat[q]
    BY <1>2 DEF ReplaceRoom, TypeOK
  <2>5. \A q \in RoomIds \ {r, n} : LobbyAlone(q)
    BY <2>4 DEF LobbyAlone
  <2> QED
    BY <1>2, <2>2, <2>3, <2>5 DEF ReplaceRoom, Idle, LobbyStep
<1>3. CASE RotateInvite(r, g)
  <2>1. room[r] # None /\ room[r] \in RoomRows
    BY <1>3, RowTypes DEF RotateInvite, IsOpen
  <2>2. /\ room'[r] # None /\ room'[r].game = room[r].game
        /\ room'[r].status = room[r].status
    <3>1. room'[r] = [room[r] EXCEPT !.invite = codes + 1]
      BY <1>3 DEF RotateInvite, TypeOK
    <3>2. room'[r] \in RoomRows
      BY <1>3, <2>1, <3>1, NewRowTypes DEF RotateInvite, RoomRows
    <3> QED
      BY <2>1, <3>1, <3>2, RowsAssumption DEF RoomRows
  <2>3. seat' = seat /\ \A q \in RoomIds \ {r} : room'[q] = room[q]
    BY <1>3 DEF RotateInvite, TypeOK
  <2> QED
    BY <1>3, <2>1, <2>2, <2>3 DEF RotateInvite, Idle, LobbyStep, LobbyAlone
<1>4. CASE StopWatching(r, g) \/ \E c \in 1 .. codes : JoinSpectator(r, g, c)
  BY <1>4 DEF StopWatching, JoinSpectator, Idle, LobbyStep, LobbyAlone
<1>5. ASSUME NEW s \in Seats,
             \/ \E c \in 1 .. codes : JoinRoom(r, g, c, s)
             \/ RemoveSeat(r, g, s) \/ LeaveSeat(r, g, s)
             \/ ClearDeck(r, g, s) \/ \E d \in Decks : SaveDeck(r, g, s, d)
      PROVE  LobbyStep
  <2>1. IsOpen(r) /\ room' = room /\ Idle /\ UNCHANGED <<game, record, starting>>
    BY <1>5 DEF JoinRoom, RemoveSeat, LeaveSeat, ClearDeck, SaveDeck, BeforeStart
  <2>2. \A q \in RoomIds \ {r} : seat'[q] = seat[q]
    BY <1>5 DEF JoinRoom, RemoveSeat, LeaveSeat, ClearDeck, SaveDeck, Vacate, TypeOK
  <2> QED
    BY <2>1, <2>2, OpenRoomIsAlone DEF LobbyStep, Idle
<1> QED
  BY <1>1, <1>2, <1>3, <1>4, <1>5 DEF Lobby

LEMMA StartGameGames ==
  ASSUME TypeOK, GamesAreRecorded, NEW r \in RoomIds, NEW g \in Guests, NEW x \in Games,
         StartGame(r, g, x)
  PROVE  GamesAreRecorded' /\ StartStands'
<1>1. /\ UNCHANGED <<room, seat, game>> /\ IsOpen(r) /\ game[x] = None
      /\ record' = [record EXCEPT ![x] = Lineup(r)]
      /\ starting' = [room |-> r, game |-> x]
  BY DEF StartGame, SaveAndCommit, SaveRecord
<1>2. \A q \in RoomIds : Lineup(q)' = Lineup(q)
  BY <1>1 DEF Lineup
<1>3. \A y \in Games : game[y] # None => y # x /\ record'[y] = record[y]
  BY <1>1 DEF TypeOK
<1>4. \A y \in Games : game[y] # None => game[y].room \in RoomIds
  BY RowTypes DEF GameRows
<1>5. GamesAreRecorded'
  BY <1>1, <1>2, <1>3, <1>4 DEF GamesAreRecorded
<1>6. record'[x] = Lineup(r)
  BY <1>1 DEF TypeOK
<1>7. StartStands'
  <2>1. starting'.room = r /\ starting'.game = x
    BY <1>1
  <2>2. room'[r] # None /\ room'[r].status = "open" /\ game'[x] = None
        /\ record'[x] = [s \in Seats |-> seat'[r][s].deck]
    BY <1>1, <1>6 DEF IsOpen, Lineup
  <2> QED
    BY <2>1, <2>2 DEF StartStands, IsOpen, Lineup
<1> QED
  BY <1>5, <1>7

LEMMA GameStartsGames ==
  ASSUME TypeOK, StartStands, GamesAreRecorded, GameStarts
  PROVE  GamesAreRecorded' /\ StartStands'
<1> USE DEF GameStatuses
<1>1. PICK r \in RoomIds, x \in Games : starting.room = r /\ starting.game = x
  BY RowTypes DEF GameStarts, Idle, Starts
<1>2. /\ room[r] # None /\ room[r].status = "open" /\ game[x] = None
      /\ record[x] = Lineup(r)
  BY <1>1 DEF GameStarts, Idle, StartStands, IsOpen
<1>3. /\ game' = [game EXCEPT ![x] = [room |-> r, status |-> "active"]]
      /\ room' = [room EXCEPT ![r].status = "active", ![r].game = x]
      /\ record' = record /\ seat' = seat /\ starting' = None
  BY <1>1 DEF GameStarts, SaveAndCommit, CommitGame
<1>4. /\ room'[r].status = "active" /\ room'[r].game = x /\ room'[r] # None
      /\ \A q \in RoomIds \ {r} : room'[q] = room[q]
  <2>1. room[r] \in RoomRows
    BY <1>2, RowTypes
  <2>2. room'[r] = [[room[r] EXCEPT !.status = "active"] EXCEPT !.game = x]
    BY <1>3 DEF TypeOK
  <2>3. room'[r] \in RoomRows /\ room'[r].status = "active" /\ room'[r].game = x
    BY <2>1, <2>2 DEF RoomRows
  <2> QED
    BY <1>3, <2>3, RowsAssumption DEF TypeOK
<1>5. /\ game'[x] = [room |-> r, status |-> "active"]
      /\ \A y \in Games \ {x} : game'[y] = game[y]
  BY <1>3 DEF TypeOK
<1>6. \A q \in RoomIds : Lineup(q)' = Lineup(q)
  BY <1>3 DEF Lineup
<1>7. game'[x] # None
  BY <1>5, RowsAssumption DEF GameRows
<1>8. ASSUME NEW y \in Games \ {x}, game[y] # None
      PROVE  game[y].room \in RoomIds \ {r}
  BY <1>2, <1>8, RowTypes DEF GamesAreRecorded, GameRows
<1>9. ASSUME NEW y \in Games, game'[y] # None
      PROVE  LET q == game'[y].room
             IN /\ room'[q] # None /\ room'[q].game = y
                /\ room'[q].status = game'[y].status
                /\ record'[y] = [s \in Seats |-> seat'[q][s].deck]
  <2>1. CASE y = x
    <3>1. game'[x].room = r /\ game'[x].status = "active"
      BY <1>5
    <3>2. record'[x] = [s \in Seats |-> seat'[r][s].deck]
      BY <1>2, <1>3 DEF Lineup
    <3> QED
      BY <1>4, <2>1, <3>1, <3>2
  <2>2. CASE y # x
    <3>1. game'[y] = game[y] /\ game[y] # None
      BY <1>5, <1>9, <2>2
    <3>2. /\ room[game[y].room] # None /\ room[game[y].room].game = y
          /\ room[game[y].room].status = game[y].status
          /\ record[y] = Lineup(game[y].room)
      BY <3>1 DEF GamesAreRecorded
    <3>3. game[y].room \in RoomIds \ {r}
      BY <1>8, <2>2, <3>1
    <3>4. record'[y] = [s \in Seats |-> seat'[game'[y].room][s].deck]
      BY <1>3, <3>1, <3>2 DEF Lineup
    <3> QED
      BY <1>4, <3>1, <3>2, <3>3, <3>4
  <2> QED
    BY <2>1, <2>2
<1>10. ASSUME NEW q \in RoomIds, room'[q] # None
       PROVE  /\ room'[q].game # None =>
                   game'[room'[q].game] # None /\ game'[room'[q].game].room = q
              /\ room'[q].game = None <=> room'[q].status \in {"open", "closed"}
  <2>1. CASE q = r
    BY <1>4, <1>5, <1>7, <2>1, RoomsAssumption
  <2>2. CASE q # r
    <3>1. room'[q] = room[q] /\ room[q] \in RoomRows
      BY <1>4, <1>10, <2>2, RowTypes
    <3>2. /\ room[q].game # None =>
               game[room[q].game] # None /\ game[room[q].game].room = q
          /\ room[q].game = None <=> room[q].status \in {"open", "closed"}
      BY <1>10, <3>1 DEF GamesAreRecorded
    <3>3. room[q].game # None => room[q].game \in Games \ {x}
      BY <1>2, <3>1, <3>2 DEF RoomRows
    <3> QED
      BY <1>5, <3>1, <3>2, <3>3
  <2> QED
    BY <2>1, <2>2
<1>11. GamesAreRecorded'
  BY <1>9, <1>10 DEF GamesAreRecorded, Lineup
<1>12. StartStands'
  BY <1>3 DEF StartStands
<1> QED
  BY <1>11, <1>12

LEMMA UpdateGames ==
  ASSUME TypeOK, GamesAreRecorded, NEW x \in Games, NEW status \in GameStatuses,
         UpdateGame(x, status)
  PROVE  GamesAreRecorded' /\ StartStands'
<1> USE DEF GameStatuses
<1>1. PICK r \in RoomIds : game[x].room = r
  BY RowTypes DEF UpdateGame, GameRows
<1>2. /\ game' = [game EXCEPT ![x].status = status]
      /\ room' = [room EXCEPT ![r].status = status]
      /\ record' = record /\ seat' = seat /\ starting = None /\ starting' = None
      /\ game[x] # None
  BY <1>1 DEF UpdateGame, BothRows, Idle
<1>3. /\ room[r] # None /\ room[r].game = x /\ room[r].status \in GameStatuses
      /\ record[x] = Lineup(r)
  BY <1>1, <1>2, RowTypes DEF GamesAreRecorded, GameRows
<1>4. /\ room'[r] # None /\ room'[r].status = status /\ room'[r].game = x
      /\ \A q \in RoomIds \ {r} : room'[q] = room[q]
  <2>1. room[r] \in RoomRows
    BY <1>3, RowTypes
  <2>2. room'[r] = [room[r] EXCEPT !.status = status]
    BY <1>2 DEF TypeOK
  <2>3. room'[r] \in RoomRows /\ room'[r].status = status /\ room'[r].game = x
    BY <1>3, <2>1, <2>2 DEF RoomRows
  <2> QED
    BY <1>2, <2>3, RowsAssumption DEF TypeOK
<1>5. /\ game'[x] # None /\ game'[x].room = r /\ game'[x].status = status
      /\ \A y \in Games \ {x} : game'[y] = game[y]
  <2>1. game[x] \in GameRows
    BY <1>2, RowTypes
  <2>2. game'[x] = [game[x] EXCEPT !.status = status]
    BY <1>2 DEF TypeOK
  <2>3. game'[x] \in GameRows /\ game'[x].room = r /\ game'[x].status = status
    BY <1>1, <2>1, <2>2 DEF GameRows
  <2> QED
    BY <1>2, <2>3, RowsAssumption DEF TypeOK
<1>6. ASSUME NEW y \in Games \ {x}, game[y] # None
      PROVE  game[y].room \in RoomIds \ {r}
  BY <1>3, <1>6, RowTypes DEF GamesAreRecorded, GameRows
<1>7. ASSUME NEW y \in Games, game'[y] # None
      PROVE  LET q == game'[y].room
             IN /\ room'[q] # None /\ room'[q].game = y
                /\ room'[q].status = game'[y].status
                /\ record'[y] = [s \in Seats |-> seat'[q][s].deck]
  <2>1. CASE y = x
    BY <1>2, <1>3, <1>4, <1>5, <2>1 DEF Lineup
  <2>2. CASE y # x
    <3>1. game'[y] = game[y] /\ game[y] # None
      BY <1>5, <1>7, <2>2
    <3>2. /\ room[game[y].room] # None /\ room[game[y].room].game = y
          /\ room[game[y].room].status = game[y].status
          /\ record[y] = Lineup(game[y].room)
      BY <3>1 DEF GamesAreRecorded
    <3>3. game[y].room \in RoomIds \ {r}
      BY <1>6, <2>2, <3>1
    <3>4. record'[y] = [s \in Seats |-> seat'[game'[y].room][s].deck]
      BY <1>2, <3>1, <3>2 DEF Lineup
    <3> QED
      BY <1>4, <3>1, <3>2, <3>3, <3>4
  <2> QED
    BY <2>1, <2>2
<1>8. ASSUME NEW q \in RoomIds, room'[q] # None
      PROVE  /\ room'[q].game # None =>
                  game'[room'[q].game] # None /\ game'[room'[q].game].room = q
             /\ room'[q].game = None <=> room'[q].status \in {"open", "closed"}
  <2>1. CASE q = r
    BY <1>4, <1>5, <2>1, RoomsAssumption
  <2>2. CASE q # r
    <3>1. room'[q] = room[q] /\ room[q] \in RoomRows
      BY <1>4, <1>8, <2>2, RowTypes
    <3>2. /\ room[q].game # None =>
               game[room[q].game] # None /\ game[room[q].game].room = q
          /\ room[q].game = None <=> room[q].status \in {"open", "closed"}
      BY <1>8, <3>1 DEF GamesAreRecorded
    <3>3. room[q].game # None => room[q].game \in Games \ {x}
      BY <1>1, <2>2, <3>1, <3>2 DEF RoomRows
    <3> QED
      BY <1>5, <3>1, <3>2, <3>3
  <2> QED
    BY <2>1, <2>2
<1>9. GamesAreRecorded'
  BY <1>7, <1>8 DEF GamesAreRecorded, Lineup
<1> QED
  BY <1>2, <1>9 DEF StartStands

LEMMA GamesStep ==
  ASSUME TypeOK, StartStands, GamesAreRecorded, [Next]_vars
  PROVE  GamesAreRecorded' /\ StartStands'
<1>1. ASSUME NEW r \in RoomIds, NEW g \in Guests, Lobby(r, g)
      PROVE  GamesAreRecorded' /\ StartStands'
  BY <1>1, StartGameGames, LobbyOperations, LobbyGames
<1>2. CASE GameStarts
  BY <1>2, GameStartsGames
<1>3. ASSUME NEW x \in Games, NEW status \in GameStatuses, UpdateGame(x, status)
      PROVE  GamesAreRecorded' /\ StartStands'
  BY <1>3, UpdateGames
<1>4. ASSUME Crash \/ UNCHANGED vars
      PROVE  GamesAreRecorded' /\ StartStands'
  <2>1. UNCHANGED <<room, seat, game, record>> /\ (starting' = None \/ starting' = starting)
    BY <1>4 DEF Crash, vars
  <2>2. GamesAreRecorded'
    BY <2>1 DEF GamesAreRecorded, Lineup
  <2>3. StartStands'
    BY <2>1 DEF StartStands, IsOpen, Lineup
  <2> QED
    BY <2>2, <2>3
<1> QED
  BY <1>1, <1>2, <1>3, <1>4 DEF Next

LEMMA LineupStep ==
  ASSUME TypeOK, StartStands, GamesAreRecorded, [Next]_vars,
         NEW q \in RoomIds, room[q] # None, room[q].status \in GameStatuses
  PROVE  seat'[q] = seat[q] /\ room'[q].game = room[q].game
<1>1. ASSUME NEW r \in RoomIds, NEW g \in Guests, Lobby(r, g)
      PROVE  seat'[q] = seat[q] /\ room'[q].game = room[q].game
  <2>1. CASE \E x \in Games : StartGame(r, g, x)
    BY <2>1 DEF StartGame, SaveAndCommit, SaveRecord
  <2>2. CASE ~ \E x \in Games : StartGame(r, g, x)
    <3>1. LobbyAlone(q)
      BY <1>1, <2>2, LobbyOperations DEF LobbyStep
    <3> QED
      BY <3>1 DEF LobbyAlone
  <2> QED
    BY <2>1, <2>2
<1>2. CASE GameStarts
  <2>1. seat' = seat /\ CommitGame(starting.room, starting.game)
    BY <1>2 DEF GameStarts, SaveAndCommit
  <2>2. room[starting.room].status = "open"
    BY <2>1 DEF CommitGame, IsOpen
  <2>3. q # starting.room
    BY <2>2 DEF GameStatuses
  <2> QED
    BY <2>1, <2>3 DEF CommitGame, TypeOK
<1>3. ASSUME NEW x \in Games, NEW status \in GameStatuses, UpdateGame(x, status)
      PROVE  seat'[q] = seat[q] /\ room'[q].game = room[q].game
  <2>1. room[q] \in RoomRows
    BY RowTypes
  <2>2. [room[q] EXCEPT !.status = status].game = room[q].game
    BY <2>1 DEF RoomRows
  <2> QED
    BY <1>3, <2>2 DEF UpdateGame, BothRows, TypeOK
<1>4. CASE Crash \/ UNCHANGED vars
  BY <1>4 DEF Crash, vars
<1> QED
  BY <1>1, <1>2, <1>3, <1>4 DEF Next

-----------------------------------------------------------------------------
LEMMA InitIInv == Init => IInv
<1> SUFFICES ASSUME Init PROVE IInv
  OBVIOUS
<1>1. TypeOK
  <2>1. Vacant \in SeatRows /\ Vacant.ready = FALSE /\ Vacant.deck = None
    BY DEF Vacant, SeatRows
  <2> QED
    BY <2>1, RoomsAssumption DEF Init, TypeOK
<1>2. PlayersAreSeated /\ StartStands /\ GamesAreRecorded
  BY DEF Init, PlayersAreSeated, StartStands, GamesAreRecorded
<1>3. DecksOfSeats
  BY DEF Init, DecksOfSeats, Vacant
<1> QED
  BY <1>1, <1>2, <1>3 DEF IInv

LEMMA StepIInv == IInv /\ [Next]_vars => IInv'
BY TypeStep, SeatsStep, DecksStep, GamesStep DEF IInv

THEOREM InvariantHolds == Spec => []IInv
<1> QED
  BY InitIInv, StepIInv, PTL DEF Spec

(* The rows have the columns and the values the schema gives them, and a   *)
(* seat is ready exactly when it has a deck.                               *)
THEOREM TypeCorrect == Spec => []TypeOK
<1>1. IInv => TypeOK
  BY DEF IInv
<1> QED
  BY <1>1, InvariantHolds, PTL

(* The table of seats and the table of members agree on who plays, in      *)
(* every order of joining, watching, leaving and being removed.            *)
THEOREM SeatsAndMembersAgree == Spec => []PlayersAreSeated
<1>1. IInv => PlayersAreSeated
  BY DEF IInv
<1> QED
  BY <1>1, InvariantHolds, PTL

(* Nobody plays with a deck that was deleted or that a former guest saved. *)
THEOREM DecksAreOwn == Spec => []DecksOfSeats
<1>1. IInv => DecksOfSeats
  BY DEF IInv
<1> QED
  BY <1>1, InvariantHolds, PTL

(* A game that the tables know of has its record, also after the process   *)
(* ended between the two writes of a start.                                *)
THEOREM NoGameWithoutRecord == Spec => []GamesAreRecorded
<1>1. IInv => GamesAreRecorded
  BY DEF IInv
<1> QED
  BY <1>1, InvariantHolds, PTL

(* Who may command a seat is shown the view of that seat, and nobody else. *)
THEOREM AccessIsMembership == Spec => []RolesAgree
<1>1. IInv => RolesAgree
  <2> SUFFICES ASSUME IInv, NEW x \in Games, NEW g \in Guests
               PROVE  Membership(x, g) = "player" <=> Access(x, g) # {}
    BY DEF RolesAgree
  <2>1. CASE game[x] = None
    BY <2>1 DEF Membership, Access
  <2>2. CASE game[x] # None
    <3> DEFINE r == game[x].room
    <3>1. r \in RoomIds /\ room[r] # None
      BY <2>2, RowTypes DEF IInv, GamesAreRecorded, GameRows
    <3>2. member[r][g] = "player" <=> SeatOf(r, g) # {}
      BY <3>1 DEF IInv, PlayersAreSeated
    <3> HIDE DEF r
    <3>3. member[r][g] \in {"none", "player", "spectator"}
      BY <3>1 DEF IInv, TypeOK
    <3> QED
      BY <2>2, <3>2, <3>3 DEF Membership, Access, r
  <2> QED
    BY <2>1, <2>2
<1> QED
  BY <1>1, InvariantHolds, PTL

(* The seats, the decks and the game of a room that has left the lobby     *)
(* never change again.                                                     *)
THEOREM LineupIsFixed == Spec => LineupStands
<1>1. IInv /\ [Next]_vars =>
        [\A r \in RoomIds :
           room[r] # None /\ room[r].status \in GameStatuses =>
             seat'[r] = seat[r] /\ room'[r].game = room[r].game]_vars
  BY LineupStep DEF IInv
<1> QED
  BY <1>1, InvariantHolds, PTL DEF Spec, LineupStands
=============================================================================
