-------------------------------- MODULE Rooms --------------------------------
(***************************************************************************)
(* The server's control plane: the tables of rooms, seats, members, decks  *)
(* and games, the operations of ServerStore on them, and the start of a    *)
(* game, which writes a Game Record before the tables know of it.          *)
(*                                                                         *)
(* An operation is one SQLite transaction and no handler awaits between    *)
(* two of them, so an operation is one step; what it refuses is no step.   *)
(* Only the end of the process can fall between the two writes of a start. *)
(* A guest may try any invite code that was ever given to anybody.         *)
(***************************************************************************)
EXTENDS Integers, FiniteSets

CONSTANTS
  RoomIds,   \* identifiers for rooms, of which each is used once
  Guests,    \* the guest sessions
  Seats,     \* the seats of a room
  OwnerSeat, \* the seat of a room's owner
  Decks,     \* identifiers for rows of decks, of which each is used once
  Games,     \* identifiers for games, of which each is used once
  MaxCodes,  \* bound: invite codes given out
  None       \* no room, guest, deck, game, record or row

ASSUME RoomsAssumption ==
  /\ OwnerSeat \in Seats
  /\ MaxCodes \in Nat
  /\ None \notin RoomIds \cup Guests \cup Decks \cup Games

GameStatuses == {"active", "paused", "complete", "aborted"}

VARIABLES
  room,      \* rows of rooms: owner, status, invite code and game
  seat,      \* rows of room_seats: guest, deck and readiness
  member,    \* rows of room_members: "player" or "spectator"
  deck,      \* rows of decks: the guest who saved it
  gone,      \* identifiers of deck rows that were deleted
  game,      \* rows of games: room and status
  record,    \* the saved Game Records: the deck at each seat
  starting,  \* the room and the game of a start between its two writes
  codes      \* how many invite codes have been given out

vars == <<room, seat, member, deck, gone, game, record, starting, codes>>

\* The code of a room that nobody was given.
Secret == 0

RoomRows ==
  [owner : Guests, status : {"open", "closed"} \cup GameStatuses,
   invite : 0 .. MaxCodes, game : Games \cup {None}]

SeatRows ==
  [guest : Guests \cup {None}, deck : Decks \cup {None}, ready : BOOLEAN]

Vacant == [guest |-> None, deck |-> None, ready |-> FALSE]

GameRows == [room : RoomIds, status : GameStatuses]

Lineups == [Seats -> Decks]

Starts == [room : RoomIds, game : Games]

ASSUME RowsAssumption ==
  None \notin RoomRows \cup GameRows \cup Lineups \cup Starts

-----------------------------------------------------------------------------
IsOpen(r) == room[r] # None /\ room[r].status = "open"

Owns(g, r) == room[r] # None /\ room[r].owner = g

SeatOf(r, g) == {s \in Seats : seat[r][s].guest = g}

Idle == starting = None

(* DELETE FROM decks: the rows are gone, and so are their identifiers.     *)
DeleteDecks(ids) ==
  /\ deck' = [d \in Decks |-> IF d \in ids THEN None ELSE deck[d]]
  /\ gone' = gone \cup (ids \ {None})

(* INSERT INTO rooms, with the owner as a member at the first seat.        *)
NewSeats(g) == [s \in Seats |-> IF s = OwnerSeat THEN [Vacant EXCEPT !.guest = g] ELSE Vacant]

NewMembers(g) == [h \in Guests |-> IF h = g THEN "player" ELSE "none"]

NewRoom(g) ==
  [owner |-> g, status |-> "open", invite |-> codes + 1, game |-> None]

CreateRoom(r, g) ==
  /\ Idle
  /\ room[r] = None
  /\ codes < MaxCodes
  /\ codes' = codes + 1
  /\ room' = [room EXCEPT ![r] = NewRoom(g)]
  /\ seat' = [seat EXCEPT ![r] = NewSeats(g)]
  /\ member' = [member EXCEPT ![r] = NewMembers(g)]
  /\ UNCHANGED <<deck, gone, game, record, starting>>

DecksIn(r) == {seat[r][s].deck : s \in Seats}

WithoutDecks(row) == [row EXCEPT !.deck = None, !.ready = FALSE]

(* The old room is closed, with its decks deleted and a code that nobody   *)
(* has; its members stay where they are.                                   *)
ReplaceRoom(r, n, g) ==
  /\ Idle
  /\ IsOpen(r) /\ Owns(g, r)
  /\ room[n] = None
  /\ codes < MaxCodes
  /\ codes' = codes + 1
  /\ room' = [room EXCEPT ![r].status = "closed", ![r].invite = Secret,
                          ![n] = NewRoom(g)]
  /\ seat' = [seat EXCEPT ![r] = [s \in Seats |-> WithoutDecks(seat[r][s])],
                          ![n] = NewSeats(g)]
  /\ member' = [member EXCEPT ![n] = NewMembers(g)]
  /\ DeleteDecks(DecksIn(r))
  /\ UNCHANGED <<game, record, starting>>

RotateInvite(r, g) ==
  /\ Idle
  /\ IsOpen(r) /\ Owns(g, r)
  /\ codes < MaxCodes
  /\ codes' = codes + 1
  /\ room' = [room EXCEPT ![r].invite = codes + 1]
  /\ UNCHANGED <<seat, member, deck, gone, game, record, starting>>

Admits(r, c) == room[r] # None /\ room[r].invite = c

JoinRoom(r, g, c, s) ==
  /\ Idle
  /\ Admits(r, c) /\ IsOpen(r)
  /\ seat[r][s].guest \in {None, g}
  /\ SeatOf(r, g) \subseteq {s}
  /\ member' = [member EXCEPT ![r][g] = "player"]
  /\ seat' = [seat EXCEPT ![r][s].guest = g]
  /\ UNCHANGED <<room, deck, gone, game, record, starting, codes>>

(* Bug: whoever follows the link to watch becomes a spectator.             *)
AlwaysSpectator(r, g) == "spectator"

RoleToWatch(r, g) == IF SeatOf(r, g) # {} THEN "player" ELSE "spectator"

(* A game that has started can still be watched.                           *)
JoinSpectator(r, g, c) ==
  /\ Idle
  /\ Admits(r, c) /\ room[r].status # "closed"
  /\ member' = [member EXCEPT ![r][g] = RoleToWatch(r, g)]
  /\ UNCHANGED <<room, seat, deck, gone, game, record, starting, codes>>

(* Bug: the player leaves the seat and keeps the membership.               *)
SeatOnly(r, s) ==
  /\ seat' = [seat EXCEPT ![r][s] = Vacant]
  /\ DeleteDecks({seat[r][s].deck})
  /\ UNCHANGED member

(* Bug: the deck is deleted, but the seat does not lose it.                *)
GuestOnly(r, s) ==
  /\ seat' = [seat EXCEPT ![r][s].guest = None]
  /\ DeleteDecks({seat[r][s].deck})
  /\ member' = [member EXCEPT ![r][seat[r][s].guest] = "none"]

Vacate(r, s) ==
  /\ seat' = [seat EXCEPT ![r][s] = Vacant]
  /\ DeleteDecks({seat[r][s].deck})
  /\ member' = [member EXCEPT ![r][seat[r][s].guest] = "none"]

RemoveSeat(r, g, s) ==
  /\ Idle
  /\ IsOpen(r) /\ Owns(g, r)
  /\ s # OwnerSeat
  /\ seat[r][s].guest # None
  /\ Vacate(r, s)
  /\ UNCHANGED <<room, game, record, starting, codes>>

StopWatching(r, g) ==
  /\ Idle
  /\ room[r] # None
  /\ member[r][g] = "spectator"
  /\ member' = [member EXCEPT ![r][g] = "none"]
  /\ UNCHANGED <<room, seat, deck, gone, game, record, starting, codes>>

LeaveSeat(r, g, s) ==
  /\ Idle
  /\ member[r][g] = "player"
  /\ IsOpen(r) /\ ~Owns(g, r)
  /\ s \in SeatOf(r, g)
  /\ Vacate(r, s)
  /\ UNCHANGED <<room, game, record, starting, codes>>

(* The row of a deck that this one replaces is left.                       *)
SaveDeck(r, g, s, d) ==
  /\ Idle
  /\ IsOpen(r)
  /\ s \in SeatOf(r, g)
  /\ deck[d] = None /\ d \notin gone
  /\ deck' = [deck EXCEPT ![d] = g]
  /\ seat' = [seat EXCEPT ![r][s].deck = d, ![r][s].ready = TRUE]
  /\ UNCHANGED <<room, member, gone, game, record, starting, codes>>

BeforeStart(r) == IsOpen(r)

ClearDeck(r, g, s) ==
  /\ Idle
  /\ BeforeStart(r)
  /\ s \in SeatOf(r, g)
  /\ seat' = [seat EXCEPT ![r][s] = WithoutDecks(@)]
  /\ DeleteDecks({seat[r][s].deck})
  /\ UNCHANGED <<room, member, game, record, starting, codes>>

-----------------------------------------------------------------------------
(* The start of a game.                                                    *)

Ready(r) ==
  \A s \in Seats :
    /\ seat[r][s].guest # None
    /\ seat[r][s].ready
    /\ seat[r][s].deck # None /\ deck[seat[r][s].deck] # None

Lineup(r) == [s \in Seats |-> seat[r][s].deck]

SaveRecord(r, x) ==
  /\ record' = [record EXCEPT ![x] = Lineup(r)]
  /\ UNCHANGED <<room, game>>

CommitGame(r, x) ==
  /\ IsOpen(r)
  /\ game' = [game EXCEPT ![x] = [room |-> r, status |-> "active"]]
  /\ room' = [room EXCEPT ![r].status = "active", ![r].game = x]
  /\ UNCHANGED record

(* Bug: the tables know of the game before its record is saved.            *)
CommitAndSave(write, r, x) ==
  IF write = 1 THEN CommitGame(r, x) ELSE SaveRecord(r, x)

SaveAndCommit(write, r, x) ==
  IF write = 1 THEN SaveRecord(r, x) ELSE CommitGame(r, x)

StartGame(r, g, x) ==
  /\ Idle
  /\ IsOpen(r) /\ Owns(g, r)
  /\ Ready(r)
  /\ record[x] = None /\ game[x] = None
  /\ SaveAndCommit(1, r, x)
  /\ starting' = [room |-> r, game |-> x]
  /\ UNCHANGED <<seat, member, deck, gone, codes>>

GameStarts ==
  /\ ~Idle
  /\ SaveAndCommit(2, starting.room, starting.game)
  /\ starting' = None
  /\ UNCHANGED <<seat, member, deck, gone, codes>>

(* The process ends between the two writes.                                *)
Crash ==
  /\ ~Idle
  /\ starting' = None
  /\ UNCHANGED <<room, seat, member, deck, gone, game, record, codes>>

BothRows(x, status) ==
  /\ game' = [game EXCEPT ![x].status = status]
  /\ room' = [room EXCEPT ![game[x].room].status = status]

(* The actor's save reports the state of its game.                         *)
UpdateGame(x, status) ==
  /\ Idle
  /\ game[x] # None
  /\ BothRows(x, status)
  /\ UNCHANGED <<seat, member, deck, gone, record, starting, codes>>

-----------------------------------------------------------------------------
Init ==
  /\ room = [r \in RoomIds |-> None]
  /\ seat = [r \in RoomIds |-> [s \in Seats |-> Vacant]]
  /\ member = [r \in RoomIds |-> [g \in Guests |-> "none"]]
  /\ deck = [d \in Decks |-> None]
  /\ gone = {}
  /\ game = [x \in Games |-> None]
  /\ record = [x \in Games |-> None]
  /\ starting = None
  /\ codes = 0

Lobby(r, g) ==
  \/ CreateRoom(r, g) \/ RotateInvite(r, g) \/ StopWatching(r, g)
  \/ \E n \in RoomIds \ {r} : ReplaceRoom(r, n, g)
  \/ \E c \in 1 .. codes :
       JoinSpectator(r, g, c) \/ \E s \in Seats : JoinRoom(r, g, c, s)
  \/ \E s \in Seats :
       \/ RemoveSeat(r, g, s) \/ LeaveSeat(r, g, s) \/ ClearDeck(r, g, s)
       \/ \E d \in Decks : SaveDeck(r, g, s, d)
  \/ \E x \in Games : StartGame(r, g, x)

Next ==
  \/ \E r \in RoomIds, g \in Guests : Lobby(r, g)
  \/ GameStarts \/ Crash
  \/ \E x \in Games, status \in GameStatuses : UpdateGame(x, status)

Spec == Init /\ [][Next]_vars

-----------------------------------------------------------------------------
(* Who may do what in a game.                                              *)

(* The seat that a guest commands (game_access).                           *)
Access(x, g) ==
  IF game[x] = None THEN {} ELSE SeatOf(game[x].room, g)

(* The seat or the audience in which a guest sees it (game_membership).    *)
Membership(x, g) ==
  IF game[x] = None \/ member[game[x].room][g] = "none" THEN "refused"
  ELSE IF member[game[x].room][g] = "spectator" THEN "spectator"
  ELSE IF SeatOf(game[x].room, g) = {} THEN "refused"
  ELSE "player"

TypeOK ==
  /\ room \in [RoomIds -> RoomRows \cup {None}]
  /\ seat \in [RoomIds -> [Seats -> SeatRows]]
  /\ \A r \in RoomIds, s \in Seats :
       seat[r][s].ready <=> seat[r][s].deck # None
  /\ member \in [RoomIds -> [Guests -> {"none", "player", "spectator"}]]
  /\ deck \in [Decks -> Guests \cup {None}]
  /\ gone \subseteq {d \in Decks : deck[d] = None}
  /\ game \in [Games -> GameRows \cup {None}]
  /\ record \in [Games -> Lineups \cup {None}]
  /\ starting \in Starts \cup {None}
  /\ codes \in 0 .. MaxCodes

(* Two tables say who plays: the players among the members of a room are   *)
(* exactly the guests on its seats, each on one, and the owner has the     *)
(* first seat whatever guests join, watch, leave or are removed.           *)
PlayersAreSeated ==
  \A r \in RoomIds :
    room[r] # None =>
      /\ seat[r][OwnerSeat].guest = room[r].owner
      /\ \A g \in Guests :
           /\ member[r][g] = "player" <=> SeatOf(r, g) # {}
           /\ \A s, t \in SeatOf(r, g) : s = t

(* The deck of a seat is in the table of decks, was saved by the guest who *)
(* has the seat now, and is no other seat's: nobody plays, or starts a     *)
(* game with, what somebody else left there.                               *)
DecksOfSeats ==
  \A r \in RoomIds, s \in Seats :
    LET d == seat[r][s].deck
    IN d # None =>
         /\ deck[d] # None /\ deck[d] = seat[r][s].guest
         /\ \A q \in RoomIds, t \in Seats :
              seat[q][t].deck = d => q = r /\ t = s

(* The tables and the Game Records agree: each game is that of one room,   *)
(* with the status the room shows, and a record of it is saved, with the   *)
(* decks that the room's seats still have, also when the process ended     *)
(* while a game was starting.                                              *)
GamesAreRecorded ==
  /\ \A x \in Games :
       game[x] # None =>
         LET r == game[x].room
         IN /\ room[r] # None /\ room[r].game = x
            /\ room[r].status = game[x].status
            /\ record[x] = Lineup(r)
  /\ \A r \in RoomIds :
       room[r] # None =>
         /\ room[r].game # None => game[room[r].game] # None
                                   /\ game[room[r].game].room = r
         /\ room[r].game = None <=> room[r].status \in {"open", "closed"}

(* The two ways to ask for a guest's part in a game agree: who may command *)
(* a seat is shown that seat's view, and a spectator commands none.        *)
RolesAgree ==
  \A x \in Games, g \in Guests :
    Membership(x, g) = "player" <=> Access(x, g) # {}

(* Once a room has left the lobby its seats, its decks and its game stay   *)
(* what they are.                                                          *)
LineupStands ==
  [][\A r \in RoomIds :
       room[r] # None /\ room[r].status \in GameStatuses =>
         seat'[r] = seat[r] /\ room'[r].game = room[r].game]_vars
=============================================================================
