CONSTANTS
  RoomIds = {r1, r2}
  Guests = {g1, g2, g3}
  Seats = {A, B}
  OwnerSeat = A
  Decks = {d1, d2, d3}
  Games = {x1, x2}
  MaxCodes = 3
  None = None
SYMMETRY MCSymmetry
SPECIFICATION Spec
INVARIANT PlayersAreSeated
INVARIANT DecksOfSeats
INVARIANT GamesAreRecorded
INVARIANT RolesAgree
