------------------------------- MODULE MCRooms -------------------------------
(***************************************************************************)
(* Rooms of two seats for TLC.                                             *)
(***************************************************************************)
EXTENDS Rooms, TLC

MCSymmetry ==
  Permutations(RoomIds) \cup Permutations(Guests) \cup Permutations(Decks)
    \cup Permutations(Games)
=============================================================================
