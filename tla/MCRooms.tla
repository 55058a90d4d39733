------------------------------ MODULE MCRooms ------------------------------
(* Instances of Rooms for TLC: users, rooms and handlers are interchangeable. *)
EXTENDS Rooms, TLC

RoomsSymmetry ==
  Permutations(User) \cup Permutations(Room) \cup Permutations(Handler)
=============================================================================
