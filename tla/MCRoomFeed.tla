----------------------------- MODULE MCRoomFeed -----------------------------
(* Instances of RoomFeed for TLC; no symmetry, which liveness forbids. *)
EXTENDS RoomFeed, TLC
=============================================================================
