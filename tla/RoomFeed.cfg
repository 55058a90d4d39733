SPECIFICATION FairFeedSpec
CONSTANTS
  User = {ann, bob, eve}
  Room = {r1}
  Socket = {s1}
  Handler = {p1, p2}
  None = None
  MaxRooms = 1
  MaxMembers = 2
  MaxMsgs = 1
INVARIANTS ListenersEntered BoundedMembers
PROPERTIES ExpiredRoomsGo
