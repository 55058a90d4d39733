SPECIFICATION Spec
CONSTANTS
  User = {ann, bob}
  Room = {r1, r2}
  Handler = {p1, p2}
  None = None
  MaxRooms = 1
  MaxMembers = 2
  MaxMsgs = 2
SYMMETRY RoomsSymmetry
INVARIANTS OwnerIsMember MessagesBelong DeparturesAnnounced
