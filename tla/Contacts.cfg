SPECIFICATION OverlapSpec
CONSTANTS
  ann = ann
  bob = bob
  eve = eve
  User = {ann, bob, eve}
  Capped <- Ann
  MaxContacts = 1
  Asking <- TowardsAnnOrBob
  InvitePairs <- BobEve
  Handler = {p1, p2}
  None = None
  MaxRows = 4
SYMMETRY HandlerSymmetry
INVARIANTS ContactRestsOnRequest BoundedOvershoot PendingOverlapped
PROPERTIES RejectedOverlapped
