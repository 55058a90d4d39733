SPECIFICATION MessagesSpec
CONSTANTS
  ann = ann
  bob = bob
  eve = eve
  User = {ann, bob, eve}
  Handler = {p1, p2}
  None = None
  Emoji = {up, down}
  Pairs <- OfAnn
  MaxReactions = 1
  MaxMsgs = 2
  MaxEdits = 1
  MaxToggles = 2
  Worked = {1}
  MaxChanges = 1
  Reader = {cat, dan}
  Nobody = Nobody
  MaxEndpoints = 2
  MaxPresses = 2
  MaxTroubles = 1
SYMMETRY MessagesSymmetry
INVARIANTS ButtonTells
PROPERTIES ImplementsStore LateOnlyUnderWay
CHECK_DEADLOCK FALSE
