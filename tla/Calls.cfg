SPECIFICATION CallSpec
CONSTANTS
  ann = ann
  bob = bob
  eve = eve
  Party = {ann, bob, eve}
  Dials <- ToBob
  Nobody = Nobody
  MaxConns = 3
  MaxOpens = 3
  MaxTurns = 1
SYMMETRY Callers
INVARIANTS FaceToFace AnsweredCallsConnect RingingEnds
CHECK_DEADLOCK FALSE
