SPECIFICATION GroupSpec
CONSTANTS
  Member = {1, 2, 3}
  MaxSessions = 3
  MaxConns = 6
INVARIANTS WhoHearsMeets NoGhosts
CHECK_DEADLOCK FALSE
