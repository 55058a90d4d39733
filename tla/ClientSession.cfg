SPECIFICATION ClientsSpec
CONSTANTS
  User = {ann, bob}
  Tab = {t1, t2}
  None = None
  Retries = 1
  MaxTokens = 3
  MaxFails = 1
  MaxLoads = 2
  MaxReqs = 2
  Person = {cat, dan}
  NoPerson = NoPerson
  MaxIssued = 3
  MaxFaults = 2
SYMMETRY ClientSymmetry
INVARIANTS CookieLives OneUserPerTab PhoneTokenLives PhoneAgrees
CHECK_DEADLOCK FALSE
