SPECIFICATION Spec
CONSTANTS
  Req = {r1, r2}
  MaxAttempts = 2
  MaxResends = 1
  BackupCodes = 2
  MaxCodes = 2
  MaxSetups = 2
  MaxOps = 7
  MaxCuts = 1
SYMMETRY AccountsSymmetry
INVARIANTS BoundedAttempts CodeLogsInOnce BackupCodeSpentOnce OneSetup
CHECK_DEADLOCK FALSE
