SPECIFICATION DevicesSpec
CONSTANTS
  User = {ann}
  Handler = {p1, p2}
  None = None
  MaxDevices = 2
  MaxTokens = 4
  Account = {amy, bea}
  Tabs <- TwoBrowsers
  Nobody = Nobody
  MaxInits = 2
  MaxChanges = 1
SYMMETRY DevicesSymmetry
INVARIANTS BoundedDevices LogoutSparesInFlight PublishedIsKept OwnKeys
PROPERTIES RotationIsOneTime
CHECK_DEADLOCK FALSE
