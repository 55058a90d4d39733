SPECIFICATION BothSpec
CONSTANTS
  ann = ann
  bob = bob
  User = {ann, bob}
  Founder = {ann}
  Admin = {bob}
  Metered = {ann}
  Handler = {p1, p2}
  None = None
  MaxActive = 1
  MaxMonthly = 1
  MaxUses = 2
  MaxInvites = 2
  Mail = {m1}
  Slot = {s1, s2}
  MaxEntries = 1
  MaxLinks = 2
  MaxLoads = 2
  MaxMishaps = 1
SYMMETRY InvitesSymmetry
INVARIANTS BoundedUses RevokedStaysRevoked ContactsAreCounted LinksAccounted PanelCurrent
