SPECIFICATION PairsSpec
CONSTANTS
  ann = ann
  bob = bob
  r1 = r1
  r2 = r2
  Me = me
  Person = {me, ann, bob}
  Room = {r1, r2}
  NoChat = NoChat
  Emoji = {}
  MaxMsgs = 2
  MaxEdits = 1
  PageSize = 1
  Retries = 1
  MaxActs = 3
  MaxFails = 1
  MaxOwn = 1
INVARIANTS OneCopyUnlessLost
PROPERTIES ScreenFollows
CHECK_DEADLOCK FALSE
