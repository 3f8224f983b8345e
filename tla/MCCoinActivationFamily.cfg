SPECIFICATION Spec
CONSTANTS
  u1 = u1
  u2 = u2
  eth = eth
  t1 = t1
  t2 = t2
  Coins <- FamilyCoins
  Platform <- FamilyPlatform
  NoCoin = NoCoin
  AskAgainMarks = {t1}
  Protected = {eth}
  BatchLimit = 2
  MaxEnabled = 3
  AllowResubmit = TRUE
  MaxCommands = 1
  MaxLost = 0
  MaxCrashes = 0
INVARIANTS NoneMissing MarksAnnounced
PROPERTY NoneDropped
