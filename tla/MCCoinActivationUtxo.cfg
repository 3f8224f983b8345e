SPECIFICATION FairSpec
CONSTANTS
  u1 = u1
  u2 = u2
  eth = eth
  t1 = t1
  t2 = t2
  Coins <- UtxoCoins
  Platform <- UtxoPlatform
  NoCoin = NoCoin
  AskAgainMarks = {}
  Protected = {u1}
  BatchLimit = 1
  MaxEnabled = 2
  AllowResubmit = FALSE
  MaxCommands = 3
  MaxLost = 1
  MaxCrashes = 1
INVARIANTS UtxoEnabledRuns UtxoRowsEnabled
PROPERTIES EnabledIsSaved EnabledIsShown
