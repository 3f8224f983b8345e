SPECIFICATION FairSpec
CONSTANTS
  lcc = lcc
  ltc = ltc
  NoCoin = NoCoin
  Coins <- OneCoin
  MaxThreads = 2
  MaxActions = 2
  MaxLost = 1
INVARIANT BusyHasCause
PROPERTIES BusyReleased IdleScans
