SPECIFICATION FairSpec
CONSTANTS
  lcc = lcc
  ltc = ltc
  NoCoin = NoCoin
  Coins <- OneCoin
  MaxThreads = 2
  MaxActions = 1
  MaxLost = 1
PROPERTY ScansContinue
