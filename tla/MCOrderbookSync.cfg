SPECIFICATION FairSpec
CONSTANTS
  lcc = lcc
  ltc = ltc
  coin = coin
  NoPair = NoPair
  Primary = lcc
  Second = ltc
  Pairs <- FourPairs
  WalletOnly = {coin}
  MaxRequests = 2
  MaxActions = 1
  MaxResets = 2
INVARIANT ServiceFollowsSelectors
INVARIANT ExtrasPerReset
PROPERTY ViewSafe ViewImplemented
