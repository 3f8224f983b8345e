CONSTANTS
  o1 = o1
  o2 = o2
  k1 = k1
  k2 = k2
  NoOrder = NoOrder
  Ids = {o1, o2}
  Coins = {k1, k2}
  Prices = {1, 2}
  BidAnswers <- TwoBids
  BestAnswers <- TwinBests
SPECIFICATION Spec
INVARIANTS
  TypeOK
  BidsAreTheAnswer
  BestOrdersShown
  MissingIsTold
  PreferredOfPair
PROPERTY BetterIsTold
