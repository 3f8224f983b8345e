SPECIFICATION MCSpec
CONSTANTS
  ltc = ltc
  arrr = arrr
  eth = eth
  s1 = s1
  s2 = s2
  Coins = {ltc, arrr, eth}
  Tokens = {eth}
  Ids <- MCIds
  Active = {ltc, eth}
  Slots = {s1, s2}
  MaxChoices = 1
  MaxFaults = 1
  MaxNew = 2
INVARIANTS TypeOK BusyHasCause RowsOfTicker NoTxTwice
PROPERTY HistoryShown
