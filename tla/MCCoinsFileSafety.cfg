SPECIFICATION Spec
CONSTANTS
  lcc = lcc
  ltc = ltc
  arrr = arrr
  main = main
  pool1 = pool1
  Coins <- AllCoins
  Protected = {lcc}
  Bundled = {lcc}
  Known <- ThreeVersions
  Pool = {pool1}
  Main = main
  MaxVersion = 2
  MaxSaves = 3
  MaxCrashes = 1
INVARIANTS TypeOK TornHasCause FileAgreesAlone
PROPERTY CoinsSurviveUndamaged
