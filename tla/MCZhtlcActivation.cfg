SPECIFICATION FairSpec
CONSTANTS
  arrr = arrr
  NoCoin = NoCoin
  Coins = {arrr}
  Tasks = {1, 2}
  MaxTries = 2
  MaxLost = 1
  MaxAlready = 1
INVARIANTS TypeOK StuckHasCause RowMissingHasCause DisabledStaysOff
PROPERTIES ActivationEnds SavedInTheEnd
CHECK_DEADLOCK FALSE
