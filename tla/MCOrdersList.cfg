SPECIFICATION FairSpec
CONSTANTS
  o1 = o1
  all = all
  none = none
  s1 = s1
  s2 = s2
  s3 = s3
  Orders = {o1}
  MaxPage = 2
  Limits <- MCLimits
  DefaultLimit = 50
  Filters <- MCFilters
  NoFilter = all
  Matching = {all}
  Slots = {s1, s2, s3}
  MaxQueue = 2
  MaxCommands = 2
  MaxFaults = 1
  MaxChanges = 1
INVARIANTS BusyHasCause StaleHasCause ShownIsAsked FilterSent
PROPERTY ListShown
