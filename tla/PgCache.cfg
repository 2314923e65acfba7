SPECIFICATION EitherSpec
CONSTANTS
  k1 = k1  k2 = k2  v1 = v1
  Keys = {k1, k2}
  Values = {v1}
  MaxTime = 3
  NoItem = NoItem
  NotSaved = NotSaved
CHECK_DEADLOCK FALSE
PROPERTIES
  ImplementsTtlCache
  TableImplementsTtlCache
