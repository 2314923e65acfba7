SPECIFICATION Spec
CONSTANTS
  a = a  b = b  c = c
  Ids = {a, b}
  Ranks <- OnlyNull
  Values <- OnlyNull
  MaxValues = 1
  Sorts <- LatestFirst
  Limits = {1}
  MaxTime = 3
  MaxTokens = 0
  NoObject = NoObject
CHECK_DEADLOCK FALSE
PROPERTIES ListCompleteInAnyOrder
