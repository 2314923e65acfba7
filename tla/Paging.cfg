SPECIFICATION Spec
CONSTANTS
  a = a  b = b  c = c
  Ids = {a, b, c}
  Ranks <- Mixed
  Values <- AnyScalar
  MaxValues = 2
  Sorts <- OldestOrNum
  Limits = {1, 2}
  MaxTime = 4
  MaxTokens = 2
  NoObject = NoObject
CHECK_DEADLOCK FALSE
SYMMETRY Symmetry
INVARIANTS SpentOnce BackendsSelectAlike
PROPERTIES ListComplete PagesAdvance DeleteComplete
