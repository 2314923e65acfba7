SPECIFICATION Spec
CONSTANTS
  a = a
  b = b
  r = r
  top = top
  nested = nested
  Txns = {t1, t2}
  Paths = {a, b, r}
  Spaces = {top, nested}
  SpaceOf <- MCSpaceOf
  Beneath <- MCBeneath
  Clock = {1, 3}
  MaxTime <- MCMaxTime
  Polled = {top}
  MaxCalls = 2
  Free = Free
  NoRow = NoRow
  None = None
SYMMETRY Symmetry
INVARIANTS TypeOK EpochsSound PollsSound LockedReadStands
PROPERTIES CreateOverwritesNothing
