CONSTANTS
  Buckets = Buckets  Groups = Groups  a = a  b = b  x = x  y = y
  NoObject = NoObject
  NotSaved = NotSaved
  Namespaces <- NestedNamespaces
  Prefixed <- NestedPrefixed
  Ids = {a, b}
  Contents = {x}
  MaxTime = 4
  MaxFlushed = 1
  MaxBulk = 2
SPECIFICATION Spec
SYMMETRY NestedSymmetry
INVARIANTS
  TypeOK
  VersionsSound
  ChangesVisible
  ModTimeValidates
PROPERTIES
  ImplementsTxStore
