CONSTANTS
  Buckets = Buckets  Groups = Groups  a = a  b = b  x = x  y = y
  NoObject = NoObject
  NotSaved = NotSaved
  Namespaces <- NestedNamespaces
  Prefixed <- NestedPrefixed
  Ids = {a}
  Contents = {x}
  MaxTime = 2
  MaxFlushed = 1
  MaxBulk = 1
SPECIFICATION Spec
PROPERTIES
  RollbackRestoresNested
