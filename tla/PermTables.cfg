SPECIFICATION BothSpec
CONSTANTS
  ann = ann
  group = group
  bucket = bucket
  record = record
  buckets = buckets
  records = records
  write = write
  Everyone = Everyone
  Authenticated = Authenticated
  Users = {ann, Everyone, Authenticated}
  Groups = {group}
  Grantees = {group, Everyone}
  Paths = {bucket, record}
  Beneath <- RecordBeneath
  Node <- MCNode
  Perms = {write}
  NotSaved = NotSaved
INVARIANTS TypeOK BackendsAgree
PROPERTIES ImplementsTxStore
