SPECIFICATION FairSpec
CONSTANTS
  r1 = r1  r2 = r2
  Requests = {r1, r2}
  Deployments <- MemoryMixedDatabase
  Readable <- StoreAndPerms
  Writable <- StoreAndPerms
  Refusing <- StoreOnly
  Nobody = Nobody
  Reaper = Reaper
CHECK_DEADLOCK FALSE
INVARIANTS TypeOK FineMeansKept ErrorLeavesNothing ReadsWhole
PROPERTIES Answered
