SPECIFICATION Spec
CONSTANTS
  r1 = r1
  r2 = r2
  r3 = r3
  ann = ann
  bob = bob
  bucket = bucket
  coll = coll
  rec = rec
  Requests = {r1, r2, r3}
  Users = {ann, bob}
  UserOf <- MCUserOf
  Founder = Founder
  Paths = {coll, rec}
  Parent <- MCParent
  Beneath <- MCBeneath
  Present = {coll, rec}
  Jobs <- MCJobs
  Free = Free
  None = None
INVARIANTS TypeOK TokenSpentOnce LastWriterGranted GrantsDieWithObject
PROPERTIES SinglesEnd
