SPECIFICATION Spec
CONSTANTS
  b = b
  g = g
  c = c
  r = r
  q = q
  Paths = {b, g, c, r, q}
  Root = Root
  Parent <- MCParent
  Kind <- MCKind
  Swept <- MCSwept
  Users = {alice}
  Everyone = Everyone
  Authenticated = Authenticated
  Static <- MCStatic
  MemberLists <- MCMembers
  GrantSets <- MCGrants
  MaxTime <- MCMaxTime
  Kept = {g}
  Nonces = {n1}
  PerSecond = 2
  Malformed = Malformed
  Absent = Absent
  AnyTag = AnyTag
  NoObject = NoObject
SYMMETRY MCSymmetry
INVARIANTS TypeOK MembersHold HoldersAreMembers GrantsHaveObject ParentsExist
PROPERTIES NoLostUpdate RefusalsChangeNothing
