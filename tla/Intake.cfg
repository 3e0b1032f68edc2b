SPECIFICATION FairSpec
CONSTANTS
  Handler = {h1, h2, h3}
  p1 = p1
  p2 = p2
  b1 = b1
  b2 = b2
  PartId = {p1, p2}
  Body = {b1, b2}
  Valid <- MCValid
  NoBody = NoBody
  Free = Free
  Permits = 2
  Reserve = 1
  Allowance = 2
  Capacity = 5
INVARIANTS
  TypeOK
  PermitsFollowBodies
  ReceiptIsDurable
  ReserveIsKept
PROPERTIES
  NeverOverwritten
  PublicationEnds
