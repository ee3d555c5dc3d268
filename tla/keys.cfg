SPECIFICATION LegacySpec
CONSTANTS
  s1 = s1 s2 = s2  t1 = t1  t2 = t2  old = old  new = new  twin = twin  p2 = p2
  RequestIds <- MCRequests
  ToiletIds = {t1, t2}
  Students = {s1, s2}
  Classes <- MCClasses
  SupportKinds = {"paper"}
  Assignments <- MCAssignments
  Proctors = {p2}
  GlobalProctors = {p2}
  ClassScope <- NoScope
  StudentRateLimit = 1
  Times <- MCTimes
  MaxCapacity = 1
  DismissedCodes <- NoCodes
  NoToilet = NoToilet
  NoRow = NoRow
  None = None
  Generated <- MCGenerated
  NameOf <- MCNameOf
  Catalogues <- MCCatalogues
  Databases <- MCDatabases
CONSTRAINT Instances
VIEW OpenRowsView
SYMMETRY Symmetric
INVARIANT TypeOK
INVARIANT RouteExact
INVARIANT OneOpenPerStudent
PROPERTY ToiletsKept
PROPERTY Settled
PROPERTY RoutesFollowKeys
