SPECIFICATION Spec
CONSTANTS
  s1 = s1  s2 = s2  s3 = s3  c1 = c1  c2 = c2
  t1 = t1  t2 = t2  t3 = t3  p1 = p1  p2 = p2
  RequestIds <- Requests3
  ToiletIds = {t1, t2}
  Students = {s1, s2, s3}
  Classes = {c1, c2}
  SupportKinds = {}
  Assignments <- All
  Proctors = {p1, p2}
  GlobalProctors = {p2}
  ClassScope <- RoomAndAll
  StudentRateLimit = 0
  Times <- SteppingClock
  MaxCapacity = 2
  DismissedCodes <- ConfigurationCodes
  NoToilet = NoToilet
  NoRow = NoRow
  None = None
VIEW OpenRowsView
SYMMETRY Symmetric
INVARIANT WithinCapacity
INVARIANT NobodyOverlooked
INVARIANT VisitsAreSomewhere
INVARIANT RouteCovers
INVARIANT AlertsTruthful
PROPERTY ImplementsAccess
PROPERTY NoOvertaking
PROPERTY VisitsUndisturbed
CONSTRAINT Instances
