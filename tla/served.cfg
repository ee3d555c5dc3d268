SPECIFICATION FairSpec
CONSTANTS
  s1 = s1  s2 = s2  s3 = s3  c1 = c1  c2 = c2
  t1 = t1  t2 = t2  t3 = t3  p1 = p1  p2 = p2
  RequestIds <- Requests3
  ToiletIds = {t1, t2}
  Students = {s1, s2, s3}
  Classes = {c1}
  SupportKinds = {}
  Assignments <- OneRoom
  Proctors = {p2}
  GlobalProctors = {p2}
  ClassScope <- AllOnly
  StudentRateLimit = 0
  Times <- SteadyClock
  MaxCapacity = 1
  DismissedCodes <- NoCodes
  NoToilet = NoToilet
  NoRow = NoRow
  None = None
PROPERTY Served
VIEW OpenRowsView
