SPECIFICATION LoopSpec
CONSTANTS
  t1 = t1  t2 = t2  t3 = t3
  RequestIds <- MCRequests
  ToiletIds = {t1, t2, t3}
  ArrivalTimes <- MCArrivalTimes
  MaxPlaces = 2
SYMMETRY MCSymmetry
INVARIANT LoopIsTheSchedule
CHECK_DEADLOCK FALSE
