SPECIFICATION Spec
CONSTANTS
  i1 = i1
  i2 = i2
  w1 = w1
  w2 = w2
  r1 = r1
  Items <- TwoItems
  Urls <- TwoItems
  UrlOf <- OwnUrl
  Workers <- TwoWorkers
  Rpcs <- OneRpc
  MaxRetry = 1
  None = None
  MaxFaults = 1
INVARIANTS AcceptedIsTracked
PROPERTIES CancelledStaysCancelled AcceptedSettles
CHECK_DEADLOCK FALSE
