SPECIFICATION FairSpec
CONSTANTS
  Workers = {w1, w2}
  MaxCloses = 2
  MaxRequests = 3
  Transports = {"live", "oci"}
  CloseWaits = {TRUE, FALSE}
  Nobody = Nobody
INVARIANTS IInv TornDownOnce ClosedMeansReaped TeardownGoesOn WatcherIsTold
PROPERTIES CancelUnblocks CloseReturns WatcherEnds
CHECK_DEADLOCK FALSE
