SPECIFICATION FairSpec
CONSTANTS
  Workers = {w1, w2}
  MaxCloses = 2
  MaxRequests = 3
  Transports = {"live", "oci"}
  CloseWaits = {FALSE}
  Nobody = Nobody
PROPERTY CancelEndsProcess
CHECK_DEADLOCK FALSE
