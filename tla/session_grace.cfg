SPECIFICATION Spec
CONSTANTS
  Workers = {w1, w2}
  MaxCloses = 2
  MaxRequests = 3
  Transports = {"live", "oci"}
  CloseWaits = {TRUE, FALSE}
  Nobody = Nobody
INVARIANT GraceGiven
CHECK_DEADLOCK FALSE
