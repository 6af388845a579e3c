SPECIFICATION Spec
CONSTANTS
  Refs <- TwoRefs
  Words <- TwoWords
  Images <- TwoImages
  Config <- TwoConfig
  Layers <- TwoLayers
  LocalTransport = "oci"
  PeerTransport = "oci"
  Commands <- PullOnly
  LiveAtFirst <- LocalHasBoth
  Builds <- NoPairs
  Removals <- NoneRemoved
  Others <- PeerImages
  MaxFaults = 1
  None = "none"
INVARIANT ReportedOkIsDelivered
