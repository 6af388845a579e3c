SPECIFICATION FairSpec
CONSTANTS
  Refs <- TwoRefs
  Words <- TwoWords
  Images <- TwoImages
  Config <- TwoConfig
  Layers <- TwoLayers
  LocalTransport = "live"
  PeerTransport = "oci"
  Commands <- PushAndPull
  LiveAtFirst <- LocalHasBoth
  Builds <- Rebuilds
  Removals <- NoneRemoved
  Others <- NoPairs
  MaxFaults = 2
  None = "none"
INVARIANT ReportedOkIsDelivered
PROPERTY RerunDelivers
