SPECIFICATION Spec
CONSTANTS
  Refs <- TwoRefs
  Words <- TwoWords
  Images <- TwoImages
  Config <- TwoConfig
  Layers <- TwoLayers
  LocalTransport = "live"
  PeerTransport = "oci"
  Commands <- PushAndPull
  LiveAtFirst <- LocalHasBoth
  Builds <- NoPairs
  Removals <- NoneRemoved
  Others <- NoPairs
  MaxFaults = 1
  None = "none"
INVARIANT NilErrMeansDelivered
