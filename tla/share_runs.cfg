SPECIFICATION Spec
CONSTANTS
  Refs <- TwoRefs
  Words <- TwoWords
  Images <- TwoImages
  Config <- TwoConfig
  Layers <- TwoLayers
  LocalTransport = "live"
  PeerTransport = "live"
  Commands <- AllLines
  LiveAtFirst <- PeerHasOne
  Builds <- Rebuilds
  Removals <- OneRemoved
  Others <- PeerImages
  MaxFaults = 2
  None = "none"
INVARIANTS TypeOK IInv ReportedOkIsDelivered NothingNeededIsSkipped NoSpuriousFailure ExitOkMeansAllDone KeepGoingTriesAll
PROPERTIES DryRunChangesNothing MirrorsGrow TransferSpec
