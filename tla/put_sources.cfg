SPECIFICATION FairSpec
CONSTANTS
  Blobs <- TwoBlobs
  Bytes <- TwoBytes
  Size <- TwoBytes
  SrcInit <- TwoSrcOff
  Limit = 1
  PosixRename = TRUE
  MaxFaults = 2
  NoFile = NoFile
INVARIANTS IInv SuccessMeansDelivered NoSpuriousError
PROPERTIES PublishedStays WorkersGetOn CallsEnd RetriesDeliver
