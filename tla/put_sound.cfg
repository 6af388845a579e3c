SPECIFICATION Spec
CONSTANTS
  Blobs <- TwoBlobs
  Bytes <- TwoBytes
  Size <- TwoBytes
  SrcInit <- TwoSrcAbsent
  Limit = 2
  PosixRename = FALSE
  MaxFaults = 2
  NoFile = NoFile
INVARIANTS TypeOK FinalIntact SuccessMeansDelivered NoSpuriousError CountersCoverTheCall
PROPERTIES ContractSpec ResumeKeepsBytes
