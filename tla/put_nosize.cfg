SPECIFICATION Spec
CONSTANTS
  Blobs <- TwoBlobs
  Bytes <- TwoBytes
  Size <- NoSize
  SrcInit <- TwoBytes
  Limit = 2
  PosixRename = TRUE
  MaxFaults = 0
  NoFile = NoFile
INVARIANT NoSpuriousError
