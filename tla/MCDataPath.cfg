CONSTANTS
  MaxHeight = 4
  DigitBase = 4
  Modulus = 17
  Generator = 3
  BlobWidth = 4
  ChunkValues = 4
  Sources <- MCSources
  Blobs <- MCBlobs
  Digests <- MCDigests
  MaxDeclarations = 3
  MaxLeafCount = 9
SPECIFICATION DataSpec
CHECK_DEADLOCK FALSE
INVARIANTS
  PeaksAreTheData
  NoContradiction
  PinsAreProvable
  OnlyTheDataVerifies
  SamplesAreUniform
  EvaluationInterpolates
  PackagesAreAccepted
PROPERTIES
  ImplementsReplica
  CatchesUp
