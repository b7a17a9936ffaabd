\* The load under the digest of a dictionary that has entries.
CONSTANTS
  Contents <- SmallContents
  MinSize = 1
  MaxSize = 2
  Expected <- PinnedDigest
  EmbeddedData <- MiniData
  None = None
SPECIFICATION Spec
INVARIANTS
  TypeOK
  FullMeansVerified
  OneWarningPerFallback
  FileNeverFailsNew
PROPERTIES
  NewReturns
  ImplementsSelection
