\* The digest in the code: a file emptied after Stat passes the checksum.
CONSTANTS
  Contents <- SmallContents
  MinSize = 1
  MaxSize = 2
  Expected <- PlaceholderDigest
  EmbeddedData <- MiniData
  None = None
SPECIFICATION Spec
INVARIANT EmptyAfterParseImpossible
