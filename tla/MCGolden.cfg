\* Batches of up to three records out of five, one with a line that is too
\* long, through a buffer of three pieces; one edit.
CONSTANTS
  Batches <- SmallBatches
  ResultOf <- Results
  MaskOf <- Masks
  SizeOf <- Sizes
  Broken = Broken
  Replacement = Replacement
  Newline = Newline
  BufferSize = 3
  MaxLine = 4
  MaxEdits = 1
SPECIFICATION Spec
INVARIANTS
  RoundTrip
  DamageIsNoticed
  ErrorNamesLine
  Utf8RecordsReplay
