\* The batches of MCGolden.cfg: some of their texts are not UTF-8.
CONSTANTS
  Batches <- SmallBatches
  ResultOf <- Results
  MaskOf <- Masks
  SizeOf <- Sizes
  Broken = Broken
  Replacement = Replacement
  Newline = Newline
  BufferSize = 3
  MaxLine = 4
  MaxEdits = 1
SPECIFICATION Spec
INVARIANT EveryRecordReplays
