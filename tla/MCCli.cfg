\* Every path through run, with a feed of up to three characters, on one of which
\* Process does not return.
CONSTANTS
  Arguments <- SmallArguments
  Folded <- FoldedOf
  Feeds <- Texts
  TokensOf <- Tokenized
  Endless <- Hanging
  EndOfLine = EndOfLine
  Banner = Banner
  JSON = JSON
SPECIFICATION CliSpec
INVARIANTS
  SuccessMeansComplete
  FailureIsReported
PROPERTY Exits
\* run ends.
CHECK_DEADLOCK FALSE
