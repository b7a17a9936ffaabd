\* All texts of up to four tokens, and words of up to nine bytes and seven
\* phonemes, in the three modes.
CONSTANTS
  Texts <- AllTexts
  Entries <- SmallEntries
  Key <- KeyOf
  Rules <- RulesOf
  Upper <- UpperOf
  SymbolToID <- SmallSymbols
  FeatureBits <- SmallBits
  Dictionary <- MiniDictionary
  Declined = Declined
SPECIFICATION EngineSpec
INVARIANTS
  TypeOK
  StreamFollowsAlignment
  FallbackOnlyOnMiss
  CausalTellsNothing
  TilesExactly
  Uniform
PROPERTIES
  WrittenOnce
  AlignmentIsReturned
