\* The OOV policy of a Result, in the three modes.
CONSTANTS
  Texts <- AllTexts
  Entries <- SmallEntries
  Key <- KeyOf
  Rules <- RulesOf
  Upper <- UpperOf
  SymbolToID <- SmallSymbols
  FeatureBits <- SmallBits
  Dictionary <- MiniDictionary
  Declined = Declined
SPECIFICATION EngineSpec
INVARIANT PolicyFollowsRules
