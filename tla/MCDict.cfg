\* Load on every file of up to four lines; where that leaves the dictionary of
\* SmallArrays, two callers and two calls, by one of them or one each.
CONSTANTS
  Files <- SmallFiles
  NoSuffix = NoSuffix
  NotANumber = NotANumber
  Atoi <- AtoiOf
  Lower <- LowerOf
  Shared <- SharedFiles
  Callers = {c1, c2}
  Words = {"ab", "Ab", "cd"}
  KeyOf <- LowerOf
  Arrays <- SmallArrays
  Dictionary <- SmallDictionary
  Nil = Nil
  Junk = Junk
  MaxLookups = 2
SPECIFICATION DictSpec
INVARIANTS
  LastUnnumberedWins
  AlternatesInOrder
  TypeOK
  DictionaryImmutable
  EntriesAreDisjoint
PROPERTIES
  LookupReturnsEntry
  LookupReturns
