\* Safety, termination and longest match of the scanner on every text of the instance.
CONSTANT Inputs <- AllInputs
SPECIFICATION Spec
INVARIANTS
  TypeOK
  Tiling
  OnRuneBoundaries
  ApostrophesJoinLetters
PROPERTIES
  EveryTokenAdvances
  TerminatesWithoutSignedWord
  ImplementsMaximalMunch
