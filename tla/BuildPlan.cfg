CONSTANTS
  Any = Any
  Root = 1
  Places <- MCPlaces
  Names <- MCNames
  Cases <- MCCases
  MaxDepth = 5
SPECIFICATION Spec
INVARIANTS
  TypeOK
  ResolvesExactly
  PlansExactly
  EntryIsMeant
PROPERTIES
  Terminates
CHECK_DEADLOCK FALSE
