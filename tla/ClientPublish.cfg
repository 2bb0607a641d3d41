CONSTANTS
  Releases = {v1, v2}
SPECIFICATION Spec
SYMMETRY ReleaseSymmetry
INVARIANTS
  TypeOK
  ReadyCheckoutIsWhole
  StandingAnswersRepeat
  ListedIsIndexed
PROPERTIES
  ImplementsStore
