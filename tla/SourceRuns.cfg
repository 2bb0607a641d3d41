CONSTANTS
  Revs = {rev1, rev2}
SPECIFICATION Spec
SYMMETRY RevSymmetry
INVARIANTS
  TypeOK
  OfflineStaysValid
  VendoredServes
  FoundIsWhole
PROPERTIES
  ImplementsStore
