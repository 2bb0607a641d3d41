CONSTANTS
  Releases = {v1, v2}
SPECIFICATION Spec
SYMMETRY ReleaseSymmetry
INVARIANTS
  OfflineStaysValid
