CONSTANTS
  p1 = p1
  p2 = p2
  None = None
  Torn = Torn
  Scaffold = Scaffold
  Procs = {p1, p2}
  Aliases = {"x", "y"}
  PathPackages = {"lib"}
  GitPackages = {"tool"}
  Commands <- MCCommands
  Manifests <- MCManifests
  MaxRuns = 3
  MaxMoves = 1
SYMMETRY Symmetry
SPECIFICATION Spec
INVARIANTS
  TypeOK
  EditIsAllOrNothing
  LockedRunsUseTheLock
CHECK_DEADLOCK FALSE
