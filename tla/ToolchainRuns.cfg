CONSTANTS
  p1 = p1
  p2 = p2
  r1 = r1
  r2 = r2
  own = own
  old = old
  v1 = v1
  v2 = v2
  None = None
  Torn = Torn
  Mixed = Mixed
  Procs = {p1, p2}
  Revs = {r1, r2}
  FirstRev = r1
  Locals = {own, old}
  Versions = {v1, v2}
  VersionOf <- MCVersionOf
  Compatible = {r1, r2, own}
  Commands <- MCCommands
  MaxRuns = 3
SYMMETRY Symmetry
SPECIFICATION Spec
INVARIANTS
  TypeOK
  KeyNamesCompiler
  CommandsKeepTheirWord
  SettingsAreKept
  IsolationFollowsRisk
CHECK_DEADLOCK FALSE
