CONSTANTS
  p1 = p1
  p2 = p2
  util1 = util1
  util1b = util1b
  util2 = util2
  tool1 = tool1
  util = util
  tool = tool
  acme = acme
  beta = beta
  Publishers = {p1, p2}
  Archives <- MCRaceArchives
  Packages = {util}
  Namespaces = {acme}
  PackageOf <- MCRacePackageOf
  VersionOf <- MCRaceVersionOf
  NamespaceOf <- MCRaceNamespaceOf
  Serialised = FALSE
SPECIFICATION Spec
SYMMETRY PublisherSymmetry
INVARIANTS
  LeavesContiguous
  LoggedAndSignedAreIndexed
  InitialisedRootIsComplete
PROPERTIES
  IndexAppendOnly
CHECK_DEADLOCK FALSE
