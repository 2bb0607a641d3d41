CONSTANTS
  p1 = p1
  p2 = p2
  util1 = util1
  util1b = util1b
  util2 = util2
  tool1 = tool1
  util = util
  tool = tool
  acme = acme
  beta = beta
  Publishers = {p1, p2}
  Archives <- MCTwiceArchives
  Packages = {util}
  Namespaces = {acme}
  PackageOf <- MCTwicePackageOf
  VersionOf <- MCTwiceVersionOf
  NamespaceOf <- MCRaceNamespaceOf
  Serialised = FALSE
SPECIFICATION Spec
SYMMETRY PublisherSymmetry
INVARIANTS
  OneReleasePerVersion
CHECK_DEADLOCK FALSE
