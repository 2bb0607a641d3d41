CONSTANTS
  p1 = p1
  p2 = p2
  util1 = util1
  util1b = util1b
  util2 = util2
  tool1 = tool1
  util = util
  tool = tool
  acme = acme
  beta = beta
  Publishers = {p1, p2}
  Archives <- MCArchives
  Packages = {util, tool}
  Namespaces = {acme, beta}
  PackageOf <- MCPackageOf
  VersionOf <- MCVersionOf
  NamespaceOf <- MCNamespaceOf
  Serialised = TRUE
SPECIFICATION Spec
SYMMETRY PublisherSymmetry
INVARIANTS
  SignedReleasesAreLogged
CHECK_DEADLOCK FALSE
