-------------------------- MODULE MCRegistryPublish --------------------------
(***************************************************************************)
(* Values for RegistryPublish.  Two packages in two namespaces: two        *)
(* different archives of version 1 of the first and one of its version 2,  *)
(* and one archive of the second package.                                  *)
(***************************************************************************)
EXTENDS RegistryPublishInvariant

CONSTANTS p1, p2, util1, util1b, util2, tool1, util, tool, acme, beta

MCArchives == {util1, util1b, util2, tool1}
MCPackageOf == [a \in MCArchives |-> IF a = tool1 THEN tool ELSE util]
MCVersionOf == [a \in MCArchives |-> IF a = util2 THEN 2 ELSE 1]
MCNamespaceOf == [q \in {util, tool} |-> IF q = util THEN acme ELSE beta]

\* Racing publishers: two versions of one package.
MCRaceArchives == {util1, util2}
MCRacePackageOf == [a \in MCRaceArchives |-> util]
MCRaceVersionOf == [a \in MCRaceArchives |-> IF a = util2 THEN 2 ELSE 1]
MCRaceNamespaceOf == [q \in {util} |-> acme]

\* Racing publishers: two different archives of one version.
MCTwiceArchives == {util1, util1b}
MCTwicePackageOf == [a \in MCTwiceArchives |-> util]
MCTwiceVersionOf == [a \in MCTwiceArchives |-> 1]

\* Publishers are interchangeable.
PublisherSymmetry == Permutations(Publishers)
=============================================================================
