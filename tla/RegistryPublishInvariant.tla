----------------------- MODULE RegistryPublishInvariant -----------------------
(***************************************************************************)
(* The inductive invariants behind the theorems of RegistryPublishProofs.  *)
(*                                                                         *)
(* RecordInv holds however many publishers run at once.  SerialInv adds    *)
(* what is true only when publishes are serialised; it says, step by step, *)
(* which of the files the active publisher has already made agree with     *)
(* each other.  Failed publishes are covered: nothing here mentions them.  *)
(***************************************************************************)
EXTENDS RegistryPublish

(***************************************************************************)
(* Any number of publishers.                                               *)
(***************************************************************************)
DraftDefined == DOMAIN draft = Publishers

SequenceInRange ==
  \A p \in Publishers : pc[p] = "leaf" => sequence[p] \in 1 .. Len(leaves) + 1

IndexIsPerPackage ==
  \A q \in Packages : \A i \in DOMAIN index[q] : PackageOf[index[q][i]] = q

IsIndexed(a) == a \in ToSet(index[PackageOf[a]])

LeafIsIndexed ==
  /\ \A i \in DOMAIN leaves : IsIndexed(leaves[i])
  /\ \A p \in Publishers : pc[p] \in {"count", "leaf"} => IsIndexed(archive[p])

SeenIsIndexed ==
  \A p \in Publishers : \A q \in Packages : \A i \in DOMAIN seen[p][q] :
    /\ PackageOf[seen[p][q][i]] = q
    /\ seen[p][q][i] \in ToSet(index[q])

TargetsAreIndexed ==
  /\ \A n \in Namespaces : \A a \in targets[n].releases : IsIndexed(a)
  /\ \A p \in Publishers : pc[p] = "writeTargets" =>
       \A a \in draft[p].releases : IsIndexed(a)

RecordInv ==
  /\ TypeOK
  /\ DraftDefined
  /\ SequenceInRange
  /\ IndexIsPerPackage
  /\ LeafIsIndexed
  /\ SeenIsIndexed
  /\ TargetsAreIndexed

\* Every publisher that is past a file of a new root has written it, or found it.
CompleteInv ==
  /\ TypeOK
  /\ InitialisedRootIsComplete
  /\ \A p \in Publishers :
       /\ pc[p] \notin {"idle", "config"} => config
       /\ pc[p] \in {"initSnapshot", "initTimestamp", "root"} => checkpoint.version > 0
       /\ pc[p] \in {"initTimestamp", "root"} => snapshot.version > 0
       /\ pc[p] = "root" => timestamp.version > 0
       /\ pc[p] \in {"writeCheckpoint", "writeSnapshot", "writeTimestamp"} =>
            draft[p].version > 0

(***************************************************************************)
(* One publisher at a time.                                                *)
(***************************************************************************)
InitSteps == {"config", "initCheckpoint", "initSnapshot", "initTimestamp", "root"}
CommitSteps == {"writeCheckpoint", "writeSnapshot", "writeTimestamp"}
RefreshSteps == {"targets", "writeTargets"} \cup CommitSteps

OneActive ==
  \A p, r \in Publishers : pc[p] # "idle" /\ pc[r] # "idle" => p = r

\* config.json comes first, trust/root.json last, and no file twice.
InitOrder ==
  /\ root => config
  /\ ~config => checkpoint = NoCheckpoint /\ snapshot.version = 0 /\ timestamp.version = 0
  /\ \A p \in Publishers :
       /\ pc[p] = "config" => ~config
       /\ pc[p] \in InitSteps => ~root
       /\ pc[p] \notin {"config", "idle"} => config
       /\ pc[p] \notin InitSteps \cup {"idle"} => root
       /\ pc[p] = "initCheckpoint" => checkpoint = NoCheckpoint
       /\ pc[p] \in {"initCheckpoint", "initSnapshot"} => snapshot.version = 0
       /\ pc[p] \in {"initCheckpoint", "initSnapshot", "initTimestamp"} =>
            timestamp.version = 0

\* The artifact is whole before the record is written, and stays.
ArtifactInv ==
  /\ \A q \in Packages : \A i \in DOMAIN index[q] : artifact[index[q][i]] = "whole"
  /\ \A p \in Publishers :
       /\ pc[p] \in {"copy", "fill"} => artifact[archive[p]] # "whole"
       /\ pc[p] \in {"index", "append"} => artifact[archive[p]] = "whole"

\* The duplicate check still holds when the record is appended, and a leaf is
\* written for the release that was just indexed.
ReleaseInv ==
  /\ OneReleasePerVersion
  /\ \A i, j \in DOMAIN leaves :
       ReleaseKey[leaves[i]] = ReleaseKey[leaves[j]] => i = j
  /\ \A p \in Publishers :
       /\ pc[p] = "append" => ~Published(archive[p])
       /\ pc[p] = "leaf" => sequence[p] = Len(leaves) + 1
       /\ pc[p] \in {"count", "leaf"} =>
            \A i \in DOMAIN leaves : ReleaseKey[leaves[i]] # ReleaseKey[archive[p]]

CheckpointIsPrefix == IsPrefix(checkpoint.leaves, leaves)

\* The namespaces that have a package of index files idx.
Populated(n, idx) == \E q \in Packages : NamespaceOf[q] = n /\ idx[q] # << >>

\* Where the active publisher is in refreshing the signed files.
RefreshInv ==
  \A p \in Publishers :
    /\ pc[p] \in {"collect"} \cup RefreshSteps => archive[p] \in ToSet(leaves)
    /\ pc[p] \notin RefreshSteps => meta[p] = NoTargets
    /\ pc[p] \in RefreshSteps =>
         /\ seen[p] = index
         /\ \A n \in Namespaces : meta[p][n].version > 0 =>
              /\ meta[p][n] = targets[n]
              /\ meta[p][n].releases = ReleasesOf(n, index)
    /\ pc[p] = "writeTargets" =>
         /\ draft[p].version = targets[draft[p].namespace].version + 1
         /\ draft[p].releases = ReleasesOf(draft[p].namespace, index)
    /\ pc[p] \in CommitSteps =>
         \A n \in Namespaces : Populated(n, index) => meta[p][n].version > 0

CommitInv ==
  \A p \in Publishers :
    /\ pc[p] = "writeCheckpoint" =>
         /\ draft[p].version = checkpoint.version + 1
         /\ draft[p].leaves = leaves
    /\ pc[p] \in {"writeSnapshot", "writeTimestamp"} =>
         /\ checkpoint.version > 0
         /\ checkpoint.leaves = leaves
    /\ pc[p] = "writeSnapshot" =>
         /\ draft[p].version = snapshot.version + 1
         /\ draft[p].index = index
         /\ draft[p].targets = meta[p]
         /\ draft[p].checkpoint = checkpoint
    /\ pc[p] = "writeTimestamp" =>
         /\ draft[p].version = timestamp.version + 1
         /\ draft[p].snapshot = snapshot
         /\ snapshot.version > 0
         /\ snapshot.index = index
         /\ snapshot.targets = meta[p]
         /\ snapshot.checkpoint = checkpoint

SerialInv ==
  /\ RecordInv
  /\ OneActive
  /\ InitOrder
  /\ ArtifactInv
  /\ ReleaseInv
  /\ CheckpointIsPrefix
  /\ RefreshInv
  /\ CommitInv
  /\ AckedReleaseIsServed
=============================================================================
