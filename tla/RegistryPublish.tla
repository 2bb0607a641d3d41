--------------------------- MODULE RegistryPublish ---------------------------
(***************************************************************************)
(* The write side of a registry v2 root: publish_to_registry_v2 of         *)
(* src/pafio_registry_v2/publisher.py, run by any number of publishers on  *)
(* one directory.  The command line runs one publish at a time; the        *)
(* control-plane server runs one thread per request and takes no lock.     *)
(*                                                                         *)
(* Every file of the root is a variable.  A publisher is a sequence of     *)
(* steps, each of them ending where another publisher, or the failure of   *)
(* this one, can come in between: at the write of a file, at the check     *)
(* that a later write relies on, and at the openssl process that signs a   *)
(* file between the reads it is made from and its replacement.  A publish  *)
(* can stop at any step (a crash, or a RegistryV2Error such as the openssl *)
(* timeout): nothing it wrote is undone.                                   *)
(*                                                                         *)
(* An archive contains the manifest that names its package and version,    *)
(* and is stored under its digest; an index record, a leaf and a targets   *)
(* entry all carry that digest.  All of them are modelled by the archive.  *)
(* The digest of a signed file is modelled by the file's content, the      *)
(* absence of one by version 0, as _read_signed_version does.              *)
(***************************************************************************)
EXTENDS Naturals, Sequences, SequencesExt

CONSTANTS
  Publishers,     \* the processes or server threads that publish
  Archives,       \* the source archives there are
  Packages,
  Namespaces,
  PackageOf,      \* the package named in an archive's manifest
  VersionOf,      \* the version named there, numbered in semver order
  NamespaceOf,    \* the part of a package name before the slash
  Serialised      \* TRUE: a publish starts only when no other is running

ASSUME PublishAssumption ==
  /\ Archives # {}
  /\ PackageOf \in [Archives -> Packages]
  /\ VersionOf \in [Archives -> Nat]
  /\ NamespaceOf \in [Packages -> Namespaces]
  /\ Serialised \in BOOLEAN

VARIABLES
  config,         \* config.json exists
  root,           \* trust/root.json exists
  artifact,       \* archive -> state of its object under artifacts/source
  index,          \* package -> the records of its index file, in order
  leaves,         \* the leaf objects under log/leaves, by sequence number
  checkpoint,     \* log/checkpoint.json
  targets,        \* namespace -> trust/targets/<namespace>.json
  snapshot,       \* trust/snapshot.json
  timestamp,      \* trust/timestamp.json
  pc,             \* publisher -> the step it is about to take
  archive,        \* publisher -> the archive it publishes
  sequence,       \* publisher -> the leaf number it computed
  seen,           \* publisher -> the index files as it collected them
  meta,           \* publisher -> the targets files it has written
  draft,          \* publisher -> the signed file it is about to put in place
  acked           \* the archives whose publish reported success (history)

trustFiles == <<checkpoint, targets, snapshot, timestamp>>
files == <<config, root, artifact, index, leaves, trustFiles>>
locals == <<archive, sequence, seen, meta, draft>>
vars == <<files, pc, locals, acked>>

(***************************************************************************)
(* The signed files.                                                       *)
(***************************************************************************)
Steps ==
  {"idle", "config", "initCheckpoint", "initSnapshot", "initTimestamp", "root",
   "artifact", "copy", "fill", "index", "append", "count", "leaf", "collect", "targets",
   "writeTargets", "writeCheckpoint", "writeSnapshot", "writeTimestamp"}

IndexFiles == [Packages -> Seq(Archives)]
Checkpoint == [version : Nat, leaves : Seq(Archives)]
Targets == [version : Nat, namespace : Namespaces, releases : SUBSET Archives]
Snapshot == [version : Nat, index : IndexFiles,
             targets : [Namespaces -> Targets], checkpoint : Checkpoint]
Timestamp == [version : Nat, snapshot : Snapshot]

NoFile == [version |-> 0]
NoArchive == CHOOSE a \in Archives : TRUE    \* the archive of an idle publisher
NoIndex == [q \in Packages |-> << >>]
NoTargets ==
  [n \in Namespaces |-> [version |-> 0, namespace |-> n, releases |-> {}]]
NoCheckpoint == [version |-> 0, leaves |-> << >>]
NoSnapshot == [version |-> 0, index |-> NoIndex, targets |-> NoTargets,
               checkpoint |-> NoCheckpoint]
NoTimestamp == [version |-> 0, snapshot |-> NoSnapshot]

FreshCheckpoint == [NoCheckpoint EXCEPT !.version = 1]
FreshSnapshot == [NoSnapshot EXCEPT !.version = 1, !.checkpoint = FreshCheckpoint]
FreshTimestamp == [version |-> 1, snapshot |-> FreshSnapshot]

\* Numbered files s after file k is written with content e.
Put(s, k, e) == [i \in DOMAIN s \cup {k} |-> IF i = k THEN e ELSE s[i]]

\* The records that survive when an index file is read into a map by version.
LastRecords(lines) ==
  {lines[i] : i \in {i \in DOMAIN lines :
     \A j \in DOMAIN lines : j > i => VersionOf[lines[j]] # VersionOf[lines[i]]}}

\* (variant: the newest release of each package only)
NewestReleasesOf(n, idx) ==
  UNION {{a \in LastRecords(idx[q]) : \A b \in LastRecords(idx[q]) : VersionOf[b] <= VersionOf[a]} :
           q \in {q \in Packages : NamespaceOf[q] = n}}

\* The releases the targets file of namespace n lists, from index files idx.
ReleasesOf(n, idx) ==
  UNION {LastRecords(idx[q]) : q \in {q \in Packages : NamespaceOf[q] = n}}

\* The namespaces publisher p has collected a package of and not yet signed.
Pending(p) ==
  {n \in Namespaces : /\ meta[p][n].version = 0
                      /\ \E q \in Packages : NamespaceOf[q] = n /\ seen[p][q] # << >>}
-----------------------------------------------------------------------------
Goto(p, from, to) ==
  /\ pc[p] = from
  /\ pc' = [pc EXCEPT ![p] = to]

\* The publish of p is over: its locals are gone.
Return(p) ==
  /\ pc' = [pc EXCEPT ![p] = "idle"]
  /\ sequence' = [sequence EXCEPT ![p] = 0]
  /\ seen' = [seen EXCEPT ![p] = NoIndex]
  /\ meta' = [meta EXCEPT ![p] = NoTargets]
  /\ draft' = [draft EXCEPT ![p] = NoFile]
  /\ archive' = [archive EXCEPT ![p] = NoArchive]

\* The publish of p ends in an error: what it wrote stays.
Fail(p) ==
  /\ Return(p)
  /\ UNCHANGED <<files, acked>>

Init ==
  /\ config = FALSE
  /\ root = FALSE
  /\ artifact = [a \in Archives |-> "absent"]
  /\ index = NoIndex
  /\ leaves = << >>
  /\ checkpoint = NoCheckpoint
  /\ targets = NoTargets
  /\ snapshot = NoSnapshot
  /\ timestamp = NoTimestamp
  /\ pc = [p \in Publishers |-> "idle"]
  /\ archive = [p \in Publishers |-> NoArchive]
  /\ sequence = [p \in Publishers |-> 0]
  /\ seen = [p \in Publishers |-> NoIndex]
  /\ meta = [p \in Publishers |-> NoTargets]
  /\ draft = [p \in Publishers |-> NoFile]
  /\ acked = {}
-----------------------------------------------------------------------------
(***************************************************************************)
(* Variants of definitions further down, each with a slip the code could   *)
(* have made.  Nothing uses them: they say what the properties rule out.   *)
(***************************************************************************)
\* root.json written without waiting for the timestamp
InitSnapshotLast(p) ==
  /\ Goto(p, "initSnapshot", "root")
  /\ snapshot' = FreshSnapshot
  /\ UNCHANGED <<config, root, artifact, index, leaves, checkpoint, targets,
                 timestamp, locals, acked>>

\* the payload of another file
InitSnapshotCopied(p) ==
  /\ Goto(p, "initSnapshot", "initTimestamp")
  /\ snapshot' = FreshCheckpoint
  /\ UNCHANGED <<config, root, artifact, index, leaves, checkpoint, targets,
                 timestamp, locals, acked>>

\* an object that is there is taken to be the archive
ReuseAnyArtifact(p) ==
  /\ artifact[archive[p]] # "absent"
  /\ Goto(p, "artifact", "index")
  /\ UNCHANGED <<files, locals, acked>>

\* a duplicate is looked for by digest, not by version
SameArchivePublished(a) == a \in ToSet(index[PackageOf[a]])

\* the index file is written again from one record
ReplaceRecords(p) ==
  /\ Goto(p, "append", "count")
  /\ index' = [index EXCEPT ![PackageOf[archive[p]]] = <<archive[p]>>]
  /\ UNCHANGED <<config, root, artifact, leaves, trustFiles, locals, acked>>

\* the newest record comes first
PrependRecord(p) ==
  /\ Goto(p, "append", "count")
  /\ index' = [index EXCEPT ![PackageOf[archive[p]]] = <<archive[p]>> \o @]
  /\ UNCHANGED <<config, root, artifact, leaves, trustFiles, locals, acked>>

\* the leaf is numbered by the records of the package, not by the leaves there are
NumberByRecords(p) ==
  /\ Goto(p, "count", "leaf")
  /\ sequence' = [sequence EXCEPT ![p] = Len(index[PackageOf[archive[p]]])]
  /\ UNCHANGED <<files, archive, seen, meta, draft, acked>>

\* the version of a targets file counts from this publish
SignTargetsAfresh(p, n) ==
  /\ n \in Pending(p)
  /\ Goto(p, "targets", "writeTargets")
  /\ draft' = [draft EXCEPT ![p] =
       [version |-> meta[p][n].version + 1, namespace |-> n,
        releases |-> ReleasesOf(n, seen[p])]]
  /\ UNCHANGED <<files, archive, sequence, seen, meta, acked>>

\* the checkpoint misses the last leaf
SignAllButLast(p) ==
  /\ Pending(p) = {}
  /\ Goto(p, "targets", "writeCheckpoint")
  /\ draft' = [draft EXCEPT ![p] =
       [version |-> checkpoint.version + 1, leaves |-> Front(leaves)]]
  /\ UNCHANGED <<files, archive, sequence, seen, meta, acked>>

\* the snapshot describes the checkpoint that was there before
SnapshotOldCheckpoint(p) ==
  /\ Goto(p, "writeCheckpoint", "writeSnapshot")
  /\ checkpoint' = draft[p]
  /\ draft' = [draft EXCEPT ![p] =
       [version |-> snapshot.version + 1, index |-> seen[p],
        targets |-> meta[p], checkpoint |-> checkpoint]]
  /\ UNCHANGED <<config, root, artifact, index, leaves, targets, snapshot,
                 timestamp, archive, sequence, seen, meta, acked>>
-----------------------------------------------------------------------------
(***************************************************************************)
(* _initialize_registry_root: refuse a root that has only one of           *)
(* config.json and trust/root.json; create a root that has neither, the    *)
(* config first and the root metadata last.  The two files are looked for  *)
(* in one step: neither is ever removed, and root.json is never there      *)
(* without config.json, so what lets a publish go on at two times would    *)
(* have let it go on at one of them.                                       *)
(***************************************************************************)
Begin(p, a) ==
  /\ pc[p] = "idle"
  /\ Serialised => \A q \in Publishers : pc[q] = "idle"
  /\ config = root
  /\ pc' = [pc EXCEPT ![p] = IF config THEN "artifact" ELSE "config"]
  /\ archive' = [archive EXCEPT ![p] = a]
  /\ UNCHANGED <<files, sequence, seen, meta, draft, acked>>

WriteConfig(p) ==
  /\ Goto(p, "config", "initCheckpoint")
  /\ config' = TRUE
  /\ UNCHANGED <<root, artifact, index, leaves, trustFiles, locals, acked>>

InitCheckpoint(p) ==
  /\ Goto(p, "initCheckpoint", "initSnapshot")
  /\ checkpoint' = FreshCheckpoint
  /\ UNCHANGED <<config, root, artifact, index, leaves, targets, snapshot,
                 timestamp, locals, acked>>

InitSnapshot(p) ==
  /\ Goto(p, "initSnapshot", "initTimestamp")
  /\ snapshot' = FreshSnapshot
  /\ UNCHANGED <<config, root, artifact, index, leaves, checkpoint, targets,
                 timestamp, locals, acked>>

InitTimestamp(p) ==
  /\ Goto(p, "initTimestamp", "root")
  /\ timestamp' = FreshTimestamp
  /\ UNCHANGED <<config, root, artifact, index, leaves, checkpoint, targets,
                 snapshot, locals, acked>>

WriteRoot(p) ==
  /\ Goto(p, "root", "artifact")
  /\ root' = TRUE
  /\ UNCHANGED <<config, artifact, index, leaves, trustFiles, locals, acked>>
-----------------------------------------------------------------------------
(***************************************************************************)
(* _append_release_record, copy_if_missing_or_same: an object that is      *)
(* there must have the archive's digest, one that is not is copied in      *)
(* place, not renamed into it.                                             *)
(***************************************************************************)
ReuseArtifact(p) ==
  /\ artifact[archive[p]] = "whole"
  /\ Goto(p, "artifact", "index")
  /\ UNCHANGED <<files, locals, acked>>

RefuseArtifact(p) ==
  /\ pc[p] = "artifact"
  /\ artifact[archive[p]] = "partial"
  /\ Fail(p)

MissArtifact(p) ==
  /\ artifact[archive[p]] = "absent"
  /\ Goto(p, "artifact", "copy")
  /\ UNCHANGED <<files, locals, acked>>

OpenArtifact(p) ==
  /\ Goto(p, "copy", "fill")
  /\ artifact' = [artifact EXCEPT ![archive[p]] = "partial"]
  /\ UNCHANGED <<config, root, index, leaves, trustFiles, locals, acked>>

\* Another copy of the same archive may have truncated the object under this one.
FillArtifact(p) ==
  /\ Goto(p, "fill", "index")
  /\ \E state \in {"partial", "whole"} :
       /\ state = "partial" =>
            \E q \in Publishers \ {p} : pc[q] = "fill" /\ archive[q] = archive[p]
       /\ artifact' = [artifact EXCEPT ![archive[p]] = state]
  /\ UNCHANGED <<config, root, index, leaves, trustFiles, locals, acked>>

(***************************************************************************)
(* _append_release_record, the index: read it, refuse a version it has,    *)
(* open it again to append.  Then the leaves are counted, and one is       *)
(* written after them.                                                     *)
(***************************************************************************)
Published(a) ==
  \E i \in DOMAIN index[PackageOf[a]] :
    VersionOf[index[PackageOf[a]][i]] = VersionOf[a]

PassDuplicateCheck(p) ==
  /\ ~Published(archive[p])
  /\ Goto(p, "index", "append")
  /\ UNCHANGED <<files, locals, acked>>

RefuseDuplicate(p) ==
  /\ pc[p] = "index"
  /\ Published(archive[p])
  /\ Fail(p)

AppendRecord(p) ==
  /\ Goto(p, "append", "count")
  /\ index' = [index EXCEPT ![PackageOf[archive[p]]] = Append(@, archive[p])]
  /\ UNCHANGED <<config, root, artifact, leaves, trustFiles, locals, acked>>

CountLeaves(p) ==
  /\ Goto(p, "count", "leaf")
  /\ sequence' = [sequence EXCEPT ![p] = Len(leaves) + 1]
  /\ UNCHANGED <<files, archive, seen, meta, draft, acked>>

\* The leaf file is replaced when its number is taken.
WriteLeaf(p) ==
  /\ Goto(p, "leaf", "collect")
  /\ leaves' = Put(leaves, sequence[p], archive[p])
  /\ UNCHANGED <<config, root, artifact, index, trustFiles, locals, acked>>
-----------------------------------------------------------------------------
(***************************************************************************)
(* _refresh_signed_metadata: a targets file for each namespace with a      *)
(* package, then checkpoint, snapshot and timestamp.  Each file is read    *)
(* for its version, signed by an openssl process, and replaced.            *)
(*                                                                         *)
(* The index files are listed at once and read one after the other, each   *)
(* of them with its digest.                                                *)
(*                                                                         *)
(* The digest of a file this publisher has just written is taken with the  *)
(* write.  Between the two a racing publisher could replace the file; then *)
(* the snapshot describes another file than it would here.  What a         *)
(* snapshot says is asked only of serialised publishes.                    *)
(***************************************************************************)
Collect(p) ==
  /\ Goto(p, "collect", "targets")
  /\ seen' = [seen EXCEPT ![p] = index]
  /\ UNCHANGED <<files, archive, sequence, meta, draft, acked>>

\* The turn of a listed file comes later than that of another.
ReadLater(p, q) ==
  /\ pc[p] = "targets" /\ meta[p] = NoTargets
  /\ seen[p][q] # << >>
  /\ seen' = [seen EXCEPT ![p] = [@ EXCEPT ![q] = index[q]]]
  /\ UNCHANGED <<files, pc, archive, sequence, meta, draft, acked>>

SignTargets(p, n) ==
  /\ n \in Pending(p)
  /\ Goto(p, "targets", "writeTargets")
  /\ draft' = [draft EXCEPT ![p] =
       [version |-> targets[n].version + 1, namespace |-> n,
        releases |-> ReleasesOf(n, seen[p])]]
  /\ UNCHANGED <<files, archive, sequence, seen, meta, acked>>

WriteTargets(p) ==
  /\ Goto(p, "writeTargets", "targets")
  /\ targets' = [targets EXCEPT ![draft[p].namespace] = draft[p]]
  /\ meta' = [meta EXCEPT ![p] = [@ EXCEPT ![draft[p].namespace] = draft[p]]]
  /\ draft' = [draft EXCEPT ![p] = NoFile]
  /\ UNCHANGED <<config, root, artifact, index, leaves, checkpoint, snapshot,
                 timestamp, archive, sequence, seen, acked>>

SignCheckpoint(p) ==
  /\ Pending(p) = {}
  /\ Goto(p, "targets", "writeCheckpoint")
  /\ draft' = [draft EXCEPT ![p] =
       [version |-> checkpoint.version + 1, leaves |-> leaves]]
  /\ UNCHANGED <<files, archive, sequence, seen, meta, acked>>

WriteCheckpoint(p) ==
  /\ Goto(p, "writeCheckpoint", "writeSnapshot")
  /\ checkpoint' = draft[p]
  /\ draft' = [draft EXCEPT ![p] =
       [version |-> snapshot.version + 1, index |-> seen[p],
        targets |-> meta[p], checkpoint |-> draft[p]]]
  /\ UNCHANGED <<config, root, artifact, index, leaves, targets, snapshot,
                 timestamp, archive, sequence, seen, meta, acked>>

WriteSnapshot(p) ==
  /\ Goto(p, "writeSnapshot", "writeTimestamp")
  /\ snapshot' = draft[p]
  /\ draft' = [draft EXCEPT ![p] =
       [version |-> timestamp.version + 1, snapshot |-> draft[p]]]
  /\ UNCHANGED <<config, root, artifact, index, leaves, checkpoint, targets,
                 timestamp, archive, sequence, seen, meta, acked>>

WriteTimestamp(p) ==
  /\ pc[p] = "writeTimestamp"
  /\ timestamp' = draft[p]
  /\ acked' = acked \cup {archive[p]}
  /\ Return(p)
  /\ UNCHANGED <<config, root, artifact, index, leaves, checkpoint, targets, snapshot>>

\* A crash, a full disk, an openssl failure: at any step, undoing nothing.
Abort(p) ==
  /\ pc[p] # "idle"
  /\ Fail(p)
-----------------------------------------------------------------------------
Next ==
  \E p \in Publishers :
    \/ \E a \in Archives : Begin(p, a)
    \/ WriteConfig(p)
    \/ InitCheckpoint(p)
    \/ InitSnapshot(p)
    \/ InitTimestamp(p)
    \/ WriteRoot(p)
    \/ ReuseArtifact(p)
    \/ RefuseArtifact(p)
    \/ MissArtifact(p)
    \/ OpenArtifact(p)
    \/ FillArtifact(p)
    \/ PassDuplicateCheck(p)
    \/ RefuseDuplicate(p)
    \/ AppendRecord(p)
    \/ CountLeaves(p)
    \/ WriteLeaf(p)
    \/ Collect(p)
    \/ \E q \in Packages : ReadLater(p, q)
    \/ \E n \in Namespaces : SignTargets(p, n)
    \/ WriteTargets(p)
    \/ SignCheckpoint(p)
    \/ WriteCheckpoint(p)
    \/ WriteSnapshot(p)
    \/ WriteTimestamp(p)
    \/ Abort(p)

Spec == Init /\ [][Next]_vars
-----------------------------------------------------------------------------
(***************************************************************************)
(* verify_registry_root of src/pafio_registry_v2/validator.py, on a root   *)
(* that does not change while it is read.                                  *)
(***************************************************************************)
LatestVersion(releases) ==
  CHOOSE v \in {VersionOf[a] : a \in releases} :
    \A a \in releases : VersionOf[a] <= v

PackageVerifies(q, releases) ==
  /\ index[q] # << >>
  /\ \A i \in DOMAIN index[q] : artifact[index[q][i]] = "whole"
  /\ LatestVersion(releases) = LatestVersion(ToSet(index[q]))
  /\ releases \subseteq LastRecords(index[q])

TargetsVerify(n) ==
  \A q \in {PackageOf[a] : a \in targets[n].releases} :
    /\ NamespaceOf[q] = n
    /\ PackageVerifies(q, {a \in targets[n].releases : PackageOf[a] = q})

RootVerifies ==
  /\ config /\ root
  /\ checkpoint.version > 0 /\ snapshot.version > 0 /\ timestamp.version > 0
  /\ timestamp.snapshot = snapshot
  /\ snapshot.checkpoint = checkpoint
  /\ \A q \in Packages : snapshot.index[q] # << >> => index[q] = snapshot.index[q]
  /\ \A n \in Namespaces : snapshot.targets[n].version > 0 =>
       targets[n] = snapshot.targets[n] /\ TargetsVerify(n)
  /\ IsPrefix(checkpoint.leaves, leaves)
-----------------------------------------------------------------------------
(***************************************************************************)
(* What must hold.                                                         *)
(***************************************************************************)

\* Every file and every local has its shape.
TypeOK ==
  /\ config \in BOOLEAN
  /\ root \in BOOLEAN
  /\ artifact \in [Archives -> {"absent", "partial", "whole"}]
  /\ index \in IndexFiles
  /\ leaves \in Seq(Archives)
  /\ checkpoint \in Checkpoint
  /\ targets \in [Namespaces -> Targets]
  /\ snapshot \in Snapshot
  /\ timestamp \in Timestamp
  /\ pc \in [Publishers -> Steps]
  /\ archive \in [Publishers -> Archives]
  /\ sequence \in [Publishers -> Nat]
  /\ seen \in [Publishers -> IndexFiles]
  /\ meta \in [Publishers -> [Namespaces -> Targets]]
  /\ \A p \in Publishers :
       /\ pc[p] = "writeTargets" => draft[p] \in Targets
       /\ pc[p] = "writeCheckpoint" => draft[p] \in Checkpoint
       /\ pc[p] = "writeSnapshot" => draft[p] \in Snapshot
       /\ pc[p] = "writeTimestamp" => draft[p] \in Timestamp
  /\ acked \subseteq Archives

\* The check that refuses a gap in log/leaves (_leaf_sequence_paths) never finds one,
\* whichever publishers fail between their record and their leaf, or count the same
\* leaves: a gap would refuse every later publish.
LeavesContiguous == \A k \in DOMAIN leaves : 1 .. k \subseteq DOMAIN leaves

Indexed == UNION {ToSet(index[q]) : q \in Packages}
Signed == UNION {targets[n].releases : n \in Namespaces}

\* An index file only grows at its end: no publisher, racing or failing, loses or
\* rewrites a record ("append-only index evolution").
IndexAppendOnly ==
  [][\A q \in Packages : IsPrefix(index[q], index'[q])]_index

\* A package version is released once, so a second publish of it, with the same
\* archive or another one, has been refused.
OneReleasePerVersion ==
  \A q \in Packages : \A i, j \in DOMAIN index[q] :
    VersionOf[index[q][i]] = VersionOf[index[q][j]] => i = j

\* Every record of an index file, also one whose publish failed later, names an
\* artifact that is completely there.
IndexedArtifactsWhole ==
  \A a \in Indexed : artifact[a] = "whole"

\* What was entered in the log or signed into a targets file was released: it is a
\* record of the index of its package.
LoggedAndSignedAreIndexed ==
  \A a \in ToSet(leaves) \cup Signed : a \in ToSet(index[PackageOf[a]])

\* A publish that reported success stays served: its artifact is whole, its
\* namespace's targets file lists it and the checkpoint covers its leaf, through
\* every later publish and every later failure.
AckedReleaseIsServed ==
  \A a \in acked :
    /\ artifact[a] = "whole"
    /\ a \in targets[NamespaceOf[PackageOf[a]]].releases
    /\ a \in ToSet(checkpoint.leaves)

Newer(old, new) == new # old => new.version > old.version

\* A signed file is only replaced by one with a higher version: a client that
\* remembers the version it saw never takes a rollback for an update.
SignedVersionsIncrease ==
  [][/\ Newer(checkpoint, checkpoint')
     /\ Newer(snapshot, snapshot')
     /\ Newer(timestamp, timestamp')
     /\ \A n \in Namespaces : Newer(targets[n], targets'[n])]_trustFiles

\* The step that reports success leaves a root the verifier accepts, whatever
\* failed before it.
PublishedRootVerifies == [][acked' # acked => RootVerifies']_vars

\* trust/root.json is the last file of a new root: where it is, every file a client
\* starts from is there too, whoever failed or raced while the root was created.
InitialisedRootIsComplete ==
  root => /\ config
          /\ checkpoint.version > 0
          /\ snapshot.version > 0
          /\ timestamp.version > 0

ReleaseKey == [a \in Archives |-> <<PackageOf[a], VersionOf[a]>>]

\* The leaves and the checkpoint are the promised log.
Log == INSTANCE TransparencyLog WITH
         Entries <- Archives, KeyOf <- ReleaseKey, log <- leaves, head <- checkpoint.leaves

ImplementsLog == Log!Spec

\* "Every published release emits one leaf object under log/leaves/"
\* (docs/registry/Pafio-Registry-V2-Protocol.md:162): where the verifier accepts
\* the root, each release its targets files list has its leaf in the signed log.
SignedReleasesAreLogged ==
  RootVerifies =>
    UNION {snapshot.targets[n].releases : n \in Namespaces} \subseteq ToSet(checkpoint.leaves)

\* "append-only transparency-log evolution", which the publish service must
\* guarantee (docs/registry/Pafio-Registry-V2-Publish-Control-Plane.md:36).
LogAppendOnly == [][IsPrefix(leaves, leaves')]_leaves
=============================================================================
