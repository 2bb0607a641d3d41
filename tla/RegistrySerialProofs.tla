------------------------- MODULE RegistrySerialProofs -------------------------
(***************************************************************************)
(* Proofs about RegistryPublish when publishes are serialised, for every   *)
(* set of publishers, archives, packages and namespaces, and whatever      *)
(* publishes fail in between.                                              *)
(***************************************************************************)
EXTENDS RegistryPublishProofs

\* The steps of publisher p, other than the start of a publish and the later turn
\* of an index file, which nobody appends to in between.
Continue(p) ==
  \/ WriteConfig(p) \/ InitCheckpoint(p) \/ InitSnapshot(p) \/ InitTimestamp(p)
  \/ WriteRoot(p) \/ ReuseArtifact(p) \/ RefuseArtifact(p) \/ MissArtifact(p)
  \/ OpenArtifact(p) \/ FillArtifact(p) \/ PassDuplicateCheck(p)
  \/ RefuseDuplicate(p) \/ AppendRecord(p) \/ CountLeaves(p) \/ WriteLeaf(p) \/ Collect(p)
  \/ (\E n \in Namespaces : SignTargets(p, n)) \/ WriteTargets(p)
  \/ SignCheckpoint(p) \/ WriteCheckpoint(p) \/ WriteSnapshot(p)
  \/ WriteTimestamp(p) \/ Abort(p)

\* Publisher p moves from step "from" to step "to" while every other is idle.
Moves(p, from, to) ==
  /\ pc[p] = from
  /\ pc'[p] = to
  /\ \A r \in Publishers : r # p => pc[r] = "idle" /\ pc'[r] = "idle"

\* A step of publisher p, and where it takes it.
SerialStep(p) ==
  \/ \E a \in Archives :
       Begin(p, a) /\ Moves(p, "idle", IF config THEN "artifact" ELSE "config")
  \/ WriteConfig(p) /\ Moves(p, "config", "initCheckpoint")
  \/ InitCheckpoint(p) /\ Moves(p, "initCheckpoint", "initSnapshot")
  \/ InitSnapshot(p) /\ Moves(p, "initSnapshot", "initTimestamp")
  \/ InitTimestamp(p) /\ Moves(p, "initTimestamp", "root")
  \/ WriteRoot(p) /\ Moves(p, "root", "artifact")
  \/ ReuseArtifact(p) /\ Moves(p, "artifact", "index")
  \/ MissArtifact(p) /\ Moves(p, "artifact", "copy")
  \/ OpenArtifact(p) /\ Moves(p, "copy", "fill")
  \/ FillArtifact(p) /\ Moves(p, "fill", "index")
  \/ PassDuplicateCheck(p) /\ Moves(p, "index", "append")
  \/ AppendRecord(p) /\ Moves(p, "append", "count")
  \/ CountLeaves(p) /\ Moves(p, "count", "leaf")
  \/ WriteLeaf(p) /\ Moves(p, "leaf", "collect")
  \/ Collect(p) /\ Moves(p, "collect", "targets")
  \/ \E n \in Namespaces : SignTargets(p, n) /\ Moves(p, "targets", "writeTargets")
  \/ WriteTargets(p) /\ Moves(p, "writeTargets", "targets")
  \/ SignCheckpoint(p) /\ Moves(p, "targets", "writeCheckpoint")
  \/ WriteCheckpoint(p) /\ Moves(p, "writeCheckpoint", "writeSnapshot")
  \/ WriteSnapshot(p) /\ Moves(p, "writeSnapshot", "writeTimestamp")
  \/ WriteTimestamp(p) /\ Moves(p, "writeTimestamp", "idle")
  \/ Fail(p) /\ Moves(p, pc[p], "idle")

LEMMA GotoMoves ==
  ASSUME TypeOK, OneActive, NEW p \in Publishers, NEW from, NEW to,
         Goto(p, from, to), from # "idle"
  PROVE  Moves(p, from, to)
  BY DEF TypeOK, OneActive, Goto, Moves

LEMMA ReturnMoves ==
  ASSUME TypeOK, OneActive, NEW p \in Publishers, Return(p), pc[p] # "idle"
  PROVE  Moves(p, pc[p], "idle")
  BY DEF TypeOK, OneActive, Return, Moves

LEMMA BeginMoves ==
  ASSUME Serialised, TypeOK, NEW p \in Publishers, NEW a \in Archives, Begin(p, a)
  PROVE  Moves(p, "idle", IF config THEN "artifact" ELSE "config")
  BY DEF TypeOK, Begin, Moves

\* A step that changes something.
Progress == Next /\ vars' # vars

\* An index file that is read later is what it was when it was listed.
LEMMA ReadLaterIsIdle ==
  ASSUME SerialInv, NEW p \in Publishers, NEW q \in Packages, ReadLater(p, q)
  PROVE  vars' = vars
<1>1. seen[p] = index
  BY DEF SerialInv, RefreshInv, RefreshSteps, ReadLater
<1>2. seen' = [seen EXCEPT ![p] = [index EXCEPT ![q] = index[q]]]
  BY <1>1 DEF ReadLater
<1>3. index \in [Packages -> Seq(Archives)] /\ seen \in [Publishers -> IndexFiles]
  BY DEF SerialInv, RecordInv, TypeOK, IndexFiles
<1>4. seen' = seen
  BY <1>1, <1>2, <1>3
<1> QED
  BY <1>4 DEF ReadLater, vars, files, trustFiles, locals

LEMMA SerialSteps ==
  ASSUME Serialised, SerialInv, Progress
  PROVE  \E p \in Publishers : SerialStep(p)
<1>0. TypeOK /\ OneActive
  BY DEF SerialInv, RecordInv
<1>1. PICK p \in Publishers : (\E a \in Archives : Begin(p, a)) \/ Continue(p)
  BY ReadLaterIsIdle DEF Progress, Next, Continue
<1>2. ASSUME NEW a \in Archives, Begin(p, a)
      PROVE  Moves(p, "idle", IF config THEN "artifact" ELSE "config")
  BY <1>0, <1>2, BeginMoves
<1>3. CASE WriteTimestamp(p) \/ RefuseArtifact(p) \/ RefuseDuplicate(p) \/ Abort(p)
  BY <1>0, <1>3, ReturnMoves DEF WriteTimestamp, RefuseArtifact, RefuseDuplicate, Abort, Fail, SerialStep
<1>4. CASE \/ WriteConfig(p) \/ InitCheckpoint(p) \/ InitSnapshot(p) \/ InitTimestamp(p)
           \/ WriteRoot(p) \/ ReuseArtifact(p) \/ MissArtifact(p) \/ OpenArtifact(p)
           \/ FillArtifact(p)
  BY <1>0, <1>4, GotoMoves DEF WriteConfig, InitCheckpoint, InitSnapshot, InitTimestamp,
     WriteRoot, ReuseArtifact, MissArtifact, OpenArtifact, FillArtifact, SerialStep
<1>5. CASE \/ PassDuplicateCheck(p) \/ AppendRecord(p) \/ CountLeaves(p) \/ WriteLeaf(p)
           \/ Collect(p) \/ (\E n \in Namespaces : SignTargets(p, n)) \/ WriteTargets(p)
           \/ SignCheckpoint(p) \/ WriteCheckpoint(p) \/ WriteSnapshot(p)
  BY <1>0, <1>5, GotoMoves DEF PassDuplicateCheck, AppendRecord, CountLeaves, WriteLeaf, Collect,
     SignTargets, WriteTargets, SignCheckpoint, WriteCheckpoint, WriteSnapshot, SerialStep
<1> QED
  BY <1>1, <1>2, <1>3, <1>4, <1>5 DEF Continue, SerialStep

-----------------------------------------------------------------------------
LEMMA SerialInit == Init => SerialInv
<1> SUFFICES ASSUME Init PROVE SerialInv
  OBVIOUS
<1>1. RecordInv
  BY RecordInit
<1>2. \A p \in Publishers : pc[p] = "idle" /\ meta[p] = NoTargets
  BY DEF Init
<1>3. \A q \in Packages : index[q] = << >>
  BY DEF Init, NoIndex
<1>4. OneActive /\ ArtifactInv /\ ReleaseInv
  BY <1>2, <1>3 DEF Init, OneActive, ArtifactInv, ReleaseInv, OneReleasePerVersion
<1>5. InitOrder
  BY <1>2 DEF Init, InitOrder, InitSteps, NoCheckpoint, NoSnapshot, NoTimestamp
<1>6. CheckpointIsPrefix
  BY EmptySeq DEF Init, CheckpointIsPrefix, NoCheckpoint, IsPrefix
<1>7. RefreshInv /\ CommitInv /\ AckedReleaseIsServed
  BY <1>2 DEF Init, RefreshInv, CommitInv, AckedReleaseIsServed, RefreshSteps, CommitSteps
<1> QED
  BY <1>1, <1>4, <1>5, <1>6, <1>7 DEF SerialInv

LEMMA OneActiveStep ==
  ASSUME Serialised, SerialInv, Progress
  PROVE  OneActive'
<1>1. PICK p \in Publishers : SerialStep(p)
  BY SerialSteps
<1>2. \A r \in Publishers : r # p => pc'[r] = "idle"
  BY <1>1 DEF SerialStep, Moves
<1> QED
  BY <1>2 DEF OneActive

LEMMA InitOrderStep ==
  ASSUME Serialised, SerialInv, Progress
  PROVE  InitOrder'
<1> USE DEF SerialInv, RecordInv, InitOrder, InitSteps, Moves
<1>1. PICK p \in Publishers : SerialStep(p)
  BY SerialSteps
<1>2. CASE \E a \in Archives :
             Begin(p, a) /\ Moves(p, "idle", IF config THEN "artifact" ELSE "config")
  BY <1>2 DEF Begin, files, trustFiles, TypeOK
<1>3. CASE WriteConfig(p) /\ Moves(p, "config", "initCheckpoint")
  BY <1>3 DEF WriteConfig, trustFiles
<1>4. CASE InitCheckpoint(p) /\ Moves(p, "initCheckpoint", "initSnapshot")
  BY <1>4 DEF InitCheckpoint
<1>5. CASE InitSnapshot(p) /\ Moves(p, "initSnapshot", "initTimestamp")
  BY <1>5 DEF InitSnapshot
<1>6. CASE InitTimestamp(p) /\ Moves(p, "initTimestamp", "root")
  BY <1>6 DEF InitTimestamp
<1>7. CASE WriteRoot(p) /\ Moves(p, "root", "artifact")
  BY <1>7 DEF WriteRoot, trustFiles
<1>8. CASE \/ ReuseArtifact(p) /\ Moves(p, "artifact", "index")
           \/ MissArtifact(p) /\ Moves(p, "artifact", "copy")
           \/ OpenArtifact(p) /\ Moves(p, "copy", "fill")
           \/ FillArtifact(p) /\ Moves(p, "fill", "index")
           \/ PassDuplicateCheck(p) /\ Moves(p, "index", "append")
           \/ AppendRecord(p) /\ Moves(p, "append", "count")
           \/ CountLeaves(p) /\ Moves(p, "count", "leaf")
           \/ WriteLeaf(p) /\ Moves(p, "leaf", "collect")
           \/ Collect(p) /\ Moves(p, "collect", "targets")
  BY <1>8 DEF ReuseArtifact, MissArtifact, OpenArtifact, FillArtifact, PassDuplicateCheck,
     AppendRecord, CountLeaves, WriteLeaf, Collect, files, trustFiles
<1>9. CASE \/ \E n \in Namespaces : SignTargets(p, n) /\ Moves(p, "targets", "writeTargets")
           \/ WriteTargets(p) /\ Moves(p, "writeTargets", "targets")
           \/ SignCheckpoint(p) /\ Moves(p, "targets", "writeCheckpoint")
           \/ Fail(p) /\ Moves(p, pc[p], "idle")
  BY <1>9 DEF SignTargets, WriteTargets, SignCheckpoint, Fail, files, trustFiles
<1>10. CASE \/ WriteCheckpoint(p) /\ Moves(p, "writeCheckpoint", "writeSnapshot")
            \/ WriteSnapshot(p) /\ Moves(p, "writeSnapshot", "writeTimestamp")
            \/ WriteTimestamp(p) /\ Moves(p, "writeTimestamp", "idle")
  BY <1>10 DEF WriteCheckpoint, WriteSnapshot, WriteTimestamp
<1> QED
  BY <1>1, <1>2, <1>3, <1>4, <1>5, <1>6, <1>7, <1>8, <1>9, <1>10 DEF SerialStep

LEMMA ArtifactStep ==
  ASSUME Serialised, SerialInv, Progress
  PROVE  ArtifactInv'
<1> USE DEF SerialInv, RecordInv, ArtifactInv, Moves
<1>1. PICK p \in Publishers : SerialStep(p)
  BY SerialSteps
<1>2. \A r \in Publishers : r # p => pc'[r] = "idle"
  BY <1>1 DEF SerialStep
<1>3. CASE OpenArtifact(p) /\ Moves(p, "copy", "fill")
  <2>1. /\ artifact' = [artifact EXCEPT ![archive[p]] = "partial"]
        /\ UNCHANGED <<index, archive>>
    BY <1>3 DEF OpenArtifact, locals
  <2>2. archive[p] \in Archives /\ artifact \in [Archives -> {"absent", "partial", "whole"}]
    BY DEF TypeOK
  <2>3. artifact[archive[p]] # "whole"
    BY <1>3
  <2> QED
    BY <1>2, <1>3, <2>1, <2>2, <2>3
<1>4. CASE FillArtifact(p) /\ Moves(p, "fill", "index")
  <2>1. ~ \E q \in Publishers \ {p} : pc[q] = "fill" /\ archive[q] = archive[p]
    BY <1>4
  <2>2. /\ artifact' = [artifact EXCEPT ![archive[p]] = "whole"]
        /\ UNCHANGED <<index, archive>>
    BY <1>4, <2>1 DEF FillArtifact, locals
  <2>3. archive[p] \in Archives /\ artifact \in [Archives -> {"absent", "partial", "whole"}]
    BY DEF TypeOK
  <2> QED
    BY <1>2, <1>4, <2>2, <2>3
<1>5. CASE AppendRecord(p) /\ Moves(p, "append", "count")
  <2>1. artifact[archive[p]] = "whole" /\ UNCHANGED <<artifact, archive>>
    BY <1>5 DEF AppendRecord, locals
  <2>2. \A q \in Packages : \A i \in DOMAIN index'[q] :
          index'[q][i] = archive[p] \/ (i \in DOMAIN index[q] /\ index'[q][i] = index[q][i])
    <3> SUFFICES ASSUME NEW q \in Packages, NEW i \in DOMAIN index'[q]
                 PROVE  index'[q][i] = archive[p] \/ (i \in DOMAIN index[q] /\ index'[q][i] = index[q][i])
      OBVIOUS
    <3>1. index[q] \in Seq(Archives) /\ archive[p] \in Archives
      BY DEF TypeOK, IndexFiles
    <3>2. index'[q] = index[q] \/ index'[q] = Append(index[q], archive[p])
      BY <1>5, IndexExtends
    <3> QED
      BY <3>1, <3>2, AppendExtends
  <2> QED
    BY <1>2, <1>5, <2>1, <2>2
<1>6. CASE ReuseArtifact(p) /\ Moves(p, "artifact", "index")
  BY <1>2, <1>6 DEF ReuseArtifact, files, locals
<1>7. CASE MissArtifact(p) /\ Moves(p, "artifact", "copy")
  BY <1>2, <1>7 DEF MissArtifact, files, locals
<1>8. CASE PassDuplicateCheck(p) /\ Moves(p, "index", "append")
  BY <1>2, <1>8 DEF PassDuplicateCheck, files, locals
<1>9. CASE /\ UNCHANGED <<artifact, index>>
           /\ pc'[p] \notin {"copy", "fill", "index", "append"}
  BY <1>2, <1>9
<1> QED
  BY <1>1, <1>3, <1>4, <1>5, <1>6, <1>7, <1>8, <1>9
  DEF SerialStep, Begin, WriteConfig, InitCheckpoint, InitSnapshot, InitTimestamp, WriteRoot,
      CountLeaves, WriteLeaf, Collect, SignTargets, WriteTargets, SignCheckpoint, WriteCheckpoint,
      WriteSnapshot, WriteTimestamp, Fail, files

\* A leaf is written at the end of the log.
LEMMA LeafExtends ==
  ASSUME SerialInv, NEW p \in Publishers, WriteLeaf(p)
  PROVE  /\ DOMAIN leaves' = DOMAIN leaves \cup {Len(leaves) + 1}
         /\ leaves'[Len(leaves) + 1] = archive[p]
         /\ \A i \in DOMAIN leaves : leaves'[i] = leaves[i]
         /\ Len(leaves) \in Nat /\ DOMAIN leaves = 1 .. Len(leaves)
         /\ Len(leaves') = Len(leaves) + 1
         /\ leaves' \in Seq(Archives)
<1>1. /\ sequence[p] = Len(leaves) + 1
      /\ leaves' = Put(leaves, sequence[p], archive[p])
      /\ leaves \in Seq(Archives) /\ archive[p] \in Archives
  BY DEF SerialInv, RecordInv, TypeOK, ReleaseInv, WriteLeaf, Goto
<1>2. Len(leaves) \in Nat /\ DOMAIN leaves = 1 .. Len(leaves)
  BY <1>1
<1>3. /\ DOMAIN leaves' = DOMAIN leaves \cup {Len(leaves) + 1}
      /\ leaves'[Len(leaves) + 1] = archive[p]
      /\ \A i \in DOMAIN leaves : leaves'[i] = leaves[i]
  BY <1>1, <1>2 DEF Put
<1>4. leaves' \in [1 .. Len(leaves) + 1 -> Archives]
  BY <1>1, <1>2 DEF Put
<1>5. Len(leaves') = Len(leaves) + 1 /\ leaves' \in Seq(Archives)
  BY <1>2, <1>4, FunctionIsSeq
<1> QED
  BY <1>2, <1>3, <1>5

\* A version that is in the log is in the index.
LEMMA LoggedIsPublished ==
  ASSUME SerialInv, NEW i \in DOMAIN leaves, NEW a \in Archives,
         ReleaseKey[leaves[i]] = ReleaseKey[a]
  PROVE  Published(a)
<1>1. leaves[i] \in Archives
  BY DEF SerialInv, RecordInv, TypeOK
<1>2. PackageOf[leaves[i]] = PackageOf[a] /\ VersionOf[leaves[i]] = VersionOf[a]
  BY <1>1 DEF ReleaseKey
<1>3. leaves[i] \in ToSet(index[PackageOf[a]])
  BY <1>2 DEF SerialInv, RecordInv, LeafIsIndexed, IsIndexed
<1> QED
  BY <1>2, <1>3 DEF Published, ToSet

LEMMA ReleaseStep ==
  ASSUME Serialised, SerialInv, Progress
  PROVE  ReleaseInv'
<1> USE DEF SerialInv, RecordInv, Moves
<1>1. PICK p \in Publishers : SerialStep(p)
  BY SerialSteps
<1>2. \A r \in Publishers : r # p => pc'[r] = "idle"
  BY <1>1 DEF SerialStep
<1>3. CASE PassDuplicateCheck(p) /\ Moves(p, "index", "append")
  <2>1. ~Published(archive[p])'
    BY <1>3 DEF PassDuplicateCheck, Published, files, locals
  <2> QED
    BY <1>2, <1>3, <2>1
    DEF PassDuplicateCheck, ReleaseInv, OneReleasePerVersion, files, locals
<1>4. CASE AppendRecord(p) /\ Moves(p, "append", "count")
  <2> DEFINE own == PackageOf[archive[p]]
  <2>1. ~Published(archive[p])
    BY <1>4 DEF ReleaseInv
  <2>2. /\ own \in Packages
        /\ index[own] \in Seq(Archives)
        /\ archive[p] \in Archives
    BY PublishAssumption DEF TypeOK, IndexFiles
  <2>3. /\ index'[own] = Append(index[own], archive[p])
        /\ \A q \in Packages : q # own => index'[q] = index[q]
    BY <1>4, IndexExtends
  <2>4. OneReleasePerVersion'
    <3> SUFFICES ASSUME NEW q \in Packages, NEW i \in DOMAIN index'[q], NEW j \in DOMAIN index'[q],
                        VersionOf[index'[q][i]] = VersionOf[index'[q][j]]
                 PROVE  i = j
      BY DEF OneReleasePerVersion
    <3>1. CASE q # own
      BY <2>3, <3>1 DEF ReleaseInv, OneReleasePerVersion
    <3>2. CASE q = own
      <4> DEFINE old == index[own]
      <4>1. /\ DOMAIN index'[q] = DOMAIN old \cup {Len(old) + 1}
            /\ \A k \in DOMAIN old : index'[q][k] = old[k]
            /\ index'[q][Len(old) + 1] = archive[p]
        BY <2>2, <2>3, <3>2, AppendExtends
      <4>2. \A k \in DOMAIN old : VersionOf[old[k]] # VersionOf[archive[p]]
        BY <2>1 DEF Published
      <4> QED
        BY <2>2, <3>2, <4>1, <4>2 DEF ReleaseInv, OneReleasePerVersion
    <3> QED
      BY <3>1, <3>2
  <2>5. \A i \in DOMAIN leaves : ReleaseKey[leaves[i]] # ReleaseKey[archive[p]]
    BY <2>1, <2>2, LoggedIsPublished
  <2>6. UNCHANGED <<leaves, archive>>
    BY <1>4 DEF AppendRecord, locals
  <2> QED
    BY <1>2, <1>4, <2>4, <2>5, <2>6 DEF ReleaseInv
<1>5. CASE WriteLeaf(p) /\ Moves(p, "leaf", "collect")
  <2>1. \A i \in DOMAIN leaves : ReleaseKey[leaves[i]] # ReleaseKey[archive[p]]
    BY <1>5 DEF ReleaseInv
  <2>2. \A i, j \in DOMAIN leaves' : ReleaseKey[leaves'[i]] = ReleaseKey[leaves'[j]] => i = j
    BY <1>5, <2>1, LeafExtends DEF ReleaseInv
  <2>3. UNCHANGED index
    BY <1>5 DEF WriteLeaf
  <2> QED
    BY <1>2, <1>5, <2>2, <2>3 DEF ReleaseInv, OneReleasePerVersion
<1>6. CASE UNCHANGED <<index, leaves>> /\ pc'[p] \notin {"append", "count", "leaf"}
  BY <1>2, <1>6 DEF ReleaseInv, OneReleasePerVersion
<1>7. CASE CountLeaves(p) /\ Moves(p, "count", "leaf")
  <2>1. sequence'[p] = Len(leaves) + 1 /\ UNCHANGED <<index, leaves, archive>>
    BY <1>7 DEF CountLeaves, files, TypeOK
  <2> QED
    BY <1>2, <1>7, <2>1 DEF ReleaseInv, OneReleasePerVersion
<1> QED
  BY <1>1, <1>3, <1>4, <1>5, <1>6, <1>7
  DEF SerialStep, Begin, WriteConfig, InitCheckpoint, InitSnapshot, InitTimestamp, WriteRoot,
      ReuseArtifact, MissArtifact, OpenArtifact, FillArtifact, Collect, SignTargets,
      WriteTargets, SignCheckpoint, WriteCheckpoint, WriteSnapshot, WriteTimestamp, Fail, files

LEMMA PrefixStep ==
  ASSUME Serialised, SerialInv, Progress
  PROVE  CheckpointIsPrefix'
<1> USE DEF SerialInv, RecordInv, Moves
<1>1. PICK p \in Publishers : SerialStep(p)
  BY SerialSteps
<1>2. leaves \in Seq(Archives) /\ checkpoint.leaves \in Seq(Archives)
  BY DEF TypeOK, Checkpoint
<1>3. CASE InitCheckpoint(p)
  <2>1. checkpoint'.leaves = << >> /\ leaves' = leaves
    BY <1>3 DEF InitCheckpoint, FreshCheckpoint, NoCheckpoint
  <2> QED
    BY <1>2, <2>1 DEF CheckpointIsPrefix, IsPrefix
<1>4. CASE WriteLeaf(p)
  <2>1. checkpoint' = checkpoint
    BY <1>4 DEF WriteLeaf, trustFiles
  <2> QED
    BY <1>2, <1>4, <2>1, LeafExtends DEF CheckpointIsPrefix, IsPrefix
<1>5. CASE WriteCheckpoint(p) /\ Moves(p, "writeCheckpoint", "writeSnapshot")
  <2>1. checkpoint'.leaves = leaves /\ leaves' = leaves
    BY <1>5 DEF WriteCheckpoint, CommitInv
  <2> QED
    BY <1>2, <2>1, PrefixReflexive DEF CheckpointIsPrefix
<1>6. CASE UNCHANGED <<checkpoint, leaves>>
  BY <1>6 DEF CheckpointIsPrefix
<1> QED
  BY <1>1, <1>3, <1>4, <1>5, <1>6
  DEF SerialStep, Begin, WriteConfig, InitSnapshot, InitTimestamp, WriteRoot, ReuseArtifact,
      MissArtifact, OpenArtifact, FillArtifact, PassDuplicateCheck, AppendRecord, CountLeaves,
      Collect, SignTargets, WriteTargets, SignCheckpoint, WriteSnapshot, WriteTimestamp, Fail, files,
      trustFiles

LEMMA RefreshStep ==
  ASSUME Serialised, SerialInv, Progress
  PROVE  RefreshInv'
<1> USE DEF SerialInv, RecordInv, Moves, RefreshSteps, CommitSteps
<1>1. PICK p \in Publishers : SerialStep(p)
  BY SerialSteps
<1>2. \A r \in Publishers : r # p => pc[r] = "idle" /\ pc'[r] = "idle"
  BY <1>1 DEF SerialStep
<1>3. /\ meta \in [Publishers -> [Namespaces -> Targets]]
      /\ DOMAIN draft = Publishers
      /\ seen \in [Publishers -> IndexFiles]
      /\ archive \in [Publishers -> Archives]
      /\ targets \in [Namespaces -> Targets]
  BY DEF TypeOK, DraftDefined
<1>4. \A n \in Namespaces : NoTargets[n].version = 0
  BY DEF NoTargets
<1>5. CASE WriteLeaf(p) /\ Moves(p, "leaf", "collect")
  <2>1. archive[p] \in ToSet(leaves')
    BY <1>5, LeafExtends DEF ToSet
  <2>2. UNCHANGED <<meta, archive>>
    BY <1>5 DEF WriteLeaf, locals
  <2> QED
    BY <1>2, <1>5, <2>1, <2>2 DEF RefreshInv
<1>6. CASE Collect(p) /\ Moves(p, "collect", "targets")
  <2>1. /\ seen'[p] = index
        /\ UNCHANGED <<leaves, index, targets, archive, meta>>
    BY <1>3, <1>6 DEF Collect, files, trustFiles
  <2>2. meta[p] = NoTargets
    BY <1>6 DEF RefreshInv
  <2>3. archive[p] \in ToSet(leaves)
    BY <1>6 DEF RefreshInv
  <2> QED
    BY <1>2, <1>4, <1>6, <2>1, <2>2, <2>3 DEF RefreshInv
<1>7. ASSUME NEW n \in Namespaces, SignTargets(p, n), Moves(p, "targets", "writeTargets")
      PROVE  RefreshInv'
  <2>1. /\ draft'[p].version = targets[draft'[p].namespace].version + 1
        /\ draft'[p].namespace = n
        /\ draft'[p].releases = ReleasesOf(n, seen[p])
        /\ UNCHANGED <<leaves, index, targets, archive, meta, seen>>
    BY <1>3, <1>7 DEF SignTargets, files, trustFiles
  <2>2. seen[p] = index
    BY <1>7 DEF RefreshInv
  <2> QED
    BY <1>2, <1>7, <2>1, <2>2 DEF RefreshInv
<1>8. CASE WriteTargets(p) /\ Moves(p, "writeTargets", "targets")
  <2> DEFINE m == draft[p].namespace
  <2>1. draft[p] \in Targets /\ m \in Namespaces
    BY <1>8 DEF TypeOK, Targets
  <2>2. /\ targets' = [targets EXCEPT ![m] = draft[p]]
        /\ meta' = [meta EXCEPT ![p] = [@ EXCEPT ![m] = draft[p]]]
        /\ UNCHANGED <<leaves, index, archive, seen>>
    BY <1>8 DEF WriteTargets
  <2>3. /\ targets'[m] = draft[p] /\ meta'[p][m] = draft[p]
        /\ \A n \in Namespaces : n # m => targets'[n] = targets[n] /\ meta'[p][n] = meta[p][n]
        /\ \A r \in Publishers : r # p => meta'[r] = meta[r]
    BY <1>3, <2>1, <2>2
  <2>4. draft[p].releases = ReleasesOf(m, index)
    BY <1>8 DEF RefreshInv
  <2> QED
    BY <1>2, <1>8, <2>1, <2>2, <2>3, <2>4 DEF RefreshInv
<1>9. CASE SignCheckpoint(p) /\ Moves(p, "targets", "writeCheckpoint")
  <2>1. /\ Pending(p) = {}
        /\ UNCHANGED <<leaves, index, targets, archive, meta, seen>>
    BY <1>9 DEF SignCheckpoint, files, trustFiles
  <2>2. \A n \in Namespaces : meta[p][n].version \in Nat
    BY <1>3 DEF Targets
  <2>3. \A n \in Namespaces : Populated(n, index) => meta[p][n].version > 0
    BY <1>9, <2>1, <2>2 DEF Pending, Populated, RefreshInv
  <2> QED
    BY <1>2, <1>9, <2>1, <2>3 DEF RefreshInv
<1>10. CASE \/ WriteCheckpoint(p) /\ Moves(p, "writeCheckpoint", "writeSnapshot")
            \/ WriteSnapshot(p) /\ Moves(p, "writeSnapshot", "writeTimestamp")
  <2>1. UNCHANGED <<leaves, index, targets, archive, meta, seen>>
    BY <1>10 DEF WriteCheckpoint, WriteSnapshot
  <2> QED
    BY <1>2, <1>10, <2>1 DEF RefreshInv
<1>11. CASE Return(p) /\ Moves(p, pc[p], "idle")
  <2>1. \A r \in Publishers : meta'[r] = IF r = p THEN NoTargets ELSE meta[r]
    BY <1>3, <1>11 DEF Return
  <2> QED
    BY <1>2, <1>11, <2>1 DEF RefreshInv
<1>12. CASE /\ pc[p] \notin RefreshSteps
            /\ pc'[p] \notin {"collect"} \cup RefreshSteps
            /\ UNCHANGED meta
  BY <1>2, <1>12 DEF RefreshInv
<1> QED
  BY <1>1, <1>5, <1>6, <1>7, <1>8, <1>9, <1>10, <1>11, <1>12
  DEF SerialStep, Begin, WriteConfig, InitCheckpoint, InitSnapshot, InitTimestamp, WriteRoot,
      ReuseArtifact, MissArtifact, OpenArtifact, FillArtifact, PassDuplicateCheck,
      AppendRecord, CountLeaves, WriteTimestamp, Fail, locals

LEMMA CommitStep ==
  ASSUME Serialised, SerialInv, Progress
  PROVE  CommitInv'
<1> USE DEF SerialInv, RecordInv, Moves
<1>1. PICK p \in Publishers : SerialStep(p)
  BY SerialSteps
<1>2. \A r \in Publishers : r # p => pc'[r] = "idle"
  BY <1>1 DEF SerialStep
<1>3. DOMAIN draft = Publishers
  BY DEF DraftDefined
<1>4. CASE SignCheckpoint(p) /\ Moves(p, "targets", "writeCheckpoint")
  BY <1>2, <1>3, <1>4 DEF SignCheckpoint, CommitInv, files, trustFiles
<1>5. CASE WriteCheckpoint(p) /\ Moves(p, "writeCheckpoint", "writeSnapshot")
  <2>1. checkpoint.version \in Nat
    BY DEF TypeOK, Checkpoint
  <2>2. /\ checkpoint' = draft[p]
        /\ draft'[p] = [version |-> snapshot.version + 1, index |-> seen[p],
                        targets |-> meta[p], checkpoint |-> draft[p]]
        /\ UNCHANGED <<leaves, snapshot, index, meta>>
    BY <1>3, <1>5 DEF WriteCheckpoint
  <2>3. draft[p].version = checkpoint.version + 1 /\ draft[p].leaves = leaves
    BY <1>5 DEF CommitInv
  <2>4. seen[p] = index
    BY <1>5 DEF RefreshInv, RefreshSteps, CommitSteps
  <2> QED
    BY <1>2, <1>5, <2>1, <2>2, <2>3, <2>4 DEF CommitInv
<1>6. CASE WriteSnapshot(p) /\ Moves(p, "writeSnapshot", "writeTimestamp")
  <2>1. snapshot.version \in Nat
    BY DEF TypeOK, Snapshot
  <2>2. /\ snapshot' = draft[p]
        /\ draft'[p] = [version |-> timestamp.version + 1, snapshot |-> draft[p]]
        /\ UNCHANGED <<leaves, checkpoint, timestamp, index, meta>>
    BY <1>3, <1>6 DEF WriteSnapshot
  <2> QED
    BY <1>2, <1>6, <2>1, <2>2 DEF CommitInv
<1>7. CASE pc'[p] \notin CommitSteps
  BY <1>2, <1>7 DEF CommitInv, CommitSteps
<1> QED
  BY <1>1, <1>4, <1>5, <1>6, <1>7 DEF SerialStep, CommitSteps

\* Where no version has two records, the last record of every version is every record.
LEMMA AllRecordsLast ==
  ASSUME SerialInv, NEW q \in Packages
  PROVE  LastRecords(index[q]) = ToSet(index[q])
<1>1. \A i, j \in DOMAIN index[q] :
        VersionOf[index[q][i]] = VersionOf[index[q][j]] => i = j
  BY DEF SerialInv, ReleaseInv, OneReleasePerVersion
<1>2. index[q] \in Seq(Archives)
  BY DEF SerialInv, RecordInv, TypeOK, IndexFiles
<1>3. \A i, j \in DOMAIN index[q] : j > i => j # i
  BY <1>2
<1> QED
  BY <1>1, <1>3 DEF LastRecords, ToSet

\* What is logged is listed by the targets file made from the index.
LEMMA LoggedIsReleased ==
  ASSUME SerialInv, NEW a \in ToSet(leaves)
  PROVE  /\ a \in Archives
         /\ PackageOf[a] \in Packages
         /\ a \in ToSet(index[PackageOf[a]])
         /\ a \in ReleasesOf(NamespaceOf[PackageOf[a]], index)
         /\ Populated(NamespaceOf[PackageOf[a]], index)
<1>1. PICK i \in DOMAIN leaves : a = leaves[i]
  BY DEF ToSet
<1>2. a \in Archives
  BY <1>1 DEF SerialInv, RecordInv, TypeOK
<1>3. PackageOf[a] \in Packages
  BY <1>2, PublishAssumption
<1>4. a \in ToSet(index[PackageOf[a]])
  BY <1>1 DEF SerialInv, RecordInv, LeafIsIndexed, IsIndexed
<1>5. a \in LastRecords(index[PackageOf[a]])
  BY <1>3, <1>4, AllRecordsLast
<1>6. index[PackageOf[a]] # << >>
  BY <1>4 DEF ToSet
<1> QED
  BY <1>2, <1>3, <1>4, <1>5, <1>6 DEF ReleasesOf, Populated

LEMMA AckedStep ==
  ASSUME Serialised, SerialInv, Progress
  PROVE  AckedReleaseIsServed'
<1> USE DEF SerialInv, RecordInv, Moves
<1>1. PICK p \in Publishers : SerialStep(p)
  BY SerialSteps
<1>2. leaves \in Seq(Archives) /\ checkpoint.leaves \in Seq(Archives)
  BY DEF TypeOK, Checkpoint
<1>3. \A a \in acked : a \in ToSet(leaves)
  BY <1>2, PrefixElements DEF AckedReleaseIsServed, CheckpointIsPrefix
<1>4. /\ artifact \in [Archives -> {"absent", "partial", "whole"}]
      /\ targets \in [Namespaces -> Targets]
      /\ archive[p] \in Archives
  BY DEF TypeOK
<1>5. CASE InitCheckpoint(p) /\ Moves(p, "initCheckpoint", "initSnapshot")
  <2>1. checkpoint = NoCheckpoint
    BY <1>5 DEF InitOrder
  <2>2. acked = {}
    BY <2>1 DEF AckedReleaseIsServed, NoCheckpoint, ToSet
  <2> QED
    BY <1>5, <2>2 DEF InitCheckpoint, AckedReleaseIsServed
<1>6. CASE OpenArtifact(p) /\ Moves(p, "copy", "fill")
  <2>1. artifact[archive[p]] # "whole"
    BY <1>6 DEF ArtifactInv
  <2> QED
    BY <1>4, <1>6, <2>1 DEF OpenArtifact, AckedReleaseIsServed, trustFiles
<1>7. CASE FillArtifact(p) /\ Moves(p, "fill", "index")
  <2>1. artifact' = [artifact EXCEPT ![archive[p]] = "whole"]
    BY <1>7 DEF FillArtifact
  <2> QED
    BY <1>4, <1>7, <2>1 DEF FillArtifact, AckedReleaseIsServed, trustFiles
<1>8. CASE WriteTargets(p) /\ Moves(p, "writeTargets", "targets")
  <2>1. /\ draft[p].releases = ReleasesOf(draft[p].namespace, index)
        /\ targets' = [targets EXCEPT ![draft[p].namespace] = draft[p]]
        /\ UNCHANGED <<artifact, checkpoint, acked>>
    BY <1>8 DEF WriteTargets, RefreshInv
  <2>2. \A a \in acked : a \in ReleasesOf(NamespaceOf[PackageOf[a]], index)
    BY <1>3, LoggedIsReleased
  <2> QED
    BY <1>4, <2>1, <2>2 DEF AckedReleaseIsServed
<1>9. CASE WriteCheckpoint(p) /\ Moves(p, "writeCheckpoint", "writeSnapshot")
  <2>1. checkpoint'.leaves = leaves /\ UNCHANGED <<artifact, targets, acked>>
    BY <1>9 DEF WriteCheckpoint, CommitInv
  <2> QED
    BY <1>3, <2>1 DEF AckedReleaseIsServed
<1>10. CASE WriteTimestamp(p) /\ Moves(p, "writeTimestamp", "idle")
  <2> DEFINE a == archive[p]
             n == NamespaceOf[PackageOf[a]]
  <2>1. acked' = acked \cup {a} /\ UNCHANGED <<artifact, targets, checkpoint>>
    BY <1>10 DEF WriteTimestamp
  <2>2. a \in ToSet(leaves) /\ checkpoint.leaves = leaves
    BY <1>10 DEF RefreshInv, CommitInv, RefreshSteps, CommitSteps
  <2>3. a \in ReleasesOf(n, index) /\ Populated(n, index)
    BY <2>2, LoggedIsReleased
  <2>4. n \in Namespaces
    BY <1>4, PublishAssumption
  <2>5. targets[n].releases = ReleasesOf(n, index)
    BY <1>10, <2>3, <2>4 DEF RefreshInv, RefreshSteps, CommitSteps
  <2>6. artifact[a] = "whole"
    BY <2>2, LoggedIsReleased DEF ArtifactInv, ToSet
  <2> QED
    BY <2>1, <2>2, <2>3, <2>5, <2>6 DEF AckedReleaseIsServed
<1>11. CASE UNCHANGED <<artifact, targets, checkpoint, acked>>
  BY <1>11 DEF AckedReleaseIsServed
<1> QED
  BY <1>1, <1>5, <1>6, <1>7, <1>8, <1>9, <1>10, <1>11
  DEF SerialStep, Begin, WriteConfig, InitSnapshot, InitTimestamp, WriteRoot, ReuseArtifact,
      MissArtifact, PassDuplicateCheck, AppendRecord, CountLeaves, WriteLeaf, Collect, SignTargets,
      SignCheckpoint, WriteSnapshot, Fail, files, trustFiles
-----------------------------------------------------------------------------
LEMMA SerialStutter ==
  ASSUME SerialInv, UNCHANGED vars
  PROVE  SerialInv'
<1> USE DEF SerialInv, vars, files, trustFiles, locals
<1>1. RecordInv'
  BY RecordStep
<1>2. OneActive' /\ InitOrder' /\ ArtifactInv' /\ CheckpointIsPrefix' /\ AckedReleaseIsServed'
  BY DEF OneActive, InitOrder, ArtifactInv, CheckpointIsPrefix, AckedReleaseIsServed
<1>3. ReleaseInv'
  BY DEF ReleaseInv, OneReleasePerVersion, Published
<1>4. RefreshInv' /\ CommitInv'
  BY DEF RefreshInv, CommitInv
<1> QED
  BY <1>1, <1>2, <1>3, <1>4

LEMMA SerialStepKeeps ==
  ASSUME Serialised, SerialInv, [Next]_vars
  PROVE  SerialInv'
<1>1. CASE UNCHANGED vars
  BY <1>1, SerialStutter
<1>2. CASE Progress
  <2>1. RecordInv'
    BY <1>2, RecordStep DEF SerialInv, Progress
  <2> QED
    BY <1>2, <2>1, OneActiveStep, InitOrderStep, ArtifactStep, ReleaseStep, PrefixStep,
       RefreshStep, CommitStep, AckedStep DEF SerialInv
<1> QED
  BY <1>1, <1>2 DEF Progress

\* Publishes that run one at a time keep every part of the registry root in step.
THEOREM SerialInvariant == ASSUME Serialised PROVE Spec => []SerialInv
<1>1. SerialInv /\ [Next]_vars => SerialInv'
  BY SerialStepKeeps
<1> QED
  BY SerialInit, <1>1, PTL DEF Spec

\* A package version is released once.
THEOREM VersionsReleasedOnce ==
  ASSUME Serialised PROVE Spec => []OneReleasePerVersion
<1>1. SerialInv => OneReleasePerVersion
  BY DEF SerialInv, ReleaseInv
<1> QED
  BY SerialInvariant, <1>1, PTL

\* An indexed release can be downloaded, whatever publish failed.
THEOREM ArtifactsWhole ==
  ASSUME Serialised PROVE Spec => []IndexedArtifactsWhole
<1>1. SerialInv => IndexedArtifactsWhole
  BY DEF SerialInv, ArtifactInv, IndexedArtifactsWhole, Indexed, ToSet
<1> QED
  BY SerialInvariant, <1>1, PTL

\* A release whose publish succeeded stays downloadable, signed and logged.
THEOREM AckedServed ==
  ASSUME Serialised PROVE Spec => []AckedReleaseIsServed
<1>1. SerialInv => AckedReleaseIsServed
  BY DEF SerialInv
<1> QED
  BY SerialInvariant, <1>1, PTL

\* No signed file is ever replaced by an older one.
THEOREM VersionsIncrease ==
  ASSUME Serialised PROVE Spec => SignedVersionsIncrease
<1> DEFINE Increase == /\ Newer(checkpoint, checkpoint')
                       /\ Newer(snapshot, snapshot')
                       /\ Newer(timestamp, timestamp')
                       /\ \A n \in Namespaces : Newer(targets[n], targets'[n])
<1>1. ASSUME SerialInv, [Next]_vars
      PROVE  [Increase]_trustFiles
  <2> USE DEF Newer, Moves
  <2>1. CASE UNCHANGED vars
    BY <2>1 DEF vars, files, trustFiles
  <2>2. CASE Progress
    <3>1. PICK p \in Publishers : SerialStep(p)
      BY <1>1, <2>2, SerialSteps
    <3>2. /\ checkpoint.version \in Nat /\ snapshot.version \in Nat /\ timestamp.version \in Nat
          /\ \A n \in Namespaces : targets[n].version \in Nat
          /\ targets \in [Namespaces -> Targets]
      BY <1>1 DEF SerialInv, RecordInv, TypeOK, Checkpoint, Snapshot, Timestamp, Targets
    <3>3. CASE InitCheckpoint(p) /\ Moves(p, "initCheckpoint", "initSnapshot")
      <4>1. checkpoint.version = 0
        BY <1>1, <3>3 DEF SerialInv, InitOrder, NoCheckpoint
      <4> QED
        BY <3>3, <4>1 DEF InitCheckpoint, FreshCheckpoint, NoCheckpoint
    <3>4. CASE InitSnapshot(p) /\ Moves(p, "initSnapshot", "initTimestamp")
      <4>1. snapshot.version = 0
        BY <1>1, <3>4 DEF SerialInv, InitOrder
      <4> QED
        BY <3>4, <4>1 DEF InitSnapshot, FreshSnapshot, NoSnapshot
    <3>5. CASE InitTimestamp(p) /\ Moves(p, "initTimestamp", "root")
      <4>1. timestamp.version = 0
        BY <1>1, <3>5 DEF SerialInv, InitOrder
      <4> QED
        BY <3>5, <4>1 DEF InitTimestamp, FreshTimestamp
    <3>6. CASE WriteTargets(p) /\ Moves(p, "writeTargets", "targets")
      <4>1. draft[p].version = targets[draft[p].namespace].version + 1
        BY <1>1, <3>6 DEF SerialInv, RefreshInv
      <4>2. draft[p].namespace \in Namespaces
        BY <1>1, <3>6 DEF SerialInv, RecordInv, TypeOK, Targets
      <4> QED
        BY <3>2, <3>6, <4>1, <4>2 DEF WriteTargets
    <3>7. CASE WriteCheckpoint(p) /\ Moves(p, "writeCheckpoint", "writeSnapshot")
      BY <1>1, <3>2, <3>7 DEF WriteCheckpoint, SerialInv, CommitInv
    <3>8. CASE WriteSnapshot(p) /\ Moves(p, "writeSnapshot", "writeTimestamp")
      BY <1>1, <3>2, <3>8 DEF WriteSnapshot, SerialInv, CommitInv
    <3>9. CASE WriteTimestamp(p) /\ Moves(p, "writeTimestamp", "idle")
      BY <1>1, <3>2, <3>9 DEF WriteTimestamp, SerialInv, CommitInv
    <3>10. CASE UNCHANGED trustFiles
      BY <3>10
    <3> QED
      BY <3>1, <3>3, <3>4, <3>5, <3>6, <3>7, <3>8, <3>9, <3>10
      DEF SerialStep, Begin, WriteConfig, WriteRoot, ReuseArtifact, MissArtifact, OpenArtifact,
          FillArtifact, PassDuplicateCheck, AppendRecord, CountLeaves, WriteLeaf, Collect, SignTargets,
          SignCheckpoint, Fail, files
  <2> QED
    BY <1>1, <2>1, <2>2 DEF Progress
<1> QED
  BY SerialInvariant, <1>1, PTL DEF Spec, SignedVersionsIncrease

\* The verifier accepts the root a successful publish leaves.
LEMMA LastStepVerifies ==
  ASSUME SerialInv, NEW p \in Publishers, WriteTimestamp(p)
  PROVE  RootVerifies'
<1> USE DEF SerialInv, RecordInv
<1>1. /\ pc[p] = "writeTimestamp"
      /\ timestamp' = draft[p]
      /\ UNCHANGED <<config, root, artifact, index, leaves, checkpoint, targets, snapshot>>
  BY DEF WriteTimestamp
<1>2. /\ config /\ root
      /\ checkpoint.version > 0 /\ snapshot.version > 0 /\ timestamp'.version > 0
      /\ timestamp'.snapshot = snapshot
      /\ snapshot.checkpoint = checkpoint
      /\ snapshot.index = index
      /\ snapshot.targets = meta[p]
  <2>1. config /\ root
    BY <1>1 DEF InitOrder, InitSteps
  <2>2. timestamp.version \in Nat
    BY DEF TypeOK, Timestamp
  <2> QED
    BY <1>1, <2>1, <2>2 DEF CommitInv
<1>3. IsPrefix(checkpoint.leaves, leaves)
  BY DEF CheckpointIsPrefix
<1>4. ASSUME NEW n \in Namespaces, snapshot.targets[n].version > 0
      PROVE  targets[n] = snapshot.targets[n] /\ targets[n].releases = ReleasesOf(n, index)
  BY <1>1, <1>2, <1>4 DEF RefreshInv, RefreshSteps, CommitSteps
<1>5. ASSUME NEW n \in Namespaces, targets[n].releases = ReleasesOf(n, index)
      PROVE  TargetsVerify(n)
  <2> SUFFICES ASSUME NEW a \in targets[n].releases
               PROVE  /\ NamespaceOf[PackageOf[a]] = n
                      /\ PackageVerifies(PackageOf[a],
                           {b \in targets[n].releases : PackageOf[b] = PackageOf[a]})
    BY DEF TargetsVerify
  <2> DEFINE own == PackageOf[a]
             listed == {b \in targets[n].releases : PackageOf[b] = own}
  <2>1. PICK q \in Packages : NamespaceOf[q] = n /\ a \in LastRecords(index[q])
    BY <1>5 DEF ReleasesOf
  <2>2. a \in ToSet(index[q]) /\ own = q
    BY <2>1, AllRecordsLast DEF IndexIsPerPackage, ToSet
  <2>3. listed \subseteq ToSet(index[own])
    <3> SUFFICES ASSUME NEW b \in listed PROVE b \in ToSet(index[own])
      OBVIOUS
    <3>1. PICK r \in Packages : b \in LastRecords(index[r])
      BY <1>5 DEF ReleasesOf
    <3>2. b \in ToSet(index[r]) /\ PackageOf[b] = r
      BY <3>1, AllRecordsLast DEF IndexIsPerPackage, ToSet
    <3> QED
      BY <3>2
  <2>4. ToSet(index[own]) \subseteq listed
    <3> SUFFICES ASSUME NEW b \in ToSet(index[own]) PROVE b \in listed
      OBVIOUS
    <3>1. PackageOf[b] = own
      BY <2>2 DEF IndexIsPerPackage, ToSet
    <3>2. b \in LastRecords(index[own])
      BY <2>2, AllRecordsLast
    <3> QED
      BY <1>5, <2>1, <2>2, <3>1, <3>2 DEF ReleasesOf
  <2>5. listed = ToSet(index[own]) /\ LastRecords(index[own]) = ToSet(index[own])
    BY <2>2, <2>3, <2>4, AllRecordsLast
  <2>6. index[own] # << >> /\ \A i \in DOMAIN index[own] : artifact[index[own][i]] = "whole"
    BY <2>2 DEF ToSet, ArtifactInv
  <2>7. PackageVerifies(own, listed)
    BY <2>5, <2>6 DEF PackageVerifies
  <2> QED
    BY <2>1, <2>2, <2>7
<1>6. \A n \in Namespaces : snapshot.targets[n].version > 0 =>
        targets[n] = snapshot.targets[n] /\ TargetsVerify(n)
  BY <1>4, <1>5
<1> QED
  BY <1>1, <1>2, <1>3, <1>6
  DEF RootVerifies, TargetsVerify, PackageVerifies

THEOREM PublishedVerifies ==
  ASSUME Serialised PROVE Spec => PublishedRootVerifies
<1>1. ASSUME SerialInv, [Next]_vars
      PROVE  [acked' # acked => RootVerifies']_vars
  <2>1. CASE \E p \in Publishers : WriteTimestamp(p)
    BY <1>1, <2>1, LastStepVerifies
  <2>2. CASE \A p \in Publishers : ~WriteTimestamp(p)
    BY <1>1, <2>2 DEF Next, vars, Begin, WriteConfig, InitCheckpoint, InitSnapshot,
       InitTimestamp, WriteRoot, ReuseArtifact, RefuseArtifact, MissArtifact, OpenArtifact,
       FillArtifact, PassDuplicateCheck, RefuseDuplicate, AppendRecord, CountLeaves, WriteLeaf, Collect, ReadLater,
       SignTargets, WriteTargets, SignCheckpoint, WriteCheckpoint, WriteSnapshot, Abort, Fail
  <2> QED
    BY <2>1, <2>2
<1> QED
  BY SerialInvariant, <1>1, PTL DEF Spec, PublishedRootVerifies

\* The leaves and the checkpoint implement the promised append-only log.
THEOREM PublishImplementsLog ==
  ASSUME Serialised PROVE Spec => ImplementsLog
<1>1. Init => Log!Init
  BY DEF Init, Log!Init, NoCheckpoint
<1>2. ASSUME SerialInv, [Next]_vars
      PROVE  [Log!Next]_(Log!logVars)
  <2> USE DEF Log!logVars, Moves
  <2>1. CASE UNCHANGED vars
    BY <2>1 DEF vars, files, trustFiles
  <2>2. CASE Progress
    <3>1. PICK p \in Publishers : SerialStep(p)
      BY <1>2, <2>2, SerialSteps
    <3>2. CASE InitCheckpoint(p) /\ Moves(p, "initCheckpoint", "initSnapshot")
      <4>1. checkpoint = NoCheckpoint
        BY <1>2, <3>2 DEF SerialInv, InitOrder
      <4> QED
        BY <3>2, <4>1 DEF InitCheckpoint, FreshCheckpoint, NoCheckpoint
    <3>3. CASE WriteLeaf(p) /\ Moves(p, "leaf", "collect")
      <4>1. \A i \in DOMAIN leaves : ReleaseKey[leaves[i]] # ReleaseKey[archive[p]]
        BY <1>2, <3>3 DEF SerialInv, ReleaseInv
      <4>2. archive[p] \in Archives /\ leaves \in Seq(Archives)
        BY <1>2 DEF SerialInv, RecordInv, TypeOK
      <4>3. leaves' = Append(leaves, archive[p])
        BY <1>2, <3>3, <4>2, LeafExtends, AppendExtends, SeqEqual
      <4>4. checkpoint' = checkpoint
        BY <3>3 DEF WriteLeaf, trustFiles
      <4> QED
        BY <4>1, <4>2, <4>3, <4>4 DEF Log!Next, Log!Enter
    <3>4. CASE WriteCheckpoint(p) /\ Moves(p, "writeCheckpoint", "writeSnapshot")
      BY <1>2, <3>4 DEF WriteCheckpoint, SerialInv, CommitInv, Log!Next, Log!Sign
    <3>5. CASE UNCHANGED <<leaves, checkpoint>>
      BY <3>5
    <3> QED
      BY <3>1, <3>2, <3>3, <3>4, <3>5
      DEF SerialStep, Begin, WriteConfig, InitSnapshot, InitTimestamp, WriteRoot, ReuseArtifact,
          MissArtifact, OpenArtifact, FillArtifact, PassDuplicateCheck, AppendRecord, CountLeaves,
          Collect, SignTargets, WriteTargets, SignCheckpoint, WriteSnapshot, WriteTimestamp, Fail, files,
          trustFiles
  <2> QED
    BY <1>2, <2>1, <2>2 DEF Progress
<1> QED
  BY SerialInvariant, <1>1, <1>2, PTL DEF Spec, ImplementsLog, Log!Spec
=============================================================================
