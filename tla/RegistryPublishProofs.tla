------------------------ MODULE RegistryPublishProofs ------------------------
(***************************************************************************)
(* Proofs about RegistryPublish, for every set of publishers, archives,    *)
(* packages and namespaces.                                                *)
(***************************************************************************)
EXTENDS RegistryPublishInvariant, SequenceTheorems, TLAPS

-----------------------------------------------------------------------------
(***************************************************************************)
(* Lemmas about sequences and the constant files.                          *)
(***************************************************************************)

LEMMA FunctionIsSeq ==
  ASSUME NEW S, NEW n \in Nat, NEW f \in [1 .. n -> S]
  PROVE  f \in Seq(S) /\ Len(f) = n
<1>1. f \in Seq(S)
  BY SeqDef
<1>2. 1 .. Len(f) = 1 .. n /\ Len(f) \in Nat
  BY <1>1, LenProperties
<1> QED
  BY <1>1, <1>2

\* Writing position k of a sequence, or the position after its last, gives a
\* sequence that has the new element there and the old ones elsewhere.
LEMMA PutInSequence ==
  ASSUME NEW s \in Seq(Archives), NEW e \in Archives, NEW k \in 1 .. Len(s) + 1
  PROVE  /\ Put(s, k, e) \in Seq(Archives)
         /\ DOMAIN Put(s, k, e) = DOMAIN s \cup {k}
         /\ Put(s, k, e)[k] = e
         /\ \A i \in DOMAIN s : i # k => Put(s, k, e)[i] = s[i]
         /\ Len(Put(s, k, e)) = IF k = Len(s) + 1 THEN Len(s) + 1 ELSE Len(s)
<1>1. PICK t : t = Put(s, k, e)
  OBVIOUS
<1>2. /\ DOMAIN t = DOMAIN s \cup {k}
      /\ t[k] = e
      /\ \A i \in DOMAIN s : i # k => t[i] = s[i]
  BY <1>1 DEF Put
<1>3. CASE k = Len(s) + 1
  <2>1. DOMAIN s \cup {k} = 1 .. Len(s) + 1
    BY <1>3
  <2>2. t \in [1 .. Len(s) + 1 -> Archives]
    BY <1>1, <2>1 DEF Put
  <2>3. t \in Seq(Archives) /\ Len(t) = Len(s) + 1
    BY <2>2, FunctionIsSeq
  <2> QED
    BY <1>1, <1>2, <1>3, <2>3
<1>4. CASE k # Len(s) + 1
  <2>1. DOMAIN s \cup {k} = 1 .. Len(s)
    BY <1>4
  <2>2. t \in [1 .. Len(s) -> Archives]
    BY <1>1, <2>1 DEF Put
  <2>3. t \in Seq(Archives) /\ Len(t) = Len(s)
    BY <2>2, FunctionIsSeq
  <2> QED
    BY <1>1, <1>2, <1>4, <2>3
<1> QED
  BY <1>3, <1>4

\* Appending keeps the old sequence as a prefix.
LEMMA AppendExtends ==
  ASSUME NEW S, NEW s \in Seq(S), NEW e \in S
  PROVE  /\ Append(s, e) \in Seq(S)
         /\ Len(Append(s, e)) = Len(s) + 1
         /\ \A i \in DOMAIN s : Append(s, e)[i] = s[i]
         /\ Append(s, e)[Len(s) + 1] = e
         /\ DOMAIN Append(s, e) = DOMAIN s \cup {Len(s) + 1}
         /\ ToSet(Append(s, e)) = ToSet(s) \cup {e}
         /\ IsPrefix(s, Append(s, e))
<1> DEFINE t == Append(s, e)
<1>1. t \in Seq(S) /\ Len(t) = Len(s) + 1 /\ t[Len(s) + 1] = e
  OBVIOUS
<1>2. \A i \in DOMAIN s : t[i] = s[i]
  OBVIOUS
<1>3. DOMAIN t = DOMAIN s \cup {Len(s) + 1}
  BY <1>1
<1>4. ToSet(t) = ToSet(s) \cup {e}
  BY <1>1, <1>2, <1>3 DEF ToSet
<1>5. IsPrefix(s, t)
  BY <1>1, <1>2 DEF IsPrefix
<1> QED
  BY <1>1, <1>2, <1>3, <1>4, <1>5

LEMMA PrefixReflexive ==
  ASSUME NEW S, NEW s \in Seq(S)
  PROVE  IsPrefix(s, s)
  BY DEF IsPrefix

LEMMA PrefixElements ==
  ASSUME NEW S, NEW s \in Seq(S), NEW t \in Seq(S), IsPrefix(s, t)
  PROVE  ToSet(s) \subseteq ToSet(t)
  BY DEF IsPrefix, ToSet

LEMMA EmptyFilesTyped ==
  /\ NoArchive \in Archives
  /\ NoIndex \in IndexFiles
  /\ NoTargets \in [Namespaces -> Targets]
  /\ NoCheckpoint \in Checkpoint
  /\ NoSnapshot \in Snapshot
  /\ NoTimestamp \in Timestamp
  /\ FreshCheckpoint \in Checkpoint
  /\ FreshSnapshot \in Snapshot
  /\ FreshTimestamp \in Timestamp
<1>1. NoArchive \in Archives
  BY PublishAssumption DEF NoArchive
<1>2. NoIndex \in IndexFiles
  BY EmptySeq DEF NoIndex, IndexFiles
<1>3. NoTargets \in [Namespaces -> Targets]
  BY DEF NoTargets, Targets
<1>4. NoCheckpoint \in Checkpoint /\ FreshCheckpoint \in Checkpoint
  BY EmptySeq DEF NoCheckpoint, FreshCheckpoint, Checkpoint
<1>5. NoSnapshot \in Snapshot /\ FreshSnapshot \in Snapshot
  BY <1>2, <1>3, <1>4 DEF NoSnapshot, FreshSnapshot, Snapshot
<1>6. NoTimestamp \in Timestamp /\ FreshTimestamp \in Timestamp
  BY <1>5 DEF NoTimestamp, FreshTimestamp, Timestamp
<1> QED
  BY <1>1, <1>2, <1>3, <1>4, <1>5, <1>6

LEMMA ReleasesAreArchives ==
  ASSUME NEW n \in Namespaces, NEW idx \in IndexFiles
  PROVE  ReleasesOf(n, idx) \subseteq Archives
<1> SUFFICES ASSUME NEW a \in ReleasesOf(n, idx)
             PROVE  a \in Archives
  OBVIOUS
<1>1. PICK q \in Packages : a \in LastRecords(idx[q])
  BY DEF ReleasesOf
<1>2. idx[q] \in Seq(Archives)
  BY DEF IndexFiles
<1>3. PICK i \in DOMAIN idx[q] : a = idx[q][i]
  BY <1>1 DEF LastRecords
<1> QED
  BY <1>2, <1>3
-----------------------------------------------------------------------------
(***************************************************************************)
(* Type correctness, for any number of racing publishers.                  *)
(***************************************************************************)
Typing == TypeOK /\ DraftDefined /\ SequenceInRange

LEMMA TypingInit == Init => Typing
<1> SUFFICES ASSUME Init PROVE Typing
  OBVIOUS
<1>1. << >> \in Seq(Archives)
  BY EmptySeq
<1>2. \A p \in Publishers : pc[p] = "idle"
  BY DEF Init
<1>3. /\ pc \in [Publishers -> Steps]
      /\ DraftDefined
      /\ artifact \in [Archives -> {"absent", "partial", "whole"}]
      /\ sequence \in [Publishers -> Nat]
  BY DEF Init, Steps, DraftDefined
<1> QED
  BY <1>1, <1>2, <1>3, EmptyFilesTyped DEF Init, Typing, TypeOK, SequenceInRange

\* The end of a publish keeps the types, whatever it did to the timestamp.
LEMMA ReturnTyping ==
  ASSUME Typing, NEW p \in Publishers, Return(p),
         timestamp' \in Timestamp, acked' \subseteq Archives,
         UNCHANGED <<config, root, artifact, index, leaves, checkpoint, targets, snapshot>>
  PROVE  Typing'
  BY EmptyFilesTyped
  DEF Return, Typing, TypeOK, DraftDefined, SequenceInRange, Steps

LEMMA FailTyping ==
  ASSUME Typing, NEW p \in Publishers, Fail(p)
  PROVE  Typing'
  BY ReturnTyping DEF Fail, Typing, TypeOK, files, trustFiles

LEMMA TypingStep ==
  ASSUME Typing, [Next]_vars
  PROVE  Typing'
<1> USE DEF Typing, TypeOK, DraftDefined, SequenceInRange
<1>1. CASE UNCHANGED vars
  BY <1>1 DEF vars, files, trustFiles, locals
<1>2. ASSUME NEW p \in Publishers, NEW a \in Archives, Begin(p, a)
      PROVE  Typing'
  BY <1>2 DEF Begin, files, trustFiles, Steps
<1>3. ASSUME NEW p \in Publishers, WriteConfig(p)
      PROVE  Typing'
  BY <1>3 DEF WriteConfig, Goto, trustFiles, locals, Steps
<1>4. ASSUME NEW p \in Publishers, InitCheckpoint(p)
      PROVE  Typing'
  BY <1>4, EmptyFilesTyped DEF InitCheckpoint, Goto, locals, Steps
<1>5. ASSUME NEW p \in Publishers, InitSnapshot(p)
      PROVE  Typing'
  BY <1>5, EmptyFilesTyped DEF InitSnapshot, Goto, locals, Steps
<1>6. ASSUME NEW p \in Publishers, InitTimestamp(p)
      PROVE  Typing'
  BY <1>6, EmptyFilesTyped DEF InitTimestamp, Goto, locals, Steps
<1>7. ASSUME NEW p \in Publishers, WriteRoot(p)
      PROVE  Typing'
  BY <1>7 DEF WriteRoot, Goto, trustFiles, locals, Steps
<1>8. ASSUME NEW p \in Publishers,
             ReuseArtifact(p) \/ MissArtifact(p) \/ PassDuplicateCheck(p)
      PROVE  Typing'
  BY <1>8 DEF ReuseArtifact, MissArtifact, PassDuplicateCheck, Goto, files, trustFiles,
              locals, Steps
<1>9. ASSUME NEW p \in Publishers,
             RefuseArtifact(p) \/ RefuseDuplicate(p) \/ Abort(p)
      PROVE  Typing'
  BY <1>9, FailTyping DEF RefuseArtifact, RefuseDuplicate, Abort
<1>10. ASSUME NEW p \in Publishers, OpenArtifact(p)
       PROVE  Typing'
  BY <1>10 DEF OpenArtifact, Goto, trustFiles, locals, Steps
<1>11. ASSUME NEW p \in Publishers, FillArtifact(p)
       PROVE  Typing'
  BY <1>11 DEF FillArtifact, Goto, trustFiles, locals, Steps
<1>12. ASSUME NEW p \in Publishers, AppendRecord(p)
       PROVE  Typing'
  <2>1. index' \in IndexFiles
    <3>1. PackageOf[archive[p]] \in Packages /\ archive[p] \in Archives
      BY PublishAssumption
    <3>2. index[PackageOf[archive[p]]] \in Seq(Archives)
      BY <3>1 DEF IndexFiles
    <3>3. Append(index[PackageOf[archive[p]]], archive[p]) \in Seq(Archives)
      BY <3>1, <3>2, AppendProperties
    <3> QED
      BY <1>12, <3>3 DEF AppendRecord, IndexFiles
  <2> QED
    BY <1>12, <2>1 DEF AppendRecord, Goto, trustFiles, locals, Steps
<1>13. ASSUME NEW p \in Publishers, WriteLeaf(p)
       PROVE  Typing'
  <2>1. /\ sequence[p] \in 1 .. Len(leaves) + 1
        /\ archive[p] \in Archives
        /\ leaves \in Seq(Archives) /\ Len(leaves) \in Nat
    BY <1>13 DEF WriteLeaf, Goto
  <2>2. leaves' \in Seq(Archives) /\ Len(leaves') >= Len(leaves)
    <3>1. leaves' = Put(leaves, sequence[p], archive[p])
      BY <1>13 DEF WriteLeaf
    <3> HIDE DEF Typing, TypeOK, DraftDefined, SequenceInRange
    <3>2. /\ leaves' \in Seq(Archives)
          /\ Len(leaves') = IF sequence[p] = Len(leaves) + 1 THEN Len(leaves) + 1 ELSE Len(leaves)
      BY <2>1, <3>1, PutInSequence
    <3> QED
      BY <2>1, <3>2
  <2>3. Len(leaves) \in Nat /\ Len(leaves') \in Nat
    BY <2>2
  <2> QED
    BY <1>13, <2>2, <2>3 DEF WriteLeaf, Goto, trustFiles, locals, Steps
<1>14. ASSUME NEW p \in Publishers, NEW n \in Namespaces, SignTargets(p, n)
       PROVE  Typing'
  <2>1. ReleasesOf(n, seen[p]) \subseteq Archives
    BY ReleasesAreArchives
  <2>2. draft'[p] \in Targets
    BY <1>14, <2>1 DEF SignTargets, Targets
  <2> QED
    BY <1>14, <2>2 DEF SignTargets, Goto, files, trustFiles, Steps
<1>15. ASSUME NEW p \in Publishers, WriteTargets(p)
       PROVE  Typing'
  <2>1. draft[p] \in Targets /\ draft[p].namespace \in Namespaces
    BY <1>15 DEF WriteTargets, Goto, Targets
  <2> QED
    BY <1>15, <2>1 DEF WriteTargets, Goto, Steps
<1>16. ASSUME NEW p \in Publishers, SignCheckpoint(p)
       PROVE  Typing'
  <2>1. draft'[p] \in Checkpoint
    BY <1>16 DEF SignCheckpoint, Checkpoint
  <2> QED
    BY <1>16, <2>1 DEF SignCheckpoint, Goto, files, trustFiles, Steps
<1>17. ASSUME NEW p \in Publishers, WriteCheckpoint(p)
       PROVE  Typing'
  <2>1. draft'[p] \in Snapshot
    BY <1>17 DEF WriteCheckpoint, Goto, Snapshot
  <2> QED
    BY <1>17, <2>1 DEF WriteCheckpoint, Goto, Steps
<1>18. ASSUME NEW p \in Publishers, WriteSnapshot(p)
       PROVE  Typing'
  <2>1. draft'[p] \in Timestamp
    BY <1>18 DEF WriteSnapshot, Goto, Timestamp
  <2> QED
    BY <1>18, <2>1 DEF WriteSnapshot, Goto, Steps
<1>19. ASSUME NEW p \in Publishers, WriteTimestamp(p)
       PROVE  Typing'
  BY <1>19, ReturnTyping DEF WriteTimestamp
<1>20. ASSUME NEW p \in Publishers, Collect(p)
       PROVE  Typing'
  BY <1>20 DEF Collect, Goto, files, trustFiles, Steps
<1>21. ASSUME NEW p \in Publishers, CountLeaves(p)
       PROVE  Typing'
  <2>1. Len(leaves) \in Nat
    OBVIOUS
  <2> QED
    BY <1>21, <2>1 DEF CountLeaves, Goto, files, trustFiles, Steps
<1>22. ASSUME NEW p \in Publishers, NEW q \in Packages, ReadLater(p, q)
       PROVE  Typing'
  <2>1. seen' \in [Publishers -> IndexFiles]
    BY <1>22 DEF ReadLater, IndexFiles
  <2> QED
    BY <1>22, <2>1 DEF ReadLater, files, trustFiles
<1> QED
  BY <1>1, <1>2, <1>3, <1>4, <1>5, <1>6, <1>7, <1>8, <1>9, <1>10, <1>11, <1>12, <1>13,
     <1>14, <1>15, <1>16, <1>17, <1>18, <1>19, <1>20, <1>21, <1>22 DEF Next

\* The types hold in every state; the leaves are numbered without a gap even when
\* publishers race.
THEOREM PublishTyping == Spec => []TypeOK
<1>1. Typing /\ [Next]_vars => Typing'
  BY TypingStep
<1>2. Typing => TypeOK
  BY DEF Typing
<1> QED
  BY TypingInit, <1>1, <1>2, PTL DEF Spec

-----------------------------------------------------------------------------
(***************************************************************************)
(* What is logged or signed has been indexed, and an index only grows, for *)
(* any number of racing publishers.                                        *)
(***************************************************************************)
LEMMA RecordInit == Init => RecordInv
<1> SUFFICES ASSUME Init PROVE RecordInv
  OBVIOUS
<1>1. Typing
  BY TypingInit
<1>2. \A p \in Publishers : pc[p] = "idle" /\ seen[p] = NoIndex
  BY DEF Init
<1>3. \A q \in Packages : NoIndex[q] = << >>
  BY DEF NoIndex
<1>4. \A n \in Namespaces : NoTargets[n].releases = {}
  BY DEF NoTargets
<1>5. IndexIsPerPackage /\ LeafIsIndexed
  BY <1>2, <1>3 DEF Init, IndexIsPerPackage, LeafIsIndexed
<1>6. SeenIsIndexed /\ TargetsAreIndexed
  BY <1>2, <1>3, <1>4 DEF Init, SeenIsIndexed, TargetsAreIndexed
<1> QED
  BY <1>1, <1>5, <1>6 DEF Typing, RecordInv

\* A step that leaves the index, the log and the targets files alone, and starts
\* neither a leaf nor a targets file.
LEMMA RecordKept ==
  ASSUME RecordInv, Typing',
         UNCHANGED <<index, leaves, targets>>,
         \A p \in Publishers :
           /\ pc'[p] \in {"count", "leaf"} =>
                pc[p] \in {"count", "leaf"} /\ archive'[p] = archive[p]
           /\ pc'[p] = "writeTargets" => pc[p] = "writeTargets" /\ draft'[p] = draft[p]
           /\ seen'[p] \in {seen[p], NoIndex} \/ \A q \in Packages : seen'[p][q] \in {seen[p][q], index[q]}
  PROVE  RecordInv'
<1> USE DEF RecordInv
<1>1. IndexIsPerPackage'
  BY DEF IndexIsPerPackage
<1>2. LeafIsIndexed'
  BY DEF LeafIsIndexed, IsIndexed
<1>3. TargetsAreIndexed'
  BY DEF TargetsAreIndexed, IsIndexed
<1>4. SeenIsIndexed'
  <2> SUFFICES ASSUME NEW p \in Publishers, NEW q \in Packages, NEW i \in DOMAIN seen'[p][q]
               PROVE  /\ PackageOf[seen'[p][q][i]] = q
                      /\ seen'[p][q][i] \in ToSet(index[q])
    BY DEF SeenIsIndexed
  <2>1. CASE seen'[p] = seen[p]
    BY <2>1 DEF SeenIsIndexed
  <2>2. CASE seen'[p] = NoIndex
    BY <2>2 DEF NoIndex
  <2>3. CASE seen'[p][q] \in {seen[p][q], index[q]}
    BY <2>3 DEF SeenIsIndexed, IndexIsPerPackage, ToSet
  <2> QED
    BY <2>1, <2>2, <2>3
<1> QED
  BY <1>1, <1>2, <1>3, <1>4 DEF Typing

LEMMA IndexExtends ==
  ASSUME RecordInv, NEW p \in Publishers, AppendRecord(p)
  PROVE  /\ PackageOf[archive[p]] \in Packages
         /\ \A q \in Packages : q # PackageOf[archive[p]] => index'[q] = index[q]
         /\ index'[PackageOf[archive[p]]] = Append(index[PackageOf[archive[p]]], archive[p])
         /\ \A q \in Packages : ToSet(index[q]) \subseteq ToSet(index'[q])
         /\ \A q \in Packages : IsPrefix(index[q], index'[q])
         /\ archive[p] \in ToSet(index'[PackageOf[archive[p]]])
<1> DEFINE own == PackageOf[archive[p]]
<1>1. archive[p] \in Archives /\ own \in Packages
  BY PublishAssumption DEF RecordInv, TypeOK
<1>2. index \in [Packages -> Seq(Archives)]
  BY DEF RecordInv, TypeOK, IndexFiles
<1>3. index' = [index EXCEPT ![own] = Append(@, archive[p])]
  BY DEF AppendRecord
<1>4. /\ ToSet(Append(index[own], archive[p])) = ToSet(index[own]) \cup {archive[p]}
      /\ IsPrefix(index[own], Append(index[own], archive[p]))
  BY <1>1, <1>2, AppendExtends
<1>5. \A q \in Packages : IsPrefix(index[q], index[q])
  BY <1>2, PrefixReflexive
<1> QED
  BY <1>1, <1>2, <1>3, <1>4, <1>5

LEMMA ReleasesAreIndexed ==
  ASSUME RecordInv, NEW p \in Publishers, NEW n \in Namespaces,
         NEW a \in ReleasesOf(n, seen[p])
  PROVE  IsIndexed(a)
<1>1. PICK q \in Packages : a \in LastRecords(seen[p][q])
  BY DEF ReleasesOf
<1>2. PICK i \in DOMAIN seen[p][q] : a = seen[p][q][i]
  BY <1>1 DEF LastRecords
<1> QED
  BY <1>2 DEF RecordInv, SeenIsIndexed, IsIndexed

LEMMA RecordStep ==
  ASSUME RecordInv, [Next]_vars
  PROVE  RecordInv'
<1>0. Typing /\ Typing'
  BY TypingStep DEF RecordInv, Typing
<1>t. TypeOK /\ DraftDefined
  BY DEF RecordInv
<1>1. CASE UNCHANGED vars
  BY <1>0, <1>1, RecordKept DEF vars, files, trustFiles, locals
<1>2. ASSUME NEW p \in Publishers, NEW a \in Archives, Begin(p, a)
      PROVE  RecordInv'
  BY <1>0, <1>t, <1>2, RecordKept DEF Begin, files, trustFiles, TypeOK, DraftDefined
<1>3. ASSUME NEW p \in Publishers,
             \/ WriteConfig(p) \/ InitCheckpoint(p) \/ InitSnapshot(p)
             \/ InitTimestamp(p) \/ WriteRoot(p)
      PROVE  RecordInv'
  BY <1>0, <1>t, <1>3, RecordKept
  DEF WriteConfig, InitCheckpoint, InitSnapshot, InitTimestamp, WriteRoot, Goto,
      trustFiles, locals, TypeOK, DraftDefined
<1>4. ASSUME NEW p \in Publishers,
             \/ ReuseArtifact(p) \/ MissArtifact(p) \/ OpenArtifact(p)
             \/ FillArtifact(p) \/ PassDuplicateCheck(p)
      PROVE  RecordInv'
  BY <1>0, <1>t, <1>4, RecordKept
  DEF ReuseArtifact, MissArtifact, OpenArtifact, FillArtifact, PassDuplicateCheck, Goto,
      files, trustFiles, locals, TypeOK, DraftDefined
<1>5. ASSUME NEW p \in Publishers,
             \/ RefuseArtifact(p) \/ RefuseDuplicate(p) \/ Abort(p) \/ WriteTimestamp(p)
      PROVE  RecordInv'
  BY <1>0, <1>t, <1>5, RecordKept
  DEF RefuseArtifact, RefuseDuplicate, Abort, WriteTimestamp, Fail, Return, files,
      trustFiles, TypeOK, DraftDefined
<1>6. ASSUME NEW p \in Publishers, AppendRecord(p)
      PROVE  RecordInv'
  <2>1. \A a : IsIndexed(a) /\ a \in Archives => IsIndexed(a)'
    BY <1>6, IndexExtends, PublishAssumption DEF IsIndexed
  <2>2. IndexIsPerPackage'
    <3> SUFFICES ASSUME NEW q \in Packages, NEW i \in DOMAIN index'[q]
                 PROVE  PackageOf[index'[q][i]] = q
      BY DEF IndexIsPerPackage
    <3>1. CASE q # PackageOf[archive[p]]
      BY <1>6, <3>1, IndexExtends DEF RecordInv, IndexIsPerPackage
    <3>2. CASE q = PackageOf[archive[p]]
      <4>1. index[q] \in Seq(Archives) /\ archive[p] \in Archives
        BY <1>t DEF TypeOK, IndexFiles
      <4>2. index'[q] = Append(index[q], archive[p])
        BY <1>6, <3>2, IndexExtends
      <4> QED
        BY <3>2, <4>1, <4>2, AppendExtends DEF RecordInv, IndexIsPerPackage
    <3> QED
      BY <3>1, <3>2
  <2>3. LeafIsIndexed'
    <3>1. \A i \in DOMAIN leaves : IsIndexed(leaves[i])'
      <4>1. \A i \in DOMAIN leaves : leaves[i] \in Archives
        BY <1>t DEF TypeOK
      <4> QED
        BY <1>6, <2>1, <4>1 DEF RecordInv, LeafIsIndexed, AppendRecord
    <3>2. IsIndexed(archive[p])'
      BY <1>6, IndexExtends DEF AppendRecord, IsIndexed, locals
    <3>3. \A r \in Publishers : r # p => pc'[r] = pc[r]
      BY <1>6, <1>t DEF AppendRecord, Goto, TypeOK
    <3>4. \A r \in Publishers : archive[r] \in Archives
      BY <1>t DEF TypeOK
    <3> QED
      BY <1>6, <2>1, <3>1, <3>2, <3>3, <3>4 DEF RecordInv, LeafIsIndexed, AppendRecord, IsIndexed,
         locals
  <2>4. SeenIsIndexed'
    <3>1. seen' = seen /\ \A q \in Packages : ToSet(index[q]) \subseteq ToSet(index'[q])
      BY <1>6, IndexExtends DEF AppendRecord, locals
    <3> QED
      BY <3>1 DEF RecordInv, SeenIsIndexed
  <2>5. TargetsAreIndexed'
    <3>1. \A n \in Namespaces : targets[n].releases \subseteq Archives
      BY <1>t DEF TypeOK, Targets
    <3>2. \A r \in Publishers : pc'[r] = "writeTargets" =>
            pc[r] = "writeTargets" /\ draft[r].releases \subseteq Archives
      BY <1>6, <1>t DEF AppendRecord, Goto, locals, TypeOK, Targets
    <3>3. targets' = targets /\ draft' = draft
      BY <1>6 DEF AppendRecord, trustFiles, locals
    <3> QED
      BY <2>1, <3>1, <3>2, <3>3 DEF RecordInv, TargetsAreIndexed
  <2> QED
    BY <1>0, <2>2, <2>3, <2>4, <2>5 DEF RecordInv, Typing
<1>7. ASSUME NEW p \in Publishers, WriteLeaf(p)
      PROVE  RecordInv'
  <2>1. /\ pc[p] = "leaf"
        /\ leaves' = Put(leaves, sequence[p], archive[p])
        /\ UNCHANGED <<index, targets, seen, draft, archive>>
        /\ \A r \in Publishers : pc'[r] \in {pc[r], "collect"}
    BY <1>7, <1>t DEF WriteLeaf, Goto, trustFiles, locals, TypeOK
  <2>2. LeafIsIndexed'
    <3>1. IsIndexed(archive[p])
      BY <2>1 DEF RecordInv, LeafIsIndexed
    <3>2. \A i \in DOMAIN leaves' : leaves'[i] = archive[p] \/ (i \in DOMAIN leaves /\ leaves'[i] = leaves[i])
      BY <2>1 DEF Put
    <3> QED
      BY <2>1, <3>1, <3>2 DEF RecordInv, LeafIsIndexed, IsIndexed
  <2>3. TargetsAreIndexed'
    BY <2>1 DEF RecordInv, TargetsAreIndexed, IsIndexed
  <2>4. IndexIsPerPackage' /\ SeenIsIndexed'
    BY <2>1 DEF RecordInv, IndexIsPerPackage, SeenIsIndexed
  <2> QED
    BY <1>0, <2>2, <2>3, <2>4 DEF RecordInv, Typing
<1>8. ASSUME NEW p \in Publishers, Collect(p)
      PROVE  RecordInv'
  <2>1. \A r \in Publishers : seen'[r] \in {seen[r], NoIndex}
                             \/ \A q \in Packages : seen'[r][q] \in {seen[r][q], index[q]}
    BY <1>t, <1>8 DEF Collect, TypeOK
  <2> QED
    BY <1>0, <1>t, <1>8, <2>1, RecordKept DEF Collect, Goto, files, trustFiles, TypeOK, DraftDefined
<1>9. ASSUME NEW p \in Publishers, NEW n \in Namespaces, SignTargets(p, n)
      PROVE  RecordInv'
  <2>1. /\ UNCHANGED <<index, leaves, targets, seen, archive>>
        /\ draft'[p].releases = ReleasesOf(n, seen[p])
        /\ \A r \in Publishers : r # p => pc'[r] = pc[r] /\ draft'[r] = draft[r]
        /\ pc'[p] = "writeTargets"
    BY <1>9, <1>t DEF SignTargets, Goto, files, trustFiles, TypeOK, DraftDefined
  <2>2. TargetsAreIndexed'
    BY <2>1, ReleasesAreIndexed DEF RecordInv, TargetsAreIndexed, IsIndexed
  <2>3. LeafIsIndexed'
    BY <2>1 DEF RecordInv, LeafIsIndexed, IsIndexed
  <2>4. IndexIsPerPackage' /\ SeenIsIndexed'
    BY <2>1 DEF RecordInv, IndexIsPerPackage, SeenIsIndexed
  <2> QED
    BY <1>0, <2>2, <2>3, <2>4 DEF RecordInv, Typing
<1>10. ASSUME NEW p \in Publishers, WriteTargets(p)
       PROVE  RecordInv'
  <2>1. /\ UNCHANGED <<index, leaves, seen, archive>>
        /\ pc[p] = "writeTargets"
        /\ \A n \in Namespaces : targets'[n] \in {targets[n], draft[p]}
        /\ \A r \in Publishers : r # p => pc'[r] = pc[r] /\ draft'[r] = draft[r]
        /\ pc'[p] = "targets"
    BY <1>10, <1>t DEF WriteTargets, Goto, TypeOK, DraftDefined
  <2>2. TargetsAreIndexed'
    BY <2>1 DEF RecordInv, TargetsAreIndexed, IsIndexed
  <2>3. LeafIsIndexed'
    BY <2>1 DEF RecordInv, LeafIsIndexed, IsIndexed
  <2>4. IndexIsPerPackage' /\ SeenIsIndexed'
    BY <2>1 DEF RecordInv, IndexIsPerPackage, SeenIsIndexed
  <2> QED
    BY <1>0, <2>2, <2>3, <2>4 DEF RecordInv, Typing
<1>11. ASSUME NEW p \in Publishers,
              SignCheckpoint(p) \/ WriteCheckpoint(p) \/ WriteSnapshot(p)
       PROVE  RecordInv'
  BY <1>0, <1>t, <1>11, RecordKept
  DEF SignCheckpoint, WriteCheckpoint, WriteSnapshot, Goto, files, trustFiles, TypeOK, DraftDefined
<1>12. ASSUME NEW p \in Publishers, CountLeaves(p)
       PROVE  RecordInv'
  BY <1>0, <1>t, <1>12, RecordKept DEF CountLeaves, Goto, files, trustFiles, TypeOK
<1>13. ASSUME NEW p \in Publishers, NEW q \in Packages, ReadLater(p, q)
       PROVE  RecordInv'
  <2>1. \A r \in Publishers : seen'[r] \in {seen[r], NoIndex}
                             \/ \A k \in Packages : seen'[r][k] \in {seen[r][k], index[k]}
    BY <1>t, <1>13 DEF ReadLater, TypeOK, IndexFiles
  <2> QED
    BY <1>0, <1>t, <1>13, <2>1, RecordKept DEF ReadLater, files, trustFiles
<1> QED
  BY <1>1, <1>2, <1>3, <1>4, <1>5, <1>6, <1>7, <1>8, <1>9, <1>10, <1>11, <1>12, <1>13 DEF Next

\* Whatever is in the log or in a targets file is a record of the index, however
\* many publishers race or fail.
THEOREM LoggedAndSignedIndexed == Spec => []LoggedAndSignedAreIndexed
<1>1. RecordInv /\ [Next]_vars => RecordInv'
  BY RecordStep
<1>2. RecordInv => LoggedAndSignedAreIndexed
  BY DEF RecordInv, LeafIsIndexed, TargetsAreIndexed, LoggedAndSignedAreIndexed,
         Signed, ToSet, IsIndexed
<1> QED
  BY RecordInit, <1>1, <1>2, PTL DEF Spec

\* No publisher, racing or failing, loses or rewrites an index record.
THEOREM IndexOnlyGrows == Spec => IndexAppendOnly
<1>1. RecordInv /\ [Next]_vars => RecordInv'
  BY RecordStep
<1>2. ASSUME RecordInv, [Next]_vars
      PROVE  [\A q \in Packages : IsPrefix(index[q], index'[q])]_index
  <2>1. CASE \E p \in Publishers : AppendRecord(p)
    BY <1>2, <2>1, IndexExtends
  <2>2. CASE \A p \in Publishers : ~AppendRecord(p)
    BY <1>2, <2>2 DEF Next, vars, Begin, WriteConfig, InitCheckpoint, InitSnapshot, InitTimestamp,
       WriteRoot, ReuseArtifact, RefuseArtifact, MissArtifact, OpenArtifact, FillArtifact,
       PassDuplicateCheck, RefuseDuplicate, CountLeaves, WriteLeaf, Collect, ReadLater, SignTargets, WriteTargets,
       SignCheckpoint, WriteCheckpoint, WriteSnapshot, WriteTimestamp, Abort, Fail, files
  <2> QED
    BY <2>1, <2>2
<1> QED
  BY RecordInit, <1>1, <1>2, PTL DEF Spec, IndexAppendOnly

\* The leaves are numbered from 1 without a gap, in every state.
THEOREM LeavesNeverGap == Spec => []LeavesContiguous
<1>1. TypeOK => LeavesContiguous
  <2> SUFFICES ASSUME TypeOK, NEW k \in DOMAIN leaves, NEW i \in 1 .. k
               PROVE  i \in DOMAIN leaves
    BY DEF LeavesContiguous
  <2>1. DOMAIN leaves = 1 .. Len(leaves) /\ Len(leaves) \in Nat
    BY DEF TypeOK
  <2> QED
    BY <2>1
<1> QED
  BY PublishTyping, <1>1, PTL
-----------------------------------------------------------------------------
(***************************************************************************)
(* A root that has its root metadata has all its files, for any number of  *)
(* racing publishers.                                                      *)
(***************************************************************************)
LEMMA CompleteInit == Init => CompleteInv
<1> SUFFICES ASSUME Init PROVE CompleteInv
  OBVIOUS
<1>1. TypeOK
  BY TypingInit DEF Typing
<1>2. \A p \in Publishers : pc[p] = "idle"
  BY DEF Init
<1> QED
  BY <1>1, <1>2 DEF Init, CompleteInv, InitialisedRootIsComplete

\* A step that does not touch the initial files.
LEMMA CompleteKept ==
  ASSUME CompleteInv, TypeOK',
         UNCHANGED <<config, root, checkpoint, snapshot, timestamp>>,
         \A p \in Publishers :
           \/ pc'[p] = "idle"
           \/ pc'[p] = pc[p] /\ draft'[p] = draft[p]
           \/ /\ pc'[p] \notin {"initSnapshot", "initTimestamp", "root"}
              /\ pc'[p] # "config" => config
              /\ pc'[p] \notin {"writeCheckpoint", "writeSnapshot", "writeTimestamp"}
  PROVE  CompleteInv'
<1>1. InitialisedRootIsComplete'
  BY DEF CompleteInv, InitialisedRootIsComplete
<1> QED
  BY <1>1 DEF CompleteInv

LEMMA CompleteStep ==
  ASSUME CompleteInv, TypeOK, DraftDefined, TypeOK', [Next]_vars
  PROVE  CompleteInv'
<1>1. CASE UNCHANGED vars
  BY <1>1, CompleteKept DEF vars, files, trustFiles, locals
<1>2. ASSUME NEW p \in Publishers, NEW a \in Archives, Begin(p, a)
      PROVE  CompleteInv'
  BY <1>2, CompleteKept DEF Begin, files, trustFiles, TypeOK
<1>3. ASSUME NEW p \in Publishers, WriteConfig(p)
      PROVE  CompleteInv'
  BY <1>3 DEF WriteConfig, Goto, trustFiles, locals, TypeOK, CompleteInv, InitialisedRootIsComplete
<1>4. ASSUME NEW p \in Publishers, InitCheckpoint(p)
      PROVE  CompleteInv'
  BY <1>4 DEF InitCheckpoint, Goto, locals, TypeOK, CompleteInv, InitialisedRootIsComplete,
     FreshCheckpoint, NoCheckpoint
<1>5. ASSUME NEW p \in Publishers, InitSnapshot(p)
      PROVE  CompleteInv'
  BY <1>5 DEF InitSnapshot, Goto, locals, TypeOK, CompleteInv, InitialisedRootIsComplete,
     FreshSnapshot, NoSnapshot
<1>6. ASSUME NEW p \in Publishers, InitTimestamp(p)
      PROVE  CompleteInv'
  BY <1>6 DEF InitTimestamp, Goto, locals, TypeOK, CompleteInv, InitialisedRootIsComplete,
     FreshTimestamp
<1>7. ASSUME NEW p \in Publishers, WriteRoot(p)
      PROVE  CompleteInv'
  BY <1>7 DEF WriteRoot, Goto, trustFiles, locals, TypeOK, CompleteInv, InitialisedRootIsComplete
<1>8. ASSUME NEW p \in Publishers,
             \/ ReuseArtifact(p) \/ MissArtifact(p) \/ OpenArtifact(p) \/ FillArtifact(p)
             \/ PassDuplicateCheck(p) \/ AppendRecord(p) \/ CountLeaves(p) \/ WriteLeaf(p)
             \/ Collect(p)
      PROVE  CompleteInv'
  <2>1. config
    BY <1>8 DEF CompleteInv, ReuseArtifact, MissArtifact, OpenArtifact, FillArtifact,
       PassDuplicateCheck, AppendRecord, CountLeaves, WriteLeaf, Collect, Goto
  <2> QED
    BY <1>8, <2>1, CompleteKept DEF ReuseArtifact, MissArtifact, OpenArtifact, FillArtifact,
       PassDuplicateCheck, AppendRecord, CountLeaves, WriteLeaf, Collect, Goto, files, trustFiles,
       locals, TypeOK
<1>9. ASSUME NEW p \in Publishers, RefuseArtifact(p) \/ RefuseDuplicate(p) \/ Abort(p)
      PROVE  CompleteInv'
  BY <1>9, CompleteKept
  DEF RefuseArtifact, RefuseDuplicate, Abort, Fail, Return, files, trustFiles, TypeOK, DraftDefined
<1>10. ASSUME NEW p \in Publishers, NEW n \in Namespaces, SignTargets(p, n)
       PROVE  CompleteInv'
  <2>1. config
    BY <1>10 DEF CompleteInv, SignTargets, Goto
  <2> QED
    BY <1>10, <2>1, CompleteKept DEF SignTargets, Goto, files, trustFiles, TypeOK, DraftDefined
<1>11. ASSUME NEW p \in Publishers, WriteTargets(p)
       PROVE  CompleteInv'
  <2>1. config
    BY <1>11 DEF CompleteInv, WriteTargets, Goto
  <2> QED
    BY <1>11, <2>1, CompleteKept DEF WriteTargets, Goto, TypeOK, DraftDefined
<1>12. ASSUME NEW p \in Publishers,
              SignCheckpoint(p) \/ WriteCheckpoint(p) \/ WriteSnapshot(p)
       PROVE  CompleteInv'
  <2>1. checkpoint.version \in Nat /\ snapshot.version \in Nat /\ timestamp.version \in Nat
    BY DEF TypeOK, Checkpoint, Snapshot, Timestamp
  <2>2. \A r \in Publishers : r # p => pc'[r] = pc[r] /\ draft'[r] = draft[r]
    BY <1>12 DEF SignCheckpoint, WriteCheckpoint, WriteSnapshot, Goto, TypeOK, DraftDefined
  <2>3. CASE SignCheckpoint(p)
    BY <2>1, <2>2, <2>3 DEF SignCheckpoint, Goto, files, trustFiles, TypeOK, DraftDefined,
       CompleteInv, InitialisedRootIsComplete
  <2>4. CASE WriteCheckpoint(p)
    BY <2>1, <2>2, <2>4 DEF WriteCheckpoint, Goto, TypeOK, DraftDefined,
       CompleteInv, InitialisedRootIsComplete
  <2>5. CASE WriteSnapshot(p)
    BY <2>1, <2>2, <2>5 DEF WriteSnapshot, Goto, TypeOK, DraftDefined,
       CompleteInv, InitialisedRootIsComplete
  <2> QED
    BY <1>12, <2>3, <2>4, <2>5
<1>13. ASSUME NEW p \in Publishers, WriteTimestamp(p)
       PROVE  CompleteInv'
  <2>1. /\ pc[p] = "writeTimestamp" /\ timestamp' = draft[p]
        /\ UNCHANGED <<config, root, checkpoint, snapshot>>
        /\ pc'[p] = "idle"
        /\ \A r \in Publishers : r # p => pc'[r] = pc[r] /\ draft'[r] = draft[r]
    BY <1>13 DEF WriteTimestamp, Return, TypeOK, DraftDefined
  <2> QED
    BY <2>1 DEF CompleteInv, InitialisedRootIsComplete
<1>14. ASSUME NEW p \in Publishers, NEW q \in Packages, ReadLater(p, q)
       PROVE  CompleteInv'
  BY <1>14, CompleteKept DEF ReadLater, files, trustFiles
<1> QED
  BY <1>1, <1>2, <1>3, <1>4, <1>5, <1>6, <1>7, <1>8, <1>9, <1>10, <1>11, <1>12, <1>13, <1>14
  DEF Next

\* A root that a client can start from has every file it starts from.
THEOREM RootComplete == Spec => []InitialisedRootIsComplete
<1> DEFINE Inv == Typing /\ CompleteInv
<1>1. Init => Inv
  BY TypingInit, CompleteInit
<1>2. Inv /\ [Next]_vars => Inv'
  BY TypingStep, CompleteStep DEF Typing
<1>3. Inv => InitialisedRootIsComplete
  BY DEF CompleteInv
<1> QED
  BY <1>1, <1>2, <1>3, PTL DEF Spec
=============================================================================
