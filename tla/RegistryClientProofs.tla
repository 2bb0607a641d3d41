------------------------ MODULE RegistryClientProofs -------------------------
(***************************************************************************)
(* Proofs about RegistryClient, for every set of releases.                 *)
(*                                                                         *)
(* A run changes one cached file at a time, the one it has come to, so the *)
(* cached files behind it are still good when it returns; and an artifact  *)
(* is only ever put where there is none.  What the index once named it     *)
(* goes on naming, however old the targets that are signed over it.  The   *)
(* marker is absent while a checkout is being made, so that one that is    *)
(* there vouches for the checkout.                                         *)
(***************************************************************************)
EXTENDS RegistryClient, TLAPS

\* The cached files that the run has checked.
Passed ==
  CASE at = "config" -> {"root"}
    [] at = "targets" -> {"root", "config"}
    [] at = "index" -> {"root", "config", "targets"}
    [] at \in Releases \cup (Stages \ {"idle"}) -> Metadata
    [] OTHER -> {}

\* Cached file f passes the check for release r.
Good(r, f) == Acceptable(f, cache[f], r)

\* A copy is of the artifact, and an artifact is that of the run's release.
PlaceInv ==
  /\ phase = "copy" => at \in Releases
  /\ at \in Releases => at = run.release

\* What is or was listed is in the index, and so is what a run has found listed.
OrderInv ==
  /\ listed \subseteq indexed
  /\ collected \subseteq indexed
  /\ \A r \in Releases : r \in cache["targets"].holds => r \in indexed
  /\ at = "index" => run.release \in indexed
  /\ at = "index" /\ phase = "read" =>
       cache["index"] = Wrong \/ run.release \in cache["index"].holds

BehindInv ==
  /\ run.via = "http" => \A f \in Passed : Good(run.release, f)
  /\ at \in Stages \ {"idle"} => Good(run.release, run.release)

StandingInv == \A r \in standing : \A f \in Metadata \cup {r} : Good(r, f)

\* A checkout without marker is made, and has one when it is handed out.
MakingInv ==
  /\ at \in {"clear", "extract", "fill"} => ~ready[run.release]
  /\ at = "mark" => tree[run.release] = "whole"
  /\ at = "return" => ready[run.release]
  /\ \A g \in given : ready[g.release]
ClientInv ==
  /\ TypeOK
  /\ PlaceInv
  /\ OrderInv
  /\ BehindInv
  /\ StandingInv
  /\ ReadyCheckoutIsWhole
  /\ MakingInv
-----------------------------------------------------------------------------
(***************************************************************************)
(* Names.                                                                  *)
(***************************************************************************)
LEMMA NamesDiffer ==
  /\ Metadata \cap Stages = {}
  /\ Releases \cap Metadata = {}
  /\ Releases \cap Stages = {}
  /\ "none" \notin Releases /\ "pinned" \notin Releases /\ "other" \notin Releases
BY ClientAssumption DEF Metadata, Stages

\* What a file holds is of the type of contents.
LEMMA ContentTypes ==
  ASSUME TypeOK, NEW f \in Files
  PROVE  /\ Served(f) \in Content
         /\ Downloads(f) \subseteq Content
         /\ Part \in Content
         /\ None \in Content
<1>1. /\ Full({"pinned"}) \in Content
      /\ Wrong \in Content
      /\ Full(listed) \in Content
      /\ Full(indexed) \in Content
      /\ Full({}) \in Content
      /\ f \in Releases => Full({f}) \in Content
  BY DEF TypeOK, Full, Content, Wrong
<1>2. Served(f) \in Content
  BY <1>1 DEF Served, Files, Metadata
<1> QED
  BY <1>1, <1>2 DEF Downloads, Part, None, Content

\* What is served under each name.
LEMMA ServedFiles ==
  /\ Served("root") = Full({"pinned"})
  /\ Served("config") = Full({})
  /\ Served("targets") = Full(listed)
  /\ Served("index") = Full(indexed)
  /\ \A r \in Releases : Served(r) = Full({r})
BY NamesDiffer DEF Served, Metadata

\* The checks, file by file.
LEMMA AcceptableFiles ==
  ASSUME NEW c, NEW r
  PROVE  /\ Acceptable("targets", c, r) <=> c.state = "full" /\ r \in c.holds
         /\ Acceptable("index", c, r) <=> c.state = "full" /\ r \in c.holds
         /\ \A f \in Releases : Acceptable(f, c, r) <=> c.state = "full" /\ c.holds = {f}
BY NamesDiffer DEF Acceptable, Metadata

LEMMA FullIsFull ==
  ASSUME NEW s
  PROVE  Full(s).state = "full" /\ Full(s).holds = s
BY DEF Full

-----------------------------------------------------------------------------
LEMMA InitEstablishes == Init => ClientInv
<1> SUFFICES ASSUME Init PROVE ClientInv
  OBVIOUS
<1>1. TypeOK
  BY DEF Init, TypeOK, None, Content, Files, Metadata, Stages, NoRequest, Answers
<1>2. at = "idle" /\ at \notin Releases
  BY NamesDiffer DEF Init, Stages
<1>3. PlaceInv /\ MakingInv /\ ReadyCheckoutIsWhole
  BY <1>2 DEF Init, PlaceInv, MakingInv, ReadyCheckoutIsWhole
<1>4. OrderInv
  BY DEF Init, OrderInv, None, Files, Metadata
<1>5. BehindInv
  BY DEF Init, BehindInv, NoRequest
<1> QED
  BY <1>1, <1>3, <1>4, <1>5 DEF ClientInv, StandingInv, Init
-----------------------------------------------------------------------------
(***************************************************************************)
(* Types and places.                                                       *)
(***************************************************************************)
\* While it is at work, a run has a request.
LEMMA RunHasRequest ==
  ASSUME TypeOK, at # "idle"
  PROVE  /\ run \in Requests
         /\ run.release \in Releases
         /\ run.via \in {"http", "file"}
         /\ run.offline \in BOOLEAN
<1>1. run \in Requests
  BY DEF TypeOK
<1> QED
  BY <1>1 DEF Requests

LEMMA TypeStep == TypeOK /\ [Next]_vars => TypeOK'
<1> SUFFICES ASSUME TypeOK, [Next]_vars PROVE TypeOK'
  OBVIOUS
<1> USE DEF TypeOK
<1>1. ASSUME NEW r \in Releases, IndexRelease(r) PROVE TypeOK'
  BY <1>1 DEF IndexRelease, home, locals, answers
<1>2. CASE SignTargets
  BY <1>2 DEF SignTargets, home, locals, answers
<1>3. CASE Collect
  BY <1>3 DEF Collect, home, locals, answers
<1>4. ASSUME NEW q \in Requests, Begin(q) PROVE TypeOK'
  <2>1. at' \in Metadata /\ at' # "idle"
    BY <1>4 DEF Begin, Metadata
  <2> QED
    BY <1>4, <2>1 DEF Begin, registry, home, answers, Files
<1>5. CASE Fetch
  <2>1. at \in Files /\ at # "idle"
    BY <1>5, NamesDiffer DEF Fetch, Files, Metadata, Stages
  <2>2. PICK c \in Downloads(at) : /\ cache' = [cache EXCEPT ![at] = c]
                                  /\ standing' = Uncontradicted(standing, at, c)
    BY <1>5 DEF Fetch
  <2>3. c \in Content
    BY <2>1, <2>2, ContentTypes
  <2>4. cache' \in [Files -> Content] /\ standing' \subseteq Releases
    BY <2>2, <2>3 DEF Uncontradicted
  <2> QED
    BY <1>5, <2>1, <2>4 DEF Fetch, Move, registry
<1>6. CASE StartCopy
  <2>1. at \in Files /\ at # "idle"
    BY <1>6, NamesDiffer DEF StartCopy, Files, Stages
  <2>2. Part \in Content
    BY <2>1, ContentTypes
  <2> QED
    BY <1>6, <2>1, <2>2 DEF StartCopy, Move, registry, answers
<1>7. CASE FinishCopy
  <2>1. at \in Files => Served(at) \in Content
    BY ContentTypes
  <2>2. cache' \in [Files -> Content]
    BY <1>7, <2>1 DEF FinishCopy
  <2> QED
    BY <1>7, <2>2 DEF FinishCopy, Move, registry, answers
<1>8. CASE Accept
  <2>1. at \in Files /\ at # "idle"
    BY <1>8, NamesDiffer DEF Accept, Readable, Files, Metadata, Stages
  <2>2. run.release \in Releases
    BY <2>1, RunHasRequest
  <2>3. After(at, run.release) \in Files \cup Stages /\ After(at, run.release) # "idle"
    BY <2>2, NamesDiffer DEF After, Files, Metadata, Stages
  <2> QED
    BY <1>8, <2>1, <2>3 DEF Accept, Move, registry, answers, home
<1>9. CASE Refuse
  BY <1>9 DEF Refuse, End, registry, answers, home, Stages
<1>10. CASE FindMarker
  BY <1>10 DEF FindMarker, Move, registry, answers, home, Stages
<1>11. CASE MissMarker
  BY <1>11 DEF MissMarker, Move, registry, answers, home, Stages
<1>12. CASE Clear
  BY <1>12 DEF Clear, Move, registry, answers, Stages
<1>13. CASE StartExtract
  BY <1>13 DEF StartExtract, Move, registry, answers, Stages
<1>14. CASE FinishExtract
  BY <1>14 DEF FinishExtract, Move, registry, answers, Stages
<1>15. CASE Mark
  BY <1>15 DEF Mark, Move, registry, answers, Stages
<1>16. CASE Return
  <2>1. [release |-> run.release, via |-> run.via] \in Answers
    BY <1>16, RunHasRequest DEF Return, Answers
  <2>2. run.release \in Releases
    BY <1>16, RunHasRequest DEF Return
  <2> QED
    BY <1>16, <2>1, <2>2 DEF Return, End, registry, home, Stages
<1>17. CASE Stop
  BY <1>17 DEF Stop, End, registry, answers, Stages
<1>18. CASE UNCHANGED vars
  BY <1>18 DEF vars, registry, home, locals, answers
<1> QED
  BY <1>1, <1>2, <1>3, <1>4, <1>5, <1>6, <1>7, <1>8, <1>9, <1>10, <1>11, <1>12, <1>13,
     <1>14, <1>15, <1>16, <1>17, <1>18
  DEF Next, Registry, ReadFile, EnsureCheckout

LEMMA PlaceStep == TypeOK /\ PlaceInv /\ [Next]_vars => PlaceInv'
<1> SUFFICES ASSUME TypeOK, PlaceInv, [Next]_vars PROVE PlaceInv'
  OBVIOUS
<1> USE DEF PlaceInv
<1>1. CASE UNCHANGED locals
  BY <1>1 DEF locals
<1>2. ASSUME NEW q \in Requests, Begin(q) PROVE PlaceInv'
  BY <1>2, NamesDiffer DEF Begin, Metadata
<1>3. CASE End
  BY <1>3, NamesDiffer DEF End, Stages
<1>4. CASE Fetch \/ StartCopy \/ FinishCopy
  BY <1>4, NamesDiffer DEF Fetch, StartCopy, FinishCopy, Move
<1>5. CASE Accept
  BY <1>5, NamesDiffer DEF Accept, Move, After, Metadata, Stages
<1>6. CASE FindMarker \/ MissMarker \/ Clear \/ StartExtract \/ FinishExtract \/ Mark
  BY <1>6, NamesDiffer DEF FindMarker, MissMarker, Clear, StartExtract, FinishExtract, Mark, Move, Stages
<1> QED
  BY <1>1, <1>2, <1>3, <1>4, <1>5, <1>6
  DEF Next, Registry, ReadFile, EnsureCheckout, vars, IndexRelease, SignTargets, Collect,
      Refuse, Return, Stop
-----------------------------------------------------------------------------
(***************************************************************************)
(* What was checked stays good.                                            *)
(***************************************************************************)
\* The registry's index only grows, and targets are never ahead of it.
LEMMA RegistryGrows ==
  ASSUME OrderInv, [Next]_vars
  PROVE  /\ indexed \subseteq indexed'
         /\ listed' \subseteq indexed'
         /\ collected' \subseteq indexed'
<1> USE DEF OrderInv
<1>1. ASSUME NEW r \in Releases, IndexRelease(r)
      PROVE  indexed \subseteq indexed' /\ listed' = listed /\ collected' = collected
  BY <1>1 DEF IndexRelease
<1>2. CASE SignTargets
  BY <1>2 DEF SignTargets
<1>3. CASE Collect
  BY <1>3 DEF Collect
<1>4. CASE UNCHANGED <<indexed, listed, collected>>
  BY <1>4
<1> QED
  BY <1>1, <1>2, <1>3, <1>4
  DEF Next, Registry, ReadFile, EnsureCheckout, vars, registry, Begin, Fetch, StartCopy, FinishCopy,
      Accept, Refuse, FindMarker, MissMarker, Clear, StartExtract, FinishExtract, Mark, Return, Stop

\* The contents of the caches change only where the run is: a signed file to
\* what is served or to something wrong, an artifact only where there is none.
LEMMA CacheChanges ==
  ASSUME TypeOK, PlaceInv, [Next]_vars
  PROVE  /\ \A f \in Files : f # at => cache'[f] = cache[f]
         /\ cache'["targets"] \in {cache["targets"], Full(listed), Wrong}
         /\ cache'["index"] \in {cache["index"], Full(indexed), Wrong}
         /\ \A r \in Releases :
              cache'[r] = cache[r] \/ cache[r] = None \/ cache'[r] = Full({r})
<1>1. CASE UNCHANGED cache
  BY <1>1
<1>2. CASE Fetch
  <2>1. PICK c \in Downloads(at) : cache' = [cache EXCEPT ![at] = c]
    BY <1>2 DEF Fetch
  <2>2. cache \in [Files -> Content] /\ at \in Files
    BY <1>2 DEF Fetch, TypeOK
  <2>3. \A f \in Files : cache'[f] = IF f = at THEN c ELSE cache[f]
    BY <2>1, <2>2
  <2>4. c \in {Served(at), Wrong}
    BY <2>1 DEF Downloads
  <2>5. at \in Releases => cache[at] = None
    BY <1>2 DEF Fetch
  <2>6. /\ at = "targets" => c \in {Full(listed), Wrong}
        /\ at = "index" => c \in {Full(indexed), Wrong}
    BY <2>4, ServedFiles
  <2> QED
    BY <2>3, <2>5, <2>6 DEF Files, Metadata
<1>3. CASE StartCopy
  <2>1. at \in Releases /\ at \notin Metadata /\ cache[at] = None
    BY <1>3, NamesDiffer DEF StartCopy
  <2> QED
    BY <1>3, <2>1 DEF StartCopy, TypeOK, Metadata, Files
<1>4. CASE FinishCopy
  <2>1. at \in Releases /\ at \notin Metadata
    BY <1>4, NamesDiffer DEF FinishCopy, PlaceInv
  <2>2. Served(at) = Full({at})
    BY <2>1, ServedFiles
  <2> QED
    BY <1>4, <2>1, <2>2 DEF FinishCopy, TypeOK, Metadata, Files
<1> QED
  BY <1>1, <1>2, <1>3, <1>4
  DEF Next, Registry, ReadFile, EnsureCheckout, vars, home, IndexRelease, SignTargets, Collect,
      Begin, Accept, Refuse, FindMarker, MissMarker, Clear, StartExtract, FinishExtract, Mark,
      Return, Stop

\* A good artifact stays good.
LEMMA ArtifactStays ==
  ASSUME TypeOK, PlaceInv, [Next]_vars, NEW r \in Releases, Good(r, r)
  PROVE  Good(r, r)'
<1>1. cache[r].state = "full" /\ cache[r].holds = {r}
  BY AcceptableFiles DEF Good
<1>2. cache[r] # None
  BY <1>1 DEF None
<1>3. cache'[r].state = "full" /\ cache'[r].holds = {r}
  BY <1>1, <1>2, CacheChanges, FullIsFull
<1> QED
  BY <1>3, AcceptableFiles DEF Good

\* The run's checks that lie behind it, by the place it has come to.
LEMMA PassedFiles ==
  /\ Passed \subseteq Metadata
  /\ at \notin Passed
  /\ at \in {"idle", "root"} => Passed = {}
  /\ at = "config" => Passed = {"root"}
  /\ at = "targets" => Passed = {"root", "config"}
  /\ at = "index" => Passed = {"root", "config", "targets"}
  /\ at \in Releases \cup (Stages \ {"idle"}) => Passed = Metadata
BY NamesDiffer DEF Passed, Metadata, Stages

LEMMA PassedFilesNext ==
  /\ at' \in {"idle", "root"} => Passed' = {}
  /\ at' = "config" => Passed' = {"root"}
  /\ at' = "targets" => Passed' = {"root", "config"}
  /\ at' = "index" => Passed' = {"root", "config", "targets"}
  /\ at' \in Releases \cup (Stages \ {"idle"}) => Passed' = Metadata
BY NamesDiffer DEF Passed, Metadata, Stages

\* A file that a run reads through http, or an artifact, is the cached one.
LEMMA AcceptedIsGood ==
  ASSUME PlaceInv, Accept, run.via = "http" \/ at \in Releases
  PROVE  Good(run.release, at)
<1>1. Acceptable(at, Text, run.release)
  BY DEF Accept
<1>2. Text = cache[at]
  BY NamesDiffer DEF Text
<1> QED
  BY <1>1, <1>2 DEF Good

LEMMA BehindStep ==
  TypeOK /\ PlaceInv /\ BehindInv /\ [Next]_vars => BehindInv'
<1> SUFFICES ASSUME TypeOK, PlaceInv, BehindInv, [Next]_vars
             PROVE  BehindInv'
  OBVIOUS
<1> USE DEF BehindInv
<1>0. "idle" \in Stages /\ at \notin Passed /\ Passed \subseteq Metadata /\ Metadata \subseteq Files
  BY PassedFiles DEF Stages, Files
<1>1. ASSUME run' = run, run.via = "http", NEW f \in Passed PROVE Good(run.release, f)'
  <2>1. cache'[f] = cache[f]
    BY <1>0, CacheChanges
  <2>2. Good(run.release, f)
    BY <1>1
  <2> QED
    BY <1>1, <2>1, <2>2 DEF Good, Acceptable
<1>2. ASSUME run' = run, at \in Stages \ {"idle"} PROVE Good(run.release, run.release)'
  <2>1. PICK r \in Releases : r = run.release
    BY <1>2, RunHasRequest
  <2>2. Good(r, r)
    BY <1>2, <2>1
  <2>3. Good(r, r)'
    BY <2>2, ArtifactStays
  <2> QED
    BY <1>2, <2>1, <2>3
<1>3. CASE UNCHANGED <<at, run>>
  <2>1. Passed' = Passed
    BY <1>3 DEF Passed
  <2> QED
    BY <1>1, <1>2, <1>3, <2>1
<1>4. ASSUME NEW q \in Requests, Begin(q) PROVE BehindInv'
  <2>1. at' \notin Stages
    BY <1>4, NamesDiffer DEF Begin, Metadata
  <2>2. run'.via = "http" => Passed' = {}
    BY <1>4, PassedFilesNext DEF Begin
  <2> QED
    BY <2>1, <2>2
<1>5. CASE End
  BY <1>5, PassedFilesNext DEF End
<1>6. CASE Accept
  <2>1. at \in Files /\ run' = run /\ at' = After(at, run.release) /\ UNCHANGED cache
    BY <1>6 DEF Accept, Readable, Move, home
  <2>2. at # "idle" /\ run.release \in Releases
    BY <2>1, NamesDiffer, RunHasRequest DEF Files, Metadata, Stages
  <2>3. Passed' \subseteq Passed \cup {at} /\ (at' \in Stages => at \in Releases)
    <3>1. CASE at = "root"
      BY <2>1, <3>1, PassedFilesNext, NamesDiffer DEF After, Metadata
    <3>2. CASE at = "config"
      BY <2>1, <3>2, PassedFiles, PassedFilesNext, NamesDiffer DEF After, Metadata
    <3>3. CASE at = "targets"
      BY <2>1, <3>3, PassedFiles, PassedFilesNext, NamesDiffer DEF After, Metadata
    <3>4. CASE at = "index"
      BY <2>1, <2>2, <3>4, PassedFiles, PassedFilesNext, NamesDiffer DEF After, Metadata
    <3>5. CASE at \in Releases
      <4>1. at' = "checkout"
        BY <2>1, <3>5, NamesDiffer DEF After, Metadata
      <4> QED
        BY <3>5, <4>1, PassedFiles, PassedFilesNext DEF Stages
    <3> QED
      BY <2>1, <3>1, <3>2, <3>3, <3>4, <3>5 DEF Files, Metadata
  <2>4. ASSUME run.via = "http", NEW f \in Passed' PROVE Good(run.release, f)'
    <3>1. Good(run.release, f)
      BY <1>6, <2>3, <2>4, AcceptedIsGood
    <3> QED
      BY <2>1, <3>1 DEF Good, Acceptable
  <2>5. ASSUME at' \in Stages PROVE Good(run.release, run.release)'
    <3>1. at \in Releases /\ at = run.release
      BY <2>3, <2>5 DEF PlaceInv
    <3>2. Good(run.release, run.release)
      BY <1>6, <3>1, AcceptedIsGood
    <3> QED
      BY <2>1, <3>2 DEF Good, Acceptable
  <2> QED
    BY <2>1, <2>4, <2>5
<1>7. CASE FindMarker \/ MissMarker \/ Clear \/ StartExtract \/ FinishExtract \/ Mark
  <2>1. at \in Stages \ {"idle"} /\ at' \in Stages \ {"idle"} /\ run' = run
    BY <1>7 DEF FindMarker, MissMarker, Clear, StartExtract, FinishExtract, Mark, Move, Stages
  <2>2. Passed' = Passed
    BY <2>1, PassedFiles, PassedFilesNext
  <2> QED
    BY <1>1, <1>2, <2>1, <2>2
<1> QED
  BY <1>3, <1>4, <1>5, <1>6, <1>7
  DEF Next, Registry, ReadFile, EnsureCheckout, vars, locals, IndexRelease, SignTargets, Collect,
      Fetch, StartCopy, FinishCopy, Move, Refuse, Return, Stop

\* What comes into the index file that a run has asked for.
LEMMA OrderStep ==
  TypeOK /\ PlaceInv /\ OrderInv /\ [Next]_vars => OrderInv'
<1> SUFFICES ASSUME TypeOK, PlaceInv, OrderInv, [Next]_vars
             PROVE  OrderInv'
  OBVIOUS
<1>1. indexed \subseteq indexed' /\ listed' \subseteq indexed' /\ collected' \subseteq indexed'
  BY RegistryGrows
<1>2. \A r \in Releases : r \in cache'["targets"].holds => r \in indexed'
  <2>1. Wrong.holds = {"other"} /\ Full(listed).holds = listed
    BY FullIsFull DEF Wrong
  <2>2. \A r \in Releases : r \in Wrong.holds => r \in indexed'
    BY <2>1, NamesDiffer
  <2> QED
    BY <1>1, <2>1, <2>2, CacheChanges DEF OrderInv
<1>3. ASSUME at' = "index" PROVE run'.release \in indexed'
  <2>1. CASE at = "index" /\ run' = run
    BY <1>1, <2>1 DEF OrderInv
  <2>2. CASE Accept /\ at = "targets"
    <3>1. /\ run' = run
          /\ run.release \in Releases
          /\ run.via \in {"http", "file"}
          /\ Acceptable("targets", Text, run.release)
      BY <2>2, RunHasRequest DEF Accept, Move
    <3>2. run.release \in Text.holds
      BY <3>1, AcceptableFiles
    <3>3. Text \in {cache["targets"], Full(listed)}
      BY <2>2, ServedFiles DEF Text
    <3>4. run.release \in indexed
      BY <3>1, <3>2, <3>3, FullIsFull DEF OrderInv
    <3> QED
      BY <1>1, <3>1, <3>4
  <2>3. (at = "index" /\ run' = run) \/ (Accept /\ at = "targets")
    <3>1. CASE Accept
      <4>1. at \in Files /\ at' = After(at, run.release) /\ "index" \notin Releases
        BY <3>1, NamesDiffer DEF Accept, Readable, Move, Metadata
      <4>2. at # "idle" /\ run.release \in Releases
        BY <4>1, NamesDiffer, RunHasRequest DEF Files, Metadata, Stages
      <4> QED
        BY <1>3, <3>1, <4>1, <4>2 DEF After, Files, Metadata
    <3>2. CASE UNCHANGED <<at, run>>
      BY <1>3, <3>2
    <3> QED
      BY <1>3, <3>1, <3>2
      DEF Next, Registry, ReadFile, EnsureCheckout, vars, locals, IndexRelease, SignTargets, Collect,
          Begin, Fetch, StartCopy, FinishCopy, Move, Refuse, Return, Stop, End, FindMarker,
          MissMarker, Clear, StartExtract, FinishExtract, Mark
  <2> QED
    BY <2>1, <2>2, <2>3
<1>4. ASSUME at' = "index", phase' = "read"
      PROVE  cache'["index"] = Wrong \/ run'.release \in cache'["index"].holds
  <2>1. at = "index" /\ run' = run
    BY <1>4, NamesDiffer
    DEF Next, Registry, ReadFile, EnsureCheckout, vars, locals, IndexRelease, SignTargets, Collect,
        Begin, Fetch, StartCopy, FinishCopy, Accept, Move, Refuse, Return, Stop, End, FindMarker,
        MissMarker, Clear, StartExtract, FinishExtract, Mark
  <2>2. run.release \in indexed
    BY <2>1 DEF OrderInv
  <2>3. CASE phase = "read"
    BY <2>1, <2>2, <2>3, CacheChanges, FullIsFull DEF OrderInv
  <2>4. CASE phase # "read"
    <3>1. Fetch
      BY <1>4, <2>1, <2>4, NamesDiffer
      DEF Next, Registry, ReadFile, EnsureCheckout, vars, locals, IndexRelease, SignTargets,
          Collect, Begin, StartCopy, FinishCopy, PlaceInv, Metadata, Accept, Move, Refuse, Return,
          Stop, End, FindMarker, MissMarker, Clear, StartExtract, FinishExtract, Mark
    <3>2. PICK c \in Downloads(at) : cache' = [cache EXCEPT ![at] = c]
      BY <3>1 DEF Fetch
    <3>3. c \in {Full(indexed), Wrong}
      BY <2>1, <3>2, ServedFiles DEF Downloads
    <3>4. cache'["index"] = c
      BY <2>1, <3>2 DEF TypeOK, Files, Metadata
    <3> QED
      BY <2>1, <2>2, <3>3, <3>4, FullIsFull
  <2> QED
    BY <2>3, <2>4
<1> QED
  BY <1>1, <1>2, <1>3, <1>4 DEF OrderInv

\* A fetch leaves standing the answers that the new file bears out.
LEMMA FetchKeepsStanding ==
  ASSUME TypeOK, StandingInv, Fetch, NEW r \in standing', NEW f \in Metadata \cup {r}
  PROVE  Good(r, f)'
<1>1. PICK c \in Downloads(at) : /\ cache' = [cache EXCEPT ![at] = c]
                                /\ standing' = Uncontradicted(standing, at, c)
  BY DEF Fetch
<1>2. /\ r \in standing /\ r \in Releases
      /\ at \in Metadata => Acceptable(at, c, r)
  BY <1>1 DEF Uncontradicted, TypeOK
<1>3. f \in Files /\ at \in Files /\ Good(r, f)
  BY <1>2 DEF StandingInv, Files, Fetch
<1>4. CASE f # at
  <2>1. cache'[f] = cache[f]
    BY <1>1, <1>3, <1>4 DEF TypeOK
  <2> QED
    BY <1>3, <2>1 DEF Good, Acceptable
<1>5. CASE f = at /\ at \in Metadata
  <2>1. cache'[f] = c
    BY <1>1, <1>3, <1>5 DEF TypeOK
  <2> QED
    BY <1>2, <1>5, <2>1 DEF Good, Acceptable
<1>6. CASE f = at /\ at \notin Metadata
  <2>1. cache[f] = None /\ cache[f].state = "full"
    BY <1>3, <1>6 DEF Fetch, Files, Good, Acceptable
  <2> QED
    BY <2>1 DEF None
<1> QED
  BY <1>4, <1>5, <1>6

LEMMA StandingStep ==
  TypeOK /\ PlaceInv /\ BehindInv /\ StandingInv /\ [Next]_vars => StandingInv'
<1> SUFFICES ASSUME TypeOK, PlaceInv, BehindInv, StandingInv, [Next]_vars,
                    NEW r \in standing', NEW f \in Metadata \cup {r}
             PROVE  Good(r, f)'
  BY DEF StandingInv
<1>1. r \in Releases
  BY TypeStep DEF TypeOK
<1>2. CASE Fetch
  BY <1>2, FetchKeepsStanding
<1>3. CASE StartCopy \/ FinishCopy
  <2>1. r \in standing /\ at \in Releases /\ Good(r, f)
    BY <1>3 DEF StartCopy, FinishCopy, PlaceInv, answers, StandingInv
  <2>2. CASE f = r
    BY <1>1, <2>1, <2>2, ArtifactStays
  <2>3. CASE f \in Metadata
    <3>1. cache'[f] = cache[f]
      BY <2>1, <2>3, CacheChanges, NamesDiffer DEF Files
    <3> QED
      BY <2>1, <3>1 DEF Good, Acceptable
  <2> QED
    BY <2>2, <2>3
<1>4. ASSUME UNCHANGED cache, Good(r, f) PROVE Good(r, f)'
  BY <1>4 DEF Good, Acceptable
<1>5. CASE Return
  <2>1. r \in standing \/ (r = run.release /\ run.via = "http")
    BY <1>5 DEF Return
  <2>2. Passed = Metadata /\ at \in Stages \ {"idle"}
    BY <1>5, PassedFiles DEF Return, Stages
  <2>3. Good(r, f)
    BY <2>1, <2>2 DEF StandingInv, BehindInv
  <2> QED
    BY <1>4, <1>5, <2>3 DEF Return, home
<1>6. CASE UNCHANGED <<cache, standing>>
  BY <1>4, <1>6 DEF StandingInv
<1> QED
  BY <1>2, <1>3, <1>5, <1>6
  DEF Next, Registry, ReadFile, EnsureCheckout, vars, home, answers, IndexRelease, SignTargets,
      Collect, Begin, Accept, Refuse, FindMarker, MissMarker, Clear, StartExtract, FinishExtract,
      Mark, Stop
-----------------------------------------------------------------------------
(***************************************************************************)
(* The checkouts.                                                          *)
(***************************************************************************)
\* The artifact a checkout is filled from is the released one.
LEMMA FilledFromRelease ==
  ASSUME TypeOK, BehindInv, at = "fill"
  PROVE  cache[run.release] = Served(run.release)
<1>1. run.release \in Releases /\ run.via \in {"http", "file"}
  BY RunHasRequest
<1>2. PICK r \in Releases : r = run.release
  BY <1>1
<1>3. Good(r, r)
  BY <1>2 DEF BehindInv, Stages
<1>4. cache[r].state = "full" /\ cache[r].holds = {r}
  BY <1>3, AcceptableFiles DEF Good
<1>5. cache[r] \in Content
  BY DEF TypeOK, Files
<1>6. cache[r] = Full({r})
  BY <1>4, <1>5 DEF Content, Full
<1> QED
  BY <1>2, <1>6, ServedFiles

CheckoutInv == ReadyCheckoutIsWhole /\ MakingInv

LEMMA CheckoutStep ==
  TypeOK /\ PlaceInv /\ BehindInv /\ CheckoutInv /\ [Next]_vars => CheckoutInv'
<1> SUFFICES ASSUME TypeOK, PlaceInv, BehindInv, CheckoutInv, [Next]_vars
             PROVE  CheckoutInv'
  OBVIOUS
<1> USE DEF CheckoutInv, ReadyCheckoutIsWhole, MakingInv, answers
<1>0. at # "idle" => run.release \in Releases
  BY RunHasRequest
<1>1. CASE UNCHANGED <<tree, ready, at, run, given>>
  BY <1>1
<1>2. ASSUME UNCHANGED <<tree, ready, given>>, at' \in Files \cup {"idle", "checkout"}
      PROVE  CheckoutInv'
  BY <1>2, NamesDiffer DEF Files, Metadata, Stages
<1>3. ASSUME NEW q \in Requests, Begin(q) PROVE CheckoutInv'
  BY <1>2, <1>3 DEF Begin, home, Files, Metadata
<1>4. CASE Accept
  <2>1. at \in Files
    BY <1>4 DEF Accept, Readable
  <2>2. run.release \in Releases
    BY <2>1, <1>0, NamesDiffer DEF Files, Metadata, Stages
  <2> QED
    BY <1>2, <1>4, <2>2 DEF Accept, After, Move, home, Files, Metadata
<1>5. CASE Refuse
  BY <1>2, <1>5 DEF Refuse, End, home
<1>6. CASE FindMarker
  BY <1>6 DEF FindMarker, Move, home
<1>7. CASE MissMarker
  BY <1>7 DEF MissMarker, Move, home
<1>8. CASE Clear
  BY <1>0, <1>8 DEF Clear, Move, TypeOK
<1>9. CASE StartExtract
  BY <1>0, <1>9 DEF StartExtract, Move, TypeOK
<1>10. CASE FinishExtract
  <2>1. cache[run.release] = Served(run.release)
    BY <1>10, FilledFromRelease DEF FinishExtract
  <2> QED
    BY <1>0, <1>10, <2>1 DEF FinishExtract, Move, TypeOK
<1>11. CASE Mark
  BY <1>0, <1>11 DEF Mark, Move, TypeOK
<1>12. CASE Return
  BY <1>0, <1>12 DEF Return, End, home
<1>13. CASE Stop
  <2>1. CASE UNCHANGED <<tree, ready>>
    BY <1>2, <1>13, <2>1 DEF Stop, End
  <2>2. CASE /\ at = "clear"
             /\ tree' = [tree EXCEPT ![run.release] = "part"]
             /\ ready' \in {ready, [ready EXCEPT ![run.release] = FALSE]}
    <3>1. ~ready[run.release] /\ ready' = ready
      <4>1. ready \in [Releases -> BOOLEAN] /\ run.release \in Releases
        BY <1>0, <2>2 DEF TypeOK
      <4>2. ready[run.release] = FALSE
        BY <2>2, <4>1
      <4>3. [ready EXCEPT ![run.release] = FALSE] = ready
        BY <4>1, <4>2
      <4> QED
        BY <2>2, <4>2, <4>3
    <3>2. \A r \in Releases : ready[r] => tree'[r] = "whole"
      BY <1>0, <2>2, <3>1 DEF TypeOK
    <3> QED
      BY <1>13, <3>1, <3>2 DEF Stop, End
  <2> QED
    BY <1>13, <2>1, <2>2 DEF Stop
<1> QED
  BY <1>1, <1>3, <1>4, <1>5, <1>6, <1>7, <1>8, <1>9, <1>10, <1>11, <1>12, <1>13
  DEF Next, Registry, ReadFile, EnsureCheckout, vars, home, locals, IndexRelease, SignTargets,
      Collect, Fetch, StartCopy, FinishCopy, Move

-----------------------------------------------------------------------------
(***************************************************************************)
(* Theorems.                                                               *)
(***************************************************************************)
\* The invariant of a client: types, the order of the registry's files, the
\* files behind a run and behind every standing answer, and the checkouts.
THEOREM ClientInvariant == Spec => []ClientInv
<1>1. ClientInv /\ [Next]_vars => ClientInv'
  BY TypeStep, PlaceStep, OrderStep, BehindStep, StandingStep, CheckoutStep DEF ClientInv, CheckoutInv
<1> QED
  BY <1>1, InitEstablishes, PTL DEF Spec

\* Every file, checkout and local of a client keeps its type (TypeOK).
THEOREM ClientTyping == Spec => []TypeOK
<1>1. ClientInv => TypeOK
  BY DEF ClientInv
<1> QED
  BY <1>1, ClientInvariant, PTL

\* A checkout with a marker is whole, wherever earlier runs have stopped.
THEOREM MarkedCheckoutsWhole == Spec => []ReadyCheckoutIsWhole
<1>1. ClientInv => ReadyCheckoutIsWhole
  BY DEF ClientInv
<1> QED
  BY <1>1, ClientInvariant, PTL

\* A run that read a release in the targets finds it in the index.
THEOREM ListedReleasesIndexed == Spec => []ListedIsIndexed
<1>1. ClientInv => ListedIsIndexed
  <2> SUFFICES ASSUME ClientInv, at = "index", Readable, ~run.offline, Text # Wrong
               PROVE  run.release \in Text.holds
    BY DEF ListedIsIndexed
  <2> USE DEF ClientInv
  <2>1. run.via \in {"http", "file"} /\ run.release \in indexed
    BY RunHasRequest DEF OrderInv
  <2>2. CASE run.via = "file"
    BY <2>1, <2>2, ServedFiles, FullIsFull DEF Text, Metadata
  <2>3. CASE run.via = "http"
    <3>1. phase = "read"
      BY <2>3, NamesDiffer DEF Readable, Metadata
    <3> QED
      BY <2>3, <3>1 DEF Text, OrderInv
  <2> QED
    BY <2>1, <2>2, <2>3
<1> QED
  BY <1>1, ClientInvariant, PTL

\* What was returned through http can be returned again without network access
\* until a download has brought a file that does not bear it out.
THEOREM AnswersRepeat == Spec => []StandingAnswersRepeat
<1>1. ClientInv => StandingAnswersRepeat
  <2> SUFFICES ASSUME ClientInv, Readable, run.via = "http", run.release \in standing
               PROVE  Acceptable(at, Text, run.release)
    BY DEF StandingAnswersRepeat
  <2>1. at \in Metadata \cup {run.release}
    BY DEF Readable, ClientInv, PlaceInv, Files
  <2>2. Good(run.release, at)
    BY <2>1 DEF ClientInv, StandingInv
  <2> QED
    BY <2>2 DEF Good, Text
<1> QED
  BY <1>1, ClientInvariant, PTL

\* The checkouts of a client implement the store of snapshots.
THEOREM ClientImplementsStore == Spec => ImplementsStore
<1>1. Init => Store!Init
  BY DEF Init, Store!Init
<1>2. ClientInv /\ [Next]_vars => [Store!Next]_(Store!storeVars)
  <2> SUFFICES ASSUME ClientInv, [Next]_vars
               PROVE  Store!Next \/ UNCHANGED Store!storeVars
    OBVIOUS
  <2> DEFINE complete == {r \in Releases : tree[r] = "whole"}
             kept == {r \in Releases : ready[r]}
             names == {g.release : g \in given}
  <2>0. TypeOK /\ (at # "idle" => run.release \in Releases)
    BY RunHasRequest DEF ClientInv
  <2>1. CASE UNCHANGED <<tree, ready, given>>
    BY <2>1 DEF Store!storeVars
  <2>2. CASE Clear \/ StartExtract \/ FinishExtract \/ (Stop /\ at = "clear")
    <3>1. PICK r \in Releases : r = run.release /\ r \notin kept
      BY <2>0, <2>2 DEF Clear, StartExtract, FinishExtract, ClientInv, MakingInv
    <3>2. \A q \in Releases : ready'[q] = ready[q] /\ (q # r => tree'[q] = tree[q])
      BY <2>0, <2>2, <3>1 DEF Clear, StartExtract, FinishExtract, Stop, TypeOK
    <3>3. kept' = kept /\ names' = names
      BY <2>2, <3>2 DEF Clear, StartExtract, FinishExtract, Stop, answers
    <3>4. complete' = complete \/ complete' = complete \ {r} \/ complete' = complete \cup {r}
      BY <3>2
    <3>5. CASE complete' = complete
      BY <3>3, <3>5 DEF Store!storeVars
    <3>6. CASE complete' = complete \ {r}
      <4>1. Store!Unmake(r)
        BY <3>1, <3>3, <3>6 DEF Store!Unmake
      <4> QED
        BY <4>1 DEF Store!Next
    <3>7. CASE complete' = complete \cup {r}
      <4>1. Store!Make(r)
        BY <3>3, <3>7 DEF Store!Make
      <4> QED
        BY <4>1 DEF Store!Next
    <3> QED
      BY <3>4, <3>5, <3>6, <3>7
  <2>3. CASE Mark
    <3>1. PICK r \in Releases : r = run.release /\ r \in complete
      BY <2>0, <2>3 DEF Mark, ClientInv, MakingInv
    <3>2. complete' = complete /\ kept' = kept \cup {r} /\ names' = names
      BY <2>0, <2>3, <3>1 DEF Mark, answers, TypeOK
    <3>3. Store!Keep(r)
      BY <3>1, <3>2 DEF Store!Keep
    <3> QED
      BY <3>3 DEF Store!Next
  <2>4. CASE Return
    <3>1. PICK r \in Releases : r = run.release /\ r \in kept
      BY <2>0, <2>4 DEF Return, ClientInv, MakingInv
    <3>2. PICK g : g = [release |-> run.release, via |-> run.via]
      OBVIOUS
    <3>3. given' = given \cup {g} /\ g.release = r
      BY <2>4, <3>1, <3>2 DEF Return
    <3>4. names' = names \cup {r}
      BY <3>3
    <3>5. complete' = complete /\ kept' = kept
      BY <2>4 DEF Return, home
    <3>6. {r} \subseteq kept
      BY <3>1
    <3>7. Store!Give({r})
      BY <3>4, <3>5, <3>6 DEF Store!Give
    <3> QED
      BY <3>7 DEF Store!Next
  <2>5. \/ UNCHANGED <<tree, ready, given>>
        \/ Clear \/ StartExtract \/ FinishExtract \/ (Stop /\ at = "clear")
        \/ Mark
        \/ Return
    BY DEF Next, Registry, ReadFile, EnsureCheckout, vars, home, answers, IndexRelease, SignTargets, Collect,
           Begin, Fetch, StartCopy, FinishCopy, Accept, Refuse, FindMarker, MissMarker, Stop
  <2> QED
    BY <2>1, <2>2, <2>3, <2>4, <2>5
<1> QED
  BY <1>1, <1>2, ClientInvariant, PTL DEF Spec, ImplementsStore, Store!Spec
=============================================================================
