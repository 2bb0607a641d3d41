--------------------------- MODULE RegistryClient ----------------------------
(***************************************************************************)
(* The read side of a registry: MaterializeRegistryPackage of              *)
(* src/PafioRegistryClient/Client.cpp on one PAFIO_HOME, while releases go *)
(* on being published.                                                     *)
(*                                                                         *)
(* A run reads root.json (through http), config.json, the targets file and *)
(* the index file, each checked against what the run already knows, then   *)
(* the artifact, then the checkout extracted from it.  Through http every  *)
(* file goes through the cache, where it replaces its predecessor before   *)
(* it is looked at, whatever it was that the download brought; a file://   *)
(* directory is read in place, except that the artifact is copied to the   *)
(* blob cache that both share.  A run can stop at any step: a download or  *)
(* tar that fails or times out, a full disk, a killed process.  The        *)
(* temporary file curl writes to is left out: every download empties it    *)
(* first, and nothing reads it before it is complete.                      *)
(*                                                                         *)
(* One run at a time.  One package: a release is a version of it, and also *)
(* the name of its only archive.  The registry is published to in the      *)
(* order of RegistryPublish: the index first, the targets later, and by    *)
(* publishers that may race.  An answer at the registry's address is what  *)
(* the registry has at that moment, or something else altogether.          *)
(***************************************************************************)
CONSTANT Releases     \* the versions of the package

Metadata == {"root", "config", "targets", "index"}
Stages == {"idle", "checkout", "clear", "extract", "fill", "mark", "return"}

ASSUME ClientAssumption ==
  Releases \cap (Metadata \cup Stages \cup {"none", "pinned", "other"}) = {}

VARIABLES
  indexed,        \* the releases in the registry's index file
  listed,         \* the releases in its targets file
  collected,      \* the releases a slow publisher has read in the index
  cache,          \* file -> its content in the object cache or the blob cache
  tree,           \* release -> state of its checkout directory
  ready,          \* release -> .pafio-snapshot-ready exists in it
  at,             \* the file or the stage the run has come to
  phase,          \* of a file: to be had, being copied, or to be checked
  run,            \* what the run was asked for
  given,          \* the [release, via] that a run has returned (history)
  standing        \* the releases returned through http that no later download
                  \* has contradicted (history)

registry == <<indexed, listed, collected>>
home == <<cache, tree, ready>>
locals == <<at, phase, run>>
answers == <<given, standing>>
vars == <<registry, home, locals, answers>>

Files == Metadata \cup Releases    \* a release names its artifact
Answers == [release : Releases, via : {"http", "file"}]
Requests == [release : Releases, via : {"http", "file"}, offline : BOOLEAN]
NoRequest == [release |-> "none", via |-> "none", offline |-> FALSE]

Content == [state : {"none", "part", "full"},
            holds : SUBSET (Releases \cup {"pinned", "other"})]
None == [state |-> "none", holds |-> {}]
Part == [state |-> "part", holds |-> {}]
Full(s) == [state |-> "full", holds |-> s]

\* What the registry has under the name f.
Served(f) ==
  CASE f = "root" -> Full({"pinned"})
    [] f = "config" -> Full({})
    [] f = "targets" -> Full(listed)
    [] f = "index" -> Full(indexed)
    [] OTHER -> Full({f})

\* An answer that is not the registry's: a login page, another registry, a
\* mirror with another object under the name.
Wrong == Full({"other"})

\* What a download that succeeds may bring.
Downloads(f) == {Served(f), Wrong}

\* The check of file f by a run for release r: root.json against the pin, the
\* registry's address and kind, the release against the targets and the index,
\* the artifact's size and digest.
Acceptable(f, c, r) ==
  /\ c.state = "full"
  /\ CASE f = "root" -> c.holds = {"pinned"}
       [] f = "config" -> "other" \notin c.holds
       [] f \in {"targets", "index"} -> r \in c.holds
       [] OTHER -> c.holds = {f}

After(f, r) ==
  CASE f = "root" -> "config"
    [] f = "config" -> "targets"
    [] f = "targets" -> "index"
    [] f = "index" -> r
    [] OTHER -> "checkout"
-----------------------------------------------------------------------------
Move(s, h) ==
  /\ at' = s
  /\ phase' = h
  /\ UNCHANGED run

\* (variant: the request outlives the run)
EndKeepingRun ==
  /\ at' = "idle"
  /\ phase' = "ask"
  /\ UNCHANGED run

End ==
  /\ at' = "idle"
  /\ phase' = "ask"
  /\ run' = NoRequest

Init ==
  /\ indexed = {}
  /\ listed = {}
  /\ collected = {}
  /\ cache = [f \in Files |-> None]
  /\ tree = [r \in Releases |-> "none"]
  /\ ready = [r \in Releases |-> FALSE]
  /\ at = "idle"
  /\ phase = "ask"
  /\ run = NoRequest
  /\ given = {}
  /\ standing = {}
-----------------------------------------------------------------------------
(***************************************************************************)
(* The registry.                                                           *)
(***************************************************************************)
IndexRelease(r) ==
  /\ indexed' = indexed \cup {r}
  /\ UNCHANGED <<listed, collected, home, locals, answers>>

\* A publisher has read the index, and will sign the targets some time later.
Collect ==
  /\ collected' = indexed
  /\ UNCHANGED <<indexed, listed, home, locals, answers>>

\* (variant: the targets are signed before the index is written)
SignTargetsFirst ==
  /\ \E r \in Releases : listed' = indexed \cup {r}
  /\ UNCHANGED <<indexed, collected, home, locals, answers>>

\* A publisher signs targets, after others have, or with what it read since.
SignTargets ==
  /\ \E s \in {indexed, collected} : s # {} /\ listed' = s
  /\ UNCHANGED <<indexed, collected, home, locals, answers>>
-----------------------------------------------------------------------------
(***************************************************************************)
(* The files.                                                              *)
(***************************************************************************)
Begin(q) ==
  /\ at = "idle"
  /\ at' = IF q.via = "http" THEN "root" ELSE "config"
  /\ phase' = "ask"
  /\ run' = q
  /\ UNCHANGED <<registry, home, answers>>

\* The releases in s that content c of file f does not contradict.
Uncontradicted(s, f, c) == {r \in s : f \in Metadata => Acceptable(f, c, r)}

\* (variant: curl writes to the cached file itself)
FetchInPlace ==
  /\ at \in Files
  /\ phase = "ask"
  /\ run.via = "http"
  /\ ~run.offline
  /\ at \in Releases => cache[at] = None
  /\ \/ \E c \in Downloads(at) :
          /\ cache' = [cache EXCEPT ![at] = c]
          /\ standing' = Uncontradicted(standing, at, c)
     \/ /\ cache' = [cache EXCEPT ![at] = Part]
        /\ UNCHANGED standing
  /\ Move(at, "read")
  /\ UNCHANGED <<registry, tree, ready, given>>

\* The file is downloaded and put in its place in the cache, unread.
Fetch ==
  /\ at \in Files
  /\ phase = "ask"
  /\ run.via = "http"
  /\ ~run.offline
  /\ at \in Releases => cache[at] = None
  /\ \E c \in Downloads(at) :
       /\ cache' = [cache EXCEPT ![at] = c]
       /\ standing' = Uncontradicted(standing, at, c)
  /\ Move(at, "read")
  /\ UNCHANGED <<registry, tree, ready, given>>

\* An artifact is copied in place.
StartCopy ==
  /\ at \in Releases
  /\ phase = "ask"
  /\ run.via = "file"
  /\ cache[at] = None
  /\ cache' = [cache EXCEPT ![at] = Part]
  /\ Move(at, "copy")
  /\ UNCHANGED <<registry, tree, ready, answers>>

FinishCopy ==
  /\ phase = "copy"
  /\ cache' = [cache EXCEPT ![at] = Served(at)]
  /\ Move(at, "read")
  /\ UNCHANGED <<registry, tree, ready, answers>>

\* What the run checks: the cached file, or the one in the directory.
Text == IF run.via = "file" /\ at \in Metadata THEN Served(at) ELSE cache[at]

\* It is time to check: the file was fetched, or it need not or must not be.
Readable ==
  /\ at \in Files
  /\ \/ phase = "read"
     \/ phase = "ask" /\ at \in Metadata /\ (run.offline \/ run.via = "file")
     \/ phase = "ask" /\ at \in Releases /\ cache[at] # None
     \/ phase = "ask" /\ at \in Releases /\ run.offline /\ run.via = "http"

Accept ==
  /\ Readable
  /\ Acceptable(at, Text, run.release)
  /\ Move(After(at, run.release), "ask")
  /\ UNCHANGED <<registry, home, answers>>

\* Absent, unreadable, or not what the pin, the release or the digest requires.
Refuse ==
  /\ Readable
  /\ ~Acceptable(at, Text, run.release)
  /\ End
  /\ UNCHANGED <<registry, home, answers>>
-----------------------------------------------------------------------------
(***************************************************************************)
(* The checkout.                                                           *)
(***************************************************************************)
FindMarker ==
  /\ at = "checkout"
  /\ ready[run.release]
  /\ tree[run.release] # "none"
  /\ Move("return", "ask")
  /\ UNCHANGED <<registry, home, answers>>

\* (variant: every run extracts anew)
IgnoreMarker ==
  /\ at = "checkout"
  /\ Move("clear", "ask")
  /\ UNCHANGED <<registry, home, answers>>

MissMarker ==
  /\ at = "checkout"
  /\ ~ready[run.release]
  /\ Move("clear", "ask")
  /\ UNCHANGED <<registry, home, answers>>

Clear ==
  /\ at = "clear"
  /\ tree' = [tree EXCEPT ![run.release] = "none"]
  /\ ready' = [ready EXCEPT ![run.release] = FALSE]
  /\ Move("extract", "ask")
  /\ UNCHANGED <<registry, cache, answers>>

\* (variant: the marker is written first)
StartExtractMarked ==
  /\ at = "extract"
  /\ tree' = [tree EXCEPT ![run.release] = "part"]
  /\ ready' = [ready EXCEPT ![run.release] = TRUE]
  /\ Move("fill", "ask")
  /\ UNCHANGED <<registry, cache, answers>>

\* The archive's listing passes and its extraction begins.
StartExtract ==
  /\ at = "extract"
  /\ tree' = [tree EXCEPT ![run.release] = "part"]
  /\ Move("fill", "ask")
  /\ UNCHANGED <<registry, cache, ready, answers>>

\* tar has extracted what there is of the archive, and there is a manifest.
FinishExtract ==
  /\ at = "fill"
  /\ tree' = [tree EXCEPT ![run.release] =
                IF cache[run.release] = Served(run.release) THEN "whole" ELSE "part"]
  /\ Move("mark", "ask")
  /\ UNCHANGED <<registry, cache, ready, answers>>

Mark ==
  /\ at = "mark"
  /\ ready' = [ready EXCEPT ![run.release] = TRUE]
  /\ Move("return", "ask")
  /\ UNCHANGED <<registry, cache, tree, answers>>

Return ==
  /\ at = "return"
  /\ given' = given \cup {[release |-> run.release, via |-> run.via]}
  /\ standing' = standing \cup {r \in {run.release} : run.via = "http"}
  /\ End
  /\ UNCHANGED <<registry, home>>

\* The run fails or is killed.  What it wrote stays; a removal that is cut short
\* may have taken some of the tree, and the marker or not.
Stop ==
  LET r == run.release IN
  /\ at # "idle"
  /\ End
  /\ \/ UNCHANGED <<tree, ready>>
     \/ /\ at = "clear"
        /\ tree[r] # "none"
        /\ tree' = [tree EXCEPT ![r] = "part"]
        /\ ready' \in {ready, [ready EXCEPT ![r] = FALSE]}
  /\ UNCHANGED <<registry, cache, answers>>
-----------------------------------------------------------------------------
Registry ==
  \/ \E r \in Releases : IndexRelease(r)
  \/ Collect
  \/ SignTargets

ReadFile ==
  \/ Fetch
  \/ StartCopy
  \/ FinishCopy
  \/ Accept
  \/ Refuse

EnsureCheckout ==
  \/ FindMarker
  \/ MissMarker
  \/ Clear
  \/ StartExtract
  \/ FinishExtract
  \/ Mark
  \/ Return

Next ==
  \/ Registry
  \/ \E q \in Requests : Begin(q)
  \/ ReadFile
  \/ EnsureCheckout
  \/ Stop

Spec == Init /\ [][Next]_vars
-----------------------------------------------------------------------------
(***************************************************************************)
(* Properties.                                                             *)
(***************************************************************************)
\* Every variable has its type.
TypeOK ==
  /\ indexed \subseteq Releases
  /\ listed \subseteq Releases
  /\ collected \subseteq Releases
  /\ cache \in [Files -> Content]
  /\ tree \in [Releases -> {"none", "part", "whole"}]
  /\ ready \in [Releases -> BOOLEAN]
  /\ at \in Files \cup Stages
  /\ phase \in {"ask", "copy", "read"}
  /\ IF at = "idle" THEN run = NoRequest ELSE run \in Requests
  /\ given \subseteq Answers
  /\ standing \subseteq Releases

\* A checkout with a marker has every file of its archive: the next run returns
\* it without looking at the archive again (EnsureCheckout, Client.cpp:714).
ReadyCheckoutIsWhole == \A r \in Releases : ready[r] => tree[r] = "whole"

\* Once a run has returned a release through http, a run without network access
\* is not refused it ("local cache and offline behavior remain valid when no
\* mirror is reachable", Pafio-Registry-Client-Contract.md:34).
OfflineStaysValid ==
  Readable /\ run.offline /\ run.via = "http"
  /\ [release |-> run.release, via |-> "http"] \in given
    => Acceptable(at, Text, run.release)

\* As the code has it: an answer can be repeated offline until a download brings
\* a root, config, targets or index file that does not bear it out.  Nothing else
\* takes it away: no stop at any step, no failed download, no run that was
\* refused for another reason, no answer about another release, no wrong or
\* half-copied artifact (FetchUrlToFile, Client.cpp:359-417).
StandingAnswersRepeat ==
  Readable /\ run.offline /\ run.via = "http" /\ run.release \in standing
    => Acceptable(at, Text, run.release)

\* A run that has read the release in the targets file finds it in the index
\* file it reads next if the registry answers at all, though publishes go on and
\* race: the registry writes the two in the opposite order.
ListedIsIndexed ==
  at = "index" /\ Readable /\ ~run.offline /\ Text # Wrong => run.release \in Text.holds

\* The checkouts are a SnapshotStore: one is complete when it is returned, and
\* whatever happens afterwards.
Store == INSTANCE SnapshotStore WITH
  Items <- Releases,
  KeptFirst <- TRUE,
  complete <- {r \in Releases : tree[r] = "whole"},
  kept <- {r \in Releases : ready[r]},
  given <- {g.release : g \in given}

ImplementsStore == Store!Spec
=============================================================================
