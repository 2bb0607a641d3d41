----------------------------- MODULE SourceCache -----------------------------
(***************************************************************************)
(* Pinned git sources: GitSourceCache of src/PafioResolve/Resolver.cpp and *)
(* WriteVendorTree of src/PafioVendor/Vendor.cpp, on one PAFIO_HOME and    *)
(* one project.                                                            *)
(*                                                                         *)
(* A run resolves a dependency graph, which pins some revisions of a git   *)
(* source, one after the other: a revision is taken from the project's     *)
(* vendor root, else from a checkout under PAFIO_HOME, made from a mirror  *)
(* of the source that is cloned or fetched when needed.  A vendor run then *)
(* empties <vendor root>/git and copies there what it has resolved.  A run *)
(* can stop at any step (a process that fails, times out or is killed, a   *)
(* write that fails and is noticed) and what it wrote stays.  The one      *)
(* write that can fail unnoticed is that of a checkout's marker.           *)
(*                                                                         *)
(* One run at a time; one git source, hence one mirror.  The vendor root a *)
(* run resolves with is the one vendor writes to.  The tar file between    *)
(* git archive and tar is left out, every archive being written anew, and  *)
(* so is pafio-vendor.json, which is only read to be shown.  A mirror has  *)
(* a revision with all its objects or not at all.                          *)
(***************************************************************************)
CONSTANT Revs     \* the revisions that a dependency can pin

ASSUME SourceAssumption == "none" \notin Revs

VARIABLES
  upstream,       \* the revisions the git source has
  mirror,         \* repos/<hash>.git: none, left by a killed clone, or cloned
  mirrored,       \* the revisions the mirror has
  tree,           \* revision -> state of its checkout directory
  ready,          \* revision -> .pafio-snapshot-ready exists in it
  vtree,          \* revision -> state of its directory in the vendor root
  vready,         \* revision -> .pafio-snapshot-ready exists in it
  at,             \* the stage the run has come to
  rev,            \* the revision it is at
  todo,           \* the revisions it has not come to
  from,           \* revision -> where the run has found its snapshot
  run,            \* what the run is: vendor or not, offline, needs
  given,          \* the checkouts a run has resolved to (history)
  withdrawn,      \* the revisions the git source has dropped (history)
  served,         \* what the last vendor run to get that far left (history)
  torn            \* a vendor run was stopped in the middle of a tree (history)

git == <<upstream, mirror, mirrored>>
home == <<tree, ready>>
vendor == <<vtree, vready>>
locals == <<at, rev, todo, from, run>>
history == <<given, withdrawn, served, torn>>
vars == <<git, home, vendor, locals, history>>

Runs == [vendor : BOOLEAN, offline : BOOLEAN, needs : SUBSET Revs]
NoRun == [vendor |-> FALSE, offline |-> FALSE, needs |-> {}]
Stages == {"idle", "next", "lookup", "revision", "recheck", "checkout", "clear", "extract",
           "fill", "mark", "wipe", "copy", "copying"}

\* The state of a tree: not there, without a manifest, with one, with everything.
Trees == {"none", "part", "rooted", "whole"}
HasManifest(t) == t \in {"rooted", "whole"}

\* What a removal that is cut short can leave of tree t.
Remains(t) == CASE t = "whole" -> Trees
                [] t = "rooted" -> {"none", "part", "rooted"}
                [] OTHER -> {"none", t}

\* FindVendoredSnapshot accepts what is vendored for revision r.
Vendored(r) == vtree[r] # "none" /\ (vready[r] \/ HasManifest(vtree[r]))
-----------------------------------------------------------------------------
Goto(from_, to) ==
  /\ at = from_
  /\ at' = to

\* (variant: what was to be done outlives the run)
EndKeepingTodo ==
  /\ at' = "idle"
  /\ from' = [r \in Revs |-> "none"]
  /\ run' = NoRun
  /\ rev' = "none"
  /\ UNCHANGED todo

End ==
  /\ at' = "idle"
  /\ todo' = {}
  /\ from' = [r \in Revs |-> "none"]
  /\ run' = NoRun
  /\ rev' = "none"

Init ==
  /\ upstream = {}
  /\ mirror = "none"
  /\ mirrored = {}
  /\ tree = [r \in Revs |-> "none"]
  /\ ready = [r \in Revs |-> FALSE]
  /\ vtree = [r \in Revs |-> "none"]
  /\ vready = [r \in Revs |-> FALSE]
  /\ at = "idle"
  /\ rev = "none"
  /\ todo = {}
  /\ from = [r \in Revs |-> "none"]
  /\ run = NoRun
  /\ given = {}
  /\ withdrawn = {}
  /\ served = {}
  /\ torn = FALSE
-----------------------------------------------------------------------------
(***************************************************************************)
(* Around the runs.                                                        *)
(***************************************************************************)
Push(r) ==
  /\ upstream' = upstream \cup {r}
  /\ UNCHANGED <<mirror, mirrored, home, vendor, locals, history>>

\* The git source rewrites its history: no ref reaches the revision any more.
Withdraw(r) ==
  /\ r \in upstream
  /\ upstream' = upstream \ {r}
  /\ withdrawn' = withdrawn \cup {r}
  /\ UNCHANGED <<mirror, mirrored, home, vendor, locals, given, served, torn>>

\* The user deletes PAFIO_HOME.
DeleteHome ==
  /\ at = "idle"
  /\ mirror' = "none"
  /\ mirrored' = {}
  /\ tree' = [r \in Revs |-> "none"]
  /\ ready' = [r \in Revs |-> FALSE]
  /\ given' = {}
  /\ UNCHANGED <<upstream, vendor, locals, withdrawn, served, torn>>

Begin(n) ==
  /\ Goto("idle", "next")
  /\ run' = n
  /\ todo' = n.needs
  /\ UNCHANGED <<git, home, vendor, rev, from, history>>
-----------------------------------------------------------------------------
(***************************************************************************)
(* Resolving: Materialize for each pinned revision.                        *)
(***************************************************************************)
Pick(r) ==
  /\ Goto("next", "lookup")
  /\ r \in todo
  /\ rev' = r
  /\ UNCHANGED <<git, home, vendor, todo, from, run, history>>

\* The snapshot of the current revision is found in place p.
Found(p) ==
  /\ at' = "next"
  /\ from' = [from EXCEPT ![rev] = p]
  /\ todo' = todo \ {rev}
  /\ UNCHANGED <<rev, run>>

UseVendored ==
  /\ at = "lookup"
  /\ Vendored(rev)
  /\ Found("vendor")
  /\ UNCHANGED <<git, home, vendor, history>>

UseMirror ==
  /\ Goto("lookup", "revision")
  /\ ~Vendored(rev)
  /\ mirror # "none"
  /\ UNCHANGED <<git, home, vendor, rev, todo, from, run, history>>

Clone ==
  /\ Goto("lookup", "revision")
  /\ ~Vendored(rev)
  /\ mirror = "none"
  /\ ~run.offline
  /\ mirror' = "cloned"
  /\ mirrored' = upstream
  /\ UNCHANGED <<upstream, home, vendor, rev, todo, from, run, history>>

\* git clone is killed, by the timeout of RunProcess or from outside: it has no
\* chance to remove what it has begun.
KillClone ==
  /\ at = "lookup"
  /\ ~Vendored(rev)
  /\ mirror = "none"
  /\ ~run.offline
  /\ mirror' = "part"
  /\ End
  /\ UNCHANGED <<upstream, mirrored, home, vendor, history>>

\* git fetch --prune: what arrives is added; what the source has dropped is no
\* longer reachable in the mirror, and git may collect it.  A mirror whose clone
\* was killed fetches what it was configured to by then.
Fetch ==
  /\ Goto("revision", "recheck")
  /\ rev \notin mirrored
  /\ ~run.offline
  /\ \E s \in SUBSET upstream, d \in SUBSET (mirrored \ upstream) :
       /\ mirror = "cloned" => s = upstream
       /\ mirrored' = (mirrored \cup s) \ d
  /\ UNCHANGED <<upstream, mirror, home, vendor, rev, todo, from, run, history>>

\* git fetch is killed: some of what it was to bring may have arrived.
KillFetch ==
  /\ at = "revision"
  /\ rev \notin mirrored
  /\ ~run.offline
  /\ \E s \in SUBSET upstream : mirrored' = mirrored \cup s
  /\ End
  /\ UNCHANGED <<upstream, mirror, home, vendor, history>>

HaveRevision ==
  /\ at \in {"revision", "recheck"}
  /\ at' = "checkout"
  /\ rev \in mirrored
  /\ UNCHANGED <<git, home, vendor, rev, todo, from, run, history>>

\* (variant: without network access only vendored revisions are resolved)
MustRefuseUnlessVendored ==
  \/ at = "lookup" /\ ~Vendored(rev) /\ run.offline
  \/ at = "revision" /\ rev \notin mirrored /\ run.offline
  \/ at = "recheck" /\ rev \notin mirrored

\* A run without network access needs what it does not have, or the source does
\* not have the revision.
MustRefuse ==
  \/ at = "lookup" /\ ~Vendored(rev) /\ mirror = "none" /\ run.offline
  \/ at = "revision" /\ rev \notin mirrored /\ run.offline
  \/ at = "recheck" /\ rev \notin mirrored

Refuse ==
  /\ MustRefuse
  /\ End
  /\ UNCHANGED <<git, home, vendor, history>>

\* (variant: a checkout with a manifest is taken to be complete)
FindManifest ==
  /\ at = "checkout"
  /\ ready[rev] \/ HasManifest(tree[rev])
  /\ Found("home")
  /\ UNCHANGED <<git, home, vendor, history>>

FindMarker ==
  /\ at = "checkout"
  /\ ready[rev]
  /\ Found("home")
  /\ UNCHANGED <<git, home, vendor, history>>

\* (variant: every run extracts anew)
IgnoreMarker ==
  /\ Goto("checkout", "clear")
  /\ UNCHANGED <<git, home, vendor, rev, todo, from, run, history>>

MissMarker ==
  /\ Goto("checkout", "clear")
  /\ ~ready[rev]
  /\ UNCHANGED <<git, home, vendor, rev, todo, from, run, history>>

Clear ==
  /\ Goto("clear", "extract")
  /\ tree' = [tree EXCEPT ![rev] = "none"]
  /\ ready' = [ready EXCEPT ![rev] = FALSE]
  /\ UNCHANGED <<git, vendor, rev, todo, from, run, history>>

\* The archive is made, and tar begins.
StartExtract ==
  /\ Goto("extract", "fill")
  /\ tree' \in {[tree EXCEPT ![rev] = t] : t \in {"part", "rooted"}}
  /\ UNCHANGED <<git, ready, vendor, rev, todo, from, run, history>>

FinishExtract ==
  /\ Goto("fill", "mark")
  /\ tree' = [tree EXCEPT ![rev] = "whole"]
  /\ UNCHANGED <<git, ready, vendor, rev, todo, from, run, history>>

Mark ==
  /\ at = "mark"
  /\ ready' = [ready EXCEPT ![rev] = TRUE]
  /\ Found("home")
  /\ UNCHANGED <<git, tree, vendor, history>>

\* The marker cannot be created, and nobody asks whether it was.
MarkIsLost ==
  /\ at = "mark"
  /\ Found("home")
  /\ UNCHANGED <<git, home, vendor, history>>

\* Every revision is resolved, and that is all the run was for.
Return ==
  /\ at = "next"
  /\ todo = {}
  /\ ~run.vendor
  /\ given' = given \cup {r \in run.needs : from[r] = "home"}
  /\ End
  /\ UNCHANGED <<git, home, vendor, withdrawn, served, torn>>
-----------------------------------------------------------------------------
(***************************************************************************)
(* Vendoring: WriteVendorTree once the graph is resolved.                  *)
(***************************************************************************)
StartVendor ==
  /\ Goto("next", "wipe")
  /\ todo = {}
  /\ run.vendor
  /\ given' = given \cup {r \in run.needs : from[r] = "home"}
  /\ served' = {}
  /\ UNCHANGED <<git, home, vendor, rev, todo, from, run, withdrawn, torn>>

Wipe ==
  /\ Goto("wipe", "copy")
  /\ vtree' = [r \in Revs |-> "none"]
  /\ vready' = [r \in Revs |-> FALSE]
  /\ todo' = run.needs
  /\ torn' = FALSE
  /\ UNCHANGED <<git, home, rev, from, run, given, withdrawn, served>>

\* The state of the snapshot that the run has resolved revision r to.
Source(r) == IF from[r] = "home" THEN tree[r] ELSE vtree[r]

\* The marker of a checkout, where it has one, is one of the files copied.
StartCopy(r) ==
  /\ Goto("copy", "copying")
  /\ r \in todo
  /\ Source(r) # "none"
  /\ rev' = r
  /\ vtree' \in {[vtree EXCEPT ![r] = t] : t \in {"part", "rooted"}}
  /\ vready' \in {vready, [vready EXCEPT ![r] = ready[r]]}
  /\ UNCHANGED <<git, home, todo, from, run, history>>

\* (variant: the copy is not recursive)
FinishFlatCopy ==
  /\ Goto("copying", "copy")
  /\ vtree' = [vtree EXCEPT ![rev] = "rooted"]
  /\ vready' = [vready EXCEPT ![rev] = TRUE]
  /\ todo' = todo \ {rev}
  /\ UNCHANGED <<git, home, rev, from, run, history>>

\* The copy is complete, and vendor has written its own marker.
FinishCopy ==
  /\ Goto("copying", "copy")
  /\ vtree' = [vtree EXCEPT ![rev] = Source(rev)]
  /\ vready' = [vready EXCEPT ![rev] = TRUE]
  /\ todo' = todo \ {rev}
  /\ UNCHANGED <<git, home, rev, from, run, history>>

\* "vendored source snapshot does not exist"
MissSource(r) ==
  /\ at = "copy"
  /\ r \in todo
  /\ Source(r) = "none"
  /\ End
  /\ UNCHANGED <<git, home, vendor, history>>

FinishVendor ==
  /\ at = "copy"
  /\ todo = {}
  /\ served' = run.needs
  /\ End
  /\ UNCHANGED <<git, home, vendor, given, withdrawn, torn>>
-----------------------------------------------------------------------------
\* The run fails or is killed where it is.
Stop ==
  /\ at # "idle"
  /\ End
  /\ \/ /\ at = "clear"
        /\ \E t \in Remains(tree[rev]) : tree' = [tree EXCEPT ![rev] = t]
        /\ ready' \in {ready, [ready EXCEPT ![rev] = FALSE]}
        /\ UNCHANGED <<vendor, torn>>
     \/ /\ at = "wipe"
        /\ vtree' \in [Revs -> Trees]
        /\ \A r \in Revs : vtree'[r] \in Remains(vtree[r])
        /\ vready' \in [Revs -> BOOLEAN]
        /\ \A r \in Revs : vready'[r] => vready[r] /\ vtree'[r] # "none"
        /\ torn' = TRUE
        /\ UNCHANGED home
     \/ /\ at = "copying"
        /\ torn' = TRUE
        /\ UNCHANGED <<home, vendor>>
     \/ /\ at \notin {"clear", "wipe", "copying"}
        /\ UNCHANGED <<home, vendor, torn>>
  /\ UNCHANGED <<git, given, withdrawn, served>>

Materialize ==
  \/ \E r \in Revs : Pick(r)
  \/ UseVendored
  \/ UseMirror
  \/ Clone
  \/ KillClone
  \/ Fetch
  \/ KillFetch
  \/ HaveRevision
  \/ Refuse
  \/ FindMarker
  \/ MissMarker
  \/ Clear
  \/ StartExtract
  \/ FinishExtract
  \/ Mark
  \/ MarkIsLost
  \/ Return

WriteVendorTree ==
  \/ StartVendor
  \/ Wipe
  \/ \E r \in Revs : StartCopy(r) \/ MissSource(r)
  \/ FinishCopy
  \/ FinishVendor

Next ==
  \/ \E r \in Revs : Push(r) \/ Withdraw(r)
  \/ DeleteHome
  \/ \E n \in Runs : Begin(n)
  \/ Materialize
  \/ WriteVendorTree
  \/ Stop

Spec == Init /\ [][Next]_vars
-----------------------------------------------------------------------------
(***************************************************************************)
(* Properties.                                                             *)
(***************************************************************************)
\* Every variable has its type.
TypeOK ==
  /\ upstream \subseteq Revs
  /\ mirror \in {"none", "part", "cloned"}
  /\ mirrored \subseteq Revs
  /\ tree \in [Revs -> Trees]
  /\ ready \in [Revs -> BOOLEAN]
  /\ vtree \in [Revs -> Trees]
  /\ vready \in [Revs -> BOOLEAN]
  /\ at \in Stages
  /\ rev \in Revs \cup {"none"}
  /\ todo \subseteq Revs
  /\ from \in [Revs -> {"none", "home", "vendor"}]
  /\ run \in Runs
  /\ at = "idle" => run = NoRun /\ todo = {} /\ from = [r \in Revs |-> "none"]
  /\ given \subseteq Revs
  /\ withdrawn \subseteq Revs
  /\ served \subseteq Revs
  /\ torn \in BOOLEAN

\* A run without network access is not refused a revision that an earlier run
\* has resolved under this PAFIO_HOME, however the runs in between ended, as long
\* as the git source has kept it: the checkout alone is not enough (Materialize
\* asks the mirror first, Resolver.cpp:207-231).
OfflineStaysValid == run.offline /\ rev \in given \ withdrawn => ~MustRefuse

\* What a vendor run that ended well has vendored is complete, and resolved
\* from there, until another one starts to write: deleting PAFIO_HOME, failing
\* runs and lost network access change nothing.
VendoredServes ==
  \A r \in served : vtree[r] = "whole" /\ Vendored(r)

\* A snapshot that a run has found is complete, unless it is a vendored one and
\* a vendor run was cut short in the middle of a tree, or is the run itself: it
\* removes the vendor root before it copies what it may have resolved from there
\* (Vendor.cpp:115-127).
FoundIsWhole ==
  \A r \in Revs :
    from[r] = "home" \/ (from[r] = "vendor" /\ ~torn /\ at \notin {"copy", "copying"})
    => Source(r) = "whole"

\* The checkouts under PAFIO_HOME are a SnapshotStore, in which a snapshot can be
\* handed out without being kept: its marker was lost.
Store == INSTANCE SnapshotStore WITH
  Items <- Revs,
  KeptFirst <- FALSE,
  complete <- {r \in Revs : tree[r] = "whole"},
  kept <- {r \in Revs : ready[r]},
  given <- given

ImplementsStore == Store!Spec
=============================================================================
