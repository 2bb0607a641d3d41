---------------------------- MODULE ProjectEdits ----------------------------
(***************************************************************************)
(* The manifest and the lockfile of a project, and the commands that edit  *)
(* them, refresh the lockfile or build from them: InitializeProject        *)
(* (PafioManifest/Manifest.cpp), AddDependencyAndRefreshLock,              *)
(* RemoveDependencyAndRefreshLock and FetchDependencies                    *)
(* (PafioWorkflow/Dependencies.cpp), the handlers of                       *)
(* PafioApp/PackageApp.cpp and WorkflowApp.cpp, and the policy of --locked *)
(* and --offline (PafioCLI/Support.cpp).                                   *)
(*                                                                         *)
(* No file is locked, every file is rewritten in place, and every phase of *)
(* a command reads the files again.  What resolution does inside is in     *)
(* PackageGraph; here it maps a manifest to the text of a lockfile, which  *)
(* also depends on the manifests of path packages and on the git sources   *)
(* that are already cached.                                                *)
(***************************************************************************)
EXTENDS Integers, Sequences, FiniteSets

CONSTANTS Procs, Aliases,
          PathPackages,  \* packages in directories beside the project
          GitPackages,   \* packages in git sources, which have to be fetched
          Commands,      \* the command lines that are tried
          Manifests,     \* the manifests a user may write by hand
          MaxRuns,       \* bound: runs started in a behaviour
          MaxMoves,      \* bound: changes to the project that are not pafio's
          None, Torn, Scaffold

Files == {"manifest", "lock", "source"}
Packages == PathPackages \cup GitPackages
Sections == {"dependencies", "dev-dependencies"}
Dependencies == [alias : Aliases, package : Packages, section : Sections]

\* Version 0 of a path package is one that does not resolve.
PathVersions == 0..2

\* The commands that resolve the project and change no dependency.
Workflows == {"lock", "sync", "fetch", "tree", "vendor", "check", "project-graph", "build"}

ASSUME EditsAssumption ==
  /\ IsFiniteSet(Dependencies)
  /\ Manifests \subseteq SUBSET Dependencies
  /\ MaxRuns \in Nat /\ MaxMoves \in Nat

\* A command line that parses has the options of its command.
ASSUME CommandsAssumption ==
  \A c \in Commands :
    /\ c.do = "add" => c.alias \in Aliases /\ c.package \in Packages /\ c.section \in Sections
    /\ c.do \in Workflows => c.locked \in BOOLEAN /\ c.offline \in BOOLEAN
    /\ c.do = "lock" => c.check \in BOOLEAN

VARIABLES files,   \* "manifest": a set of dependencies, "lock": what
                   \* SerializeLockfileCanonical wrote, "source": the entry file
          paths,   \* the version of each path package
          cached,  \* the git packages whose source is cached or vendored
          proc, runs, moves,
          done     \* history: the last command that ended and was alone from its
                   \* start to its end, until the next begins

vars == <<files, paths, cached, proc, runs, moves, done>>

Parses(text) == text \notin {None, Torn}

-----------------------------------------------------------------------------
(* Resolution                                                               *)

Named(m) == {d.package : d \in m}
Version(a) == IF a \in PathPackages THEN paths[a] ELSE 1
LockOf(m) == {[package |-> a, version |-> Version(a)] : a \in Named(m)}

Broken(m) == \E a \in Named(m) \cap PathPackages : paths[a] = 0
Missing(m) == (Named(m) \cap GitPackages) \ cached

\* Variant: a broken package resolves.
ResolvesAnything(offline) ==
  LET m == files["manifest"]
  IN  /\ Parses(m) /\ (offline => Missing(m) = {})
      /\ cached' = cached \cup Missing(m)

\* ResolveSingleVersionLockfile of the manifest as it is now.  A git source that
\* is not cached is fetched; how the cache fills is in SourceCache.
Resolves(offline) ==
  LET m == files["manifest"]
  IN  /\ Parses(m) /\ ~Broken(m) /\ (offline => Missing(m) = {})
      /\ cached' = cached \cup Missing(m)

\* It fails on a broken package, when something is missing offline, or when a
\* source cannot be fetched; some sources may have been fetched by then.
ResolveFails(offline) ==
  LET m == files["manifest"]
  IN  \/ ~Parses(m) /\ UNCHANGED cached
      \/ /\ Parses(m)
         /\ Broken(m) \/ Missing(m) # {}
         /\ \E got \in SUBSET (IF offline THEN {} ELSE Missing(m)) :
              /\ Broken(m) \/ got # Missing(m)
              /\ cached' = cached \cup got

Generated == LockOf(files["manifest"])

-----------------------------------------------------------------------------
(* Runs                                                                     *)

Idle == [at |-> "idle", cmd |-> None, text |-> None, lock |-> None, todo |-> <<>>,
         next |-> "idle", open |-> FALSE, graph |-> None, undo |-> FALSE, before |-> None]

\* A command ends, with success or not.  "before" holds what it found at its
\* start, for as long as nobody else has come between.
Ends(p, ok, graph) ==
  /\ proc' = [proc EXCEPT ![p] = Idle]
  /\ done' = IF proc[p].before = None THEN None
             ELSE [cmd |-> proc[p].cmd, ok |-> ok, graph |-> graph, before |-> proc[p].before]

Fails(p) == Ends(p, FALSE, None)

\* It ends with a failure that leaves the files as they happen to be.
Abandons(p) == proc' = [proc EXCEPT ![p] = Idle] /\ done' = None

Goto(p, at) == proc' = [proc EXCEPT ![p].at = at] /\ UNCHANGED done

Put(f, text) == [file |-> f, text |-> text]
Writes(r, todo, next) == [r EXCEPT !.at = "write", !.todo = todo, !.next = next]

Disturbed == [q \in Procs |-> IF proc[q].at = "idle" THEN proc[q]
                              ELSE [proc[q] EXCEPT !.before = None]]

Begin(p, c, at) ==
  /\ proc[p].at = "idle" /\ runs < MaxRuns
  /\ runs' = runs + 1
  /\ done' = None
  /\ proc' = [Disturbed EXCEPT ![p] =
       [Idle EXCEPT !.cmd = c, !.at = at,
          !.before = IF \A q \in Procs \ {p} : proc[q].at = "idle"
                     THEN [manifest |-> files["manifest"], lock |-> files["lock"]]
                     ELSE None]]
  /\ UNCHANGED <<files, paths, cached, moves>>

\* The run is killed: what it has written stays, an open file stays truncated.
Stop(p) ==
  /\ proc[p].at # "idle"
  /\ proc' = [proc EXCEPT ![p] = Idle]
  /\ UNCHANGED <<files, paths, cached, runs, moves, done>>

\* Somebody edits the manifest or a package beside the project, or removes
\* cached or vendored sources.
UserEdits ==
  /\ moves < MaxMoves /\ moves' = moves + 1
  /\ proc' = Disturbed /\ done' = None
  /\ \/ \E m \in Manifests \ {files["manifest"]} :
          files' = [files EXCEPT !["manifest"] = m] /\ UNCHANGED <<paths, cached>>
     \/ \E a \in PathPackages, v \in PathVersions :
          /\ v # paths[a] /\ paths' = [paths EXCEPT ![a] = v]
          /\ UNCHANGED <<files, cached>>
     \/ \E lost \in SUBSET cached \ {{}} :
          cached' = cached \ lost /\ UNCHANGED <<files, paths>>
  /\ UNCHANGED runs

-----------------------------------------------------------------------------
(* WriteFile and WriteCanonicalLockfile                                     *)

Truncate(p) ==
  /\ proc[p].at = "write" /\ ~proc[p].open
  /\ files' = [files EXCEPT ![Head(proc[p].todo).file] = Torn]
  /\ proc' = [proc EXCEPT ![p].open = TRUE]
  /\ UNCHANGED <<paths, cached, runs, moves, done>>

Continued(r) == [r EXCEPT !.todo = Tail(@), !.open = FALSE,
                      !.at = IF Len(r.todo) = 1 THEN r.next ELSE "write"]

Fill(p) ==
  /\ proc[p].at = "write" /\ proc[p].open
  /\ files' = [files EXCEPT ![Head(proc[p].todo).file] = Head(proc[p].todo).text]
  /\ proc' = [proc EXCEPT ![p] = Continued(@)]
  /\ UNCHANGED <<paths, cached, runs, moves, done>>

\* InitializeProject writes with streams of its own and asks neither whether
\* they opened nor whether they are good.
Initializes(c) == c.do \in {"new", "init"}

\* A write is lost and the run goes on as if the text were there: the disk is
\* full and the text left the buffer only when the stream was closed, after
\* out.good() was asked, or nobody asks at all.
FillIsLost(p) ==
  /\ proc[p].at = "write"
  /\ proc[p].open \/ Initializes(proc[p].cmd)
  /\ proc' = [proc EXCEPT ![p] = [Continued(@) EXCEPT !.before = None]]
  /\ UNCHANGED <<files, paths, cached, runs, moves, done>>

\* Variant: only the lockfile is restored.
RolledBackLockOnly(r) ==
  [r EXCEPT !.at = "restore", !.undo = TRUE, !.open = FALSE, !.graph = None]

\* The handler of CommitManifestEdit's try block, whatever was thrown in it
RolledBack(r) ==
  [Writes(r, <<Put("manifest", r.text)>>, "restore")
     EXCEPT !.undo = TRUE, !.open = FALSE, !.graph = None]

\* A write throws: the file does not open and stays as it is, or the text is
\* larger than the buffer and stays cut.  An edit is rolled back.  Nothing
\* catches what the rollback throws: it ends there, with the lockfile not
\* restored if it was at the manifest.
WriteThrows(p) ==
  /\ proc[p].at = "write" /\ ~Initializes(proc[p].cmd)
  /\ IF proc[p].cmd.do \in {"add", "remove"} /\ ~proc[p].undo
     THEN proc' = [proc EXCEPT ![p] = RolledBack(@)] /\ UNCHANGED done
     ELSE Abandons(p)
  /\ UNCHANGED <<files, paths, cached, runs, moves>>

\* A command whose last file is written.
Written(p) ==
  /\ proc[p].at = "written"
  /\ Ends(p, ~proc[p].undo, proc[p].graph)
  /\ UNCHANGED <<files, paths, cached, runs, moves>>

-----------------------------------------------------------------------------
(* The handlers: a command line that parses starts the command              *)

Asked(do) == {c \in Commands : c.do = do}

HandleNew(p) == \E c \in Asked("new") : Begin(p, c, "init")
HandleInit(p) == \E c \in Asked("init") : Begin(p, c, "init")
HandleAdd(p) == \E c \in Asked("add") : Begin(p, c, "read")
HandleRemove(p) == \E c \in Asked("remove") : Begin(p, c, "read")

\* lock takes no --locked, tree neither that nor --offline.
HandleLock(p) == \E c \in Asked("lock") : ~c.locked /\ Begin(p, c, "resolve")
HandleTree(p) == \E c \in Asked("tree") : ~c.locked /\ ~c.offline /\ Begin(p, c, "resolve")

HandleSync(p) == \E c \in Asked("sync") : Begin(p, c, "policy")
HandleFetch(p) == \E c \in Asked("fetch") : Begin(p, c, "policy")
HandleVendor(p) == \E c \in Asked("vendor") : Begin(p, c, "policy")
HandleProjectGraph(p) == \E c \in Asked("project-graph") : Begin(p, c, "policy")
HandleCheck(p) == \E c \in Asked("check") : files["manifest"] # None /\ Begin(p, c, "policy")
HandlePlanCommand(p) == \E c \in Asked("build") : Begin(p, c, "policy")

-----------------------------------------------------------------------------
(* InitializeProject                                                        *)

Initialize(p) ==
  /\ proc[p].at = "init" /\ files["manifest"] = None
  /\ proc' = [proc EXCEPT ![p] =
       Writes(@, <<Put("manifest", {}), Put("source", Scaffold)>>, "written")]
  /\ UNCHANGED <<files, paths, cached, runs, moves, done>>

InitializeFails(p) ==
  /\ proc[p].at = "init" /\ files["manifest"] # None
  /\ Fails(p)
  /\ UNCHANGED <<files, paths, cached, runs, moves>>

-----------------------------------------------------------------------------
(* add and remove                                                           *)

\* The texts to go back to are read before the manifest is parsed, from the
\* file again.
ReadOriginals(p) ==
  /\ proc[p].at = "read" /\ files["manifest"] # None
  /\ proc' = [proc EXCEPT ![p].at = "edit", ![p].text = files["manifest"],
                          ![p].lock = files["lock"]]
  /\ UNCHANGED <<files, paths, cached, runs, moves, done>>

CanAdd(m, c) == \A d \in m : d.alias # c.alias /\ d.package # c.package

Added(m, c) == m \cup {[alias |-> c.alias, package |-> c.package, section |-> c.section]}

\* FindMatches: the target is an alias, or else a package, in one section or both
FindMatches(m, c) ==
  LET found == {d \in m : c.section = None \/ d.section = c.section}
      byAlias == {d \in found : d.alias = c.target}
  IN  IF byAlias # {} THEN byAlias ELSE {d \in found : d.package = c.target}

Edited(m, c) == CASE c.do = "add" -> Added(m, c)
                  [] c.do = "remove" -> m \ FindMatches(m, c)

CanEdit(m, c) ==
  /\ Parses(m)
  /\ CASE c.do = "add" -> CanAdd(m, c)
       [] c.do = "remove" -> Cardinality(FindMatches(m, c)) = 1

Edit(p) ==
  LET m == files["manifest"]
  IN  /\ proc[p].at = "edit" /\ CanEdit(m, proc[p].cmd)
      /\ proc' = [proc EXCEPT ![p] =
           Writes(@, <<Put("manifest", Edited(m, proc[p].cmd))>>, "relock")]
      /\ UNCHANGED <<files, paths, cached, runs, moves, done>>

EditFails(p) ==
  /\ \/ proc[p].at = "read" /\ files["manifest"] = None
     \/ proc[p].at = "edit" /\ ~CanEdit(files["manifest"], proc[p].cmd)
  /\ Fails(p)
  /\ UNCHANGED <<files, paths, cached, runs, moves>>

\* CommitManifestEdit, once the manifest is written
Relock(p) ==
  /\ proc[p].at = "relock" /\ Resolves(FALSE)
  /\ proc' = [proc EXCEPT ![p] =
       [Writes(@, <<Put("lock", Generated)>>, "written") EXCEPT !.graph = Generated]]
  /\ UNCHANGED <<files, paths, runs, moves, done>>

RollBack(p) ==
  /\ proc[p].at = "relock" /\ ResolveFails(FALSE)
  /\ proc' = [proc EXCEPT ![p] = RolledBack(@)]
  /\ UNCHANGED <<files, paths, runs, moves, done>>

\* Whether the removal fails is not asked.
RestoreLockfile(p) ==
  /\ proc[p].at = "restore"
  /\ IF proc[p].lock # None
     THEN /\ proc' = [proc EXCEPT ![p] = Writes(@, <<Put("lock", proc[p].lock)>>, "written")]
          /\ UNCHANGED <<files, done>>
     ELSE \/ files' = [files EXCEPT !["lock"] = None] /\ Fails(p)
          \/ UNCHANGED files /\ Abandons(p)
  /\ UNCHANGED <<paths, cached, runs, moves>>

-----------------------------------------------------------------------------
(* The other commands                                                       *)

\* Variant: a lockfile only has to be there.
PolicyOnPresence(p) ==
  /\ proc[p].at = "policy"
  /\ proc[p].cmd.locked => files["lock"] # None
  /\ Goto(p, "resolve")
  /\ UNCHANGED <<files, paths, cached, runs, moves>>

\* ValidateLockedPolicy
Policy(p) ==
  /\ proc[p].at = "policy"
  /\ IF proc[p].cmd.locked
     THEN Resolves(proc[p].cmd.offline) /\ files["lock"] = Generated
     ELSE UNCHANGED cached
  /\ Goto(p, "resolve")
  /\ UNCHANGED <<files, paths, runs, moves>>

PolicyFails(p) ==
  /\ proc[p].at = "policy" /\ proc[p].cmd.locked
  /\ \/ files["lock"] = None /\ UNCHANGED cached
     \/ files["lock"] # None /\ ResolveFails(proc[p].cmd.offline)
     \/ /\ files["lock"] # None /\ Resolves(proc[p].cmd.offline)
        /\ files["lock"] # Generated
  /\ Fails(p)
  /\ UNCHANGED <<files, paths, runs, moves>>

\* lock --check demands a lockfile; check only looks at one that is there
LockIsRefused(c) ==
  LET stale == files["lock"] # Generated
  IN  CASE c.do = "lock" /\ c.check -> stale
        [] c.do = "check" -> files["lock"] # None /\ stale
        [] OTHER -> FALSE

WritesLock(c) ==
  \/ c.do = "lock" /\ ~c.check
  \/ c.do = "sync" /\ ~c.locked /\ files["lock"] # Generated

\* HandleLock, HandleSync, HandleFetch, HandleTree, HandleVendor, HandleCheck,
\* HandleProjectGraph and HandlePlanCommand resolve once more, and work with that.
Use(p) ==
  LET c == proc[p].cmd
  IN  /\ proc[p].at = "resolve" /\ Resolves(c.offline) /\ ~LockIsRefused(c)
      /\ IF WritesLock(c)
         THEN /\ proc' = [proc EXCEPT ![p] =
                   [Writes(@, <<Put("lock", Generated)>>,
                           IF c.do = "sync" THEN "fetch" ELSE "written")
                    EXCEPT !.graph = Generated]]
              /\ UNCHANGED done
         ELSE IF c.do = "sync"
         THEN /\ proc' = [proc EXCEPT ![p].at = "fetch", ![p].graph = Generated]
              /\ UNCHANGED done
         ELSE Ends(p, TRUE, Generated)
      /\ UNCHANGED <<files, paths, runs, moves>>

\* FetchDependencies, at the end of sync
Fetch(p) ==
  /\ proc[p].at = "fetch" /\ Resolves(proc[p].cmd.offline)
  /\ Ends(p, TRUE, proc[p].graph)
  /\ UNCHANGED <<files, paths, runs, moves>>

UseFails(p) ==
  /\ \/ proc[p].at \in {"resolve", "fetch"} /\ ResolveFails(proc[p].cmd.offline)
     \/ /\ proc[p].at = "resolve" /\ Resolves(proc[p].cmd.offline)
        /\ LockIsRefused(proc[p].cmd)
  /\ Fails(p)
  /\ UNCHANGED <<files, paths, runs, moves>>

-----------------------------------------------------------------------------
Init ==
  /\ \E m \in Manifests \cup {None} :
       files = [f \in Files |-> IF f = "manifest" THEN m ELSE None]
  /\ paths = [a \in PathPackages |-> 1]
  /\ cached = {}
  /\ proc = [p \in Procs |-> Idle]
  /\ runs = 0 /\ moves = 0
  /\ done = None

Start(p) ==
  \/ HandleNew(p) \/ HandleInit(p) \/ HandleAdd(p) \/ HandleRemove(p)
  \/ HandleLock(p) \/ HandleSync(p) \/ HandleFetch(p) \/ HandleTree(p)
  \/ HandleVendor(p) \/ HandleCheck(p) \/ HandleProjectGraph(p) \/ HandlePlanCommand(p)

Step(p) ==
  \/ Truncate(p) \/ Fill(p) \/ FillIsLost(p) \/ WriteThrows(p) \/ Written(p)
  \/ Initialize(p) \/ InitializeFails(p)
  \/ ReadOriginals(p) \/ Edit(p) \/ EditFails(p)
  \/ Relock(p) \/ RollBack(p) \/ RestoreLockfile(p)
  \/ Policy(p) \/ PolicyFails(p) \/ Use(p) \/ Fetch(p) \/ UseFails(p)

Next ==
  \/ \E p \in Procs : Start(p) \/ Step(p) \/ Stop(p)
  \/ UserEdits

Spec == Init /\ [][Next]_vars

-----------------------------------------------------------------------------
(* Properties                                                               *)

Texts(f) ==
  CASE f = "manifest" -> (SUBSET Dependencies) \cup {None, Torn}
    [] f = "lock" -> (SUBSET [package : Packages, version : PathVersions \ {0}]) \cup {None, Torn}
    [] f = "source" -> {None, Torn, Scaffold}

Phases == {"idle", "init", "read", "edit", "relock", "restore", "policy", "resolve", "fetch",
           "write", "written"}

Puts == UNION {[file : {f}, text : Texts(f)] : f \in Files}

Runs == [at : Phases, cmd : Commands \cup {None}, text : Texts("manifest"), lock : Texts("lock"),
         todo : Seq(Puts),
         next : Phases, open : BOOLEAN, graph : Texts("lock"), undo : BOOLEAN,
         before : [manifest : Texts("manifest"), lock : Texts("lock")] \cup {None}]

\* The files hold what pafio or a user may have written there; a run has a file
\* open only while it writes, and goes back only to texts it has read.
TypeOK ==
  /\ DOMAIN files = Files
  /\ \A f \in Files : files[f] \in Texts(f)
  /\ paths \in [PathPackages -> PathVersions] /\ cached \subseteq GitPackages
  /\ runs \in 0..MaxRuns /\ moves \in 0..MaxMoves
  /\ proc \in [Procs -> Runs]
  /\ \A p \in Procs : /\ proc[p].open => proc[p].at = "write" /\ proc[p].todo # <<>>
                      /\ proc[p].undo => proc[p].text # None

\* An add or remove is made as a whole or not at all, also when resolving fails
\* or a write of the manifest or of the lockfile throws: it leaves the manifest
\* with exactly the one dependency more or less and a lockfile that is the
\* resolution of it, or both files as it found them.  The exceptions are those
\* that lose "before": another run or user came between, or a write was lost
\* and nobody told; and a rollback that itself fails.
EditIsAllOrNothing ==
  done # None /\ done.cmd.do \in {"add", "remove"} =>
    LET was == done.before["manifest"]
        now == files["manifest"]
        c == done.cmd
    IN  IF done.ok
        THEN /\ files["lock"] = LockOf(now)
             /\ c.do = "add" => /\ was \subseteq now
                                /\ \E d \in now : now \ was = {d} /\ d.package = c.package
                                /\ \A d, e \in now : d.alias = c.alias /\ e.alias = c.alias
                                                       => d = e
             /\ c.do = "remove" => /\ now \subseteq was
                                   /\ \E d \in was : /\ was \ now = {d}
                                                     /\ c.target \in {d.alias, d.package}
        ELSE now = was /\ files["lock"] = done.before["lock"]

\* A command that succeeds under --locked or --frozen, and check or lock --check
\* where there is a lockfile, worked with the packages of the lockfile that lies
\* there; a command that writes one leaves the one it worked with.  It holds
\* whatever stopped or lost writes left behind, unless another run or user
\* changes files between the two resolutions of the command.
LockedRunsUseTheLock ==
  done # None /\ done.ok =>
    /\ done.cmd.do \in {"add", "remove", "lock", "sync"} => done.graph = files["lock"]
    /\ done.cmd.do \notin {"new", "init", "add", "remove"} /\ done.cmd.locked =>
         done.graph = files["lock"]
    /\ done.cmd.do = "check" => files["lock"] \in {None, done.graph}
=============================================================================
