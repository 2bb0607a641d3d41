---------------------------- MODULE CompilerHome ----------------------------
(***************************************************************************)
(* The compilers pafio keeps for a project: source checkouts and builds    *)
(* (PafioToolchain/SourceBuild.cpp), the managed compilers of PAFIO_HOME   *)
(* and its "current" one (PafioTool/Install.cpp), the project's pin and    *)
(* toolchain settings (Install.cpp, PafioToolchain/State.cpp), and the     *)
(* commands that read and write them (PafioApp/ToolApp.cpp, and            *)
(* HandlePlanCommand of PafioApp/WorkflowApp.cpp).                         *)
(*                                                                         *)
(* Nothing is locked and every file is rewritten in place: a write is the  *)
(* truncation of a file and, in a later step, its new contents.  A run     *)
(* may stop between any two steps, and runs may overlap.  Dry runs, which  *)
(* write the plan only, and source trees of the user are left out.         *)
(***************************************************************************)
EXTENDS Integers, Sequences, FiniteSets

CONSTANTS Procs,       \* processes of pafio that may run at once
          Revs,        \* commits of the compiler's repository
          FirstRev,    \* the one its branches name at first
          Locals,      \* compiler binaries a user has outside of PAFIO_HOME
          Versions,    \* compiler versions, as --machine-info reports them
          VersionOf,   \* the version a compiler reports
          Compatible,  \* the compilers the compatibility matrix admits
          Commands,    \* the command lines that are tried
          MaxRuns,     \* bound: runs started in a behaviour
          None, Torn, Mixed

Compilers == Revs \cup Locals

ASSUME HomeAssumption ==
  /\ VersionOf \in [Compilers -> Versions]
  /\ Compatible \subseteq Compilers
  /\ FirstRev \in Revs
  /\ MaxRuns \in Nat

Refs == {"main", "stable"} \cup Revs     \* what a source tree is asked for
Dirs == Versions \cup {"current"}        \* the managed directories
Keys == Versions \cup Revs               \* compiler_version of a cache key

Bin(d) == <<"bin", d>>                   \* bin/styio of a managed directory
Meta(d) == <<"meta", d>>                 \* its install.json
Tree(ref) == <<"tree", ref>>             \* the work tree of a checkout
Built(rev) == <<"built", rev>>           \* the binary of a source build
Pin == <<"pin", "project">>              \* pafio-toolchain.toml
Settings == <<"settings", "project">>    \* pafio-toolchain.lock

Files == {Bin(d) : d \in Dirs} \cup {Meta(d) : d \in Dirs} \cup {Tree(r) : r \in Refs}
           \cup {Built(r) : r \in Revs} \cup {Pin, Settings}

\* The markers of this model are nobody's commit, compiler, version or file, a
\* commit is no version, and a user's compilers are outside of PAFIO_HOME.
ASSUME NamesAssumption ==
  /\ None # Torn /\ None # Mixed /\ Torn # Mixed
  /\ {None, Torn, Mixed} \cap (Compilers \cup Versions) = {} /\ None \notin Files
  /\ "current" \notin Versions /\ Versions \cap Revs = {} /\ Locals \cap Files = {}

VARIABLES files,      \* the contents of every file: None when it is missing,
                      \* Torn when truncated, Mixed when two writes or trees met
          heads,      \* the commit HEAD of each checkout names
          upstream,   \* the commit the branches of the origin name
          receipts,   \* per cache key, the compiler that wrote receipt.json
          proc,       \* the runs
          runs,       \* how many were started
          done,       \* history: the last command that succeeded, until the next starts
          upset,      \* history: runs have overlapped, or a checkout was cut short
          agreed      \* history: the settings the updates made one after the other

vars == <<files, heads, upstream, receipts, proc, runs, done, upset, agreed>>

Broken == {Torn, Mixed}
Exists(f) == files[f] # None

-----------------------------------------------------------------------------
(* Settings, and the policy a cloud job is given                            *)

Risks == {"trusted-internal", "partner-controlled", "untrusted-user"}
Lanes == {"isolated", "warm-shared"}
Profiles == {"sandbox-default", "partner-restricted", "trusted-warm"}
SettingsRecords == [mode : {"binary", "build"}, revision : Revs \cup {None},
                    risk : Risks, lane : Lanes, security : Profiles]

\* A command line that parses has the options of its command.
ASSUME CommandsAssumption ==
  /\ {None, Torn, Mixed} \cap SettingsRecords = {}
  /\ \A c \in Commands :
       /\ c.do = "install" => c.ref \in Refs
       /\ c.do = "tool install" => c.bin \in Locals
       /\ c.do = "plan" => c.bin \in Locals \cup {None}
       /\ c.do = "change" => \/ c.field = "mode" /\ c.value \in {"binary", "build"}
                             \/ c.field = "risk" /\ c.value \in Risks
                             \/ c.field = "lane" /\ c.value \in Lanes
                             \/ c.field = "security" /\ c.value \in Profiles

DefaultSettings == [mode |-> "binary", revision |-> None, risk |-> "untrusted-user",
                    lane |-> "isolated", security |-> "sandbox-default"]

SettingsFail == files[Settings] \in Broken        \* LoadProjectToolchainState throws
LoadSettings == IF Exists(Settings) THEN files[Settings] ELSE DefaultSettings

DefaultSecurityProfile(risk, lane) ==
  CASE lane = "warm-shared" -> "trusted-warm"
    [] lane = "isolated" /\ risk = "partner-controlled" -> "partner-restricted"
    [] OTHER -> "sandbox-default"

\* Variant: partner-controlled jobs keep the lane they ask for.
ExecutionLaneForPartners(s) == IF s.risk = "untrusted-user" THEN "isolated" ELSE s.lane

ExecutionLane(s) ==
  IF s.risk \in {"untrusted-user", "partner-controlled"} THEN "isolated" ELSE s.lane

WorkerTrustTier(risk, lane) ==
  CASE lane = "warm-shared" -> "internal-warm"
    [] lane = "isolated" /\ risk = "trusted-internal" -> "trusted-isolated"
    [] lane = "isolated" /\ risk = "partner-controlled" -> "partner-isolated"
    [] OTHER -> "untrusted-isolated"

ResolveCloudExecutionPolicy(s) ==
  LET lane == ExecutionLane(s)
  IN  [risk |-> s.risk, lane |-> lane, security |-> DefaultSecurityProfile(s.risk, lane),
       tier |-> WorkerTrustTier(s.risk, lane), reuse |-> lane = "warm-shared",
       promote |-> s.risk = "trusted-internal",
       pool |-> <<lane, WorkerTrustTier(s.risk, lane), s.mode, s.revision>>]

\* BuildCloudBuildJobRequest: which options the project's mode admits
InvocationIsRefused(c, s) ==
  \/ s.mode = "binary" /\ ~c.fetch
  \/ s.mode = "build" /\ c.bin # None

-----------------------------------------------------------------------------
(* Runs                                                                     *)

\* "alone": no other run came beside it.  "sure": and no write of it was lost,
\* and no branch moved while it ran.
Idle == [at |-> "idle", cmd |-> None, ref |-> None, rev |-> None, path |-> None, key |-> None,
         seen |-> None, todo |-> <<>>, next |-> "idle", open |-> FALSE, alone |-> TRUE,
         sure |-> TRUE]

Others(p) == {q \in Procs \ {p} : proc[q].at # "idle"}
Goto(p, at) == proc' = [proc EXCEPT ![p].at = at]

Fails(p) == /\ proc' = [proc EXCEPT ![p] = Idle]
            /\ UNCHANGED <<files, heads, upstream, receipts, runs, done, upset, agreed>>

Succeeds(p) == /\ proc' = [proc EXCEPT ![p] = Idle]
               /\ done' = [cmd |-> proc[p].cmd, sure |-> proc[p].sure]

\* A write of a file: with a value, or with what another file holds by then.
Put(f, v) == [to |-> f, copy |-> None, value |-> v]
Copy(from, f) == [to |-> f, copy |-> from, value |-> None]

Writes(p, todo, next) ==
  proc' = [proc EXCEPT ![p].at = "write", ![p].todo = todo, ![p].next = next]

Target(p) == Head(proc[p].todo).to
IsOpenFor(q, f) == proc[q].open /\ Target(q) = f
Executed(f) == \E q \in Procs : proc[q].at = "running" /\ proc[q].path = f

Begin(p, started) ==
  /\ proc[p].at = "idle" /\ runs < MaxRuns
  /\ runs' = runs + 1
  /\ done' = None
  /\ upset' = (upset \/ Others(p) # {})
  /\ proc' = [q \in Procs |->
       IF q = p THEN [started EXCEPT !.alone = Others(p) = {}, !.sure = Others(p) = {}]
       ELSE IF proc[q].at = "idle" THEN proc[q]
       ELSE [proc[q] EXCEPT !.alone = FALSE, !.sure = FALSE]]
  /\ UNCHANGED <<files, heads, upstream, receipts, agreed>>

\* The handlers: a command line that parses starts a run.
Asked(do) == {c \in Commands : c.do = do}
Started(c, at) == [Idle EXCEPT !.cmd = c, !.at = at]

HandleInstall(p) ==
  \E c \in Asked("install") : Begin(p, [Started(c, "source") EXCEPT !.ref = c.ref])

HandleToolInstall(p) ==
  \E c \in Asked("tool install") : Begin(p, [Started(c, "probe") EXCEPT !.path = c.bin])

HandleToolUse(p) == \E c \in Asked("tool use") : Begin(p, Started(c, "select"))
HandleToolPin(p) == \E c \in Asked("tool pin") : Begin(p, Started(c, "pin"))

\* "use" changes the mode, "set" another setting.
HandleUse(p) ==
  \E c \in Asked("change") : c.field = "mode" /\ Begin(p, Started(c, "update"))
HandleSet(p) ==
  \E c \in Asked("change") : c.field # "mode" /\ Begin(p, Started(c, "update"))

HandlePlanCommand(p) == \E c \in Asked("plan") : Begin(p, Started(c, "plan"))

\* The run is killed, or something it does fails.  What it has written stays, an
\* open file stays torn.  A clone has its HEAD before its files: the branch it
\* was asked for, or the default branch if it was asked for a commit.
Stop(p) ==
  LET cut == proc[p].open /\ Target(p)[1] = "tree"
      ref == Target(p)[2]
  IN  /\ proc[p].at # "idle"
      /\ proc' = [proc EXCEPT ![p] = Idle]
      /\ upset' = (upset \/ cut)
      /\ \/ UNCHANGED heads
         \/ /\ cut /\ heads[ref] = None
            /\ heads' = [heads EXCEPT ![ref] = IF ref \in Revs THEN upstream
                                               ELSE Head(proc[p].todo).value]
      /\ UNCHANGED <<files, upstream, receipts, runs, done, agreed>>

\* The branches of the origin move to another commit (bound: once).
UpstreamMoves ==
  /\ upstream = FirstRev
  /\ \E r \in Revs \ {FirstRev} : upstream' = r
  /\ proc' = [p \in Procs |-> IF proc[p].at = "idle" THEN proc[p]
                              ELSE [proc[p] EXCEPT !.sure = FALSE]]
  /\ done' = None
  /\ UNCHANGED <<files, heads, receipts, runs, upset, agreed>>

-----------------------------------------------------------------------------
(* Writing files                                                            *)

\* Variant: a checkout does not look for the lock of another one.
CannotOpenUnlocked(p) ==
  LET f == Target(p)
  IN  \/ f[1] \in {"bin", "built"} /\ Executed(f)
      \/ Head(proc[p].todo).copy # None /\ ~Exists(Head(proc[p].todo).copy)

\* An executable that runs cannot be opened for writing (ETXTBSY), git keeps
\* a second checkout of a work tree out with its lock, and a copy needs its
\* source: each ends the run.
CannotOpen(p) ==
  LET f == Target(p)
  IN  \/ f[1] \in {"bin", "built"} /\ Executed(f)
      \/ f[1] = "tree" /\ \E q \in Procs \ {p} : IsOpenFor(q, f)
      \/ Head(proc[p].todo).copy # None /\ ~Exists(Head(proc[p].todo).copy)

Truncate(p) ==
  /\ proc[p].at = "write" /\ ~proc[p].open /\ ~CannotOpen(p)
  /\ files' = [files EXCEPT ![Target(p)] = Torn]
  /\ proc' = [proc EXCEPT ![p].open = TRUE]
  /\ UNCHANGED <<heads, upstream, receipts, runs, done, upset, agreed>>

OpenFails(p) ==
  /\ proc[p].at = "write" /\ ~proc[p].open /\ CannotOpen(p)
  /\ Fails(p)

Contents(w) == IF w.copy = None THEN w.value ELSE files[w.copy]

\* Two writers of one file leave parts of both behind; so does a build whose
\* work tree is half one commit and half another.
Outcomes(p) ==
  LET w == Head(proc[p].todo)
      v == Contents(w)
      met == files[w.to] # Torn \/ \E q \in Procs \ {p} : IsOpenFor(q, w.to)
  IN  (IF w.to[1] = "built" /\ v \in Broken THEN {Mixed} ELSE {v})
        \cup (IF met THEN {Mixed} ELSE {})

\* UpdateProjectToolchainState, as it changes the settings it has read
Changed(s, c) ==
  CASE c.do = "change" -> [s EXCEPT ![c.field] = c.value]
    [] c.do = "plan" -> [s EXCEPT !.revision = c.rev]

Change(p) == IF proc[p].cmd.do = "plan" THEN [do |-> "plan", rev |-> proc[p].rev]
                                        ELSE proc[p].cmd

Continued(r) == [r EXCEPT !.todo = Tail(@), !.open = FALSE,
                      !.at = IF Len(r.todo) = 1 THEN r.next ELSE "write"]

Fill(p) ==
  /\ proc[p].at = "write" /\ proc[p].open
  /\ \E v \in Outcomes(p) :
       /\ files' = [files EXCEPT ![Target(p)] = v]
       /\ heads' = IF Target(p)[1] = "tree" THEN [heads EXCEPT ![Target(p)[2]] = v] ELSE heads
  /\ agreed' = IF Target(p) = Settings THEN Changed(agreed, Change(p)) ELSE agreed
  /\ IF Len(proc[p].todo) = 1 /\ proc[p].next = "idle"
     THEN Succeeds(p)
     ELSE proc' = [proc EXCEPT ![p] = Continued(@)] /\ UNCHANGED done
  /\ UNCHANGED <<upstream, receipts, runs, upset>>

\* The disk is full.  WriteJsonFile and both WriteTextFile ask out.good() before
\* the text leaves the buffer, and go on with an empty file.
FillIsLost(p) ==
  /\ proc[p].at = "write" /\ proc[p].open
  /\ Target(p)[1] \in {"meta", "pin", "settings"}
  /\ IF Len(proc[p].todo) = 1 /\ proc[p].next = "idle"
     THEN /\ proc' = [proc EXCEPT ![p] = Idle]
          /\ done' = [cmd |-> proc[p].cmd, sure |-> FALSE]
     ELSE proc' = [proc EXCEPT ![p] = [Continued(@) EXCEPT !.sure = FALSE]] /\ UNCHANGED done
  /\ UNCHANGED <<files, heads, upstream, receipts, runs, upset, agreed>>

\* A build of a work tree that is half written may as well not compile.
BuildFails(p) ==
  /\ proc[p].at = "write" /\ proc[p].open /\ Target(p)[1] = "built"
  /\ files[Head(proc[p].todo).copy] \in Broken
  /\ files' = [files EXCEPT ![Target(p)] = None]
  /\ proc' = [proc EXCEPT ![p] = Idle]
  /\ UNCHANGED <<heads, upstream, receipts, runs, done, upset, agreed>>

-----------------------------------------------------------------------------
(* EnsureSourceBuiltStyio                                                   *)

RevOf(ref) == IF ref \in Revs THEN ref ELSE upstream

EnsureSource(p) ==
  LET c == proc[p].cmd
      ref == proc[p].ref
  IN  /\ proc[p].at = "source"
      /\ \/ /\ ~Exists(Tree(ref)) /\ c.fetch /\ c.online
            /\ Writes(p, <<Put(Tree(ref), RevOf(ref))>>, "revision")
         \/ /\ Exists(Tree(ref)) /\ heads[ref] # None /\ c.online
            /\ Writes(p, <<Put(Tree(ref), RevOf(ref))>>, "revision")
         \/ /\ Exists(Tree(ref)) /\ heads[ref] # None /\ ~c.online
            /\ Goto(p, "revision")
      /\ UNCHANGED <<files, heads, upstream, receipts, runs, done, upset, agreed>>

\* Fetching was declined, or an earlier clone was cut short and has no
\* CMakeLists.txt in its directory.
NoSource(p) ==
  LET ref == proc[p].ref
  IN  /\ proc[p].at = "source"
      /\ \/ ~Exists(Tree(ref)) /\ ~(proc[p].cmd.fetch /\ proc[p].cmd.online)
         \/ Exists(Tree(ref)) /\ (heads[ref] = None \/ files[Tree(ref)] \in Broken)
      /\ Fails(p)

AfterBuild(p) == IF proc[p].cmd.do = "install" THEN "probe" ELSE "save"

\* TryResolveGitRevision; a binary that is there is used as it is.
Build(p) ==
  LET ref == proc[p].ref
      rev == heads[ref]
      named == [proc EXCEPT ![p].rev = rev, ![p].path = Built(rev), ![p].key = rev]
  IN  /\ proc[p].at = "revision" /\ rev \in Revs
      /\ IF Exists(Built(rev))
         THEN proc' = [named EXCEPT ![p].at = AfterBuild(p)]
         ELSE proc' = [named EXCEPT ![p].at = "write", ![p].next = AfterBuild(p),
                                    ![p].todo = <<Copy(Tree(ref), Built(rev))>>]
      /\ UNCHANGED <<files, heads, upstream, receipts, runs, done, upset, agreed>>

-----------------------------------------------------------------------------
(* InstallManagedStyio, UseManagedStyio, PinManagedStyio                    *)

\* The compiler a path leads to, and whether CheckCompilerCompatibility is
\* passed by it with version v.
At(path) == IF path \in Locals THEN path ELSE files[path]
Probes(path, v) ==
  \/ At(path) \in Compatible /\ v = VersionOf[At(path)]
  \/ At(path) = Mixed /\ v \in Versions
ProbeFails(path) == At(path) \notin Compatible

\* Variant: the metadata of the current directory is left as it was.
RefreshBinaryOnly(v) == <<Copy(Bin(v), Bin("current"))>>

Refresh(v) == <<Copy(Bin(v), Bin("current")), Put(Meta("current"), v)>>

CopyFrom(path, f) == IF path \in Locals THEN Put(f, path) ELSE Copy(path, f)

InstallManagedStyio(p) ==
  /\ proc[p].at = "probe" /\ proc[p].cmd.do \in {"install", "tool install"}
  /\ \E v \in Versions :
       /\ Probes(proc[p].path, v)
       /\ Writes(p, <<CopyFrom(proc[p].path, Bin(v)), Put(Meta(v), v)>> \o Refresh(v), "idle")
  /\ UNCHANGED <<files, heads, upstream, receipts, runs, done, upset, agreed>>

Installed == {v \in Versions : Exists(Bin(v)) /\ Exists(Meta(v))}

UseManagedStyio(p) ==
  LET v == proc[p].cmd.version
  IN  /\ proc[p].at = "select" /\ v \in Installed
      /\ \E reported \in Versions :
           /\ Probes(Bin(v), reported)
           /\ Writes(p, <<Copy(Bin(v), Bin("current")), Put(Meta("current"), reported)>>, "idle")
      /\ UNCHANGED <<files, heads, upstream, receipts, runs, done, upset, agreed>>

PinManagedStyio(p) ==
  LET v == proc[p].cmd.version
  IN  /\ proc[p].at = "pin" /\ v \in Installed
      /\ \E reported \in Versions : Probes(Bin(v), reported)
      /\ Writes(p, <<Put(Pin, v)>>, "idle")
      /\ UNCHANGED <<files, heads, upstream, receipts, runs, done, upset, agreed>>

\* PinManagedStyio, --clear
ClearPin(p) ==
  /\ proc[p].at = "pin" /\ proc[p].cmd.version = None
  /\ files' = [files EXCEPT ![Pin] = None]
  /\ Succeeds(p)
  /\ UNCHANGED <<heads, upstream, receipts, runs, upset, agreed>>

CompilerIsRefused(p) ==
  /\ \/ proc[p].at = "probe" /\ ProbeFails(proc[p].path)
     \/ /\ proc[p].at \in {"select", "pin"} /\ proc[p].cmd.version # None
        /\ (proc[p].cmd.version \notin Installed \/ ProbeFails(Bin(proc[p].cmd.version)))
  /\ Fails(p)

\* QueryToolStatus: None when a file it parses is broken
CurrentStatus == IF Exists(Bin("current")) THEN files[Meta("current")] ELSE None
QueryToolStatus ==
  IF files[Pin] \in Broken \/ CurrentStatus \in Broken
       \/ \E v \in Installed : files[Meta(v)] \in Broken
  THEN None
  ELSE [pin |-> files[Pin], current |-> CurrentStatus,
        managed |-> {files[Meta(v)] : v \in Installed}]

-----------------------------------------------------------------------------
(* UpdateProjectToolchainState                                              *)

MustUpdate(p) ==
  \/ proc[p].at = "update"
  \/ proc[p].at = "save" /\ proc[p].seen # proc[p].rev

\* Variant: the change is made to the defaults and not to what the file says.
UpdateDefaults(p) ==
  /\ MustUpdate(p)
  /\ ~SettingsFail
  /\ Writes(p, <<Put(Settings, Changed(DefaultSettings, Change(p)))>>,
            IF proc[p].at = "save" THEN "run" ELSE "idle")
  /\ UNCHANGED <<files, heads, upstream, receipts, runs, done, upset, agreed>>

Update(p) ==
  /\ MustUpdate(p)
  /\ ~SettingsFail
  /\ Writes(p, <<Put(Settings, Changed(LoadSettings, Change(p)))>>,
            IF proc[p].at = "save" THEN "run" ELSE "idle")
  /\ UNCHANGED <<files, heads, upstream, receipts, runs, done, upset, agreed>>

AlreadySaved(p) ==
  /\ proc[p].at = "save" /\ proc[p].seen = proc[p].rev
  /\ Goto(p, "run")
  /\ UNCHANGED <<files, heads, upstream, receipts, runs, done, upset, agreed>>

UpdateFails(p) ==
  /\ MustUpdate(p)
  /\ SettingsFail
  /\ Fails(p)

-----------------------------------------------------------------------------
(* HandlePlanCommand                                                        *)

\* ResolveStyioBinary: the compilers it may return, {} for none or an error.
ResolveStyioBinary(c) ==
  IF c.bin # None THEN {c.bin}
  ELSE IF Exists(Pin)
       THEN {Bin(v) : v \in {w \in Versions : w = files[Pin] /\ Exists(Bin(w))}}
       ELSE {f \in {Bin("current")} : Exists(f)}

PlanBinary(p) ==
  /\ proc[p].at = "plan" /\ ~SettingsFail /\ LoadSettings.mode = "binary"
  /\ ~InvocationIsRefused(proc[p].cmd, LoadSettings)
  /\ Goto(p, "resolve")
  /\ UNCHANGED <<files, heads, upstream, receipts, runs, done, upset, agreed>>

ResolveBinary(p) ==
  /\ proc[p].at = "resolve"
  /\ \E path \in ResolveStyioBinary(proc[p].cmd) :
       proc' = [proc EXCEPT ![p].at = "probe", ![p].path = path]
  /\ UNCHANGED <<files, heads, upstream, receipts, runs, done, upset, agreed>>

PlanFromSource(p) ==
  /\ proc[p].at = "plan" /\ ~SettingsFail /\ LoadSettings.mode = "build"
  /\ ~InvocationIsRefused(proc[p].cmd, LoadSettings)
  /\ LET saved == LoadSettings.revision
     IN  proc' = [proc EXCEPT ![p].at = "source", ![p].seen = saved,
                              ![p].ref = IF saved = None THEN "stable" ELSE saved]
  /\ UNCHANGED <<files, heads, upstream, receipts, runs, done, upset, agreed>>

PlanIsRefused(p) ==
  /\ \/ proc[p].at = "plan" /\ SettingsFail
     \/ proc[p].at = "plan" /\ ~SettingsFail /\ InvocationIsRefused(proc[p].cmd, LoadSettings)
     \/ proc[p].at = "resolve" /\ ResolveStyioBinary(proc[p].cmd) = {}
  /\ Fails(p)

\* Variant: the version is read from install.json and not from the compiler.
CheckedByStatus(p) ==
  /\ proc[p].at = "probe" /\ proc[p].cmd.do = "plan"
  /\ \E v \in Versions :
       /\ IF proc[p].path \in Locals THEN Probes(proc[p].path, v)
          ELSE ~ProbeFails(proc[p].path) /\ files[Meta(proc[p].path[2])] = v
       /\ proc' = [proc EXCEPT ![p].at = "run", ![p].key = v]
  /\ UNCHANGED <<files, heads, upstream, receipts, runs, done, upset, agreed>>

CheckedBinary(p) ==
  /\ proc[p].at = "probe" /\ proc[p].cmd.do = "plan"
  /\ \E v \in Versions :
       /\ Probes(proc[p].path, v)
       /\ proc' = [proc EXCEPT ![p].at = "run", ![p].key = v]
  /\ UNCHANGED <<files, heads, upstream, receipts, runs, done, upset, agreed>>

\* The compiler is started with the plan; a broken file does not execute.
StartCompiler(p) ==
  /\ proc[p].at = "run" /\ At(proc[p].path) \notin {None, Torn}
  /\ proc' = [proc EXCEPT ![p].at = "running", ![p].rev = At(proc[p].path)]
  /\ UNCHANGED <<files, heads, upstream, receipts, runs, done, upset, agreed>>

\* It exits with 0; ValidateCompilePlanMaterialization finds a receipt that
\* it wrote, or that is left of an earlier run with the same key.
CompilerFinishes(p) ==
  /\ proc[p].at = "running"
  /\ receipts' \in {receipts, [receipts EXCEPT ![proc[p].key] = proc[p].rev]}
  /\ receipts'[proc[p].key] # None
  /\ Succeeds(p)
  /\ UNCHANGED <<files, heads, upstream, runs, upset, agreed>>

\* There is no plan for what was asked, or the compiler does not start or fails.
CompilerFails(p) ==
  /\ proc[p].at \in {"run", "running"}
  /\ Fails(p)

-----------------------------------------------------------------------------
Init ==
  /\ files = [f \in Files |-> None]
  /\ heads = [r \in Refs |-> None]
  /\ upstream = FirstRev
  /\ receipts = [k \in Keys |-> None]
  /\ proc = [p \in Procs |-> Idle]
  /\ runs = 0
  /\ done = None
  /\ upset = FALSE
  /\ agreed = DefaultSettings

Start(p) ==
  \/ HandleInstall(p) \/ HandleToolInstall(p) \/ HandleToolUse(p) \/ HandleToolPin(p)
  \/ HandleUse(p) \/ HandleSet(p) \/ HandlePlanCommand(p)

Step(p) ==
  \/ Truncate(p) \/ OpenFails(p) \/ Fill(p) \/ FillIsLost(p) \/ BuildFails(p)
  \/ EnsureSource(p) \/ NoSource(p) \/ Build(p)
  \/ InstallManagedStyio(p) \/ UseManagedStyio(p) \/ PinManagedStyio(p) \/ ClearPin(p)
  \/ CompilerIsRefused(p)
  \/ Update(p) \/ AlreadySaved(p) \/ UpdateFails(p)
  \/ PlanBinary(p) \/ ResolveBinary(p) \/ PlanFromSource(p) \/ PlanIsRefused(p) \/ CheckedBinary(p)
  \/ StartCompiler(p) \/ CompilerFinishes(p) \/ CompilerFails(p)

Next ==
  \/ \E p \in Procs : Start(p) \/ Step(p) \/ Stop(p)
  \/ UpstreamMoves

Spec == Init /\ [][Next]_vars
-----------------------------------------------------------------------------
(* Properties                                                               *)

Phases == {"idle", "source", "revision", "probe", "select", "pin", "update", "plan", "resolve",
           "save", "run", "running", "write"}

Paths == Locals \cup {Bin(d) : d \in Dirs} \cup {Built(r) : r \in Revs}

Jobs == [to : Files, copy : Files \cup {None},
         value : Compilers \cup Versions \cup SettingsRecords \cup {None}]

Runs == [at : Phases, cmd : Commands \cup {None}, ref : Refs \cup {None},
         rev : Compilers \cup {None, Mixed}, path : Paths \cup {None}, key : Keys \cup {None},
         seen : Revs \cup {None}, todo : Seq(Jobs), next : Phases, open : BOOLEAN,
         alone : BOOLEAN, sure : BOOLEAN]

\* Every file, run and history variable has the values the code gives it; a
\* checkout that has no HEAD has no complete work tree.
TypeOK ==
  /\ DOMAIN files = Files
  /\ \A v \in Dirs : /\ files[Bin(v)] \in Compilers \cup {None, Torn, Mixed}
                     /\ files[Meta(v)] \in Versions \cup {None, Torn, Mixed}
  /\ heads \in [Refs -> Revs \cup {None}]
  /\ \A r \in Refs : /\ files[Tree(r)] \in Revs \cup {None, Torn}
                     /\ heads[r] = None => files[Tree(r)] \in {None, Torn}
  /\ \A r \in Revs : files[Built(r)] \in Revs \cup {None, Torn, Mixed}
  /\ files[Pin] \in Versions \cup {None, Torn, Mixed}
  /\ files[Settings] \in SettingsRecords \cup {None, Torn, Mixed}
  /\ receipts \in [Keys -> Compilers \cup {None, Mixed}]
  /\ upstream \in Revs /\ runs \in 0..MaxRuns /\ agreed \in SettingsRecords
  /\ proc \in [Procs -> Runs]
  /\ \A p \in Procs : proc[p].open => proc[p].at = "write" /\ Target(p) \in Files

\* The compiler_version of a cache key names the compiler whose output lies
\* under it: the commit it was built from, or the version it reports.  It holds
\* whatever was installed, used, pinned or built before, and wherever runs were
\* stopped, as long as no two runs overlapped and no checkout was cut short.
KeyNamesCompiler ==
  ~upset => \A k \in Keys :
    LET c == receipts[k]
    IN  c # None => c \in Compilers /\ (IF k \in Revs THEN c = k ELSE VersionOf[c] = k)

\* An install, use or pin that succeeds leaves the project with the compiler it
\* was asked for, and a status that says so.  For "install" that is the build
\* of the commit that its branch names, or that its checkout is at if it may
\* not fetch; after a checkout was cut short or runs overlapped it is whatever
\* lies in the directory of that build.  It holds whatever other stopped runs
\* left in PAFIO_HOME, unless another run came beside this one, a branch moved
\* meanwhile, or a write of it was lost without its being told.
CommandsKeepTheirWord ==
  LET c == done.cmd
      named == QueryToolStatus # None /\ files[Bin("current")] \in Compilers =>
                 QueryToolStatus.current = VersionOf[files[Bin("current")]]
  IN  done # None /\ done.sure =>
        /\ c.do \in {"install", "tool install"} =>
             /\ files[Bin("current")] \notin {None, Torn} /\ named
             /\ files[Meta("current")] \in Installed
             /\ files[Bin("current")] = files[Bin(files[Meta("current")])]
             /\ files[Meta("current")] = files[Meta(files[Meta("current")])]
        /\ c.do = "install" =>
             LET rev == heads[c.ref]
             IN  /\ c.online => rev = RevOf(c.ref)
                 /\ files[Bin("current")] = files[Built(rev)]
                 /\ ~upset => files[Bin("current")] = rev
        /\ c.do = "tool install" => files[Bin("current")] = c.bin
        /\ c.do = "tool use" => files[Bin("current")] = files[Bin(c.version)] /\ named
        /\ c.do = "tool pin" /\ c.version # None =>
             ResolveStyioBinary([bin |-> None]) = {Bin(c.version)}

\* Updates of the toolchain settings are made on top of each other: unless runs
\* overlapped, the file says what the completed updates say one after the
\* other, or does not parse.
SettingsAreKept == ~upset /\ ~SettingsFail => LoadSettings = agreed

\* Whatever the settings came to: code that is not trusted runs isolated, no
\* worker keeps anything of it, its outputs are not promoted to the shared
\* cache, and projects of different risk never get workers of one pool.
IsolationFollowsRisk ==
  ~SettingsFail =>
    LET policy == ResolveCloudExecutionPolicy(LoadSettings)
    IN  /\ policy.risk # "trusted-internal" =>
             policy.lane = "isolated" /\ ~policy.reuse /\ ~policy.promote
        /\ \A risk \in Risks \ {policy.risk}, lane \in Lanes :
             ResolveCloudExecutionPolicy([LoadSettings EXCEPT !.risk = risk, !.lane = lane]).pool
               # policy.pool
=============================================================================
