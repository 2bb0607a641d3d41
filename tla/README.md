# Formal models of Pafio

Pafio is the package manager of the Styio language: a C++ command line
(`src/Pafio*`), a Python registry (`src/pafio_registry_v2`), and scripts around
them (`scripts/`). This directory holds TLA+ models of its stateful parts, the
TLC configurations that check them and the proofs that TLAPS checks.
`PROJECT.json` lists the runs, the theorems, the source lines each definition
stands for, and the hazards the properties are aimed at.

## The system

Paths below are relative to the repository. State means what outlives a call.

| part | state | operations | talks to |
|---|---|---|---|
| registry publisher, `src/pafio_registry_v2/publisher.py` | the registry root: config, trust metadata, index, artifacts, log | initialise a root, publish an archive | openssl, the file system, the `pafio` binary for a dry run |
| registry verifier, `src/pafio_registry_v2/validator.py` | none | verify a root from a directory or over HTTP | the root |
| control plane, `scripts/registry-v2-control-plane-server.py` | the root, through the publisher; one thread per request | publish, verify, describe | publisher, verifier |
| promotion, `scripts/registry-promote.py` | a second, read-only root | copy every object of a verified root, verify the copy | verifier |
| registry client, `src/PafioRegistryClient/Client.cpp` | under `PAFIO_HOME`: object cache, blob cache, checkouts with a ready marker, shared by every `pafio` process | materialise a package version | registry root over HTTP or a directory, curl, tar, trust store |
| trust store, `src/PafioSecurity/RegistryTrust.cpp` | pins of registry roots | import a descriptor, look up a pin | client |
| git source cache, `src/PafioResolve/Resolver.cpp` | bare clones and snapshots under `PAFIO_HOME` | fetch a revision, snapshot it | git |
| resolver, same file | none | resolve a graph of path, git and registry dependencies | source cache, client, vendored trees |
| vendoring, `src/PafioVendor/Vendor.cpp` | `.pafio/vendor` of a project | rewrite the vendored tree | resolver |
| compile plan, `src/PafioPlan/CompilePlan.cpp` | the plan file | order the packages, check they agree on a toolchain | resolver, compiler |
| dependency edits, `src/PafioWorkflow/Dependencies.cpp` | `pafio.toml`, `pafio.lock` | add, remove, fetch, with rollback | resolver |
| managed compilers, `src/PafioTool/Install.cpp` | versions and `current` under `PAFIO_HOME`, a pin per project | install, use, pin, status | compiler |
| source-built compiler, `src/PafioToolchain` | a source tree, its build, a state file per project | ensure it is built, update the state | git, cmake |
| child processes, `src/PafioCore/Process.cpp` | none | run with pipes, limits and a timeout | the kernel |
| cloud jobs, `src/PafioCloud`; hosted server, `scripts/pafio-hosted-serve.py` | sessions and jobs of the server | resolve a policy, run a job | command line |
| command line, `src/PafioCLI`, `src/PafioApp` | none | every command; the `--locked`, `--offline` and `--frozen` policies | all of the above |

What is hard in this code: nothing takes a lock, and most state is shared
files. Publishes, installs and downloads write several files in an order that a
crash can cut anywhere; the control plane and concurrent commands interleave
those writes; a file is checked in one step and used in a later one; a retry
meets what the failed attempt left.

What makes each part correct:

* publisher: releases are unique, downloadable and immutable; the index and the
  log only grow; what is signed was released; a published root verifies;
  versions of signed files increase.
* promotion: the copy never has an object the source has not, a second
  promotion of the same source changes nothing, and a failed one can be repeated.
* client: a package served from the cache is the archive its index record
  names; a ready checkout is complete; what a failure leaves can be overcome.
* trust store: an import never drops another registry's pin.
* git source cache: a ready snapshot is the tree of its revision.
* resolver and plan: a resolved graph has one version and one source of each
  package, every dependency comes before what needs it, and the entry is the one
  that was asked for.
* vendoring, dependency edits: a failure leaves the project as it was; a run with
  `--locked` uses the packages of the lockfile.
* managed and source-built compilers: `current` and the pins name an installed,
  complete version; the key a build's outputs are cached under names the compiler
  that made them; settings accumulate.
* cloud jobs: the lane and the worker pool follow from the risk of the project.
* child processes: a call returns, by its deadline and with its output.

## Modules

* `TransparencyLog` says what the registry promises of its log, without files:
  entries are added at the end, no release twice, and the signed head is the log
  as it stood when it was signed.
* `RegistryPublish` is the write side of a registry root and the verifier.
* `RegistryPublishInvariant` has the inductive invariants.
* `MCRegistryPublish` gives TLC its values.
* `RegistryPublishProofs` proves what holds of any number of racing publishers;
  `RegistrySerialProofs` what holds when publishes are serialised.
* `SnapshotStore` says what a cache of extracted sources promises: it hands out
  complete snapshots only, and those it has marked stay complete until it is
  deleted. With `KeptFirst` it hands out marked ones only, as the registry client
  does; the git source cache does not promise that.
* `RegistryClient` is the read side of a registry, in one `PAFIO_HOME`;
  `MCRegistryClient` gives TLC its values, `RegistryClientProofs` has the proofs.
* `SourceCache` is the git source cache and vendoring; `MCSourceCache` gives TLC
  its values, `SourceCacheProofs` has the proofs.
* `PackageGraph` is the resolver; `BuildPlan` extends it with the invocation
  before and the compile plan after; `MCBuildPlan` has the worlds TLC tries,
  `BuildPlanProofs` the proofs.
* `ProjectEdits` is a project's manifest and lockfile under the commands that
  edit, refresh, check and use them; `MCProjectEdits` has the command lines,
  `ProjectEditsProofs` the proofs.
* `CompilerHome` is the compilers of a `PAFIO_HOME`, the pin and settings of a
  project and the cloud policy made of them; `MCCompilerHome` has the command
  lines, `CompilerHomeProofs` the proofs.
* `ProcessRunner` is `RunProcessChecked`; `MCProcessRunner` is its instance,
  `ProcessRunnerProofs` has the proofs of its safety.

### RegistryPublish and the code

Every file, or family of files, of a root is a variable: `config`, `root`
(`trust/root.json`), `artifact`, `index`, `leaves`, `checkpoint`, `targets`,
`snapshot`, `timestamp`. A publisher has a program counter and the local
variables of `publish_to_registry_v2`: its `archive`, the leaf number
`sequence`, the index files it has collected (`seen`), the targets files it has
written (`meta`) and the file it is signing (`draft`). `acked` is a history
variable: the archives whose publish reported success.

| code | actions |
|---|---|
| `_initialize_registry_root` | `Begin`, `WriteConfig`, `InitCheckpoint`, `InitSnapshot`, `InitTimestamp`, `WriteRoot` |
| `copy_if_missing_or_same` | `ReuseArtifact`, `RefuseArtifact`, `MissArtifact`, `OpenArtifact`, `FillArtifact` |
| `_append_release_record` | `PassDuplicateCheck`, `RefuseDuplicate`, `AppendRecord`, `CountLeaves`, `WriteLeaf` |
| `_collect_package_maps`, `_refresh_signed_metadata` | `Collect`, `ReadLater`, `SignTargets`, `WriteTargets`, `SignCheckpoint`, `WriteCheckpoint`, `WriteSnapshot`, `WriteTimestamp` |
| a crash or any `RegistryV2Error` | `Abort` |
| `verify_registry_root` | the predicate `RootVerifies` |

An action ends where another publisher, or a failure, can come in between: at a
file write, at a check a later write relies on, and at the openssl process that
signs a file between the reads it is made from and its replacement. JSON files
are replaced by a rename, so they are whole or absent; artifacts are copied in
place, so they have a third state, `partial`.

Abstracted: an archive stands for its digest, its manifest and every record of
it; the digest of a signed file is the file's content; keys and signatures are
always right (`_ensure_root_matches_keys` never refuses), and so is the
registry's name; the order of the namespaces in a refresh is arbitrary, and so
is the time at which a refresh reads each listed index file; the
append of one index line is one step, so a torn line and an empty index file
are not modelled; the digest of a file a publisher has just written is taken
with the write. The last point loses outcomes of racing publishers in what a
snapshot says, so what a snapshot says is asked of serialised publishes only.

The constant `Serialised` is TRUE where one publish runs at a time, as when an
operator runs the script; FALSE is the control plane, whose
`ThreadingHTTPServer` runs each request on its own thread with no lock.

The operators under "Variants" in the module, and those marked "(variant: ...)"
in the others, are not used by the specification. Each is a definition with one
slip in it, and for each property one of them makes TLC report that property
violated; `PROJECT.json` pairs them.

### RegistryClient and the code

One call of `MaterializeRegistryPackage` is a run; `at` is the file or the stage
it has come to. `cache` is the object cache and the blob cache, `tree` and
`ready` a checkout directory and its `.pafio-snapshot-ready`. `given` and
`standing` are history: what was returned, and which of the answers over HTTP no
later download has contradicted.

| code | actions |
|---|---|
| `MaterializeRegistryPackage` | `Begin`, `Return`; the order of the files is `After` |
| `LoadRegistryObjectText`, `FetchUrlToFile` | `Fetch`; `Text` for a directory or the cache |
| the pin, `ValidateConfig`, `ValidateTargetsMetadata`, `ValidateEntry`, the digest | `Accept`, `Refuse` by `Acceptable` |
| `MaterializeArtifact` | `Fetch`, `StartCopy`, `FinishCopy`, `Accept`, `Refuse` |
| `EnsureCheckout` | `FindMarker`, `MissMarker`, `Clear`, `StartExtract`, `FinishExtract`, `Mark` |
| an exception or a kill | `Stop` |
| publishes on the registry | `IndexRelease`, `Collect`, `SignTargets` |

The registry's two files that a run relates are written in the order that
`RegistryPublish` has them, and a publisher may sign the index as it was when it
collected it (`collected`), after another has signed more. A release stands for
its version, its index record and its archive; there is one package. The
temporary files of a download are left out: each download empties them first. A
run over HTTP and one from a directory share the blob cache and the checkouts, as
in the code.

Any download may bring something else than the registry's file (`Wrong`), and
what it brings replaces the cached file unread (`Client.cpp:411`, `:469`). So no
answer is for good: a root, config, targets or index that is wrong, or targets
of a publisher that collected earlier, take the place of the ones behind it.
`StandingAnswersRepeat` therefore speaks of the answers that no download has
contradicted since. A mirror that lags behind is not modelled: it would bring an
older config, targets or index of the registry, which differ from `Wrong` in what
they list.

### SourceCache and the code

A run resolves a set of pinned revisions of one git source (`needs`), each
through `Materialize`, and a vendor run then rewrites `<vendor root>/git`.

| code | actions |
|---|---|
| `Materialize`, `FindVendoredSnapshot` | `Begin`, `Pick`, `UseVendored`, `UseMirror`, `Refuse` |
| `EnsureMirror`, `FetchOrigin`, `HasRevision` | `Clone`, `KillClone`, `Fetch`, `KillFetch`, `HaveRevision` |
| `EnsureSnapshot` | `FindMarker`, `MissMarker`, `Clear`, `StartExtract`, `FinishExtract`, `Mark`, `MarkIsLost` |
| `WriteVendorTree` | `StartVendor`, `Wipe`, `StartCopy`, `MissSource`, `FinishCopy`, `FinishVendor` |
| a failed, timed out or killed process | `Stop`, `KillClone`, `KillFetch` |
| a full disk | `Stop` where the code or git, tar and cp notice it, `MarkIsLost` where nobody asks (`Resolver.cpp:356`) |
| the git source | `Push`, `Withdraw` |

A directory tree is absent, without a manifest, with one, or whole, because
`FindVendoredSnapshot` asks for a marker or a manifest. A clone that is killed
(`RunProcess` sends SIGKILL when its time is over) leaves a directory that later
runs take for a mirror and fetch into; what a fetch into it brings is arbitrary.
A source that rewrites its history withdraws revisions; a fetch prunes the refs
to them, and git may then collect them (`withdrawn`).
The set of revisions stands for the resolved graph. Not modelled: processes that
use one `PAFIO_HOME` at the same time. The code takes no lock there, and no
document says what should hold.

### PackageGraph, BuildPlan and the code

The directories of a project and of fetched snapshots are places; what their
manifests say is the constant `world` of a run. `Consistent` and `Closure` say
what the graph of a world is without an order of visits, and `ResolvesExactly`
compares.

| code | actions |
|---|---|
| `ParsePlanInvocation` | `ParsePlanInvocation` |
| `BuildRootSeeds`, `ResolveGraph` | `BuildRootSeeds`, `ResolveSeed`, `Resolved` |
| `ResolveNode`, `ResolvePathDependency`, `SelectPackageManifestFromRoot` | `ResolveDependency` by `DependencyFails` and `DependencyNode`; `Open`, `Return`, `Refuse` |
| `ValidateUniformToolchain`, `ResolveEntryPackage`, `ResolveEntryTarget` | `SelectEntry` |
| `BuildPackageOrder` | `Visit`, `Leave` |
| `BuildSourceHash`, `BuildPackageJson`, the writing of the plan | `WritePlan` |

The code visits roots and dependencies in the order of their names; the model in
any order, which has all orders a choice of names can bring. Dependencies and
dev-dependencies are one set, as the resolver joins them. The intent `check` of
`ResolveEntryTarget` is left out: `pafio check` writes no plan, so nothing
reaches it. `MaxDepth` bounds the stack: a search that does not register what it
has met would go on for ever, and stops there instead, which `Terminates`
reports.

### ProjectEdits and the code

`files` are `pafio.toml`, `pafio.lock` and the entry source; a write is
`Truncate` and `Fill`, as the code truncates the file in place. A run keeps what
it has read (`text`, `lock`), the graph it works with, and whether it goes back
(`undo`). A write fails in two ways. `WriteThrows`: the file does not open, or its
text is larger than the stream's buffer and the disk is full; `CommitManifestEdit`
then puts both files back, and nothing catches what that throws in its turn.
`FillIsLost`: the disk is full when the stream is closed, after the code has
looked at its state, and the command goes on; `InitializeProject` looks at
nothing. `done` and `before` are history: what the last undisturbed command found
and said.

| code | actions |
|---|---|
| `HandleNew`, `HandleInit`, `InitializeProject` | the same names, `Initialize`, `InitializeFails` |
| `AddDependencyAndRefreshLock`, `RemoveDependencyAndRefreshLock` | `ReadOriginals`, `Edit`, `EditFails` |
| `CommitManifestEdit`, `RestoreLockfile` | `Relock`; `RollBack` and `WriteThrows` by `RolledBack`; `RestoreLockfile`, `Written` |
| `WriteFile`, `WriteCanonicalLockfile` | `Truncate`, `Fill`, `FillIsLost`, `WriteThrows` |
| `ValidateLockedPolicy` | `Policy`, `PolicyFails` |
| the other handlers of `PackageApp.cpp`, `HandleCheck`, `HandleProjectGraph`, `HandlePlanCommand` | a start of that name, `Use`, `Fetch`, `UseFails` |
| a kill, a user with an editor | `Stop`, `UserEdits` |

What resolution does is a function of the manifest, of the versions of the path
packages beside the project and of what is cached: the parts a later resolution
can see changed. A user may remove what is cached or vendored. Commands that only
read are one action after the policy, since nothing they do is seen by another.

### CompilerHome and the code

`files` are the managed binaries and their `install.json`, the work trees and
binaries of source builds, `pafio-toolchain.toml` (the pin) and
`pafio-toolchain.lock` (the settings); `heads` is what each checkout's HEAD
names and `receipts` who wrote the receipt under each cache key. A compiler is a
commit or a binary of the user's. A run that writes carries the list of the
writes it still has to do, in the code's order; each is a truncation and, later,
the contents. Two writers of one file leave `Mixed`; so does a build of a work
tree that is part one commit and part another. A run is `alone` if no other came
beside it, and `sure` if no branch moved and no write of it was lost either;
`upset` is set for good when runs overlap or a checkout is cut short.

| code | actions |
|---|---|
| `HandleInstall`, `HandleToolInstall`, `HandleToolUse`, `HandleToolPin`, `HandleUse`, `HandleSet`, `HandlePlanCommand` | the same names |
| `CopyExecutableFile`, `WriteJsonFile`, `WriteTextFile` | `Truncate`, `OpenFails`, `Fill`; `FillIsLost` for the last two |
| `EnsureSourceBuiltStyio` | `EnsureSource`, `NoSource`, `Build`, `BuildFails` |
| `InstallManagedStyio`, `UseManagedStyio`, `PinManagedStyio` | the same names, `ClearPin`, `CompilerIsRefused` |
| `UpdateProjectToolchainState` | `Update`, `AlreadySaved`, `UpdateFails` |
| the binary or build lane of `HandlePlanCommand` | `PlanBinary`, `ResolveBinary`, `CheckedBinary`, or `PlanFromSource`; `PlanIsRefused` |
| the compiler's run, `ValidateCompilePlanMaterialization` | `StartCompiler`, `CompilerFinishes`, `CompilerFails` |
| `ResolveCloudExecutionPolicy` | the operator of that name |

A running executable cannot be opened for writing and git locks its work tree:
both end the run that comes second. A clone has its HEAD before its files, so one
that is cut short may be put right by the next run that fetches, or be refused
for ever (`NoSource`). Left out: dry runs, which write a plan only;
source trees the user names; submodules; the contents of the compatibility
matrix, which is the constant `Compatible`.

### ProcessRunner and the code

`at` is where `RunProcessChecked` is: in its poll loop, writing, draining one of
two streams, in `waitpid`, or out. The child is any program; it may leave a
process behind that holds its pipes (`heir`). Bytes are counted in units. A
write to a pipe without a reader ends the caller with SIGPIPE, which the code
does not handle. `late` is the deadline, `missed` and `written` are history;
`written` counts up to one more than the limit, and what the child writes has no
bound.

| code | actions |
|---|---|
| the child from `fork` to `exec` | `ChildStarts` |
| the head of the loop, `poll` | `LoopEnds`, `Poll`, `PollFails`, `TimesOut` with `KillChildProcess` |
| the three blocks behind it | `Write`, `Drain` with `AppendOutputChunk` |
| `waitpid` | `Wait` |
| the child and its heir | `Reads`, `Writes`, `ChildCloses`, `ChildLeavesHeir`, `Exits` |

Failures of `pipe` and `fork` before there is a child are left out, and so is a
deadline of 0. What the child does after the caller has its result is not
followed.

## Runs

| run | asks | instance |
|---|---|---|
| `publish_serial` | what serialised publishes keep, over any failures | 2 publishers, 2 packages in 2 namespaces, 4 archives: two versions of one package, a second archive of one version, and another package; 160,999 states |
| `publish_race` | what racing publishers keep | 2 publishers, 2 versions of one package; 3,623,628 states |
| `publish_unlogged` | is every signed release in the log? | as `publish_serial`; it is not |
| `publish_twice` | is a version released once under races? | 2 publishers, 2 archives of one version; it is not |
| `publish_log_race` | is the log append-only under races? | as `publish_race`; it is not |
| `client_publish` | what a client's caches keep while releases go on being published and downloads may be wrong, over any failures | 2 versions; 743,021 states |
| `client_root` | does what was returned stay available offline? | 2 versions; not once another `root.json` was answered |
| `source_runs` | what the git source cache and the vendored tree keep, over any failures | 2 revisions; 2,703,118 states |
| `build_plan` | is the plan right, and does every invocation end? | all worlds of `MCBuildPlan`: three packages in all tangles, workspaces, git workspaces, target shapes; 60,223 states |
| `process_runs` | does the caller get the output, leave nobody behind, serve all three pipes and end? | pipes of 1 unit, limit 1, up to 2 units of input; 562,460 states |
| `toolchain_runs` | what commands on one `PAFIO_HOME` keep, overlapping, killed or out of disk space | 2 processes, 3 runs of 14 commands, 2 commits, 2 binaries; 3,865,593 states |
| `project_runs` | what commands on one project keep, overlapping, killed or out of disk space | 2 processes, 3 runs of 15 commands, 1 change by a user; 4,714,890 states |

The bounds are the constants. In the publisher no counter needs a bound, since every publisher
indexes an archive at most once and a signed file gets a new version only when
the index or the root is new. Two archives of one version make the
duplicate check and the digest check differ; two versions of one package and
two namespaces make a refresh rewrite files it did not make; two racing
publishers are enough for every check-then-act pair in the code. Publishers are
interchangeable (symmetry). Deadlock is not checked of the publisher: once every
version is published, or a root is only partly initialised, no publish can do
anything. The client and the source cache can always begin another run, and for
them it is checked.

What the runs show. One publish at a time, with failures at any step:
a version is released once (and only then: see `publish_twice`), an indexed
artifact is whole, signed files only go forward, a publish that reports success leaves a root the verifier accepts and
its release stays downloadable, signed and logged, and the log implements
`TransparencyLog`. With racing publishers, the index still loses no record, the
log still has no gap in its numbers, nothing is logged or signed that was not
indexed, and a root with a `root.json` has all its first files.

A client or a resolver, stopped anywhere and run again: a checkout with a marker
is whole for good, and both caches implement `SnapshotStore`. What a client
returned over HTTP can be returned again without network access until a download
brings a root, config, targets or index that contradicts it; a version found in
the targets is in the index, because publishers write the index before they
collect it. What was resolved from git stays resolvable offline, unless the
source has withdrawn it, and what was vendored serves until the next vendor run.
A snapshot of a git source whose marker was lost is complete when it is handed
out, and made anew by the next run. A single registry package or git source is
modelled: two packages have only `root.json`, `config.json` and the targets file
in common, in which the client looks at nothing of the other, and two git sources
nothing. Versions (revisions) are interchangeable; with two of them a run has one
that others were asked for before and after, and a wrong answer is a third.

In `build_plan` the order of visits is free and the worlds have every way three
packages can need each other, so a conflict is met first or last; more packages
only repeat the pairs of names, versions and cycles. A resolved graph may have
cycles of two and more packages; the plan is what refuses them.

In `process_runs` a pipe is full with one unit and the limit is reached by one,
so full, empty, at and over the limit all happen within two units. The child may
do anything, so four things escape a timeout, and the properties name them: a
child that has not made its group yet, a process left behind when no group is
asked for, a child that lives on with its outputs closed, and a child whose
output comes faster than the caller reads it (`Outrun`), which also starves its
other pipes. The last is a disagreement with a test: see below.

In `toolchain_runs` and `project_runs` three runs allow one that is stopped,
one beside it and one after, and two processes every pair of steps. `MaxRuns`,
`MaxMoves` and the single move of `upstream` are bounds on the number of events.
An `install`, `use` or `pin` that succeeds, had nobody beside it and lost no write
keeps its word, whatever stopped runs have left: the current directory has the
compiler asked for, and the status its version. For an `install` that is the
build of the commit its branch names (or, if it may not fetch, its checkout),
and that commit itself as long as no checkout was cut short and no runs
overlapped: after that a build can be of a work tree of two commits, and lies
under the name of one for good. While runs overlap, the code keeps little:
settings can be lost, and `current` can be two versions at once. No document
speaks of commands that overlap on one `PAFIO_HOME` or project, so the properties
say from when on it is right again (`upset`, `alone`, `sure`, `before`). Deadlock
is not checked of `publish_*`, `process_runs`, `toolchain_runs`, `project_runs` and
`build_plan`: a run that has ended, or has used its bound, is the end.

`EditIsAllOrNothing` excepts three things, all of which lose `before`: somebody
who comes between, a write that was lost without anybody being told, and a
rollback that itself fails (`Dependencies.cpp:163`), after which the lockfile is
not restored. `LockedRunsUseTheLock` holds of the commands that come after any of
them.

Four documented statements do not hold of the code:

* `docs/registry/Pafio-Registry-V2-Protocol.md:162`: "Every published release
  emits one leaf object under `log/leaves/`." `publish_unlogged`: a publish
  stops after `publisher.py:539` (record) and before `:558` (leaf). Its retry is
  refused as a duplicate, and the next publish of anything signs the release.
* `docs/registry/Pafio-Registry-V2-Publish-Control-Plane.md:36`: "append-only
  transparency-log evolution". `publish_log_race`: two threads count the leaves
  at `publisher.py:543` before either writes one.
* `docs/registry/Pafio-Registry-Client-Contract.md:34`: "local cache and offline
  behavior remain valid when no mirror is reachable." `client_root`: a run that is
  answered with another `root.json` caches it (`Client.cpp:469`) before it compares
  it with the pin (`:781`), and the good copy is gone.
* `docs/governance/Pafio-CLI-Contract.md:338`: "publish must reject republishing
  an existing package version record" (also
  `docs/governance/Pafio-Entry-Argument-Index.md:989`, and
  `docs/registry/Pafio-Registry-V2-Publish-Control-Plane.md:38` and `:70`).
  `publish_twice`: two threads of the control plane both look the version up
  (`publisher.py:536`) before either appends its record (`:539`), and the later
  record replaces the earlier one in the targets (`:422`).

Racing publishers also break other things that hold of serialised ones: versions
of signed files repeat, and the signed files may disagree until the next publish.
`Pafio-Registry-V2-Publish-Control-Plane.md:37` asks for "atomic publication of
new metadata snapshots"; each file is replaced atomically, the set of them is not,
with one publisher or several. No run asks more of them than
`PublishedRootVerifies` does for one publisher.

A vendor run that is cut short while it copies leaves a tree that later runs
take for a complete one if it has its manifest; `FoundIsWhole` excepts that time.

Seen on the way, and not a property: a `pafio-toolchain.lock` that was cut short
makes every later command that reads or changes settings fail (`State.cpp:84`); a
clone that was cut short before it had its `CMakeLists.txt` is refused ever after
(`SourceBuild.cpp:295-320`); `init`
writes the manifest first and a stop before the source cannot be repaired by
`init`, which refuses a manifest that is there (`Manifest.cpp:690`).

Two more disagreements are not runs of their own; the properties name the case
they except:

* `tests/native/ProcessTests.cpp:48`: `TimesOutWhenChildKeepsProducingOutput`. The
  loop that drains a stream (`Process.cpp:327-353`) ends when the pipe is empty, and
  looks at no deadline; a child that refills it in time is never timed out. The
  test's writer sleeps between its writes, so it passes. `TimedRunEnds` and
  `PipesAreServed` except `Outrun`.
* `docs/governance/Pafio-Entry-Argument-Index.md:882`: `vendor` "copies pinned git
  snapshots into project-local vendor state". A second vendor run resolves to the
  vendored snapshots, removes them (`Vendor.cpp:115`), and fails because they are
  gone, without restoring them. `VendoredServes` ends at the next vendor run, and
  `FoundIsWhole` excepts a run that copies.

### Fairness

`BuildPlan` has weak fairness of its whole next step: one process, nothing in it
waits, and the operating system runs it. `ProcessRunner` has weak fairness of
the caller's own steps (it runs whenever `poll` or `waitpid` lets it), of the
clock, and of the child up to its `exec`, which is the kernel's and this code's
doing; it has none of what the child then does, which may hang, spin or stop
reading. That is enough for `TimedRunEnds` and `PipesAreServed`. The other
modules state no liveness: their runs are straight lines of steps without a
wait, and what a run leaves in pieces is not retried by anyone.

## Proofs

The write side is proved for arbitrary sets of publishers, archives, packages
and namespaces, from `PublishAssumption` (there is an archive, and the constant
functions have their types), and over any sequence of failures.

For any number of racing publishers (`RegistryPublishProofs`): `TypeOK`,
`LeavesContiguous`, `LoggedAndSignedAreIndexed`, `IndexAppendOnly` and
`InitialisedRootIsComplete`. Types need `SequenceInRange`: a computed leaf number
is at most one past the leaves there are, and stays so because leaves are never
removed; this is why a gap cannot appear. `RecordInv` adds that what a publisher
has collected and what it is signing are in the index, which `IndexExtends` (an
append keeps the old records) carries through, and a later reading of an index
file (`ReadLater`) too. `CompleteInv` says which files
each publisher in the middle of an initialisation has behind it.

For serialised publishes (`RegistrySerialProofs`), `SerialInv` is inductive. Its
parts: `OneActive`; `InitOrder`, no initial file is written twice; `ArtifactInv`,
the artifact is whole from the copy to the record; `ReleaseInv`, the duplicate
check still holds at the append and the leaf is for a version the log has not;
`CheckpointIsPrefix`; `RefreshInv` and `CommitInv`, which files the refresh has
already made agree with the index and with each other; and
`AckedReleaseIsServed`. From it follow the theorems for each property of
`publish_serial`, and `PublishImplementsLog`: `WriteLeaf` is `Enter`,
`WriteCheckpoint` is `Sign`, and every other step leaves the log alone.
`SerialInv` was checked with TLC on the instance of `publish_serial` before it
was proved.

For a client (`RegistryClientProofs`), for every set of releases, `ClientInv` is
inductive. `OrderInv`: whatever targets were ever signed, collected or cached
list indexed releases only, and the index only grows, which gives
`ListedIsIndexed`, unless the index itself arrives wrong. `BehindInv`: the files
that a run has checked (`Passed`) still pass, because nobody else downloads while
it runs; `StandingInv`: so do the files behind every answer that no download has
contradicted, and an artifact is put only where there is none. That gives
`StandingAnswersRepeat`. `MakingInv` adds that a checkout has no marker while it
is made, which gives `ReadyCheckoutIsWhole` and the refinement of
`SnapshotStore`: `Mark` is `Keep`, `Return` is `Give`, and the rest is
`Make`, `Unmake` or stutters.

For git sources (`SourceCacheProofs`), for every set of revisions, `SourceInv` is
inductive: `MirrorInv`, what was resolved is in the mirror, which only a
deletion of `PAFIO_HOME` empties, or was withdrawn by the source; `CheckoutInv`,
a checkout is whole when it has a marker, and when a run has found it, marked or
not; `TodoInv`, which the latter needs: a run does not make again what it has
found; `VendorInv` and `CopyInv`, a vendored tree is whole except while it is
copied or after a vendor run that was cut short, and a vendor run that ends well
has copied all it needs. From it follow the theorems for each property of
`source_runs`. The assumptions are `ClientAssumption` and `SourceAssumption`: the
names of releases and revisions differ from the models' own.

For a child process (`ProcessRunnerProofs`), for every limit, pipe size and
deadline and whatever the child does, `RunnerInv` is inductive: `TakenInv`, what
was written, less what is still in the pipe, was kept up to the limit and a cut
was noted exactly then, also of a child that writes without end;
`ClosedInv`, a stream is closed only when it is empty and nobody can write to
it, unless the caller gave up; `KilledInv`, of a group that was killed nobody is
alive. From it follow `OutputIsKept` and `TimeoutLeavesNobody`; the assumption
is `ProcessAssumption`.

For an invocation of `build`, `run` or `test` (`BuildPlanProofs`), for every
world of packages and every request, `PlanningInv` is inductive: `GraphInv`,
what the resolver has taken down is registered, and what is registered has its
edges or a frame on the stack; `PathInv`, the stack of the search for an order
is a path of the graph, apart from what is in the order, and a package in the
order is behind all it needs; `CauseInv`, the stretch of that path from a package
met again is a cycle; `EntryInv` and `PlanInv`, how the entry was found and what
was written. From it follow `PlansExactly` and `EntryIsMeant`. The assumptions
are `GraphAssumption` and `PlanAssumption`: finitely many directories, and
finitely many targets in each.

`ResolvesExactly` compares the resolver's tables with `Closure`, which is
defined by recursion. Its proof has two halves. The first is about the world
alone: `ClosureIsNeeded`, the closure is the least set of nodes that holds the
roots and what its nodes lead to. Every round of `Reached` adds a node or
nothing ever again, so as many rounds as there are nodes are enough. The
library's induction theorems cannot be used here, but the strict inclusion of
finite sets is known to be well-founded; `SetInduction` gets induction over the
naturals from that, for a set in place of a predicate, and `StepByStep` that the
recursive function exists. The second half is that `ExactInv` is inductive
beside `PlanningInv`: `TablesInv`, what is registered is needed, has a name of
its own, and edges that are complete; `StackInv`, a call of `ResolveNode` has
found what the dependencies it has dealt with lead to, but for the node it waits
for; `RootsInv`, the roots are registered or to come; `ReasonInv`, a refusal
names something that is wrong whatever was met before. When nothing is left to
do, what is registered is closed, and so it is the closure.

For a project's manifest and lockfile (`ProjectEditsProofs`), for every set of
packages and commands and any number of overlapping, stopped or failing runs,
`EditsInv` is inductive. A command's promise is about what it found at its
start, so `before` is kept until another run or a user comes in between:
`RunInv` says which locals a run can have at each place in its command,
`UndisturbedInv` that a run which remembers its start is the only one, and what
the two files hold at each of its places, on the way forward and on the way back
from a failed resolution or write; `DoneInv`, what it left when it ended.
From it follow `EditIsAllOrNothing` and `LockedRunsUseTheLock`. The assumptions
are `EditsAssumption`, a manifest is a set of finitely many dependencies, and `CommandsAssumption`, a command has the
options its parser asks for.

For the compilers (`CompilerHomeProofs`), for every set of commits, versions,
binaries and commands, `HomeInv` is inductive. `RunInv` says where a run can be
and which writes it has still to do, and so, if it is sure, what the
files it has written hold (`Sourced`: an install has the commit it was asked for
checked out, and heads for the build of it); `TreeInv`, git lets one run work in a tree;
`AloneInv`, a run that nobody came between is the only one; `CleanInv`, what the
files, the receipts and the settings are as long as no runs overlapped;
`DoneInv`, what was left by a command that had nobody beside it. From it follow
`KeyNamesCompiler`, `CommandsKeepTheirWord` and `SettingsAreKept`.
`IsolationFollowsRisk` needs the types only: it is a matter of the operators
that turn settings into a policy, for every choice of settings. The assumptions
are `HomeAssumption` and `NamesAssumption`, every compiler has a version and
names differ from each other, and `CommandsAssumption`, as above. `ExactInv`, with
`Closure` for the least closed set, was checked with TLC on the instance of
`build_plan` before it was proved.

All invariants and action properties that the passing runs check, and the three
refinements, are theorems. Model-checked only: the liveness of `build_plan` and
`process_runs` (`Terminates`, `TimedRunEnds`, `PipesAreServed`). Liveness under
fairness and ENABLED are out of the prover's reach. So are the induction
theorems of the library, which take a predicate as a parameter; `SetInduction`
does without them where an induction is needed.

## Plan

The runs are as many as are worth their time, and their safety properties are
proved. What is left is outside these models: the concurrent use of one
`PAFIO_HOME` by the git source cache and the registry client, if a document
comes to say what should hold; and the gaps named below.

## Not modelled

* Concurrent use of one `PAFIO_HOME` by the git source cache and by the registry
  client: the code takes no lock and no document says what should hold.
* Promotion, key generation and the import into the trust store: single passes
  over files that hand on what they are given. Two of the hazards
  without a property are theirs; the notes of the others say what the properties
  except.
* A root that is read over HTTP while it is published to, by the verifier.
* `pack` and the local `publish`: a deterministic archive and one file copy.
* Parsers, canonical text, digests, paths, tree and JSON output: formats, no
  state that outlives a call.
* The hosted server and the stress runner drive the command line; the Python
  bootstrap stands in for it; the gates and the frontend are development tooling.
