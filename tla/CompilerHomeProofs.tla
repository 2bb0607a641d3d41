------------------------- MODULE CompilerHomeProofs -------------------------
(***************************************************************************)
(* Proofs about CompilerHome, for all commits, versions, compilers and     *)
(* commands, and any number of runs.                                       *)
(*                                                                         *)
(* A run that nobody came between is the only one.  If it lost no write    *)
(* either, what it has still to write says what it has written, and when   *)
(* it has written all, that is what its command promises.  As long as no   *)
(* runs overlapped at all, more holds of the files between the runs, and   *)
(* that gives what keys and settings need.                                 *)
(***************************************************************************)
EXTENDS CompilerHome, SequenceTheorems, TLAPS

(* Files, their names and contents                                          *)

\* A file is named by its kind, and what it belongs to.
LEMMA Kinds1 ==
  ASSUME NEW a
  PROVE  /\ Bin(a)[1] = "bin" /\ Meta(a)[1] = "meta" /\ Tree(a)[1] = "tree"
         /\ Built(a)[1] = "built" /\ Pin[1] = "pin" /\ Settings[1] = "settings"
         /\ Bin(a)[2] = a /\ Meta(a)[2] = a /\ Tree(a)[2] = a /\ Built(a)[2] = a
BY DEF Bin, Meta, Tree, Built, Pin, Settings

\* The names that the actions build are names of files.
LEMMA FilesAre ==
  /\ \A d \in Dirs : Bin(d) \in Files /\ Meta(d) \in Files
  /\ \A ref \in Refs : Tree(ref) \in Files
  /\ \A rev \in Revs : Built(rev) \in Files
  /\ Pin \in Files /\ Settings \in Files
BY DEF Files

\* There are no other names of files.
LEMMA FileCases ==
  ASSUME NEW f \in Files
  PROVE  \/ \E d \in Dirs : f = Bin(d)
         \/ \E d \in Dirs : f = Meta(d)
         \/ \E ref \in Refs : f = Tree(ref)
         \/ \E rev \in Revs : f = Built(rev)
         \/ f = Pin \/ f = Settings
BY DEF Files

\* Two names are the same only if kind and owner are.
LEMMA Distinct ==
  ASSUME NEW a, NEW b
  PROVE  /\ Bin(a) # Meta(b) /\ Bin(a) # Tree(b) /\ Bin(a) # Built(b)
         /\ Bin(a) # Pin /\ Bin(a) # Settings
         /\ Meta(a) # Tree(b) /\ Meta(a) # Built(b) /\ Meta(a) # Pin /\ Meta(a) # Settings
         /\ Tree(a) # Built(b) /\ Tree(a) # Pin /\ Tree(a) # Settings
         /\ Built(a) # Pin /\ Built(a) # Settings /\ Pin # Settings
         /\ a # b => /\ Bin(a) # Bin(b) /\ Meta(a) # Meta(b) /\ Tree(a) # Tree(b)
                     /\ Built(a) # Built(b)
<1>1. /\ Bin(a)[1] = "bin" /\ Meta(a)[1] = "meta" /\ Tree(a)[1] = "tree"
      /\ Built(a)[1] = "built" /\ Pin[1] = "pin" /\ Settings[1] = "settings"
      /\ Bin(a)[2] = a /\ Meta(a)[2] = a /\ Tree(a)[2] = a /\ Built(a)[2] = a
  BY Kinds1
<1>2. /\ Bin(b)[1] = "bin" /\ Meta(b)[1] = "meta" /\ Tree(b)[1] = "tree"
      /\ Built(b)[1] = "built"
      /\ Bin(b)[2] = b /\ Meta(b)[2] = b /\ Tree(b)[2] = b /\ Built(b)[2] = b
  BY Kinds1
<1>3. QED
  BY <1>1, <1>2

\* The current directory is none of a version.
LEMMA DirsAre == Versions \subseteq Dirs /\ "current" \in Dirs /\ \A v \in Versions : v # "current"
BY NamesAssumption DEF Dirs

\* A commit can be asked for by its hash, and built to a compiler.
LEMMA RevsAreRefs == Revs \subseteq Refs /\ Revs \subseteq Compilers /\ Locals \subseteq Compilers
BY DEF Refs, Compilers

\* The markers of an absent, a torn and a mixed file are no contents.
LEMMA Markers ==
  /\ None # Torn /\ None # Mixed /\ Torn # Mixed
  /\ \A c \in Compilers : c # None /\ c # Torn /\ c # Mixed
  /\ \A v \in Versions : v # None /\ v # Torn /\ v # Mixed /\ v \notin Revs
  /\ \A s \in SettingsRecords : s # None /\ s # Torn /\ s # Mixed
BY NamesAssumption, CommandsAssumption

\* What a file of each kind may hold.
Fits(f, x) ==
  /\ f[1] = "bin" => x \in Compilers \cup {None, Torn, Mixed}
  /\ f[1] = "meta" => x \in Versions \cup {None, Torn, Mixed}
  /\ f[1] = "tree" => x \in Revs \cup {None, Torn}
  /\ f[1] = "built" => x \in Revs \cup {None, Torn, Mixed}
  /\ f[1] = "pin" => x \in Versions \cup {None, Torn, Mixed}
  /\ f[1] = "settings" => x \in SettingsRecords \cup {None, Torn, Mixed}

FileTypes == DOMAIN files = Files /\ \A f \in Files : Fits(f, files[f])

HeadTypes == /\ heads \in [Refs -> Revs \cup {None}]
             /\ \A ref \in Refs : heads[ref] = None => files[Tree(ref)] \in {None, Torn}

\* The type invariant, file kind by file kind.
LEMMA TypesAre ==
  TypeOK <=>
    /\ FileTypes /\ HeadTypes
    /\ receipts \in [Keys -> Compilers \cup {None, Mixed}]
    /\ upstream \in Revs /\ runs \in 0..MaxRuns /\ agreed \in SettingsRecords
    /\ proc \in [Procs -> Runs]
    /\ \A p \in Procs : proc[p].open => proc[p].at = "write" /\ Target(p) \in Files
<1> DEFINE Files1 ==
      /\ \A v \in Dirs : /\ files[Bin(v)] \in Compilers \cup {None, Torn, Mixed}
                         /\ files[Meta(v)] \in Versions \cup {None, Torn, Mixed}
      /\ \A r \in Refs : files[Tree(r)] \in Revs \cup {None, Torn}
      /\ \A r \in Revs : files[Built(r)] \in Revs \cup {None, Torn, Mixed}
      /\ files[Pin] \in Versions \cup {None, Torn, Mixed}
      /\ files[Settings] \in SettingsRecords \cup {None, Torn, Mixed}
<1>1. ASSUME Files1, NEW f \in Files
      PROVE  Fits(f, files[f])
  BY <1>1, FileCases, Kinds1 DEF Fits
<1>2. ASSUME \A f \in Files : Fits(f, files[f])
      PROVE  Files1
  BY <1>2, FilesAre, Kinds1 DEF Fits
<1>3. Files1 <=> \A f \in Files : Fits(f, files[f])
  BY <1>1, <1>2
<1> HIDE DEF Files1
<1>4. TypeOK <=>
        /\ DOMAIN files = Files /\ Files1 /\ HeadTypes
        /\ receipts \in [Keys -> Compilers \cup {None, Mixed}]
        /\ upstream \in Revs /\ runs \in 0..MaxRuns /\ agreed \in SettingsRecords
        /\ proc \in [Procs -> Runs]
        /\ \A p \in Procs : proc[p].open => proc[p].at = "write" /\ Target(p) \in Files
  BY DEF TypeOK, HeadTypes, Files1
<1>5. QED
  BY <1>3, <1>4 DEF FileTypes

\* The same for the next state.
LEMMA TypesNext ==
  ASSUME FileTypes', HeadTypes',
         receipts' \in [Keys -> Compilers \cup {None, Mixed}],
         upstream' \in Revs, runs' \in 0..MaxRuns, agreed' \in SettingsRecords,
         proc' \in [Procs -> Runs],
         \A p \in Procs : proc'[p].open => proc'[p].at = "write" /\ Target(p)' \in Files
  PROVE  TypeOK'
<1>1. /\ \A v \in Dirs : /\ files'[Bin(v)] \in Compilers \cup {None, Torn, Mixed}
                         /\ files'[Meta(v)] \in Versions \cup {None, Torn, Mixed}
      /\ \A r \in Refs : files'[Tree(r)] \in Revs \cup {None, Torn}
      /\ \A r \in Revs : files'[Built(r)] \in Revs \cup {None, Torn, Mixed}
      /\ files'[Pin] \in Versions \cup {None, Torn, Mixed}
      /\ files'[Settings] \in SettingsRecords \cup {None, Torn, Mixed}
  BY FilesAre, Kinds1 DEF FileTypes, Fits
<1>2. QED
  BY <1>1 DEF TypeOK, FileTypes, HeadTypes

\* One file is written with what fits it.
LEMMA FilePut ==
  ASSUME FileTypes, NEW f \in Files, NEW x, Fits(f, x), files' = [files EXCEPT ![f] = x]
  PROVE  /\ FileTypes' /\ files'[f] = x
         /\ \A g \in Files \ {f} : files'[g] = files[g]
<1>1. files'[f] = x /\ DOMAIN files' = Files
  BY DEF FileTypes
<1>2. \A g \in Files \ {f} : files'[g] = files[g]
  BY DEF FileTypes
<1>3. ASSUME NEW g \in Files
      PROVE  Fits(g, files'[g])
  BY <1>1, <1>2 DEF FileTypes
<1>4. FileTypes'
  BY <1>1, <1>3 DEF FileTypes, Fits
<1>5. QED
  BY <1>1, <1>2, <1>4

-----------------------------------------------------------------------------
(* The inductive invariant                                                  *)

Installs == {"install", "tool install"}

Kinds == Installs \cup {"tool use", "tool pin", "change", "plan"}

\* The phase a run is in, or will be in when its files are written.
Heading(r) == IF r.at = "write" THEN r.next ELSE r.at

Stages(do) ==
  IF do = "install" THEN {"source", "revision", "probe", "idle"}
  ELSE IF do = "tool install" THEN {"probe", "idle"}
  ELSE IF do = "tool use" THEN {"select", "idle"}
  ELSE IF do = "tool pin" THEN {"pin", "idle"}
  ELSE IF do = "change" THEN {"update", "idle"}
  ELSE {"plan", "resolve", "source", "revision", "probe", "save", "run", "running"}

\* A commit was named, built or is being built, and is the key.
Named(r) == r.rev \in Revs /\ r.path = Built(r.rev) /\ r.key = r.rev

\* What installs write last: the compiler, its metadata, and both again in the
\* current directory.
Last1(v) == <<Put(Meta("current"), v)>>
Last2(u, v) == <<Copy(Bin(u), Bin("current")), Put(Meta("current"), v)>>
Last3(v) == <<Put(Meta(v), v), Copy(Bin(v), Bin("current")), Put(Meta("current"), v)>>
Last4(path, v) == <<CopyFrom(path, Bin(v)), Put(Meta(v), v), Copy(Bin(v), Bin("current")),
                    Put(Meta("current"), v)>>

Sources == Locals \cup {Built(r) : r \in Revs}

\* A compiler that answered the probe with this version.
Good(c, v) == (c \in Compatible /\ v = VersionOf[c]) \/ (c = Mixed /\ v \in Versions)

\* What an install has written so far, if it is sure of it.
Installing(r, v) ==
  /\ r.path \in Sources /\ (r.sure => Good(At(r.path), v))
  /\ \/ r.todo = Last4(r.path, v)
     \/ r.todo = Last3(v) /\ (r.sure => files[Bin(v)] = At(r.path))
     \/ r.todo = Last2(v, v) /\ (r.sure => files[Bin(v)] = At(r.path) /\ files[Meta(v)] = v)
     \/ /\ r.todo = Last1(v)
        /\ r.sure => /\ files[Bin(v)] = At(r.path) /\ files[Meta(v)] = v
                     /\ files[Bin("current")] = files[Bin(v)]

Using(r, v) ==
  \/ r.todo = Last2(r.cmd.version, v) /\ (r.sure => Good(files[Bin(r.cmd.version)], v))
  \/ /\ r.todo = Last1(v)
     /\ r.sure => /\ Good(files[Bin(r.cmd.version)], v)
                  /\ files[Bin("current")] = files[Bin(r.cmd.version)]

\* The files a run has still to write, before its next phase.
WriteOK(r) ==
  \/ /\ r.next = "revision" /\ \E rev \in Revs : r.todo = <<Put(Tree(r.ref), rev)>>
  \/ /\ r.next \in {"probe", "save"} /\ Named(r) /\ r.ref \in Refs
     /\ r.todo = <<Copy(Tree(r.ref), Built(r.rev))>>
  \/ /\ r.next = "run" /\ Named(r)
     /\ \E s \in SettingsRecords : r.todo = <<Put(Settings, s)>>
  \/ /\ r.next = "idle" /\ r.cmd.do = "change"
     /\ \E s \in SettingsRecords : r.todo = <<Put(Settings, s)>>
  \/ /\ r.next = "idle" /\ r.cmd.do = "tool pin" /\ r.cmd.version \in Versions
     /\ r.todo = <<Put(Pin, r.cmd.version)>>
     /\ r.sure => Exists(Bin(r.cmd.version))
  \/ /\ r.next = "idle" /\ r.cmd.do = "tool use" /\ r.cmd.version \in Versions
     /\ \E v \in Versions : Using(r, v)
  \/ /\ r.next = "idle" /\ r.cmd.do \in Installs /\ \E v \in Versions : Installing(r, v)

\* What an install knows of its checkout, if it is sure of it: the commit that
\* was to be fetched is checked out, and the one checked out is installed.
Sourced(r) ==
  r.cmd.do = "install" =>
    /\ r.ref = r.cmd.ref
    /\ r.sure /\ Heading(r) \in {"probe", "idle"} =>
         heads[r.ref] \in Revs /\ r.path = Built(heads[r.ref])
    /\ r.sure /\ r.cmd.online =>
         /\ r.at = "write" /\ r.next = "revision" =>
              r.todo = <<Put(Tree(r.ref), RevOf(r.ref))>>
         /\ r.at = "revision" \/ Heading(r) \in {"probe", "idle"} =>
              heads[r.ref] = RevOf(r.ref)

\* A run is in a phase of its command, with what that phase needs.
RunOK(r) ==
  r.at # "idle" =>
    /\ (r.sure => r.alone) /\ Sourced(r)
    /\ r.cmd \in Commands /\ r.cmd.do \in Kinds /\ Heading(r) \in Stages(r.cmd.do)
    /\ Heading(r) \in {"source", "revision"} => r.ref \in Refs
    /\ Heading(r) \in {"probe", "run"} => r.path \in Paths
    /\ Heading(r) = "probe" /\ r.cmd.do \in Installs => r.path \in Sources
    /\ r.cmd.do = "tool install" => r.path = r.cmd.bin
    /\ Heading(r) = "save" => Named(r)
    /\ Heading(r) \in {"run", "running"} => r.key \in Keys
    /\ Heading(r) = "running" => r.rev \in Compilers \cup {Mixed}
    /\ r.at = "write" => WriteOK(r)

RunInv == \A p \in Procs : RunOK(proc[p])

\* The lock of git keeps others out of a work tree.
TreeInv ==
  \A p \in Procs, ref \in Refs : IsOpenFor(p, Tree(ref)) =>
    files[Tree(ref)] = Torn /\ \A q \in Procs \ {p} : ~IsOpenFor(q, Tree(ref))

Alone(p) == \A q \in Procs \ {p} : proc[q].at = "idle"

\* A run nobody came between is the only one, and a file it has open is empty.
AloneInv ==
  \A p \in Procs : proc[p].at # "idle" /\ proc[p].alone =>
    Alone(p) /\ (proc[p].open => files[Target(p)] = Torn)

\* A compiler and the key its output is found under.
Keyed(c, k) == c \in Compilers /\ (IF k \in Revs THEN c = k ELSE VersionOf[c] = k)

\* What holds of a run as long as runs did not overlap.
CleanRun(r) ==
  /\ r.alone
  /\ r.at = "write" /\ r.next \in {"probe", "save"} => heads[r.ref] = r.rev
  /\ r.at = "write" /\ (r.next = "run" \/ r.cmd.do = "change") =>
       r.todo = <<Put(Settings, Changed(agreed, IF r.cmd.do = "plan"
                                                THEN [do |-> "plan", rev |-> r.rev]
                                                ELSE r.cmd))>>
  /\ r.at = "run" => Keyed(At(r.path), r.key) \/ (r.key \in Revs /\ r.path = Built(r.key))
  /\ r.at = "running" => Keyed(r.rev, r.key)

\* As long as runs did not overlap and no checkout was cut short: nothing is
\* mixed, a work tree is at its HEAD, a build is of its commit, the settings are
\* what the updates agreed on, and a key names the compiler.
CleanFiles ==
  /\ \A f \in Files : files[f] # Mixed
  /\ \A ref \in Refs : files[Tree(ref)] = heads[ref] \/ \E p \in Procs : IsOpenFor(p, Tree(ref))
  /\ \A rev \in Revs : files[Built(rev)] \in {None, Torn, rev}
  /\ files[Settings] \notin Broken => LoadSettings = agreed
  /\ \A k \in Keys : receipts[k] # None => Keyed(receipts[k], k)

CleanInv ==
  ~upset => CleanFiles /\ \A p \in Procs : proc[p].at # "idle" => CleanRun(proc[p])

\* What the last command left has not changed since.
DoneInv ==
  done # None /\ done.sure =>
    (\A p \in Procs : proc[p].at = "idle") /\ CommandsKeepTheirWord

HomeInv == TypeOK /\ RunInv /\ TreeInv /\ AloneInv /\ CleanInv /\ DoneInv

-----------------------------------------------------------------------------
(* What runs have to write                                                  *)

\* A write of a text.
LEMMA PutFields ==
  ASSUME NEW f \in Files, NEW x \in Compilers \cup Versions \cup SettingsRecords
  PROVE  LET w == Put(f, x) IN w \in Jobs /\ w.to = f /\ w.copy = None /\ w.value = x
BY DEF Put, Jobs

\* A copy of a file.
LEMMA CopyFields ==
  ASSUME NEW f \in Files, NEW from \in Files
  PROVE  LET w == Copy(from, f) IN w \in Jobs /\ w.to = f /\ w.copy = from
BY DEF Copy, Jobs

\* Lists of one to four members, for what is left to write.
LEMMA OneOf ==
  ASSUME NEW S, NEW a \in S
  PROVE  /\ <<a>> \in Seq(S) /\ <<a>> # <<>> /\ Head(<<a>>) = a /\ Len(<<a>>) = 1
OBVIOUS

\* Of two.
LEMMA TwoOf ==
  ASSUME NEW S, NEW a \in S, NEW b \in S
  PROVE  /\ <<a, b>> \in Seq(S) /\ <<a, b>> # <<>> /\ Head(<<a, b>>) = a
         /\ Tail(<<a, b>>) = <<b>> /\ Len(<<a, b>>) = 2
OBVIOUS

\* Of three.
LEMMA ThreeOf ==
  ASSUME NEW S, NEW a \in S, NEW b \in S, NEW c \in S
  PROVE  /\ <<a, b, c>> \in Seq(S) /\ <<a, b, c>> # <<>> /\ Head(<<a, b, c>>) = a
         /\ Tail(<<a, b, c>>) = <<b, c>> /\ Len(<<a, b, c>>) = 3
OBVIOUS

\* Of four.
LEMMA FourOf ==
  ASSUME NEW S, NEW a \in S, NEW b \in S, NEW c \in S, NEW d \in S
  PROVE  /\ <<a, b, c, d>> \in Seq(S) /\ <<a, b, c, d>> # <<>> /\ Head(<<a, b, c, d>>) = a
         /\ Tail(<<a, b, c, d>>) = <<b, c, d>> /\ Len(<<a, b, c, d>>) = 4
OBVIOUS

\* Two lists of two make one of four.
LEMMA JoinOf ==
  ASSUME NEW S, NEW a \in S, NEW b \in S, NEW c \in S, NEW d \in S
  PROVE  <<a, b>> \o <<c, d>> = <<a, b, c, d>>
<1>1. /\ <<a, b>> \in Seq(S) /\ <<c, d>> \in Seq(S) /\ <<a, b, c, d>> \in Seq(S)
      /\ Len(<<a, b>>) = 2 /\ Len(<<c, d>>) = 2 /\ Len(<<a, b, c, d>>) = 4
  OBVIOUS
<1>2. <<a, b>> \o <<c, d>> \in Seq(S) /\ Len(<<a, b>> \o <<c, d>>) = 4
  BY <1>1, ConcatProperties
<1>3. \A i \in 1..4 : (<<a, b>> \o <<c, d>>)[i] = <<a, b, c, d>>[i]
  BY <1>1, ConcatProperties
<1>4. QED
  BY <1>1, <1>2, <1>3, SeqEqual

\* A compiler that can be copied is a user's file or a file of ours.
LEMMA SourcesAre == Sources \subseteq Paths /\ \A path \in Sources \ Locals : path \in Files
BY FilesAre DEF Sources, Paths

\* The compiler that an install copies, from the user's file or a build.
LEMMA CopyFromFields ==
  ASSUME NEW path \in Sources, NEW f \in Files
  PROVE  LET w == CopyFrom(path, f)
         IN  /\ w \in Jobs /\ w.to = f
             /\ path \in Locals => w.copy = None /\ w.value = path
             /\ path \notin Locals => w.copy = path /\ path \in Files
<1>1. CASE path \in Locals
  BY <1>1, PutFields, RevsAreRefs DEF CopyFrom
<1>2. CASE path \notin Locals
  BY <1>2, CopyFields, SourcesAre DEF CopyFrom
<1>3. QED
  BY <1>1, <1>2

\* The last one, two and three writes of an install.
LEMMA LastFields ==
  ASSUME NEW u \in Versions, NEW v \in Versions
  PROVE  /\ Last1(v) \in Seq(Jobs) /\ Last1(v) # <<>> /\ Len(Last1(v)) = 1
         /\ Head(Last1(v)) = Put(Meta("current"), v)
         /\ Last2(u, v) \in Seq(Jobs) /\ Last2(u, v) # <<>> /\ Len(Last2(u, v)) = 2
         /\ Head(Last2(u, v)) = Copy(Bin(u), Bin("current")) /\ Tail(Last2(u, v)) = Last1(v)
         /\ Last3(v) \in Seq(Jobs) /\ Last3(v) # <<>> /\ Len(Last3(v)) = 3
         /\ Head(Last3(v)) = Put(Meta(v), v) /\ Tail(Last3(v)) = Last2(v, v)
<1> PICK a, b, c, d : /\ a = Put(Meta(v), v) /\ b = Copy(Bin(v), Bin("current"))
                      /\ c = Put(Meta("current"), v) /\ d = Copy(Bin(u), Bin("current"))
  OBVIOUS
<1>1. a \in Jobs /\ b \in Jobs /\ c \in Jobs /\ d \in Jobs
  BY PutFields, CopyFields, FilesAre, DirsAre
<1>2. /\ Last1(v) = <<c>> /\ Last2(u, v) = <<d, c>> /\ Last3(v) = <<a, b, c>>
      /\ Last2(v, v) = <<b, c>>
  BY DEF Last1, Last2, Last3
<1>3. /\ <<c>> \in Seq(Jobs) /\ <<c>> # <<>> /\ Head(<<c>>) = c /\ Len(<<c>>) = 1
  BY <1>1, OneOf
<1>4. /\ <<d, c>> \in Seq(Jobs) /\ <<d, c>> # <<>> /\ Head(<<d, c>>) = d
      /\ Tail(<<d, c>>) = <<c>> /\ Len(<<d, c>>) = 2
  BY <1>1, TwoOf
<1>5. /\ <<a, b, c>> \in Seq(Jobs) /\ <<a, b, c>> # <<>> /\ Head(<<a, b, c>>) = a
      /\ Tail(<<a, b, c>>) = <<b, c>> /\ Len(<<a, b, c>>) = 3
  BY <1>1, ThreeOf
<1>6. QED
  BY <1>2, <1>3, <1>4, <1>5

\* All four writes of an install.
LEMMA Last4Fields ==
  ASSUME NEW path \in Sources, NEW v \in Versions
  PROVE  /\ Last4(path, v) \in Seq(Jobs) /\ Last4(path, v) # <<>> /\ Len(Last4(path, v)) = 4
         /\ Head(Last4(path, v)) = CopyFrom(path, Bin(v)) /\ Tail(Last4(path, v)) = Last3(v)
<1> PICK e, a, b, c : /\ a = Put(Meta(v), v) /\ b = Copy(Bin(v), Bin("current"))
                      /\ c = Put(Meta("current"), v) /\ e = CopyFrom(path, Bin(v))
  OBVIOUS
<1>1. a \in Jobs /\ b \in Jobs /\ c \in Jobs
  BY PutFields, CopyFields, FilesAre, DirsAre
<1>2. e \in Jobs
  BY CopyFromFields, FilesAre, DirsAre
<1>3. Last4(path, v) = <<e, a, b, c>> /\ Last3(v) = <<a, b, c>>
  BY DEF Last3, Last4
<1>4. /\ <<e, a, b, c>> \in Seq(Jobs) /\ <<e, a, b, c>> # <<>> /\ Head(<<e, a, b, c>>) = e
      /\ Tail(<<e, a, b, c>>) = <<a, b, c>> /\ Len(<<e, a, b, c>>) = 4
  BY <1>1, <1>2, FourOf
<1>5. QED
  BY <1>3, <1>4

\* What is left to write tells how far an install is.
LEMMA LastDiffer ==
  ASSUME NEW u \in Versions, NEW v \in Versions
  PROVE  /\ Last1(v) # Last2(u, v) /\ Last1(v) # Last2(v, v) /\ Last1(v) # Last3(v)
         /\ Last2(v, v) # Last3(v)
         /\ \A path \in Sources : /\ Last4(path, v) # Last1(v) /\ Last4(path, v) # Last2(v, v)
                                 /\ Last4(path, v) # Last3(v)
<1>1. /\ Len(Last1(v)) = 1 /\ Len(Last2(u, v)) = 2 /\ Len(Last2(v, v)) = 2 /\ Len(Last3(v)) = 3
      /\ \A path \in Sources : Len(Last4(path, v)) = 4
  BY LastFields, Last4Fields
<1>2. QED
  BY <1>1

\* InstallManagedStyio and the refresh of current write these four.
LEMMA Last4Joins ==
  ASSUME NEW path \in Sources, NEW v \in Versions
  PROVE  <<CopyFrom(path, Bin(v)), Put(Meta(v), v)>> \o Refresh(v) = Last4(path, v)
<1>p. PICK e, a, b, c : /\ a = Put(Meta(v), v) /\ b = Copy(Bin(v), Bin("current"))
                        /\ c = Put(Meta("current"), v) /\ e = CopyFrom(path, Bin(v))
  OBVIOUS
<1>1. a \in Jobs /\ b \in Jobs /\ c \in Jobs /\ e \in Jobs
  BY <1>p, PutFields, CopyFields, CopyFromFields, FilesAre, DirsAre
<1>2. <<e, a>> \o <<b, c>> = <<e, a, b, c>>
  BY <1>1, JoinOf
<1>3. QED
  BY <1>p, <1>2 DEF Refresh, Last4

\* What the first write of a run is, by what it still has to do.
LEMMA TreeTodo ==
  ASSUME NEW ref \in Refs, NEW rev \in Revs, NEW todo, todo = <<Put(Tree(ref), rev)>>
  PROVE  /\ todo \in Seq(Jobs) /\ todo # <<>> /\ Len(todo) = 1
         /\ Head(todo) \in Jobs /\ Head(todo).to = Tree(ref)
         /\ Head(todo).copy = None /\ Head(todo).value = rev
<1> PICK a : a = Put(Tree(ref), rev)
  OBVIOUS
<1>1. a \in Jobs /\ a.to = Tree(ref) /\ a.copy = None /\ a.value = rev
  BY PutFields, FilesAre, RevsAreRefs
<1>2. <<a>> \in Seq(Jobs) /\ <<a>> # <<>> /\ Head(<<a>>) = a /\ Len(<<a>>) = 1
  BY <1>1, OneOf
<1>3. QED
  BY <1>1, <1>2

\* A build writes its compiler.
LEMMA BuiltTodo ==
  ASSUME NEW ref \in Refs, NEW rev \in Revs, NEW todo, todo = <<Copy(Tree(ref), Built(rev))>>
  PROVE  /\ todo \in Seq(Jobs) /\ todo # <<>> /\ Len(todo) = 1
         /\ Head(todo) \in Jobs /\ Head(todo).to = Built(rev) /\ Head(todo).copy = Tree(ref)
<1> PICK a : a = Copy(Tree(ref), Built(rev))
  OBVIOUS
<1>1. a \in Jobs /\ a.to = Built(rev) /\ a.copy = Tree(ref)
  BY CopyFields, FilesAre
<1>2. <<a>> \in Seq(Jobs) /\ <<a>> # <<>> /\ Head(<<a>>) = a /\ Len(<<a>>) = 1
  BY <1>1, OneOf
<1>3. QED
  BY <1>1, <1>2

\* An update writes the settings.
LEMMA SettingsTodo ==
  ASSUME NEW s \in SettingsRecords, NEW todo, todo = <<Put(Settings, s)>>
  PROVE  /\ todo \in Seq(Jobs) /\ todo # <<>> /\ Len(todo) = 1
         /\ Head(todo) \in Jobs /\ Head(todo).to = Settings
         /\ Head(todo).copy = None /\ Head(todo).value = s
<1> PICK a : a = Put(Settings, s)
  OBVIOUS
<1>1. a \in Jobs /\ a.to = Settings /\ a.copy = None /\ a.value = s
  BY PutFields, FilesAre
<1>2. <<a>> \in Seq(Jobs) /\ <<a>> # <<>> /\ Head(<<a>>) = a /\ Len(<<a>>) = 1
  BY <1>1, OneOf
<1>3. QED
  BY <1>1, <1>2

\* A pin writes the pin.
LEMMA PinTodo ==
  ASSUME NEW v \in Versions, NEW todo, todo = <<Put(Pin, v)>>
  PROVE  /\ todo \in Seq(Jobs) /\ todo # <<>> /\ Len(todo) = 1
         /\ Head(todo) \in Jobs /\ Head(todo).to = Pin
         /\ Head(todo).copy = None /\ Head(todo).value = v
<1> PICK a : a = Put(Pin, v)
  OBVIOUS
<1>1. a \in Jobs /\ a.to = Pin /\ a.copy = None /\ a.value = v
  BY PutFields, FilesAre
<1>2. <<a>> \in Seq(Jobs) /\ <<a>> # <<>> /\ Head(<<a>>) = a /\ Len(<<a>>) = 1
  BY <1>1, OneOf
<1>3. QED
  BY <1>1, <1>2

\* An install that is not done has something to write.
LEMMA InstallingTodo ==
  ASSUME NEW r, NEW v \in Versions, Installing(r, v)
  PROVE  r.todo \in Seq(Jobs) /\ r.todo # <<>>
<1>1. CASE r.todo = Last4(r.path, v) /\ r.path \in Sources
  BY <1>1, Last4Fields
<1>2. CASE r.todo \in {Last3(v), Last2(v, v), Last1(v)}
  BY <1>2, LastFields
<1>3. QED
  BY <1>1, <1>2 DEF Installing

\* So has a use.
LEMMA UsingTodo ==
  ASSUME NEW r, NEW v \in Versions, r.cmd.version \in Versions, Using(r, v)
  PROVE  r.todo \in Seq(Jobs) /\ r.todo # <<>>
BY LastFields DEF Using

\* And every run in its writing phase.
LEMMA WriteTodo ==
  ASSUME NEW r, RunOK(r), r.at = "write"
  PROVE  r.todo \in Seq(Jobs) /\ r.todo # <<>> /\ Head(r.todo) \in Jobs
         /\ Head(r.todo).to \in Files /\ WriteOK(r)
         /\ Len(r.todo) \in Nat \ {0} /\ Tail(r.todo) \in Seq(Jobs)
<1>1. WriteOK(r) /\ (r.next = "revision" => r.ref \in Refs)
  BY DEF RunOK, Heading
<1>2. r.todo \in Seq(Jobs) /\ r.todo # <<>>
  <2>1. CASE r.next = "revision" /\ \E rev \in Revs : r.todo = <<Put(Tree(r.ref), rev)>>
    BY <1>1, <2>1, TreeTodo
  <2>2. CASE /\ r.next \in {"probe", "save"} /\ Named(r) /\ r.ref \in Refs
             /\ r.todo = <<Copy(Tree(r.ref), Built(r.rev))>>
    BY <2>2, BuiltTodo DEF Named
  <2>3. CASE \E s \in SettingsRecords : r.todo = <<Put(Settings, s)>>
    BY <2>3, SettingsTodo
  <2>4. CASE r.cmd.version \in Versions /\ r.todo = <<Put(Pin, r.cmd.version)>>
    BY <2>4, PinTodo
  <2>5. CASE r.cmd.version \in Versions /\ \E v \in Versions : Using(r, v)
    BY <2>5, UsingTodo
  <2>6. CASE \E v \in Versions : Installing(r, v)
    BY <2>6, InstallingTodo
  <2>7. QED
    BY <1>1, <2>1, <2>2, <2>3, <2>4, <2>5, <2>6 DEF WriteOK
<1>3. /\ Head(r.todo) \in Jobs /\ Tail(r.todo) \in Seq(Jobs) /\ Len(r.todo) \in Nat \ {0}
  BY <1>2, HeadTailProperties, EmptySeq
<1>4. Head(r.todo).to \in Files
  BY <1>3 DEF Jobs
<1>5. QED
  BY <1>1, <1>2, <1>3, <1>4

-----------------------------------------------------------------------------
(* What all steps of a run have in common                                   *)

\* No run.
LEMMA IdleType == Idle \in Runs /\ Idle.at = "idle" /\ ~Idle.open /\ Idle.alone /\ Idle.sure
BY EmptySeq DEF Idle, Runs, Phases

\* A run of a reachable state has the fields of a run.
LEMMA RunType ==
  ASSUME HomeInv, NEW p \in Procs
  PROVE  /\ proc \in [Procs -> Runs] /\ proc[p] \in Runs
         /\ proc[p].open => proc[p].at = "write" /\ Head(proc[p].todo).to \in Files
BY TypesAre DEF HomeInv, Target

\* A run stays in order if the files do, or if it is not sure of them anyway.
LEMMA RunStays ==
  ASSUME NEW r, RunOK(r), UNCHANGED <<files, heads, upstream>> \/ ~r.sure
  PROVE  RunOK(r)'
<1>1. ASSUME NEW v \in Versions, Installing(r, v)
      PROVE  Installing(r, v)'
  <2>1. CASE UNCHANGED <<files, heads, upstream>>
    BY <1>1, <2>1 DEF Installing, At
  <2>2. CASE ~r.sure
    BY <1>1, <2>2 DEF Installing
  <2>3. QED
    BY <2>1, <2>2
<1>2. ASSUME NEW v \in Versions, Using(r, v)
      PROVE  Using(r, v)'
  <2>1. CASE UNCHANGED <<files, heads, upstream>>
    BY <1>2, <2>1 DEF Using
  <2>2. CASE ~r.sure
    BY <1>2, <2>2 DEF Using
  <2>3. QED
    BY <2>1, <2>2
<1>3. r.sure /\ Exists(Bin(r.cmd.version)) => Exists(Bin(r.cmd.version))'
  BY DEF Exists
<1>4. WriteOK(r) => WriteOK(r)'
  BY <1>1, <1>2, <1>3 DEF WriteOK
<1>5. Sourced(r) => Sourced(r)'
  BY DEF Sourced, RevOf
<1>6. QED
  BY <1>4, <1>5 DEF RunOK

\* At most one run is alone; without an upset it is this one.
LEMMA OthersNotAlone ==
  ASSUME HomeInv, NEW p \in Procs, proc[p].at # "idle"
  PROVE  /\ \A q \in Procs \ {p} : proc[q].at = "idle" \/ ~proc[q].alone
         /\ proc[p].alone => \A q \in Procs \ {p} : proc[q].at = "idle"
         /\ done # None => ~done.sure
         /\ ~upset => proc[p].alone /\ CleanFiles /\ CleanRun(proc[p])
         /\ RunOK(proc[p])
         /\ proc[p].alone /\ proc[p].open => files[Head(proc[p].todo).to] = Torn
<1>1. \A q \in Procs \ {p} : proc[q].at = "idle" \/ ~proc[q].alone
  BY DEF HomeInv, AloneInv, Alone
<1>2. proc[p].alone => \A q \in Procs \ {p} : proc[q].at = "idle"
  BY DEF HomeInv, AloneInv, Alone
<1>3. done # None => ~done.sure
  BY DEF HomeInv, DoneInv
<1>4. ~upset => proc[p].alone /\ CleanFiles /\ CleanRun(proc[p])
  BY DEF HomeInv, CleanInv, CleanRun
<1>5. RunOK(proc[p])
  BY DEF HomeInv, RunInv
<1>6. proc[p].alone /\ proc[p].open => files[Head(proc[p].todo).to] = Torn
  BY RunType DEF HomeInv, AloneInv, Target
<1>7. QED
  BY <1>1, <1>2, <1>3, <1>4, <1>5, <1>6

\* A step of a run that goes on, whatever it does to the files.
LEMMA Acts ==
  ASSUME HomeInv, NEW p \in Procs, proc[p].at # "idle", NEW w \in Runs, w.at # "idle",
         proc' = [proc EXCEPT ![p] = w], w.alone <=> proc[p].alone, RunOK(w)',
         w.open => w.at = "write" /\ Head(w.todo).to \in Files,
         w.alone /\ w.open => files'[Head(w.todo).to] = Torn,
         FileTypes', HeadTypes', agreed' \in SettingsRecords,
         UNCHANGED <<upstream, receipts, runs, done, upset>>,
         \A q \in Procs \ {p} : proc[q].alone => UNCHANGED files \/ proc[q].at = "idle",
         TreeInv', ~upset => CleanFiles' /\ CleanRun(w)'
  PROVE  HomeInv'
<1>1. proc \in [Procs -> Runs]
  BY RunType
<1>2. proc'[p] = w /\ \A q \in Procs \ {p} : proc'[q] = proc[q]
  BY <1>1
<1>3. TypeOK'
  <2>1. proc' \in [Procs -> Runs]
    BY <1>1
  <2>2. \A q \in Procs : proc'[q].open => proc'[q].at = "write" /\ Target(q)' \in Files
    BY <1>2, RunType DEF Target
  <2>3. /\ receipts' \in [Keys -> Compilers \cup {None, Mixed}]
        /\ upstream' \in Revs /\ runs' \in 0..MaxRuns
    BY TypesAre DEF HomeInv
  <2>4. QED
    BY <2>1, <2>2, <2>3, TypesNext
<1>4. RunInv'
  <2> SUFFICES ASSUME NEW q \in Procs \ {p}, proc[q].at # "idle"
               PROVE  RunOK(proc[q])'
    BY <1>2 DEF RunInv, RunOK
  <2> PICK r : r = proc[q]
    OBVIOUS
  <2>1. RunOK(r) /\ ~r.sure
    BY OthersNotAlone DEF HomeInv, RunInv, RunOK
  <2>2. RunOK(r)'
    BY <2>1, RunStays
  <2>3. QED
    BY <2>2, <1>2
<1>5. AloneInv'
  <2> SUFFICES ASSUME NEW q \in Procs, proc'[q].at # "idle", proc'[q].alone
               PROVE  Alone(q)' /\ (proc'[q].open => files'[Target(q)'] = Torn)
    BY DEF AloneInv
  <2>1. q = p
    BY <1>2, OthersNotAlone
  <2>2. Alone(q)'
    BY <1>2, <2>1, OthersNotAlone DEF Alone
  <2>3. QED
    BY <1>2, <2>1, <2>2 DEF Target
<1>6. CleanInv'
  <2> SUFFICES ASSUME ~upset
               PROVE  CleanFiles' /\ \A q \in Procs : proc'[q].at # "idle" => CleanRun(proc[q])'
    BY DEF CleanInv
  <2>1. \A q \in Procs \ {p} : proc'[q].at = "idle"
    BY <1>2, OthersNotAlone
  <2>2. CleanRun(proc[p])'
    BY <1>2
  <2>3. QED
    BY <2>1, <2>2
<1>7. DoneInv'
  BY OthersNotAlone DEF DoneInv
<1>8. QED
  BY <1>3, <1>4, <1>5, <1>6, <1>7 DEF HomeInv

\* A step that ends a run, with success or not.
LEMMA Ends ==
  ASSUME HomeInv, NEW p \in Procs, proc[p].at # "idle", proc' = [proc EXCEPT ![p] = Idle],
         FileTypes', HeadTypes', agreed' \in SettingsRecords,
         receipts' \in [Keys -> Compilers \cup {None, Mixed}],
         UNCHANGED <<upstream, runs>>, TreeInv', ~upset' => ~upset /\ CleanFiles',
         \/ UNCHANGED done
         \/ done' = [cmd |-> proc[p].cmd, sure |-> FALSE]
         \/ /\ done' = [cmd |-> proc[p].cmd, sure |-> proc[p].sure]
            /\ proc[p].sure => CommandsKeepTheirWord'
  PROVE  HomeInv'
<1>1. proc \in [Procs -> Runs]
  BY RunType
<1>2. proc'[p] = Idle /\ \A q \in Procs \ {p} : proc'[q] = proc[q]
  BY <1>1
<1>3. TypeOK'
  <2>1. proc' \in [Procs -> Runs]
    BY <1>1, IdleType
  <2>2. \A q \in Procs : proc'[q].open => proc'[q].at = "write" /\ Target(q)' \in Files
    BY <1>2, RunType, IdleType DEF Target
  <2>3. upstream' \in Revs /\ runs' \in 0..MaxRuns
    BY TypesAre DEF HomeInv
  <2>4. QED
    BY <2>1, <2>2, <2>3, TypesNext
<1>4. RunInv'
  <2> SUFFICES ASSUME NEW q \in Procs \ {p}, proc[q].at # "idle"
               PROVE  RunOK(proc[q])'
    BY <1>2, IdleType DEF RunInv, RunOK
  <2> PICK r : r = proc[q]
    OBVIOUS
  <2>1. RunOK(r) /\ ~r.sure
    BY OthersNotAlone DEF HomeInv, RunInv, RunOK
  <2>2. RunOK(r)'
    BY <2>1, RunStays
  <2>3. QED
    BY <2>2, <1>2
<1>5. AloneInv'
  BY <1>2, IdleType, OthersNotAlone DEF AloneInv
<1>6. CleanInv'
  BY <1>2, IdleType, OthersNotAlone DEF CleanInv
<1>7. DoneInv'
  <2>1. CASE UNCHANGED done
    BY <2>1, OthersNotAlone DEF DoneInv
  <2>2. CASE /\ done' = [cmd |-> proc[p].cmd, sure |-> proc[p].sure]
             /\ proc[p].sure => CommandsKeepTheirWord'
    <3>1. done'.sure <=> proc[p].sure
      BY <2>2
    <3>2. proc[p].sure => proc[p].alone
      BY OthersNotAlone DEF RunOK
    <3>3. proc[p].alone => \A q \in Procs : proc'[q].at = "idle"
      BY <1>2, IdleType, OthersNotAlone
    <3>4. QED
      BY <2>2, <3>1, <3>2, <3>3 DEF DoneInv
  <2>3. CASE done' = [cmd |-> proc[p].cmd, sure |-> FALSE]
    BY <2>3 DEF DoneInv
  <2>4. QED
    BY <2>1, <2>2, <2>3
<1>8. QED
  BY <1>3, <1>4, <1>5, <1>6, <1>7 DEF HomeInv

\* Files and checkouts are as they were, and the run has none open.
LEMMA FilesStay ==
  ASSUME HomeInv, UNCHANGED <<files, heads, agreed>>,
         NEW p \in Procs, ~proc[p].open, \A q \in Procs \ {p} : proc'[q] = proc[q],
         ~proc'[p].open
  PROVE  /\ FileTypes' /\ HeadTypes' /\ agreed' \in SettingsRecords /\ TreeInv'
         /\ CleanFiles /\ UNCHANGED receipts => CleanFiles'
<1>1. \A q \in Procs : \A f : IsOpenFor(q, f)' <=> IsOpenFor(q, f)
  BY DEF IsOpenFor, Target
<1>2. FileTypes' /\ HeadTypes' /\ agreed' \in SettingsRecords
  BY TypesAre DEF HomeInv, FileTypes, HeadTypes
<1>3. TreeInv'
  BY <1>1 DEF HomeInv, TreeInv
<1>4. CleanFiles /\ UNCHANGED receipts => CleanFiles'
  BY <1>1 DEF CleanFiles, LoadSettings, Exists
<1>5. QED
  BY <1>2, <1>3, <1>4

\* A step that goes on in the same command and leaves all but proc keeps the
\* invariant, if the run is in order at its new place.
LEMMA Moves ==
  ASSUME HomeInv, NEW p \in Procs, proc[p].at \notin {"idle", "write"},
         NEW w \in Runs, w.at # "idle", ~w.open,
         proc' = [proc EXCEPT ![p] = w], w.alone <=> proc[p].alone,
         UNCHANGED <<files, heads, upstream, receipts, runs, done, upset, agreed>>,
         RunOK(w), ~upset => CleanRun(w)'
  PROVE  HomeInv'
<1>1. ~proc[p].open /\ proc \in [Procs -> Runs]
  BY RunType
<1>2. proc'[p] = w /\ \A q \in Procs \ {p} : proc'[q] = proc[q]
  BY <1>1
<1>3. /\ FileTypes' /\ HeadTypes' /\ agreed' \in SettingsRecords /\ TreeInv'
      /\ CleanFiles => CleanFiles'
  BY <1>1, <1>2, FilesStay
<1>4. RunOK(w)'
  BY RunStays
<1>5. ~upset => CleanFiles' /\ CleanRun(w)'
  BY <1>3, OthersNotAlone
<1>6. QED
  BY <1>3, <1>4, <1>5, Acts

\* A run that fails keeps the invariant.
LEMMA FailsHolds ==
  ASSUME HomeInv, NEW p \in Procs, proc[p].at # "idle", ~proc[p].open, Fails(p)
  PROVE  HomeInv'
<1>1. /\ proc' = [proc EXCEPT ![p] = Idle]
      /\ UNCHANGED <<files, heads, upstream, receipts, runs, done, upset, agreed>>
  BY DEF Fails
<1>2. proc'[p] = Idle /\ \A q \in Procs \ {p} : proc'[q] = proc[q]
  BY <1>1, RunType
<1>3. /\ FileTypes' /\ HeadTypes' /\ agreed' \in SettingsRecords /\ TreeInv'
      /\ CleanFiles => CleanFiles'
  BY <1>1, <1>2, FilesStay, IdleType
<1>4. receipts' \in [Keys -> Compilers \cup {None, Mixed}]
  BY <1>1, TypesAre DEF HomeInv
<1>5. QED
  BY <1>1, <1>3, <1>4, OthersNotAlone, Ends

-----------------------------------------------------------------------------
(* The steps that leave the files alone                                     *)

\* Which commands reach which phase.
LEMMA StagesAre ==
  ASSUME NEW do \in Kinds
  PROVE  /\ "source" \in Stages(do) => do \in {"install", "plan"}
         /\ "revision" \in Stages(do) => do \in {"install", "plan"}
         /\ "probe" \in Stages(do) => do \in {"install", "tool install", "plan"}
         /\ "select" \in Stages(do) => do = "tool use"
         /\ "pin" \in Stages(do) => do = "tool pin"
         /\ "update" \in Stages(do) => do = "change"
         /\ {"plan", "resolve", "save", "run", "running"} \cap Stages(do) # {} => do = "plan"
         /\ do \in {"install", "plan"} => {"source", "revision", "probe"} \subseteq Stages(do)
         /\ do = "plan" => {"plan", "resolve", "save", "run", "running"} \subseteq Stages(do)
         /\ do # "plan" => "idle" \in Stages(do)
         /\ do = "plan" => "idle" \notin Stages(do)
BY DEF Stages, Kinds, Installs

\* Where a run is that does not write.
LEMMA RunIs ==
  ASSUME HomeInv, NEW p \in Procs, proc[p].at \notin {"idle", "write"}
  PROVE  LET r == proc[p]
         IN  /\ r \in Runs /\ ~r.open /\ RunOK(r) /\ r.cmd \in Commands /\ r.cmd.do \in Kinds
             /\ r.at \in Stages(r.cmd.do)
             /\ r.at \in {"source", "revision"} => r.ref \in Refs
             /\ r.at \in {"probe", "run"} => r.path \in Paths
             /\ r.at = "probe" /\ r.cmd.do \in Installs => r.path \in Sources
             /\ r.cmd.do = "tool install" => r.path = r.cmd.bin
             /\ r.at = "save" => Named(r)
             /\ r.at \in {"run", "running"} => r.key \in Keys
             /\ r.at = "running" => r.rev \in Compilers \cup {Mixed}
<1> PICK r : r = proc[p]
  OBVIOUS
<1>1. r \in Runs /\ ~r.open /\ RunOK(r) /\ r.at # "idle" /\ r.at # "write"
  BY RunType, OthersNotAlone
<1>2. QED
  BY <1>1 DEF RunOK, Heading, Sourced

\* A run that has named its compiler, its path and its key.
LEMMA NamedRun ==
  ASSUME NEW r \in Runs, NEW rev \in Compilers \cup {None, Mixed}, NEW path \in Paths \cup {None},
         NEW key \in Keys \cup {None}, NEW w, w = [r EXCEPT !.rev = rev, !.path = path, !.key = key]
  PROVE  /\ w \in Runs /\ w.rev = rev /\ w.path = path /\ w.key = key
         /\ w.at = r.at /\ w.cmd = r.cmd /\ w.ref = r.ref /\ w.seen = r.seen
         /\ w.open = r.open /\ w.alone = r.alone /\ w.sure = r.sure
BY DEF Runs

\* A run that has only gone on to another phase.
LEMMA RunAt ==
  ASSUME NEW r \in Runs, NEW at \in Phases, NEW w, w = [r EXCEPT !.at = at]
  PROVE  w \in Runs
BY DEF Runs

\* Only installs have to know their checkout.
LEMMA OtherSourced == ASSUME NEW r, r.cmd.do # "install" PROVE Sourced(r)
BY DEF Sourced

\* EnsureSource: the work tree is there, or is about to be checked out.
LEMMA EnsureSourceHolds ==
  ASSUME HomeInv, NEW p \in Procs, EnsureSource(p)
  PROVE  HomeInv'
<1> PICK r : r = proc[p]
  OBVIOUS
<1>1. r.at = "source" /\ UNCHANGED <<files, heads, upstream, receipts, runs, done, upset, agreed>>
  BY DEF EnsureSource
<1>2. /\ r \in Runs /\ ~r.open /\ RunOK(r) /\ r.cmd \in Commands /\ r.cmd.do \in {"install", "plan"}
      /\ r.ref \in Refs /\ proc \in [Procs -> Runs]
      /\ {"source", "revision", "probe"} \subseteq Stages(r.cmd.do) /\ r.cmd.do \in Kinds
  BY <1>1, RunIs, RunType, StagesAre
<1>3. CASE ~r.cmd.online /\ Goto(p, "revision")
  <2> PICK w : w = [r EXCEPT !.at = "revision"]
    OBVIOUS
  <2>1. /\ w \in Runs /\ w.at = "revision" /\ ~w.open /\ w.alone = r.alone /\ w.sure = r.sure
        /\ w.cmd = r.cmd
        /\ w.ref = r.ref /\ proc' = [proc EXCEPT ![p] = w]
    BY <1>2, <1>3 DEF Goto, Runs, Phases
  <2>5. Sourced(r) => Sourced(w)
    BY <1>1, <1>3, <2>1 DEF Sourced, Heading
  <2>2. RunOK(w)
    BY <1>1, <1>2, <2>1, <2>5 DEF RunOK, Heading
  <2>3. ~upset => CleanRun(w)'
    BY <1>1, <2>1, OthersNotAlone DEF CleanRun
  <2>4. QED
    BY <1>1, <2>1, <2>2, <2>3, Moves
<1>4. CASE Writes(p, <<Put(Tree(r.ref), RevOf(r.ref))>>, "revision")
  <2> PICK rev : rev = RevOf(r.ref)
    OBVIOUS
  <2> PICK todo : todo = <<Put(Tree(r.ref), rev)>>
    OBVIOUS
  <2> PICK w : w = [r EXCEPT !.at = "write", !.todo = todo, !.next = "revision"]
    OBVIOUS
  <2>1. rev \in Revs
    BY TypesAre DEF HomeInv, RevOf
  <2>2. todo \in Seq(Jobs)
    BY <1>2, <2>1, TreeTodo
  <2>3. /\ w \in Runs /\ w.at = "write" /\ ~w.open /\ w.alone = r.alone /\ w.sure = r.sure
        /\ w.cmd = r.cmd
        /\ w.ref = r.ref /\ w.todo = todo /\ w.next = "revision"
        /\ proc' = [proc EXCEPT ![p] = w]
    BY <1>2, <1>4, <2>2, ZenonT(30) DEF Writes, Runs, Phases
  <2>4. WriteOK(w)
    BY <2>1, <2>3 DEF WriteOK
  <2>8. Sourced(r) => Sourced(w)
    BY <2>3 DEF Sourced, Heading
  <2>5. RunOK(w)
    BY <1>1, <1>2, <2>3, <2>4, <2>8 DEF RunOK, Heading
  <2>6. ~upset => CleanRun(w)'
    BY <1>1, <1>2, <2>3, OthersNotAlone DEF CleanRun
  <2>7. QED
    BY <1>1, <2>3, <2>5, <2>6, Moves
<1>5. QED
  BY <1>3, <1>4 DEF EnsureSource

\* Build: the compiler of HEAD is the key, and built if it is not there.
LEMMA BuildHolds ==
  ASSUME HomeInv, NEW p \in Procs, Build(p)
  PROVE  HomeInv'
<1>p. PICK r, rev, after : r = proc[p] /\ rev = heads[r.ref] /\ after = AfterBuild(p)
  OBVIOUS
<1>1. /\ r.at = "revision" /\ rev \in Revs
      /\ UNCHANGED <<files, heads, upstream, receipts, runs, done, upset, agreed>>
  BY <1>p DEF Build
<1>2. /\ r \in Runs /\ ~r.open /\ RunOK(r) /\ r.cmd \in Commands /\ r.cmd.do \in {"install", "plan"}
      /\ r.ref \in Refs /\ proc \in [Procs -> Runs] /\ r.cmd.do \in Kinds
  BY <1>p, <1>1, RunIs, RunType, StagesAre
<1>3. /\ after \in {"probe", "save"} /\ after \in Stages(r.cmd.do)
      /\ after = "probe" => r.cmd.do = "install"
  BY <1>p, <1>2, StagesAre DEF AfterBuild
<1>4. Built(rev) \in Paths /\ Built(rev) \in Sources /\ rev \in Compilers /\ rev \in Keys
  BY <1>1, RevsAreRefs DEF Paths, Sources, Keys
<1>0. /\ after \in Phases /\ "write" \in Phases /\ Built(rev) \in Paths \cup {None}
      /\ rev \in Compilers \cup {None, Mixed} /\ rev \in Keys \cup {None}
  BY <1>3, <1>4 DEF Phases
<1>m. PICK named : named = [r EXCEPT !.rev = rev, !.path = Built(rev), !.key = rev]
  OBVIOUS
<1>n. /\ named \in Runs /\ named.rev = rev /\ named.path = Built(rev) /\ named.key = rev
      /\ named.at = r.at /\ named.cmd = r.cmd /\ named.ref = r.ref
      /\ named.open = r.open /\ named.alone = r.alone /\ named.sure = r.sure
  <2>p. PICK path : path = Built(rev)
    OBVIOUS
  <2>1. /\ r \in Runs /\ path \in Paths \cup {None} /\ rev \in Compilers \cup {None, Mixed}
        /\ rev \in Keys \cup {None} /\ named = [r EXCEPT !.rev = rev, !.path = path, !.key = rev]
    BY <1>0, <1>2, <1>m, <2>p
  <2>2. named \in Runs
    BY <2>1, NamedRun, ZenonT(30)
  <2>3. /\ named.rev = rev /\ named.path = path /\ named.key = rev
        /\ named.at = r.at /\ named.cmd = r.cmd /\ named.ref = r.ref
        /\ named.open = r.open /\ named.alone = r.alone /\ named.sure = r.sure
    BY <2>1, SMTT(30) DEF Runs
  <2>4. QED
    BY <2>2, <2>3, <2>p
<1>5. CASE proc' = [proc EXCEPT ![p].rev = rev, ![p].path = Built(rev), ![p].key = rev,
                                ![p].at = after]
  <2>w. PICK w : w = [named EXCEPT !.at = after]
    OBVIOUS
  <2>1. /\ w \in Runs /\ w.at = after /\ ~w.open /\ w.alone = r.alone /\ w.sure = r.sure
        /\ w.cmd = r.cmd
        /\ w.ref = r.ref /\ w.rev = rev /\ w.path = Built(rev) /\ w.key = rev
    <3>1. named \in Runs /\ after \in Phases /\ w = [named EXCEPT !.at = after]
      BY <1>0, <1>n, <2>w
    <3>2. w \in Runs
      BY <3>1 DEF Runs
    <3>3. /\ w.at = after /\ w.open = named.open /\ w.alone = named.alone /\ w.sure = named.sure
          /\ w.cmd = named.cmd
          /\ w.ref = named.ref /\ w.rev = named.rev /\ w.path = named.path /\ w.key = named.key
      BY <3>1 DEF Runs
    <3>4. QED
      BY <1>2, <1>n, <3>2, <3>3
  <2>2. proc' = [proc EXCEPT ![p] = w]
    BY <1>p, <1>2, <1>5, <1>m, <2>w
  <2>6. Sourced(r) => Sourced(w)
    BY <1>p, <1>1, <1>3, <2>1 DEF Sourced, Heading
  <2>3. RunOK(w)
    BY <1>1, <1>2, <1>3, <1>4, <2>1, <2>6 DEF RunOK, Heading, Named
  <2>4. ~upset => CleanRun(w)'
    BY <1>1, <1>3, <2>1, <1>p, OthersNotAlone DEF CleanRun
  <2>5. QED
    BY <1>1, <1>3, <2>1, <2>2, <2>3, <2>4, <1>p, Moves
<1>6. CASE proc' = [proc EXCEPT ![p].rev = rev, ![p].path = Built(rev), ![p].key = rev,
                                ![p].at = "write", ![p].next = after,
                                ![p].todo = <<Copy(Tree(r.ref), Built(rev))>>]
  <2>t. PICK todo : todo = <<Copy(Tree(r.ref), Built(rev))>>
    OBVIOUS
  <2>w. PICK w : w = [named EXCEPT !.at = "write", !.next = after, !.todo = todo]
    OBVIOUS
  <2>1. todo \in Seq(Jobs)
    BY <1>1, <1>2, <2>t, BuiltTodo
  <2>2. /\ w \in Runs /\ w.at = "write" /\ w.next = after /\ w.todo = todo
        /\ ~w.open /\ w.alone = r.alone /\ w.sure = r.sure /\ w.cmd = r.cmd
        /\ w.ref = r.ref /\ w.rev = rev /\ w.path = Built(rev) /\ w.key = rev
    <3>1. /\ named \in Runs /\ after \in Phases /\ "write" \in Phases /\ todo \in Seq(Jobs)
          /\ w = [named EXCEPT !.at = "write", !.next = after, !.todo = todo]
      BY <1>0, <1>n, <2>1, <2>w
    <3>2. w \in Runs
      BY <3>1 DEF Runs
    <3>3. /\ w.at = "write" /\ w.next = after /\ w.todo = todo
          /\ w.open = named.open /\ w.alone = named.alone /\ w.sure = named.sure
          /\ w.cmd = named.cmd
          /\ w.ref = named.ref /\ w.rev = named.rev /\ w.path = named.path /\ w.key = named.key
      BY <3>1 DEF Runs
    <3>4. QED
      BY <1>2, <1>n, <3>2, <3>3
  <2>3. proc' = [proc EXCEPT ![p] = w]
    BY <1>p, <1>2, <1>6, <1>m, <2>w, <2>t
  <2>4. Named(w) /\ WriteOK(w)
    BY <1>1, <1>2, <1>3, <2>2, <2>t DEF WriteOK, Named
  <2>8. Sourced(r) => Sourced(w)
    BY <1>p, <1>1, <1>3, <2>2 DEF Sourced, Heading
  <2>5. RunOK(w)
    BY <1>1, <1>2, <1>3, <1>4, <2>2, <2>4, <2>8 DEF RunOK, Heading
  <2>6. ~upset => CleanRun(w)'
    BY <1>1, <1>2, <1>3, <2>2, <1>p, OthersNotAlone DEF CleanRun
  <2>7. QED
    BY <1>1, <2>2, <2>3, <2>5, <2>6, <1>p, Moves
<1>7. QED
  <2>1. CASE Exists(Built(rev))
    BY <2>1, <1>p, <1>5, <1>2 DEF Build
  <2>2. CASE ~Exists(Built(rev))
    BY <2>2, <1>p, <1>6, <1>2 DEF Build
  <2>3. QED
    BY <2>1, <2>2

-----------------------------------------------------------------------------
\* Settings that load are a record of settings.
LEMMA LoadType ==
  ASSUME HomeInv, ~SettingsFail
  PROVE  LoadSettings \in SettingsRecords
<1>1. files[Settings] \in SettingsRecords \cup {None, Torn, Mixed}
  BY DEF HomeInv, TypeOK
<1>2. CASE Exists(Settings)
  BY <1>1, <1>2 DEF SettingsFail, Broken, LoadSettings, Exists
<1>3. CASE ~Exists(Settings)
  BY <1>3 DEF LoadSettings, DefaultSettings, SettingsRecords, Risks, Lanes, Profiles
<1>4. QED
  BY <1>2, <1>3

\* What each file may hold, by its kind.
LEMMA FileIs ==
  ASSUME HomeInv
  PROVE  /\ \A d \in Dirs : files[Bin(d)] \in Compilers \cup {None, Torn, Mixed}
         /\ \A d \in Dirs : files[Meta(d)] \in Versions \cup {None, Torn, Mixed}
         /\ \A ref \in Refs : files[Tree(ref)] \in Revs \cup {None, Torn}
         /\ \A rev \in Revs : files[Built(rev)] \in Revs \cup {None, Torn, Mixed}
BY DEF HomeInv, TypeOK

\* What a path of a compiler leads to.
LEMMA AtIs ==
  ASSUME HomeInv, NEW path \in Paths
  PROVE  /\ At(path) \in Compilers \cup {None, Torn, Mixed}
         /\ CleanFiles => At(path) # Mixed
         /\ path \notin Locals => path \in Files /\ At(path) = files[path]
<1>1. CASE path \in Locals
  BY <1>1, RevsAreRefs, Markers DEF At
<1>2. CASE path \notin Locals
  <2>1. path \in Files /\ files[path] \in Compilers \cup {None, Torn, Mixed}
    BY <1>2, FileIs, FilesAre, RevsAreRefs DEF Paths
  <2>2. QED
    BY <1>2, <2>1 DEF At, CleanFiles
<1>3. QED
  BY <1>1, <1>2

\* A built compiler is no user's file.
LEMMA BuiltIsFile ==
  ASSUME NEW rev \in Revs
  PROVE  Built(rev) \in Paths /\ Built(rev) \in Sources /\ Built(rev) \notin Locals
BY FilesAre, NamesAssumption DEF Paths, Sources

\* AlreadySaved: the settings named the commit already, the run goes on.
LEMMA AlreadySavedHolds ==
  ASSUME HomeInv, NEW p \in Procs, AlreadySaved(p)
  PROVE  HomeInv'
<1>p. PICK r, w : r = proc[p] /\ w = [r EXCEPT !.at = "run"]
  OBVIOUS
<1>1. /\ r.at = "save" /\ proc' = [proc EXCEPT ![p].at = "run"]
      /\ UNCHANGED <<files, heads, upstream, receipts, runs, done, upset, agreed>>
  BY <1>p DEF AlreadySaved, Goto
<1>2. /\ r \in Runs /\ ~r.open /\ RunOK(r) /\ r.cmd \in Commands /\ r.cmd.do = "plan"
      /\ Named(r) /\ proc \in [Procs -> Runs] /\ r.cmd.do \in Kinds
      /\ "run" \in Stages(r.cmd.do)
  BY <1>p, <1>1, RunIs, RunType, StagesAre
<1>3. w \in Runs
  BY <1>p, <1>2, RunAt DEF Phases
<1>4. /\ w.at = "run" /\ ~w.open /\ w.alone = r.alone /\ w.sure = r.sure /\ w.cmd = r.cmd
      /\ w.rev = r.rev /\ w.path = r.path /\ w.key = r.key
  BY <1>p, <1>2 DEF Runs
<1>5. proc' = [proc EXCEPT ![p] = w]
  BY <1>p, <1>1, <1>2
<1>6. w.key \in Revs /\ w.path = Built(w.key) /\ w.path \in Paths /\ w.key \in Keys
  BY <1>2, <1>4, BuiltIsFile DEF Named, Keys
<1>7. RunOK(w)
  BY <1>1, <1>2, <1>4, <1>6, OtherSourced DEF RunOK, Heading
<1>8. ~upset => CleanRun(w)'
  BY <1>p, <1>1, <1>4, <1>6, OthersNotAlone DEF CleanRun
<1>9. QED
  BY <1>p, <1>1, <1>3, <1>4, <1>5, <1>7, <1>8, Moves, ZenonT(30)

\* PlanBinary: a plan looks for a binary.
LEMMA PlanBinaryHolds ==
  ASSUME HomeInv, NEW p \in Procs, PlanBinary(p)
  PROVE  HomeInv'
<1>p. PICK r, w : r = proc[p] /\ w = [r EXCEPT !.at = "resolve"]
  OBVIOUS
<1>1. /\ r.at = "plan" /\ proc' = [proc EXCEPT ![p].at = "resolve"]
      /\ UNCHANGED <<files, heads, upstream, receipts, runs, done, upset, agreed>>
  BY <1>p DEF PlanBinary, Goto
<1>2. /\ r \in Runs /\ ~r.open /\ RunOK(r) /\ r.cmd \in Commands /\ r.cmd.do = "plan"
      /\ proc \in [Procs -> Runs] /\ r.cmd.do \in Kinds /\ "resolve" \in Stages(r.cmd.do)
  BY <1>p, <1>1, RunIs, RunType, StagesAre
<1>3. w \in Runs
  BY <1>p, <1>2, RunAt DEF Phases
<1>4. /\ w.at = "resolve" /\ ~w.open /\ w.alone = r.alone /\ w.sure = r.sure /\ w.cmd = r.cmd
  BY <1>p, <1>2 DEF Runs
<1>5. proc' = [proc EXCEPT ![p] = w]
  BY <1>p, <1>1, <1>2
<1>6. RunOK(w)
  BY <1>1, <1>2, <1>4, OtherSourced DEF RunOK, Heading
<1>7. ~upset => CleanRun(w)'
  BY <1>p, <1>1, <1>4, OthersNotAlone DEF CleanRun
<1>8. QED
  BY <1>p, <1>1, <1>3, <1>4, <1>5, <1>6, <1>7, Moves

\* ResolveBinary: the one given, the pinned one or the current one.
LEMMA ResolveBinaryHolds ==
  ASSUME HomeInv, NEW p \in Procs, ResolveBinary(p)
  PROVE  HomeInv'
<1>p. PICK r : r = proc[p]
  OBVIOUS
<1>q. PICK path \in ResolveStyioBinary(r.cmd) :
        proc' = [proc EXCEPT ![p].at = "probe", ![p].path = path]
  BY <1>p DEF ResolveBinary
<1>w. PICK w : w = [r EXCEPT !.at = "probe", !.path = path]
  OBVIOUS
<1>1. /\ r.at = "resolve"
      /\ UNCHANGED <<files, heads, upstream, receipts, runs, done, upset, agreed>>
  BY <1>p DEF ResolveBinary
<1>2. /\ r \in Runs /\ ~r.open /\ RunOK(r) /\ r.cmd \in Commands /\ r.cmd.do = "plan"
      /\ proc \in [Procs -> Runs] /\ r.cmd.do \in Kinds /\ "probe" \in Stages(r.cmd.do)
  BY <1>p, <1>1, RunIs, RunType, StagesAre
<1>3. path \in Paths
  <2>1. r.cmd.bin \in Locals \cup {None}
    BY <1>2, CommandsAssumption
  <2>2. \A v \in Versions : Bin(v) \in Paths
    BY DirsAre DEF Paths
  <2>3. Bin("current") \in Paths
    BY DirsAre DEF Paths
  <2>4. r.cmd.bin \in Locals => r.cmd.bin \in Paths
    BY DEF Paths
  <2>5. QED
    BY <1>q, <2>1, <2>2, <2>3, <2>4 DEF ResolveStyioBinary
<1>4. w \in Runs
  BY <1>w, <1>2, <1>3 DEF Runs, Phases
<1>5. /\ w.at = "probe" /\ ~w.open /\ w.alone = r.alone /\ w.sure = r.sure
      /\ w.cmd = r.cmd /\ w.path = path
  BY <1>w, <1>2 DEF Runs
<1>6. proc' = [proc EXCEPT ![p] = w]
  BY <1>p, <1>q, <1>w, <1>2
<1>7. RunOK(w)
  BY <1>1, <1>2, <1>3, <1>5, OtherSourced DEF RunOK, Heading, Installs
<1>8. ~upset => CleanRun(w)'
  BY <1>p, <1>1, <1>5, OthersNotAlone DEF CleanRun
<1>9. QED
  BY <1>p, <1>1, <1>4, <1>5, <1>6, <1>7, <1>8, Moves

\* PlanFromSource: it builds one.
LEMMA PlanFromSourceHolds ==
  ASSUME HomeInv, NEW p \in Procs, PlanFromSource(p)
  PROVE  HomeInv'
<1>p. PICK r, saved, ref : /\ r = proc[p] /\ saved = LoadSettings.revision
                           /\ ref = IF saved = None THEN "stable" ELSE saved
  OBVIOUS
<1>w. PICK w : w = [r EXCEPT !.at = "source", !.seen = saved, !.ref = ref]
  OBVIOUS
<1>1. /\ r.at = "plan" /\ ~SettingsFail
      /\ proc' = [proc EXCEPT ![p].at = "source", ![p].seen = saved, ![p].ref = ref]
      /\ UNCHANGED <<files, heads, upstream, receipts, runs, done, upset, agreed>>
  BY <1>p DEF PlanFromSource
<1>2. /\ r \in Runs /\ ~r.open /\ RunOK(r) /\ r.cmd \in Commands /\ r.cmd.do = "plan"
      /\ proc \in [Procs -> Runs] /\ r.cmd.do \in Kinds /\ "source" \in Stages(r.cmd.do)
  BY <1>p, <1>1, RunIs, RunType, StagesAre
<1>3. saved \in Revs \cup {None} /\ ref \in Refs
  <2>1. saved \in Revs \cup {None}
    BY <1>p, <1>1, LoadType DEF SettingsRecords
  <2>2. QED
    BY <1>p, <2>1 DEF Refs
<1>4. w \in Runs
  BY <1>w, <1>2, <1>3 DEF Runs, Phases
<1>5. /\ w.at = "source" /\ ~w.open /\ w.alone = r.alone /\ w.sure = r.sure
      /\ w.cmd = r.cmd /\ w.ref = ref
  BY <1>w, <1>2 DEF Runs
<1>6. proc' = [proc EXCEPT ![p] = w]
  BY <1>p, <1>w, <1>1, <1>2
<1>7. RunOK(w)
  BY <1>1, <1>2, <1>3, <1>5, OtherSourced DEF RunOK, Heading
<1>8. ~upset => CleanRun(w)'
  BY <1>p, <1>1, <1>5, OthersNotAlone DEF CleanRun
<1>9. QED
  BY <1>p, <1>1, <1>4, <1>5, <1>6, <1>7, <1>8, Moves

\* CheckedBinary: the binary answered; the version it reports is the key.
LEMMA CheckedBinaryHolds ==
  ASSUME HomeInv, NEW p \in Procs, CheckedBinary(p)
  PROVE  HomeInv'
<1>p. PICK r : r = proc[p]
  OBVIOUS
<1>q. PICK v \in Versions : /\ Probes(r.path, v)
                            /\ proc' = [proc EXCEPT ![p].at = "run", ![p].key = v]
  BY <1>p DEF CheckedBinary
<1>w. PICK w : w = [r EXCEPT !.at = "run", !.key = v]
  OBVIOUS
<1>1. /\ r.at = "probe" /\ r.cmd.do = "plan"
      /\ UNCHANGED <<files, heads, upstream, receipts, runs, done, upset, agreed>>
  BY <1>p DEF CheckedBinary
<1>2. /\ r \in Runs /\ ~r.open /\ RunOK(r) /\ r.cmd \in Commands /\ r.path \in Paths
      /\ proc \in [Procs -> Runs] /\ r.cmd.do \in Kinds /\ "run" \in Stages(r.cmd.do)
  BY <1>p, <1>1, RunIs, RunType, StagesAre
<1>3. v \in Keys /\ v \notin Revs
  BY <1>q, Markers DEF Keys
<1>4. w \in Runs
  BY <1>w, <1>2, <1>3 DEF Runs, Phases
<1>5. /\ w.at = "run" /\ ~w.open /\ w.alone = r.alone /\ w.sure = r.sure
      /\ w.cmd = r.cmd /\ w.path = r.path
      /\ w.key = v
  BY <1>w, <1>2 DEF Runs
<1>6. proc' = [proc EXCEPT ![p] = w]
  BY <1>p, <1>q, <1>w, <1>2
<1>7. RunOK(w)
  BY <1>1, <1>2, <1>3, <1>5, OtherSourced DEF RunOK, Heading
<1>8. ~upset => CleanRun(w)'
  <2>1. ASSUME ~upset
        PROVE  Keyed(At(r.path), v)
    BY <1>p, <1>q, <1>1, <1>2, <1>3, <2>1, OthersNotAlone, AtIs, HomeAssumption DEF Probes, Keyed
  <2>2. (At(w.path) = At(r.path))'
    BY <1>5
  <2>3. At(r.path)' = At(r.path)
    BY <1>1 DEF At
  <2>4. QED
    BY <1>p, <1>1, <1>5, <2>1, <2>2, <2>3, OthersNotAlone DEF CleanRun
<1>9. QED
  BY <1>p, <1>1, <1>4, <1>5, <1>6, <1>7, <1>8, Moves

\* StartCompiler: the command runs the compiler it has named.
LEMMA StartCompilerHolds ==
  ASSUME HomeInv, NEW p \in Procs, StartCompiler(p)
  PROVE  HomeInv'
<1>p. PICK r, c : r = proc[p] /\ c = At(r.path)
  OBVIOUS
<1>w. PICK w : w = [r EXCEPT !.at = "running", !.rev = c]
  OBVIOUS
<1>1. /\ r.at = "run" /\ c \notin {None, Torn}
      /\ proc' = [proc EXCEPT ![p].at = "running", ![p].rev = c]
      /\ UNCHANGED <<files, heads, upstream, receipts, runs, done, upset, agreed>>
  BY <1>p DEF StartCompiler
<1>2. /\ r \in Runs /\ ~r.open /\ RunOK(r) /\ r.cmd \in Commands /\ r.path \in Paths
      /\ r.cmd.do = "plan" /\ r.key \in Keys
      /\ proc \in [Procs -> Runs] /\ r.cmd.do \in Kinds /\ "running" \in Stages(r.cmd.do)
  BY <1>p, <1>1, RunIs, RunType, StagesAre
<1>3. c \in Compilers \cup {Mixed}
  BY <1>p, <1>1, <1>2, AtIs
<1>4. w \in Runs
  BY <1>w, <1>2, <1>3 DEF Runs, Phases
<1>5. /\ w.at = "running" /\ ~w.open /\ w.alone = r.alone /\ w.sure = r.sure
      /\ w.cmd = r.cmd /\ w.key = r.key
      /\ w.rev = c
  BY <1>w, <1>2 DEF Runs
<1>6. proc' = [proc EXCEPT ![p] = w]
  BY <1>p, <1>w, <1>1, <1>2
<1>7. RunOK(w)
  BY <1>1, <1>2, <1>3, <1>5, OtherSourced DEF RunOK, Heading
<1>8. ~upset => CleanRun(w)'
  <2>1. ASSUME ~upset
        PROVE  Keyed(c, r.key)
    <3>1. CleanFiles /\ CleanRun(r)
      BY <1>p, <1>1, <2>1, OthersNotAlone
    <3>2. CASE r.key \in Revs /\ r.path = Built(r.key)
      <4>1. c = files[Built(r.key)]
        BY <1>p, <3>2, BuiltIsFile, AtIs
      <4>2. c = r.key
        BY <1>1, <3>1, <3>2, <4>1 DEF CleanFiles
      <4>3. QED
        BY <3>2, <4>2, RevsAreRefs DEF Keyed
    <3>3. QED
      BY <1>p, <1>1, <3>1, <3>2 DEF CleanRun
  <2>2. QED
    BY <1>p, <1>1, <1>5, <2>1, OthersNotAlone DEF CleanRun, Keyed
<1>9. QED
  BY <1>p, <1>1, <1>4, <1>5, <1>6, <1>7, <1>8, Moves

-----------------------------------------------------------------------------
(* The steps that decide what to write                                      *)

\* A change of settings gives settings.
LEMMA ChangedType ==
  ASSUME NEW s \in SettingsRecords, NEW c,
         \/ c \in Commands /\ c.do = "change"
         \/ c.do = "plan" /\ c.rev \in Revs
  PROVE  Changed(s, c) \in SettingsRecords
<1>1. CASE c.do = "plan" /\ c.rev \in Revs
  <2>1. Changed(s, c) = [s EXCEPT !.revision = c.rev]
    BY <1>1 DEF Changed
  <2>2. QED
    BY <1>1, <2>1 DEF SettingsRecords
<1>2. CASE c \in Commands /\ c.do = "change"
  <2>1. Changed(s, c) = [s EXCEPT ![c.field] = c.value]
    BY <1>2 DEF Changed
  <2>p. PICK x : x = c.value
    OBVIOUS
  <2>2. CASE c.field = "mode" /\ x \in {"binary", "build"}
    <3>1. Changed(s, c) = [s EXCEPT !.mode = x]
      BY <2>p, <2>1, <2>2
    <3>2. QED
      BY <2>2, <3>1 DEF SettingsRecords
  <2>3. CASE c.field = "risk" /\ x \in Risks
    <3>1. Changed(s, c) = [s EXCEPT !.risk = x]
      BY <2>p, <2>1, <2>3
    <3>2. QED
      BY <2>3, <3>1 DEF SettingsRecords
  <2>4. CASE c.field = "lane" /\ x \in Lanes
    <3>1. Changed(s, c) = [s EXCEPT !.lane = x]
      BY <2>p, <2>1, <2>4
    <3>2. QED
      BY <2>4, <3>1 DEF SettingsRecords
  <2>5. CASE c.field = "security" /\ x \in Profiles
    <3>1. Changed(s, c) = [s EXCEPT !.security = x]
      BY <2>p, <2>1, <2>5
    <3>2. QED
      BY <2>5, <3>1 DEF SettingsRecords
  <2>6. QED
    BY <1>2, <2>p, <2>2, <2>3, <2>4, <2>5, CommandsAssumption
<1>3. QED
  BY <1>1, <1>2

\* The change that a run makes to the settings.
ChangeOf(r) == IF r.cmd.do = "plan" THEN [do |-> "plan", rev |-> r.rev] ELSE r.cmd

\* So does the change that a build makes.
LEMMA ChangeOfType ==
  ASSUME NEW r, NEW s \in SettingsRecords, r.cmd \in Commands,
         r.cmd.do = "change" \/ (r.cmd.do = "plan" /\ r.rev \in Revs)
  PROVE  Changed(s, ChangeOf(r)) \in SettingsRecords
<1>p. PICK c : c = ChangeOf(r)
  OBVIOUS
<1>1. CASE r.cmd.do = "plan" /\ r.rev \in Revs
  <2>1. c.do = "plan" /\ c.rev \in Revs
    BY <1>p, <1>1 DEF ChangeOf
  <2>2. QED
    BY <1>p, <2>1, ChangedType
<1>2. CASE r.cmd.do = "change"
  <2>1. c = r.cmd
    BY <1>p, <1>2 DEF ChangeOf
  <2>2. QED
    BY <1>p, <1>2, <2>1, ChangedType
<1>3. QED
  BY <1>1, <1>2

\* Update: the settings of a change or a build are to be written.
LEMMA UpdateHolds ==
  ASSUME HomeInv, NEW p \in Procs, Update(p)
  PROVE  HomeInv'
<1>p. PICK r, next : r = proc[p] /\ next = IF r.at = "save" THEN "run" ELSE "idle"
  OBVIOUS
<1>s. PICK s : s = Changed(LoadSettings, Change(p))
  OBVIOUS
<1>t. PICK todo : todo = <<Put(Settings, s)>>
  OBVIOUS
<1>w. PICK w : w = [r EXCEPT !.at = "write", !.todo = todo, !.next = next]
  OBVIOUS
<1>1. /\ r.at \in {"update", "save"} /\ ~SettingsFail
      /\ proc' = [proc EXCEPT ![p].at = "write", ![p].todo = todo, ![p].next = next]
      /\ UNCHANGED <<files, heads, upstream, receipts, runs, done, upset, agreed>>
  BY <1>p, <1>s, <1>t DEF Update, MustUpdate, Writes
<1>2. /\ r \in Runs /\ ~r.open /\ RunOK(r) /\ r.cmd \in Commands
      /\ proc \in [Procs -> Runs] /\ r.cmd.do \in Kinds
      /\ r.at = "update" => r.cmd.do = "change" /\ "idle" \in Stages(r.cmd.do)
      /\ r.at = "save" => r.cmd.do = "plan" /\ Named(r) /\ "run" \in Stages(r.cmd.do)
  <2>1. /\ r \in Runs /\ ~r.open /\ RunOK(r) /\ r.cmd \in Commands /\ r.cmd.do \in Kinds
        /\ r.at \in Stages(r.cmd.do) /\ proc \in [Procs -> Runs] /\ (r.at = "save" => Named(r))
    BY <1>p, <1>1, RunIs, RunType
  <2>2. QED
    BY <1>1, <2>1, StagesAre
<1>3. Change(p) = ChangeOf(r)
  BY <1>p DEF Change, ChangeOf
<1>4. s \in SettingsRecords
  BY <1>s, <1>1, <1>2, <1>3, LoadType, ChangeOfType DEF Named
<1>5. todo \in Seq(Jobs) /\ next \in Phases /\ "write" \in Phases
  BY <1>p, <1>t, <1>4, SettingsTodo DEF Phases
<1>6. w \in Runs
  BY <1>w, <1>2, <1>5 DEF Runs
<1>7. /\ w.at = "write" /\ ~w.open /\ w.alone = r.alone /\ w.sure = r.sure
      /\ w.cmd = r.cmd /\ w.next = next
      /\ w.todo = todo /\ w.rev = r.rev /\ w.path = r.path /\ w.key = r.key
  BY <1>w, <1>2 DEF Runs
<1>8. proc' = [proc EXCEPT ![p] = w]
  BY <1>p, <1>w, <1>1, <1>2
<1>9. WriteOK(w)
  BY <1>p, <1>t, <1>1, <1>2, <1>4, <1>7 DEF WriteOK, Named
<1>10. RunOK(w)
  <2>1. CASE r.at = "update"
    BY <1>p, <1>2, <1>7, <1>9, <2>1, OtherSourced DEF RunOK, Heading
  <2>2. CASE r.at = "save"
    <3>1. w.path \in Paths /\ w.key \in Keys
      BY <1>2, <1>7, <2>2, BuiltIsFile DEF Named, Keys
    <3>2. QED
      BY <1>p, <1>2, <1>7, <1>9, <2>2, <3>1, OtherSourced DEF RunOK, Heading
  <2>3. QED
    BY <1>1, <2>1, <2>2
<1>11. ~upset => CleanRun(w)'
  <2> SUFFICES ASSUME ~upset
               PROVE  CleanRun(w)'
    OBVIOUS
  <2>1. CleanFiles /\ r.alone
    BY <1>p, <1>1, OthersNotAlone
  <2>2. LoadSettings = agreed
    BY <1>1, <2>1 DEF CleanFiles, SettingsFail
  <2>3. todo = <<Put(Settings, Changed(agreed', ChangeOf(w)))>>
    BY <1>s, <1>t, <1>1, <1>3, <1>7, <2>2 DEF ChangeOf
  <2>4. next \in {"run", "idle"}
    BY <1>p
  <2>5. QED
    BY <1>7, <2>1, <2>3, <2>4 DEF CleanRun, ChangeOf
<1>12. QED
  BY <1>p, <1>1, <1>6, <1>7, <1>8, <1>10, <1>11, Moves

\* A compiler that answers a probe is whole.
LEMMA ProbedIsGood ==
  ASSUME NEW path, NEW v, Probes(path, v)
  PROVE  Good(At(path), v)
BY DEF Probes, Good

\* A path into the home leads to the file.
LEMMA AtBin == ASSUME NEW d \in Dirs PROVE At(Bin(d)) = files[Bin(d)]
BY FilesAre, NamesAssumption DEF At

\* InstallManagedStyio: four files are to be written.
LEMMA InstallManagedStyioHolds ==
  ASSUME HomeInv, NEW p \in Procs, InstallManagedStyio(p)
  PROVE  HomeInv'
<1>p. PICK r : r = proc[p]
  OBVIOUS
<1>q. PICK v \in Versions :
        /\ Probes(r.path, v)
        /\ Writes(p, <<CopyFrom(r.path, Bin(v)), Put(Meta(v), v)>> \o Refresh(v), "idle")
  BY <1>p DEF InstallManagedStyio
<1>t. PICK todo : todo = Last4(r.path, v)
  OBVIOUS
<1>w. PICK w : w = [r EXCEPT !.at = "write", !.todo = todo, !.next = "idle"]
  OBVIOUS
<1>1. /\ r.at = "probe" /\ r.cmd.do \in Installs
      /\ UNCHANGED <<files, heads, upstream, receipts, runs, done, upset, agreed>>
  BY <1>p DEF InstallManagedStyio, Installs
<1>2. /\ r \in Runs /\ ~r.open /\ RunOK(r) /\ r.cmd \in Commands /\ r.path \in Sources
      /\ proc \in [Procs -> Runs] /\ r.cmd.do \in Kinds /\ "idle" \in Stages(r.cmd.do)
      /\ r.cmd.do = "tool install" => r.path = r.cmd.bin
  <2>1. /\ r \in Runs /\ ~r.open /\ RunOK(r) /\ r.cmd \in Commands /\ r.cmd.do \in Kinds
        /\ r.path \in Sources /\ proc \in [Procs -> Runs]
        /\ r.cmd.do = "tool install" => r.path = r.cmd.bin
    BY <1>p, <1>1, RunIs, RunType
  <2>2. r.cmd.do # "plan"
    BY <1>1 DEF Installs
  <2>3. QED
    BY <2>1, <2>2, StagesAre
<1>3. <<CopyFrom(r.path, Bin(v)), Put(Meta(v), v)>> \o Refresh(v) = todo
  BY <1>q, <1>t, <1>2, Last4Joins
<1>4. proc' = [proc EXCEPT ![p].at = "write", ![p].todo = todo, ![p].next = "idle"]
  BY <1>q, <1>3 DEF Writes
<1>5. todo \in Seq(Jobs) /\ "idle" \in Phases /\ "write" \in Phases
  BY <1>q, <1>t, <1>2, Last4Fields DEF Phases
<1>6. w \in Runs
  BY <1>w, <1>2, <1>5 DEF Runs
<1>7. /\ w.at = "write" /\ ~w.open /\ w.alone = r.alone /\ w.sure = r.sure
      /\ w.cmd = r.cmd /\ w.next = "idle"
      /\ w.todo = todo /\ w.path = r.path /\ w.ref = r.ref
  BY <1>w, <1>2 DEF Runs
<1>8. proc' = [proc EXCEPT ![p] = w]
  BY <1>p, <1>w, <1>2, <1>4
<1>9. Installing(w, v)
  <2>1. Good(At(r.path), v)
    BY <1>q, ProbedIsGood
  <2>2. QED
    BY <1>t, <1>2, <1>7, <2>1 DEF Installing
<1>10. WriteOK(w)
  BY <1>q, <1>1, <1>7, <1>9 DEF WriteOK
<1>14. Sourced(r) => Sourced(w)
  BY <1>1, <1>7 DEF Sourced, Heading
<1>11. RunOK(w)
  BY <1>1, <1>2, <1>7, <1>10, <1>14 DEF RunOK, Heading
<1>12. ~upset => CleanRun(w)'
  BY <1>p, <1>1, <1>7, OthersNotAlone DEF CleanRun, Installs
<1>13. QED
  BY <1>p, <1>1, <1>6, <1>7, <1>8, <1>11, <1>12, Moves

\* UseManagedStyio: current is to be written again.
LEMMA UseManagedStyioHolds ==
  ASSUME HomeInv, NEW p \in Procs, UseManagedStyio(p)
  PROVE  HomeInv'
<1>p. PICK r, u : r = proc[p] /\ u = r.cmd.version
  OBVIOUS
<1>q. PICK v \in Versions :
        /\ Probes(Bin(u), v)
        /\ Writes(p, <<Copy(Bin(u), Bin("current")), Put(Meta("current"), v)>>, "idle")
  BY <1>p DEF UseManagedStyio
<1>t. PICK todo : todo = Last2(u, v)
  OBVIOUS
<1>w. PICK w : w = [r EXCEPT !.at = "write", !.todo = todo, !.next = "idle"]
  OBVIOUS
<1>1. /\ r.at = "select" /\ u \in Versions
      /\ UNCHANGED <<files, heads, upstream, receipts, runs, done, upset, agreed>>
  BY <1>p DEF UseManagedStyio, Installed
<1>2. /\ r \in Runs /\ ~r.open /\ RunOK(r) /\ r.cmd \in Commands /\ r.cmd.do = "tool use"
      /\ proc \in [Procs -> Runs] /\ r.cmd.do \in Kinds /\ "idle" \in Stages(r.cmd.do)
  <2>1. /\ r \in Runs /\ ~r.open /\ RunOK(r) /\ r.cmd \in Commands /\ r.cmd.do \in Kinds
        /\ r.at \in Stages(r.cmd.do) /\ proc \in [Procs -> Runs]
    BY <1>p, <1>1, RunIs, RunType
  <2>2. QED
    BY <1>1, <2>1, StagesAre
<1>4. proc' = [proc EXCEPT ![p].at = "write", ![p].todo = todo, ![p].next = "idle"]
  BY <1>q, <1>t DEF Writes, Last2
<1>5. todo \in Seq(Jobs) /\ "idle" \in Phases /\ "write" \in Phases
  BY <1>q, <1>t, <1>1, LastFields DEF Phases
<1>6. w \in Runs
  BY <1>w, <1>2, <1>5 DEF Runs
<1>7. /\ w.at = "write" /\ ~w.open /\ w.alone = r.alone /\ w.sure = r.sure
      /\ w.cmd = r.cmd /\ w.next = "idle"
      /\ w.todo = todo /\ w.path = r.path
  BY <1>w, <1>2 DEF Runs
<1>8. proc' = [proc EXCEPT ![p] = w]
  BY <1>p, <1>w, <1>2, <1>4
<1>9. Using(w, v)
  <2>1. Good(files[Bin(u)], v)
    BY <1>q, <1>1, DirsAre, AtBin, ProbedIsGood
  <2>2. QED
    BY <1>p, <1>t, <1>7, <2>1 DEF Using
<1>10. WriteOK(w)
  BY <1>p, <1>q, <1>1, <1>2, <1>7, <1>9 DEF WriteOK
<1>11. RunOK(w)
  BY <1>1, <1>2, <1>7, <1>10, OtherSourced DEF RunOK, Heading
<1>12. ~upset => CleanRun(w)'
  BY <1>p, <1>1, <1>2, <1>7, OthersNotAlone DEF CleanRun
<1>13. QED
  BY <1>p, <1>1, <1>6, <1>7, <1>8, <1>11, <1>12, Moves

\* PinManagedStyio: the pin is to be written.
LEMMA PinManagedStyioHolds ==
  ASSUME HomeInv, NEW p \in Procs, PinManagedStyio(p)
  PROVE  HomeInv'
<1>p. PICK r, u : r = proc[p] /\ u = r.cmd.version
  OBVIOUS
<1>t. PICK todo : todo = <<Put(Pin, u)>>
  OBVIOUS
<1>w. PICK w : w = [r EXCEPT !.at = "write", !.todo = todo, !.next = "idle"]
  OBVIOUS
<1>1. /\ r.at = "pin" /\ u \in Versions /\ Exists(Bin(u))
      /\ proc' = [proc EXCEPT ![p].at = "write", ![p].todo = todo, ![p].next = "idle"]
      /\ UNCHANGED <<files, heads, upstream, receipts, runs, done, upset, agreed>>
  BY <1>p, <1>t DEF PinManagedStyio, Installed, Writes
<1>2. /\ r \in Runs /\ ~r.open /\ RunOK(r) /\ r.cmd \in Commands /\ r.cmd.do = "tool pin"
      /\ proc \in [Procs -> Runs] /\ r.cmd.do \in Kinds /\ "idle" \in Stages(r.cmd.do)
  <2>1. /\ r \in Runs /\ ~r.open /\ RunOK(r) /\ r.cmd \in Commands /\ r.cmd.do \in Kinds
        /\ r.at \in Stages(r.cmd.do) /\ proc \in [Procs -> Runs]
    BY <1>p, <1>1, RunIs, RunType
  <2>2. QED
    BY <1>1, <2>1, StagesAre
<1>3. todo \in Seq(Jobs) /\ "idle" \in Phases /\ "write" \in Phases
  BY <1>t, <1>1, PinTodo DEF Phases
<1>4. w \in Runs
  BY <1>w, <1>2, <1>3 DEF Runs
<1>5. /\ w.at = "write" /\ ~w.open /\ w.alone = r.alone /\ w.sure = r.sure
      /\ w.cmd = r.cmd /\ w.next = "idle"
      /\ w.todo = todo /\ w.path = r.path
  BY <1>w, <1>2 DEF Runs
<1>6. proc' = [proc EXCEPT ![p] = w]
  BY <1>p, <1>w, <1>1, <1>2
<1>7. WriteOK(w)
  BY <1>p, <1>t, <1>1, <1>2, <1>5 DEF WriteOK
<1>8. RunOK(w)
  BY <1>1, <1>2, <1>5, <1>7, OtherSourced DEF RunOK, Heading
<1>9. ~upset => CleanRun(w)'
  BY <1>p, <1>1, <1>2, <1>5, OthersNotAlone DEF CleanRun
<1>10. QED
  BY <1>p, <1>1, <1>4, <1>5, <1>6, <1>8, <1>9, Moves

\* The steps in which a run gives up, its files written or not begun.
LEMMA GivingUpHolds ==
  ASSUME HomeInv, NEW p \in Procs,
         \/ OpenFails(p) \/ NoSource(p) \/ CompilerIsRefused(p) \/ UpdateFails(p)
         \/ PlanIsRefused(p) \/ CompilerFails(p)
  PROVE  HomeInv'
<1>1. Fails(p) /\ proc[p].at # "idle" /\ (proc[p].at # "write" \/ ~proc[p].open)
  BY DEF OpenFails, NoSource, CompilerIsRefused, UpdateFails, MustUpdate, PlanIsRefused,
         CompilerFails
<1>2. ~proc[p].open
  BY <1>1, RunType
<1>3. QED
  BY <1>1, <1>2, FailsHolds

-----------------------------------------------------------------------------
(* The steps that open and fill files                                       *)

\* Which file a run writes, and from what.
LEMMA JobIs ==
  ASSUME NEW r, RunOK(r), r.at = "write"
  PROVE  LET job == Head(r.todo)
         IN  \/ /\ job.to = Tree(r.ref) /\ r.ref \in Refs /\ job.copy = None /\ job.value \in Revs
                /\ r.next = "revision" /\ Len(r.todo) = 1
             \/ /\ job.to = Built(r.rev) /\ Named(r) /\ r.ref \in Refs /\ job.copy = Tree(r.ref)
                /\ r.next \in {"probe", "save"} /\ Len(r.todo) = 1
             \/ /\ job.to = Settings /\ job.copy = None /\ job.value \in SettingsRecords
                /\ r.cmd.do = "change" \/ (r.cmd.do = "plan" /\ r.rev \in Revs)
             \/ job.to = Pin /\ job.copy = None /\ job.value \in Versions
             \/ /\ \E d \in Dirs : job.to = Bin(d)
                /\ \/ job.copy = None /\ job.value \in Locals
                   \/ \E d \in Dirs : job.copy = Bin(d)
                   \/ \E rev \in Revs : job.copy = Built(rev)
             \/ /\ \E d \in Dirs : job.to = Meta(d)
                /\ job.copy = None /\ job.value \in Versions
<1>p. PICK todo, job : todo = r.todo /\ job = Head(todo)
  OBVIOUS
<1>1. /\ WriteOK(r) /\ r.cmd.do \in Kinds /\ r.next \in Stages(r.cmd.do)
      /\ r.next = "revision" => r.ref \in Refs
  BY DEF RunOK, Heading
<1>2. CASE r.next = "revision" /\ \E rev \in Revs : todo = <<Put(Tree(r.ref), rev)>>
  BY <1>p, <1>1, <1>2, TreeTodo
<1>3. CASE /\ r.next \in {"probe", "save"} /\ Named(r) /\ r.ref \in Refs
           /\ todo = <<Copy(Tree(r.ref), Built(r.rev))>>
  <2>1. r.rev \in Revs
    BY <1>3 DEF Named
  <2>2. job.to = Built(r.rev) /\ job.copy = Tree(r.ref) /\ Len(todo) = 1
    BY <1>p, <1>3, <2>1, BuiltTodo
  <2>3. QED
    BY <1>p, <1>3, <2>2
<1>4. CASE /\ \E s \in SettingsRecords : todo = <<Put(Settings, s)>>
           /\ r.cmd.do = "change" \/ (r.next = "run" /\ Named(r))
  <2>1. job.to = Settings /\ job.copy = None /\ job.value \in SettingsRecords
    BY <1>p, <1>4, SettingsTodo
  <2>2. r.cmd.do = "change" \/ (r.cmd.do = "plan" /\ r.rev \in Revs)
    BY <1>1, <1>4, StagesAre DEF Named
  <2>3. QED
    BY <1>p, <2>1, <2>2
<1>5. CASE r.cmd.version \in Versions /\ todo = <<Put(Pin, r.cmd.version)>>
  BY <1>p, <1>5, PinTodo
<1>6. CASE r.cmd.version \in Versions /\ \E v \in Versions : Using(r, v)
  <2>1. PICK v \in Versions : Using(r, v)
    BY <1>6
  <2>2. CASE todo = Last1(v)
    <3>1. job = Put(Meta("current"), v)
      BY <1>p, <2>1, <2>2, LastFields
    <3>2. job.to = Meta("current") /\ job.copy = None /\ job.value = v
      BY <3>1, FilesAre, DirsAre, PutFields
    <3>3. QED
      BY <1>p, <2>1, <3>2, DirsAre
  <2>3. CASE todo = Last2(r.cmd.version, v)
    <3>1. job = Copy(Bin(r.cmd.version), Bin("current"))
      BY <1>p, <1>6, <2>1, <2>3, LastFields
    <3>2. job.to = Bin("current") /\ job.copy = Bin(r.cmd.version)
      BY <1>6, <3>1, FilesAre, DirsAre, CopyFields
    <3>3. QED
      BY <1>p, <1>6, <3>2, DirsAre
  <2>4. QED
    BY <1>p, <2>1, <2>2, <2>3 DEF Using
<1>7. CASE \E v \in Versions : Installing(r, v)
  <2>1. PICK v \in Versions : Installing(r, v)
    BY <1>7
  <2>2. CASE todo = Last1(v)
    <3>1. job = Put(Meta("current"), v)
      BY <1>p, <2>1, <2>2, LastFields
    <3>2. job.to = Meta("current") /\ job.copy = None /\ job.value = v
      BY <3>1, FilesAre, DirsAre, PutFields
    <3>3. QED
      BY <1>p, <2>1, <3>2, DirsAre
  <2>3. CASE todo = Last2(v, v)
    <3>1. job = Copy(Bin(v), Bin("current"))
      BY <1>p, <2>1, <2>3, LastFields
    <3>2. job.to = Bin("current") /\ job.copy = Bin(v)
      BY <3>1, FilesAre, DirsAre, CopyFields
    <3>3. QED
      BY <1>p, <3>2, DirsAre
  <2>4. CASE todo = Last3(v)
    <3>1. job = Put(Meta(v), v)
      BY <1>p, <2>1, <2>4, LastFields
    <3>2. job.to = Meta(v) /\ job.copy = None /\ job.value = v
      BY <3>1, FilesAre, DirsAre, PutFields
    <3>3. QED
      BY <1>p, <2>1, <3>2, DirsAre
  <2>5. CASE todo = Last4(r.path, v) /\ r.path \in Sources
    <3>1. job = CopyFrom(r.path, Bin(v))
      BY <1>p, <2>1, <2>5, Last4Fields
    <3>2. /\ job.to = Bin(v)
          /\ r.path \in Locals => job.copy = None /\ job.value = r.path
          /\ r.path \notin Locals => job.copy = r.path
      BY <2>5, <3>1, FilesAre, DirsAre, CopyFromFields
    <3>3. r.path \notin Locals => \E rev \in Revs : r.path = Built(rev)
      BY <2>5 DEF Sources
    <3>4. QED
      BY <1>p, <3>2, <3>3, DirsAre
  <2>6. QED
    BY <1>p, <2>1, <2>2, <2>3, <2>4, <2>5 DEF Installing
<1>8. QED
  BY <1>p, <1>1, <1>2, <1>3, <1>4, <1>5, <1>6, <1>7 DEF WriteOK

\* Without the lock of git a work tree could have two writers.
LEMMA NotMet ==
  ASSUME HomeInv, NEW p \in Procs, proc[p].at = "write", proc[p].open,
         NEW f \in Files, f = Head(proc[p].todo).to,
         proc[p].alone \/ \E ref \in Refs : f = Tree(ref)
  PROVE  files[f] = Torn /\ \A q \in Procs \ {p} : ~IsOpenFor(q, f)
<1>1. CASE proc[p].alone
  <2>1. files[f] = Torn /\ \A q \in Procs \ {p} : proc[q].at = "idle"
    BY <1>1, OthersNotAlone
  <2>2. \A q \in Procs \ {p} : ~proc[q].open
    BY <2>1, RunType
  <2>3. QED
    BY <2>1, <2>2 DEF IsOpenFor
<1>2. CASE \E ref \in Refs : f = Tree(ref)
  BY <1>2 DEF HomeInv, TreeInv, IsOpenFor, Target
<1>3. QED
  BY <1>1, <1>2

\* What a file holds when it was written.
LEMMA OutcomeIs ==
  ASSUME HomeInv, NEW p \in Procs, proc[p].at = "write", proc[p].open,
         NEW v \in Outcomes(p), NEW job, job = Head(proc[p].todo)
  PROVE  /\ Fits(job.to, v) /\ job.to \in Files
         /\ job.to[1] = "tree" => /\ v = job.value /\ v \in Revs
                                  /\ \E ref \in Refs : job.to = Tree(ref)
         /\ proc[p].alone => v = IF job.to[1] = "built" /\ Contents(job) \in Broken
                                 THEN Mixed ELSE Contents(job)
<1>p. PICK r, f, x : r = proc[p] /\ f = job.to /\ x = Contents(job)
  OBVIOUS
<1>1. RunOK(r) /\ f \in Files
  BY <1>p, RunType, OthersNotAlone
<1>2. /\ v \in {x, Mixed}
      /\ f[1] = "built" /\ x \in Broken => v = Mixed
      /\ files[f] = Torn /\ (\A q \in Procs \ {p} : ~IsOpenFor(q, f)) =>
           v = IF f[1] = "built" /\ x \in Broken THEN Mixed ELSE x
  BY <1>p DEF Outcomes
<1>3. r.alone => v = IF f[1] = "built" /\ x \in Broken THEN Mixed ELSE x
  BY <1>p, <1>1, <1>2, NotMet
<1>4. CASE /\ f = Tree(r.ref) /\ r.ref \in Refs /\ job.copy = None /\ job.value \in Revs
  <2>1. x = job.value
    BY <1>p, <1>4 DEF Contents
  <2>2. f[1] = "tree"
    BY <1>4, Kinds1
  <2>3. v = x
    BY <1>p, <1>1, <1>2, <1>4, <2>2, NotMet
  <2>4. QED
    BY <1>p, <1>1, <1>3, <1>4, <2>1, <2>2, <2>3 DEF Fits
<1>5. CASE f = Built(r.rev) /\ r.rev \in Revs /\ r.ref \in Refs /\ job.copy = Tree(r.ref)
  <2>1. x = files[Tree(r.ref)]
    BY <1>p, <1>5, FilesAre, NamesAssumption DEF Contents
  <2>2. f[1] = "built"
    BY <1>5, Kinds1
  <2>3. x \in Revs \cup {None, Torn}
    BY <1>5, <2>1, FileIs
  <2>4. v \in Revs \cup {None, Torn, Mixed}
    BY <1>2, <2>3
  <2>5. QED
    BY <1>p, <1>1, <1>3, <2>2, <2>4 DEF Fits
<1>6. CASE f = Settings /\ job.copy = None /\ job.value \in SettingsRecords
  <2>1. x \in SettingsRecords /\ f[1] = "settings"
    BY <1>p, <1>6, Kinds1 DEF Contents
  <2>2. QED
    BY <1>p, <1>1, <1>2, <1>3, <2>1 DEF Fits
<1>7. CASE /\ job.copy = None /\ job.value \in Versions
           /\ f = Pin \/ \E d \in Dirs : f = Meta(d)
  <2>1. x \in Versions /\ f[1] \in {"pin", "meta"}
    BY <1>p, <1>7, Kinds1 DEF Contents
  <2>2. QED
    BY <1>p, <1>1, <1>2, <1>3, <2>1 DEF Fits
<1>8. CASE /\ \E d \in Dirs : f = Bin(d)
           /\ \/ job.copy = None /\ job.value \in Locals
              \/ \E d \in Dirs : job.copy = Bin(d)
              \/ \E rev \in Revs : job.copy = Built(rev)
  <2>1. x \in Compilers \cup {None, Torn, Mixed}
    BY <1>p, <1>8, FilesAre, NamesAssumption, FileIs, RevsAreRefs DEF Contents
  <2>2. f[1] = "bin"
    BY <1>8, Kinds1
  <2>3. QED
    BY <1>p, <1>1, <1>2, <1>3, <2>1, <2>2 DEF Fits
<1>9. QED
  BY <1>p, <1>1, <1>4, <1>5, <1>6, <1>7, <1>8, JobIs DEF Named

\* What the first of the files to come is, for an install that writes it.
LEMMA InstallsWrite ==
  ASSUME NEW v \in Versions
  PROVE  /\ LET job == Head(Last1(v))
            IN  job.to = Meta("current") /\ job.copy = None /\ job.value = v
         /\ \A u \in Versions :
              LET job == Head(Last2(u, v)) IN job.to = Bin("current") /\ job.copy = Bin(u)
         /\ LET job == Head(Last3(v)) IN job.to = Meta(v) /\ job.copy = None /\ job.value = v
         /\ \A path \in Sources :
              LET job == Head(Last4(path, v))
              IN  /\ job.to = Bin(v)
                  /\ path \in Locals => job.copy = None /\ job.value = path
                  /\ path \notin Locals => job.copy = path /\ path \in Files
<1>1. /\ Head(Last1(v)) = Put(Meta("current"), v) /\ Head(Last3(v)) = Put(Meta(v), v)
      /\ \A u \in Versions : Head(Last2(u, v)) = Copy(Bin(u), Bin("current"))
      /\ \A path \in Sources : Head(Last4(path, v)) = CopyFrom(path, Bin(v))
  BY LastFields, Last4Fields
<1>2. /\ Bin("current") \in Files /\ Meta("current") \in Files /\ Bin(v) \in Files /\ Meta(v) \in Files
      /\ \A u \in Versions : Bin(u) \in Files
  BY FilesAre, DirsAre
<1>3. PICK a, b : a = Put(Meta("current"), v) /\ b = Put(Meta(v), v)
  OBVIOUS
<1>4. /\ a.to = Meta("current") /\ a.copy = None /\ a.value = v
      /\ b.to = Meta(v) /\ b.copy = None /\ b.value = v
  BY <1>2, <1>3, PutFields
<1>5. ASSUME NEW u \in Versions
      PROVE  LET job == Copy(Bin(u), Bin("current")) IN job.to = Bin("current") /\ job.copy = Bin(u)
  BY <1>2, <1>5, CopyFields
<1>6. ASSUME NEW path \in Sources
      PROVE  LET job == CopyFrom(path, Bin(v))
             IN  /\ job.to = Bin(v)
                 /\ path \in Locals => job.copy = None /\ job.value = path
                 /\ path \notin Locals => job.copy = path /\ path \in Files
  BY <1>2, <1>6, CopyFromFields
<1>7. QED
  BY <1>1, <1>3, <1>4, <1>5, <1>6

\* Truncating the file that comes next takes nothing from what was written.
LEMMA TruncateKeeps ==
  ASSUME HomeInv, NEW p \in Procs, proc[p].at = "write", NEW f \in Files,
         f = Head(proc[p].todo).to, files' = [files EXCEPT ![f] = Torn],
         UNCHANGED <<heads, upstream>>,
         NEW w, w = [proc[p] EXCEPT !.open = TRUE]
  PROVE  RunOK(w)'
<1>p. PICK r, todo : r = proc[p] /\ todo = r.todo
  OBVIOUS
<1>1. r \in Runs /\ RunOK(r) /\ f = Head(todo).to
  BY <1>p, RunType, OthersNotAlone
<1>2. /\ w.at = "write" /\ w.todo = todo /\ w.next = r.next /\ w.cmd = r.cmd /\ w.ref = r.ref
      /\ w.rev = r.rev /\ w.path = r.path /\ w.key = r.key /\ w.alone = r.alone
      /\ w.sure = r.sure /\ w.at = r.at
  BY <1>p, <1>1 DEF Runs
<1>3. \A g \in Files : g # f => files'[g] = files[g]
  BY TypesAre DEF HomeInv, FileTypes
<1>4. \A u \in Versions : f # Bin(u) => files'[Bin(u)] = files[Bin(u)]
  BY <1>3, FilesAre, DirsAre
<1>5. \A u \in Versions : f # Meta(u) => files'[Meta(u)] = files[Meta(u)]
  BY <1>3, FilesAre, DirsAre
<1>6. f # Bin("current") => files'[Bin("current")] = files[Bin("current")]
  BY <1>3, FilesAre, DirsAre
<1>s. ASSUME NEW path \in Sources, \A rev \in Revs : f # Built(rev)
      PROVE  At(path)' = At(path)
  BY <1>3, <1>s, FilesAre DEF At, Sources
<1>7. WriteOK(r) /\ r.at = "write"
  BY <1>p, <1>1 DEF RunOK
<1>8. ASSUME NEW v \in Versions, Installing(r, v)
      PROVE  Installing(w, v)'
  <2>0. r.path \in Sources /\ (r.sure => Good(At(r.path), v))
    BY <1>8 DEF Installing
  <2>1. f \in {Bin(v), Meta(v), Bin("current"), Meta("current")}
    BY <1>p, <1>1, <1>8, <2>0, InstallsWrite DEF Installing
  <2>2. At(w.path)' = At(r.path)
    <3>1. \A rev \in Revs : f # Built(rev)
      BY <2>1, Distinct
    <3>2. At(r.path)' = At(r.path)
      BY <1>s, <2>0, <3>1
    <3>3. At(w.path)' = At(r.path)'
      BY <1>2
    <3>4. QED
      BY <3>2, <3>3
  <2>3. CASE todo = Last1(v)
    <3>1. f = Meta("current")
      BY <1>1, <2>3, InstallsWrite
    <3>2. /\ files'[Bin(v)] = files[Bin(v)] /\ files'[Meta(v)] = files[Meta(v)]
          /\ files'[Bin("current")] = files[Bin("current")]
      BY <3>1, <1>4, <1>5, <1>6, Distinct, DirsAre
    <3>3. Last1(v) # Last2(v, v) /\ Last1(v) # Last3(v) /\ Last1(v) # Last4(r.path, v)
      BY <2>0, LastDiffer
    <3>4. QED
      BY <1>p, <1>2, <1>8, <2>0, <2>2, <2>3, <3>2, <3>3 DEF Installing
  <2>4. CASE todo = Last2(v, v)
    <3>1. f = Bin("current")
      BY <1>1, <2>4, InstallsWrite
    <3>2. files'[Bin(v)] = files[Bin(v)] /\ files'[Meta(v)] = files[Meta(v)]
      BY <3>1, <1>4, <1>5, Distinct, DirsAre
    <3>3. Last2(v, v) # Last1(v) /\ Last2(v, v) # Last3(v) /\ Last2(v, v) # Last4(r.path, v)
      BY <2>0, LastDiffer
    <3>4. QED
      BY <1>p, <1>2, <1>8, <2>0, <2>2, <2>4, <3>2, <3>3 DEF Installing
  <2>5. CASE todo = Last3(v)
    <3>1. f = Meta(v)
      BY <1>1, <2>5, InstallsWrite
    <3>2. files'[Bin(v)] = files[Bin(v)]
      BY <3>1, <1>4, Distinct, DirsAre
    <3>3. Last3(v) # Last1(v) /\ Last3(v) # Last2(v, v) /\ Last3(v) # Last4(r.path, v)
      BY <2>0, LastDiffer
    <3>4. QED
      BY <1>p, <1>2, <1>8, <2>0, <2>2, <2>5, <3>2, <3>3 DEF Installing
  <2>6. CASE todo = Last4(r.path, v)
    BY <1>p, <1>2, <2>0, <2>2, <2>6 DEF Installing
  <2>7. QED
    BY <1>p, <1>8, <2>3, <2>4, <2>5, <2>6 DEF Installing
<1>9. ASSUME NEW v \in Versions, r.cmd.version \in Versions, Using(r, v)
      PROVE  Using(w, v)'
  <2>1. f \in {Bin("current"), Meta("current")}
    BY <1>p, <1>1, <1>9, LastFields, PutFields, CopyFields, FilesAre, DirsAre DEF Using
  <2>2. files'[Bin(r.cmd.version)] = files[Bin(r.cmd.version)]
    BY <1>4, <1>9, <2>1, Distinct, DirsAre
  <2>3. CASE todo = Last1(v)
    <3>1. f = Meta("current")
      BY <1>1, <2>3, LastFields, PutFields, FilesAre, DirsAre
    <3>2. files'[Bin("current")] = files[Bin("current")]
      BY <3>1, <1>6, Distinct
    <3>3. Last1(v) # Last2(r.cmd.version, v)
      BY <1>9, LastDiffer
    <3>4. QED
      BY <1>p, <1>2, <1>9, <2>2, <2>3, <3>2, <3>3 DEF Using
  <2>4. CASE todo = Last2(r.cmd.version, v)
    <3>1. Last1(v) # Last2(r.cmd.version, v)
      BY <1>9, LastDiffer
    <3>2. QED
      BY <1>p, <1>2, <1>9, <2>2, <2>4, <3>1 DEF Using
  <2>5. QED
    BY <1>p, <1>9, <2>3, <2>4 DEF Using
<1>10. ASSUME r.cmd.version \in Versions, todo = <<Put(Pin, r.cmd.version)>>, Exists(Bin(r.cmd.version))
       PROVE  Exists(Bin(r.cmd.version))'
  <2>1. f = Pin
    BY <1>1, <1>10, PinTodo
  <2>2. files'[Bin(r.cmd.version)] = files[Bin(r.cmd.version)]
    BY <1>4, <1>10, <2>1, Distinct
  <2>3. QED
    BY <1>10, <2>2 DEF Exists
<1>11. WriteOK(w)'
  BY <1>p, <1>2, <1>7, <1>8, <1>9, <1>10, ZenonT(30) DEF WriteOK, Named
<1>12. Sourced(r) => Sourced(w)'
  BY <1>p, <1>2 DEF Sourced, Heading, RevOf
<1>13. QED
  BY <1>1, <1>2, <1>7, <1>11, <1>12 DEF RunOK, Heading, Named

\* Truncate: the next file is opened, and empty.
LEMMA TruncateHolds ==
  ASSUME HomeInv, NEW p \in Procs, Truncate(p)
  PROVE  HomeInv'
<1>p. PICK r, f : r = proc[p] /\ f = Head(r.todo).to
  OBVIOUS
<1>w. PICK w : w = [r EXCEPT !.open = TRUE]
  OBVIOUS
<1>1. /\ r.at = "write" /\ ~r.open /\ ~CannotOpen(p) /\ files' = [files EXCEPT ![f] = Torn]
      /\ proc' = [proc EXCEPT ![p].open = TRUE]
      /\ UNCHANGED <<heads, upstream, receipts, runs, done, upset, agreed>>
  BY <1>p DEF Truncate, Target
<1>2. r \in Runs /\ RunOK(r) /\ proc \in [Procs -> Runs] /\ f \in Files
  BY <1>p, <1>1, RunType, OthersNotAlone, WriteTodo
<1>3. w \in Runs
  BY <1>w, <1>2 DEF Runs
<1>4. w.at = "write" /\ w.open /\ w.alone = r.alone /\ w.todo = r.todo /\ w.cmd = r.cmd
      /\ w.next = r.next /\ w.ref = r.ref /\ w.rev = r.rev
  BY <1>w, <1>1, <1>2 DEF Runs
<1>5. proc' = [proc EXCEPT ![p] = w]
  BY <1>p, <1>w, <1>1, <1>2
<1>6. RunOK(w)'
  BY <1>p, <1>w, <1>1, <1>2, TruncateKeeps
<1>7. Fits(f, Torn)
  BY DEF Fits
<1>8. /\ FileTypes' /\ files'[f] = Torn /\ \A g \in Files \ {f} : files'[g] = files[g]
  BY <1>1, <1>2, <1>7, FilePut, TypesAre DEF HomeInv
<1>9. HeadTypes' /\ agreed' \in SettingsRecords
  <2>1. HeadTypes /\ agreed \in SettingsRecords
    BY TypesAre DEF HomeInv
  <2>2. QED
    BY <1>1, <1>8, <2>1, FilesAre DEF HeadTypes
<1>10. /\ proc'[p] = w /\ \A q \in Procs \ {p} : proc'[q] = proc[q]
  BY <1>2, <1>5
<1>11. /\ \A g : IsOpenFor(p, g)' <=> g = f
       /\ \A q \in Procs \ {p} : \A g : IsOpenFor(q, g)' <=> IsOpenFor(q, g)
       /\ \A g : ~IsOpenFor(p, g)
  BY <1>p, <1>1, <1>4, <1>10 DEF IsOpenFor, Target
<1>12. \A ref \in Refs : f = Tree(ref) => \A q \in Procs \ {p} : ~IsOpenFor(q, f)
  BY <1>p, <1>1, Kinds1 DEF CannotOpen, Target
<1>13. TreeInv'
  <2> SUFFICES ASSUME NEW q \in Procs, NEW ref \in Refs, IsOpenFor(q, Tree(ref))'
               PROVE  /\ files'[Tree(ref)] = Torn
                      /\ \A o \in Procs \ {q} : ~IsOpenFor(o, Tree(ref))'
    BY DEF TreeInv
  <2>1. CASE q = p
    BY <1>8, <1>11, <1>12, <2>1
  <2>2. CASE q # p
    <3>1. /\ IsOpenFor(q, Tree(ref)) /\ files[Tree(ref)] = Torn
          /\ \A o \in Procs \ {q} : ~IsOpenFor(o, Tree(ref))
      BY <1>11, <2>2 DEF HomeInv, TreeInv
    <3>2. f # Tree(ref)
      BY <1>12, <2>2, <3>1
    <3>3. QED
      BY <1>8, <1>11, <3>1, <3>2, FilesAre
  <2>3. QED
    BY <2>1, <2>2
<1>14. ~upset => CleanFiles' /\ CleanRun(w)'
  <2> SUFFICES ASSUME ~upset
               PROVE  CleanFiles' /\ CleanRun(w)'
    OBVIOUS
  <2>1. CleanFiles /\ CleanRun(r)
    BY <1>p, <1>1, OthersNotAlone
  <2>2. CleanRun(w)'
    BY <1>1, <1>4, <2>1 DEF CleanRun
  <2>3. \A g \in Files : files'[g] # Mixed
    BY <1>8, <2>1, Markers DEF CleanFiles
  <2>4. ASSUME NEW ref \in Refs
        PROVE  files'[Tree(ref)] = heads'[ref] \/ \E q \in Procs : IsOpenFor(q, Tree(ref))'
    <3>1. CASE f = Tree(ref)
      BY <1>11, <3>1
    <3>2. CASE f # Tree(ref)
      BY <1>1, <1>8, <1>11, <2>1, <3>2, FilesAre DEF CleanFiles
    <3>3. QED
      BY <3>1, <3>2
  <2>5. \A rev \in Revs : files'[Built(rev)] \in {None, Torn, rev}
    BY <1>8, <2>1, FilesAre DEF CleanFiles
  <2>6. files'[Settings] \notin Broken => LoadSettings' = agreed'
    BY <1>1, <1>8, <2>1, FilesAre DEF CleanFiles, LoadSettings, Exists, Broken
  <2>7. \A k \in Keys : receipts'[k] # None => Keyed(receipts'[k], k)
    BY <1>1, <2>1 DEF CleanFiles
  <2>8. CleanFiles'
    BY <2>3, <2>4, <2>5, <2>6, <2>7 DEF CleanFiles, Keyed
  <2>9. QED
    BY <2>2, <2>8
<1>15. /\ w.open => w.at = "write" /\ Head(w.todo).to \in Files
       /\ w.alone /\ w.open => files'[Head(w.todo).to] = Torn
       /\ \A q \in Procs \ {p} : proc[q].alone => UNCHANGED files \/ proc[q].at = "idle"
  BY <1>p, <1>1, <1>2, <1>4, <1>8, OthersNotAlone
<1>16. QED
  BY <1>p, <1>1, <1>3, <1>4, <1>5, <1>6, <1>8, <1>9, <1>13, <1>14, <1>15, Acts

\* The phases before the probe and the compiler write no other file.
LEMMA OnlyTreeAndBuild ==
  ASSUME NEW r, RunOK(r), r.at = "write", r.next \in {"revision", "probe", "save"}
  PROVE  LET f == Head(r.todo).to
         IN  f = Tree(r.ref) \/ f = Built(r.rev)
<1>p. PICK todo : todo = r.todo
  OBVIOUS
<1>1. WriteOK(r) /\ (r.next = "revision" => r.ref \in Refs)
  BY DEF RunOK, Heading
<1>2. CASE r.next = "revision"
  <2>1. PICK rev \in Revs : todo = <<Put(Tree(r.ref), rev)>>
    BY <1>p, <1>1, <1>2 DEF WriteOK
  <2>2. QED
    BY <1>p, <1>1, <1>2, <2>1, TreeTodo
<1>3. CASE r.next \in {"probe", "save"}
  <2>1. r.rev \in Revs /\ r.ref \in Refs /\ todo = <<Copy(Tree(r.ref), Built(r.rev))>>
    BY <1>p, <1>1, <1>3 DEF WriteOK, Named
  <2>2. QED
    BY <1>p, <2>1, BuiltTodo
<1>4. QED
  BY <1>2, <1>3

\* Only the update of the settings writes them.
LEMMA OnlyRunSaves ==
  ASSUME NEW r, RunOK(r), r.at = "write", Head(r.todo).to = Settings
  PROVE  r.next = "run" \/ r.cmd.do = "change"
<1>p. PICK todo, job : todo = r.todo /\ job = Head(todo)
  OBVIOUS
<1>1. WriteOK(r) /\ r.cmd.do \in Kinds /\ r.next \in Stages(r.cmd.do) /\ job.to = Settings
  BY <1>p DEF RunOK, Heading
<1>2. \A a : Settings # Tree(a) /\ Settings # Built(a) /\ Settings # Bin(a) /\ Settings # Meta(a)
             /\ Settings # Pin
  BY Distinct
<1>3. r.cmd.do \in {"change", "plan"}
  BY <1>p, <1>1, <1>2, JobIs
<1>4. r.next # "idle" \/ r.cmd.do = "change"
  BY <1>1, <1>3, StagesAre
<1>5. r.next \notin {"revision", "probe", "save"}
  BY <1>p, <1>1, <1>2, OnlyTreeAndBuild
<1>6. QED
  BY <1>1, <1>4, <1>5 DEF WriteOK

\* The write itself, as Fill does it.
Fills(p, v) ==
  LET job == Head(proc[p].todo)
  IN  /\ files' = [files EXCEPT ![job.to] = v]
      /\ heads' = IF job.to[1] = "tree" THEN [heads EXCEPT ![job.to[2]] = v] ELSE heads
      /\ agreed' = IF job.to = Settings THEN Changed(agreed, ChangeOf(proc[p])) ELSE agreed
      /\ UNCHANGED receipts

\* What all writes have in common, however the run goes on.
LEMMA Filled ==
  ASSUME HomeInv, NEW p \in Procs, proc[p].at = "write", proc[p].open,
         NEW v \in Outcomes(p), Fills(p, v),
         \A q \in Procs \ {p} : proc'[q] = proc[q], ~proc'[p].open
  PROVE  /\ FileTypes' /\ HeadTypes' /\ agreed' \in SettingsRecords /\ TreeInv'
         /\ LET job == Head(proc[p].todo)
            IN  files'[job.to] = v /\ \A g \in Files \ {job.to} : files'[g] = files[g]
         /\ ~upset => CleanFiles'
<1>j. PICK job : job = Head(proc[p].todo)
  OBVIOUS
<1>k. /\ files' = [files EXCEPT ![job.to] = v]
      /\ heads' = IF job.to[1] = "tree" THEN [heads EXCEPT ![job.to[2]] = v] ELSE heads
      /\ agreed' = IF job.to = Settings THEN Changed(agreed, ChangeOf(proc[p])) ELSE agreed
      /\ UNCHANGED receipts
  BY <1>j DEF Fills
<1>p. PICK r, f : r = proc[p] /\ f = job.to
  OBVIOUS
<1>q. job = Head(r.todo) /\ f = job.to
  BY <1>p, <1>j
<1>1. /\ RunOK(r) /\ f \in Files /\ Fits(f, v) /\ r.at = "write" /\ r.open
      /\ f[1] = "tree" => /\ v = job.value /\ v \in Revs
                          /\ \E ref \in Refs : f = Tree(ref)
      /\ r.alone => v = IF f[1] = "built" /\ Contents(job) \in Broken THEN Mixed ELSE Contents(job)
  BY <1>p, <1>j, OthersNotAlone, OutcomeIs
<1>2. FileTypes' /\ files'[f] = v /\ \A g \in Files \ {f} : files'[g] = files[g]
  BY <1>p, <1>k, <1>1, FilePut, TypesAre DEF HomeInv
<1>3. HeadTypes'
  <2>1. HeadTypes
    BY TypesAre DEF HomeInv
  <2>2. CASE f[1] = "tree"
    <3>1. PICK ref \in Refs : f = Tree(ref)
      BY <1>1, <2>2
    <3>2. f[2] = ref /\ v \in Revs
      BY <1>1, <2>2, <3>1, Kinds1
    <3>3. heads' = [heads EXCEPT ![ref] = v]
      BY <1>p, <1>k, <2>2, <3>2
    <3>4. heads' \in [Refs -> Revs \cup {None}]
      BY <2>1, <3>2, <3>3 DEF HeadTypes
    <3>5. ASSUME NEW x \in Refs, heads'[x] = None
          PROVE  files'[Tree(x)] \in {None, Torn}
      <4>1. x # ref
        BY <2>1, <3>2, <3>3, <3>5, RevsAreRefs, Markers DEF HeadTypes
      <4>2. heads'[x] = heads[x] /\ files'[Tree(x)] = files[Tree(x)]
        <5>1. Tree(x) # f /\ Tree(x) \in Files
          BY <3>1, <4>1, FilesAre, Distinct
        <5>2. heads'[x] = heads[x]
          BY <2>1, <3>3, <4>1 DEF HeadTypes
        <5>3. QED
          BY <1>2, <5>1, <5>2
      <4>3. QED
        BY <2>1, <3>5, <4>2 DEF HeadTypes
    <3>6. QED
      BY <3>4, <3>5 DEF HeadTypes
  <2>3. CASE f[1] # "tree"
    <3>1. \A x \in Refs : f # Tree(x)
      BY <2>3, Kinds1
    <3>2. heads' = heads
      BY <1>p, <1>k, <2>3
    <3>3. QED
      BY <1>2, <2>1, <3>1, <3>2, FilesAre DEF HeadTypes
  <2>4. QED
    BY <2>2, <2>3
<1>4. f = Settings => /\ r.cmd \in Commands
                      /\ r.cmd.do = "change" \/ (r.cmd.do = "plan" /\ r.rev \in Revs)
  <2>1. r.cmd \in Commands
    BY <1>1 DEF RunOK
  <2>2. \A a : Settings # Tree(a) /\ Settings # Built(a) /\ Settings # Bin(a) /\ Settings # Meta(a)
               /\ Settings # Pin
    BY Distinct
  <2>3. QED
    BY <1>q, <1>1, <2>1, <2>2, JobIs
<1>5. agreed' \in SettingsRecords
  BY <1>p, <1>k, <1>4, ChangeOfType, TypesAre DEF HomeInv
<1>6. /\ \A q \in Procs \ {p} : \A g : IsOpenFor(q, g)' <=> IsOpenFor(q, g)
      /\ \A g : ~IsOpenFor(p, g)' /\ (IsOpenFor(p, g) <=> g = f)
  BY <1>p, <1>j, <1>1 DEF IsOpenFor, Target
<1>7. TreeInv'
  <2> SUFFICES ASSUME NEW q \in Procs, NEW ref \in Refs, IsOpenFor(q, Tree(ref))'
               PROVE  /\ files'[Tree(ref)] = Torn
                      /\ \A o \in Procs \ {q} : ~IsOpenFor(o, Tree(ref))'
    BY DEF TreeInv
  <2>1. /\ q # p /\ IsOpenFor(q, Tree(ref)) /\ files[Tree(ref)] = Torn
        /\ \A o \in Procs \ {q} : ~IsOpenFor(o, Tree(ref))
    BY <1>6 DEF HomeInv, TreeInv
  <2>2. f # Tree(ref)
    BY <1>6, <2>1
  <2>3. QED
    BY <1>2, <1>6, <2>1, <2>2, FilesAre
<1>8. ~upset => CleanFiles'
  <2> SUFFICES ASSUME ~upset
               PROVE  CleanFiles'
    OBVIOUS
  <2>1. CleanFiles /\ CleanRun(r) /\ r.alone
    BY <1>p, <1>1, OthersNotAlone
  <2>2. v = IF f[1] = "built" /\ Contents(job) \in Broken THEN Mixed ELSE Contents(job)
    BY <1>1, <2>1
  <2>3. \A ref \in Refs : f # Tree(ref) => files[Tree(ref)] = heads[ref]
    <3>1. \A q \in Procs \ {p} : \A g : ~IsOpenFor(q, g)
      BY <1>p, <1>1, <2>1, OthersNotAlone, RunType DEF IsOpenFor
    <3>2. QED
      BY <1>6, <2>1, <3>1 DEF CleanFiles
  <2>4. ASSUME NEW ref \in Refs, f = Tree(ref)
        PROVE  v \in Revs /\ v # Mixed /\ heads'[ref] = v /\ \A x \in Refs \ {ref} : heads'[x] = heads[x]
    <3>1. f[1] = "tree" /\ f[2] = ref
      BY <2>4, Kinds1
    <3>2. heads' = [heads EXCEPT ![ref] = v]
      BY <1>p, <1>k, <3>1
    <3>3. heads \in [Refs -> Revs \cup {None}]
      BY TypesAre DEF HomeInv, HeadTypes
    <3>4. QED
      BY <1>1, <3>1, <3>2, <3>3, RevsAreRefs, Markers
  <2>5. (\A ref \in Refs : f # Tree(ref)) => heads' = heads
    BY <1>p, <1>k, <1>1
  <2>6. ASSUME NEW rev \in Revs, f = Built(rev)
        PROVE  v = rev
    <3>1. f[1] = "built" /\ \A a : /\ Built(rev) # Tree(a) /\ Built(rev) # Bin(a) /\ Built(rev) # Meta(a)
                                   /\ Built(rev) # Pin /\ Built(rev) # Settings
      BY <2>6, Kinds1, Distinct
    <3>2. /\ Named(r) /\ r.ref \in Refs /\ job.copy = Tree(r.ref) /\ r.next \in {"probe", "save"}
          /\ f = Built(r.rev)
      BY <1>q, <1>1, <2>6, <3>1, JobIs
    <3>3. r.rev = rev
      BY <2>6, <3>2, Distinct
    <3>4. Contents(job) = files[Tree(r.ref)]
      BY <3>2, FilesAre, NamesAssumption DEF Contents
    <3>5. files[Tree(r.ref)] = rev
      BY <1>1, <2>1, <2>3, <2>6, <3>1, <3>2, <3>3 DEF CleanRun
    <3>6. QED
      BY <2>2, <3>4, <3>5, RevsAreRefs, Markers DEF Broken
  <2>7. v # Mixed
    <3>1. CASE \E rev \in Revs : f = Built(rev)
      BY <2>6, <3>1, RevsAreRefs, Markers
    <3>2. CASE \A rev \in Revs : f # Built(rev)
      <4>1. v = Contents(job)
        <5>1. f[1] # "built"
          BY <1>1, <3>2, FileCases, Kinds1
        <5>2. QED
          BY <2>2, <5>1
      <4>2. job.copy = None => job.value # Mixed
        <5>1. /\ \A d \in Dirs : Bin(d) # None
              /\ \A rev \in Revs : Built(rev) # None
              /\ \A ref \in Refs : Tree(ref) # None
          BY FilesAre, NamesAssumption
        <5>2. job.copy = None => job.value \in Revs \cup SettingsRecords \cup Versions \cup Locals
          BY <1>q, <1>1, <5>1, JobIs
        <5>3. QED
          BY <5>2, RevsAreRefs, Markers
      <4>3. job.copy # None => job.copy \in Files
        BY <1>q, <1>1, JobIs, FilesAre
      <4>4. QED
        BY <2>1, <4>1, <4>2, <4>3 DEF Contents, CleanFiles
    <3>3. QED
      BY <3>1, <3>2
  <2>8. \A g \in Files : files'[g] # Mixed
    BY <1>2, <2>1, <2>7 DEF CleanFiles
  <2>9. ASSUME NEW ref \in Refs
        PROVE  files'[Tree(ref)] = heads'[ref]
    <3>1. CASE f = Tree(ref)
      BY <1>2, <2>4, <3>1
    <3>2. CASE f # Tree(ref)
      <4>1. files'[Tree(ref)] = files[Tree(ref)]
        BY <1>2, <3>2, FilesAre
      <4>2. heads'[ref] = heads[ref]
        BY <2>4, <2>5, <3>2
      <4>3. QED
        BY <2>3, <3>2, <4>1, <4>2
    <3>3. QED
      BY <3>1, <3>2
  <2>10. ASSUME NEW rev \in Revs
         PROVE  files'[Built(rev)] \in {None, Torn, rev}
    <3>1. CASE f = Built(rev)
      BY <1>2, <2>6, <3>1
    <3>2. CASE f # Built(rev)
      BY <1>2, <2>1, <3>2, FilesAre DEF CleanFiles
    <3>3. QED
      BY <3>1, <3>2
  <2>11. files'[Settings] \notin Broken => LoadSettings' = agreed'
    <3>1. CASE f = Settings
      <4>1. job.copy = None /\ job.value \in SettingsRecords /\ r.todo = <<Put(Settings, agreed')>>
        <5>1. /\ job.copy = None /\ job.value \in SettingsRecords
              /\ r.cmd.do = "change" \/ r.cmd.do = "plan"
          <6>1. \A a : Settings # Tree(a) /\ Settings # Built(a) /\ Settings # Bin(a) /\ Settings # Meta(a)
                       /\ Settings # Pin
            BY Distinct
          <6>2. QED
            BY <1>q, <1>1, <3>1, <6>1, JobIs
        <5>2. r.next = "run" \/ r.cmd.do = "change"
          BY <1>p, <1>1, <3>1, <1>j, OnlyRunSaves
        <5>3. QED
          BY <1>p, <1>1, <2>1, <3>1, <5>1, <5>2, <1>k, <1>j DEF CleanRun, ChangeOf
      <4>2. job.value = agreed'
        BY <1>p, <1>j, <1>5, <4>1, SettingsTodo
      <4>3. files'[Settings] = agreed'
        <5>1. f[1] = "settings"
          BY <3>1, Kinds1
        <5>2. QED
          BY <1>2, <2>2, <3>1, <4>1, <4>2, <5>1 DEF Contents
      <4>4. QED
        BY <1>5, <4>3, Markers DEF LoadSettings, Exists
    <3>2. CASE f # Settings
      BY <1>p, <1>k, <1>2, <2>1, <3>2, FilesAre DEF CleanFiles, LoadSettings, Exists
    <3>3. QED
      BY <3>1, <3>2
  <2>12. \A k \in Keys : receipts'[k] # None => Keyed(receipts'[k], k)
    BY <1>k, <2>1 DEF CleanFiles
  <2>13. QED
    BY <2>8, <2>9, <2>10, <2>11, <2>12 DEF CleanFiles, Keyed
<1>9. QED
  BY <1>p, <1>j, <1>2, <1>3, <1>5, <1>7, <1>8

-----------------------------------------------------------------------------
(* How a run goes on when a file is written                                 *)

\* Before another phase of the command there is one file to write.
LEMMA OnePhase ==
  ASSUME NEW r, RunOK(r), r.at = "write", r.next # "idle"
  PROVE  /\ Len(r.todo) = 1 /\ r.next \in {"revision", "probe", "save", "run"}
         /\ r.next = "run" => Named(r)
<1>p. PICK todo : todo = r.todo
  OBVIOUS
<1>1. WriteOK(r) /\ (r.next = "revision" => r.ref \in Refs)
  BY DEF RunOK, Heading
<1>2. r.next \in {"revision", "probe", "save", "run"} /\ (r.next = "run" => Named(r))
  BY <1>1 DEF WriteOK
<1>3. CASE r.next = "revision"
  BY <1>p, <1>1, <1>2, <1>3, TreeTodo DEF WriteOK
<1>4. CASE r.next \in {"probe", "save"}
  <2>1. r.rev \in Revs /\ r.ref \in Refs /\ todo = <<Copy(Tree(r.ref), Built(r.rev))>>
    BY <1>p, <1>1, <1>4 DEF WriteOK, Named
  <2>2. QED
    BY <1>p, <1>2, <2>1, BuiltTodo
<1>5. CASE r.next = "run"
  BY <1>p, <1>1, <1>2, <1>5, SettingsTodo DEF WriteOK
<1>6. QED
  BY <1>2, <1>3, <1>4, <1>5

\* What a write leaves: files and heads, and for who is sure, what was meant.
Written(job, x, sure) ==
  /\ files'[job.to] = x /\ \A g \in Files \ {job.to} : files'[g] = files[g]
  /\ heads' = IF job.to[1] = "tree" THEN [heads EXCEPT ![job.to[2]] = x] ELSE heads
  /\ UNCHANGED upstream
  /\ sure => x = IF job.to[1] = "built" /\ Contents(job) \in Broken
                 THEN Mixed ELSE Contents(job)

\* A write that was the last before another phase of the command.
LEMMA FillMovesOn ==
  ASSUME HomeInv, NEW r \in Runs, RunOK(r), r.at = "write", r.next # "idle",
         NEW job, job = Head(r.todo), NEW x,
         NEW w \in Runs, w.at = r.next, w.cmd = r.cmd, w.next = r.next, w.ref = r.ref,
         w.rev = r.rev, w.path = r.path, w.key = r.key, w.alone = r.alone,
         w.sure => r.sure, Written(job, x, w.sure)
  PROVE  RunOK(w)' /\ w.at # "idle" /\ (r.alone => CleanRun(w)')
<1>1. r.next \in {"revision", "probe", "save", "run"} /\ (r.next = "run" => Named(r))
  BY OnePhase
<1>2. Sourced(w)'
  <2> SUFFICES ASSUME w.cmd.do = "install"
               PROVE  Sourced(w)'
    BY DEF Sourced
  <2>p. PICK ref, rev : ref = r.ref /\ rev = RevOf(r.ref)
    OBVIOUS
  <2>1. Sourced(r) /\ WriteOK(r) /\ r.next \in {"revision", "probe"}
    <3>1. r.next \in Stages("install")
      BY DEF RunOK, Heading
    <3>2. QED
      BY <1>1, <3>1 DEF RunOK, Stages
  <2>2. RevOf(ref)' = rev
    BY <2>p DEF RevOf, Written
  <2>3. CASE r.next = "probe"
    <3>t. PICK todo : todo = r.todo
      OBVIOUS
    <3>1. job.to = Built(r.rev)
      BY <2>1, <2>3, <3>t, BuiltTodo DEF WriteOK, Named
    <3>2. heads' = heads
      BY <3>1, Kinds1 DEF Written
    <3>3. QED
      BY <2>1, <2>2, <2>3, <2>p, <3>2 DEF Sourced, Heading
  <2>4. CASE r.next = "revision"
    <3> SUFFICES ASSUME w.sure, w.cmd.online
                 PROVE  heads'[ref] = rev
      BY <2>1, <2>2, <2>4, <2>p DEF Sourced, Heading
    <3>1. PICK todo : todo = r.todo
      OBVIOUS
    <3>2. todo = <<Put(Tree(ref), rev)>> /\ ref \in Refs /\ rev \in Revs
      BY <2>1, <2>4, <2>p, <3>1, TypesAre DEF Sourced, RunOK, Heading, RevOf, HomeInv
    <3>3. job.to = Tree(ref) /\ job.copy = None /\ job.value = rev
      BY <3>1, <3>2, TreeTodo
    <3>4. job.to[1] = "tree" /\ job.to[2] = ref /\ Contents(job) = rev
      BY <3>3, Kinds1 DEF Contents
    <3>5. x = rev /\ heads' = [heads EXCEPT ![ref] = x]
      BY <3>4 DEF Written
    <3>6. heads \in [Refs -> Revs \cup {None}]
      BY DEF HomeInv, TypeOK
    <3>7. QED
      BY <3>2, <3>5, <3>6
  <2>5. QED
    BY <2>1, <2>3, <2>4
<1>3. RunOK(w)'
  BY <1>1, <1>2 DEF RunOK, Heading, Named
<1>4. r.alone => CleanRun(w)'
  BY <1>1 DEF CleanRun, Named
<1>5. QED
  BY <1>1, <1>3, <1>4

\* A write of an install, or of a use, that is not the last.
LEMMA FillWritesOn ==
  ASSUME HomeInv, NEW r \in Runs, RunOK(r), r.at = "write", r.next = "idle", Len(r.todo) # 1,
         NEW job, job = Head(r.todo), NEW x,
         NEW w \in Runs, w.at = "write", w.cmd = r.cmd, w.next = r.next, w.ref = r.ref,
         w.rev = r.rev, w.path = r.path, w.key = r.key, w.alone = r.alone, w.todo = Tail(r.todo),
         w.sure => r.sure, Written(job, x, w.sure)
  PROVE  RunOK(w)' /\ (r.alone => CleanRun(w)')
<1>p. PICK todo, f : todo = r.todo /\ f = job.to
  OBVIOUS
<1>w. /\ files'[job.to] = x /\ \A g \in Files \ {job.to} : files'[g] = files[g]
      /\ w.sure => x = IF job.to[1] = "built" /\ Contents(job) \in Broken
                      THEN Mixed ELSE Contents(job)
  BY DEF Written
<1>1. WriteOK(r) /\ r.cmd \in Commands /\ (r.cmd.do = "tool install" => r.path = r.cmd.bin)
  BY DEF RunOK
<1>2. /\ ~\E s \in SettingsRecords : todo = <<Put(Settings, s)>>
      /\ r.cmd.version \in Versions => todo # <<Put(Pin, r.cmd.version)>>
  BY <1>p, SettingsTodo, PinTodo
<1>3. \/ r.cmd.do = "tool use" /\ r.cmd.version \in Versions /\ \E v \in Versions : Using(r, v)
      \/ r.cmd.do \in Installs /\ \E v \in Versions : Installing(r, v)
  BY <1>p, <1>1, <1>2 DEF WriteOK
<1>4. ASSUME NEW v \in Versions, Installing(r, v), r.cmd.do \in Installs
      PROVE  Installing(w, v)'
  <2>0. Bin("current") \in Files /\ Meta("current") \in Files /\ Bin(v) \in Files /\ Meta(v) \in Files
    BY FilesAre, DirsAre
  <2>9. r.path \in Sources /\ (r.sure => Good(At(r.path), v))
    BY <1>4 DEF Installing
  <2>8. ASSUME \A rev \in Revs : f # Built(rev)
        PROVE  At(w.path)' = At(r.path)
    <3>1. At(r.path)' = At(r.path)
      BY <1>p, <1>w, <2>8, <2>9, FilesAre DEF At, Sources
    <3>2. At(w.path)' = At(r.path)'
      OBVIOUS
    <3>3. QED
      BY <3>1, <3>2
  <2>1. CASE todo = Last4(r.path, v)
    <3>1. /\ f = Bin(v) /\ w.todo = Last3(v)
          /\ r.path \in Locals => job.copy = None /\ job.value = r.path
          /\ r.path \notin Locals => job.copy = r.path /\ r.path \in Files
      BY <1>p, <2>1, <2>9, InstallsWrite, Last4Fields
    <3>2. f[1] = "bin" /\ Contents(job) = At(r.path)
      BY <3>1, Kinds1, NamesAssumption DEF Contents, At
    <3>3. At(w.path)' = At(r.path)
      BY <2>8, <3>1, Distinct
    <3>4. w.sure => files'[Bin(v)] = At(r.path)
      BY <1>p, <1>w, <3>1, <3>2
    <3>5. QED
      BY <2>9, <3>1, <3>3, <3>4 DEF Installing
  <2>2. CASE todo = Last3(v)
    <3>1. f = Meta(v) /\ job.copy = None /\ job.value = v /\ w.todo = Last2(v, v)
      BY <1>p, <2>2, InstallsWrite, LastFields
    <3>2. f[1] = "meta" /\ Contents(job) = v
      BY <3>1, Kinds1 DEF Contents
    <3>3. files'[Bin(v)] = files[Bin(v)]
      BY <1>p, <1>w, <2>0, <3>1, Distinct
    <3>4. w.sure => files'[Meta(v)] = v
      BY <1>p, <1>w, <3>1, <3>2
    <3>5. Last3(v) # Last1(v) /\ Last3(v) # Last2(v, v) /\ Last3(v) # Last4(r.path, v)
      BY <2>9, LastDiffer
    <3>6. r.sure => files[Bin(v)] = At(r.path)
      BY <1>p, <1>4, <2>2, <3>5 DEF Installing
    <3>7. At(w.path)' = At(r.path)
      BY <2>8, <3>1, Distinct
    <3>8. QED
      BY <2>9, <3>1, <3>3, <3>4, <3>6, <3>7 DEF Installing
  <2>3. CASE todo = Last2(v, v)
    <3>1. f = Bin("current") /\ job.copy = Bin(v) /\ w.todo = Last1(v)
      BY <1>p, <2>3, InstallsWrite, LastFields
    <3>2. f[1] = "bin" /\ Contents(job) = files[Bin(v)]
      BY <2>0, <3>1, Kinds1, NamesAssumption DEF Contents
    <3>3. files'[Bin(v)] = files[Bin(v)] /\ files'[Meta(v)] = files[Meta(v)]
      BY <1>p, <1>w, <2>0, <3>1, Distinct, DirsAre
    <3>4. w.sure => files'[Bin("current")] = files[Bin(v)]
      BY <1>p, <1>w, <3>1, <3>2
    <3>5. Last2(v, v) # Last1(v) /\ Last2(v, v) # Last3(v) /\ Last2(v, v) # Last4(r.path, v)
      BY <2>9, LastDiffer
    <3>6. r.sure => files[Bin(v)] = At(r.path) /\ files[Meta(v)] = v
      BY <1>p, <1>4, <2>3, <3>5 DEF Installing
    <3>7. At(w.path)' = At(r.path)
      BY <2>8, <3>1, Distinct
    <3>8. QED
      BY <2>9, <3>1, <3>3, <3>4, <3>6, <3>7 DEF Installing
  <2>4. todo # Last1(v)
    BY <1>p, LastFields
  <2>5. QED
    BY <1>p, <1>4, <2>1, <2>2, <2>3, <2>4 DEF Installing
<1>5. ASSUME NEW v \in Versions, Using(r, v), r.cmd.version \in Versions
      PROVE  Using(w, v)'
  <2>p. PICK u : u = r.cmd.version
    OBVIOUS
  <2>0. Bin("current") \in Files /\ Bin(u) \in Files /\ u \in Versions
    BY <1>5, <2>p, FilesAre, DirsAre
  <2>1. todo = Last2(u, v) /\ (r.sure => Good(files[Bin(u)], v))
    BY <1>p, <1>5, <2>p, LastFields DEF Using
  <2>2. f = Bin("current") /\ job.copy = Bin(u) /\ w.todo = Last1(v)
    BY <1>p, <2>0, <2>1, InstallsWrite, LastFields
  <2>3. f[1] = "bin" /\ Contents(job) = files[Bin(u)]
    BY <2>0, <2>2, Kinds1, NamesAssumption DEF Contents
  <2>4. files'[Bin(u)] = files[Bin(u)]
    BY <1>p, <1>w, <2>0, <2>2, Distinct, DirsAre
  <2>5. w.sure => files'[Bin("current")] = files[Bin(u)]
    BY <1>p, <1>w, <2>2, <2>3
  <2>6. QED
    BY <2>p, <2>1, <2>2, <2>4, <2>5 DEF Using
<1>6. WriteOK(w)'
  BY <1>3, <1>4, <1>5 DEF WriteOK
<1>10. Sourced(w)'
  <2>1. job.to[1] # "tree"
    BY JobIs, Kinds1
  <2>2. Sourced(r) /\ UNCHANGED <<heads, upstream>>
    BY <2>1 DEF RunOK, Written
  <2>3. QED
    BY <2>2 DEF Sourced, Heading, RevOf
<1>7. RunOK(w)'
  BY <1>6, <1>10 DEF RunOK, Heading
<1>8. r.alone => CleanRun(w)'
  BY <1>3 DEF CleanRun, Installs
<1>9. QED
  BY <1>7, <1>8

\* A status that says what the compiler in use reports.
LEMMA NamesCurrent ==
  ASSUME NEW v \in Versions, Good(files'[Bin("current")], v), files'[Meta("current")] = v
  PROVE  QueryToolStatus' # None /\ files'[Bin("current")] \in Compilers =>
           QueryToolStatus'.current = VersionOf[files'[Bin("current")]]
<1>p. PICK c, m : c = files'[Bin("current")] /\ m = CurrentStatus'
  OBVIOUS
<1>1. c \in Compilers => v = VersionOf[c]
  BY <1>p, Markers DEF Good
<1>2. c # None
  BY <1>p, Markers, HomeAssumption DEF Good
<1>3. m = v
  BY <1>p, <1>2 DEF CurrentStatus, Exists
<1>4. QueryToolStatus' # None => QueryToolStatus'.current = m
  BY <1>p DEF QueryToolStatus
<1>5. QED
  BY <1>p, <1>1, <1>3, <1>4

\* The last write of a command that is sure of itself: it kept its word.
LEMMA FillKeepsWord ==
  ASSUME HomeInv, NEW r \in Runs, RunOK(r), r.at = "write", r.next = "idle", Len(r.todo) = 1,
         r.sure, NEW job, job = Head(r.todo), NEW x, Written(job, x, TRUE),
         done'.cmd = r.cmd, UNCHANGED upset, ~upset => CleanFiles
  PROVE  CommandsKeepTheirWord'
<1>c. PICK c : c = r.cmd
  OBVIOUS
<1>p. PICK todo, f : todo = r.todo /\ f = job.to
  OBVIOUS
<1>j. job = Head(todo)
  BY <1>p
<1>w. /\ files'[job.to] = x /\ \A g \in Files \ {job.to} : files'[g] = files[g]
      /\ x = IF job.to[1] = "built" /\ Contents(job) \in Broken THEN Mixed ELSE Contents(job)
  BY DEF Written
<1>1. WriteOK(r) /\ c \in Commands /\ Len(todo) = 1
  BY <1>c, <1>p DEF RunOK
<1>0. Bin("current") \in Files /\ Meta("current") \in Files /\ Pin \in Files
  BY FilesAre, DirsAre
<1>2. CASE c.do = "change"
  BY <1>c, <1>2 DEF CommandsKeepTheirWord
<1>3. CASE c.do = "tool pin" /\ c.version \in Versions /\ todo = <<Put(Pin, c.version)>>
           /\ Exists(Bin(c.version))
  <2>p. PICK u : u = c.version
    OBVIOUS
  <2>1. f = Pin /\ job.copy = None /\ job.value = u
    <3>1. u \in Versions /\ todo = <<Put(Pin, u)>>
      BY <1>3, <2>p
    <3>2. QED
      BY <1>p, <1>j, <3>1, PinTodo
  <2>2. f[1] = "pin" /\ Contents(job) = u
    BY <2>1, Kinds1 DEF Contents
  <2>3. files'[Pin] = u /\ u \in Versions /\ u # None
    BY <1>p, <1>w, <1>3, <2>p, <2>1, <2>2, Markers
  <2>4. files'[Bin(u)] # None
    <3>1. u \in Versions /\ files[Bin(u)] # None
      BY <1>3, <2>p DEF Exists
    <3>2. Bin(u) # f /\ Bin(u) \in Files
      BY <2>1, <3>1, FilesAre, DirsAre, Distinct
    <3>3. QED
      BY <1>p, <1>w, <3>1, <3>2
  <2>5. ResolveStyioBinary([bin |-> None])' = {Bin(u)}
    BY <2>3, <2>4 DEF ResolveStyioBinary, Exists
  <2>6. QED
    BY <1>c, <1>3, <2>p, <2>5 DEF CommandsKeepTheirWord
<1>4. ASSUME NEW v \in Versions, Using(r, v), c.do = "tool use", c.version \in Versions
      PROVE  CommandsKeepTheirWord'
  <2>p. PICK u : u = c.version
    OBVIOUS
  <2>1. todo = Last1(v) /\ Good(files[Bin(u)], v) /\ files[Bin("current")] = files[Bin(u)]
    <3>1. Len(Last2(u, v)) = 2
      BY <1>4, <2>p, LastFields
    <3>2. todo # Last2(r.cmd.version, v)
      BY <1>1, <1>c, <2>p, <3>1
    <3>3. QED
      BY <1>p, <1>c, <1>4, <2>p, <3>2 DEF Using
  <2>2. f = Meta("current") /\ job.copy = None /\ job.value = v
    BY <1>p, <1>j, <2>1, InstallsWrite
  <2>3. f[1] = "meta" /\ Contents(job) = v
    BY <2>2, Kinds1 DEF Contents
  <2>4. files'[Meta("current")] = v
    BY <1>p, <1>w, <2>2, <2>3
  <2>5. files'[Bin(u)] = files[Bin(u)] /\ files'[Bin("current")] = files[Bin("current")]
    <3>1. u \in Versions
      BY <1>4, <2>p
    <3>2. /\ Bin(u) # f /\ Bin(u) \in Files /\ Bin("current") # f /\ Bin("current") \in Files
      BY <2>2, <3>1, FilesAre, DirsAre, Distinct
    <3>3. QED
      BY <1>p, <1>w, <3>2
  <2>6. Good(files'[Bin("current")], v) /\ files'[Bin("current")] = files'[Bin(u)]
    BY <2>1, <2>5
  <2>7. QueryToolStatus' # None /\ files'[Bin("current")] \in Compilers =>
          QueryToolStatus'.current = VersionOf[files'[Bin("current")]]
    BY <2>4, <2>6, NamesCurrent
  <2>8. QED
    BY <1>c, <1>4, <2>p, <2>6, <2>7 DEF CommandsKeepTheirWord
<1>5. ASSUME NEW v \in Versions, Installing(r, v), c.do \in Installs
      PROVE  CommandsKeepTheirWord'
  <2>s. r.path \in Sources /\ Good(At(r.path), v)
    BY <1>5 DEF Installing
  <2>1. /\ todo = Last1(v) /\ files[Bin(v)] = At(r.path) /\ files[Meta(v)] = v
        /\ files[Bin("current")] = files[Bin(v)]
    <3>1. Len(Last2(v, v)) = 2 /\ Len(Last3(v)) = 3 /\ Len(Last4(r.path, v)) = 4
      BY <2>s, LastFields, Last4Fields
    <3>2. todo # Last2(v, v) /\ todo # Last3(v) /\ todo # Last4(r.path, v)
      BY <1>1, <3>1
    <3>3. QED
      BY <1>p, <1>c, <1>5, <3>2 DEF Installing
  <2>2. f = Meta("current") /\ job.copy = None /\ job.value = v
    <3>1. todo = Last1(v)
      BY <2>1
    <3>2. QED
      BY <1>p, <1>j, <3>1, InstallsWrite
  <2>3. f[1] = "meta" /\ Contents(job) = v
    BY <2>2, Kinds1 DEF Contents
  <2>4. files'[Meta("current")] = v
    BY <1>p, <1>w, <2>2, <2>3
  <2>5. /\ files'[Bin(v)] = files[Bin(v)] /\ files'[Bin("current")] = files[Bin("current")]
        /\ files'[Meta(v)] = files[Meta(v)]
    BY <1>p, <1>w, <1>0, <2>2, FilesAre, DirsAre, Distinct
  <2>6. /\ Good(files'[Bin("current")], v) /\ files'[Bin("current")] = files'[Bin(v)]
        /\ files'[Meta(v)] = v
    BY <2>s, <2>1, <2>5
  <2>i. c.do = "tool install" => files'[Bin("current")] = c.bin
    <3>1. c.do = "tool install" => r.path = c.bin /\ c.bin \in Locals
      BY <1>1, <1>c, CommandsAssumption DEF RunOK
    <3>2. QED
      BY <2>1, <2>5, <3>1 DEF At
  <2>h. ASSUME c.do = "install"
        PROVE  LET rev == heads'[c.ref]
               IN  /\ c.online => rev = RevOf(c.ref)'
                   /\ files'[Bin("current")] = files'[Built(rev)]
                   /\ ~upset' => files'[Bin("current")] = rev
    <3>p. PICK rev : rev = heads[c.ref]
      OBVIOUS
    <3>1. UNCHANGED <<heads, upstream>>
      BY <1>p, <2>2, Kinds1 DEF Written
    <3>2. rev \in Revs /\ r.path = Built(rev) /\ (c.online => rev = RevOf(c.ref))
      BY <1>c, <2>h, <3>p DEF RunOK, Sourced, Heading
    <3>3. files'[Built(rev)] = files[Built(rev)] /\ At(r.path) = files[Built(rev)]
      <4>1. Built(rev) \in Files /\ Built(rev) # f /\ Built(rev) \notin Locals
        BY <2>2, <3>2, FilesAre, Distinct, BuiltIsFile
      <4>2. QED
        BY <1>p, <1>w, <3>2, <4>1 DEF At
    <3>4. files'[Bin("current")] = files[Built(rev)]
      BY <2>1, <2>5, <3>3
    <3>5. ~upset => files[Built(rev)] = rev
      <4>1. ~upset => files[Built(rev)] \in {None, Torn, rev}
        BY <3>2 DEF CleanFiles
      <4>2. files[Built(rev)] \notin {None, Torn}
        BY <2>s, <3>3, Markers, HomeAssumption DEF Good
      <4>3. QED
        BY <4>1, <4>2
    <3>6. RevOf(c.ref)' = RevOf(c.ref)
      BY <3>1 DEF RevOf
    <3>7. QED
      BY <3>p, <3>1, <3>2, <3>3, <3>4, <3>5, <3>6
  <2>7. QueryToolStatus' # None /\ files'[Bin("current")] \in Compilers =>
          QueryToolStatus'.current = VersionOf[files'[Bin("current")]]
    BY <2>4, <2>6, NamesCurrent
  <2>8. files'[Bin("current")] # None /\ files'[Bin("current")] # Torn /\ v # None
    BY <2>6, Markers, HomeAssumption DEF Good
  <2>9. v \in Installed'
    BY <2>6, <2>8 DEF Installed, Exists
  <2>10. c.do # "tool use" /\ c.do # "tool pin"
    BY <1>5 DEF Installs
  <2>11. QED
    BY <1>c, <2>4, <2>6, <2>7, <2>8, <2>9, <2>10, <2>i, <2>h DEF CommandsKeepTheirWord
<1>6. QED
  BY <1>p, <1>c, <1>1, <1>2, <1>3, <1>4, <1>5 DEF WriteOK

\* Fill: the file is whole, and the run does what comes next.
LEMMA FillHolds ==
  ASSUME HomeInv, NEW p \in Procs, Fill(p)
  PROVE  HomeInv'
<1>p. PICK r, todo, job : r = proc[p] /\ todo = r.todo /\ job = Head(todo)
  OBVIOUS
<1>1. /\ r.at = "write" /\ r.open /\ RunOK(r) /\ r \in Runs /\ proc \in [Procs -> Runs]
      /\ todo \in Seq(Jobs) /\ Tail(todo) \in Seq(Jobs) /\ Len(todo) \in Nat \ {0}
  BY <1>p, RunType, OthersNotAlone, WriteTodo DEF Fill
<1>v. PICK v \in Outcomes(p) : Fills(p, v)
  BY DEF Fill, Fills, Target, Change, ChangeOf
<1>2. UNCHANGED <<upstream, receipts, runs, upset>>
  BY DEF Fill
<1>3. r.alone => v = IF job.to[1] = "built" /\ Contents(job) \in Broken
                     THEN Mixed ELSE Contents(job)
  BY <1>p, <1>1, OutcomeIs
<1>9. r.sure => r.alone
  BY <1>1 DEF RunOK
<1>4. \A q \in Procs \ {p} : proc[q].alone => UNCHANGED files \/ proc[q].at = "idle"
  BY <1>p, <1>1, OthersNotAlone
<1>5. ASSUME ~proc'[p].open, \A q \in Procs \ {p} : proc'[q] = proc[q]
      PROVE  /\ FileTypes' /\ HeadTypes' /\ agreed' \in SettingsRecords /\ TreeInv'
             /\ files'[job.to] = v /\ Written(job, v, r.sure)
             /\ ~upset => CleanFiles'
  <2>1. /\ FileTypes' /\ HeadTypes' /\ agreed' \in SettingsRecords /\ TreeInv'
        /\ files'[job.to] = v /\ \A g \in Files \ {job.to} : files'[g] = files[g]
        /\ ~upset => CleanFiles'
    BY <1>p, <1>v, <1>1, <1>5, Filled
  <2>2. /\ heads' = IF job.to[1] = "tree" THEN [heads EXCEPT ![job.to[2]] = v] ELSE heads
        /\ UNCHANGED upstream
    BY <1>p, <1>v, <1>2 DEF Fills
  <2>3. Written(job, v, r.sure)
    BY <1>3, <1>9, <2>1, <2>2 DEF Written
  <2>4. QED
    BY <2>1, <2>3
<1>6. CASE Len(todo) = 1 /\ r.next = "idle"
  <2>1. proc' = [proc EXCEPT ![p] = Idle] /\ done' = [cmd |-> r.cmd, sure |-> r.sure]
    BY <1>p, <1>6 DEF Fill, Succeeds
  <2>2. ~proc'[p].open /\ \A q \in Procs \ {p} : proc'[q] = proc[q]
    BY <1>1, <2>1, IdleType
  <2>3. /\ FileTypes' /\ HeadTypes' /\ agreed' \in SettingsRecords /\ TreeInv'
        /\ files'[job.to] = v /\ Written(job, v, r.sure)
        /\ ~upset => CleanFiles'
    BY <1>5, <2>2
  <2>4. done'.cmd = r.cmd
    BY <2>1
  <2>5. r.sure => CommandsKeepTheirWord'
    <3>1. ~upset => CleanFiles
      BY <1>p, <1>1, OthersNotAlone
    <3>2. r.sure => Written(job, v, TRUE)
      BY <2>3 DEF Written
    <3>3. QED
      BY <1>p, <1>1, <1>2, <1>6, <2>4, <3>1, <3>2, FillKeepsWord
  <2>6. receipts' \in [Keys -> Compilers \cup {None, Mixed}]
    BY <1>2, TypesAre DEF HomeInv
  <2>7. QED
    BY <1>p, <1>1, <1>2, <2>1, <2>3, <2>5, <2>6, Ends
<1>7. CASE ~(Len(todo) = 1 /\ r.next = "idle")
  <2>p. PICK at : at = IF Len(todo) = 1 THEN r.next ELSE "write"
    OBVIOUS
  <2>w. PICK w : w = [r EXCEPT !.todo = Tail(todo), !.open = FALSE, !.at = at]
    OBVIOUS
  <2>1. proc' = [proc EXCEPT ![p] = Continued(r)] /\ UNCHANGED done
    BY <1>p, <1>7 DEF Fill
  <2>2. proc' = [proc EXCEPT ![p] = w]
    BY <1>p, <1>1, <2>p, <2>w, <2>1 DEF Continued
  <2>3. r.next \in Phases /\ "write" \in Phases
    BY <1>1 DEF Runs, Phases
  <2>4. at \in Phases
    BY <2>p, <2>3
  <2>5. w \in Runs
    BY <1>1, <2>w, <2>4 DEF Runs
  <2>6. /\ w.at = at /\ ~w.open /\ w.todo = Tail(todo) /\ w.cmd = r.cmd /\ w.next = r.next
        /\ w.ref = r.ref /\ w.rev = r.rev /\ w.path = r.path /\ w.key = r.key
        /\ w.alone = r.alone /\ w.sure = r.sure
    BY <1>1, <2>w DEF Runs
  <2>7. proc'[p] = w /\ \A q \in Procs \ {p} : proc'[q] = proc[q]
    BY <1>1, <2>2
  <2>8. /\ FileTypes' /\ HeadTypes' /\ agreed' \in SettingsRecords /\ TreeInv'
        /\ files'[job.to] = v /\ Written(job, v, r.sure)
        /\ ~upset => CleanFiles'
    BY <1>5, <2>6, <2>7
  <2>9. RunOK(w)' /\ w.at # "idle" /\ (r.alone => CleanRun(w)')
    <3>1. CASE r.next # "idle"
      <4>1. Len(todo) = 1
        BY <1>p, <1>1, <3>1, OnePhase
      <4>2. w.at = r.next
        BY <2>p, <2>6, <4>1
      <4>3. QED
        BY <1>p, <1>1, <2>5, <2>6, <2>8, <3>1, <4>2, FillMovesOn
    <3>2. CASE r.next = "idle"
      <4>1. Len(todo) # 1 /\ w.at = "write"
        BY <1>7, <2>p, <2>6, <3>2
      <4>2. QED
        BY <1>p, <1>1, <2>5, <2>6, <2>8, <3>2, <4>1, FillWritesOn
    <3>3. QED
      BY <3>1, <3>2
  <2>10. ~upset => CleanFiles' /\ CleanRun(w)'
    BY <1>p, <1>1, <2>8, <2>9, OthersNotAlone
  <2>11. QED
    BY <1>p, <1>1, <1>2, <1>4, <2>1, <2>2, <2>5, <2>6, <2>8, <2>9, <2>10, Acts
<1>8. QED
  BY <1>6, <1>7

\* FillIsLost: the file is empty, and the run goes on as if it were not.
LEMMA FillIsLostHolds ==
  ASSUME HomeInv, NEW p \in Procs, FillIsLost(p)
  PROVE  HomeInv'
<1>p. PICK r, todo, job : r = proc[p] /\ todo = r.todo /\ job = Head(todo)
  OBVIOUS
<1>1. /\ r.at = "write" /\ r.open /\ RunOK(r) /\ r \in Runs /\ proc \in [Procs -> Runs]
      /\ todo \in Seq(Jobs) /\ Tail(todo) \in Seq(Jobs) /\ Len(todo) \in Nat \ {0}
  BY <1>p, RunType, OthersNotAlone, WriteTodo DEF FillIsLost
<1>2. /\ UNCHANGED <<files, heads, upstream, receipts, runs, upset, agreed>>
      /\ job.to[1] \in {"meta", "pin", "settings"}
  BY <1>p DEF FillIsLost, Target
<1>3. /\ HeadTypes' /\ FileTypes' /\ agreed' \in SettingsRecords
      /\ receipts' \in [Keys -> Compilers \cup {None, Mixed}]
  BY <1>2, TypesAre DEF HomeInv, FileTypes, HeadTypes
<1>5. ASSUME ~proc'[p].open, \A q \in Procs \ {p} : proc'[q] = proc[q]
      PROVE  TreeInv' /\ (~upset => CleanFiles')
  <2>1. \A q \in Procs, ref \in Refs : IsOpenFor(q, Tree(ref))' <=> IsOpenFor(q, Tree(ref))
    <3>1. ASSUME NEW ref \in Refs
          PROVE  ~IsOpenFor(p, Tree(ref))
      BY <1>p, <1>2, Kinds1 DEF IsOpenFor, Target
    <3>2. ASSUME NEW ref \in Refs
          PROVE  ~IsOpenFor(p, Tree(ref))'
      BY <1>5 DEF IsOpenFor
    <3>3. ASSUME NEW ref \in Refs, NEW q \in Procs \ {p}
          PROVE  IsOpenFor(q, Tree(ref))' <=> IsOpenFor(q, Tree(ref))
      BY <1>5 DEF IsOpenFor, Target
    <3>4. QED
      BY <3>1, <3>2, <3>3
  <2>2. TreeInv'
    BY <1>2, <2>1 DEF HomeInv, TreeInv
  <2>3. ~upset => CleanFiles
    BY <1>p, <1>1, OthersNotAlone
  <2>4. QED
    BY <1>2, <2>1, <2>2, <2>3 DEF CleanFiles, LoadSettings, Exists, Keyed
<1>6. CASE Len(todo) = 1 /\ r.next = "idle"
  <2>1. proc' = [proc EXCEPT ![p] = Idle] /\ done' = [cmd |-> r.cmd, sure |-> FALSE]
    BY <1>p, <1>6 DEF FillIsLost
  <2>2. ~proc'[p].open /\ \A q \in Procs \ {p} : proc'[q] = proc[q]
    BY <1>1, <2>1, IdleType
  <2>3. TreeInv' /\ (~upset => CleanFiles')
    BY <1>5, <2>2
  <2>4. QED
    BY <1>p, <1>1, <1>2, <1>3, <2>1, <2>3, Ends
<1>7. CASE ~(Len(todo) = 1 /\ r.next = "idle")
  <2>p. PICK at : at = IF Len(todo) = 1 THEN r.next ELSE "write"
    OBVIOUS
  <2>w. PICK w : w = [r EXCEPT !.todo = Tail(todo), !.open = FALSE, !.at = at, !.sure = FALSE]
    OBVIOUS
  <2>1. proc' = [proc EXCEPT ![p] = [Continued(r) EXCEPT !.sure = FALSE]] /\ UNCHANGED done
    BY <1>p, <1>7 DEF FillIsLost
  <2>2. proc' = [proc EXCEPT ![p] = w]
    BY <1>p, <1>1, <2>p, <2>w, <2>1 DEF Continued
  <2>3. at \in Phases
    BY <1>1, <2>p DEF Runs, Phases
  <2>5. w \in Runs
    BY <1>1, <2>w, <2>3 DEF Runs
  <2>6. /\ w.at = at /\ ~w.open /\ w.todo = Tail(todo) /\ w.cmd = r.cmd /\ w.next = r.next
        /\ w.ref = r.ref /\ w.rev = r.rev /\ w.path = r.path /\ w.key = r.key
        /\ w.alone = r.alone /\ ~w.sure
    BY <1>1, <2>w DEF Runs
  <2>7. proc'[p] = w /\ \A q \in Procs \ {p} : proc'[q] = proc[q]
    BY <1>1, <2>2
  <2>8. TreeInv' /\ (~upset => CleanFiles')
    BY <1>5, <2>6, <2>7
  <2>x. PICK x : x = files[job.to]
    OBVIOUS
  <2>y. Written(job, x, w.sure)
    BY <1>2, <2>6, <2>x DEF Written
  <2>9. RunOK(w)' /\ w.at # "idle" /\ (r.alone => CleanRun(w)')
    <3>1. CASE r.next # "idle"
      <4>1. Len(todo) = 1
        BY <1>p, <1>1, <3>1, OnePhase
      <4>2. w.at = r.next
        BY <2>p, <2>6, <4>1
      <4>3. QED
        BY <1>p, <1>1, <2>5, <2>6, <2>y, <3>1, <4>2, FillMovesOn
    <3>2. CASE r.next = "idle"
      <4>1. Len(todo) # 1 /\ w.at = "write"
        BY <1>7, <2>p, <2>6, <3>2
      <4>2. QED
        BY <1>p, <1>1, <2>5, <2>6, <2>y, <3>2, <4>1, FillWritesOn
    <3>3. QED
      BY <3>1, <3>2
  <2>10. ~upset => CleanFiles' /\ CleanRun(w)'
    BY <1>p, <1>1, <2>8, <2>9, OthersNotAlone
  <2>11. QED
    BY <1>p, <1>1, <1>2, <1>3, <2>1, <2>2, <2>5, <2>6, <2>8, <2>9, <2>10, Acts
<1>8. QED
  BY <1>6, <1>7

-----------------------------------------------------------------------------
(* The other steps that end a run                                           *)

\* BuildFails: the tree does not compile, the run ends without a binary.
LEMMA BuildFailsHolds ==
  ASSUME HomeInv, NEW p \in Procs, BuildFails(p)
  PROVE  HomeInv'
<1>p. PICK r, f : r = proc[p] /\ f = Head(r.todo).to
  OBVIOUS
<1>1. /\ r.at = "write" /\ r.open /\ f[1] = "built" /\ files' = [files EXCEPT ![f] = None]
      /\ proc' = [proc EXCEPT ![p] = Idle]
      /\ UNCHANGED <<heads, upstream, receipts, runs, done, upset, agreed>>
  BY <1>p DEF BuildFails, Target
<1>2. f \in Files /\ proc \in [Procs -> Runs]
  BY <1>p, <1>1, RunType
<1>3. Fits(f, None)
  BY DEF Fits
<1>4. FileTypes' /\ files'[f] = None /\ \A g \in Files \ {f} : files'[g] = files[g]
  BY <1>1, <1>2, <1>3, FilePut, TypesAre DEF HomeInv
<1>5. /\ \A ref \in Refs : Tree(ref) \in Files \ {f}
      /\ Settings \in Files \ {f}
  BY <1>1, FilesAre, Kinds1
<1>6. HeadTypes' /\ agreed' \in SettingsRecords
      /\ receipts' \in [Keys -> Compilers \cup {None, Mixed}]
  <2>1. HeadTypes /\ agreed \in SettingsRecords /\ receipts \in [Keys -> Compilers \cup {None, Mixed}]
    BY TypesAre DEF HomeInv
  <2>2. QED
    BY <1>1, <1>4, <1>5, <2>1 DEF HeadTypes
<1>7. proc'[p] = Idle /\ \A q \in Procs \ {p} : proc'[q] = proc[q]
  BY <1>1, <1>2
<1>8. /\ \A q \in Procs \ {p} : \A g : IsOpenFor(q, g)' <=> IsOpenFor(q, g)
      /\ \A g : ~IsOpenFor(p, g)' /\ (IsOpenFor(p, g) <=> g = f)
  BY <1>p, <1>1, <1>7, IdleType DEF IsOpenFor, Target
<1>9. TreeInv'
  <2> SUFFICES ASSUME NEW q \in Procs, NEW ref \in Refs, IsOpenFor(q, Tree(ref))'
               PROVE  /\ files'[Tree(ref)] = Torn
                      /\ \A o \in Procs \ {q} : ~IsOpenFor(o, Tree(ref))'
    BY DEF TreeInv
  <2>1. /\ q # p /\ IsOpenFor(q, Tree(ref)) /\ files[Tree(ref)] = Torn
        /\ \A o \in Procs \ {q} : ~IsOpenFor(o, Tree(ref))
    BY <1>8 DEF HomeInv, TreeInv
  <2>2. QED
    BY <1>4, <1>5, <1>8, <2>1
<1>10. ~upset => CleanFiles'
  <2> SUFFICES ASSUME ~upset
               PROVE  CleanFiles'
    OBVIOUS
  <2>1. CleanFiles
    BY <1>p, <1>1, OthersNotAlone
  <2>2. \A g \in Files : files'[g] # Mixed
    BY <1>4, <2>1, Markers DEF CleanFiles
  <2>3. \A ref \in Refs : files'[Tree(ref)] = heads'[ref] \/ \E q \in Procs : IsOpenFor(q, Tree(ref))'
    BY <1>1, <1>4, <1>5, <1>8, <2>1 DEF CleanFiles
  <2>4. \A rev \in Revs : files'[Built(rev)] \in {None, Torn, rev}
    BY <1>4, <2>1, FilesAre DEF CleanFiles
  <2>5. files'[Settings] \notin Broken => LoadSettings' = agreed'
    BY <1>1, <1>4, <1>5, <2>1 DEF CleanFiles, LoadSettings, Exists
  <2>6. \A k \in Keys : receipts'[k] # None => Keyed(receipts'[k], k)
    BY <1>1, <2>1 DEF CleanFiles
  <2>7. QED
    BY <2>2, <2>3, <2>4, <2>5, <2>6 DEF CleanFiles, Keyed
<1>11. QED
  BY <1>p, <1>1, <1>4, <1>6, <1>9, <1>10, Ends

\* ClearPin: the pin is gone, as the command said.
LEMMA ClearPinHolds ==
  ASSUME HomeInv, NEW p \in Procs, ClearPin(p)
  PROVE  HomeInv'
<1>p. PICK r : r = proc[p]
  OBVIOUS
<1>1. /\ r.at = "pin" /\ r.cmd.version = None /\ files' = [files EXCEPT ![Pin] = None]
      /\ proc' = [proc EXCEPT ![p] = Idle] /\ done' = [cmd |-> r.cmd, sure |-> r.sure]
      /\ UNCHANGED <<heads, upstream, receipts, runs, upset, agreed>>
  BY <1>p DEF ClearPin, Succeeds
<1>2. ~r.open /\ proc \in [Procs -> Runs] /\ r.cmd.do = "tool pin"
  <2>1. ~r.open /\ r.cmd.do \in Kinds /\ "pin" \in Stages(r.cmd.do) /\ proc \in [Procs -> Runs]
    BY <1>p, <1>1, RunIs, RunType
  <2>2. QED
    BY <2>1, StagesAre
<1>3. Fits(Pin, None) /\ Pin \in Files
  BY FilesAre DEF Fits
<1>4. FileTypes' /\ files'[Pin] = None /\ \A g \in Files \ {Pin} : files'[g] = files[g]
  BY <1>1, <1>3, FilePut, TypesAre DEF HomeInv
<1>5. /\ \A ref \in Refs : Tree(ref) \in Files \ {Pin}
      /\ Settings \in Files \ {Pin}
  BY FilesAre, Distinct
<1>6. HeadTypes' /\ agreed' \in SettingsRecords
      /\ receipts' \in [Keys -> Compilers \cup {None, Mixed}]
  <2>1. HeadTypes /\ agreed \in SettingsRecords /\ receipts \in [Keys -> Compilers \cup {None, Mixed}]
    BY TypesAre DEF HomeInv
  <2>2. QED
    BY <1>1, <1>4, <1>5, <2>1 DEF HeadTypes
<1>7. proc'[p] = Idle /\ \A q \in Procs \ {p} : proc'[q] = proc[q]
  BY <1>1, <1>2
<1>8. \A q \in Procs : \A g : IsOpenFor(q, g)' <=> IsOpenFor(q, g)
  BY <1>p, <1>2, <1>7, IdleType DEF IsOpenFor, Target
<1>9. TreeInv'
  BY <1>4, <1>5, <1>8 DEF HomeInv, TreeInv
<1>10. ~upset => CleanFiles'
  <2> SUFFICES ASSUME ~upset
               PROVE  CleanFiles'
    OBVIOUS
  <2>1. CleanFiles
    BY <1>p, <1>1, OthersNotAlone
  <2>2. \A g \in Files : files'[g] # Mixed
    BY <1>4, <2>1, Markers DEF CleanFiles
  <2>3. \A ref \in Refs : files'[Tree(ref)] = heads'[ref] \/ \E q \in Procs : IsOpenFor(q, Tree(ref))'
    BY <1>1, <1>4, <1>5, <1>8, <2>1 DEF CleanFiles
  <2>4. \A rev \in Revs : files'[Built(rev)] \in {None, Torn, rev}
    BY <1>4, <2>1, FilesAre DEF CleanFiles
  <2>5. files'[Settings] \notin Broken => LoadSettings' = agreed'
    BY <1>1, <1>4, <1>5, <2>1 DEF CleanFiles, LoadSettings, Exists
  <2>6. \A k \in Keys : receipts'[k] # None => Keyed(receipts'[k], k)
    BY <1>1, <2>1 DEF CleanFiles
  <2>7. QED
    BY <2>2, <2>3, <2>4, <2>5, <2>6 DEF CleanFiles, Keyed
<1>11. CommandsKeepTheirWord'
  <2>1. done'.cmd = r.cmd
    BY <1>1
  <2>2. QED
    BY <1>1, <1>2, <2>1 DEF CommandsKeepTheirWord
<1>12. QED
  BY <1>p, <1>1, <1>4, <1>6, <1>9, <1>10, <1>11, Ends

\* CompilerFinishes: output of the compiler that ran, or earlier output, lies
\* under the key.
LEMMA CompilerFinishesHolds ==
  ASSUME HomeInv, NEW p \in Procs, CompilerFinishes(p)
  PROVE  HomeInv'
<1>p. PICK r : r = proc[p]
  OBVIOUS
<1>1. /\ r.at = "running" /\ receipts' \in {receipts, [receipts EXCEPT ![r.key] = r.rev]}
      /\ proc' = [proc EXCEPT ![p] = Idle] /\ done' = [cmd |-> r.cmd, sure |-> r.sure]
      /\ UNCHANGED <<files, heads, upstream, runs, upset, agreed>>
  BY <1>p DEF CompilerFinishes, Succeeds
<1>2. /\ ~r.open /\ proc \in [Procs -> Runs] /\ r.cmd.do = "plan" /\ r.key \in Keys
      /\ r.rev \in Compilers \cup {Mixed}
  BY <1>p, <1>1, RunIs, RunType, StagesAre
<1>3. receipts \in [Keys -> Compilers \cup {None, Mixed}]
  BY TypesAre DEF HomeInv
<1>4. receipts' \in [Keys -> Compilers \cup {None, Mixed}]
  BY <1>1, <1>2, <1>3
<1>5. proc'[p] = Idle /\ \A q \in Procs \ {p} : proc'[q] = proc[q]
  BY <1>1, <1>2
<1>6. FileTypes' /\ HeadTypes' /\ agreed' \in SettingsRecords /\ TreeInv'
  BY <1>p, <1>1, <1>2, <1>5, FilesStay, IdleType
<1>7. \A q \in Procs : \A g : IsOpenFor(q, g)' <=> IsOpenFor(q, g)
  BY <1>p, <1>2, <1>5, IdleType DEF IsOpenFor, Target
<1>8. ~upset => CleanFiles'
  <2> SUFFICES ASSUME ~upset
               PROVE  CleanFiles'
    OBVIOUS
  <2>1. CleanFiles /\ CleanRun(r)
    BY <1>p, <1>1, OthersNotAlone
  <2>2. \A k \in Keys : receipts[k] # None => Keyed(receipts[k], k)
    BY <2>1 DEF CleanFiles
  <2>3. Keyed(r.rev, r.key)
    BY <1>1, <2>1 DEF CleanRun
  <2>4. \A k \in Keys : receipts'[k] # None => Keyed(receipts'[k], k)
    BY <1>1, <1>2, <1>3, <2>2, <2>3
  <2>5. QED
    BY <1>1, <1>7, <2>1, <2>4 DEF CleanFiles, LoadSettings, Exists, Keyed
<1>9. CommandsKeepTheirWord'
  <2>1. done'.cmd = r.cmd
    BY <1>1
  <2>2. QED
    BY <1>2, <2>1 DEF CommandsKeepTheirWord
<1>10. QED
  BY <1>p, <1>1, <1>4, <1>6, <1>8, <1>9, Ends

\* Stop: a run is killed; an upset if that cut a checkout short.
LEMMA StopHolds ==
  ASSUME HomeInv, NEW p \in Procs, Stop(p)
  PROVE  HomeInv'
<1>p. PICK r, f : r = proc[p] /\ f = Target(p)
  OBVIOUS
<1>1. /\ r.at # "idle" /\ proc' = [proc EXCEPT ![p] = Idle]
      /\ upset' = (upset \/ (r.open /\ f[1] = "tree"))
      /\ UNCHANGED <<files, upstream, receipts, runs, done, agreed>>
  BY <1>p DEF Stop
<1>h. \/ UNCHANGED heads
      \/ /\ r.open /\ f[1] = "tree" /\ f[2] \in Refs
         /\ \E rev \in Revs : heads' = [heads EXCEPT ![f[2]] = rev]
  <2>1. SUFFICES ASSUME heads' # heads
                 PROVE  /\ r.open /\ f[1] = "tree" /\ f[2] \in Refs
                        /\ \E rev \in Revs : heads' = [heads EXCEPT ![f[2]] = rev]
    OBVIOUS
  <2>2. PICK rev : /\ r.open /\ f[1] = "tree" /\ heads' = [heads EXCEPT ![f[2]] = rev]
                   /\ rev = IF f[2] \in Revs THEN upstream ELSE Head(r.todo).value
    BY <1>p, <2>1 DEF Stop
  <2>3. r.at = "write" /\ RunOK(r) /\ upstream \in Revs
    BY <1>p, <2>2, RunType, OthersNotAlone, TypesAre DEF HomeInv, RunInv
  <2>4. f = Tree(r.ref) /\ r.ref \in Refs /\ Head(r.todo).value \in Revs
    BY <1>p, <2>2, <2>3, JobIs, Kinds1 DEF Target
  <2>5. QED
    BY <2>2, <2>3, <2>4, Kinds1
<1>2. proc \in [Procs -> Runs]
  BY RunType
<1>3. proc'[p] = Idle /\ \A q \in Procs \ {p} : proc'[q] = proc[q]
  BY <1>1, <1>2
<1>4. /\ \A q \in Procs \ {p} : \A g : IsOpenFor(q, g)' <=> IsOpenFor(q, g)
      /\ \A g : ~IsOpenFor(p, g)' /\ (IsOpenFor(p, g) <=> r.open /\ g = f)
  BY <1>p, <1>3, IdleType DEF IsOpenFor, Target
<1>5. /\ FileTypes' /\ HeadTypes' /\ agreed' \in SettingsRecords
      /\ receipts' \in [Keys -> Compilers \cup {None, Mixed}]
  <2>1. /\ FileTypes /\ HeadTypes /\ agreed \in SettingsRecords
        /\ receipts \in [Keys -> Compilers \cup {None, Mixed}]
    BY TypesAre DEF HomeInv
  <2>2. HeadTypes'
    <3>1. CASE UNCHANGED heads
      BY <1>1, <2>1, <3>1 DEF HeadTypes
    <3>2. CASE f[2] \in Refs /\ \E rev \in Revs : heads' = [heads EXCEPT ![f[2]] = rev]
      <4>1. PICK rev \in Revs : heads' = [heads EXCEPT ![f[2]] = rev]
        BY <3>2
      <4>2. rev # None
        BY RevsAreRefs, Markers
      <4>3. QED
        BY <1>1, <2>1, <3>2, <4>1, <4>2 DEF HeadTypes
    <3>3. QED
      BY <1>h, <3>1, <3>2
  <2>3. QED
    BY <1>1, <2>1, <2>2 DEF FileTypes
<1>6. TreeInv'
  <2> SUFFICES ASSUME NEW q \in Procs, NEW ref \in Refs, IsOpenFor(q, Tree(ref))'
               PROVE  /\ files'[Tree(ref)] = Torn
                      /\ \A o \in Procs \ {q} : ~IsOpenFor(o, Tree(ref))'
    BY DEF TreeInv
  <2>1. /\ q # p /\ IsOpenFor(q, Tree(ref)) /\ files[Tree(ref)] = Torn
        /\ \A o \in Procs \ {q} : ~IsOpenFor(o, Tree(ref))
    BY <1>4 DEF HomeInv, TreeInv
  <2>2. QED
    BY <1>1, <1>4, <2>1
<1>7. ~upset' => ~upset /\ ~(r.open /\ f[1] = "tree")
  BY <1>1
<1>8. ~upset' => CleanFiles'
  <2> SUFFICES ASSUME ~upset'
               PROVE  CleanFiles'
    OBVIOUS
  <2>1. CleanFiles
    BY <1>p, <1>1, <1>7, OthersNotAlone
  <2>2. \A ref \in Refs : ~IsOpenFor(p, Tree(ref))
    BY <1>4, <1>7, Kinds1
  <2>5. UNCHANGED heads
    BY <1>h, <1>7
  <2>3. \A ref \in Refs : files'[Tree(ref)] = heads'[ref] \/ \E q \in Procs : IsOpenFor(q, Tree(ref))'
    BY <1>1, <1>4, <2>1, <2>2, <2>5 DEF CleanFiles
  <2>4. QED
    BY <1>1, <2>1, <2>3, <2>5 DEF CleanFiles, LoadSettings, Exists, Keyed
<1>9. QED
  BY <1>p, <1>1, <1>5, <1>6, <1>7, <1>8, Ends

-----------------------------------------------------------------------------
(* Runs begin                                                               *)

\* A run that is no longer sure of what it finds claims less.
LEMMA RunUnsure ==
  ASSUME NEW r \in Runs, RunOK(r), NEW w, w.at = r.at, w.cmd = r.cmd, w.ref = r.ref,
         w.rev = r.rev, w.path = r.path, w.key = r.key, w.todo = r.todo, w.next = r.next, ~w.sure
  PROVE  RunOK(w)'
<1>2. ASSUME NEW v \in Versions, Installing(r, v)
      PROVE  Installing(w, v)'
  BY <1>2 DEF Installing
<1>3. ASSUME NEW v \in Versions, Using(r, v)
      PROVE  Using(w, v)'
  BY <1>3 DEF Using
<1>4. WriteOK(r) => WriteOK(w)'
  BY <1>2, <1>3 DEF WriteOK, Named
<1>5. Sourced(r) => Sourced(w)'
  BY DEF Sourced
<1>6. QED
  BY <1>4, <1>5 DEF RunOK, Heading, Named

\* Whoever was alone is so no more when a run begins beside it.
LEMMA BeginHolds ==
  ASSUME HomeInv, NEW p \in Procs, NEW s \in Runs, Begin(p, s), RunOK(s), ~s.open,
         s.at \in {"source", "probe", "select", "pin", "update", "plan"},
         s.cmd.do = "install" => s.at = "source"
  PROVE  HomeInv'
<1>p. PICK w, alone : /\ alone = (Others(p) = {})
                      /\ w = [s EXCEPT !.alone = alone, !.sure = alone]
  OBVIOUS
<1>1. /\ proc[p].at = "idle" /\ runs < MaxRuns /\ runs' = runs + 1 /\ done' = None
      /\ upset' = (upset \/ Others(p) # {})
      /\ proc' = [q \in Procs |->
           IF q = p THEN w
           ELSE IF proc[q].at = "idle" THEN proc[q]
           ELSE [proc[q] EXCEPT !.alone = FALSE, !.sure = FALSE]]
      /\ UNCHANGED <<files, heads, upstream, receipts, agreed>>
  BY <1>p DEF Begin
<1>2. /\ w \in Runs /\ w.at = s.at /\ ~w.open /\ (w.alone <=> alone) /\ (w.sure <=> alone)
      /\ w.cmd = s.cmd
      /\ w.ref = s.ref /\ w.path = s.path /\ w.key = s.key /\ w.rev = s.rev
  <2>1. alone \in BOOLEAN
    BY <1>p
  <2>2. QED
    BY <1>p, <2>1 DEF Runs
<1>3. ~proc[p].open /\ proc \in [Procs -> Runs]
  BY <1>1, RunType
<1>4. \A q \in Procs : /\ proc'[q].at = IF q = p THEN s.at ELSE proc[q].at
                       /\ proc'[q].open <=> proc[q].open
                       /\ q # p => proc'[q].todo = proc[q].todo
                       /\ q # p /\ proc[q].at # "idle" => ~proc'[q].alone
                       /\ proc'[q] \in Runs
  <2>1. proc'[p] = w
    BY <1>1
  <2>2. ASSUME NEW q \in Procs \ {p}, proc[q].at = "idle"
        PROVE  proc'[q] = proc[q]
    BY <1>1, <2>2
  <2>3. ASSUME NEW q \in Procs \ {p}, proc[q].at # "idle"
        PROVE  /\ proc'[q].at = proc[q].at /\ proc'[q].open = proc[q].open
               /\ proc'[q].todo = proc[q].todo /\ ~proc'[q].alone /\ proc'[q] \in Runs
    <3>r. PICK r : r = proc[q]
      OBVIOUS
    <3>1. proc'[q] = [r EXCEPT !.alone = FALSE, !.sure = FALSE] /\ r \in Runs
      BY <1>1, <1>3, <2>3, <3>r
    <3>2. proc'[q] \in Runs
      BY <3>1 DEF Runs
    <3>3. QED
      BY <3>r, <3>1, <3>2 DEF Runs
  <2>4. QED
    BY <1>2, <1>3, <2>1, <2>2, <2>3
<1>5. TypeOK'
  <2>1. proc' \in [Procs -> Runs]
    BY <1>1, <1>4
  <2>2. \A q \in Procs : proc'[q].open => proc'[q].at = "write" /\ Target(q)' \in Files
    BY <1>3, <1>4, RunType DEF Target
  <2>3. /\ FileTypes /\ HeadTypes /\ receipts \in [Keys -> Compilers \cup {None, Mixed}]
        /\ upstream \in Revs /\ runs \in 0..MaxRuns /\ agreed \in SettingsRecords
    BY TypesAre DEF HomeInv
  <2>n. runs < MaxRuns /\ runs' = runs + 1
    BY <1>1
  <2>4. runs' \in 0..MaxRuns
    BY <2>n, <2>3, HomeAssumption
  <2>5. FileTypes' /\ HeadTypes'
    BY <1>1, <2>3 DEF FileTypes, HeadTypes
  <2>6. QED
    BY <1>1, <2>1, <2>2, <2>3, <2>4, <2>5, TypesNext
<1>6. RunInv'
  <2>1. RunOK(w)'
    BY <1>2 DEF RunOK, Heading, Named, Sourced
  <2>2. ASSUME NEW q \in Procs \ {p}, proc[q].at # "idle"
        PROVE  RunOK(proc[q])'
    <3>r. PICK r, u : r = proc[q] /\ u = [r EXCEPT !.alone = FALSE, !.sure = FALSE]
      OBVIOUS
    <3>1. r \in Runs /\ RunOK(r) /\ proc'[q] = u
      BY <1>1, <1>3, <2>2, <3>r DEF HomeInv, RunInv
    <3>4. /\ u.at = r.at /\ u.cmd = r.cmd /\ u.ref = r.ref /\ u.rev = r.rev /\ u.path = r.path
          /\ u.key = r.key /\ u.todo = r.todo /\ u.next = r.next /\ ~u.sure
      BY <3>1, <3>r DEF Runs
    <3>2. RunOK(u)'
      BY <3>1, <3>4, RunUnsure
    <3>3. QED
      BY <3>1, <3>2
  <2>3. ASSUME NEW q \in Procs \ {p}, proc[q].at = "idle"
        PROVE  RunOK(proc[q])'
    BY <1>4, <2>3 DEF RunOK
  <2>4. proc'[p] = w
    BY <1>1
  <2>5. RunOK(proc[p])'
    BY <2>1, <2>4
  <2>6. QED
    BY <2>2, <2>3, <2>5 DEF RunInv
<1>7. \A q \in Procs : \A g : IsOpenFor(q, g)' <=> IsOpenFor(q, g)
  BY <1>3, <1>4 DEF IsOpenFor, Target
<1>8. TreeInv'
  BY <1>1, <1>7 DEF HomeInv, TreeInv
<1>9. alone => \A q \in Procs \ {p} : proc[q].at = "idle"
  BY <1>p DEF Others
<1>10. AloneInv'
  <2> SUFFICES ASSUME NEW q \in Procs, proc'[q].at # "idle", proc'[q].alone
               PROVE  Alone(q)' /\ ~proc'[q].open
    BY DEF AloneInv
  <2>1. q = p
    BY <1>4
  <2>2. alone
    BY <1>1, <1>2, <2>1
  <2>3. QED
    BY <1>3, <1>4, <1>9, <2>1, <2>2 DEF Alone
<1>11. CleanInv'
  <2> SUFFICES ASSUME ~upset'
               PROVE  CleanFiles' /\ \A q \in Procs : proc'[q].at # "idle" => CleanRun(proc[q])'
    BY DEF CleanInv
  <2>1. ~upset /\ alone
    BY <1>p, <1>1
  <2>2. CleanFiles
    BY <2>1 DEF HomeInv, CleanInv
  <2>3. CleanFiles'
    BY <1>1, <1>7, <2>2 DEF CleanFiles, LoadSettings, Exists, Keyed
  <2>4. CleanRun(w)'
    BY <1>2, <2>1 DEF CleanRun
  <2>5. proc'[p] = w
    BY <1>1
  <2>6. \A q \in Procs \ {p} : proc'[q].at = "idle"
    BY <1>4, <1>9, <2>1
  <2>7. QED
    BY <2>3, <2>4, <2>5, <2>6
<1>12. DoneInv'
  BY <1>1 DEF DoneInv
<1>13. QED
  BY <1>5, <1>6, <1>8, <1>10, <1>11, <1>12 DEF HomeInv

\* A run at its start.
LEMMA StartedIs ==
  ASSUME NEW c \in Commands, NEW at \in Phases
  PROVE  LET s == Started(c, at)
         IN  s \in Runs /\ s.at = at /\ s.cmd = c /\ ~s.open /\ s.alone
<1>1. Idle \in Runs /\ ~Idle.open /\ Idle.alone
  BY IdleType
<1>2. Started(c, at) \in Runs
  BY <1>1 DEF Started, Runs
<1>3. QED
  BY <1>1, <1>2 DEF Started, Runs

\* Start: a run begins at the first phase of its command.
LEMMA StartHolds ==
  ASSUME HomeInv, NEW p \in Procs, Start(p)
  PROVE  HomeInv'
<1>0. \A at \in {"source", "probe", "select", "pin", "update", "plan"} : at \in Phases
  BY DEF Phases
<1>1. CASE HandleInstall(p)
  <2>1. PICK c \in Asked("install") : Begin(p, [Started(c, "source") EXCEPT !.ref = c.ref])
    BY <1>1 DEF HandleInstall
  <2>2. c \in Commands /\ c.do = "install" /\ c.ref \in Refs
    BY <2>1, CommandsAssumption DEF Asked
  <2>p. PICK s, t : s = [t EXCEPT !.ref = c.ref] /\ t = Started(c, "source")
    OBVIOUS
  <2>3. t \in Runs /\ t.at = "source" /\ t.cmd = c /\ ~t.open /\ t.alone
    BY <1>0, <2>2, <2>p, StartedIs
  <2>4. s \in Runs
    BY <2>2, <2>3, <2>p DEF Runs
  <2>5. s.at = "source" /\ s.cmd = c /\ ~s.open /\ s.alone /\ s.ref = c.ref
    BY <2>3, <2>p DEF Runs
  <2>6. RunOK(s)
    BY <2>2, <2>5 DEF RunOK, Heading, Sourced, Kinds, Installs, Stages
  <2>7. QED
    BY <2>1, <2>p, <2>4, <2>5, <2>6, BeginHolds
<1>2. CASE HandleToolInstall(p)
  <2>1. PICK c \in Asked("tool install") : Begin(p, [Started(c, "probe") EXCEPT !.path = c.bin])
    BY <1>2 DEF HandleToolInstall
  <2>2. c \in Commands /\ c.do = "tool install" /\ c.bin \in Locals
    BY <2>1, CommandsAssumption DEF Asked
  <2>p. PICK s, t : s = [t EXCEPT !.path = c.bin] /\ t = Started(c, "probe")
    OBVIOUS
  <2>3. t \in Runs /\ t.at = "probe" /\ t.cmd = c /\ ~t.open /\ t.alone
    BY <1>0, <2>2, <2>p, StartedIs
  <2>q. c.bin \in Paths /\ c.bin \in Sources
    BY <2>2 DEF Paths, Sources
  <2>4. s \in Runs
    BY <2>q, <2>3, <2>p DEF Runs
  <2>5. s.at = "probe" /\ s.cmd = c /\ ~s.open /\ s.alone /\ s.path = c.bin
    BY <2>3, <2>p DEF Runs
  <2>6. RunOK(s)
    BY <2>2, <2>5, <2>q DEF RunOK, Heading, Sourced, Kinds, Installs, Stages
  <2>i. s.cmd.do # "install"
    BY <2>2, <2>5
  <2>7. QED
    BY <2>1, <2>p, <2>4, <2>5, <2>6, <2>i, BeginHolds
<1>3. ASSUME NEW c \in Commands, NEW at \in {"select", "pin", "update", "plan"},
             c.do \in Kinds, at \in Stages(c.do), Begin(p, Started(c, at))
      PROVE  HomeInv'
  <2>p. PICK s : s = Started(c, at)
    OBVIOUS
  <2>1. at \in Phases /\ c.do # "tool install" /\ c.do # "install"
    BY <1>0, <1>3 DEF Stages
  <2>2. s \in Runs /\ s.at = at /\ s.cmd = c /\ ~s.open /\ s.alone
    BY <2>1, <2>p, StartedIs
  <2>3. RunOK(s)
    <3>1. Heading(s) = at /\ Sourced(s)
      BY <2>1, <2>2 DEF Heading, Sourced
    <3>2. at \notin {"source", "revision", "probe", "save", "run", "running", "write"}
      OBVIOUS
    <3>3. s.sure => s.alone
      BY <2>2
    <3>4. QED
      BY <1>3, <2>1, <2>2, <3>1, <3>2, <3>3 DEF RunOK
  <2>i. /\ s.cmd.do # "install"
        /\ s.at \in {"source", "probe", "select", "pin", "update", "plan"}
    BY <2>1, <2>2
  <2>4. QED
    BY <1>3, <2>p, <2>2, <2>3, <2>i, BeginHolds
<1>4. CASE HandleToolUse(p)
  <2>1. PICK c \in Commands : c.do = "tool use" /\ Begin(p, Started(c, "select"))
    BY <1>4 DEF HandleToolUse, Asked
  <2>2. c.do \in Kinds /\ "select" \in Stages(c.do)
    BY <2>1 DEF Kinds, Stages
  <2>3. QED
    BY <1>3, <2>1, <2>2
<1>5. CASE HandleToolPin(p)
  <2>1. PICK c \in Commands : c.do = "tool pin" /\ Begin(p, Started(c, "pin"))
    BY <1>5 DEF HandleToolPin, Asked
  <2>2. c.do \in Kinds /\ "pin" \in Stages(c.do)
    BY <2>1 DEF Kinds, Stages
  <2>3. QED
    BY <1>3, <2>1, <2>2
<1>6. CASE HandleUse(p)
  <2>1. PICK c \in Commands : c.do = "change" /\ Begin(p, Started(c, "update"))
    BY <1>6 DEF HandleUse, Asked
  <2>2. c.do \in Kinds /\ "update" \in Stages(c.do)
    BY <2>1 DEF Kinds, Stages
  <2>3. QED
    BY <1>3, <2>1, <2>2
<1>7. CASE HandleSet(p)
  <2>1. PICK c \in Commands : c.do = "change" /\ Begin(p, Started(c, "update"))
    BY <1>7 DEF HandleSet, Asked
  <2>2. c.do \in Kinds /\ "update" \in Stages(c.do)
    BY <2>1 DEF Kinds, Stages
  <2>3. QED
    BY <1>3, <2>1, <2>2
<1>8. CASE HandlePlanCommand(p)
  <2>1. PICK c \in Commands : c.do = "plan" /\ Begin(p, Started(c, "plan"))
    BY <1>8 DEF HandlePlanCommand, Asked
  <2>2. c.do \in Kinds /\ "plan" \in Stages(c.do)
    BY <2>1 DEF Kinds, Stages
  <2>3. QED
    BY <1>3, <2>1, <2>2
<1>9. QED
  BY <1>1, <1>2, <1>4, <1>5, <1>6, <1>7, <1>8 DEF Start

\* Nothing happens.
LEMMA NothingHolds ==
  ASSUME HomeInv, UNCHANGED <<files, heads, upstream, receipts, proc, runs, done, upset, agreed>>
  PROVE  HomeInv'
<1>1. TypeOK'
  BY DEF HomeInv, TypeOK, Target
<1>2. RunInv'
  <2> SUFFICES ASSUME NEW q \in Procs
               PROVE  RunOK(proc[q])'
    BY DEF RunInv
  <2>r. PICK r : r = proc[q]
    OBVIOUS
  <2>1. RunOK(r)
    BY <2>r DEF HomeInv, RunInv
  <2>2. RunOK(r)'
    BY <2>1, RunStays
  <2>3. QED
    BY <2>r, <2>2
<1>3. \A q \in Procs : \A g : IsOpenFor(q, g)' <=> IsOpenFor(q, g)
  BY DEF IsOpenFor, Target
<1>4. TreeInv'
  BY <1>3 DEF HomeInv, TreeInv
<1>5. AloneInv'
  BY DEF HomeInv, AloneInv, Alone, Target
<1>6. CleanInv'
  <2> SUFFICES ASSUME ~upset
               PROVE  CleanFiles' /\ \A q \in Procs : proc'[q].at # "idle" => CleanRun(proc[q])'
    BY DEF CleanInv
  <2>1. CleanFiles /\ \A q \in Procs : proc[q].at # "idle" => CleanRun(proc[q])
    BY DEF HomeInv, CleanInv
  <2>2. CleanFiles'
    BY <1>3, <2>1 DEF CleanFiles, LoadSettings, Exists, Keyed
  <2>3. ASSUME NEW q \in Procs, proc'[q].at # "idle"
        PROVE  CleanRun(proc[q])'
    <3>r. PICK r : r = proc[q]
      OBVIOUS
    <3>1. CleanRun(r)
      BY <2>1, <2>3, <3>r
    <3>2. CleanRun(r)'
      BY <3>1 DEF CleanRun, At
    <3>3. QED
      BY <3>r, <3>2
  <2>4. QED
    BY <2>2, <2>3
<1>7. DoneInv'
  <2>1. CommandsKeepTheirWord => CommandsKeepTheirWord'
    <3>1. Installed' = Installed /\ CurrentStatus' = CurrentStatus
      BY DEF Installed, CurrentStatus, Exists
    <3>2. QueryToolStatus' = QueryToolStatus
      BY <3>1 DEF QueryToolStatus
    <3>3. ResolveStyioBinary([bin |-> None])' = ResolveStyioBinary([bin |-> None])
      BY DEF ResolveStyioBinary, Exists
    <3>4. QED
      BY <3>1, <3>2, <3>3 DEF CommandsKeepTheirWord, RevOf
  <2>2. QED
    BY <2>1 DEF HomeInv, DoneInv
<1>8. QED
  BY <1>1, <1>2, <1>4, <1>5, <1>6, <1>7 DEF HomeInv

\* UpstreamMoves: the origin's branches move, and no run is sure of its commit.
LEMMA UpstreamHolds ==
  ASSUME HomeInv, UpstreamMoves
  PROVE  HomeInv'
<1>1. /\ upstream' \in Revs /\ done' = None
      /\ proc' = [q \in Procs |-> IF proc[q].at = "idle" THEN proc[q]
                                  ELSE [proc[q] EXCEPT !.sure = FALSE]]
      /\ UNCHANGED <<files, heads, receipts, runs, upset, agreed>>
  BY DEF UpstreamMoves
<1>2. ASSUME NEW q \in Procs
      PROVE  LET r == proc[q]
                 w == proc'[q]
             IN  /\ r \in Runs /\ w \in Runs /\ w.at = r.at /\ w.cmd = r.cmd /\ w.ref = r.ref
                 /\ w.rev = r.rev /\ w.path = r.path /\ w.key = r.key /\ w.todo = r.todo
                 /\ w.next = r.next /\ w.open = r.open /\ w.alone = r.alone
                 /\ r.at # "idle" => ~w.sure
  <2>r. PICK r, w : r = proc[q] /\ w = proc'[q]
    OBVIOUS
  <2>1. r \in Runs /\ w = IF r.at = "idle" THEN r ELSE [r EXCEPT !.sure = FALSE]
    BY <1>1, <2>r, RunType
  <2>2. w \in Runs
    BY <2>1 DEF Runs
  <2>3. QED
    BY <2>r, <2>1, <2>2 DEF Runs
<1>3. TypeOK'
  <2>1. proc' \in [Procs -> Runs]
    BY <1>1, <1>2
  <2>2. \A q \in Procs : proc'[q].open => proc'[q].at = "write" /\ Target(q)' \in Files
    BY <1>2, RunType DEF Target
  <2>3. /\ FileTypes' /\ HeadTypes' /\ receipts' \in [Keys -> Compilers \cup {None, Mixed}]
        /\ runs' \in 0..MaxRuns /\ agreed' \in SettingsRecords
    BY <1>1, TypesAre DEF HomeInv, FileTypes, HeadTypes
  <2>4. QED
    BY <1>1, <2>1, <2>2, <2>3, TypesNext
<1>4. RunInv'
  <2> SUFFICES ASSUME NEW q \in Procs, proc'[q].at # "idle"
               PROVE  RunOK(proc[q])'
    BY DEF RunInv, RunOK
  <2>r. PICK r, w : r = proc[q] /\ w = proc'[q]
    OBVIOUS
  <2>1. RunOK(r)
    BY <2>r DEF HomeInv, RunInv
  <2>2. RunOK(w)'
    BY <1>2, <2>r, <2>1, RunUnsure
  <2>3. QED
    BY <2>r, <2>2
<1>5. \A q \in Procs : \A g : IsOpenFor(q, g)' <=> IsOpenFor(q, g)
  BY <1>2 DEF IsOpenFor, Target
<1>6. TreeInv'
  BY <1>1, <1>5 DEF HomeInv, TreeInv
<1>7. AloneInv'
  <2> SUFFICES ASSUME NEW q \in Procs, proc'[q].at # "idle", proc'[q].alone
               PROVE  Alone(q)' /\ (proc'[q].open => files'[Target(q)'] = Torn)
    BY DEF AloneInv
  <2>1. /\ proc[q].at # "idle" /\ proc[q].alone /\ proc'[q].open = proc[q].open
        /\ proc'[q].todo = proc[q].todo
    BY <1>2
  <2>2. Alone(q) /\ (proc[q].open => files[Target(q)] = Torn)
    BY <2>1 DEF HomeInv, AloneInv
  <2>3. Alone(q)'
    BY <1>2, <2>2 DEF Alone
  <2>4. Target(q)' = Target(q) /\ files' = files
    BY <1>1, <2>1 DEF Target
  <2>5. QED
    BY <2>1, <2>2, <2>3, <2>4
<1>8. CleanInv'
  <2> SUFFICES ASSUME ~upset
               PROVE  CleanFiles' /\ \A q \in Procs : proc'[q].at # "idle" => CleanRun(proc[q])'
    BY <1>1 DEF CleanInv
  <2>1. CleanFiles /\ \A q \in Procs : proc[q].at # "idle" => CleanRun(proc[q])
    BY DEF HomeInv, CleanInv
  <2>2. CleanFiles'
    BY <1>1, <1>5, <2>1 DEF CleanFiles, LoadSettings, Exists, Keyed
  <2>3. ASSUME NEW q \in Procs, proc'[q].at # "idle"
        PROVE  CleanRun(proc[q])'
    <3>r. PICK r, w : r = proc[q] /\ w = proc'[q]
      OBVIOUS
    <3>1. CleanRun(r)
      BY <1>2, <2>1, <2>3, <3>r
    <3>2. CleanRun(r)'
      BY <1>1, <3>1 DEF CleanRun, At
    <3>3. CleanRun(w)'
      BY <1>2, <3>r, <3>2 DEF CleanRun
    <3>4. QED
      BY <3>r, <3>3
  <2>4. QED
    BY <2>2, <2>3
<1>9. DoneInv'
  BY <1>1 DEF DoneInv
<1>10. QED
  BY <1>3, <1>4, <1>6, <1>7, <1>8, <1>9 DEF HomeInv

-----------------------------------------------------------------------------
(* The invariant holds, and what follows from it                            *)

\* Initially there are no files and no runs.
LEMMA InitHolds == Init => HomeInv
<1> SUFFICES ASSUME Init
             PROVE  HomeInv
  OBVIOUS
<1>1. /\ \A p \in Procs : proc[p].at = "idle" /\ ~proc[p].open /\ proc[p] \in Runs
      /\ proc \in [Procs -> Runs]
  BY IdleType DEF Init
<1>2. TypeOK
  <2>1. FileTypes /\ HeadTypes
    BY FilesAre DEF Init, FileTypes, HeadTypes, Fits
  <2>2. receipts \in [Keys -> Compilers \cup {None, Mixed}] /\ upstream \in Revs
    BY HomeAssumption DEF Init
  <2>3. runs \in 0..MaxRuns
    BY HomeAssumption DEF Init
  <2>4. agreed \in SettingsRecords
    BY DEF Init, DefaultSettings, SettingsRecords, Risks, Lanes, Profiles
  <2>5. QED
    BY <1>1, <2>1, <2>2, <2>3, <2>4, TypesAre
<1>3. RunInv
  BY <1>1 DEF RunInv, RunOK
<1>4. TreeInv
  BY <1>1 DEF TreeInv, IsOpenFor
<1>5. AloneInv
  BY <1>1 DEF AloneInv
<1>6. CleanInv
  <2>1. \A f \in Files : files[f] = None
    BY DEF Init
  <2>2. files[Settings] = None
    BY <2>1, FilesAre
  <2>3. LoadSettings = agreed
    BY <2>2 DEF Init, LoadSettings, Exists
  <2>4. \A ref \in Refs : files[Tree(ref)] = heads[ref]
    BY <2>1, FilesAre DEF Init
  <2>5. CleanFiles
    BY <2>1, <2>3, <2>4, FilesAre, Markers DEF Init, CleanFiles
  <2>6. QED
    BY <1>1, <2>5 DEF CleanInv
<1>7. DoneInv
  BY DEF Init, DoneInv
<1>8. QED
  BY <1>2, <1>3, <1>4, <1>5, <1>6, <1>7 DEF HomeInv

\* Every step keeps the invariant.
LEMMA StepHolds ==
  ASSUME HomeInv, NEW p \in Procs, Step(p)
  PROVE  HomeInv'
<1>1. CASE Truncate(p) \/ Fill(p) \/ FillIsLost(p)
  BY <1>1, TruncateHolds, FillHolds, FillIsLostHolds
<1>2. CASE BuildFails(p) \/ ClearPin(p) \/ CompilerFinishes(p)
  BY <1>2, BuildFailsHolds, ClearPinHolds, CompilerFinishesHolds
<1>3. CASE EnsureSource(p) \/ Build(p)
  BY <1>3, EnsureSourceHolds, BuildHolds
<1>4. CASE InstallManagedStyio(p) \/ UseManagedStyio(p) \/ PinManagedStyio(p)
  BY <1>4, InstallManagedStyioHolds, UseManagedStyioHolds, PinManagedStyioHolds
<1>5. CASE Update(p) \/ AlreadySaved(p)
  BY <1>5, UpdateHolds, AlreadySavedHolds
<1>6. CASE PlanBinary(p) \/ ResolveBinary(p) \/ PlanFromSource(p)
  BY <1>6, PlanBinaryHolds, ResolveBinaryHolds, PlanFromSourceHolds
<1>7. CASE CheckedBinary(p) \/ StartCompiler(p)
  BY <1>7, CheckedBinaryHolds, StartCompilerHolds
<1>8. CASE \/ OpenFails(p) \/ NoSource(p) \/ CompilerIsRefused(p) \/ UpdateFails(p)
           \/ PlanIsRefused(p) \/ CompilerFails(p)
  BY <1>8, GivingUpHolds
<1>9. QED
  BY <1>1, <1>2, <1>3, <1>4, <1>5, <1>6, <1>7, <1>8 DEF Step

\* What the files, the runs and the histories satisfy together, always: types,
\* where a run is and what it has still to write (ToolApp.cpp, WorkflowApp.cpp),
\* the lock of work trees (SourceBuild.cpp), and what holds of a run that
\* nobody came between, of files no two runs met at, and of the last command.
THEOREM HomeInvariant == Spec => []HomeInv
<1>1. HomeInv /\ [Next]_vars => HomeInv'
  <2> SUFFICES ASSUME HomeInv, [Next]_vars
               PROVE  HomeInv'
    OBVIOUS
  <2>2. CASE UpstreamMoves
    BY <2>2, UpstreamHolds
  <2>3. CASE UNCHANGED vars
    BY <2>3, NothingHolds DEF vars
  <2>4. ASSUME NEW p \in Procs, Start(p) \/ Step(p) \/ Stop(p)
        PROVE  HomeInv'
    BY <2>4, StartHolds, StepHolds, StopHolds
  <2>5. QED
    BY <2>2, <2>3, <2>4 DEF Next
<1>2. QED
  BY <1>1, InitHolds, PTL DEF Spec

\* Files, checkouts, receipts, settings and runs have the values the code gives
\* them, and a checkout without a HEAD has no complete work tree.
THEOREM HomeTyping == Spec => []TypeOK
<1>1. HomeInv => TypeOK
  BY DEF HomeInv
<1>2. QED
  BY <1>1, HomeInvariant, PTL

\* The compiler_version of a cache key (SourceBuild.cpp, WorkflowApp.cpp) names
\* the compiler whose output lies under it, as long as no two runs overlapped
\* and no checkout was cut short.
THEOREM KeysName == Spec => []KeyNamesCompiler
<1>1. HomeInv => KeyNamesCompiler
  BY DEF HomeInv, CleanInv, CleanFiles, Keyed, KeyNamesCompiler
<1>2. QED
  BY <1>1, HomeInvariant, PTL

\* An install, use or pin (Install.cpp) that succeeds leaves the compiler it was
\* asked for, and a status that says so, unless another run came beside it, a
\* branch moved meanwhile or a write of it was lost.  What an install was asked
\* for is the build of the commit its branch or checkout names, and that commit
\* itself until a checkout was cut short or runs overlapped.
THEOREM CommandsKept == Spec => []CommandsKeepTheirWord
<1>1. HomeInv => CommandsKeepTheirWord
  <2>1. ~(done # None /\ done.sure) => CommandsKeepTheirWord
    BY DEF CommandsKeepTheirWord
  <2>2. QED
    BY <2>1 DEF HomeInv, DoneInv
<1>2. QED
  BY <1>1, HomeInvariant, PTL

\* Unless runs overlapped, pafio-toolchain.lock (State.cpp) says what the
\* completed updates say one after the other, or does not parse.
THEOREM SettingsKept == Spec => []SettingsAreKept
<1>1. HomeInv => SettingsAreKept
  BY DEF HomeInv, CleanInv, CleanFiles, SettingsAreKept, SettingsFail
<1>2. QED
  BY <1>1, HomeInvariant, PTL

\* The tier of a worker gives away the risk of the project.
RiskOfTier(tier) == IF tier \in {"internal-warm", "trusted-isolated"} THEN "trusted-internal"
                    ELSE IF tier = "partner-isolated" THEN "partner-controlled"
                    ELSE "untrusted-user"

\* A trust tier belongs to one risk, and only trusted code is not isolated.
LEMMA TierTells ==
  ASSUME NEW s, s.risk \in Risks, s.lane \in Lanes
  PROVE  /\ RiskOfTier(WorkerTrustTier(s.risk, ExecutionLane(s))) = s.risk
         /\ s.risk # "trusted-internal" => ExecutionLane(s) = "isolated"
<1>1. CASE s.risk = "trusted-internal" /\ s.lane = "warm-shared"
  BY <1>1 DEF RiskOfTier, WorkerTrustTier, ExecutionLane
<1>2. CASE s.risk = "trusted-internal" /\ s.lane = "isolated"
  BY <1>2 DEF RiskOfTier, WorkerTrustTier, ExecutionLane
<1>3. CASE s.risk = "partner-controlled"
  BY <1>3 DEF RiskOfTier, WorkerTrustTier, ExecutionLane
<1>4. CASE s.risk = "untrusted-user"
  BY <1>4 DEF RiskOfTier, WorkerTrustTier, ExecutionLane
<1>5. QED
  BY <1>1, <1>2, <1>3, <1>4 DEF Risks, Lanes

\* So does the pool of a policy.
LEMMA PoolTells ==
  ASSUME NEW s, s.risk \in Risks, s.lane \in Lanes
  PROVE  LET policy == ResolveCloudExecutionPolicy(s)
         IN  /\ policy.risk = s.risk /\ RiskOfTier(policy.pool[2]) = s.risk
             /\ s.risk # "trusted-internal" =>
                  policy.lane = "isolated" /\ ~policy.reuse /\ ~policy.promote
<1>1. ResolveCloudExecutionPolicy(s).pool[2] = WorkerTrustTier(s.risk, ExecutionLane(s))
  BY DEF ResolveCloudExecutionPolicy
<1>2. QED
  BY <1>1, TierTells DEF ResolveCloudExecutionPolicy

\* Code that is not trusted runs isolated, leaves nothing on a worker and in
\* the shared cache, and projects of different risk get workers of different
\* pools (CloudPolicy.cpp), whatever settings the project came to.
THEOREM IsolationIsByRisk == Spec => []IsolationFollowsRisk
<1>1. HomeInv => IsolationFollowsRisk
  <2> SUFFICES ASSUME HomeInv, ~SettingsFail
               PROVE  LET policy == ResolveCloudExecutionPolicy(LoadSettings)
                      IN  /\ policy.risk # "trusted-internal" =>
                               policy.lane = "isolated" /\ ~policy.reuse /\ ~policy.promote
                          /\ \A risk \in Risks \ {policy.risk}, lane \in Lanes :
                               ResolveCloudExecutionPolicy(
                                   [LoadSettings EXCEPT !.risk = risk, !.lane = lane]).pool
                                 # policy.pool
    BY DEF IsolationFollowsRisk
  <2>s. PICK s : s = LoadSettings
    OBVIOUS
  <2>1. s \in SettingsRecords
    BY <2>s, LoadType
  <2>2. s.risk \in Risks /\ s.lane \in Lanes
    BY <2>1 DEF SettingsRecords
  <2>p. PICK policy : policy = ResolveCloudExecutionPolicy(s)
    OBVIOUS
  <2>3. /\ policy.risk = s.risk /\ RiskOfTier(policy.pool[2]) = s.risk
        /\ s.risk # "trusted-internal" =>
             policy.lane = "isolated" /\ ~policy.reuse /\ ~policy.promote
    BY <2>2, <2>p, PoolTells
  <2>4. ASSUME NEW risk \in Risks \ {s.risk}, NEW lane \in Lanes
        PROVE  ResolveCloudExecutionPolicy([s EXCEPT !.risk = risk, !.lane = lane]).pool
                 # policy.pool
    <3>t. PICK t : t = [s EXCEPT !.risk = risk, !.lane = lane]
      OBVIOUS
    <3>1. t.risk = risk /\ t.lane = lane
      BY <2>1, <3>t DEF SettingsRecords
    <3>2. RiskOfTier(ResolveCloudExecutionPolicy(t).pool[2]) = risk
      BY <2>4, <3>1, PoolTells
    <3>3. QED
      BY <2>3, <2>4, <3>t, <3>2
  <2>5. QED
    BY <2>s, <2>p, <2>3, <2>4
<1>2. QED
  BY <1>1, HomeInvariant, PTL

=============================================================================
