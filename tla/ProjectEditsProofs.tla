------------------------- MODULE ProjectEditsProofs -------------------------
(***************************************************************************)
(* Proofs about ProjectEdits, for all packages, commands and manifests,    *)
(* and any number of runs.                                                 *)
(*                                                                         *)
(* A run remembers what it found at its start for as long as nobody comes  *)
(* between.  As long as it does it is the only run, and where it is says   *)
(* what is in the manifest and the lockfile.                               *)
(***************************************************************************)
EXTENDS ProjectEdits, SequenceTheorems, FiniteSetTheorems, TLAPS

\* A write of a text that fits the file.
LEMMA PutType ==
  ASSUME NEW f \in Files, NEW t \in Texts(f)
  PROVE  Put(f, t) \in Puts /\ Put(f, t).file = f /\ Put(f, t).text = t
BY DEF Put, Puts

\* A write names a file and a text of it.
LEMMA PutsHold ==
  ASSUME NEW e \in Puts
  PROVE  e.file \in Files /\ e.text \in Texts(e.file)
BY DEF Puts

\* The texts of each file.
LEMMA TextsAre ==
  /\ Texts("manifest") = (SUBSET Dependencies) \cup {None, Torn}
  /\ Texts("lock") = (SUBSET [package : Packages, version : PathVersions \ {0}]) \cup {None, Torn}
  /\ Texts("source") = {None, Torn, Scaffold}
BY DEF Texts

\* Any file may be absent or torn.
LEMMA NoneAndTorn == \A f \in Files : None \in Texts(f) /\ Torn \in Texts(f)
BY TextsAre DEF Files

\* The lockfile of a manifest that parses and has no broken package.
LEMMA LockOfType ==
  ASSUME paths \in [PathPackages -> PathVersions], NEW m \in SUBSET Dependencies, ~Broken(m)
  PROVE  LockOf(m) \in Texts("lock")
<1>1. ASSUME NEW a \in Named(m)
      PROVE  a \in Packages /\ Version(a) \in PathVersions \ {0}
  BY DEF Named, Dependencies, Version, PathVersions, Broken
<1>2. QED
  BY <1>1, TextsAre DEF LockOf

\* Only packages of git repositories are fetched.
LEMMA MissingType == \A m \in SUBSET Dependencies : Missing(m) \subseteq GitPackages
BY DEF Missing

\* A manifest that parses is a set of dependencies.
LEMMA ParsedType ==
  ASSUME NEW m \in Texts("manifest"), Parses(m)
  PROVE  m \in SUBSET Dependencies
<1>1. m \in (SUBSET Dependencies) \cup {None, Torn}
  BY TextsAre
<1>2. m # None /\ m # Torn
  BY DEF Parses
<1>3. QED
  BY <1>1, <1>2
-----------------------------------------------------------------------------
\* No run.
LEMMA IdleType ==
  /\ Idle \in Runs
  /\ Idle.at = "idle" /\ Idle.before = None /\ ~Idle.open /\ ~Idle.undo
BY NoneAndTorn, EmptySeq DEF Idle, Runs, Phases, Files

\* A run after one more of its writes.
LEMMA ContinuedFields ==
  ASSUME NEW r \in Runs, r.todo # <<>>
  PROVE  LET w == Continued(r)
         IN  /\ w \in Runs
             /\ w.at = (IF Len(r.todo) = 1 THEN r.next ELSE "write")
             /\ w.todo = Tail(r.todo) /\ ~w.open /\ Head(r.todo) \in Puts
             /\ Len(r.todo) # 1 => w.todo # <<>>
             /\ w.next = r.next /\ w.cmd = r.cmd /\ w.text = r.text /\ w.lock = r.lock
             /\ w.graph = r.graph /\ w.undo = r.undo /\ w.before = r.before
<1>1. r.todo \in Seq(Puts) /\ r.next \in Phases
  BY DEF Runs
<1>2. /\ Tail(r.todo) \in Seq(Puts) /\ Head(r.todo) \in Puts
      /\ Len(Tail(r.todo)) = Len(r.todo) - 1 /\ Len(r.todo) \in Nat
  BY <1>1, HeadTailProperties, EmptySeq
<1>3. Len(r.todo) # 1 => Tail(r.todo) # <<>>
  <2>1. Len(r.todo) # 0
    BY <1>1, EmptySeq
  <2> DEFINE n == Len(r.todo)  k == Len(Tail(r.todo))
  <2>2. n \in Nat /\ k = n - 1 /\ n # 0
    BY <1>2, <2>1
  <2> HIDE DEF n, k
  <2>3. n # 1 => k # 0
    BY <2>2
  <2>4. Tail(r.todo) = <<>> => k = 0
    BY EmptySeq DEF k
  <2>5. QED
    BY <2>3, <2>4 DEF n
<1> DEFINE next == IF Len(r.todo) = 1 THEN r.next ELSE "write"
           rest == Tail(r.todo)
<1>4. next \in Phases /\ rest \in Seq(Puts)
  BY <1>1, <1>2 DEF Phases
<1>5. Continued(r) = [r EXCEPT !.todo = rest, !.open = FALSE, !.at = next]
  BY DEF Continued
<1> HIDE DEF next, rest
<1>6. /\ Continued(r) \in Runs
      /\ Continued(r).at = next /\ Continued(r).todo = rest /\ ~Continued(r).open
      /\ Continued(r).next = r.next /\ Continued(r).cmd = r.cmd /\ Continued(r).text = r.text
      /\ Continued(r).lock = r.lock /\ Continued(r).graph = r.graph /\ Continued(r).undo = r.undo
      /\ Continued(r).before = r.before
  BY <1>4, <1>5 DEF Runs
<1>7. QED
  BY <1>2, <1>3, <1>6 DEF next, rest

\* The same run at another place, or without a start to go back to.
LEMMA MovedFields ==
  ASSUME NEW r \in Runs, NEW at \in Phases
  PROVE  LET w == [r EXCEPT !.at = at]
         IN  /\ w \in Runs /\ w.at = at
             /\ w.todo = r.todo /\ w.next = r.next /\ w.cmd = r.cmd /\ w.text = r.text
             /\ w.lock = r.lock /\ w.open = r.open /\ w.graph = r.graph /\ w.undo = r.undo
             /\ w.before = r.before
BY DEF Runs

\* A run that no longer remembers its start.
LEMMA DisturbedFields ==
  ASSUME NEW r \in Runs
  PROVE  LET w == [r EXCEPT !.before = None]
         IN  /\ w \in Runs /\ w.before = None
             /\ w.at = r.at /\ w.todo = r.todo /\ w.next = r.next /\ w.cmd = r.cmd
             /\ w.text = r.text /\ w.lock = r.lock /\ w.open = r.open /\ w.graph = r.graph
             /\ w.undo = r.undo
BY DEF Runs
-----------------------------------------------------------------------------
(* The inductive invariant                                                  *)

EditCommands == {"add", "remove"}

\* The phase a run is in, or will be in when its files are written.
Heading(r) == IF r.at = "write" THEN r.next ELSE r.at

Stages(c) ==
  {"written"} \cup (IF c.do \in {"new", "init"} THEN {"init"}
                    ELSE IF c.do \in EditCommands THEN {"read", "edit", "relock", "restore"}
                    ELSE IF c.do \in Workflows THEN {"policy", "resolve", "fetch"} ELSE {})

Kinds == {"new", "init"} \cup EditCommands \cup Workflows

\* A run is in a phase of its command, and read the manifest before it edits it.
RunOK(r) ==
  IF r.at = "idle" THEN r.before = None
  ELSE /\ r.cmd \in Commands /\ r.cmd.do \in Kinds /\ Heading(r) \in Stages(r.cmd)
       /\ r.at = "write" => /\ r.todo # <<>>
                            /\ r.next \in {"relock", "restore", "fetch", "written"}
       /\ r.cmd.do \in EditCommands /\ Heading(r) # "read" => r.text # None

RunInv == \A p \in Procs : RunOK(proc[p])

\* A file has a text, or the run is about to write it, and nothing after it.
Pending(r, f, text) ==
  IF r.at = "write" THEN r.todo = <<Put(f, text)>> ELSE files[f] = text

\* A run that took this as its graph took what resolution gives.
Worked(graph) ==
  LET m == files["manifest"] IN Parses(m) /\ LockOf(m) = graph

\* add and remove: the files are as they were until the new manifest is written;
\* then the manifest has the edit until it is undone, and the lockfile follows.
EditFacts(r) ==
  LET was == r.before["manifest"]
      c == r.cmd
      at == Heading(r)
  IN  /\ at # "read" => r.text = was /\ r.lock = r.before["lock"]
      /\ at \in {"read", "edit"} => files["manifest"] = was /\ ~r.undo
      /\ at \in {"read", "edit", "relock"} => files["lock"] = r.before["lock"]
      /\ at = "relock" =>
           ~r.undo /\ CanEdit(was, c) /\ Pending(r, "manifest", Edited(was, c))
      /\ at = "restore" => r.undo /\ Pending(r, "manifest", was)
      /\ at = "written" /\ r.undo =>
           files["manifest"] = was /\ Pending(r, "lock", r.before["lock"])
      /\ at = "written" /\ ~r.undo =>
           /\ CanEdit(was, c) /\ files["manifest"] = Edited(was, c)
           /\ Worked(r.graph) /\ Pending(r, "lock", r.graph)

\* The others: a policy that was met still is, and a graph they hold is the one
\* in the lockfile, or about to be.
UseFacts(r) ==
  /\ ~r.undo
  /\ Heading(r) = "resolve" /\ r.cmd.locked => files["lock"] = Generated
  /\ Heading(r) \in {"fetch", "written"} => Worked(r.graph) /\ Pending(r, "lock", r.graph)

Alone(p) == \A q \in Procs \ {p} : proc[q].at = "idle"

Facts(r) == /\ r.cmd.do \in EditCommands => EditFacts(r)
            /\ r.cmd.do \in Workflows => UseFacts(r)

UndisturbedInv == \A p \in Procs : proc[p].before # None => Alone(p) /\ Facts(proc[p])

\* What the last command left has not changed since.
DoneInv ==
  done # None =>
    /\ \A p \in Procs : proc[p].at = "idle"
    /\ EditIsAllOrNothing /\ LockedRunsUseTheLock

EditsInv == TypeOK /\ RunInv /\ UndisturbedInv /\ DoneInv
-----------------------------------------------------------------------------
(* What all steps of a run have in common                                   *)

\* A run of a reachable state has the fields of a run.
LEMMA RunType ==
  ASSUME TypeOK, NEW p \in Procs
  PROVE  /\ proc[p] \in Runs
         /\ proc[p].open => proc[p].at = "write" /\ proc[p].todo # <<>>
         /\ proc[p].undo => proc[p].text # None
BY DEF TypeOK

\* So have the manifest and the lockfile their texts.
LEMMA FileType ==
  ASSUME TypeOK
  PROVE  files["manifest"] \in Texts("manifest") /\ files["lock"] \in Texts("lock")
BY DEF TypeOK, Files

\* One file is written with a text that fits it.
LEMMA FilesPut ==
  ASSUME TypeOK, NEW f \in Files, NEW t \in Texts(f), files' = [files EXCEPT ![f] = t]
  PROVE  /\ DOMAIN files' = Files /\ \A g \in Files : files'[g] \in Texts(g)
         /\ files'[f] = t
         /\ \A g \in Files \ {f} : files'[g] = files[g]
BY DEF TypeOK

\* What a run holds about the project after a step that leaves the manifest.
LEMMA WorkedStays ==
  ASSUME NEW graph, Worked(graph), files'["manifest"] = files["manifest"], paths' = paths
  PROVE  Worked(graph)'
<1> PICK m : m = files["manifest"]
  OBVIOUS
<1>1. Parses(m) /\ LockOf(m) = graph
  BY DEF Worked
<1>2. LockOf(m)' = LockOf(m)
  BY DEF LockOf, Version, Named
<1>3. files'["manifest"] = m
  OBVIOUS
<1>4. QED
  BY <1>1, <1>2, <1>3 DEF Worked

\* A run that is on its way knows what it did, and is alone as long as it
\* remembers its start.
LEMMA RunFacts ==
  ASSUME EditsInv, NEW p \in Procs, proc[p].at # "idle"
  PROVE  /\ RunOK(proc[p]) /\ done = None
         /\ proc[p].before # None => Alone(p) /\ Facts(proc[p])
         /\ \A q \in Procs \ {p} : proc[q].before = None
BY DEF EditsInv, RunInv, UndisturbedInv, DoneInv, Alone

\* A step that goes on in the same command keeps the invariant, if the run is in
\* order at its new place and knows what it did.
LEMMA Moves ==
  ASSUME EditsInv, NEW p \in Procs, proc[p].at # "idle", NEW w \in Runs,
         proc' = [proc EXCEPT ![p] = w], UNCHANGED <<paths, runs, moves, done>>,
         DOMAIN files' = Files, \A f \in Files : files'[f] \in Texts(f),
         cached' \subseteq GitPackages,
         w.at # "idle", RunOK(w),
         w.open => w.at = "write" /\ w.todo # <<>>, w.undo => w.text # None,
         w.before # None => proc[p].before # None /\ Facts(w)'
  PROVE  EditsInv'
<1>1. TypeOK'
  BY DEF EditsInv, TypeOK
<1>2. proc \in [Procs -> Runs]
  BY DEF EditsInv, TypeOK
<1>3. proc'[p] = w /\ \A q \in Procs \ {p} : proc'[q] = proc[q]
  BY <1>2
<1>4. RunInv'
  BY <1>3 DEF EditsInv, RunInv
<1>5. UndisturbedInv'
  <2> SUFFICES ASSUME NEW q \in Procs, proc'[q].before # None
               PROVE  Alone(q)' /\ Facts(proc[q])'
    BY DEF UndisturbedInv
  <2>1. q = p
    BY <1>3, RunFacts
  <2>2. Alone(p)
    BY <2>1, <1>3, RunFacts
  <2>3. Alone(p)'
    BY <2>2, <1>3 DEF Alone
  <2>4. Facts(w)'
    BY <2>1, <1>3
  <2>5. QED
    BY <2>1, <2>3, <2>4, <1>3
<1>6. DoneInv'
  BY RunFacts DEF DoneInv
<1>7. QED
  BY <1>1, <1>4, <1>5, <1>6 DEF EditsInv

\* A step that ends a run keeps it, if an undisturbed one has kept its promises.
LEMMA Finishes ==
  ASSUME EditsInv, NEW p \in Procs, proc[p].at # "idle", NEW ok, NEW graph,
         Ends(p, ok, graph), UNCHANGED <<paths, runs, moves>>,
         DOMAIN files' = Files, \A f \in Files : files'[f] \in Texts(f),
         cached' \subseteq GitPackages,
         proc[p].before # None =>
           EditIsAllOrNothing' /\ LockedRunsUseTheLock'
  PROVE  EditsInv'
<1>1. /\ proc' = [proc EXCEPT ![p] = Idle]
      /\ proc[p].before = None => done' = None
  BY DEF Ends
<1>2. proc \in [Procs -> Runs]
  BY DEF EditsInv, TypeOK
<1>3. proc'[p] = Idle /\ \A q \in Procs \ {p} : proc'[q] = proc[q]
  BY <1>1, <1>2
<1>4. TypeOK'
  BY <1>1, IdleType DEF EditsInv, TypeOK
<1>5. RunInv'
  BY <1>3, IdleType DEF EditsInv, RunInv, RunOK
<1>6. UndisturbedInv'
  BY <1>3, IdleType, RunFacts DEF UndisturbedInv
<1>7. DoneInv'
  <2> SUFFICES ASSUME done' # None
               PROVE  /\ \A q \in Procs : proc'[q].at = "idle"
                      /\ EditIsAllOrNothing' /\ LockedRunsUseTheLock'
    BY DEF DoneInv
  <2>1. proc[p].before # None /\ Alone(p)
    BY <1>1, RunFacts
  <2>2. QED
    BY <2>1, <1>3, IdleType DEF Alone
<1>8. QED
  BY <1>4, <1>5, <1>6, <1>7 DEF EditsInv
-----------------------------------------------------------------------------
(* Commands start, are killed, and users edit                               *)

\* Runs that were disturbed are in order still.
LEMMA DisturbedType ==
  ASSUME TypeOK
  PROVE  /\ Disturbed \in [Procs -> Runs]
         /\ \A q \in Procs :
              /\ RunOK(proc[q]) => RunOK(Disturbed[q])
              /\ Disturbed[q].at = proc[q].at
              /\ Disturbed[q].open = proc[q].open /\ Disturbed[q].undo = proc[q].undo
              /\ Disturbed[q].todo = proc[q].todo /\ Disturbed[q].text = proc[q].text
              /\ RunOK(proc[q]) => Disturbed[q].before = None
<1> SUFFICES ASSUME NEW q \in Procs
             PROVE  /\ Disturbed[q] \in Runs
                    /\ RunOK(proc[q]) => RunOK(Disturbed[q])
                    /\ Disturbed[q].at = proc[q].at
                    /\ Disturbed[q].open = proc[q].open /\ Disturbed[q].undo = proc[q].undo
                    /\ Disturbed[q].todo = proc[q].todo /\ Disturbed[q].text = proc[q].text
                    /\ RunOK(proc[q]) => Disturbed[q].before = None
  BY DEF Disturbed
<1>1. proc[q] \in Runs
  BY RunType
<1>2. CASE proc[q].at = "idle"
  BY <1>1, <1>2 DEF Disturbed, RunOK
<1>3. CASE proc[q].at # "idle"
  <2>1. Disturbed[q] = [proc[q] EXCEPT !.before = None]
    BY <1>3 DEF Disturbed
  <2>2. QED
    BY <1>1, <1>3, <2>1, DisturbedFields DEF RunOK, Heading
<1>4. QED
  BY <1>2, <1>3

Starts == {"init", "read", "policy", "resolve"}

\* A run that begins disturbs the others, and remembers what it finds.
LEMMA Begins ==
  ASSUME EditsInv, NEW p \in Procs, NEW c \in Commands, NEW at \in Starts, Begin(p, c, at),
         c.do \in Kinds, at \in Stages(c),
         at = "resolve" => ~c.locked
  PROVE  EditsInv'
<1> PICK before : before = IF \A q \in Procs \ {p} : proc[q].at = "idle"
                           THEN [manifest |-> files["manifest"], lock |-> files["lock"]]
                           ELSE None
  OBVIOUS
<1> DEFINE w == [Idle EXCEPT !.cmd = c, !.at = at, !.before = before]
<1>1. /\ w \in Runs /\ w.cmd = c /\ w.at = at /\ w.before = before
      /\ ~w.open /\ ~w.undo
  <2>1. before \in [manifest : Texts("manifest"), lock : Texts("lock")] \cup {None}
    BY FileType DEF EditsInv
  <2>2. at \in Phases
    BY DEF Starts, Phases
  <2>3. Idle \in Runs
    BY IdleType
  <2>4. QED
    BY <2>1, <2>2, <2>3, IdleType DEF Runs
<1>2. proc' = [Disturbed EXCEPT ![p] = w]
  BY DEF Begin
<1> HIDE DEF w
<1>3. /\ proc[p].at = "idle" /\ runs < MaxRuns /\ runs' = runs + 1
      /\ done' = None /\ UNCHANGED <<files, paths, cached, moves>>
  BY DEF Begin
<1>4. Disturbed \in [Procs -> Runs]
  BY DisturbedType DEF EditsInv
<1>5. proc'[p] = w /\ \A q \in Procs \ {p} : proc'[q] = Disturbed[q]
  BY <1>2, <1>4
<1>6. \A q \in Procs : RunOK(proc[q])
  BY DEF EditsInv, RunInv
<1>7. TypeOK'
  <2>1. proc' \in [Procs -> Runs]
    BY <1>1, <1>2, <1>4
  <2>2. runs' \in 0..MaxRuns
    BY <1>3, EditsAssumption DEF EditsInv, TypeOK
  <2>3. \A q \in Procs : /\ proc'[q].open => proc'[q].at = "write" /\ proc'[q].todo # <<>>
                         /\ proc'[q].undo => proc'[q].text # None
    BY <1>1, <1>5, DisturbedType, RunType DEF EditsInv
  <2>4. QED
    BY <1>3, <2>1, <2>2, <2>3 DEF EditsInv, TypeOK
<1>8. RunInv'
  <2>1. RunOK(w)
    <3>1. Heading(w) = at /\ at \notin {"idle", "write"}
      BY <1>1 DEF Heading, Starts
    <3>2. c.do \in EditCommands => at = "read"
      BY DEF Stages, Starts, EditCommands
    <3>3. QED
      BY <1>1, <3>1, <3>2 DEF RunOK
  <2>2. QED
    BY <2>1, <1>5, <1>6, DisturbedType DEF EditsInv, RunInv
<1>9. UndisturbedInv'
  <2> SUFFICES ASSUME NEW q \in Procs, proc'[q].before # None
               PROVE  Alone(q)' /\ Facts(proc[q])'
    BY DEF UndisturbedInv
  <2>1. q = p
    BY <1>5, <1>6, DisturbedType DEF EditsInv
  <2>2. before # None
    BY <2>1, <1>5, <1>1
  <2>3. before = [manifest |-> files["manifest"], lock |-> files["lock"]]
    BY <2>2
  <2>4. \A x \in Procs \ {p} : proc[x].at = "idle"
    BY <2>2
  <2>5. Alone(p)'
    BY <2>4, <1>5, DisturbedType DEF EditsInv, Alone
  <2>6. Heading(w) = at
    BY <1>1 DEF Heading, Starts
  <2>7. c.do \in EditCommands => EditFacts(w)'
    <3> SUFFICES ASSUME c.do \in EditCommands
                 PROVE  EditFacts(w)'
      OBVIOUS
    <3>1. at = "read"
      BY DEF Starts, Stages, EditCommands
    <3>2. w.before["manifest"] = files'["manifest"] /\ w.before["lock"] = files'["lock"]
      BY <1>1, <1>3, <2>3
    <3>3. QED
      BY <1>1, <2>6, <3>1, <3>2 DEF EditFacts
  <2>8. c.do \in Workflows => UseFacts(w)'
    BY <1>1, <2>6 DEF UseFacts, Starts
  <2>9. Facts(w)'
    BY <1>1, <2>7, <2>8 DEF Facts
  <2>10. QED
    BY <2>1, <2>5, <2>9, <1>5
<1>10. DoneInv'
  BY <1>3 DEF DoneInv
<1>11. QED
  BY <1>7, <1>8, <1>9, <1>10 DEF EditsInv

\* Start: a command begins, at the phase its options give.
LEMMA StartHolds ==
  ASSUME EditsInv, NEW p \in Procs, Start(p)
  PROVE  EditsInv'
<1>1. PICK c \in Commands, at \in Starts :
        /\ Begin(p, c, at) /\ c.do \in Kinds /\ at \in Stages(c)
        /\ at = "resolve" => ~c.locked
  <2>1. CASE HandleNew(p) \/ HandleInit(p)
    BY <2>1 DEF HandleNew, HandleInit, Asked, Kinds, Stages, Starts
  <2>2. CASE HandleAdd(p) \/ HandleRemove(p)
    BY <2>2 DEF HandleAdd, HandleRemove, Asked, Kinds, Stages, Starts, EditCommands
  <2>3. CASE HandleLock(p) \/ HandleTree(p)
    BY <2>3 DEF HandleLock, HandleTree, Asked, Kinds, Stages, Starts, EditCommands, Workflows
  <2>4. CASE \/ HandleSync(p) \/ HandleFetch(p) \/ HandleVendor(p) \/ HandleProjectGraph(p)
             \/ HandleCheck(p) \/ HandlePlanCommand(p)
    BY <2>4 DEF HandleSync, HandleFetch, HandleVendor, HandleProjectGraph, HandleCheck,
                HandlePlanCommand, Asked, Kinds, Stages, Starts, EditCommands, Workflows
  <2>5. QED
    BY <2>1, <2>2, <2>3, <2>4 DEF Start
<1>2. QED
  BY <1>1, Begins

\* Stop: a run is killed, and the files stay as they are.
LEMMA StopHolds ==
  ASSUME EditsInv, NEW p \in Procs, Stop(p)
  PROVE  EditsInv'
<1>1. /\ proc[p].at # "idle" /\ proc' = [proc EXCEPT ![p] = Idle]
      /\ UNCHANGED <<files, paths, cached, runs, moves, done>>
  BY DEF Stop
<1>2. proc \in [Procs -> Runs]
  BY DEF EditsInv, TypeOK
<1>3. proc'[p] = Idle /\ \A q \in Procs \ {p} : proc'[q] = proc[q]
  BY <1>1, <1>2
<1>4. TypeOK'
  BY <1>1, IdleType DEF EditsInv, TypeOK
<1>5. RunInv'
  BY <1>3, IdleType DEF EditsInv, RunInv, RunOK
<1>6. UndisturbedInv'
  BY <1>1, <1>3, IdleType, RunFacts DEF UndisturbedInv
<1>7. DoneInv'
  BY <1>1, RunFacts DEF DoneInv
<1>8. QED
  BY <1>4, <1>5, <1>6, <1>7 DEF EditsInv

\* A run that ends with a failure and promises nothing.
LEMMA AbandonsHolds ==
  ASSUME EditsInv, NEW p \in Procs, proc[p].at # "idle", Abandons(p),
         UNCHANGED <<paths, runs, moves>>, cached' \subseteq GitPackages,
         DOMAIN files' = Files, \A f \in Files : files'[f] \in Texts(f)
  PROVE  EditsInv'
<1>1. proc' = [proc EXCEPT ![p] = Idle] /\ done' = None
  BY DEF Abandons
<1>2. proc \in [Procs -> Runs]
  BY DEF EditsInv, TypeOK
<1>3. proc'[p] = Idle /\ \A q \in Procs \ {p} : proc'[q] = proc[q]
  BY <1>1, <1>2
<1>4. TypeOK'
  BY <1>1, IdleType DEF EditsInv, TypeOK
<1>5. RunInv'
  BY <1>3, IdleType DEF EditsInv, RunInv, RunOK
<1>6. UndisturbedInv'
  BY <1>3, IdleType, RunFacts DEF UndisturbedInv
<1>7. DoneInv'
  BY <1>1 DEF DoneInv
<1>8. QED
  BY <1>4, <1>5, <1>6, <1>7 DEF EditsInv

\* UserEdits: a new manifest, a path package has moved on, or sources are lost.
LEMMA UserEditsHolds ==
  ASSUME EditsInv, UserEdits
  PROVE  EditsInv'
<1>1. /\ moves < MaxMoves /\ moves' = moves + 1 /\ proc' = Disturbed /\ done' = None
      /\ UNCHANGED runs
  BY DEF UserEdits
<1>2. \A q \in Procs : RunOK(proc[q])
  BY DEF EditsInv, RunInv
<1>3. TypeOK'
  <2>1. DOMAIN files' = Files /\ \A f \in Files : files'[f] \in Texts(f)
    <3>1. CASE \E m \in Manifests \ {files["manifest"]} :
                 files' = [files EXCEPT !["manifest"] = m]
      <4>1. PICK m \in Manifests : files' = [files EXCEPT !["manifest"] = m]
        BY <3>1
      <4>2. m \in Texts("manifest")
        BY TextsAre, EditsAssumption
      <4>3. QED
        BY <4>1, <4>2, FilesPut DEF EditsInv, Files
    <3>2. CASE UNCHANGED files
      BY <3>2 DEF EditsInv, TypeOK
    <3>3. QED
      BY <3>1, <3>2 DEF UserEdits
  <2>2. paths' \in [PathPackages -> PathVersions] /\ cached' \subseteq GitPackages
    BY DEF EditsInv, TypeOK, UserEdits
  <2>3. moves' \in 0..MaxMoves
    BY <1>1, EditsAssumption DEF EditsInv, TypeOK
  <2>4. proc' \in [Procs -> Runs]
    BY <1>1, DisturbedType DEF EditsInv
  <2>5. \A q \in Procs : /\ proc'[q].open => proc'[q].at = "write" /\ proc'[q].todo # <<>>
                         /\ proc'[q].undo => proc'[q].text # None
    BY <1>1, DisturbedType, RunType DEF EditsInv
  <2>6. QED
    BY <1>1, <2>1, <2>2, <2>3, <2>4, <2>5 DEF EditsInv, TypeOK
<1>4. RunInv'
  BY <1>1, <1>2, DisturbedType DEF EditsInv, RunInv
<1>5. UndisturbedInv'
  BY <1>1, <1>2, DisturbedType DEF EditsInv, UndisturbedInv
<1>6. DoneInv'
  BY <1>1 DEF DoneInv
<1>7. QED
  BY <1>3, <1>4, <1>5, <1>6 DEF EditsInv
-----------------------------------------------------------------------------
(* Files are written                                                        *)

\* The only file a run that remembers its start is writing, and what comes of it.
LEMMA PendingFields ==
  ASSUME NEW r, NEW f, NEW t, r.at = "write", Pending(r, f, t)
  PROVE  Head(r.todo) = Put(f, t) /\ Head(r.todo).file = f /\ Head(r.todo).text = t
         /\ Len(r.todo) = 1
<1>1. r.todo = <<Put(f, t)>>
  BY DEF Pending
<1>2. Put(f, t).file = f /\ Put(f, t).text = t
  BY DEF Put
<1> PICK put : put = Put(f, t)
  OBVIOUS
<1>3. Head(<<put>>) = put /\ Len(<<put>>) = 1
  OBVIOUS
<1>4. QED
  BY <1>1, <1>2, <1>3

\* The run that writes has one of these phases ahead.
LEMMA WritePhases ==
  ASSUME NEW r, RunOK(r), r.at = "write"
  PROVE  /\ r.todo # <<>> /\ Heading(r) = r.next
         /\ r.next \in {"relock", "restore", "fetch", "written"}
         /\ r.cmd.do \in EditCommands => r.next \in {"relock", "restore", "written"}
         /\ r.cmd.do \in Workflows => r.next \in {"fetch", "written"}
         /\ r.next \in {"relock", "restore", "fetch"} =>
              r.cmd.do \in EditCommands \cup Workflows
BY DEF RunOK, Heading, Stages, EditCommands, Workflows

\* Facts about a run that writes, before and after the write of its one file.
LEMMA WriteFacts ==
  ASSUME NEW r, NEW w, RunOK(r), r.at = "write", Facts(r),
         r.cmd.do \in EditCommands \cup Workflows,
         w.cmd = r.cmd, w.text = r.text, w.lock = r.lock, w.graph = r.graph,
         w.undo = r.undo, w.before = r.before, Heading(w) = r.next,
         UNCHANGED <<paths, cached>>,
         \A g \in Files \ {Head(r.todo).file} : files'[g] = files[g],
         \A f \in Files : \A t : Pending(r, f, t) => Pending(w, f, t)'
  PROVE  Facts(w)'
<1>1. Heading(r) = r.next
  BY WritePhases
<1>2. "manifest" \in Files /\ "lock" \in Files
  BY DEF Files
<1>3. (\E t : Pending(r, "manifest", t)) => files'["lock"] = files["lock"]
  BY <1>2, PendingFields
<1>4. (\E t : Pending(r, "lock", t)) => files'["manifest"] = files["manifest"]
  BY <1>2, PendingFields
<1>5. \A t : Pending(r, "manifest", t) => Pending(w, "manifest", t)'
  BY <1>2
<1>6. \A t : Pending(r, "lock", t) => Pending(w, "lock", t)'
  BY <1>2
<1>7. Worked(r.graph) /\ files'["manifest"] = files["manifest"] => Worked(w.graph)'
  <2> SUFFICES ASSUME Worked(r.graph), files'["manifest"] = files["manifest"]
               PROVE  Worked(w.graph)'
    OBVIOUS
  <2>1. Worked(w.graph)
    BY DEF Worked
  <2>2. QED
    BY <2>1, WorkedStays
<1>8. ASSUME w.cmd.do \in EditCommands
      PROVE  EditFacts(w)'
  <2>1. EditFacts(r) /\ r.next \in {"relock", "restore", "written"}
    BY <1>8, WritePhases DEF Facts
  <2> PICK was, c, lock0 : was = r.before["manifest"] /\ c = r.cmd /\ lock0 = r.before["lock"]
    OBVIOUS
  <2>2. CASE r.next = "relock"
    <3>1. /\ r.text = was /\ r.lock = lock0 /\ files["lock"] = lock0
          /\ ~r.undo /\ CanEdit(was, c) /\ Pending(r, "manifest", Edited(was, c))
      BY <1>1, <2>1, <2>2 DEF EditFacts
    <3>2. files'["lock"] = lock0
      BY <3>1, <1>3
    <3>3. PICK t : t = Edited(was, c)
      OBVIOUS
    <3>4. Pending(w, "manifest", t)'
      BY <3>1, <3>3, <1>5
    <3>5. QED
      BY <2>2, <3>1, <3>2, <3>3, <3>4 DEF EditFacts
  <2>3. CASE r.next = "restore"
    <3>1. r.text = was /\ r.lock = lock0 /\ r.undo /\ Pending(r, "manifest", was)
      BY <1>1, <2>1, <2>3 DEF EditFacts
    <3>2. Pending(w, "manifest", was)'
      BY <3>1, <1>5
    <3>3. QED
      BY <2>3, <3>1, <3>2 DEF EditFacts
  <2>4. CASE r.next = "written" /\ r.undo
    <3>1. r.text = was /\ r.lock = lock0 /\ files["manifest"] = was /\ Pending(r, "lock", lock0)
      BY <1>1, <2>1, <2>4 DEF EditFacts
    <3>2. files'["manifest"] = was /\ Pending(w, "lock", lock0)'
      BY <3>1, <1>4, <1>6
    <3>3. QED
      BY <2>4, <3>1, <3>2 DEF EditFacts
  <2>5. CASE r.next = "written" /\ ~r.undo
    <3>1. /\ r.text = was /\ r.lock = lock0 /\ CanEdit(was, c)
          /\ files["manifest"] = Edited(was, c) /\ Worked(r.graph) /\ Pending(r, "lock", r.graph)
      BY <1>1, <2>1, <2>5 DEF EditFacts
    <3>2. files'["manifest"] = files["manifest"]
      BY <3>1, <1>4
    <3>3. Worked(w.graph)' /\ Pending(w, "lock", r.graph)'
      BY <3>1, <3>2, <1>6, <1>7
    <3>4. QED
      BY <2>5, <3>1, <3>2, <3>3 DEF EditFacts
  <2>6. QED
    BY <2>1, <2>2, <2>3, <2>4, <2>5
<1>9. ASSUME w.cmd.do \in Workflows
      PROVE  UseFacts(w)'
  <2>1. UseFacts(r) /\ r.next \in {"fetch", "written"}
    BY <1>9, WritePhases DEF Facts
  <2>2. ~r.undo /\ Worked(r.graph) /\ Pending(r, "lock", r.graph)
    BY <1>1, <2>1 DEF UseFacts
  <2>3. Worked(w.graph)' /\ Pending(w, "lock", r.graph)'
    BY <2>2, <1>4, <1>6, <1>7
  <2>4. QED
    BY <2>1, <2>2, <2>3 DEF UseFacts
<1>10. QED
  BY <1>8, <1>9 DEF Facts

\* new and init have nothing to go back to.
LEMMA NoFacts ==
  ASSUME NEW r, r.cmd.do \notin EditCommands \cup Workflows
  PROVE  Facts(r)'
BY DEF Facts

\* Truncate: the next file is opened, and empty.
LEMMA TruncateHolds ==
  ASSUME EditsInv, NEW p \in Procs, Truncate(p)
  PROVE  EditsInv'
<1> PICK r : r = proc[p]
  OBVIOUS
<1> DEFINE w == [r EXCEPT !.open = TRUE]
<1>1. /\ r.at = "write" /\ files' = [files EXCEPT ![Head(r.todo).file] = Torn]
      /\ proc' = [proc EXCEPT ![p] = w]
      /\ UNCHANGED <<paths, cached, runs, moves, done>>
  <2>1. proc \in [Procs -> Runs]
    BY DEF EditsInv, TypeOK
  <2>2. QED
    BY <2>1 DEF Truncate
<1>2. r \in Runs /\ RunOK(r) /\ (r.undo => r.text # None)
  BY <1>1, RunType, RunFacts DEF EditsInv
<1>3. /\ w \in Runs /\ w.open /\ w.at = r.at /\ w.todo = r.todo /\ w.next = r.next
      /\ w.cmd = r.cmd /\ w.text = r.text /\ w.lock = r.lock /\ w.graph = r.graph
      /\ w.undo = r.undo /\ w.before = r.before
  BY <1>2 DEF Runs
<1> HIDE DEF w
<1>4. r.todo # <<>>
  BY <1>1, <1>2, WritePhases
<1>5. Head(r.todo) \in Puts
  BY <1>2, <1>4, ContinuedFields
<1>6. Head(r.todo).file \in Files /\ Torn \in Texts(Head(r.todo).file)
  BY <1>5, PutsHold, NoneAndTorn
<1>7. /\ DOMAIN files' = Files /\ \A f \in Files : files'[f] \in Texts(f)
      /\ \A g \in Files \ {Head(r.todo).file} : files'[g] = files[g]
  BY <1>1, <1>6, FilesPut DEF EditsInv
<1>8. RunOK(w)
  BY <1>1, <1>2, <1>3 DEF RunOK, Heading
<1>9. ASSUME w.before # None
      PROVE  proc[p].before # None /\ Facts(w)'
  <2>1. Facts(r)
    BY <1>9, <1>1, <1>3, RunFacts
  <2>2. Heading(w) = r.next
    BY <1>1, <1>3 DEF Heading
  <2>3. \A f \in Files : \A t : Pending(r, f, t) => Pending(w, f, t)'
    BY <1>1, <1>3 DEF Pending
  <2>4. CASE r.cmd.do \in EditCommands \cup Workflows
    BY <1>1, <1>2, <1>3, <1>7, <2>1, <2>2, <2>3, <2>4, <1>9, WriteFacts
  <2>5. CASE r.cmd.do \notin EditCommands \cup Workflows
    BY <1>3, <1>9, <2>5, NoFacts
  <2>6. QED
    BY <2>4, <2>5, <1>9, <1>3
<1>10. cached' \subseteq GitPackages
  BY <1>1 DEF EditsInv, TypeOK
<1>11. QED
  BY <1>1, <1>2, <1>3, <1>4, <1>7, <1>8, <1>9, <1>10, Moves

\* The run after a write, whether its text arrived or not.
LEMMA ContinuedOK ==
  ASSUME NEW r \in Runs, RunOK(r), r.at = "write"
  PROVE  /\ Continued(r).at # "idle" /\ RunOK(Continued(r)) /\ Heading(Continued(r)) = r.next
         /\ ~Continued(r).open
<1> PICK w : w = Continued(r)
  OBVIOUS
<1>1. /\ r.todo # <<>> /\ Heading(r) = r.next
      /\ r.next \in {"relock", "restore", "fetch", "written"}
  BY WritePhases
<1>2. /\ w.at = (IF Len(r.todo) = 1 THEN r.next ELSE "write") /\ ~w.open
      /\ Len(r.todo) # 1 => w.todo # <<>>
      /\ w.next = r.next /\ w.cmd = r.cmd /\ w.text = r.text
  BY <1>1, ContinuedFields
<1>3. Heading(w) = r.next /\ w.at # "idle" /\ (w.at = "write" => w.todo # <<>>)
  BY <1>1, <1>2 DEF Heading
<1>4. RunOK(w)
  BY <1>1, <1>2, <1>3 DEF RunOK
<1>5. QED
  BY <1>2, <1>3, <1>4

\* Fill: its text has arrived.
LEMMA FillHolds ==
  ASSUME EditsInv, NEW p \in Procs, Fill(p)
  PROVE  EditsInv'
<1> PICK r : r = proc[p]
  OBVIOUS
<1> PICK w : w = Continued(r)
  OBVIOUS
<1>1. /\ r.at = "write"
      /\ files' = [files EXCEPT ![Head(r.todo).file] = Head(r.todo).text]
      /\ proc' = [proc EXCEPT ![p] = w]
      /\ UNCHANGED <<paths, cached, runs, moves, done>>
  <2>1. proc \in [Procs -> Runs]
    BY DEF EditsInv, TypeOK
  <2>2. QED
    BY <2>1 DEF Fill
<1>2. r \in Runs /\ RunOK(r) /\ (r.undo => r.text # None)
  BY <1>1, RunType, RunFacts DEF EditsInv
<1>3. r.todo # <<>> /\ r.next \in {"relock", "restore", "fetch", "written"}
  BY <1>1, <1>2, WritePhases
<1>4. /\ w \in Runs /\ w.at = (IF Len(r.todo) = 1 THEN r.next ELSE "write")
      /\ Head(r.todo) \in Puts
      /\ w.cmd = r.cmd /\ w.text = r.text /\ w.lock = r.lock /\ w.graph = r.graph
      /\ w.undo = r.undo /\ w.before = r.before
  BY <1>2, <1>3, ContinuedFields
<1>5. w.at # "idle" /\ RunOK(w) /\ Heading(w) = r.next /\ ~w.open
  BY <1>1, <1>2, ContinuedOK
<1>6. Head(r.todo).file \in Files /\ Head(r.todo).text \in Texts(Head(r.todo).file)
  BY <1>4, PutsHold
<1>7. /\ DOMAIN files' = Files /\ \A f \in Files : files'[f] \in Texts(f)
      /\ files'[Head(r.todo).file] = Head(r.todo).text
      /\ \A g \in Files \ {Head(r.todo).file} : files'[g] = files[g]
  BY <1>1, <1>6, FilesPut DEF EditsInv
<1>8. ASSUME w.before # None
      PROVE  proc[p].before # None /\ Facts(w)'
  <2>1. Facts(r)
    BY <1>8, <1>1, <1>4, RunFacts
  <2>2. \A f \in Files : \A t : Pending(r, f, t) => Pending(w, f, t)'
    <3> SUFFICES ASSUME NEW f \in Files, NEW t, Pending(r, f, t)
                 PROVE  Pending(w, f, t)'
      OBVIOUS
    <3>1. Head(r.todo).file = f /\ Head(r.todo).text = t /\ Len(r.todo) = 1
      BY <1>1, PendingFields
    <3>2. w.at # "write" /\ files'[f] = t
      BY <3>1, <1>3, <1>4, <1>7
    <3>3. QED
      BY <3>2 DEF Pending
  <2>3. CASE r.cmd.do \in EditCommands \cup Workflows
    BY <1>1, <1>2, <1>4, <1>5, <1>7, <2>1, <2>2, <2>3, <1>8, WriteFacts
  <2>4. CASE r.cmd.do \notin EditCommands \cup Workflows
    BY <1>4, <1>8, <2>4, NoFacts
  <2>5. QED
    BY <2>3, <2>4, <1>8, <1>4
<1>9. cached' \subseteq GitPackages
  BY <1>1 DEF EditsInv, TypeOK
<1>10. QED
  BY <1>1, <1>2, <1>4, <1>5, <1>7, <1>8, <1>9, Moves

\* FillIsLost: the text is lost and the program does not see it.
LEMMA FillIsLostHolds ==
  ASSUME EditsInv, NEW p \in Procs, FillIsLost(p)
  PROVE  EditsInv'
<1> PICK r : r = proc[p]
  OBVIOUS
<1> PICK w : w = [Continued(r) EXCEPT !.before = None]
  OBVIOUS
<1>1. /\ r.at = "write" /\ proc' = [proc EXCEPT ![p] = w]
      /\ UNCHANGED <<files, paths, cached, runs, moves, done>>
  <2>1. proc \in [Procs -> Runs]
    BY DEF EditsInv, TypeOK
  <2>2. QED
    BY <2>1 DEF FillIsLost
<1>2. r \in Runs /\ RunOK(r) /\ (r.undo => r.text # None)
  BY <1>1, RunType, RunFacts DEF EditsInv
<1>3. r.todo # <<>>
  BY <1>1, <1>2, WritePhases
<1>4. /\ Continued(r) \in Runs /\ Continued(r).text = r.text /\ Continued(r).undo = r.undo
      /\ Continued(r).at # "idle" /\ RunOK(Continued(r)) /\ ~Continued(r).open
  BY <1>1, <1>2, <1>3, ContinuedFields, ContinuedOK
<1>5. /\ w \in Runs /\ w.before = None /\ w.at = Continued(r).at
      /\ w.todo = Continued(r).todo /\ w.next = Continued(r).next /\ w.cmd = Continued(r).cmd
      /\ w.text = Continued(r).text /\ w.open = Continued(r).open
      /\ w.undo = Continued(r).undo
  BY <1>4, DisturbedFields
<1>6. RunOK(w)
  BY <1>4, <1>5 DEF RunOK, Heading
<1>7. /\ DOMAIN files' = Files /\ \A f \in Files : files'[f] \in Texts(f)
      /\ cached' \subseteq GitPackages
  BY <1>1 DEF EditsInv, TypeOK
<1>8. QED
  BY <1>1, <1>2, <1>4, <1>5, <1>6, <1>7, Moves
-----------------------------------------------------------------------------
(* Resolution, and what a command leaves                                    *)

\* A resolution that succeeds gives the lockfile of the manifest.
LEMMA ResolvesFacts ==
  ASSUME TypeOK, NEW offline, Resolves(offline), UNCHANGED paths
  PROVE  /\ files["manifest"] \in SUBSET Dependencies /\ Generated \in Texts("lock")
         /\ cached' \subseteq GitPackages
         /\ \A graph : graph = Generated /\ files'["manifest"] = files["manifest"] =>
                         Worked(graph)'
<1> PICK m : m = files["manifest"]
  OBVIOUS
<1>1. Parses(m) /\ ~Broken(m) /\ cached' = cached \cup Missing(m)
  BY DEF Resolves
<1>2. m \in SUBSET Dependencies
  BY <1>1, FileType, ParsedType
<1>3. Generated \in Texts("lock")
  BY <1>1, <1>2, LockOfType DEF Generated, TypeOK
<1>4. cached' \subseteq GitPackages
  BY <1>1, <1>2, MissingType DEF TypeOK
<1>5. ASSUME NEW graph, graph = Generated, files'["manifest"] = files["manifest"]
      PROVE  Worked(graph)'
  <2>1. LockOf(m)' = LockOf(m)
    BY DEF LockOf, Version, Named
  <2>2. graph = LockOf(m) /\ files'["manifest"] = m
    BY <1>5 DEF Generated
  <2>3. QED
    BY <1>1, <2>1, <2>2 DEF Worked
<1>6. QED
  BY <1>2, <1>3, <1>4, <1>5

\* One that fails may have fetched something.
LEMMA ResolveFailsFacts ==
  ASSUME TypeOK, NEW offline, ResolveFails(offline)
  PROVE  cached' \subseteq GitPackages
<1> PICK m : m = files["manifest"]
  OBVIOUS
<1>1. CASE UNCHANGED cached
  BY <1>1 DEF TypeOK
<1>2. CASE Parses(m) /\ \E got \in SUBSET (IF offline THEN {} ELSE Missing(m)) :
                          cached' = cached \cup got
  <2>1. Missing(m) \subseteq GitPackages
    BY <1>2, FileType, ParsedType, MissingType
  <2>2. QED
    BY <1>2, <2>1 DEF TypeOK
<1>3. QED
  BY <1>1, <1>2 DEF ResolveFails

\* A command that failed leaves both files as they were, if it is one that edits them.
LEMMA FailsFacts ==
  ASSUME NEW p \in Procs, NEW graph, Ends(p, FALSE, graph), proc[p].before # None,
         proc[p].cmd.do \in EditCommands =>
           /\ files'["manifest"] = proc[p].before["manifest"]
           /\ files'["lock"] = proc[p].before["lock"]
  PROVE  EditIsAllOrNothing' /\ LockedRunsUseTheLock'
<1>1. done' = [cmd |-> proc[p].cmd, ok |-> FALSE, graph |-> graph, before |-> proc[p].before]
  BY DEF Ends
<1>2. /\ done'.cmd = proc[p].cmd /\ ~done'.ok /\ done'.before = proc[p].before
  BY <1>1
<1>3. EditIsAllOrNothing'
  BY <1>2 DEF EditIsAllOrNothing, EditCommands
<1>4. LockedRunsUseTheLock'
  BY <1>2 DEF LockedRunsUseTheLock
<1>5. QED
  BY <1>3, <1>4

\* What the commands that edit do to the manifest.
LEMMA AddedOne ==
  ASSUME NEW c \in Commands, NEW was \in SUBSET Dependencies, c.do = "add", CanEdit(was, c)
  PROVE  LET now == Edited(was, c)
         IN  /\ was \subseteq now
             /\ \E d \in now : now \ was = {d} /\ d.package = c.package
             /\ \A d, e \in now : d.alias = c.alias /\ e.alias = c.alias => d = e
<1> DEFINE new == [alias |-> c.alias, package |-> c.package, section |-> c.section]
<1>1. Edited(was, c) = was \cup {new}
  BY DEF Edited, Added
<1>2. \A d \in was : d.alias # c.alias /\ d.package # c.package
  BY DEF CanEdit, CanAdd
<1>3. new.alias = c.alias /\ new.package = c.package
  OBVIOUS
<1> HIDE DEF new
<1>4. new \notin was
  BY <1>2, <1>3
<1>5. QED
  BY <1>1, <1>2, <1>3, <1>4

\* A removal that is not refused takes exactly one dependency.
LEMMA RemovedOne ==
  ASSUME NEW c \in Commands, NEW was \in SUBSET Dependencies, c.do = "remove", CanEdit(was, c)
  PROVE  LET now == Edited(was, c)
         IN  /\ now \subseteq was
             /\ \E d \in was : was \ now = {d} /\ c.target \in {d.alias, d.package}
<1> DEFINE found == FindMatches(was, c)
<1>1. Edited(was, c) = was \ found /\ Cardinality(found) = 1
  BY DEF Edited, CanEdit
<1>2. found \subseteq was /\ \A d \in found : c.target \in {d.alias, d.package}
  BY DEF FindMatches
<1> HIDE DEF found
<1>3. IsFiniteSet(found)
  BY <1>2, EditsAssumption, FS_Subset
<1>4. PICK d : found = {d}
  BY <1>1, <1>3, FS_Singleton
<1>5. QED
  BY <1>1, <1>2, <1>4

\* A command that succeeds worked with what resolution gives, and with the
\* lockfile as far as it promises that.
LEMMA EndsFacts ==
  ASSUME TypeOK, NEW p \in Procs, NEW graph, Ends(p, TRUE, graph), proc[p].before # None,
         RunOK(proc[p]), proc[p].at # "idle",
         proc[p].cmd.do \in EditCommands \cup Workflows => Worked(graph)',
         proc[p].cmd.do \in EditCommands \cup {"lock", "sync"} => files'["lock"] = graph,
         proc[p].cmd.do \in Workflows /\ proc[p].cmd.locked => files'["lock"] = graph,
         proc[p].cmd.do = "check" => files'["lock"] \in {None, graph},
         proc[p].cmd.do \in EditCommands =>
           /\ CanEdit(proc[p].before["manifest"], proc[p].cmd)
           /\ files'["manifest"] = Edited(proc[p].before["manifest"], proc[p].cmd)
  PROVE  EditIsAllOrNothing' /\ LockedRunsUseTheLock'
<1> PICK c, before : c = proc[p].cmd /\ before = proc[p].before
  OBVIOUS
<1>1. done' = [cmd |-> c, ok |-> TRUE, graph |-> graph, before |-> before]
  BY DEF Ends
<1>2. done'.cmd = c /\ done'.ok /\ done'.graph = graph /\ done'.before = before
  BY <1>1
<1>3. c \in Commands /\ c.do \in Kinds
  BY DEF RunOK
<1>4. EditIsAllOrNothing'
  <2> SUFFICES ASSUME c.do \in EditCommands
               PROVE  EditIsAllOrNothing'
    BY <1>2 DEF EditIsAllOrNothing, EditCommands
  <2> PICK was : was = before["manifest"]
    OBVIOUS
  <2> PICK now : now = Edited(was, c)
    OBVIOUS
  <2>1. CanEdit(was, c) /\ files'["manifest"] = now
    OBVIOUS
  <2>2. was \in SUBSET Dependencies
    <3>1. before \in [manifest : Texts("manifest"), lock : Texts("lock")]
      BY RunType DEF Runs
    <3>2. QED
      BY <2>1, <3>1, ParsedType DEF CanEdit
  <2>3. files'["lock"] = graph /\ LockOf(now)' = graph
    BY <2>1 DEF Worked
  <2>4. c.do = "add" => /\ was \subseteq now
                        /\ \E d \in now : now \ was = {d} /\ d.package = c.package
                        /\ \A d, e \in now : d.alias = c.alias /\ e.alias = c.alias => d = e
    BY <1>3, <2>1, <2>2, AddedOne
  <2>5. c.do = "remove" => /\ now \subseteq was
                           /\ \E d \in was : was \ now = {d} /\ c.target \in {d.alias, d.package}
    BY <1>3, <2>1, <2>2, RemovedOne
  <2>6. QED
    BY <1>2, <2>1, <2>3, <2>4, <2>5 DEF EditIsAllOrNothing
<1>5. LockedRunsUseTheLock'
  BY <1>2, <1>3 DEF LockedRunsUseTheLock, EditCommands, Kinds
<1>6. QED
  BY <1>4, <1>5

\* The files have their types after a step that does not touch them.
LEMMA SameFiles ==
  ASSUME TypeOK, UNCHANGED files
  PROVE  DOMAIN files' = Files /\ \A f \in Files : files'[f] \in Texts(f)
BY DEF TypeOK

\* What a run knows that is not writing, and remembers its start.
LEMMA KnownFacts ==
  ASSUME EditsInv, NEW p \in Procs, proc[p].at \notin {"idle", "write"}
  PROVE  LET r == proc[p]
             was == r.before["manifest"]
             lock0 == r.before["lock"]
         IN  /\ r \in Runs /\ ~r.open /\ RunOK(r) /\ Heading(r) = r.at
             /\ r.undo => r.text # None
             /\ r.cmd \in Commands /\ r.cmd.do \in Kinds /\ r.at \in Stages(r.cmd)
             /\ r.before # None => Facts(r)
             /\ r.before # None /\ r.cmd.do \in EditCommands =>
                  /\ r.at # "read" => r.text = was /\ r.lock = lock0
                  /\ r.at \in {"read", "edit"} =>
                       files["manifest"] = was /\ files["lock"] = lock0 /\ ~r.undo
                  /\ r.at = "relock" => /\ files["lock"] = lock0 /\ ~r.undo /\ CanEdit(was, r.cmd)
                                        /\ files["manifest"] = Edited(was, r.cmd)
                  /\ r.at = "restore" => r.undo /\ files["manifest"] = was
                  /\ r.at = "written" /\ r.undo =>
                       files["manifest"] = was /\ files["lock"] = lock0
                  /\ r.at = "written" /\ ~r.undo =>
                       /\ CanEdit(was, r.cmd) /\ files["manifest"] = Edited(was, r.cmd)
                       /\ Worked(r.graph) /\ files["lock"] = r.graph
             /\ r.before # None /\ r.cmd.do \in Workflows =>
                  /\ ~r.undo
                  /\ r.at = "resolve" /\ r.cmd.locked => files["lock"] = Generated
                  /\ r.at \in {"fetch", "written"} => Worked(r.graph) /\ files["lock"] = r.graph
<1> PICK r : r = proc[p]
  OBVIOUS
<1>1. r \in Runs /\ ~r.open /\ (r.undo => r.text # None)
  BY RunType DEF EditsInv
<1>2. RunOK(r) /\ (r.before # None => Facts(r))
  BY RunFacts
<1>3. Heading(r) = r.at
  BY DEF Heading
<1>4. r.cmd \in Commands /\ r.cmd.do \in Kinds /\ r.at \in Stages(r.cmd)
  BY <1>2, <1>3 DEF RunOK
<1>5. \A f, t : Pending(r, f, t) => files[f] = t
  BY DEF Pending
<1>6. r.before # None /\ r.cmd.do \in EditCommands => EditFacts(r)
  BY <1>2 DEF Facts
<1>7. r.before # None /\ r.cmd.do \in Workflows => UseFacts(r)
  BY <1>2 DEF Facts
<1>8. r.before # None /\ r.cmd.do \in EditCommands =>
        LET was == r.before["manifest"]
            lock0 == r.before["lock"]
        IN  /\ r.at # "read" => r.text = was /\ r.lock = lock0
            /\ r.at \in {"read", "edit"} =>
                 files["manifest"] = was /\ files["lock"] = lock0 /\ ~r.undo
            /\ r.at = "relock" => /\ files["lock"] = lock0 /\ ~r.undo /\ CanEdit(was, r.cmd)
                                  /\ files["manifest"] = Edited(was, r.cmd)
            /\ r.at = "restore" => r.undo /\ files["manifest"] = was
            /\ r.at = "written" /\ r.undo => files["manifest"] = was /\ files["lock"] = lock0
            /\ r.at = "written" /\ ~r.undo =>
                 /\ CanEdit(was, r.cmd) /\ files["manifest"] = Edited(was, r.cmd)
                 /\ Worked(r.graph) /\ files["lock"] = r.graph
  BY <1>3, <1>5, <1>6 DEF EditFacts
<1>9. r.before # None /\ r.cmd.do \in Workflows =>
        /\ ~r.undo
        /\ r.at = "resolve" /\ r.cmd.locked => files["lock"] = Generated
        /\ r.at \in {"fetch", "written"} => Worked(r.graph) /\ files["lock"] = r.graph
  BY <1>3, <1>5, <1>7 DEF UseFacts
<1>10. QED
  BY <1>1, <1>2, <1>3, <1>4, <1>8, <1>9

\* Written: a command that has written all ends; a rolled back one has failed.
LEMMA WrittenHolds ==
  ASSUME EditsInv, NEW p \in Procs, Written(p)
  PROVE  EditsInv'
<1> PICK r : r = proc[p]
  OBVIOUS
<1>1. /\ r.at = "written" /\ Ends(p, ~r.undo, r.graph)
      /\ UNCHANGED <<files, paths, cached, runs, moves>>
  BY DEF Written
<1>2. r \in Runs /\ RunOK(r)
  BY <1>1, KnownFacts
<1>3. Worked(r.graph) => Worked(r.graph)'
  BY <1>1, WorkedStays
<1>4. ASSUME proc[p].before # None
      PROVE  EditIsAllOrNothing' /\ LockedRunsUseTheLock'
  <2>1. CASE r.undo
    <3>1. Ends(p, FALSE, r.graph)
      BY <1>1, <2>1
    <3>2. r.cmd.do \in EditCommands =>
            files'["manifest"] = r.before["manifest"] /\ files'["lock"] = r.before["lock"]
      BY <1>1, <1>4, <2>1, KnownFacts
    <3>3. QED
      BY <3>1, <3>2, <1>4, FailsFacts
  <2>2. CASE ~r.undo
    <3>1. Ends(p, TRUE, r.graph)
      BY <1>1, <2>2
    <3>2. r.cmd.do \in EditCommands =>
            /\ CanEdit(r.before["manifest"], r.cmd)
            /\ files'["manifest"] = Edited(r.before["manifest"], r.cmd)
            /\ Worked(r.graph) /\ files'["lock"] = r.graph
      BY <1>1, <1>4, <2>2, KnownFacts
    <3>3. r.cmd.do \in Workflows => Worked(r.graph) /\ files'["lock"] = r.graph
      BY <1>1, <1>4, KnownFacts
    <3>4. "lock" \in Workflows /\ "sync" \in Workflows /\ "check" \in Workflows
      BY DEF Workflows
    <3>5. QED
      BY <3>1, <3>2, <3>3, <3>4, <1>1, <1>2, <1>3, <1>4, EndsFacts DEF EditsInv
  <2>3. QED
    BY <2>1, <2>2
<1>5. cached' \subseteq GitPackages
  BY <1>1 DEF EditsInv, TypeOK
<1>6. QED
  BY <1>1, <1>4, <1>5, SameFiles, Finishes DEF EditsInv

\* Initialize: the files of a new project are to be written.
LEMMA InitializeHolds ==
  ASSUME EditsInv, NEW p \in Procs, Initialize(p)
  PROVE  EditsInv'
<1> PICK r : r = proc[p]
  OBVIOUS
<1> PICK todo : todo = <<Put("manifest", {}), Put("source", Scaffold)>>
  OBVIOUS
<1> PICK w : w = Writes(r, todo, "written")
  OBVIOUS
<1>1. /\ r.at = "init" /\ proc' = [proc EXCEPT ![p] = w]
      /\ UNCHANGED <<files, paths, cached, runs, moves, done>>
  <2>1. proc \in [Procs -> Runs]
    BY DEF EditsInv, TypeOK
  <2>2. QED
    BY <2>1 DEF Initialize
<1>2. /\ r \in Runs /\ ~r.open /\ RunOK(r) /\ (r.undo => r.text # None)
      /\ r.cmd \in Commands /\ r.cmd.do \in Kinds /\ r.at \in Stages(r.cmd)
  BY <1>1, KnownFacts
<1>3. todo \in Seq(Puts) /\ todo # <<>>
  <2>1. Put("manifest", {}) \in Puts
    BY PutType, TextsAre DEF Files
  <2>2. Put("source", Scaffold) \in Puts
    BY PutType, TextsAre DEF Files
  <2> PICK a, b : a = Put("manifest", {}) /\ b = Put("source", Scaffold)
    OBVIOUS
  <2>3. todo = <<a, b>> /\ a \in Puts /\ b \in Puts
    BY <2>1, <2>2
  <2>4. QED
    BY <2>3
<1>4. /\ w \in Runs /\ w.at = "write" /\ w.todo = todo /\ w.next = "written" /\ ~w.open
      /\ w.cmd = r.cmd /\ w.text = r.text /\ w.undo = r.undo /\ w.before = r.before
  BY <1>2, <1>3 DEF Writes, Runs, Phases
<1>5. r.cmd.do \in {"new", "init"}
  BY <1>1, <1>2 DEF Stages, EditCommands
<1>6. RunOK(w)
  BY <1>2, <1>3, <1>4, <1>5 DEF RunOK, Heading, Stages, EditCommands
<1>7. Facts(w)'
  BY <1>4, <1>5, NoFacts DEF EditCommands, Workflows
<1>8. cached' \subseteq GitPackages
  BY <1>1 DEF EditsInv, TypeOK
<1>9. DOMAIN files' = Files /\ \A f \in Files : files'[f] \in Texts(f)
  BY <1>1, SameFiles DEF EditsInv
<1>10. w.at # "idle" /\ (w.undo => w.text # None)
  BY <1>2, <1>4
<1>11. r.at # "idle"
  BY <1>1
<1>12. QED
  BY <1>1, <1>4, <1>6, <1>7, <1>8, <1>9, <1>10, <1>11, Moves

\* A command that ends without success before it wrote anything, or after it
\* put everything back.
LEMMA FailsHolds ==
  ASSUME EditsInv, NEW p \in Procs, proc[p].at # "idle", Fails(p),
         UNCHANGED <<paths, runs, moves>>, cached' \subseteq GitPackages,
         DOMAIN files' = Files, \A f \in Files : files'[f] \in Texts(f),
         proc[p].before # None /\ proc[p].cmd.do \in EditCommands =>
           /\ files'["manifest"] = proc[p].before["manifest"]
           /\ files'["lock"] = proc[p].before["lock"]
  PROVE  EditsInv'
<1>1. Ends(p, FALSE, None)
  BY DEF Fails
<1>2. QED
  BY <1>1, FailsFacts, Finishes

\* InitializeFails: there is a project already.
LEMMA InitializeFailsHolds ==
  ASSUME EditsInv, NEW p \in Procs, InitializeFails(p)
  PROVE  EditsInv'
<1>1. /\ proc[p].at = "init" /\ Fails(p)
      /\ UNCHANGED <<files, paths, cached, runs, moves>>
  BY DEF InitializeFails
<1>2. proc[p].cmd.do \notin EditCommands
  <2>1. "init" \in Stages(proc[p].cmd)
    BY <1>1, KnownFacts
  <2>2. QED
    BY <2>1 DEF Stages, EditCommands
<1>3. cached' \subseteq GitPackages
  BY <1>1 DEF EditsInv, TypeOK
<1>4. QED
  BY <1>1, <1>2, <1>3, SameFiles, FailsHolds DEF EditsInv
-----------------------------------------------------------------------------
(* add and remove                                                           *)

\* ReadOriginals: add and remove keep both files as they find them.
LEMMA ReadOriginalsHolds ==
  ASSUME EditsInv, NEW p \in Procs, ReadOriginals(p)
  PROVE  EditsInv'
<1> PICK r : r = proc[p]
  OBVIOUS
<1> PICK man, lck : man = files["manifest"] /\ lck = files["lock"]
  OBVIOUS
<1> PICK w : w = [r EXCEPT !.at = "edit", !.text = man, !.lock = lck]
  OBVIOUS
<1>1. /\ r.at = "read" /\ man # None /\ proc' = [proc EXCEPT ![p] = w]
      /\ UNCHANGED <<files, paths, cached, runs, moves, done>>
  <2>1. proc \in [Procs -> Runs]
    BY DEF EditsInv, TypeOK
  <2>2. QED
    BY <2>1 DEF ReadOriginals
<1>2. /\ r \in Runs /\ ~r.open /\ RunOK(r) /\ (r.undo => r.text # None)
      /\ r.cmd \in Commands /\ r.cmd.do \in Kinds /\ r.at \in Stages(r.cmd)
  BY <1>1, KnownFacts
<1>3. /\ w \in Runs /\ w.at = "edit" /\ ~w.open /\ w.text = man /\ w.lock = lck
      /\ w.cmd = r.cmd /\ w.undo = r.undo /\ w.before = r.before
  <2>1. man \in Texts("manifest") /\ lck \in Texts("lock")
    BY FileType DEF EditsInv
  <2>2. w \in Runs
    BY <1>2, <2>1 DEF Runs, Phases
  <2>3. /\ w.at = "edit" /\ ~w.open /\ w.text = man /\ w.lock = lck
        /\ w.cmd = r.cmd /\ w.undo = r.undo /\ w.before = r.before
    BY <1>2 DEF Runs
  <2>4. QED
    BY <2>2, <2>3
<1>4. r.cmd.do \in EditCommands
  BY <1>1, <1>2 DEF Stages
<1>5. RunOK(w)
  BY <1>1, <1>2, <1>3, <1>4 DEF RunOK, Heading, Stages, EditCommands
<1>6. ASSUME w.before # None
      PROVE  proc[p].before # None /\ Facts(w)'
  <2>1. r.before["manifest"] = man /\ r.before["lock"] = lck /\ ~r.undo
    BY <1>1, <1>3, <1>4, <1>6, KnownFacts
  <2>2. Heading(w) = "edit"
    BY <1>3 DEF Heading
  <2>3. files'["manifest"] = man /\ files'["lock"] = lck
    BY <1>1
  <2>4. EditFacts(w)'
    BY <1>3, <2>1, <2>2, <2>3 DEF EditFacts
  <2>5. QED
    BY <1>3, <1>4, <1>6, <2>4 DEF Facts, EditCommands, Workflows
<1>7. cached' \subseteq GitPackages
  BY <1>1 DEF EditsInv, TypeOK
<1>8. QED
  BY <1>1, <1>3, <1>5, <1>6, <1>7, SameFiles, Moves DEF EditsInv

\* The manifest with the edit is a manifest.
LEMMA EditedType ==
  ASSUME NEW c \in Commands, c.do \in EditCommands, NEW m \in SUBSET Dependencies
  PROVE  Edited(m, c) \in SUBSET Dependencies
<1>1. CASE c.do = "add"
  BY <1>1, CommandsAssumption DEF Edited, Added, Dependencies
<1>2. CASE c.do = "remove"
  BY <1>2 DEF Edited
<1>3. QED
  BY <1>1, <1>2 DEF EditCommands

\* A list of one write.
LEMMA OnePut ==
  ASSUME NEW f \in Files, NEW t \in Texts(f)
  PROVE  <<Put(f, t)>> \in Seq(Puts) /\ <<Put(f, t)>> # <<>>
<1> PICK put : put = Put(f, t)
  OBVIOUS
<1>1. put \in Puts
  BY PutType
<1>2. <<put>> \in Seq(Puts) /\ <<put>> # <<>>
  BY <1>1
<1>3. QED
  BY <1>2

\* Edit: the manifest is to be written with the edit.
LEMMA EditHolds ==
  ASSUME EditsInv, NEW p \in Procs, Edit(p)
  PROVE  EditsInv'
<1> PICK r : r = proc[p]
  OBVIOUS
<1> PICK man : man = files["manifest"]
  OBVIOUS
<1> PICK now : now = Edited(man, r.cmd)
  OBVIOUS
<1> PICK todo : todo = <<Put("manifest", now)>>
  OBVIOUS
<1> PICK w : w = Writes(r, todo, "relock")
  OBVIOUS
<1>1. /\ r.at = "edit" /\ CanEdit(man, r.cmd) /\ proc' = [proc EXCEPT ![p] = w]
      /\ UNCHANGED <<files, paths, cached, runs, moves, done>>
  <2>1. proc \in [Procs -> Runs]
    BY DEF EditsInv, TypeOK
  <2>2. QED
    BY <2>1 DEF Edit
<1>2. /\ r \in Runs /\ ~r.open /\ RunOK(r) /\ (r.undo => r.text # None) /\ Heading(r) = r.at
      /\ r.cmd \in Commands /\ r.cmd.do \in Kinds /\ r.at \in Stages(r.cmd)
  BY <1>1, KnownFacts
<1>3. r.cmd.do \in EditCommands
  BY <1>1, <1>2 DEF Stages
<1>4. now \in Texts("manifest")
  <2>1. man \in SUBSET Dependencies
    BY <1>1, FileType, ParsedType DEF EditsInv, CanEdit
  <2>2. now \in SUBSET Dependencies
    BY <2>1, <1>2, <1>3, EditedType
  <2>3. QED
    BY <2>2, TextsAre
<1>5. /\ w \in Runs /\ w.at = "write" /\ w.todo = todo /\ todo # <<>>
      /\ w.next = "relock" /\ ~w.open
      /\ w.cmd = r.cmd /\ w.text = r.text /\ w.lock = r.lock /\ w.undo = r.undo
      /\ w.before = r.before
  <2>1. todo \in Seq(Puts) /\ todo # <<>>
    BY <1>4, OnePut DEF Files
  <2>2. QED
    BY <1>2, <2>1 DEF Writes, Runs, Phases
<1>6. RunOK(w)
  BY <1>1, <1>2, <1>3, <1>5 DEF RunOK, Heading, Stages, EditCommands
<1>7. ASSUME w.before # None
      PROVE  proc[p].before # None /\ Facts(w)'
  <2>1. /\ r.before["manifest"] = man /\ r.before["lock"] = files["lock"] /\ ~r.undo
        /\ r.text = man /\ r.lock = r.before["lock"]
    BY <1>1, <1>3, <1>5, <1>7, KnownFacts
  <2>2. Heading(w) = "relock"
    BY <1>5 DEF Heading
  <2>3. Pending(w, "manifest", now)'
    BY <1>5 DEF Pending
  <2>4. EditFacts(w)'
    BY <1>1, <1>5, <2>1, <2>2, <2>3 DEF EditFacts
  <2>5. QED
    BY <1>3, <1>5, <1>7, <2>4 DEF Facts, EditCommands, Workflows
<1>8. cached' \subseteq GitPackages
  BY <1>1 DEF EditsInv, TypeOK
<1>9. QED
  BY <1>1, <1>2, <1>5, <1>6, <1>7, <1>8, SameFiles, Moves DEF EditsInv

\* EditFails: there is no manifest, or the edit is refused.
LEMMA EditFailsHolds ==
  ASSUME EditsInv, NEW p \in Procs, EditFails(p)
  PROVE  EditsInv'
<1>1. /\ proc[p].at \in {"read", "edit"} /\ Fails(p)
      /\ UNCHANGED <<files, paths, cached, runs, moves>>
  BY DEF EditFails
<1>2. proc[p].before # None /\ proc[p].cmd.do \in EditCommands =>
        /\ files'["manifest"] = proc[p].before["manifest"]
        /\ files'["lock"] = proc[p].before["lock"]
  BY <1>1, KnownFacts
<1>3. cached' \subseteq GitPackages
  BY <1>1 DEF EditsInv, TypeOK
<1>4. QED
  BY <1>1, <1>2, <1>3, SameFiles, FailsHolds DEF EditsInv

\* Relock: the new manifest resolves, the lockfile is to be written.
LEMMA RelockHolds ==
  ASSUME EditsInv, NEW p \in Procs, Relock(p)
  PROVE  EditsInv'
<1> PICK r : r = proc[p]
  OBVIOUS
<1> PICK graph : graph = Generated
  OBVIOUS
<1> PICK todo : todo = <<Put("lock", graph)>>
  OBVIOUS
<1> PICK v : v = Writes(r, todo, "written")
  OBVIOUS
<1> PICK w : w = [v EXCEPT !.graph = graph]
  OBVIOUS
<1>1. /\ r.at = "relock" /\ Resolves(FALSE) /\ proc' = [proc EXCEPT ![p] = w]
      /\ UNCHANGED <<files, paths, runs, moves, done>>
  <2>1. proc \in [Procs -> Runs]
    BY DEF EditsInv, TypeOK
  <2>2. QED
    BY <2>1 DEF Relock
<1>2. /\ r \in Runs /\ ~r.open /\ RunOK(r) /\ (r.undo => r.text # None)
      /\ r.cmd \in Commands /\ r.cmd.do \in Kinds /\ r.at \in Stages(r.cmd)
  BY <1>1, KnownFacts
<1>3. r.cmd.do \in EditCommands
  BY <1>1, <1>2 DEF Stages
<1>4. graph \in Texts("lock") /\ cached' \subseteq GitPackages /\ Worked(graph)'
  BY <1>1, ResolvesFacts DEF EditsInv
<1>5. /\ v \in Runs /\ v.at = "write" /\ v.todo = todo /\ todo # <<>>
      /\ v.next = "written" /\ ~v.open
      /\ v.cmd = r.cmd /\ v.text = r.text /\ v.lock = r.lock /\ v.undo = r.undo
      /\ v.before = r.before
  <2>1. todo \in Seq(Puts) /\ todo # <<>>
    BY <1>4, OnePut DEF Files
  <2>2. QED
    BY <1>2, <2>1 DEF Writes, Runs, Phases
<1>6. /\ w \in Runs /\ w.at = "write" /\ w.todo = todo /\ todo # <<>>
      /\ w.next = "written" /\ ~w.open /\ w.graph = graph
      /\ w.cmd = r.cmd /\ w.text = r.text /\ w.lock = r.lock /\ w.undo = r.undo
      /\ w.before = r.before
  BY <1>4, <1>5 DEF Runs
<1>7. RunOK(w)
  BY <1>1, <1>2, <1>6 DEF RunOK, Heading, Stages
<1>8. ASSUME w.before # None
      PROVE  proc[p].before # None /\ Facts(w)'
  <2> PICK was : was = r.before["manifest"]
    OBVIOUS
  <2>1. /\ r.text = was /\ r.lock = r.before["lock"] /\ ~r.undo /\ CanEdit(was, r.cmd)
        /\ files["manifest"] = Edited(was, r.cmd)
    BY <1>1, <1>3, <1>6, <1>8, KnownFacts
  <2>2. Heading(w) = "written"
    BY <1>6 DEF Heading
  <2>3. Pending(w, "lock", graph)'
    BY <1>6 DEF Pending
  <2>4. files'["manifest"] = Edited(was, r.cmd)
    BY <1>1, <2>1
  <2>5. EditFacts(w)'
    BY <1>4, <1>6, <2>1, <2>2, <2>3, <2>4 DEF EditFacts
  <2>6. QED
    BY <1>3, <1>6, <1>8, <2>5 DEF Facts, EditCommands, Workflows
<1>9. QED
  BY <1>1, <1>2, <1>4, <1>6, <1>7, <1>8, SameFiles, Moves DEF EditsInv

\* An edit that failed goes back to the manifest it has read.
LEMMA RollsBack ==
  ASSUME EditsInv, NEW p \in Procs, proc[p].at # "idle", proc[p].cmd.do \in EditCommands,
         Heading(proc[p]) # "read", proc' = [proc EXCEPT ![p] = RolledBack(proc[p])],
         UNCHANGED <<files, paths, runs, moves, done>>, cached' \subseteq GitPackages
  PROVE  EditsInv'
<1> PICK r : r = proc[p]
  OBVIOUS
<1> PICK todo : todo = <<Put("manifest", r.text)>>
  OBVIOUS
<1> PICK w : w = RolledBack(r)
  OBVIOUS
<1>1. /\ r \in Runs /\ RunOK(r) /\ r.cmd \in Commands /\ r.cmd.do \in Kinds
      /\ r.before # None => EditFacts(r)
  BY RunType, RunFacts DEF EditsInv, RunOK, Facts
<1>2. r.text # None /\ r.text \in Texts("manifest") /\ None \in Texts("lock")
  BY <1>1, NoneAndTorn DEF RunOK, Runs, Files
<1>3. todo \in Seq(Puts) /\ todo # <<>>
  BY <1>2, OnePut DEF Files
<1> DEFINE v == [r EXCEPT !.at = "write", !.todo = todo, !.next = "restore"]
<1>4. v \in Runs
  BY <1>1, <1>3 DEF Runs, Phases
<1>5. /\ v.at = "write" /\ v.todo = todo /\ v.next = "restore"
      /\ v.cmd = r.cmd /\ v.text = r.text /\ v.lock = r.lock /\ v.before = r.before
  BY <1>1 DEF Runs
<1>6. w = [v EXCEPT !.undo = TRUE, !.open = FALSE, !.graph = None]
  BY DEF RolledBack, Writes
<1> HIDE DEF v
<1>7. w \in Runs
  BY <1>2, <1>4, <1>6 DEF Runs
<1>8. /\ w.at = v.at /\ w.todo = v.todo /\ w.next = v.next /\ ~w.open /\ w.undo
      /\ w.cmd = v.cmd /\ w.text = v.text /\ w.lock = v.lock /\ w.before = v.before
  BY <1>4, <1>6 DEF Runs
<1>9. /\ w.at = "write" /\ w.todo = todo /\ w.next = "restore" /\ ~w.open /\ w.undo
      /\ w.cmd = r.cmd /\ w.text = r.text /\ w.lock = r.lock /\ w.before = r.before
  BY <1>5, <1>8
<1>10. Heading(w) = "restore"
  BY <1>9 DEF Heading
<1>11. RunOK(w)
  BY <1>1, <1>2, <1>3, <1>9, <1>10 DEF RunOK, Stages, EditCommands
<1>12. ASSUME w.before # None
       PROVE  proc[p].before # None /\ Facts(w)'
  <2> PICK was : was = r.before["manifest"]
    OBVIOUS
  <2>1. r.text = was /\ r.lock = r.before["lock"]
    BY <1>1, <1>9, <1>12 DEF EditFacts
  <2>2. Pending(w, "manifest", was)'
    BY <1>9, <2>1 DEF Pending
  <2>3. EditFacts(w)'
    BY <1>9, <1>10, <2>1, <2>2 DEF EditFacts
  <2>4. QED
    BY <1>9, <1>12, <2>3 DEF Facts, EditCommands, Workflows
<1>13. QED
  BY <1>2, <1>3, <1>7, <1>9, <1>11, <1>12, SameFiles, Moves DEF EditsInv

\* RollBack: it does not, the old manifest is to be written.
LEMMA RollBackHolds ==
  ASSUME EditsInv, NEW p \in Procs, RollBack(p)
  PROVE  EditsInv'
<1> PICK r : r = proc[p]
  OBVIOUS
<1>1. /\ r.at = "relock" /\ ResolveFails(FALSE) /\ proc' = [proc EXCEPT ![p] = RolledBack(r)]
      /\ UNCHANGED <<files, paths, runs, moves, done>>
  BY DEF RollBack
<1>2. Heading(r) = r.at /\ r.cmd.do \in EditCommands
  BY <1>1, KnownFacts DEF Stages
<1>3. cached' \subseteq GitPackages
  BY <1>1, ResolveFailsFacts DEF EditsInv
<1>4. QED
  BY <1>1, <1>2, <1>3, RollsBack

\* WriteThrows: an edit is rolled back, anything else ends.
LEMMA WriteThrowsHolds ==
  ASSUME EditsInv, NEW p \in Procs, WriteThrows(p)
  PROVE  EditsInv'
<1> PICK r : r = proc[p]
  OBVIOUS
<1>1. r.at = "write" /\ UNCHANGED <<files, paths, cached, runs, moves>>
  BY DEF WriteThrows
<1>2. cached' \subseteq GitPackages
  BY <1>1 DEF EditsInv, TypeOK
<1>3. CASE r.cmd.do \in {"add", "remove"} /\ ~r.undo
  <2>1. proc' = [proc EXCEPT ![p] = RolledBack(r)] /\ UNCHANGED done
    BY <1>3 DEF WriteThrows
  <2>2. Heading(r) # "read"
    BY <1>1, RunFacts, WritePhases
  <2>3. QED
    BY <1>1, <1>2, <1>3, <2>1, <2>2, RollsBack DEF EditCommands
<1>4. CASE ~(r.cmd.do \in {"add", "remove"} /\ ~r.undo)
  <2>1. Abandons(p)
    BY <1>4 DEF WriteThrows
  <2>2. QED
    BY <1>1, <1>2, <2>1, SameFiles, AbandonsHolds DEF EditsInv
<1>5. QED
  BY <1>3, <1>4

\* RestoreLockfile: then the old lockfile, or none if there was none.
LEMMA RestoreLockfileHolds ==
  ASSUME EditsInv, NEW p \in Procs, RestoreLockfile(p)
  PROVE  EditsInv'
<1> PICK r : r = proc[p]
  OBVIOUS
<1>1. r.at = "restore" /\ UNCHANGED <<paths, cached, runs, moves>>
  BY DEF RestoreLockfile
<1>2. /\ r \in Runs /\ ~r.open /\ RunOK(r) /\ (r.undo => r.text # None)
      /\ r.cmd \in Commands /\ r.cmd.do \in Kinds /\ r.at \in Stages(r.cmd)
  BY <1>1, KnownFacts
<1>3. r.cmd.do \in EditCommands /\ r.lock \in Texts("lock")
  BY <1>1, <1>2 DEF Stages, Runs
<1>4. cached' \subseteq GitPackages
  BY <1>1 DEF EditsInv, TypeOK
<1>5. r.before # None =>
        /\ r.text = r.before["manifest"] /\ r.lock = r.before["lock"]
        /\ files["manifest"] = r.before["manifest"] /\ r.undo
  BY <1>1, <1>3, KnownFacts
<1>6. CASE r.lock # None
  <2> PICK todo : todo = <<Put("lock", r.lock)>>
    OBVIOUS
  <2> PICK w : w = Writes(r, todo, "written")
    OBVIOUS
  <2>1. proc' = [proc EXCEPT ![p] = w] /\ UNCHANGED <<files, done>>
    <3>1. proc \in [Procs -> Runs]
      BY DEF EditsInv, TypeOK
    <3>2. QED
      BY <1>6, <3>1 DEF RestoreLockfile
  <2>2. /\ w \in Runs /\ w.at = "write" /\ w.todo = todo /\ todo # <<>>
        /\ w.next = "written" /\ ~w.open
        /\ w.cmd = r.cmd /\ w.text = r.text /\ w.lock = r.lock /\ w.undo = r.undo
        /\ w.before = r.before
    <3>1. todo \in Seq(Puts) /\ todo # <<>>
      BY <1>3, OnePut DEF Files
    <3>2. QED
      BY <1>2, <3>1 DEF Writes, Runs, Phases
  <2>3. RunOK(w)
    BY <1>1, <1>2, <2>2 DEF RunOK, Heading, Stages
  <2>4. ASSUME w.before # None
        PROVE  proc[p].before # None /\ Facts(w)'
    <3>1. Heading(w) = "written"
      BY <2>2 DEF Heading
    <3>2. Pending(w, "lock", r.lock)'
      BY <2>2 DEF Pending
    <3>3. EditFacts(w)'
      BY <1>5, <2>1, <2>2, <2>4, <3>1, <3>2 DEF EditFacts
    <3>4. QED
      BY <1>3, <2>2, <2>4, <3>3 DEF Facts, EditCommands, Workflows
  <2>5. QED
    BY <1>1, <1>2, <1>4, <2>1, <2>2, <2>3, <2>4, SameFiles, Moves DEF EditsInv
<1>7. CASE r.lock = None
  <2>1. CASE files' = [files EXCEPT !["lock"] = None] /\ Fails(p)
    <3>1. /\ DOMAIN files' = Files /\ \A f \in Files : files'[f] \in Texts(f)
          /\ files'["lock"] = None /\ files'["manifest"] = files["manifest"]
      BY <2>1, FilesPut, NoneAndTorn DEF EditsInv, Files
    <3>2. QED
      BY <1>1, <1>4, <1>5, <1>7, <2>1, <3>1, FailsHolds
  <2>2. CASE UNCHANGED files /\ Abandons(p)
    BY <1>1, <1>4, <2>2, SameFiles, AbandonsHolds DEF EditsInv
  <2>3. QED
    BY <1>7, <2>1, <2>2 DEF RestoreLockfile
<1>8. QED
  BY <1>6, <1>7
-----------------------------------------------------------------------------
(* The other commands                                                       *)

\* The same manifest and the same packages give the same lockfile.
LEMMA GeneratedStays ==
  ASSUME UNCHANGED <<files, paths>>
  PROVE  Generated' = Generated
BY DEF Generated, LockOf, Version, Named

\* Only the commands that resolve get this far.
LEMMA WorkflowPhases ==
  ASSUME NEW r, RunOK(r), r.at \in {"policy", "resolve", "fetch"}
  PROVE  r.cmd.do \in Workflows /\ r.cmd.do \notin EditCommands /\ r.cmd \in Commands
<1>1. Heading(r) = r.at
  BY DEF Heading
<1>2. r.cmd \in Commands /\ r.at \in Stages(r.cmd)
  BY <1>1 DEF RunOK
<1>3. r.cmd.do \in Workflows
  BY <1>2 DEF Stages
<1>4. QED
  BY <1>2, <1>3 DEF Workflows, EditCommands

\* Policy: the lockfile is the one the options ask for.
LEMMA PolicyHolds ==
  ASSUME EditsInv, NEW p \in Procs, Policy(p)
  PROVE  EditsInv'
<1> PICK r : r = proc[p]
  OBVIOUS
<1> PICK w : w = [r EXCEPT !.at = "resolve"]
  OBVIOUS
<1>1. /\ r.at = "policy" /\ proc' = [proc EXCEPT ![p] = w]
      /\ UNCHANGED <<files, paths, runs, moves, done>>
      /\ r.cmd.locked => files["lock"] = Generated
  <2>1. proc \in [Procs -> Runs]
    BY DEF EditsInv, TypeOK
  <2>2. QED
    BY <2>1 DEF Policy, Goto
<1>2. r \in Runs /\ ~r.open /\ RunOK(r) /\ (r.undo => r.text # None)
  BY <1>1, KnownFacts
<1>3. r.cmd.do \in Workflows /\ r.cmd.do \notin EditCommands /\ r.cmd \in Commands
  BY <1>1, <1>2, WorkflowPhases
<1>4. /\ w \in Runs /\ w.at = "resolve" /\ ~w.open /\ w.text = r.text /\ w.cmd = r.cmd
      /\ w.undo = r.undo /\ w.before = r.before
  BY <1>2 DEF Runs, Phases
<1>5. RunOK(w)
  BY <1>3, <1>4 DEF RunOK, Heading, Stages, Kinds, Workflows
<1>6. cached' \subseteq GitPackages
  <2>1. CASE r.cmd.locked
    <3>1. Resolves(r.cmd.offline)
      BY <2>1 DEF Policy
    <3>2. QED
      BY <1>1, <3>1, ResolvesFacts DEF EditsInv
  <2>2. CASE ~r.cmd.locked
    BY <2>2 DEF Policy, EditsInv, TypeOK
  <2>3. QED
    BY <2>1, <2>2
<1>7. ASSUME w.before # None
      PROVE  proc[p].before # None /\ Facts(w)'
  <2>1. ~r.undo
    BY <1>1, <1>3, <1>4, <1>7, KnownFacts
  <2>2. Heading(w) = "resolve"
    BY <1>4 DEF Heading
  <2>3. r.cmd.locked => files'["lock"] = Generated'
    BY <1>1, GeneratedStays
  <2>4. UseFacts(w)'
    BY <1>4, <2>1, <2>2, <2>3 DEF UseFacts
  <2>5. QED
    BY <1>3, <1>4, <1>7, <2>4 DEF Facts
<1>8. QED
  BY <1>1, <1>2, <1>4, <1>5, <1>6, <1>7, SameFiles, Moves DEF EditsInv

\* PolicyFails: it is not.
LEMMA PolicyFailsHolds ==
  ASSUME EditsInv, NEW p \in Procs, PolicyFails(p)
  PROVE  EditsInv'
<1>1. /\ proc[p].at = "policy" /\ Fails(p)
      /\ UNCHANGED <<files, paths, runs, moves>>
  BY DEF PolicyFails
<1>2. proc[p].cmd.do \notin EditCommands
  BY <1>1, KnownFacts, WorkflowPhases
<1>3. cached' \subseteq GitPackages
  <2>1. CASE UNCHANGED cached
    BY <2>1 DEF EditsInv, TypeOK
  <2>2. CASE ResolveFails(proc[p].cmd.offline)
    BY <2>2, ResolveFailsFacts DEF EditsInv
  <2>3. CASE Resolves(proc[p].cmd.offline)
    BY <2>3, <1>1, ResolvesFacts DEF EditsInv
  <2>4. QED
    BY <2>1, <2>2, <2>3 DEF PolicyFails
<1>4. QED
  BY <1>1, <1>2, <1>3, SameFiles, FailsHolds DEF EditsInv

\* Use: the command resolves and works with that; some write the lockfile first.
LEMMA UseHolds ==
  ASSUME EditsInv, NEW p \in Procs, Use(p)
  PROVE  EditsInv'
<1> PICK r : r = proc[p]
  OBVIOUS
<1> PICK c : c = r.cmd
  OBVIOUS
<1> PICK graph : graph = Generated
  OBVIOUS
<1>1. /\ r.at = "resolve" /\ Resolves(c.offline) /\ ~LockIsRefused(c)
      /\ UNCHANGED <<files, paths, runs, moves>>
  BY DEF Use
<1>2. r \in Runs /\ ~r.open /\ RunOK(r) /\ (r.undo => r.text # None)
  BY <1>1, KnownFacts
<1>3. c.do \in Workflows /\ c.do \notin EditCommands /\ c \in Commands
  BY <1>1, <1>2, WorkflowPhases
<1>4. graph \in Texts("lock") /\ cached' \subseteq GitPackages /\ Worked(graph)'
  BY <1>1, ResolvesFacts DEF EditsInv
<1>5. r.before # None => ~r.undo /\ (c.locked => files["lock"] = graph)
  BY <1>1, <1>3, KnownFacts
<1>6. proc \in [Procs -> Runs]
  BY DEF EditsInv, TypeOK
<1>7. CASE WritesLock(c)
  <2> PICK todo : todo = <<Put("lock", graph)>>
    OBVIOUS
  <2> PICK next : next = IF c.do = "sync" THEN "fetch" ELSE "written"
    OBVIOUS
  <2> PICK v : v = Writes(r, todo, next)
    OBVIOUS
  <2> PICK w : w = [v EXCEPT !.graph = graph]
    OBVIOUS
  <2>1. proc' = [proc EXCEPT ![p] = w] /\ UNCHANGED done
    BY <1>6, <1>7 DEF Use
  <2>2. /\ v \in Runs /\ v.at = "write" /\ v.todo = todo /\ todo # <<>> /\ v.next = next
        /\ ~v.open /\ v.cmd = r.cmd /\ v.text = r.text /\ v.undo = r.undo
        /\ v.before = r.before
    <3>1. todo \in Seq(Puts) /\ todo # <<>>
      BY <1>4, OnePut DEF Files
    <3>2. next \in Phases
      BY DEF Phases
    <3>3. v \in Runs
      <4>1. r \in Runs /\ todo \in Seq(Puts) /\ next \in Phases /\ "write" \in Phases
        BY <1>2, <3>1, <3>2 DEF Phases
      <4>2. QED
        BY <4>1 DEF Writes, Runs
    <3>4. /\ v.at = "write" /\ v.todo = todo /\ v.next = next /\ v.open = r.open
          /\ v.cmd = r.cmd /\ v.text = r.text /\ v.undo = r.undo /\ v.before = r.before
      BY <1>2 DEF Writes, Runs
    <3>5. QED
      BY <1>2, <3>1, <3>3, <3>4
  <2>3. /\ w \in Runs /\ w.at = "write" /\ w.todo = todo /\ todo # <<>> /\ w.next = next
        /\ ~w.open /\ w.cmd = r.cmd /\ w.text = r.text /\ w.undo = r.undo
        /\ w.before = r.before /\ w.graph = graph
    <3>1. w \in Runs
      <4>1. v \in Runs /\ graph \in Texts("lock")
        BY <1>4, <2>2
      <4>2. QED
        BY <4>1 DEF Runs
    <3>2. /\ w.at = v.at /\ w.todo = v.todo /\ w.next = v.next /\ w.open = v.open
          /\ w.cmd = v.cmd /\ w.text = v.text /\ w.undo = v.undo /\ w.before = v.before
          /\ w.graph = graph
      BY <2>2 DEF Runs
    <3>3. QED
      BY <2>2, <3>1, <3>2
  <2>4. next \in {"fetch", "written"} /\ Heading(w) = next
    BY <2>3 DEF Heading
  <2>5. RunOK(w)
    BY <1>3, <2>3, <2>4 DEF RunOK, Stages, Kinds, Workflows, EditCommands
  <2>6. ASSUME w.before # None
        PROVE  proc[p].before # None /\ Facts(w)'
    <3>1. Pending(w, "lock", graph)'
      BY <2>3 DEF Pending
    <3>2. UseFacts(w)'
      BY <1>4, <1>5, <2>3, <2>4, <2>6, <3>1 DEF UseFacts
    <3>3. QED
      BY <1>3, <2>3, <2>6, <3>2 DEF Facts
  <2>7. QED
    BY <1>1, <1>2, <1>4, <2>1, <2>3, <2>5, <2>6, SameFiles, Moves DEF EditsInv
<1>8. CASE ~WritesLock(c) /\ c.do = "sync"
  <2> PICK w : w = [r EXCEPT !.at = "fetch", !.graph = graph]
    OBVIOUS
  <2>1. proc' = [proc EXCEPT ![p] = w] /\ UNCHANGED done
    BY <1>6, <1>8 DEF Use
  <2>2. /\ w \in Runs /\ w.at = "fetch" /\ ~w.open /\ w.cmd = r.cmd /\ w.text = r.text
        /\ w.undo = r.undo /\ w.before = r.before /\ w.graph = graph
    BY <1>2, <1>4 DEF Runs, Phases
  <2>3. RunOK(w)
    BY <1>3, <2>2 DEF RunOK, Heading, Stages, Kinds, Workflows
  <2>4. ASSUME w.before # None
        PROVE  proc[p].before # None /\ Facts(w)'
    <3>1. files["lock"] = graph
      BY <1>5, <1>8, <2>2, <2>4 DEF WritesLock
    <3>2. Pending(w, "lock", graph)'
      BY <1>1, <2>2, <3>1 DEF Pending
    <3>3. Heading(w) = "fetch"
      BY <2>2 DEF Heading
    <3>4. UseFacts(w)'
      BY <1>4, <1>5, <2>2, <2>4, <3>2, <3>3 DEF UseFacts
    <3>5. QED
      BY <1>3, <2>2, <2>4, <3>4 DEF Facts
  <2>5. QED
    BY <1>1, <1>2, <1>4, <2>1, <2>2, <2>3, <2>4, SameFiles, Moves DEF EditsInv
<1>9. CASE ~WritesLock(c) /\ c.do # "sync"
  <2>1. Ends(p, TRUE, graph)
    BY <1>9 DEF Use
  <2>2. c.do = "lock" => files["lock"] = graph
    BY <1>1, <1>3, <1>9 DEF LockIsRefused, WritesLock
  <2>3. c.do = "check" => files["lock"] \in {None, graph}
    BY <1>1 DEF LockIsRefused
  <2>4. ASSUME proc[p].before # None
        PROVE  EditIsAllOrNothing' /\ LockedRunsUseTheLock'
    <3>1. c.do \in EditCommands \cup {"lock", "sync"} => files'["lock"] = graph
      BY <1>1, <1>3, <1>9, <2>2
    <3>2. c.locked => files'["lock"] = graph
      BY <1>1, <1>5, <2>4
    <3>3. c.do = "check" => files'["lock"] \in {None, graph}
      BY <1>1, <2>3
    <3>4. QED
      BY <1>1, <1>2, <1>3, <1>4, <2>1, <2>4, <3>1, <3>2, <3>3, EndsFacts DEF EditsInv
  <2>5. QED
    BY <1>1, <1>4, <2>1, <2>4, SameFiles, Finishes DEF EditsInv
<1>10. QED
  BY <1>7, <1>8, <1>9

\* Fetch: sync resolves once more, and ends.
LEMMA FetchHolds ==
  ASSUME EditsInv, NEW p \in Procs, Fetch(p)
  PROVE  EditsInv'
<1> PICK r : r = proc[p]
  OBVIOUS
<1>1. /\ r.at = "fetch" /\ Resolves(r.cmd.offline) /\ Ends(p, TRUE, r.graph)
      /\ UNCHANGED <<files, paths, runs, moves>>
  BY DEF Fetch
<1>2. RunOK(r)
  BY <1>1, KnownFacts
<1>3. r.cmd.do \in Workflows /\ r.cmd.do \notin EditCommands
  BY <1>1, <1>2, WorkflowPhases
<1>4. cached' \subseteq GitPackages
  BY <1>1, ResolvesFacts DEF EditsInv
<1>5. ASSUME proc[p].before # None
      PROVE  EditIsAllOrNothing' /\ LockedRunsUseTheLock'
  <2>1. Worked(r.graph) /\ files["lock"] = r.graph
    BY <1>1, <1>3, <1>5, KnownFacts
  <2>2. Worked(r.graph)' /\ files'["lock"] = r.graph
    BY <1>1, <1>4, <2>1, WorkedStays
  <2>3. QED
    BY <1>1, <1>2, <1>3, <1>5, <2>2, EndsFacts DEF EditsInv
<1>6. QED
  BY <1>1, <1>4, <1>5, SameFiles, Finishes DEF EditsInv

\* UseFails: it does not resolve, or refuses the lockfile.
LEMMA UseFailsHolds ==
  ASSUME EditsInv, NEW p \in Procs, UseFails(p)
  PROVE  EditsInv'
<1>1. /\ proc[p].at \in {"resolve", "fetch"} /\ Fails(p)
      /\ UNCHANGED <<files, paths, runs, moves>>
  BY DEF UseFails
<1>2. proc[p].cmd.do \notin EditCommands
  BY <1>1, KnownFacts, WorkflowPhases
<1>3. cached' \subseteq GitPackages
  <2>1. CASE ResolveFails(proc[p].cmd.offline)
    BY <2>1, ResolveFailsFacts DEF EditsInv
  <2>2. CASE Resolves(proc[p].cmd.offline)
    BY <2>2, <1>1, ResolvesFacts DEF EditsInv
  <2>3. QED
    BY <2>1, <2>2 DEF UseFails
<1>4. QED
  BY <1>1, <1>2, <1>3, SameFiles, FailsHolds DEF EditsInv
-----------------------------------------------------------------------------
(* The theorems                                                             *)

\* Initially there are files as a user left them, and no runs.
LEMMA InitHolds == Init => EditsInv
<1> SUFFICES ASSUME Init PROVE EditsInv
  OBVIOUS
<1>1. \A p \in Procs : proc[p] = Idle
  BY DEF Init
<1>2. TypeOK
  <2>1. PICK m \in Manifests \cup {None} :
          files = [f \in Files |-> IF f = "manifest" THEN m ELSE None]
    BY DEF Init
  <2>2. m \in Texts("manifest")
    BY TextsAre, EditsAssumption
  <2>3. DOMAIN files = Files /\ \A f \in Files : files[f] \in Texts(f)
    BY <2>1, <2>2, NoneAndTorn
  <2>4. proc \in [Procs -> Runs]
    BY IdleType DEF Init
  <2>5. runs \in 0..MaxRuns /\ moves \in 0..MaxMoves
    BY EditsAssumption DEF Init
  <2>6. paths \in [PathPackages -> PathVersions] /\ cached \subseteq GitPackages
    BY DEF Init, PathVersions
  <2>7. QED
    BY <1>1, <2>3, <2>4, <2>5, <2>6, IdleType DEF TypeOK
<1>3. RunInv
  BY <1>1, IdleType DEF RunInv, RunOK
<1>4. UndisturbedInv
  BY <1>1, IdleType DEF UndisturbedInv
<1>5. DoneInv
  BY DEF Init, DoneInv
<1>6. QED
  BY <1>2, <1>3, <1>4, <1>5 DEF EditsInv

\* Every step keeps the invariant.
LEMMA StepHolds ==
  ASSUME EditsInv, NEW p \in Procs, Step(p)
  PROVE  EditsInv'
<1>1. CASE Truncate(p) \/ Fill(p) \/ FillIsLost(p) \/ WriteThrows(p) \/ Written(p)
  BY <1>1, TruncateHolds, FillHolds, FillIsLostHolds, WriteThrowsHolds, WrittenHolds
<1>2. CASE Initialize(p) \/ InitializeFails(p)
  BY <1>2, InitializeHolds, InitializeFailsHolds
<1>3. CASE ReadOriginals(p) \/ Edit(p) \/ EditFails(p)
  BY <1>3, ReadOriginalsHolds, EditHolds, EditFailsHolds
<1>4. CASE Relock(p) \/ RollBack(p) \/ RestoreLockfile(p)
  BY <1>4, RelockHolds, RollBackHolds, RestoreLockfileHolds
<1>5. CASE Policy(p) \/ PolicyFails(p)
  BY <1>5, PolicyHolds, PolicyFailsHolds
<1>6. CASE Use(p) \/ Fetch(p) \/ UseFails(p)
  BY <1>6, UseHolds, FetchHolds, UseFailsHolds
<1>7. QED
  BY <1>1, <1>2, <1>3, <1>4, <1>5, <1>6 DEF Step

\* So does a stuttering step.
LEMMA StutterHolds ==
  ASSUME EditsInv, UNCHANGED vars
  PROVE  EditsInv'
<1> USE DEF vars
<1>1. TypeOK'
  BY DEF EditsInv, TypeOK
<1>2. RunInv'
  BY DEF EditsInv, RunInv
<1>3. UndisturbedInv'
  BY DEF EditsInv, UndisturbedInv, Alone, Facts, EditFacts, UseFacts, Pending, Worked, Missing,
         LockOf, Version, Named, Generated
<1>4. DoneInv'
  BY DEF EditsInv, DoneInv, EditIsAllOrNothing, LockedRunsUseTheLock, LockOf, Version, Named
<1>5. QED
  BY <1>1, <1>2, <1>3, <1>4 DEF EditsInv

\* As long as a run remembers what it found at its start, it is the only run,
\* and its place in the command says what is in the manifest and the lockfile:
\* the inductive invariant of Manifest.cpp, Dependencies.cpp and the handlers.
THEOREM EditsInvariant == Spec => []EditsInv
<1>1. ASSUME EditsInv, [Next]_vars
      PROVE  EditsInv'
  <2>1. CASE \E p \in Procs : Start(p) \/ Step(p) \/ Stop(p)
    BY <1>1, <2>1, StartHolds, StepHolds, StopHolds
  <2>2. CASE UserEdits
    BY <1>1, <2>2, UserEditsHolds
  <2>3. CASE UNCHANGED vars
    BY <1>1, <2>3, StutterHolds
  <2>4. QED
    BY <1>1, <2>1, <2>2, <2>3 DEF Next
<1>2. QED
  BY InitHolds, <1>1, PTL DEF Spec

\* The files hold only what pafio or a user may write there, a run has a file
\* open only while it writes, and goes back only to a text it has read.
THEOREM EditsTyping == Spec => []TypeOK
<1>1. EditsInv => TypeOK
  BY DEF EditsInv
<1>2. QED
  BY EditsInvariant, <1>1, PTL

\* add and remove, undisturbed, make their edit and relock, or leave both files
\* as they found them (CommitManifestEdit and its rollback), whatever else runs
\* and stops before and after.
THEOREM EditIsWhole == Spec => []EditIsAllOrNothing
<1>1. EditsInv => EditIsAllOrNothing
  BY DEF EditsInv, DoneInv, EditIsAllOrNothing
<1>2. QED
  BY EditsInvariant, <1>1, PTL

\* A command that succeeds under --locked, and one that writes or checks the
\* lockfile, worked with the packages of the lockfile (ValidateLockedPolicy and
\* the second resolution of the handler agree).
THEOREM LockIsUsed == Spec => []LockedRunsUseTheLock
<1>1. EditsInv => LockedRunsUseTheLock
  BY DEF EditsInv, DoneInv, LockedRunsUseTheLock
<1>2. QED
  BY EditsInvariant, <1>1, PTL
=============================================================================
