--------------------------- MODULE ProcessRunner ---------------------------
(***************************************************************************)
(* RunProcessChecked of src/PafioCore/Process.cpp: a child process, fed    *)
(* through one pipe and read through two, against a deadline.              *)
(*                                                                         *)
(* Input and output are counted in units, the pipes hold PipeCap of them   *)
(* and the capture of a stream ends at Limit.  The child is any program:   *)
(* it reads, writes, closes its ends, leaves a process behind that has     *)
(* inherited them (the heir) and exits when it likes; it can write for     *)
(* ever, and faster than the caller reads.  What was written is counted up *)
(* to the first unit that the capture has no room for.                     *)
(***************************************************************************)
EXTENDS Integers, FiniteSets

CONSTANTS PipeCap, Limit, MaxInput

ASSUME ProcessAssumption == PipeCap \in Nat \ {0} /\ Limit \in Nat /\ MaxInput \in Nat

VARIABLES
  request,        \* timed: there is a timeout; group: it is for the process group
  at,             \* where the caller is
  ready,          \* what its last poll reported, and it has not attended to
  late,           \* the timeout has elapsed
  timedOut,       \* result.timed_out
  status,         \* what waitpid told it: the child exited or was killed
  toWrite,        \* what is left of stdin_text
  inOpen,         \* the caller's end of the stdin pipe is open
  open,           \* stream -> its end of that pipe is open
  captured,       \* stream -> units kept in the result
  truncated,      \* stream -> the result says there were more
  child,          \* the child: setup, running, exited or killed
  heir,           \* the process it left behind: none, alive or gone
  readers,        \* the processes that hold the read end of the stdin pipe
  writers,        \* stream -> the processes that hold its write end
  inPipe,         \* units in the stdin pipe
  pipe,           \* stream -> units in its pipe
  written,        \* stream -> units written to it, up to Limit + 1 (history)
  missed          \* the process group was killed before it existed (history)

caller == <<at, ready, timedOut, status, toWrite, inOpen, open, captured, truncated, missed>>
program == <<child, heir, readers, writers>>
vars == <<request, late, caller, program, inPipe, pipe, written>>

Streams == {"out", "err"}
Requests == {[timed |-> FALSE, group |-> FALSE]} \cup [timed : {TRUE}, group : BOOLEAN]
Ended == at \in {"done", "failed", "sigpipe"}
-----------------------------------------------------------------------------
(***************************************************************************)
(* The child, up to what the system does for it; what goes on after the    *)
(* caller has its result is left out.                                      *)
(***************************************************************************)
Lives(p) == ~Ended /\ IF p = "child" THEN child = "running" ELSE heir = "alive"
Without(p, s) == [writers EXCEPT ![s] = @ \ {p}]
Orphaned(p) == [s \in Streams |-> writers[s] \ {p}]

\* setpgid, dup2 and exec; what fails on the way is written to stderr, with exit code 127.
ChildStarts ==
  /\ ~Ended /\ child = "setup"
  /\ child' = "running"
  /\ UNCHANGED <<request, late, caller, heir, readers, writers, inPipe, pipe, written>>

Reads(p) ==
  /\ Lives(p) /\ p \in readers /\ inPipe > 0
  /\ inPipe' = inPipe - 1
  /\ UNCHANGED <<request, late, caller, program, pipe, written>>

Writes(p, s) ==
  /\ Lives(p) /\ p \in writers[s]
  /\ pipe[s] < PipeCap
  /\ pipe' = [pipe EXCEPT ![s] = @ + 1]
  /\ written' = [written EXCEPT ![s] = IF @ > Limit THEN @ ELSE @ + 1]
  /\ UNCHANGED <<request, late, caller, program, inPipe>>

ChildCloses ==
  /\ Lives("child")
  /\ \/ /\ "child" \in readers
        /\ readers' = readers \ {"child"}
        /\ UNCHANGED writers
     \/ \E s \in Streams : /\ "child" \in writers[s]
                           /\ writers' = Without("child", s)
                           /\ UNCHANGED readers
  /\ UNCHANGED <<request, late, caller, child, heir, inPipe, pipe, written>>

\* A fork: the heir holds what the child held.
Inherited(holders) == IF "child" \in holders THEN holders \cup {"heir"} ELSE holders

ChildLeavesHeir ==
  /\ Lives("child") /\ heir = "none"
  /\ heir' = "alive"
  /\ readers' = Inherited(readers)
  /\ writers' = [s \in Streams |-> Inherited(writers[s])]
  /\ UNCHANGED <<request, late, caller, child, inPipe, pipe, written>>

Exits ==
  /\ \/ /\ Lives("child")
        /\ child' = "exited" /\ readers' = readers \ {"child"}
        /\ writers' = Orphaned("child")
        /\ UNCHANGED heir
     \/ /\ Lives("heir")
        /\ heir' = "gone" /\ readers' = readers \ {"heir"}
        /\ writers' = Orphaned("heir")
        /\ UNCHANGED child
  /\ UNCHANGED <<request, late, caller, inPipe, pipe, written>>

Elapse ==
  /\ ~Ended /\ request.timed /\ ~late
  /\ late' = TRUE
  /\ UNCHANGED <<request, caller, program, inPipe, pipe, written>>
-----------------------------------------------------------------------------
(***************************************************************************)
(* The caller.                                                             *)
(***************************************************************************)
Readable(s) == open[s] /\ (pipe[s] > 0 \/ writers[s] = {})
Writable == inOpen /\ (inPipe < PipeCap \/ readers = {})
Polled == {s \in Streams : Readable(s)} \cup {x \in {"in"} : Writable}

LoopEnds ==
  /\ at = "loop" /\ \A s \in Streams : ~open[s]
  /\ at' = "wait" /\ inOpen' = FALSE
  /\ UNCHANGED <<request, late, ready, timedOut, status, toWrite, open, captured, truncated, missed,
                 program, inPipe, pipe, written>>

Poll ==
  /\ at = "loop" /\ ~late /\ \E s \in Streams : open[s]
  /\ Polled # {}
  /\ ready' = Polled
  /\ at' = "write"
  /\ UNCHANGED <<request, late, timedOut, status, toWrite, inOpen, open, captured, truncated, missed,
                 program, inPipe, pipe, written>>

\* An error of poll: the caller throws and leaves the child to itself.
PollFails ==
  /\ at = "loop" /\ ~late /\ \E s \in Streams : open[s]
  /\ at' = "failed"
  /\ open' = [s \in Streams |-> FALSE]
  /\ UNCHANGED <<request, late, ready, timedOut, status, toWrite, inOpen, captured, truncated, missed,
                 program, inPipe, pipe, written>>

\* (variant: the group is left alone)
KillChildAlone ==
  /\ child' = IF child \in {"setup", "running"} THEN "killed" ELSE child
  /\ writers' = Orphaned("child") /\ readers' = readers \ {"child"}
  /\ UNCHANGED <<heir, missed>>

\* (variant: what is too late is not killed)
KillNobody == UNCHANGED <<program, missed>>

\* SIGKILL to the group finds nobody until the child has called setpgid; to the
\* child alone it finds the child and no other.
KillChildProcess ==
  IF request.group /\ child = "setup" THEN missed' = TRUE /\ UNCHANGED program
  ELSE LET hit == {"child"} \cup {p \in {"heir"} : request.group}
       IN  /\ child' = IF child \in {"setup", "running"} THEN "killed" ELSE child
           /\ heir' = IF "heir" \in hit /\ heir = "alive" THEN "gone" ELSE heir
           /\ readers' = readers \ hit
           /\ writers' = [s \in Streams |-> writers[s] \ hit]
           /\ UNCHANGED missed

\* The deadline, found at the head of the loop or by a poll that waited for nothing.
TimesOut ==
  /\ at = "loop" /\ late /\ \E s \in Streams : open[s]
  /\ timedOut' = TRUE
  /\ KillChildProcess
  /\ at' = "wait" /\ inOpen' = FALSE /\ open' = [s \in Streams |-> FALSE]
  /\ UNCHANGED <<request, late, ready, status, toWrite, captured, truncated, inPipe, pipe, written>>

\* (variant: the pipe is written to until all is in it)
WriteAll ==
  /\ at = "write"
  /\ IF "in" \notin ready \/ toWrite = 0
     THEN /\ at' = "out" /\ ready' = ready \ {"in"} /\ inOpen' = (inOpen /\ "in" \notin ready)
          /\ UNCHANGED <<toWrite, inPipe>>
     ELSE /\ inPipe < PipeCap /\ inPipe' = inPipe + 1 /\ toWrite' = toWrite - 1
          /\ UNCHANGED <<at, ready, inOpen>>
  /\ UNCHANGED <<request, late, timedOut, status, open, captured, truncated, missed,
                 program, pipe, written>>

\* One write, EAGAIN, or the end of the input; with no reader left the write is
\* answered with SIGPIPE, which nothing handles.
Write ==
  /\ at = "write"
  /\ CASE "in" \notin ready -> at' = "out" /\ UNCHANGED <<toWrite, inOpen, inPipe>>
       [] "in" \in ready /\ toWrite = 0 ->
            at' = "out" /\ inOpen' = FALSE /\ UNCHANGED <<toWrite, inPipe>>
       [] "in" \in ready /\ toWrite > 0 /\ readers = {} ->
            at' = "sigpipe" /\ UNCHANGED <<toWrite, inOpen, inPipe>>
       [] "in" \in ready /\ toWrite > 0 /\ readers # {} /\ inPipe = PipeCap ->
            at' = "out" /\ UNCHANGED <<toWrite, inOpen, inPipe>>
       [] OTHER -> /\ inPipe' = inPipe + 1 /\ toWrite' = toWrite - 1
                   /\ UNCHANGED <<at, inOpen>>
  /\ ready' = IF at' = "write" THEN ready ELSE ready \ {"in"}
  /\ UNCHANGED <<request, late, timedOut, status, open, captured, truncated, missed,
                 program, pipe, written>>

\* (variant: output that just fits counts as too long)
AppendTooShort(s) ==
  /\ captured' = [captured EXCEPT ![s] = IF @ < Limit THEN @ + 1 ELSE @]
  /\ truncated' = [truncated EXCEPT ![s] = @ \/ captured[s] + 1 >= Limit]

\* (variant: the chunk that reaches the limit is kept whole)
AppendWhole(s) ==
  /\ captured' = [captured EXCEPT ![s] = IF @ <= Limit THEN @ + 1 ELSE @]
  /\ truncated' = [truncated EXCEPT ![s] = @ \/ captured[s] >= Limit]

AppendOutputChunk(s) ==
  /\ captured' = [captured EXCEPT ![s] = IF @ < Limit THEN @ + 1 ELSE @]
  /\ truncated' = [truncated EXCEPT ![s] = @ \/ captured[s] >= Limit]

After(s) == IF s = "out" THEN "err" ELSE "loop"

\* drain_fd: one read, the end of the stream, or nothing there for now.  Only the
\* last two leave its loop, and the deadline is not looked at in it.
Drain(s) ==
  /\ at = s
  /\ CASE s \notin ready -> at' = After(s) /\ UNCHANGED <<open, captured, truncated, pipe>>
       [] s \in ready /\ pipe[s] > 0 -> /\ AppendOutputChunk(s)
                                        /\ pipe' = [pipe EXCEPT ![s] = @ - 1]
                                        /\ UNCHANGED <<at, open>>
       [] s \in ready /\ pipe[s] = 0 -> /\ at' = After(s)
                                        /\ open' = [open EXCEPT ![s] = writers[s] # {}]
                                        /\ UNCHANGED <<captured, truncated, pipe>>
  /\ ready' = IF at' = s THEN ready ELSE ready \ {s}
  /\ UNCHANGED <<request, late, timedOut, status, toWrite, inOpen, missed, program, inPipe, written>>

\* waitpid, without a deadline.
Wait ==
  /\ at = "wait" /\ child \in {"exited", "killed"}
  /\ status' = child
  /\ at' = "done"
  /\ UNCHANGED <<request, late, ready, timedOut, toWrite, inOpen, open, captured, truncated, missed,
                 program, inPipe, pipe, written>>

Caller == LoopEnds \/ Poll \/ PollFails \/ TimesOut \/ Write \/ (\E s \in Streams : Drain(s)) \/ Wait

Init ==
  /\ request \in Requests
  /\ toWrite \in {0, MaxInput}
  /\ inOpen = (toWrite > 0)
  /\ at = "loop" /\ ready = {} /\ late = FALSE /\ timedOut = FALSE /\ status = "none" /\ missed = FALSE
  /\ open = [s \in Streams |-> TRUE]
  /\ captured = [s \in Streams |-> 0] /\ truncated = [s \in Streams |-> FALSE]
  /\ child = "setup" /\ heir = "none" /\ readers = {p \in {"child"} : inOpen}
  /\ writers = [s \in Streams |-> {"child"}]
  /\ inPipe = 0 /\ pipe = [s \in Streams |-> 0] /\ written = [s \in Streams |-> 0]

Next ==
  \/ Caller \/ Elapse
  \/ ChildStarts \/ ChildCloses \/ ChildLeavesHeir \/ Exits
  \/ \E p \in {"child", "heir"} : Reads(p) \/ \E s \in Streams : Writes(p, s)

\* The caller and the clock go on, and the system runs what was forked; what the
\* program does then is its own affair.
Spec == /\ Init /\ [][Next]_vars
        /\ WF_vars(Caller) /\ WF_vars(Elapse) /\ WF_vars(ChildStarts)
-----------------------------------------------------------------------------
TypeOK ==
  /\ request \in Requests
  /\ at \in {"loop", "write", "out", "err", "wait", "done", "failed", "sigpipe"}
  /\ ready \subseteq Streams \cup {"in"}
  /\ late \in BOOLEAN /\ timedOut \in BOOLEAN /\ missed \in BOOLEAN
  /\ inOpen \in BOOLEAN /\ readers \subseteq {"child", "heir"}
  /\ status \in {"none", "exited", "killed"}
  /\ toWrite \in 0 .. MaxInput
  /\ open \in [Streams -> BOOLEAN] /\ truncated \in [Streams -> BOOLEAN]
  /\ captured \in [Streams -> 0 .. Limit]
  /\ child \in {"setup", "running", "exited", "killed"}
  /\ heir \in {"none", "alive", "gone"}
  /\ writers \in [Streams -> SUBSET {"child", "heir"}]
  /\ inPipe \in 0 .. PipeCap
  /\ pipe \in [Streams -> 0 .. PipeCap] /\ written \in [Streams -> 0 .. Limit + 1]

\* A result that does not say it timed out has all that was written to either
\* stream, by whoever had inherited it, up to the limit, and says exactly when
\* there was more.
OutputIsKept ==
  at = "done" /\ ~timedOut =>
    \A s \in Streams : /\ captured[s] = IF written[s] < Limit THEN written[s] ELSE Limit
                       /\ truncated[s] = (written[s] > Limit)

\* A timeout for the process group leaves no process of it behind, unless it
\* struck before the child had made the group (no call of setpgid in the caller).
TimeoutLeavesNobody ==
  at = "done" /\ timedOut /\ request.group /\ ~missed => heir # "alive"

\* The caller never gets out of draining a stream, because it never finds its
\* pipe empty (Process.cpp:327-353).  The test TimesOutWhenChildKeepsProducingOutput
\* (tests/native/ProcessTests.cpp:48) does not get there: its writer sleeps.
Outrun == \E s \in Streams : <>[](at = s) /\ []<>(pipe[s] > 0)

\* The child is out of the reach of the timeout's SIGKILL, or lives on having
\* closed both outputs (waitpid has no deadline).
OutOfReach ==
  <>[](child = "running" /\ (missed \/ \A s \in Streams : "child" \notin writers[s]))

\* A run with a timeout ends, unless the child is out of its reach or output comes
\* faster than the caller reads it.
TimedRunEnds == request.timed => <>Ended \/ OutOfReach \/ Outrun

\* Nobody waits for the caller for ever: a full output is emptied and input is
\* passed on, though the caller has three pipes to attend to, unless output comes
\* faster than the caller reads it.
PipesAreServed ==
  \/ Outrun
  \/ /\ \A s \in Streams : (pipe[s] = PipeCap) ~> (pipe[s] < PipeCap \/ ~open[s] \/ Ended)
     /\ (inPipe = 0 /\ toWrite > 0) ~> (inPipe > 0 \/ at \in {"wait", "done", "failed", "sigpipe"})
=============================================================================
