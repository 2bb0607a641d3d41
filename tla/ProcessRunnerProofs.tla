-------------------------- MODULE ProcessRunnerProofs --------------------------
(***************************************************************************)
(* Proofs about ProcessRunner, for pipes and limits of any size and for    *)
(* any program as the child.                                               *)
(*                                                                         *)
(* What has left a pipe is in the result up to the limit; the caller lets  *)
(* go of a stream, unless it gives up, when the pipe is empty and nobody   *)
(* can fill it again.  A group that was found by a SIGKILL has no member   *)
(* left that could start another.                                          *)
(***************************************************************************)
EXTENDS ProcessRunner, TLAPS

Least(i, j) == IF i < j THEN i ELSE j

\* What was taken out of a pipe is kept up to the limit; the count of what was
\* written stops at the first unit that cannot be kept.
Counted(w, held, kept, cut) ==
  IF cut THEN kept = Limit /\ w = Limit + 1
  ELSE kept <= Limit /\ w = Least(kept + held, Limit + 1)

TakenInv == \A s \in Streams : Counted(written[s], pipe[s], captured[s], truncated[s])

\* A stream is closed when it has ended, or when the caller gives up.
ClosedInv ==
  /\ at \in {"wait", "done"} => \A s \in Streams : ~open[s]
  /\ ~timedOut /\ at # "failed" =>
       \A s \in Streams : ~open[s] => pipe[s] = 0 /\ writers[s] = {}

\* The members of a group that was killed are dead.
KilledInv ==
  timedOut /\ request.group /\ ~missed => child \in {"exited", "killed"} /\ heir # "alive"

RunnerInv == TypeOK /\ TakenInv /\ ClosedInv /\ KilledInv
-----------------------------------------------------------------------------
LEMMA InitRunner == Init => RunnerInv
<1> SUFFICES ASSUME Init PROVE RunnerInv
  OBVIOUS
<1> USE ProcessAssumption
<1>1. TypeOK
  <2>1. inOpen \in BOOLEAN /\ readers \subseteq {"child", "heir"} /\ toWrite \in 0 .. MaxInput
    BY DEF Init
  <2>2. open \in [Streams -> BOOLEAN] /\ truncated \in [Streams -> BOOLEAN]
    BY DEF Init
  <2>3. writers \in [Streams -> SUBSET {"child", "heir"}]
    BY DEF Init
  <2>4. /\ captured \in [Streams -> 0 .. Limit]
        /\ pipe \in [Streams -> 0 .. PipeCap] /\ written \in [Streams -> 0 .. Limit + 1]
    BY DEF Init
  <2>5. /\ request \in Requests /\ ready \subseteq Streams \cup {"in"} /\ inPipe \in 0 .. PipeCap
        /\ at \in {"loop", "write", "out", "err", "wait", "done", "failed", "sigpipe"}
        /\ status \in {"none", "exited", "killed"}
        /\ child \in {"setup", "running", "exited", "killed"} /\ heir \in {"none", "alive", "gone"}
    BY DEF Init
  <2>6. late \in BOOLEAN /\ timedOut \in BOOLEAN /\ missed \in BOOLEAN
    BY DEF Init
  <2>7. QED
    BY <2>1, <2>2, <2>3, <2>4, <2>5, <2>6 DEF TypeOK
<1>2. TakenInv
  BY DEF Init, TakenInv, Counted, Least
<1>3. ClosedInv /\ KilledInv
  BY DEF Init, ClosedInv, KilledInv, Streams
<1>4. QED
  BY <1>1, <1>2, <1>3 DEF RunnerInv

LEMMA DrainCases ==
  ASSUME TypeOK, NEW s \in Streams, Drain(s)
  PROVE  /\ at = s
         /\ ready' \subseteq ready
         /\ UNCHANGED <<request, late, timedOut, status, toWrite, inOpen, missed,
                         child, heir, readers, writers, inPipe, written>>
         /\ \/ at' = After(s) /\ UNCHANGED <<open, captured, truncated, pipe>>
            \/ /\ pipe[s] > 0 /\ AppendOutputChunk(s)
               /\ pipe' = [pipe EXCEPT ![s] = @ - 1]
               /\ UNCHANGED <<at, open>>
            \/ /\ pipe[s] = 0 /\ at' = After(s)
               /\ open' = [open EXCEPT ![s] = writers[s] # {}]
               /\ UNCHANGED <<captured, truncated, pipe>>
<1>1. pipe[s] \in Nat
  BY ProcessAssumption DEF TypeOK
<1>2. CASE s \notin ready
  BY <1>2 DEF Drain, program
<1>3. CASE s \in ready /\ pipe[s] > 0
  BY <1>3 DEF Drain, program
<1>4. CASE s \in ready /\ pipe[s] = 0
  BY <1>4 DEF Drain, program
<1>5. QED
  BY <1>1, <1>2, <1>3, <1>4

LEMMA WriteCases ==
  ASSUME TypeOK, Write
  PROVE  /\ ready' \subseteq ready
         /\ UNCHANGED <<request, late, timedOut, status, open, captured, truncated, missed,
                         child, heir, readers, writers, pipe, written>>
         /\ at = "write" /\ at' \in {"out", "write", "sigpipe"} /\ inOpen' \in BOOLEAN
         /\ \/ UNCHANGED <<toWrite, inPipe>>
            \/ toWrite > 0 /\ toWrite' = toWrite - 1 /\ inPipe # PipeCap /\ inPipe' = inPipe + 1
<1>1. toWrite \in Nat /\ inOpen \in BOOLEAN
  BY ProcessAssumption DEF TypeOK
<1>2. CASE "in" \notin ready
  BY <1>1, <1>2 DEF Write, program
<1>3. CASE "in" \in ready /\ toWrite = 0
  BY <1>1, <1>3 DEF Write, program
<1>4. CASE "in" \in ready /\ toWrite > 0
  <2>1. CASE readers = {}
    BY <1>1, <1>4, <2>1 DEF Write, program
  <2>2. CASE readers # {} /\ inPipe = PipeCap
    BY <1>1, <1>4, <2>2 DEF Write, program
  <2>3. CASE readers # {} /\ inPipe # PipeCap
    BY <1>1, <1>4, <2>3 DEF Write, program
  <2>4. QED
    BY <2>1, <2>2, <2>3
<1>5. QED
  BY <1>1, <1>2, <1>3, <1>4

LEMMA TypingStep == TypeOK /\ [Next]_vars => TypeOK'
<1> SUFFICES ASSUME TypeOK, [Next]_vars PROVE TypeOK'
  OBVIOUS
<1> USE ProcessAssumption
<1>1. CASE LoopEnds
  BY <1>1 DEF LoopEnds, TypeOK, program
<1>2. CASE Poll
  BY <1>2 DEF Poll, Polled, TypeOK, program
<1>3. CASE PollFails
  BY <1>3 DEF PollFails, TypeOK, program
<1>4. CASE TimesOut
  <2>1. KillChildProcess
    BY <1>4 DEF TimesOut
  <2>2. /\ child' \in {"setup", "running", "exited", "killed"}
        /\ heir' \in {"none", "alive", "gone"}
        /\ readers' \subseteq {"child", "heir"} /\ missed' \in BOOLEAN
    BY <2>1 DEF KillChildProcess, TypeOK, program
  <2>3. writers' \in [Streams -> SUBSET {"child", "heir"}]
    <3>1. CASE request.group /\ child = "setup"
      BY <2>1, <3>1 DEF KillChildProcess, TypeOK, program
    <3>2. CASE ~(request.group /\ child = "setup")
      <4>1. writers' = [s \in Streams |-> writers[s] \ ({"child"} \cup {p \in {"heir"} : request.group})]
        BY <2>1, <3>2 DEF KillChildProcess
      <4>2. QED
        BY <4>1 DEF TypeOK
    <3>3. QED
      BY <3>1, <3>2
  <2>4. open' \in [Streams -> BOOLEAN]
    BY <1>4 DEF TimesOut
  <2>5. QED
    BY <1>4, <2>2, <2>3, <2>4 DEF TimesOut, TypeOK
<1>5. CASE Write
  <2>1. toWrite' \in 0 .. MaxInput /\ inPipe' \in 0 .. PipeCap
    BY <1>5, WriteCases DEF TypeOK
  <2>2. /\ at' \in {"loop", "write", "out", "err", "wait", "done", "failed", "sigpipe"}
        /\ inOpen' \in BOOLEAN
        /\ ready' \subseteq Streams \cup {"in"}
        /\ UNCHANGED <<request, late, timedOut, status, open, captured, truncated, missed,
                       child, heir, readers, writers, pipe, written>>
    BY <1>5, WriteCases DEF TypeOK
  <2>3. QED
    BY <2>1, <2>2 DEF TypeOK
<1>6. ASSUME NEW s \in Streams, Drain(s) PROVE TypeOK'
  <2>1. After(s) \in {"err", "loop"} /\ s \in {"out", "err"}
    BY DEF After, Streams
  <2>2. CASE UNCHANGED <<open, captured, truncated, pipe>>
    <3>1. /\ at' \in {"loop", "write", "out", "err", "wait", "done", "failed", "sigpipe"}
          /\ ready' \subseteq Streams \cup {"in"}
          /\ UNCHANGED <<request, late, timedOut, status, toWrite, inOpen, missed,
                         child, heir, readers, writers, inPipe, written>>
      BY <1>6, <2>1, DrainCases DEF TypeOK
    <3>2. QED
      BY <2>2, <3>1 DEF TypeOK
  <2>3. CASE /\ pipe[s] > 0 /\ AppendOutputChunk(s)
             /\ pipe' = [pipe EXCEPT ![s] = @ - 1]
             /\ UNCHANGED <<at, open>>
    <3>1. captured' \in [Streams -> 0 .. Limit] /\ pipe' \in [Streams -> 0 .. PipeCap]
      BY <2>3 DEF TypeOK, AppendOutputChunk
    <3>2. truncated' \in [Streams -> BOOLEAN]
      BY <2>3 DEF TypeOK, AppendOutputChunk
    <3>3. QED
      <4>1. /\ ready' \subseteq Streams \cup {"in"}
            /\ UNCHANGED <<request, at, late, timedOut, status, toWrite, inOpen, open, missed,
                           child, heir, readers, writers, inPipe, written>>
        BY <1>6, <2>3, DrainCases DEF TypeOK
      <4>2. QED
        BY <3>1, <3>2, <4>1 DEF TypeOK
  <2>4. CASE /\ at' = After(s)
             /\ open' = [open EXCEPT ![s] = writers[s] # {}]
             /\ UNCHANGED <<captured, truncated, pipe>>
    <3>1. open' \in [Streams -> BOOLEAN]
      BY <2>4 DEF TypeOK
    <3>2. QED
      <4>1. /\ at' \in {"loop", "write", "out", "err", "wait", "done", "failed", "sigpipe"}
            /\ ready' \subseteq Streams \cup {"in"}
            /\ UNCHANGED <<request, late, timedOut, status, toWrite, inOpen, captured, truncated,
                           missed, child, heir, readers, writers, inPipe, pipe, written>>
        BY <1>6, <2>1, <2>4, DrainCases DEF TypeOK
      <4>2. QED
        BY <3>1, <4>1 DEF TypeOK
  <2>5. QED
    BY <1>6, <2>2, <2>3, <2>4, DrainCases
<1>7. CASE Wait
  BY <1>7 DEF Wait, TypeOK, program
<1>8. CASE Elapse
  BY <1>8 DEF Elapse, TypeOK, caller, program
<1>9. CASE ChildStarts
  BY <1>9 DEF ChildStarts, TypeOK, caller
<1>10. CASE ChildCloses
  <2>1. readers' \subseteq {"child", "heir"}
    BY <1>10 DEF ChildCloses, TypeOK
  <2>2. CASE UNCHANGED writers
    BY <1>10, <2>1, <2>2 DEF ChildCloses, TypeOK, caller
  <2>3. ASSUME NEW s \in Streams, writers' = Without("child", s)
        PROVE  writers' \in [Streams -> SUBSET {"child", "heir"}]
    BY <2>3 DEF Without, TypeOK
  <2>4. QED
    BY <1>10, <2>1, <2>2, <2>3 DEF ChildCloses, TypeOK, caller
<1>11. CASE ChildLeavesHeir
  <2>1. readers' \subseteq {"child", "heir"}
    BY <1>11 DEF ChildLeavesHeir, Inherited, TypeOK
  <2>2. writers' \in [Streams -> SUBSET {"child", "heir"}]
    BY <1>11 DEF ChildLeavesHeir, Inherited, TypeOK
  <2>3. QED
    BY <1>11, <2>1, <2>2 DEF ChildLeavesHeir, TypeOK, caller
<1>12. CASE Exits
  <2>1. readers' \subseteq {"child", "heir"}
    BY <1>12 DEF Exits, TypeOK
  <2>2. ASSUME NEW p, writers' = Orphaned(p)
        PROVE  writers' \in [Streams -> SUBSET {"child", "heir"}]
    BY <2>2 DEF Orphaned, TypeOK
  <2>3. QED
    BY <1>12, <2>1, <2>2 DEF Exits, TypeOK, caller
<1>13. ASSUME NEW p \in {"child", "heir"}, Reads(p) PROVE TypeOK'
  BY <1>13 DEF Reads, TypeOK, caller, program
<1>14. ASSUME NEW p \in {"child", "heir"}, NEW s \in Streams, Writes(p, s) PROVE TypeOK'
  BY <1>14 DEF Writes, TypeOK, caller, program
<1>15. CASE UNCHANGED vars
  BY <1>15 DEF TypeOK, vars, caller, program
<1>16. QED
  BY <1>1, <1>2, <1>3, <1>4, <1>5, <1>6, <1>7, <1>8, <1>9, <1>10, <1>11, <1>12, <1>13, <1>14, <1>15
  DEF Next, Caller

\* A unit that leaves a pipe is kept, or noted as one too many.
LEMMA ChunkKept ==
  ASSUME NEW w, NEW held \in Nat \ {0}, NEW kept \in Nat, NEW cut \in BOOLEAN,
         Counted(w, held, kept, cut), Limit \in Nat
  PROVE  Counted(w, held - 1, IF kept < Limit THEN kept + 1 ELSE kept, cut \/ kept >= Limit)
<1>1. CASE kept < Limit
  BY <1>1 DEF Counted, Least
<1>2. CASE kept >= Limit
  BY <1>2 DEF Counted, Least
<1>3. QED
  BY <1>1, <1>2

\* A unit that is written is in the pipe, and counted if it still can be.
LEMMA UnitCounted ==
  ASSUME NEW w \in Nat, NEW held \in Nat, NEW kept \in Nat, NEW cut \in BOOLEAN,
         Counted(w, held, kept, cut), Limit \in Nat
  PROVE  Counted(IF w > Limit THEN w ELSE w + 1, held + 1, kept, cut)
BY DEF Counted, Least

LEMMA TakenStep == TypeOK /\ TakenInv /\ [Next]_vars => TakenInv'
<1> SUFFICES ASSUME TypeOK, TakenInv, [Next]_vars PROVE TakenInv'
  OBVIOUS
<1> USE ProcessAssumption
<1>0. ASSUME NEW s \in Streams
      PROVE  /\ pipe[s] \in Nat /\ captured[s] \in Nat /\ written[s] \in Nat
             /\ truncated[s] \in BOOLEAN
             /\ Counted(written[s], pipe[s], captured[s], truncated[s])
  BY DEF TypeOK, TakenInv
<1>1. ASSUME NEW s \in Streams, Drain(s) PROVE TakenInv'
  <2>1. CASE /\ pipe[s] > 0 /\ AppendOutputChunk(s)
             /\ pipe' = [pipe EXCEPT ![s] = @ - 1]
    <3>1. written' = written
      BY <1>1, DrainCases
    <3>2. /\ pipe'[s] = pipe[s] - 1
          /\ captured'[s] = IF captured[s] < Limit THEN captured[s] + 1 ELSE captured[s]
          /\ truncated'[s] = (truncated[s] \/ captured[s] >= Limit)
      BY <2>1 DEF AppendOutputChunk, TypeOK
    <3>3. Counted(written[s], pipe[s] - 1,
                  IF captured[s] < Limit THEN captured[s] + 1 ELSE captured[s],
                  truncated[s] \/ captured[s] >= Limit)
      <4>1. pipe[s] \in Nat \ {0}
        BY <1>0, <2>1
      <4>2. QED
        BY <1>0, <4>1, ChunkKept
    <3>4. ASSUME NEW t \in Streams \ {s}
          PROVE captured'[t] = captured[t] /\ truncated'[t] = truncated[t] /\ pipe'[t] = pipe[t]
      BY <2>1 DEF AppendOutputChunk, TypeOK
    <3>5. ASSUME NEW t \in Streams
          PROVE  Counted(written'[t], pipe'[t], captured'[t], truncated'[t])
      <4>1. CASE t = s
        BY <3>1, <3>2, <3>3, <4>1
      <4>2. CASE t # s
        BY <1>0, <3>1, <3>4, <4>2
      <4>3. QED
        BY <4>1, <4>2
    <3>6. QED
      BY <3>5 DEF TakenInv, Counted
  <2>2. CASE UNCHANGED <<captured, truncated, pipe>>
    BY <1>1, <2>2, DrainCases DEF TakenInv, Counted
  <2>3. QED
    BY <1>1, <2>1, <2>2, DrainCases
<1>2. ASSUME NEW p \in {"child", "heir"}, NEW s \in Streams, Writes(p, s) PROVE TakenInv'
  <2>1. /\ pipe' = [pipe EXCEPT ![s] = @ + 1]
        /\ written' = [written EXCEPT ![s] = IF @ > Limit THEN @ ELSE @ + 1]
        /\ UNCHANGED <<captured, truncated>>
    BY <1>2 DEF Writes, caller
  <2>2. /\ pipe'[s] = pipe[s] + 1
        /\ written'[s] = IF written[s] > Limit THEN written[s] ELSE written[s] + 1
        /\ \A t \in Streams \ {s} : pipe'[t] = pipe[t] /\ written'[t] = written[t]
    BY <2>1 DEF TypeOK
  <2>3. Counted(IF written[s] > Limit THEN written[s] ELSE written[s] + 1, pipe[s] + 1,
                captured[s], truncated[s])
    BY <1>0, UnitCounted
  <2>4. ASSUME NEW t \in Streams
        PROVE  Counted(written'[t], pipe'[t], captured'[t], truncated'[t])
    <3>1. CASE t = s
      BY <2>1, <2>2, <2>3, <3>1
    <3>2. CASE t # s
      BY <1>0, <2>1, <2>2, <3>2
    <3>3. QED
      BY <3>1, <3>2
  <2>5. QED
    BY <2>4 DEF TakenInv, Counted
<1>3. CASE UNCHANGED <<captured, truncated, pipe, written>>
  BY <1>3 DEF TakenInv, Counted
<1>4. QED
  BY <1>1, <1>2, <1>3
  DEF Next, Caller, LoopEnds, Poll, PollFails, TimesOut, Write, Wait, Elapse, ChildStarts,
      ChildCloses, ChildLeavesHeir, Exits, Reads, vars, caller

LEMMA ClosedStep == TypeOK /\ ClosedInv /\ [Next]_vars => ClosedInv'
<1> SUFFICES ASSUME TypeOK, ClosedInv, [Next]_vars PROVE ClosedInv'
  OBVIOUS
<1>1. CASE LoopEnds
  BY <1>1 DEF LoopEnds, ClosedInv, program
<1>2. CASE Poll
  BY <1>2 DEF Poll, ClosedInv, program
<1>3. CASE PollFails
  BY <1>3 DEF PollFails, ClosedInv, program
<1>4. CASE TimesOut
  BY <1>4 DEF TimesOut, ClosedInv, program
<1>5. CASE Write
  BY <1>5 DEF Write, ClosedInv, program
<1>6. ASSUME NEW s \in Streams, Drain(s) PROVE ClosedInv'
  <2>1. at' \notin {"wait", "done", "failed"} /\ at \notin {"wait", "done", "failed"}
        /\ UNCHANGED <<timedOut, writers>>
    BY <1>6, DrainCases DEF After, Streams
  <2>2. ASSUME NEW t \in Streams, ~timedOut, ~open'[t] PROVE pipe'[t] = 0 /\ writers[t] = {}
    <3>1. ~open[t] => pipe[t] = 0 /\ writers[t] = {}
      BY <2>1, <2>2 DEF ClosedInv
    <3>2. CASE UNCHANGED <<open, pipe>>
      BY <2>2, <3>1, <3>2
    <3>3. CASE pipe[s] > 0 /\ pipe' = [pipe EXCEPT ![s] = @ - 1] /\ open' = open
      BY <2>2, <3>1, <3>3 DEF TypeOK
    <3>4. CASE pipe[s] = 0 /\ open' = [open EXCEPT ![s] = writers[s] # {}] /\ pipe' = pipe
      BY <2>2, <3>1, <3>4 DEF TypeOK
    <3>5. QED
      BY <1>6, <3>2, <3>3, <3>4, DrainCases
  <2>3. QED
    BY <2>1, <2>2 DEF ClosedInv
<1>7. CASE Wait
  BY <1>7 DEF Wait, ClosedInv, program
<1>8. CASE Elapse \/ ChildStarts \/ UNCHANGED vars
  BY <1>8 DEF Elapse, ChildStarts, ClosedInv, vars, caller, program
<1>9. CASE ChildCloses
  BY <1>9 DEF ChildCloses, Without, ClosedInv, TypeOK, caller
<1>10. CASE ChildLeavesHeir
  BY <1>10 DEF ChildLeavesHeir, Inherited, ClosedInv, caller
<1>11. CASE Exits
  BY <1>11 DEF Exits, Orphaned, ClosedInv, TypeOK, caller
<1>12. ASSUME NEW p \in {"child", "heir"}, Reads(p) PROVE ClosedInv'
  BY <1>12 DEF Reads, ClosedInv, caller, program
<1>13. ASSUME NEW p \in {"child", "heir"}, NEW s \in Streams, Writes(p, s) PROVE ClosedInv'
  BY <1>13 DEF Writes, ClosedInv, TypeOK, caller, program
<1>14. QED
  BY <1>1, <1>2, <1>3, <1>4, <1>5, <1>6, <1>7, <1>8, <1>9, <1>10, <1>11, <1>12, <1>13
  DEF Next, Caller

LEMMA KilledStep == TypeOK /\ KilledInv /\ [Next]_vars => KilledInv'
<1> SUFFICES ASSUME TypeOK, KilledInv, [Next]_vars PROVE KilledInv'
  OBVIOUS
<1>1. CASE TimesOut
  BY <1>1 DEF TimesOut, KillChildProcess, KilledInv, TypeOK
<1>2. CASE LoopEnds \/ Poll \/ PollFails \/ Write \/ Wait
  BY <1>2 DEF LoopEnds, Poll, PollFails, Write, Wait, KilledInv, program
<1>3. ASSUME NEW s \in Streams, Drain(s) PROVE KilledInv'
  BY <1>3, DrainCases DEF KilledInv
<1>4. CASE ChildStarts \/ ChildLeavesHeir
  BY <1>4 DEF ChildStarts, ChildLeavesHeir, Lives, KilledInv, caller
<1>5. CASE ChildCloses \/ Exits
  BY <1>5 DEF ChildCloses, Exits, Lives, KilledInv, caller
<1>6. CASE Elapse \/ UNCHANGED vars
  BY <1>6 DEF Elapse, KilledInv, vars, caller, program
<1>7. ASSUME NEW p \in {"child", "heir"}, Reads(p) \/ \E s \in Streams : Writes(p, s)
      PROVE  KilledInv'
  BY <1>7 DEF Reads, Writes, KilledInv, caller, program
<1>8. QED
  BY <1>1, <1>2, <1>3, <1>4, <1>5, <1>6, <1>7 DEF Next, Caller
-----------------------------------------------------------------------------
\* The inductive invariant of a run, whatever the child does and whenever the
\* deadline comes.
THEOREM RunnerInvariant == Spec => []RunnerInv
<1>1. RunnerInv /\ [Next]_vars => RunnerInv'
  BY TypingStep, TakenStep, ClosedStep, KilledStep DEF RunnerInv
<1>2. QED
  BY InitRunner, <1>1, PTL DEF Spec

\* Every local of a run keeps its type: no more is kept than the limit, no more
\* is in a pipe than fits.
THEOREM RunnerTyping == Spec => []TypeOK
<1>1. RunnerInv => TypeOK
  BY DEF RunnerInv
<1>2. QED
  BY RunnerInvariant, <1>1, PTL

\* A run that does not time out returns all the output there was up to the
\* limit, and says exactly when there was more, for any limit and pipe size.
THEOREM OutputKept == Spec => []OutputIsKept
<1>1. RunnerInv => OutputIsKept
  <2> SUFFICES ASSUME RunnerInv, at = "done", ~timedOut, NEW s \in Streams
               PROVE  /\ captured[s] = IF written[s] < Limit THEN written[s] ELSE Limit
                      /\ truncated[s] = (written[s] > Limit)
    BY DEF OutputIsKept
  <2>1. pipe[s] = 0 /\ captured[s] \in Nat /\ truncated[s] \in BOOLEAN
    BY ProcessAssumption DEF RunnerInv, ClosedInv, TypeOK
  <2>2. Counted(written[s], 0, captured[s], truncated[s])
    BY <2>1 DEF RunnerInv, TakenInv
  <2>3. CASE truncated[s]
    <3>1. captured[s] = Limit /\ written[s] = Limit + 1
      BY <2>2, <2>3 DEF Counted
    <3>2. ~(written[s] < Limit) /\ written[s] > Limit
      BY <3>1, ProcessAssumption
    <3>3. truncated[s] = (written[s] > Limit)
      BY <2>1, <2>3, <3>2
    <3>4. QED
      BY <3>1, <3>2, <3>3
  <2>4. CASE ~truncated[s]
    BY <2>1, <2>2, <2>4, ProcessAssumption DEF Counted, Least
  <2>5. QED
    BY <2>1, <2>3, <2>4
<1>2. QED
  BY RunnerInvariant, <1>1, PTL

\* A timeout that strikes a process group leaves nobody of it behind.
THEOREM NobodyLeft == Spec => []TimeoutLeavesNobody
<1>1. RunnerInv => TimeoutLeavesNobody
  BY DEF RunnerInv, KilledInv, TimeoutLeavesNobody
<1>2. QED
  BY RunnerInvariant, <1>1, PTL
=============================================================================
