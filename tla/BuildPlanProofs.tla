---------------------------- MODULE BuildPlanProofs ----------------------------
(***************************************************************************)
(* Proofs about BuildPlan, for every set of worlds and invocations.        *)
(*                                                                         *)
(* Every dependency the resolver has taken down leads to a node it has     *)
(* registered.  The search for an order keeps its stack a path of the      *)
(* graph, apart from what is in the order, and puts a package behind all   *)
(* it needs.  In the end the graph is the least set that holds the roots   *)
(* and what its nodes lead to; that this is what PackageGraph's rounds     *)
(* reach is proved first, without reference to the resolver.               *)
(***************************************************************************)
EXTENDS BuildPlan, SequenceTheorems, FunctionTheorems, FiniteSetTheorems, TLAPS

\* What a directory's manifest holds.
LEMMA WorldFacts ==
  ASSUME IsWorld(world), NEW p \in Places
  PROVE  /\ Manifest(p) \in Manifests
         /\ Manifest(p).deps \subseteq Dependencies
         /\ Manifest(p).members \subseteq Places
         /\ Manifest(p).targets \subseteq Targets
         /\ Manifest(p).name \in Names
<1>1. Manifest(p) \in Manifests
  BY DEF IsWorld, Manifest
<1>2. QED
  BY <1>1 DEF Manifests

\* The top-level packages are in directories.
LEMMA TopLevelPlaces == IsWorld(world) => TopLevel \subseteq Places
<1>1. Root \in Places
  BY GraphAssumption
<1>2. QED
  BY <1>1, WorldFacts DEF TopLevel

\* A root is a node.
LEMMA SeedType == \A p \in Places : Seed(p) \in Nodes
BY DEF Seed, Nodes, Kinds

\* What a dependency leads to is a package of a directory.
LEMMA DependencyNodeType ==
  ASSUME IsWorld(world), NEW n \in Nodes, NEW d \in Dependencies, ~DependencyFails(n, d)
  PROVE  DependencyNode(n, d) \in Nodes
<1> DEFINE M == Matches(d.place, d.package)
<1>1. d.place \in Places /\ d.kind \in {"path", "git", "registry"}
  BY DEF Dependencies
<1>2. M \subseteq Places
  BY <1>1, WorldFacts DEF Matches, Included
<1>3. Cardinality(M) = 1
  BY DEF DependencyFails, SelectionFails
<1>4. M # {}
  BY <1>3, FS_EmptySet
<1>5. (CHOOSE m \in M : TRUE) \in Places
  BY <1>2, <1>4
<1>6. QED
  BY <1>1, <1>5 DEF DependencyNode, Nodes, Kinds, LocalKind

\* The dependencies of a node.
LEMMA DepsType ==
  ASSUME IsWorld(world), NEW n \in Nodes
  PROVE  Deps(n) \subseteq Dependencies
<1>1. n.place \in Places
  BY DEF Nodes
<1>2. QED
  BY <1>1, WorldFacts DEF Deps

\* A sequence without its last element.
LEMMA WithoutLast ==
  ASSUME NEW S, NEW s \in Seq(S), s # <<>>
  PROVE  /\ Len(s) \in Nat \ {0}
         /\ s[Len(s)] \in S
         /\ SubSeq(s, 1, Len(s) - 1) \in Seq(S)
         /\ Len(SubSeq(s, 1, Len(s) - 1)) = Len(s) - 1
         /\ \A i \in 1 .. Len(s) - 1 : SubSeq(s, 1, Len(s) - 1)[i] = s[i]
<1> DEFINE last == Len(s) - 1
<1>1. Len(s) \in Nat \ {0} /\ last \in Nat /\ last \in Int /\ 1 \in Int
  BY EmptySeq
<1>2. \A i \in 1 .. Len(s) : s[i] \in S
  BY ElementOfSeq
<1>3. \A i \in 1 .. last : s[i] \in S
  BY <1>1, <1>2
<1>4. /\ SubSeq(s, 1, last) \in Seq(S)
      /\ Len(SubSeq(s, 1, last)) = IF 1 <= last THEN last - 1 + 1 ELSE 0
      /\ \A i \in 1 .. last - 1 + 1 : SubSeq(s, 1, last)[i] = s[1 + i - 1]
  <2> HIDE DEF last
  <2>1. QED
    BY <1>1, <1>3, SubSeqProperties
<1>5. Len(SubSeq(s, 1, last)) = last
  <2> DEFINE n == Len(SubSeq(s, 1, last))
  <2>1. n = IF 1 <= last THEN last - 1 + 1 ELSE 0
    BY <1>4
  <2> HIDE DEF last, n
  <2>2. n = last
    BY <1>1, <2>1
  <2>3. QED
    BY <2>2 DEF n
<1>6. ASSUME NEW i \in 1 .. last PROVE SubSeq(s, 1, last)[i] = s[i]
  <2>1. i \in 1 .. last - 1 + 1 /\ 1 + i - 1 = i
    BY <1>1
  <2>2. QED
    BY <1>4, <2>1
<1>7. QED
  BY <1>1, <1>2, <1>4, <1>5, <1>6

\* The innermost call of ResolveNode, and those below it.
LEMMA TopType ==
  ASSUME stack \in Seq(Frames), stack # <<>>
  PROVE  /\ Len(stack) \in Nat \ {0}
         /\ Top \in Frames
         /\ Below \in Seq(Frames) /\ Len(Below) = Len(stack) - 1
         /\ \A i \in 1 .. Len(stack) - 1 : Below[i] = stack[i]
BY WithoutLast DEF Top, Below

\* The innermost package of the search, and those it came through.
LEMMA ActiveType ==
  ASSUME active \in Seq(Nodes), active # <<>>
  PROVE  /\ Len(active) \in Nat \ {0}
         /\ active[Len(active)] \in Nodes
         /\ SubSeq(active, 1, Len(active) - 1) \in Seq(Nodes)
         /\ Len(SubSeq(active, 1, Len(active) - 1)) = Len(active) - 1
         /\ \A i \in 1 .. Len(active) - 1 : SubSeq(active, 1, Len(active) - 1)[i] = active[i]
BY WithoutLast
-----------------------------------------------------------------------------
\* Whatever the resolver has taken down it has registered, and what it has
\* registered is complete or on its stack.
GraphInv ==
  /\ \A i \in 1 .. Len(stack) : stack[i].node \in nodes /\ stack[i].found \subseteq nodes
  /\ nodes \subseteq DOMAIN edges \cup {stack[i].node : i \in 1 .. Len(stack)}
  /\ at # "resolve" /\ at # "refused" => stack = <<>>

\* A call of ResolveNode for a new node.
Pushed(n, under) ==
  /\ UNCHANGED <<at, why>>
  /\ nodes' = nodes \cup {n}
  /\ \E f \in Frames : stack' = Append(under, f) /\ f.node = n /\ f.found = {}

\* What the first visit of a node does to the tables and the stack.
LEMMA OpenShape ==
  ASSUME IsWorld(world), NEW n \in Nodes, NEW under, Open(n, under)
  PROVE  /\ UNCHANGED <<world, edges>>
         /\ \/ at' = "refused" /\ why' \in {"version", "source"} /\ UNCHANGED <<nodes, stack>>
            \/ Pushed(n, under)
<1>1. [node |-> n, left |-> Deps(n), found |-> {}] \in Frames
  BY DepsType DEF Frames
<1>2. QED
  BY <1>1 DEF Open, Refuse, Pushed

\* The frame of the package at hand, once a dependency of it is looked at.
Advanced(f) == f \in Frames /\ f.node = Top.node /\ f.found \subseteq nodes

\* What looking at a dependency does to them.
LEMMA DependencyShape ==
  ASSUME TypeOK, GraphInv, ResolveDependency
  PROVE  /\ UNCHANGED <<world, edges, todo>>
         /\ \/ /\ at' = "refused" /\ why' \in {"fetch", "dependency", "self", "version", "source"}
               /\ UNCHANGED <<nodes, stack>>
            \/ /\ UNCHANGED <<at, why, nodes>>
               /\ \E f \in Frames : Advanced(f) /\ stack' = Append(Below, f)
            \/ \E f \in Frames, n \in Nodes : Advanced(f) /\ Pushed(n, Append(Below, f))
<1>1. stack \in Seq(Frames) /\ stack # <<>> /\ IsWorld(world)
  BY DEF TypeOK, ResolveDependency
<1>2. Len(stack) \in 1 .. Len(stack) /\ Top \in Frames
  BY <1>1, TopType
<1>3. Top.found \subseteq nodes /\ Top.node \in Nodes /\ Top.left \subseteq Dependencies
  BY <1>2 DEF GraphInv, Top, Frames
<1>4. PICK d \in Top.left :
        LET child == DependencyNode(Top.node, d)
            rest == [Top EXCEPT !.left = @ \ {d}]
        IN  \/ d.kind # "path" /\ Refuse("fetch")
            \/ DependencyFails(Top.node, d) /\ Refuse("dependency")
            \/ /\ ~DependencyFails(Top.node, d)
               /\ child \in nodes
               /\ IF child = Top.node THEN Refuse("self")
                  ELSE /\ stack' = Append(Below, [rest EXCEPT !.found = @ \cup {child}])
                       /\ UNCHANGED <<world, at, why, nodes, edges>>
            \/ /\ ~DependencyFails(Top.node, d)
               /\ child \notin nodes
               /\ Open(child, Append(Below, rest))
  BY DEF ResolveDependency
<1> DEFINE child == DependencyNode(Top.node, d)
           rest == [Top EXCEPT !.left = @ \ {d}]
<1>5. rest \in Frames /\ Advanced(rest)
  BY <1>2, <1>3 DEF Advanced, Frames
<1>6. CASE Refuse("fetch") \/ Refuse("dependency") \/ Refuse("self")
  BY <1>6 DEF Refuse, ResolveDependency
<1>7. CASE /\ child \in nodes
           /\ stack' = Append(Below, [rest EXCEPT !.found = @ \cup {child}])
           /\ UNCHANGED <<world, at, why, nodes, edges>>
  <2>1. child \in Nodes /\ nodes \subseteq Nodes
    BY <1>7 DEF TypeOK
  <2>2. [rest EXCEPT !.found = @ \cup {child}] \in Frames
        /\ Advanced([rest EXCEPT !.found = @ \cup {child}])
    BY <1>2, <1>3, <1>7, <2>1 DEF Advanced, Frames
  <2>3. QED
    BY <1>7, <2>2 DEF ResolveDependency
<1>8. CASE ~DependencyFails(Top.node, d) /\ Open(child, Append(Below, rest))
  <2>1. child \in Nodes
    BY <1>1, <1>3, <1>8, DependencyNodeType
  <2>2. /\ UNCHANGED <<world, edges>>
        /\ \/ at' = "refused" /\ why' \in {"version", "source"} /\ UNCHANGED <<nodes, stack>>
           \/ Pushed(child, Append(Below, rest))
    BY <1>1, <1>8, <2>1, OpenShape
  <2>3. QED
    BY <1>5, <2>1, <2>2 DEF ResolveDependency
<1>9. QED
  BY <1>4, <1>6, <1>7, <1>8
-----------------------------------------------------------------------------
\* The search for an order: its stack is a path, without what is in the order,
\* and what is in the order is behind all it needs.
PathInv ==
  /\ at \notin {"order", "planned", "refused"} => active = <<>> /\ order = <<>>
  /\ \A i \in 1 .. Len(active) : active[i] \in nodes
  /\ \A i \in 1 .. Len(order) : order[i] \in nodes
  /\ \A i, j \in 1 .. Len(active) : active[i] = active[j] => i = j
  /\ \A i, j \in 1 .. Len(order) : order[i] = order[j] => i = j
  /\ \A i \in 1 .. Len(active), j \in 1 .. Len(order) : active[i] # order[j]
  /\ \A i \in 1 .. Len(active) - 1 : active[i + 1] \in edges[active[i]]
  /\ \A i \in 1 .. Len(order) : edges[order[i]] \subseteq {order[j] : j \in 1 .. i - 1}

\* When the resolver is done, every node has its edges.
LEMMA EdgesAreNodes ==
  ASSUME TypeOK, GraphInv, at \in {"resolved", "order", "planned"}
  PROVE  /\ DOMAIN edges = nodes
         /\ \A n \in nodes : edges[n] \subseteq nodes
<1>1. stack = <<>> /\ Len(stack) = 0
  BY DEF GraphInv
<1>2. nodes \subseteq DOMAIN edges
  BY <1>1 DEF GraphInv
<1>3. QED
  BY <1>2 DEF TypeOK

\* The roots, and the entry packages among them.
LEMMA RootsType ==
  ASSUME IsWorld(world)
  PROVE  EntryPackages \subseteq Roots /\ \A r \in Roots : r \in Nodes /\ r.place \in Places
<1>1. \A r \in Roots : r \in Nodes /\ r.place \in Places
  BY TopLevelPlaces, SeedType DEF Roots, Nodes
<1>2. QED
  BY <1>1 DEF EntryPackages

\* The targets that may be the entry are targets of the package.
LEMMA EntryTargetsType == \A m : EntryTargets(m) \subseteq m.targets
BY DEF EntryTargets

\* TypeOK in three parts.
StateTyped ==
  /\ IsWorld(world)
  /\ at \in {"invoked", "seeds", "resolve", "resolved", "order", "planned", "refused"}
  /\ why \in {"none", "usage", "workspace", "fetch", "dependency", "self", "version", "source",
              "toolchain", "entry package", "entry target", "entry file", "cycle", "file"}

GraphTyped ==
  /\ todo \subseteq Places
  /\ nodes \subseteq Nodes
  /\ edges \in [DOMAIN edges -> SUBSET nodes] /\ DOMAIN edges \subseteq nodes
  /\ stack \in Seq(Frames)

PlanTyped ==
  /\ request \in Requests
  /\ active \in Seq(Nodes)
  /\ order \in Seq(Nodes)
  /\ entry \in Targets \cup {NoEntry}
  /\ plan.packages \subseteq [id : Nodes, targets : SUBSET Targets, needs : SUBSET Nodes]
  /\ plan.order \in Seq(Nodes)
  /\ plan.entry \in Targets \cup {NoEntry}

\* The parts make up the type invariant.
LEMMA TypeParts == TypeOK <=> StateTyped /\ GraphTyped /\ PlanTyped
BY DEF TypeOK, StateTyped, GraphTyped, PlanTyped

\* Every case starts well-typed.
LEMMA InitTyping == Init => TypeOK
<1> SUFFICES ASSUME Init PROVE StateTyped /\ GraphTyped /\ PlanTyped
  BY TypeParts
<1>1. PICK c \in Cases : world = c.world /\ request = c.request
  BY DEF Init
<1>2. IsWorld(world) /\ request \in Requests
  BY <1>1, PlanAssumption
<1>3. StateTyped
  <2>1. at = "invoked" /\ why = "none"
    BY DEF Init, GraphInit
  <2>2. QED
    BY <1>2, <2>1 DEF StateTyped
<1>4. GraphTyped
  <2>1. DOMAIN edges = {} /\ edges \in [{} -> SUBSET nodes]
    BY DEF Init, GraphInit
  <2>2. todo = {} /\ nodes = {} /\ stack = <<>>
    BY DEF Init, GraphInit
  <2>3. QED
    BY <2>1, <2>2 DEF GraphTyped
<1>5. PlanTyped
  <2>1. plan.packages = {} /\ plan.order = <<>> /\ plan.entry = NoEntry
    BY DEF Init, NoPlan
  <2>2. active = <<>> /\ order = <<>> /\ entry = NoEntry
    BY DEF Init
  <2>3. QED
    BY <1>2, <2>1, <2>2 DEF PlanTyped
<1>6. QED
  BY <1>3, <1>4, <1>5

\* A step keeps the types of the world and the place of the run.
LEMMA StateTypedStep ==
  ASSUME StateTyped, TypeOK, GraphInv, [Next]_vars
  PROVE  StateTyped'
<1>1. world' = world
  <2>1. CASE ResolveSeed
    BY <2>1, SeedType, OpenShape DEF ResolveSeed, TypeOK
  <2>2. CASE ResolveDependency
    BY <2>2, DependencyShape
  <2>3. QED
    BY <2>1, <2>2 DEF Next, GraphNext, vars, graphVars, planVars, ParsePlanInvocation, BuildRootSeeds,
      Refuse, Return, Resolved, SelectEntry, Visit, Leave, WritePlan
<1>2. /\ at' \in {at, "seeds", "resolve", "resolved", "order", "planned", "refused"}
      /\ why' \in {why, "usage", "workspace", "fetch", "dependency", "self", "version", "source",
                   "toolchain", "entry package", "entry target", "entry file", "cycle", "file"}
  <2>1. CASE ResolveSeed
    BY <2>1, SeedType, OpenShape DEF ResolveSeed, TypeOK, Pushed
  <2>2. CASE ResolveDependency
    BY <2>2, DependencyShape DEF Pushed
  <2>3. CASE SelectEntry
    BY <2>3 DEF SelectEntry
  <2>4. CASE ParsePlanInvocation \/ BuildRootSeeds \/ Return \/ Resolved
    BY <2>4 DEF ParsePlanInvocation, BuildRootSeeds, Refuse, Return, Resolved
  <2>5. CASE Visit \/ Leave \/ WritePlan \/ UNCHANGED vars
    BY <2>5 DEF Visit, Leave, WritePlan, vars, graphVars
  <2>6. QED
    BY <2>1, <2>2, <2>3, <2>4, <2>5 DEF Next, GraphNext
<1>3. IsWorld(world')
  BY <1>1 DEF StateTyped
<1>4. QED
  BY <1>2, <1>3 DEF StateTyped

\* A visit keeps the types of the tables.
LEMMA PushedTyping ==
  ASSUME GraphTyped, NEW n \in Nodes, NEW under \in Seq(Frames), Pushed(n, under), UNCHANGED edges,
         todo' \subseteq Places
  PROVE  GraphTyped'
<1>1. nodes' \subseteq Nodes /\ nodes \subseteq nodes' /\ stack' \in Seq(Frames)
  BY DEF Pushed, GraphTyped
<1>2. edges' \in [DOMAIN edges' -> SUBSET nodes'] /\ DOMAIN edges' \subseteq nodes'
  BY <1>1 DEF GraphTyped
<1>3. QED
  BY <1>1, <1>2 DEF GraphTyped

\* So does a step that leaves the tables alone.
LEMMA SameGraphTyping ==
  ASSUME GraphTyped, UNCHANGED <<nodes, edges>>, todo' \subseteq Places, stack' \in Seq(Frames)
  PROVE  GraphTyped'
<1>1. edges' \in [DOMAIN edges' -> SUBSET nodes'] /\ DOMAIN edges' \subseteq nodes'
  BY DEF GraphTyped
<1>2. QED
  BY <1>1 DEF GraphTyped

\* So does a return.
LEMMA ReturnTyping ==
  ASSUME TypeOK, GraphInv, Return
  PROVE  GraphTyped'
<1>1. /\ stack \in Seq(Frames) /\ stack # <<>>
      /\ edges \in [DOMAIN edges -> SUBSET nodes] /\ DOMAIN edges \subseteq nodes
      /\ nodes \subseteq Nodes /\ todo \subseteq Places
  BY DEF Return, TypeOK
<1>2. /\ Len(stack) \in Nat \ {0} /\ Top \in Frames
      /\ Below \in Seq(Frames) /\ Len(Below) = Len(stack) - 1
  BY <1>1, TopType
<1>3. Top.node \in nodes /\ Top.found \subseteq nodes
  <2>1. Len(stack) \in 1 .. Len(stack)
    BY <1>2
  <2>2. QED
    BY <2>1 DEF GraphInv, Top
<1>4. edges' \in [DOMAIN edges' -> SUBSET nodes'] /\ DOMAIN edges' \subseteq nodes'
  <2> DEFINE D == DOMAIN edges \cup {Top.node}
             E == [n \in D |-> IF n = Top.node THEN Top.found ELSE edges[n]]
  <2>1. edges' = E /\ nodes' = nodes
    BY DEF Return
  <2>2. \A n \in D : (IF n = Top.node THEN Top.found ELSE edges[n]) \in SUBSET nodes
    BY <1>1, <1>3
  <2>3. DOMAIN E = D /\ E \in [D -> SUBSET nodes]
    BY <2>2
  <2>4. D \subseteq nodes
    BY <1>1, <1>3
  <2> HIDE DEF D, E
  <2>5. QED
    BY <2>1, <2>3, <2>4
<1>5. stack' \in Seq(Frames)
  <2>1. CASE Len(stack) = 1
    BY <2>1 DEF Return
  <2>2. CASE Len(stack) # 1
    <3> DEFINE k == Len(stack) - 1
               f == [Below[k] EXCEPT !.found = @ \cup {Top.node}]
    <3>1. k \in 1 .. Len(Below)
      BY <1>2, <2>2
    <3>2. Below[k] \in Frames
      BY <1>2, <3>1, ElementOfSeq
    <3>3. f \in Frames
      BY <1>1, <1>3, <3>2 DEF Frames
    <3>4. stack' = [Below EXCEPT ![k] = f]
      BY <2>2 DEF Return
    <3> HIDE DEF k, f
    <3>5. QED
      BY <1>2, <3>1, <3>3, <3>4, ExceptSeq
  <2>3. QED
    BY <2>1, <2>2
<1>6. nodes' \subseteq Nodes /\ todo' \subseteq Places
  BY <1>1 DEF Return
<1>7. QED
  BY <1>4, <1>5, <1>6 DEF GraphTyped

\* So does every step.
LEMMA GraphTypedStep ==
  ASSUME GraphTyped, TypeOK, GraphInv, [Next]_vars
  PROVE  GraphTyped'
<1>1. /\ todo \subseteq Places /\ stack \in Seq(Frames) /\ <<>> \in Seq(Frames)
      /\ IsWorld(world)
  <2>1. <<>> \in Seq(Frames)
    OBVIOUS
  <2>2. QED
    BY <2>1, TypeParts DEF GraphTyped, StateTyped
<1>2. CASE BuildRootSeeds
  <2>1. UNCHANGED <<nodes, edges, stack>> /\ todo' \in {todo, TopLevel}
    BY <1>2 DEF BuildRootSeeds, Refuse
  <2>2. TopLevel \subseteq Places
    BY <1>1, TopLevelPlaces
  <2>3. QED
    BY <1>1, <2>1, <2>2, SameGraphTyping
<1>3. CASE ResolveSeed
  <2>1. PICK p \in todo : /\ todo' = todo \ {p}
                          /\ IF Seed(p) \in nodes THEN UNCHANGED <<world, at, why, nodes, edges, stack>>
                             ELSE Open(Seed(p), <<>>)
    BY <1>3 DEF ResolveSeed
  <2>2. Seed(p) \in Nodes /\ todo' \subseteq Places
    BY <1>1, <2>1, SeedType
  <2>3. CASE UNCHANGED <<world, at, why, nodes, edges, stack>>
    BY <1>1, <2>2, <2>3, SameGraphTyping
  <2>4. CASE Open(Seed(p), <<>>)
    <3>1. /\ UNCHANGED <<world, edges>>
          /\ UNCHANGED <<nodes, stack>> \/ Pushed(Seed(p), <<>>)
      BY <1>1, <2>2, <2>4, OpenShape
    <3>2. QED
      BY <1>1, <2>2, <3>1, SameGraphTyping, PushedTyping
  <2>5. QED
    BY <2>1, <2>3, <2>4
<1>4. CASE ResolveDependency
  <2>1. UNCHANGED <<world, edges, todo>> /\ Below \in Seq(Frames)
    BY <1>1, <1>4, DependencyShape, TopType DEF ResolveDependency
  <2>2. \/ UNCHANGED <<nodes, stack>>
        \/ UNCHANGED nodes /\ \E f \in Frames : stack' = Append(Below, f)
        \/ \E f \in Frames, n \in Nodes : Pushed(n, Append(Below, f))
    BY <1>4, DependencyShape
  <2>3. CASE UNCHANGED <<nodes, stack>>
    BY <1>1, <2>1, <2>3, SameGraphTyping
  <2>4. CASE UNCHANGED nodes /\ \E f \in Frames : stack' = Append(Below, f)
    <3>1. stack' \in Seq(Frames)
      BY <2>1, <2>4
    <3>2. QED
      BY <1>1, <2>1, <2>4, <3>1, SameGraphTyping
  <2>5. ASSUME NEW f \in Frames, NEW n \in Nodes, Pushed(n, Append(Below, f)) PROVE GraphTyped'
    <3>1. Append(Below, f) \in Seq(Frames) /\ todo' \subseteq Places
      BY <1>1, <2>1
    <3>2. QED
      BY <2>1, <2>5, <3>1, PushedTyping
  <2>6. QED
    BY <2>2, <2>3, <2>4, <2>5
<1>5. CASE Return
  BY <1>5, ReturnTyping
<1>6. CASE UNCHANGED <<todo, nodes, edges, stack>>
  BY <1>1, <1>6, SameGraphTyping
<1>7. QED
  BY <1>2, <1>3, <1>4, <1>5, <1>6
  DEF Next, GraphNext, vars, graphVars, ParsePlanInvocation, Resolved, SelectEntry, Visit, Leave, WritePlan

\* What the entry is looked for in.
LEMMA FoundTargets ==
  ASSUME IsWorld(world), NEW r \in EntryPackages
  PROVE  EntryTargets(Manifest(r.place)) \subseteq Targets
<1>1. r.place \in Places
  BY RootsType
<1>2. Manifest(r.place).targets \subseteq Targets
  BY <1>1, WorldFacts
<1>3. QED
  BY <1>2, EntryTargetsType

\* A step keeps the types of the search and the plan.
LEMMA PlanTypedStep ==
  ASSUME PlanTyped, TypeOK, GraphInv, PathInv, [Next]_vars
  PROVE  PlanTyped'
<1>1. IsWorld(world) /\ nodes \subseteq Nodes
  BY TypeParts DEF StateTyped, GraphTyped
<1>2. CASE UNCHANGED planVars
  BY <1>2 DEF planVars, PlanTyped
<1>3. CASE SelectEntry
  <2>1. UNCHANGED <<request, active, order, plan>>
    BY <1>3 DEF SelectEntry
  <2>2. entry' \in Targets \cup {NoEntry}
    <3> DEFINE found == UNION {EntryTargets(Manifest(r.place)) : r \in EntryPackages}
               there == {t \in found : \A r \in EntryPackages : t \notin Manifest(r.place).absent}
    <3>1. there \subseteq Targets
      BY <1>1, FoundTargets
    <3>2. entry' = entry \/ (there # {} /\ entry' = CHOOSE t \in there : TRUE)
      BY <1>3 DEF SelectEntry
    <3> HIDE DEF there
    <3>3. QED
      BY <3>1, <3>2 DEF PlanTyped
  <2>3. QED
    BY <2>1, <2>2 DEF PlanTyped
<1>4. CASE Visit
  <2>1. UNCHANGED <<request, order, entry, plan>>
    BY <1>4 DEF Visit
  <2>2. active \in Seq(Nodes)
    BY DEF PlanTyped
  <2>3. PICK n \in IF active = <<>> THEN nodes ELSE edges[active[Len(active)]] :
          active' = active \/ active' = Append(active, n)
    BY <1>4 DEF Visit
  <2>4. n \in nodes
    <3>1. CASE active = <<>>
      BY <2>3, <3>1
    <3>2. CASE active # <<>>
      <4>1. Len(active) \in 1 .. Len(active)
        BY <2>2, <3>2, ActiveType
      <4>2. active[Len(active)] \in nodes
        BY <4>1 DEF PathInv
      <4>3. edges[active[Len(active)]] \subseteq nodes
        BY <1>4, <4>2, EdgesAreNodes DEF Visit
      <4>4. QED
        BY <2>3, <3>2, <4>3
    <3>3. QED
      BY <3>1, <3>2
  <2>5. active' \in Seq(Nodes)
    BY <1>1, <2>2, <2>3, <2>4
  <2>6. QED
    BY <2>1, <2>5 DEF PlanTyped
<1>5. CASE Leave
  <2>1. UNCHANGED <<request, entry, plan>>
    BY <1>5 DEF Leave
  <2>2. active \in Seq(Nodes) /\ order \in Seq(Nodes) /\ active # <<>>
    BY <1>5 DEF PlanTyped, Leave
  <2>3. active' \in Seq(Nodes) /\ order' \in Seq(Nodes)
    BY <1>5, <2>2, ActiveType DEF Leave
  <2>4. QED
    BY <2>1, <2>3 DEF PlanTyped
<1>6. CASE WritePlan
  <2>1. UNCHANGED <<request, active, order, entry>>
    BY <1>6 DEF WritePlan
  <2>2. CASE UNCHANGED plan
    BY <2>1, <2>2 DEF PlanTyped
  <2>3. CASE plan' = [packages |-> {PlanPackage(n) : n \in nodes}, order |-> order, entry |-> entry]
    <3>1. ASSUME NEW n \in nodes
          PROVE  PlanPackage(n) \in [id : Nodes, targets : SUBSET Targets, needs : SUBSET Nodes]
      <4>1. n \in Nodes /\ n.place \in Places
        BY <1>1 DEF Nodes
      <4>2. edges[n] \subseteq Nodes
        BY <1>1, <1>6, EdgesAreNodes DEF WritePlan
      <4>3. Manifest(n.place).targets \subseteq Targets
        BY <1>1, <4>1, WorldFacts
      <4>4. QED
        BY <4>1, <4>2, <4>3 DEF PlanPackage
    <3>2. /\ plan'.packages = {PlanPackage(n) : n \in nodes}
          /\ plan'.order = order /\ plan'.entry = entry
      BY <2>3
    <3>3. plan'.packages \subseteq [id : Nodes, targets : SUBSET Targets, needs : SUBSET Nodes]
      BY <3>1, <3>2
    <3>4. QED
      BY <2>1, <3>2, <3>3 DEF PlanTyped
  <2>4. QED
    BY <1>6, <2>2, <2>3 DEF WritePlan
<1>7. QED
  BY <1>2, <1>3, <1>4, <1>5, <1>6 DEF Next, ParsePlanInvocation, vars, planVars

\* A step keeps all types.
LEMMA TypingStep ==
  ASSUME TypeOK, GraphInv, PathInv, [Next]_vars
  PROVE  TypeOK'
<1>1. StateTyped /\ GraphTyped /\ PlanTyped
  BY TypeParts
<1>2. StateTyped' /\ GraphTyped' /\ PlanTyped'
  BY <1>1, StateTypedStep, GraphTypedStep, PlanTypedStep
<1>3. QED
  BY <1>2 DEF TypeOK, StateTyped, GraphTyped, PlanTyped
-----------------------------------------------------------------------------
LEMMA FramesBelow ==
  ASSUME TypeOK, GraphInv, stack # <<>>
  PROVE  /\ Len(stack) \in Nat \ {0} /\ Top = stack[Len(stack)]
         /\ Top.node \in nodes /\ Top.found \subseteq nodes
         /\ Below \in Seq(Frames) /\ Len(Below) = Len(stack) - 1
         /\ \A i \in 1 .. Len(Below) : /\ Below[i] = stack[i]
                                       /\ Below[i].node \in nodes /\ Below[i].found \subseteq nodes
         /\ nodes \subseteq DOMAIN edges \cup {Below[i].node : i \in 1 .. Len(Below)} \cup {Top.node}
<1>1. stack \in Seq(Frames)
  BY TypeParts DEF GraphTyped
<1>2. /\ Len(stack) \in Nat \ {0} /\ Below \in Seq(Frames) /\ Len(Below) = Len(stack) - 1
      /\ \A i \in 1 .. Len(stack) - 1 : Below[i] = stack[i]
  BY <1>1, TopType
<1>3. Len(stack) \in 1 .. Len(stack) /\ \A i \in 1 .. Len(Below) : i \in 1 .. Len(stack)
  BY <1>2
<1>4. Top.node \in nodes /\ Top.found \subseteq nodes
  BY <1>3 DEF GraphInv, Top
<1>5. \A i \in 1 .. Len(Below) : /\ Below[i] = stack[i]
                                 /\ Below[i].node \in nodes /\ Below[i].found \subseteq nodes
  BY <1>2, <1>3 DEF GraphInv
<1>6. ASSUME NEW n \in nodes, n \notin DOMAIN edges, n # Top.node
      PROVE  \E i \in 1 .. Len(Below) : Below[i].node = n
  <2>1. PICK i \in 1 .. Len(stack) : stack[i].node = n
    BY <1>6 DEF GraphInv
  <2>2. i # Len(stack)
    BY <1>6, <2>1 DEF Top
  <2>3. i \in 1 .. Len(Below)
    BY <1>2, <2>2
  <2>4. QED
    BY <1>5, <2>1, <2>3
<1>7. QED
  BY <1>2, <1>4, <1>5, <1>6 DEF Top

\* A frame f on top of the frames of under, all of registered nodes.
LEMMA GraphGrows ==
  ASSUME NEW under \in Seq(Frames), NEW f \in Frames, NEW more,
         \A i \in 1 .. Len(under) : under[i].node \in nodes /\ under[i].found \subseteq nodes,
         f.node \in nodes', f.found \subseteq nodes', nodes \subseteq nodes',
         nodes' \subseteq DOMAIN edges \cup {under[i].node : i \in 1 .. Len(under)} \cup {f.node},
         stack' = Append(under, f), UNCHANGED edges, at' = "resolve"
  PROVE  GraphInv'
<1>1. /\ Len(stack') = Len(under) + 1 /\ Len(under) \in Nat
      /\ stack'[Len(under) + 1] = f
      /\ \A i \in 1 .. Len(under) : stack'[i] = under[i]
  BY AppendProperties
<1>2. ASSUME NEW i \in 1 .. Len(stack')
      PROVE  stack'[i].node \in nodes' /\ stack'[i].found \subseteq nodes'
  <2>1. i \in 1 .. Len(under) \/ i = Len(under) + 1
    BY <1>1
  <2>2. QED
    BY <1>1, <2>1
<1>3. ASSUME NEW n \in nodes', n \notin DOMAIN edges
      PROVE  \E i \in 1 .. Len(stack') : stack'[i].node = n
  <2>1. CASE n = f.node
    <3>1. Len(under) + 1 \in 1 .. Len(stack')
      BY <1>1
    <3>2. QED
      BY <1>1, <2>1, <3>1
  <2>2. CASE n # f.node
    <3>1. PICK i \in 1 .. Len(under) : under[i].node = n
      BY <1>3, <2>2
    <3>2. i \in 1 .. Len(stack') /\ stack'[i].node = n
      BY <1>1, <3>1
    <3>3. QED
      BY <3>2
  <2>3. QED
    BY <2>1, <2>2
<1>4. QED
  BY <1>2, <1>3 DEF GraphInv

\* A step keeps what is taken down registered.
LEMMA GraphStep ==
  ASSUME TypeOK, GraphInv, PathInv, [Next]_vars
  PROVE  GraphInv'
<1>1. IsWorld(world) /\ stack \in Seq(Frames) /\ todo \subseteq Places
  BY TypeParts DEF StateTyped, GraphTyped
<1>2. CASE ResolveSeed
  <2>1. PICK p \in todo : IF Seed(p) \in nodes THEN UNCHANGED <<world, at, why, nodes, edges, stack>>
                          ELSE Open(Seed(p), <<>>)
    BY <1>2 DEF ResolveSeed
  <2>2. Seed(p) \in Nodes /\ stack = <<>> /\ at = "resolve"
    BY <1>1, <1>2, <2>1, SeedType DEF ResolveSeed
  <2>3. CASE UNCHANGED <<world, at, why, nodes, edges, stack>>
    BY <2>3 DEF GraphInv
  <2>4. CASE at' = "refused" /\ UNCHANGED <<nodes, edges, stack>>
    BY <2>4 DEF GraphInv
  <2>5. CASE Pushed(Seed(p), <<>>) /\ UNCHANGED edges
    <3>1. PICK f \in Frames : stack' = Append(<<>>, f) /\ f.node = Seed(p) /\ f.found = {}
      BY <2>5 DEF Pushed
    <3>2. nodes \subseteq DOMAIN edges
      BY <2>2 DEF GraphInv
    <3>3. nodes' = nodes \cup {f.node} /\ at' = "resolve"
      BY <2>2, <2>5, <3>1 DEF Pushed
    <3>4. <<>> \in Seq(Frames) /\ Len(<<>>) = 0
      OBVIOUS
    <3>5. nodes' \subseteq DOMAIN edges \cup {<<>>[i].node : i \in 1 .. Len(<<>>)} \cup {f.node}
      BY <3>2, <3>3
    <3>6. f.node \in nodes' /\ f.found \subseteq nodes' /\ nodes \subseteq nodes'
      BY <3>1, <3>3
    <3>7. \A i \in 1 .. Len(<<>>) : <<>>[i].node \in nodes /\ <<>>[i].found \subseteq nodes
      BY <3>4
    <3>8. QED
      BY <2>5, <3>1, <3>3, <3>4, <3>5, <3>6, <3>7, GraphGrows
  <2>6. QED
    BY <1>1, <2>1, <2>2, <2>3, <2>4, <2>5, OpenShape
<1>3. CASE ResolveDependency
  <2>1. UNCHANGED edges /\ at = "resolve" /\ stack # <<>>
    BY <1>3, DependencyShape DEF ResolveDependency
  <2>2. /\ Below \in Seq(Frames) /\ Top.node \in nodes
        /\ \A i \in 1 .. Len(Below) : Below[i].node \in nodes /\ Below[i].found \subseteq nodes
        /\ nodes \subseteq DOMAIN edges \cup {Below[i].node : i \in 1 .. Len(Below)} \cup {Top.node}
    BY <2>1, FramesBelow
  <2>3. CASE at' = "refused" /\ UNCHANGED <<nodes, stack>>
    BY <2>1, <2>3 DEF GraphInv
  <2>4. ASSUME NEW f \in Frames, Advanced(f), stack' = Append(Below, f), UNCHANGED <<at, nodes>>
        PROVE  GraphInv'
    <3>1. f.node = Top.node /\ f.found \subseteq nodes
      BY <2>4 DEF Advanced
    <3>2. QED
      BY <2>1, <2>2, <2>4, <3>1, GraphGrows
  <2>5. ASSUME NEW f \in Frames, NEW n \in Nodes, Advanced(f), Pushed(n, Append(Below, f))
        PROVE  GraphInv'
    <3> DEFINE under == Append(Below, f)
    <3>1. f.node = Top.node /\ f.found \subseteq nodes
      BY <2>5 DEF Advanced
    <3>2. /\ under \in Seq(Frames) /\ Len(under) = Len(Below) + 1 /\ Len(Below) \in Nat
          /\ under[Len(Below) + 1] = f
          /\ \A i \in 1 .. Len(Below) : under[i] = Below[i]
      BY <2>2, AppendProperties
    <3>3. PICK g \in Frames : stack' = Append(under, g) /\ g.node = n /\ g.found = {}
      BY <2>5 DEF Pushed
    <3>4. nodes' = nodes \cup {n} /\ at' = "resolve"
      BY <2>1, <2>5 DEF Pushed
    <3> HIDE DEF under
    <3>5. ASSUME NEW i \in 1 .. Len(under)
          PROVE  under[i].node \in nodes /\ under[i].found \subseteq nodes
      <4>1. i \in 1 .. Len(Below) \/ i = Len(Below) + 1
        BY <3>2
      <4>2. QED
        BY <2>2, <3>1, <3>2, <4>1
    <3>6. ASSUME NEW m \in nodes, m \notin DOMAIN edges
          PROVE  \E i \in 1 .. Len(under) : under[i].node = m
      <4>1. CASE m = Top.node
        <5>1. Len(Below) + 1 \in 1 .. Len(under)
          BY <3>2
        <5>2. QED
          BY <3>1, <3>2, <4>1, <5>1
      <4>2. CASE m # Top.node
        <5>1. PICK i \in 1 .. Len(Below) : Below[i].node = m
          BY <2>2, <3>6, <4>2
        <5>2. i \in 1 .. Len(under) /\ under[i].node = m
          BY <3>2, <5>1
        <5>3. QED
          BY <5>2
      <4>3. QED
        BY <4>1, <4>2
    <3>7. nodes' \subseteq DOMAIN edges \cup {under[i].node : i \in 1 .. Len(under)} \cup {g.node}
      BY <3>3, <3>4, <3>6
    <3>8. g.node \in nodes' /\ g.found \subseteq nodes' /\ nodes \subseteq nodes'
      BY <3>3, <3>4
    <3>9. QED
      BY <2>1, <3>2, <3>3, <3>4, <3>5, <3>7, <3>8, GraphGrows
  <2>6. QED
    BY <1>3, <2>3, <2>4, <2>5, DependencyShape
<1>4. CASE Return
  <2>1. stack # <<>> /\ at' = "resolve" /\ UNCHANGED nodes
    BY <1>4 DEF Return
  <2>2. /\ Len(stack) \in Nat \ {0} /\ Below \in Seq(Frames) /\ Len(Below) = Len(stack) - 1
        /\ Top.node \in nodes
        /\ \A i \in 1 .. Len(Below) : Below[i].node \in nodes /\ Below[i].found \subseteq nodes
        /\ nodes \subseteq DOMAIN edges \cup {Below[i].node : i \in 1 .. Len(Below)} \cup {Top.node}
    BY <2>1, FramesBelow
  <2>3. DOMAIN edges' = DOMAIN edges \cup {Top.node}
    BY <1>4 DEF Return
  <2>4. /\ Len(stack') = Len(Below)
        /\ \A i \in 1 .. Len(stack') : /\ stack'[i].node = Below[i].node
                                       /\ stack'[i].found \subseteq nodes
    <3>1. CASE Len(stack) = 1
      BY <1>4, <2>2, <3>1 DEF Return
    <3>2. CASE Len(stack) # 1
      <4> DEFINE k == Len(stack) - 1
                 f == [Below[k] EXCEPT !.found = @ \cup {Top.node}]
      <4>1. k \in 1 .. Len(Below)
        BY <2>2, <3>2
      <4>2. Below[k] \in Frames
        BY <2>2, <4>1, ElementOfSeq
      <4>3. f \in Frames /\ f.node = Below[k].node /\ f.found = Below[k].found \cup {Top.node}
        <5>1. Top.node \in Nodes
          BY <2>2, TypeParts DEF GraphTyped
        <5>2. QED
          BY <4>2, <5>1 DEF Frames
      <4>4. stack' = [Below EXCEPT ![k] = f]
        BY <1>4, <3>2 DEF Return
      <4> HIDE DEF k, f
      <4>5. /\ Len(stack') = Len(Below)
            /\ \A j \in 1 .. Len(Below) : stack'[j] = IF j = k THEN f ELSE Below[j]
        BY <2>2, <4>1, <4>3, <4>4, ExceptSeq
      <4>6. QED
        BY <2>2, <4>1, <4>3, <4>5
    <3>3. QED
      BY <3>1, <3>2
  <2>5. nodes' \subseteq DOMAIN edges' \cup {stack'[i].node : i \in 1 .. Len(stack')}
    BY <2>1, <2>2, <2>3, <2>4
  <2>6. \A i \in 1 .. Len(stack') : stack'[i].node \in nodes' /\ stack'[i].found \subseteq nodes'
    BY <2>1, <2>2, <2>4
  <2>7. QED
    BY <2>1, <2>5, <2>6 DEF GraphInv
<1>5. CASE UNCHANGED <<nodes, edges, stack>> /\ (at' # "resolve" /\ at' # "refused" => stack = <<>>)
  BY <1>5 DEF GraphInv
<1>6. CASE ParsePlanInvocation \/ BuildRootSeeds \/ Resolved
  BY <1>5, <1>6 DEF ParsePlanInvocation, BuildRootSeeds, Refuse, Resolved, GraphInv
<1>7. CASE SelectEntry \/ Visit \/ Leave \/ WritePlan \/ UNCHANGED vars
  BY <1>5, <1>7 DEF SelectEntry, Visit, Leave, WritePlan, vars, graphVars, GraphInv
<1>8. QED
  BY <1>2, <1>3, <1>4, <1>6, <1>7 DEF Next, GraphNext
-----------------------------------------------------------------------------
LEMMA ElementsOf ==
  ASSUME NEW S, NEW s \in Seq(S)
  PROVE  Len(s) \in Nat /\ Elements(s) = {s[i] : i \in 1 .. Len(s)}
BY LenProperties DEF Elements

\* The search, after a step that leaves it alone.
LEMMA SamePath ==
  ASSUME PathInv, UNCHANGED <<nodes, edges, active, order>>,
         at' \notin {"order", "planned", "refused"} => active = <<>> /\ order = <<>>
  PROVE  PathInv'
<1>1. /\ \A i \in 1 .. Len(active) : active[i] \in nodes
      /\ \A i \in 1 .. Len(order) : order[i] \in nodes
  BY DEF PathInv
<1>2. /\ \A i, j \in 1 .. Len(active) : active[i] = active[j] => i = j
      /\ \A i, j \in 1 .. Len(order) : order[i] = order[j] => i = j
  BY DEF PathInv
<1>3. \A i \in 1 .. Len(active), j \in 1 .. Len(order) : active[i] # order[j]
  BY DEF PathInv
<1>4. /\ \A i \in 1 .. Len(active) - 1 : active[i + 1] \in edges[active[i]]
      /\ \A i \in 1 .. Len(order) : edges[order[i]] \subseteq {order[j] : j \in 1 .. i - 1}
  BY DEF PathInv
<1>5. /\ \A i \in 1 .. Len(active') : active'[i] \in nodes'
      /\ \A i \in 1 .. Len(order') : order'[i] \in nodes'
  BY <1>1
<1>6. /\ \A i, j \in 1 .. Len(active') : active'[i] = active'[j] => i = j
      /\ \A i, j \in 1 .. Len(order') : order'[i] = order'[j] => i = j
      /\ \A i \in 1 .. Len(active'), j \in 1 .. Len(order') : active'[i] # order'[j]
  BY <1>2, <1>3
<1>7. /\ \A i \in 1 .. Len(active') - 1 : active'[i + 1] \in edges'[active'[i]]
      /\ \A i \in 1 .. Len(order') : edges'[order'[i]] \subseteq {order'[j] : j \in 1 .. i - 1}
  BY <1>4
<1>8. QED
  BY <1>5, <1>6, <1>7 DEF PathInv

\* The search before it starts.
LEMMA EmptyPath == active' = <<>> /\ order' = <<>> => PathInv'
BY DEF PathInv

\* The package the search is in, and where it may go from there.
LEMMA VisitShape ==
  ASSUME TypeOK, GraphInv, PathInv, Visit
  PROVE  \E n \in nodes :
           /\ n \notin Elements(order)
           /\ active # <<>> => n \in edges[active[Len(active)]]
           /\ \/ n \in Elements(active) /\ at' = "refused" /\ why' = "cycle" /\ UNCHANGED active
              \/ n \notin Elements(active) /\ active' = Append(active, n) /\ UNCHANGED <<at, why>>
<1>1. PICK n \in IF active = <<>> THEN nodes ELSE edges[active[Len(active)]] :
        /\ n \notin Elements(order)
        /\ IF n \in Elements(active)
           THEN at' = "refused" /\ why' = "cycle" /\ UNCHANGED active
           ELSE active' = Append(active, n) /\ UNCHANGED <<at, why>>
  BY DEF Visit
<1>2. n \in nodes
  <2>1. CASE active = <<>>
    BY <1>1, <2>1
  <2>2. CASE active # <<>>
    <3>1. active \in Seq(Nodes)
      BY TypeParts DEF PlanTyped
    <3>2. Len(active) \in 1 .. Len(active)
      BY <2>2, <3>1, ActiveType
    <3>3. active[Len(active)] \in nodes
      BY <3>2 DEF PathInv
    <3>4. edges[active[Len(active)]] \subseteq nodes
      BY <3>3, EdgesAreNodes DEF Visit
    <3>5. QED
      BY <1>1, <2>2, <3>4
  <2>3. QED
    BY <2>1, <2>2
<1>3. active # <<>> => n \in edges[active[Len(active)]]
  BY <1>1
<1>4. QED
  BY <1>1, <1>2, <1>3

\* Going into a package lengthens the path.
LEMMA PathVisit ==
  ASSUME TypeOK, GraphInv, PathInv, Visit
  PROVE  PathInv'
<1>1. active \in Seq(Nodes) /\ order \in Seq(Nodes) /\ nodes \subseteq Nodes
  BY TypeParts DEF PlanTyped, GraphTyped
<1>2. UNCHANGED <<nodes, edges, order>> /\ at = "order"
  BY DEF Visit
<1>3. PICK n \in nodes :
        /\ n \notin Elements(order)
        /\ active # <<>> => n \in edges[active[Len(active)]]
        /\ \/ n \in Elements(active) /\ at' = "refused" /\ UNCHANGED active
           \/ n \notin Elements(active) /\ active' = Append(active, n) /\ UNCHANGED at
  BY VisitShape
<1>4. CASE at' = "refused" /\ UNCHANGED active
  BY <1>2, <1>4, SamePath
<1>5. CASE n \notin Elements(active) /\ active' = Append(active, n) /\ UNCHANGED at
  <2> DEFINE k == Len(active)
  <2>1. /\ k \in Nat /\ Len(active') = k + 1 /\ active'[k + 1] = n
        /\ \A i \in 1 .. k : active'[i] = active[i]
    BY <1>1, <1>3, <1>5, AppendProperties
  <2>2. \A i \in 1 .. k : active[i] # n
    BY <1>1, <1>5, ElementsOf
  <2>3. \A i \in 1 .. Len(order) : order[i] # n
    BY <1>1, <1>3, ElementsOf
  <2>4. k # 0 => n \in edges[active[k]]
    BY <1>1, <1>3, EmptySeq
  <2> HIDE DEF k
  <2>5. \A i \in 1 .. Len(active') : i \in 1 .. k \/ i = k + 1
    BY <2>1
  <2>6. \A i \in 1 .. k : active[i] \in nodes
    BY DEF PathInv, k
  <2>7. \A i \in 1 .. Len(active') : active'[i] \in nodes'
    BY <1>2, <2>1, <2>5, <2>6
  <2>8. ASSUME NEW i \in 1 .. Len(active'), NEW j \in 1 .. Len(active'), active'[i] = active'[j]
        PROVE  i = j
    <3>1. \A a, b \in 1 .. k : active[a] = active[b] => a = b
      BY DEF PathInv, k
    <3>2. QED
      BY <2>1, <2>2, <2>5, <2>8, <3>1
  <2>9. ASSUME NEW i \in 1 .. Len(active'), NEW j \in 1 .. Len(order) PROVE active'[i] # order[j]
    <3>1. \A a \in 1 .. k : active[a] # order[j]
      BY DEF PathInv, k
    <3>2. QED
      BY <2>1, <2>3, <2>5, <3>1
  <2>10. ASSUME NEW i \in 1 .. Len(active') - 1 PROVE active'[i + 1] \in edges[active'[i]]
    <3>1. CASE i = k
      <4>1. k \in 1 .. k /\ k # 0
        BY <3>1, <2>1
      <4>2. QED
        BY <2>1, <2>4, <3>1, <4>1
    <3>2. CASE i # k
      <4>1. i \in 1 .. k - 1 /\ i \in 1 .. k /\ i + 1 \in 1 .. k
        BY <2>1, <3>2
      <4>2. active[i + 1] \in edges[active[i]]
        BY <4>1 DEF PathInv, k
      <4>3. QED
        BY <2>1, <4>1, <4>2
    <3>3. QED
      BY <3>1, <3>2
  <2>11. at' = "order"
    BY <1>2, <1>5
  <2>12. /\ \A i \in 1 .. Len(order) : order[i] \in nodes
         /\ \A i, j \in 1 .. Len(order) : order[i] = order[j] => i = j
         /\ \A i \in 1 .. Len(order) : edges[order[i]] \subseteq {order[j] : j \in 1 .. i - 1}
    BY DEF PathInv
  <2>13. QED
    BY <1>2, <2>7, <2>8, <2>9, <2>10, <2>11, <2>12 DEF PathInv
<1>6. QED
  BY <1>3, <1>4, <1>5

\* Leaving it lengthens the order.
LEMMA PathLeave ==
  ASSUME TypeOK, PathInv, Leave
  PROVE  PathInv'
<1> DEFINE k == Len(active)
           m == Len(order)
           last == active[k]
<1>1. active \in Seq(Nodes) /\ order \in Seq(Nodes) /\ active # <<>>
  BY TypeParts DEF PlanTyped, Leave
<1>2. /\ k \in Nat \ {0} /\ last \in Nodes
      /\ Len(active') = k - 1
      /\ \A i \in 1 .. k - 1 : active'[i] = active[i]
  BY <1>1, ActiveType DEF Leave
<1>3. /\ m \in Nat /\ Len(order') = m + 1 /\ order'[m + 1] = last
      /\ \A i \in 1 .. m : order'[i] = order[i]
  <2>1. order' = Append(order, last)
    BY DEF Leave
  <2> HIDE DEF last
  <2>2. QED
    BY <1>1, <1>2, <2>1, AppendProperties
<1>4. UNCHANGED <<at, nodes, edges>> /\ at = "order"
  BY DEF Leave, graphVars
<1>5. edges[last] \subseteq {order[j] : j \in 1 .. m}
  BY <1>1, ElementsOf DEF Leave
<1>6. /\ \A i \in 1 .. k : active[i] \in nodes
      /\ \A i \in 1 .. m : order[i] \in nodes
      /\ \A i, j \in 1 .. k : active[i] = active[j] => i = j
      /\ \A i, j \in 1 .. m : order[i] = order[j] => i = j
      /\ \A i \in 1 .. k, j \in 1 .. m : active[i] # order[j]
      /\ \A i \in 1 .. k - 1 : active[i + 1] \in edges[active[i]]
      /\ \A i \in 1 .. m : edges[order[i]] \subseteq {order[j] : j \in 1 .. i - 1}
  BY DEF PathInv
<1>7. last = active[k] /\ k \in 1 .. k
  BY <1>2
<1> HIDE DEF k, m, last
<1>8. /\ \A i \in 1 .. Len(active') : i \in 1 .. k - 1 /\ i \in 1 .. k /\ i # k
      /\ \A i \in 1 .. Len(active') - 1 : i \in 1 .. k - 1 /\ i + 1 \in 1 .. k - 1
      /\ \A i \in 1 .. Len(order') : i \in 1 .. m \/ i = m + 1
  BY <1>2, <1>3
<1>9. \A i \in 1 .. Len(active') : active'[i] \in nodes'
  BY <1>2, <1>4, <1>6, <1>8
<1>10. \A i \in 1 .. Len(order') : order'[i] \in nodes'
  BY <1>3, <1>4, <1>6, <1>7, <1>8
<1>11. \A i, j \in 1 .. Len(active') : active'[i] = active'[j] => i = j
  BY <1>2, <1>6, <1>8
<1>12. ASSUME NEW i \in 1 .. Len(order'), NEW j \in 1 .. Len(order'), order'[i] = order'[j]
       PROVE  i = j
  BY <1>3, <1>6, <1>7, <1>8, <1>12
<1>13. ASSUME NEW i \in 1 .. Len(active'), NEW j \in 1 .. Len(order')
       PROVE  active'[i] # order'[j]
  BY <1>2, <1>3, <1>6, <1>7, <1>8
<1>14. \A i \in 1 .. Len(active') - 1 : active'[i + 1] \in edges'[active'[i]]
  BY <1>2, <1>4, <1>6, <1>8
<1>15. ASSUME NEW i \in 1 .. Len(order')
       PROVE  edges'[order'[i]] \subseteq {order'[j] : j \in 1 .. i - 1}
  <2>1. \A j \in 1 .. i - 1 : j \in 1 .. m /\ order'[j] = order[j]
    BY <1>3, <1>8
  <2>2. edges[order'[i]] \subseteq {order[j] : j \in 1 .. i - 1}
    <3>1. CASE i \in 1 .. m
      BY <1>3, <1>6, <3>1
    <3>2. CASE i = m + 1
      <4>1. i - 1 = m
        BY <1>3, <3>2
      <4>2. QED
        BY <1>3, <1>5, <3>2, <4>1
    <3>3. QED
      BY <1>8, <3>1, <3>2
  <2>3. QED
    BY <1>4, <2>1, <2>2
<1>16. QED
  BY <1>4, <1>9, <1>10, <1>11, <1>12, <1>13, <1>14, <1>15 DEF PathInv

\* A step keeps the path a path and the order in order.
LEMMA PathStep ==
  ASSUME TypeOK, GraphInv, PathInv, [Next]_vars
  PROVE  PathInv'
<1>1. CASE at \in {"invoked", "seeds", "resolve"}
  <2>1. active = <<>> /\ order = <<>>
    BY <1>1 DEF PathInv
  <2>2. UNCHANGED <<active, order>>
    BY <1>1 DEF Next, vars, planVars, ParsePlanInvocation, SelectEntry, Visit, Leave, WritePlan
  <2>3. QED
    BY <2>1, <2>2, EmptyPath
<1>2. CASE SelectEntry \/ WritePlan \/ UNCHANGED vars
  <2>1. UNCHANGED <<nodes, edges, active, order>> /\ (at' = at \/ at' \in {"order", "planned", "refused"})
    BY <1>2 DEF SelectEntry, WritePlan, vars, graphVars, planVars
  <2>2. at' \notin {"order", "planned", "refused"} => active = <<>> /\ order = <<>>
    BY <1>2 DEF SelectEntry, WritePlan, vars, graphVars, planVars, PathInv
  <2>3. QED
    BY <2>1, <2>2, SamePath
<1>3. CASE Visit
  BY <1>3, PathVisit
<1>4. CASE Leave
  BY <1>4, PathLeave
<1>5. QED
  BY <1>1, <1>2, <1>3, <1>4
  DEF Next, GraphNext, ParsePlanInvocation, BuildRootSeeds, ResolveSeed, ResolveDependency, Return,
  Resolved
-----------------------------------------------------------------------------
\* What is asked for is finite, and was looked at before anything else.
RequestInv ==
  /\ IsFiniteSet(request.chosen)
  /\ \A p \in Places : IsFiniteSet(Manifest(p).targets)
  /\ at \notin {"invoked", "refused"} => \A t \in request.chosen : t.kind \in Flags(request.command)

\* There is a reason only for a refusal, and a cycle only where one was met.
CauseInv ==
  /\ why # "none" => at = "refused"
  /\ why = "cycle" => \E c \in SUBSET nodes : Cyclic(c)

\* EntryIsMeant, of the entry before it is in the plan.
EntryMeant ==
  /\ \E r \in Roots : /\ entry \in Manifest(r.place).targets \ Manifest(r.place).absent
                      /\ request.package \in {Any, NameOf(r)}
                      /\ \A t \in Manifest(r.place).targets :
                           request.chosen = {} /\ t.kind \in Flags(request.command) => t = entry
  /\ request.chosen \subseteq {entry}
  /\ entry.kind \in Flags(request.command)

EntryInv == at \in {"order", "planned"} => EntryMeant

PlanInv ==
  at = "planned" =>
    /\ active = <<>> /\ Elements(order) = nodes
    /\ plan = [packages |-> {PlanPackage(n) : n \in nodes}, order |-> order, entry |-> entry]

\* Neither the directories nor the request change.
LEMMA SameWorld ==
  ASSUME TypeOK, GraphInv, [Next]_vars
  PROVE  UNCHANGED <<world, request>>
<1>1. IsWorld(world) /\ todo \subseteq Places
  BY TypeParts DEF StateTyped, GraphTyped
<1>2. CASE ResolveSeed /\ UNCHANGED planVars
  BY <1>1, <1>2, SeedType, OpenShape DEF ResolveSeed, planVars
<1>3. CASE ResolveDependency /\ UNCHANGED planVars
  BY <1>3, DependencyShape DEF planVars
<1>4. QED
  BY <1>2, <1>3 DEF Next, GraphNext, vars, graphVars, planVars, ParsePlanInvocation, BuildRootSeeds,
    Refuse, Return, Resolved, SelectEntry, Visit, Leave, WritePlan

\* An invocation that has ended does no more.
LEMMA Ended ==
  ASSUME at \in {"planned", "refused"}, [Next]_vars
  PROVE  UNCHANGED vars
BY DEF Next, GraphNext, ParsePlanInvocation, BuildRootSeeds, ResolveSeed, ResolveDependency, Return,
  Resolved, SelectEntry, Visit, Leave, WritePlan

\* A step keeps the request one that was let in.
LEMMA RequestStep ==
  ASSUME TypeOK, GraphInv, RequestInv, [Next]_vars
  PROVE  RequestInv'
<1>1. UNCHANGED <<world, request>>
  BY SameWorld
<1>2. IsFiniteSet(request'.chosen) /\ \A p \in Places : IsFiniteSet(world'.manifest[p].targets)
  BY <1>1 DEF RequestInv, Manifest
<1>3. ASSUME at' \notin {"invoked", "refused"}
      PROVE  \A t \in request.chosen : t.kind \in Flags(request.command)
  <2>1. CASE at = "invoked"
    BY <1>3, <2>1 DEF Next, GraphNext, vars, graphVars, ParsePlanInvocation, BuildRootSeeds, ResolveSeed,
      ResolveDependency, Return, Resolved, SelectEntry, Visit, Leave, WritePlan
  <2>2. CASE at = "refused"
    BY <1>3, <2>2, Ended DEF vars, graphVars
  <2>3. QED
    BY <2>1, <2>2 DEF RequestInv
<1>4. \A t \in request'.chosen : at' \notin {"invoked", "refused"} => t.kind \in Flags(request'.command)
  BY <1>1, <1>3
<1>5. QED
  BY <1>2, <1>4 DEF RequestInv, Manifest, Flags

\* A step that refuses a cycle has found one.
LEMMA CauseStep ==
  ASSUME TypeOK, GraphInv, PathInv, CauseInv, [Next]_vars
  PROVE  CauseInv'
<1>1. CASE at \in {"planned", "refused"}
  BY <1>1, Ended DEF vars, graphVars, CauseInv, Cyclic
<1>2. CASE Visit
  <2>1. at = "order" /\ why = "none" /\ UNCHANGED <<nodes, edges>>
    BY <1>2 DEF Visit, CauseInv
  <2>2. PICK n \in nodes :
          /\ active # <<>> => n \in edges[active[Len(active)]]
          /\ \/ n \in Elements(active) /\ at' = "refused" /\ why' = "cycle"
             \/ UNCHANGED <<at, why>>
    BY <1>2, VisitShape
  <2>3. CASE UNCHANGED <<at, why>>
    BY <2>1, <2>3 DEF CauseInv
  <2>4. CASE n \in Elements(active) /\ at' = "refused" /\ why' = "cycle"
    <3> DEFINE k == Len(active)
    <3>1. active \in Seq(Nodes)
      BY TypeParts DEF PlanTyped
    <3>2. k \in Nat /\ Elements(active) = {active[i] : i \in 1 .. k}
      BY <3>1, ElementsOf
    <3>3. PICK i \in 1 .. k : active[i] = n
      BY <2>4, <3>2
    <3>4. n \in edges[active[k]]
      BY <2>2, <3>1, <3>3, EmptySeq
    <3>5. /\ \A j \in 1 .. k : active[j] \in nodes
          /\ \A j \in 1 .. k - 1 : active[j + 1] \in edges[active[j]]
      BY DEF PathInv
    <3> HIDE DEF k
    <3> DEFINE c == {active[j] : j \in i .. k}
    <3>6. \A j \in i .. k : j \in 1 .. k
      BY <3>2
    <3>7. c \subseteq nodes /\ n \in c
      <4>1. i \in i .. k
        BY <3>2
      <4>2. QED
        BY <3>3, <3>5, <3>6, <4>1
    <3>8. ASSUME NEW m \in c PROVE edges[m] \cap c # {}
      <4>1. PICK j \in i .. k : m = active[j]
        OBVIOUS
      <4>2. CASE j = k
        BY <3>4, <3>7, <4>1, <4>2
      <4>3. CASE j # k
        <5>1. j \in 1 .. k - 1 /\ j + 1 \in i .. k
          BY <3>2, <4>3
        <5>2. active[j + 1] \in edges[m] /\ active[j + 1] \in c
          BY <3>5, <4>1, <5>1
        <5>3. QED
          BY <5>2
      <4>4. QED
        BY <4>2, <4>3
    <3> HIDE DEF c
    <3>9. PICK d \in SUBSET nodes : d # {} /\ \A m \in d : edges[m] \cap d # {}
      BY <3>7, <3>8
    <3>10. d \in SUBSET nodes' /\ d # {} /\ \A m \in d : edges'[m] \cap d # {}
      BY <2>1, <3>9
    <3>11. QED
      BY <2>4, <3>10 DEF CauseInv, Cyclic
  <2>5. QED
    BY <2>2, <2>3, <2>4
<1>3. CASE at \notin {"planned", "refused"} /\ ~Visit
  <2>1. why = "none"
    BY <1>3 DEF CauseInv
  <2>2. why' = why \/ (at' = "refused" /\ why' # "cycle")
    <3>1. IsWorld(world) /\ todo \subseteq Places
      BY TypeParts DEF StateTyped, GraphTyped
    <3>2. CASE ResolveSeed
      BY <3>1, <3>2, SeedType, OpenShape DEF ResolveSeed, Pushed
    <3>3. CASE ResolveDependency
      BY <3>3, DependencyShape DEF Pushed
    <3>4. CASE SelectEntry
      BY <3>4 DEF SelectEntry
    <3>5. CASE ParsePlanInvocation \/ BuildRootSeeds \/ Return \/ Resolved
      BY <3>5 DEF ParsePlanInvocation, BuildRootSeeds, Refuse, Return, Resolved
    <3>6. CASE Leave \/ WritePlan \/ UNCHANGED vars
      BY <3>6 DEF Leave, WritePlan, vars, graphVars
    <3>7. QED
      BY <1>3, <3>2, <3>3, <3>4, <3>5, <3>6 DEF Next, GraphNext
  <2>3. QED
    BY <2>1, <2>2 DEF CauseInv
<1>4. QED
  BY <1>1, <1>2, <1>3 DEF Visit

\* A step keeps the plan what was written.
LEMMA PlanStep ==
  ASSUME TypeOK, GraphInv, PlanInv, [Next]_vars
  PROVE  PlanInv'
<1>1. CASE at = "planned"
  <2>1. UNCHANGED vars
    BY <1>1, Ended
  <2>2. QED
    BY <2>1 DEF vars, graphVars, planVars, PlanInv, Elements, PlanPackage, Manifest
<1>2. CASE at # "planned" /\ WritePlan
  <2>1. CASE at' = "planned"
    <3>1. /\ UNCHANGED <<world, nodes, edges, active, order, entry>>
          /\ active = <<>> /\ Elements(order) = nodes
          /\ plan' = [packages |-> {PlanPackage(n) : n \in nodes}, order |-> order, entry |-> entry]
      BY <1>2, <2>1 DEF WritePlan
    <3>2. QED
      BY <3>1 DEF PlanInv, Elements, PlanPackage, Manifest
  <2>2. QED
    BY <2>1 DEF PlanInv
<1>3. CASE at # "planned" /\ ~WritePlan
  <2>1. at' # "planned"
    <3>1. IsWorld(world) /\ todo \subseteq Places
      BY TypeParts DEF StateTyped, GraphTyped
    <3>2. CASE ResolveSeed
      BY <1>3, <3>1, <3>2, SeedType, OpenShape DEF ResolveSeed, Pushed
    <3>3. CASE ResolveDependency
      BY <1>3, <3>3, DependencyShape DEF Pushed
    <3>4. QED
      BY <1>3, <3>2, <3>3 DEF Next, GraphNext, vars, graphVars, ParsePlanInvocation, BuildRootSeeds,
        Refuse, Return, Resolved, SelectEntry, Visit, Leave
  <2>2. QED
    BY <2>1 DEF PlanInv
<1>4. QED
  BY <1>1, <1>2, <1>3

\* Of exactly one entry package and one target, the entry is meant.
LEMMA EntrySelected ==
  ASSUME TypeOK, RequestInv, SelectEntry, at' = "order"
  PROVE  EntryMeant'
<1> DEFINE found == UNION {EntryTargets(Manifest(r.place)) : r \in EntryPackages}
           there == {t \in found : \A r \in EntryPackages : t \notin Manifest(r.place).absent}
<1>1. /\ Cardinality(EntryPackages) = 1 /\ Cardinality(found) = 1 /\ there # {}
      /\ entry' = CHOOSE t \in there : TRUE
      /\ UNCHANGED <<world, request>>
  BY DEF SelectEntry
<1>2. IsWorld(world) /\ request.command \in {"build", "run", "test"}
  BY TypeParts DEF StateTyped, PlanTyped, Requests
<1>3. IsFiniteSet(EntryPackages)
  <2>1. IsFiniteSet(TopLevel)
    BY <1>2, TopLevelPlaces, GraphAssumption, FS_Subset
  <2>2. [p \in TopLevel |-> Seed(p)] \in Surjection(TopLevel, Roots)
    BY Fun_IsSurj DEF Roots
  <2>3. IsFiniteSet(Roots)
    BY <2>1, <2>2, FS_Surjection
  <2>4. QED
    BY <1>2, <2>3, RootsType, FS_Subset
<1>4. PICK r : EntryPackages = {r}
  BY <1>1, <1>3, FS_Singleton
<1> DEFINE m == Manifest(r.place)
<1>5. r \in Roots /\ r.place \in Places
  BY <1>2, <1>4, RootsType
<1>6. found = EntryTargets(m)
  BY <1>4
<1>7. EntryTargets(m) \subseteq m.targets
  BY EntryTargetsType
<1>8. IsFiniteSet(EntryTargets(m)) /\ IsFiniteSet(request.chosen)
  BY <1>5, <1>7, FS_Subset DEF RequestInv
<1>9. PICK t : EntryTargets(m) = {t}
  BY <1>1, <1>6, <1>8, FS_Singleton
<1>10. there \subseteq {t} /\ \A u \in there : u \notin m.absent
  BY <1>4, <1>6, <1>9
<1>11. entry' = t /\ t \notin m.absent /\ t \in m.targets
  <2> HIDE DEF there
  <2>1. entry' \in there
    BY <1>1
  <2>2. QED
    BY <1>7, <1>9, <1>10, <2>1
<1>12. request.package \in {Any, NameOf(r)}
  <2>1. request.package # Any => r \in {s \in Roots : NameOf(s) = request.package}
    BY <1>4 DEF EntryPackages
  <2>2. QED
    BY <2>1
<1>13. ASSUME NEW u \in m.targets, request.chosen = {}, u.kind \in Flags(request.command)
       PROVE  u = t
  <2>1. Cardinality(request.chosen) = 0
    BY <1>13, FS_EmptySet
  <2>2. u \in EntryTargets(m)
    BY <1>2, <1>13, <2>1 DEF EntryTargets, Flags
  <2>3. QED
    BY <1>9, <2>2
<1>14. request.chosen \subseteq {t}
  <2>1. CASE request.chosen # {}
    <3>1. t \in request.chosen /\ ~(Cardinality(request.chosen) > 1)
      BY <1>9, <2>1 DEF EntryTargets
    <3>2. Cardinality(request.chosen) = 1
      <4>1. Cardinality(request.chosen) \in Nat /\ Cardinality(request.chosen) # 0
        BY <1>8, <2>1, FS_CardinalityType, FS_EmptySet
      <4>2. QED
        BY <3>1, <4>1
    <3>3. PICK u : request.chosen = {u}
      BY <1>8, <3>2, FS_Singleton
    <3>4. QED
      BY <3>1, <3>3
  <2>2. QED
    BY <2>1
<1>15. t.kind \in Flags(request.command)
  <2>1. CASE request.chosen # {}
    <3>1. t \in request.chosen
      BY <1>9, <2>1 DEF EntryTargets
    <3>2. QED
      BY <3>1 DEF RequestInv, SelectEntry
  <2>2. CASE request.chosen = {}
    <3>1. Cardinality(request.chosen) = 0
      BY <2>2, FS_EmptySet
    <3>2. QED
      BY <1>2, <1>9, <2>2, <3>1 DEF EntryTargets, Flags
  <2>3. QED
    BY <2>1, <2>2
<1> HIDE DEF m
<1>16. /\ r \in Roots' /\ m' = m /\ Manifest(r.place)' = m /\ NameOf(r)' = NameOf(r)
       /\ Flags(request.command)' = Flags(request.command)
  BY <1>1, <1>5 DEF Roots, TopLevel, Manifest, m, NameOf, Flags
<1>17. QED
  BY <1>1, <1>5, <1>11, <1>12, <1>13, <1>14, <1>15, <1>16 DEF EntryMeant, m

\* A step keeps the entry what was meant.
LEMMA EntryStep ==
  ASSUME TypeOK, GraphInv, RequestInv, EntryInv, [Next]_vars
  PROVE  EntryInv'
<1>1. UNCHANGED <<world, request>>
  BY SameWorld
<1>2. CASE SelectEntry
  <2>1. at' \in {"order", "refused"}
    BY <1>2 DEF SelectEntry
  <2>2. QED
    BY <1>2, <2>1, EntrySelected DEF EntryInv
<1>3. CASE ~SelectEntry /\ at' \in {"order", "planned"}
  <2>1. at \in {"order", "planned"} /\ entry' = entry
    <3>1. IsWorld(world) /\ todo \subseteq Places
      BY TypeParts DEF StateTyped, GraphTyped
    <3>2. CASE ResolveSeed /\ UNCHANGED planVars
      BY <1>3, <3>1, <3>2, SeedType, OpenShape DEF ResolveSeed, Pushed
    <3>3. CASE ResolveDependency /\ UNCHANGED planVars
      BY <1>3, <3>3, DependencyShape DEF Pushed, ResolveDependency
    <3>4. QED
      BY <1>3, <3>2, <3>3 DEF Next, GraphNext, vars, graphVars, planVars, ParsePlanInvocation,
        BuildRootSeeds, Refuse, Return, Resolved, Visit, Leave, WritePlan
  <2>2. EntryMeant
    BY <2>1 DEF EntryInv
  <2>3. QED
    BY <1>1, <2>1, <2>2 DEF EntryInv, EntryMeant, Roots, TopLevel, Manifest, NameOf, Flags, Seed
<1>4. QED
  BY <1>2, <1>3 DEF EntryInv
-----------------------------------------------------------------------------
PlanningInv == TypeOK /\ GraphInv /\ PathInv /\ RequestInv /\ CauseInv /\ EntryInv /\ PlanInv

\* An invocation starts in the invariant.
LEMMA InitPlanning == Init => PlanningInv
<1> SUFFICES ASSUME Init PROVE PlanningInv
  OBVIOUS
<1>1. PICK c \in Cases : world = c.world /\ request = c.request
  BY DEF Init
<1>2. at = "invoked" /\ why = "none" /\ nodes = {} /\ stack = <<>> /\ active = <<>> /\ order = <<>>
  BY DEF Init, GraphInit
<1>3. RequestInv
  BY <1>1, <1>2, PlanAssumption DEF RequestInv, Manifest
<1>4. GraphInv
  BY <1>2 DEF GraphInv
<1>5. PathInv
  BY <1>2 DEF PathInv
<1>6. CauseInv /\ EntryInv /\ PlanInv
  BY <1>2 DEF CauseInv, EntryInv, PlanInv
<1>7. QED
  BY <1>3, <1>4, <1>5, <1>6, InitTyping DEF PlanningInv

\* The inductive invariant of an invocation up to its compile plan, for any
\* worlds and requests, with any clashes and cycles.
THEOREM PlanningInvariant == Spec => []PlanningInv
<1>1. PlanningInv /\ [Next]_vars => PlanningInv'
  BY TypingStep, GraphStep, PathStep, RequestStep, CauseStep, EntryStep, PlanStep DEF PlanningInv
<1>2. QED
  BY InitPlanning, <1>1, PTL DEF Spec

\* The resolver's tables, its stack, the search for an order and the plan keep
\* their types.
THEOREM PlanTyping == Spec => []TypeOK
<1>1. PlanningInv => TypeOK
  BY DEF PlanningInv
<1>2. QED
  BY <1>1, PlanningInvariant, PTL

\* A sequence without repetitions is as long as what it lists.
LEMMA OrderCounts ==
  ASSUME NEW n \in Nat, NEW S, NEW f \in [1 .. n -> S],
         \A i, j \in 1 .. n : f[i] = f[j] => i = j,
         \A x \in S : \E i \in 1 .. n : f[i] = x
  PROVE  Cardinality(S) = n
<1>1. f \in Bijection(1 .. n, S)
  BY Fun_IsBij
<1>2. ExistsBijection(1 .. n, S)
  BY <1>1, Fun_ExistsBij
<1>3. QED
  BY <1>2, FS_CountingElements

\* A plan lists all its packages, once, each behind what it needs, and only a
\* graph with a cycle is refused for one.
THEOREM PlanIsExact == Spec => []PlansExactly
<1>1. PlanningInv => PlansExactly
  <2> SUFFICES ASSUME PlanningInv PROVE PlansExactly
    OBVIOUS
  <2>1. TypeOK /\ PathInv /\ CauseInv /\ PlanInv
    BY DEF PlanningInv
  <2>2. why = "cycle" => \E c \in SUBSET nodes : Cyclic(c)
    BY <2>1 DEF CauseInv
  <2>3. ASSUME at = "planned"
        PROVE  /\ Elements(plan.order) = {p.id : p \in plan.packages}
               /\ Len(plan.order) = Cardinality(plan.packages)
               /\ \A p \in plan.packages, i \in DOMAIN plan.order :
                    plan.order[i] = p.id => p.needs \subseteq {plan.order[j] : j \in 1 .. i - 1}
    <3> DEFINE k == Len(order)
               P == {PlanPackage(n) : n \in nodes}
               f == [i \in 1 .. k |-> PlanPackage(order[i])]
    <3>1. plan.order = order /\ plan.packages = P /\ Elements(order) = nodes
      BY <2>1, <2>3 DEF PlanInv
    <3>2. order \in Seq(Nodes)
      BY <2>1, TypeParts DEF PlanTyped
    <3>3. k \in Nat /\ nodes = {order[i] : i \in 1 .. k} /\ DOMAIN order = 1 .. k
      BY <3>1, <3>2, ElementsOf, LenProperties
    <3>4. \A n \in nodes : PlanPackage(n).id = n /\ PlanPackage(n).needs = edges[n]
      BY DEF PlanPackage
    <3>5. /\ \A i, j \in 1 .. k : order[i] = order[j] => i = j
          /\ \A i \in 1 .. k : edges[order[i]] \subseteq {order[j] : j \in 1 .. i - 1}
          /\ \A i \in 1 .. k : order[i] \in nodes
      BY <2>1 DEF PathInv
    <3> HIDE DEF k
    <3>6. Cardinality(P) = k
      <4>1. f \in [1 .. k -> P]
        BY <3>5
      <4>2. ASSUME NEW i \in 1 .. k, NEW j \in 1 .. k, f[i] = f[j] PROVE i = j
        <5>1. f[i].id = order[i] /\ f[j].id = order[j]
          BY <3>4, <3>5
        <5>2. QED
          BY <3>5, <4>2, <5>1
      <4>3. ASSUME NEW x \in P PROVE \E i \in 1 .. k : f[i] = x
        <5>1. PICK n \in nodes : x = PlanPackage(n)
          OBVIOUS
        <5>2. PICK i \in 1 .. k : order[i] = n
          BY <3>3
        <5>3. QED
          BY <5>1, <5>2
      <4> HIDE DEF f, P
      <4>4. QED
        BY <3>3, <4>1, <4>2, <4>3, OrderCounts
    <3>7. nodes = {p.id : p \in P}
      BY <3>4
    <3>8. ASSUME NEW p \in P, NEW i \in 1 .. k, order[i] = p.id
          PROVE  p.needs \subseteq {order[j] : j \in 1 .. i - 1}
      BY <3>4, <3>5, <3>8
    <3> HIDE DEF f, P
    <3>9. Elements(plan.order) = {p.id : p \in plan.packages}
      BY <3>1, <3>7
    <3>10. Len(plan.order) = Cardinality(plan.packages)
      BY <3>1, <3>6 DEF k
    <3>11. ASSUME NEW p \in plan.packages, NEW i \in DOMAIN plan.order, plan.order[i] = p.id
           PROVE  p.needs \subseteq {plan.order[j] : j \in 1 .. i - 1}
      <4>1. p \in P /\ i \in 1 .. k /\ order[i] = p.id
        BY <3>1, <3>3, <3>11
      <4>2. QED
        BY <3>1, <3>8, <4>1
    <3>12. QED
      BY <3>9, <3>10, <3>11
  <2>4. QED
    BY <2>2, <2>3 DEF PlansExactly
<1>2. QED
  BY <1>1, PlanningInvariant, PTL

\* What a plan builds is what was asked for, for any targets of any packages.
THEOREM EntryAsAsked == Spec => []EntryIsMeant
<1>1. PlanningInv => EntryIsMeant
  <2> SUFFICES ASSUME PlanningInv, at = "planned" PROVE EntryIsMeant
    BY DEF EntryIsMeant
  <2>1. EntryMeant /\ plan.entry = entry
    BY DEF PlanningInv, EntryInv, PlanInv
  <2>2. QED
    BY <2>1 DEF EntryIsMeant, EntryMeant
<1>2. QED
  BY <1>1, PlanningInvariant, PTL
-----------------------------------------------------------------------------
(***************************************************************************)
(* The graph of a world.                                                   *)
(***************************************************************************)

\* All the roots are in s, and what a node of s leads to.
Closed(s) == Roots \subseteq s /\ \A n \in s : Children(n) \subseteq s

\* Without any of these nodes a set is not closed.
Needed == {n \in Nodes : \A s \in SUBSET Nodes : Closed(s) => n \in s}

Broken(n) == n \in Children(n) \/ \E d \in Deps(n) : DependencyFails(n, d)

\* The nodes a call of ResolveNode has dealt with.
Taken(f) == {DependencyNode(f.node, d) : d \in Deps(f.node) \ f.left}

\* A call of ResolveNode has found what it has dealt with, apart from the node
\* it is at.
FrameInv(f) ==
  /\ f.left \subseteq Deps(f.node)
  /\ \A d \in Deps(f.node) \ f.left : ~DependencyFails(f.node, d)
  /\ f.node \notin Taken(f)

TablesInv ==
  /\ nodes \subseteq Needed
  /\ \A m, n \in nodes : NameOf(m) = NameOf(n) => m = n
  /\ \A n \in DOMAIN edges : edges[n] = Children(n) /\ ~Broken(n)

\* The node of the call that the i-th call waits for.
Called(i) == IF i < Len(stack) THEN {stack[i + 1].node} ELSE {}

StackInv ==
  \A i \in 1 .. Len(stack) : \A f \in {stack[i]} :
    /\ FrameInv(f)
    /\ Taken(f) = f.found \cup Called(i)

\* The roots are registered, or still to come.
RootsInv ==
  /\ todo \subseteq TopLevel
  /\ at = "resolve" => \A p \in TopLevel : p \in todo \/ Seed(p) \in nodes
  /\ at \in {"resolved", "order", "planned"} => Roots \subseteq nodes

\* Two packages of one name, of different versions if that is the cause.
Clash(cause) ==
  \E m, n \in Needed : /\ m # n /\ NameOf(m) = NameOf(n)
                       /\ cause = "version" => Manifest(m.place).version # Manifest(n.place).version

\* There is a reason for a refusal, whatever was met before.
ReasonInv ==
  /\ why \in {"dependency", "self"} => \E n \in Needed : Broken(n)
  /\ \A cause \in {"version", "source"} : why = cause => Clash(cause)

ExactInv == TablesInv /\ StackInv /\ RootsInv /\ ReasonInv
-----------------------------------------------------------------------------
(***************************************************************************)
(* The closure is reached in as many rounds as there are nodes.            *)
(***************************************************************************)

\* Induction over the naturals, with a set for the predicate: of the intervals
\* up to a number that is not in S there would be a smallest.
LEMMA SetInduction ==
  ASSUME NEW S, 0 \in S, \A n \in Nat : n \in S => n + 1 \in S
  PROVE  \A n \in Nat : n \in S
<1> SUFFICES ASSUME NEW n \in Nat, n \notin S PROVE FALSE
  OBVIOUS
<1> DEFINE T == {0 .. k : k \in Nat \ S}
<1>1. T \subseteq FiniteSubsetsOf(Nat)
  <2>1. ASSUME NEW k \in Nat PROVE 0 .. k \in FiniteSubsetsOf(Nat)
    <3>1. IsFiniteSet(0 .. k)
      BY FS_Interval
    <3>2. 0 .. k \subseteq Nat
      OBVIOUS
    <3>3. QED
      BY <3>1, <3>2 DEF FiniteSubsetsOf
  <2>2. QED
    BY <2>1
<1>2. T # {}
  OBVIOUS
<1>3. \E x \in T : \A y \in T : <<y, x>> \notin StrictSubsetOrdering(Nat)
  <2> HIDE DEF T
  <2>1. IsWellFoundedOn(StrictSubsetOrdering(Nat), FiniteSubsetsOf(Nat))
    BY FS_StrictSubsetOrderingWellFounded
  <2>2. QED
    BY <1>1, <1>2, <2>1, WFMin
<1>4. PICK k \in Nat \ S : \A y \in T : <<y, 0 .. k>> \notin StrictSubsetOrdering(Nat)
  BY <1>3
<1>5. k # 0 /\ k - 1 \in Nat /\ k - 1 \notin S
  <2>1. k # 0
    OBVIOUS
  <2>2. k - 1 \in Nat /\ (k - 1) + 1 = k
    BY <2>1
  <2>3. QED
    BY <2>1, <2>2
<1>6. 0 .. k - 1 \in T
  BY <1>5
<1>7. 0 .. k - 1 \subseteq 0 .. k /\ 0 .. k - 1 # 0 .. k
  <2>1. k \in 0 .. k /\ k \notin 0 .. k - 1
    OBVIOUS
  <2>2. QED
    BY <2>1
<1>8. <<0 .. k - 1, 0 .. k>> \in StrictSubsetOrdering(Nat)
  <2>1. 0 .. k - 1 \in SUBSET Nat /\ 0 .. k \in SUBSET Nat
    BY <1>5
  <2>2. QED
    BY <1>7, <2>1 DEF StrictSubsetOrdering
<1>9. QED
  BY <1>4, <1>6, <1>8

\* A function that is defined step by step exists.
LEMMA StepByStep ==
  ASSUME NEW N \in Nat, NEW X, NEW a \in X, NEW h \in [X -> X]
  PROVE  \E g \in [0 .. N -> X] : g[0] = a /\ \A i \in 1 .. N : g[i] = h[g[i - 1]]
<1> DEFINE S == {n \in Nat : \E g \in [0 .. n -> X] : g[0] = a /\ \A i \in 1 .. n : g[i] = h[g[i - 1]]}
<1>1. 0 \in S
  <2> DEFINE g == [i \in 0 .. 0 |-> a]
  <2>1. g \in [0 .. 0 -> X] /\ g[0] = a /\ \A i \in 1 .. 0 : g[i] = h[g[i - 1]]
    OBVIOUS
  <2>2. QED
    BY <2>1
<1>2. ASSUME NEW n \in Nat, n \in S PROVE n + 1 \in S
  <2>1. PICK g \in [0 .. n -> X] : g[0] = a /\ \A i \in 1 .. n : g[i] = h[g[i - 1]]
    BY <1>2
  <2> DEFINE f == [i \in 0 .. n + 1 |-> IF i = n + 1 THEN h[g[n]] ELSE g[i]]
  <2>2. \A i \in 0 .. n : i \in 0 .. n + 1 /\ f[i] = g[i]
    OBVIOUS
  <2>3. f[n + 1] = h[g[n]] /\ g[n] \in X
    OBVIOUS
  <2>4. f \in [0 .. n + 1 -> X]
    <3>1. \A i \in 0 .. n + 1 : i = n + 1 \/ i \in 0 .. n
      OBVIOUS
    <3>2. QED
      BY <2>1, <2>3, <3>1
  <2>5. f[0] = a
    BY <2>1, <2>2
  <2>6. ASSUME NEW i \in 1 .. n + 1 PROVE f[i] = h[f[i - 1]]
    <3>1. CASE i = n + 1
      <4>1. i - 1 = n /\ f[i - 1] = g[n]
        BY <2>2, <3>1
      <4>2. QED
        BY <2>3, <3>1, <4>1
    <3>2. CASE i # n + 1
      <4>1. i \in 1 .. n /\ i \in 0 .. n /\ i - 1 \in 0 .. n
        BY <3>2
      <4>2. f[i] = g[i] /\ f[i - 1] = g[i - 1]
        BY <2>2, <4>1
      <4>3. QED
        BY <2>1, <4>1, <4>2
    <3>3. QED
      BY <3>1, <3>2
  <2> HIDE DEF f
  <2>7. n + 1 \in Nat
    OBVIOUS
  <2>8. QED
    BY <2>4, <2>5, <2>6, <2>7
<1> HIDE DEF S
<1>3. N \in S
  BY <1>1, <1>2, SetInduction
<1>4. QED
  BY <1>3 DEF S

\* There are finitely many nodes, so a set of as many nodes is the set of all.
LEMMA NodesFinite ==
  /\ IsFiniteSet(Nodes)
  /\ Rounds \in Nat
  /\ \A s \in SUBSET Nodes : /\ IsFiniteSet(s) /\ Cardinality(s) \in Nat
                             /\ Cardinality(s) >= Rounds => s = Nodes
<1> DEFINE pairs == Kinds \X Places
           f == [x \in pairs |-> [kind |-> x[1], place |-> x[2]]]
<1>1. IsFiniteSet(Kinds)
  <2>1. /\ IsFiniteSet({"workspace"}) /\ IsFiniteSet({"path"})
        /\ IsFiniteSet({"git"}) /\ IsFiniteSet({"registry"})
    BY FS_Singleton
  <2>2. IsFiniteSet({"workspace"} \cup {"path"}) /\ IsFiniteSet({"git"} \cup {"registry"})
    BY <2>1, FS_Union
  <2>3. IsFiniteSet(({"workspace"} \cup {"path"}) \cup ({"git"} \cup {"registry"}))
    BY <2>2, FS_Union
  <2>4. Kinds = ({"workspace"} \cup {"path"}) \cup ({"git"} \cup {"registry"})
    BY DEF Kinds
  <2>5. QED
    BY <2>3, <2>4
<1>2. IsFiniteSet(pairs)
  BY <1>1, GraphAssumption, FS_Product
<1>3. f \in Surjection(pairs, Nodes)
  <2>1. f \in [pairs -> Nodes]
    BY DEF Nodes
  <2>2. ASSUME NEW n \in Nodes PROVE \E x \in pairs : f[x] = n
    <3>1. /\ n.kind \in Kinds /\ n.place \in Places
          /\ n = [kind |-> n.kind, place |-> n.place]
      BY DEF Nodes
    <3>2. <<n.kind, n.place>> \in pairs /\ f[<<n.kind, n.place>>] = n
      BY <3>1
    <3>3. QED
      BY <3>2
  <2> HIDE DEF f, pairs
  <2>3. QED
    BY <2>1, <2>2, Fun_IsSurj
<1>4. IsFiniteSet(Nodes)
  <2> HIDE DEF f, pairs
  <2>1. QED
    BY <1>2, <1>3, FS_Surjection
<1>5. Rounds \in Nat
  BY <1>4, FS_CardinalityType DEF Rounds
<1>6. ASSUME NEW s \in SUBSET Nodes
      PROVE  /\ IsFiniteSet(s) /\ Cardinality(s) \in Nat
             /\ Cardinality(s) >= Rounds => s = Nodes
  <2>1. /\ IsFiniteSet(s) /\ Cardinality(s) <= Cardinality(Nodes)
        /\ Cardinality(Nodes) = Cardinality(s) => Nodes = s
    BY <1>4, FS_Subset
  <2>2. Cardinality(s) \in Nat
    BY <2>1, FS_CardinalityType
  <2>3. QED
    BY <1>5, <2>1, <2>2 DEF Rounds
<1>7. QED
  BY <1>4, <1>5, <1>6

\* The packages at the roots are nodes.
LEMMA RootsAre ==
  ASSUME IsWorld(world)
  PROVE  Roots \in SUBSET Nodes
BY TopLevelPlaces, SeedType DEF Roots

\* What a node leads to are nodes.
LEMMA ChildrenType ==
  ASSUME IsWorld(world), NEW n \in Nodes
  PROVE  Children(n) \subseteq Nodes
<1>1. Deps(n) \subseteq Dependencies
  BY DepsType
<1>2. \A d \in Deps(n) : ~DependencyFails(n, d) => DependencyNode(n, d) \in Nodes
  BY <1>1, DependencyNodeType
<1>3. QED
  BY <1>2 DEF Children

\* A round adds what the nodes lead to, and nothing that a closed set lacks.
LEMMA RoundFacts ==
  ASSUME IsWorld(world), NEW s \in SUBSET Nodes
  PROVE  /\ Round(s) \in SUBSET Nodes /\ s \subseteq Round(s)
         /\ \A n \in s : Children(n) \subseteq Round(s)
         /\ \A t : s \subseteq t /\ (\A n \in t : Children(n) \subseteq t) => Round(s) \subseteq t
<1>1. \A n \in s : Children(n) \subseteq Nodes
  BY ChildrenType
<1>2. QED
  BY <1>1 DEF Round

\* The recursive definition defines what it says.
LEMMA ReachedIs ==
  ASSUME IsWorld(world)
  PROVE  /\ \A i \in 0 .. Rounds : Reached[i] \in SUBSET Nodes
         /\ Reached[0] = Roots
         /\ \A i \in 0 .. Rounds : i + 1 <= Rounds => Reached[i + 1] = Round(Reached[i])
<1> DEFINE h == [s \in SUBSET Nodes |-> Round(s)]
           R == [i \in 0 .. Rounds |-> Reached[i]]
<1>0. Rounds \in Nat
  BY NodesFinite
<1>1. h \in [SUBSET Nodes -> SUBSET Nodes]
  BY RoundFacts
<1>2. PICK g \in [0 .. Rounds -> SUBSET Nodes] :
        g[0] = Roots /\ \A i \in 1 .. Rounds : g[i] = h[g[i - 1]]
  <2>1. Roots \in SUBSET Nodes
    BY RootsAre
  <2>2. PICK N, X, a : N = Rounds /\ X = SUBSET Nodes /\ a = Roots
    OBVIOUS
  <2> HIDE DEF h
  <2>3. N \in Nat /\ a \in X /\ h \in [X -> X]
    BY <1>0, <1>1, <2>1, <2>2
  <2>4. \E g \in [0 .. N -> X] : g[0] = a /\ \A i \in 1 .. N : g[i] = h[g[i - 1]]
    BY <2>3, StepByStep
  <2>5. QED
    BY <2>2, <2>4
<1>3. \A i \in 1 .. Rounds : i - 1 \in 0 .. Rounds /\ g[i] = Round(g[i - 1])
  <2>1. \A s \in SUBSET Nodes : h[s] = Round(s)
    OBVIOUS
  <2> HIDE DEF h
  <2>2. \A i \in 1 .. Rounds : i - 1 \in 0 .. Rounds /\ i \in 0 .. Rounds
    BY <1>0
  <2>3. \A i \in 0 .. Rounds : g[i] \in SUBSET Nodes
    BY <1>2
  <2>4. QED
    BY <1>2, <2>1, <2>2, <2>3
<1>4. g = [i \in 0 .. Rounds |-> IF i = 0 THEN Roots ELSE Round(g[i - 1])]
  <2>1. \A i \in 0 .. Rounds : i = 0 \/ i \in 1 .. Rounds
    BY <1>0
  <2>2. \A i \in 0 .. Rounds : g[i] = IF i = 0 THEN Roots ELSE Round(g[i - 1])
    BY <1>2, <1>3, <2>1
  <2>3. QED
    BY <1>2, <2>2
<1>5. Reached = [i \in 0 .. Rounds |->
                   IF i = 0 THEN Roots ELSE Round(Reached[i - 1])]
  BY <1>4 DEF Reached
<1>6. \A i \in 0 .. Rounds :
        Reached[i] = IF i = 0 THEN Roots ELSE Round(Reached[i - 1])
  BY <1>5
<1>7. Reached[0] = Roots
  BY <1>0, <1>6
<1>8. ASSUME NEW i \in 0 .. Rounds, i + 1 <= Rounds
      PROVE  Reached[i + 1] = Round(Reached[i])
  <2>1. i + 1 \in 0 .. Rounds /\ i + 1 # 0 /\ (i + 1) - 1 = i
    BY <1>0, <1>8
  <2>2. QED
    BY <1>6, <2>1
<1>9. ASSUME NEW i \in 0 .. Rounds PROVE Reached[i] \in SUBSET Nodes
  <2> DEFINE S == {k \in Nat : k <= Rounds => Reached[k] \in SUBSET Nodes}
  <2>1. 0 \in S
    BY <1>7, RootsAre
  <2>2. ASSUME NEW k \in Nat, k \in S PROVE k + 1 \in S
    <3>1. CASE k + 1 <= Rounds
      <4>1. k \in 0 .. Rounds /\ k <= Rounds
        BY <1>0, <3>1
      <4>2. Reached[k + 1] = Round(Reached[k]) /\ Reached[k] \in SUBSET Nodes
        BY <1>8, <2>2, <3>1, <4>1
      <4>3. QED
        BY <4>2, RoundFacts
    <3>2. QED
      BY <3>1
  <2> HIDE DEF S
  <2>3. i \in S
    BY <2>1, <2>2, SetInduction
  <2>4. QED
    BY <1>0, <2>3 DEF S
<1>10. QED
  BY <1>7, <1>8, <1>9

\* The closure is the least closed set: every round adds a node, unless there
\* is nothing to add any more.
LEMMA ClosureIsNeeded ==
  ASSUME IsWorld(world)
  PROVE  Closure = Needed /\ Closed(Closure) /\ Closure \subseteq Nodes
<1>0. Rounds \in Nat /\ Rounds \in 0 .. Rounds /\ Closure = Reached[Rounds]
  BY NodesFinite DEF Closure
<1>1. Closure \in SUBSET Nodes
  BY <1>0, ReachedIs
<1>2. ASSUME NEW s \in SUBSET Nodes, Closed(s) PROVE Closure \subseteq s
  <2> DEFINE S == {k \in Nat : k <= Rounds => Reached[k] \subseteq s}
  <2>1. 0 \in S
    BY <1>0, <1>2, ReachedIs DEF Closed
  <2>2. ASSUME NEW k \in Nat, k \in S PROVE k + 1 \in S
    <3>1. CASE k + 1 <= Rounds
      <4>1. k \in 0 .. Rounds /\ k <= Rounds
        BY <1>0, <3>1
      <4>2. Reached[k + 1] = Round(Reached[k]) /\ Reached[k] \subseteq s /\ Reached[k] \in SUBSET Nodes
        BY <2>2, <3>1, <4>1, ReachedIs
      <4>3. Reached[k + 1] \subseteq s
        BY <1>2, <4>2, RoundFacts DEF Closed
      <4>4. QED
        BY <4>3
    <3>2. QED
      BY <3>1
  <2> HIDE DEF S
  <2>3. Rounds \in S
    BY <1>0, <2>1, <2>2, SetInduction
  <2>4. QED
    BY <1>0, <2>3 DEF S
<1>3. Roots \subseteq Closure
  <2> DEFINE S == {k \in Nat : k <= Rounds => Roots \subseteq Reached[k]}
  <2>1. 0 \in S
    BY <1>0, ReachedIs
  <2>2. ASSUME NEW k \in Nat, k \in S PROVE k + 1 \in S
    <3>1. CASE k + 1 <= Rounds
      <4>1. k \in 0 .. Rounds /\ k <= Rounds
        BY <1>0, <3>1
      <4>2. Reached[k + 1] = Round(Reached[k]) /\ Roots \subseteq Reached[k] /\ Reached[k] \in SUBSET Nodes
        BY <2>2, <3>1, <4>1, ReachedIs
      <4>3. Roots \subseteq Reached[k + 1]
        BY <4>2, RoundFacts
      <4>4. QED
        BY <4>3
    <3>2. QED
      BY <3>1
  <2> HIDE DEF S
  <2>3. Rounds \in S
    BY <1>0, <2>1, <2>2, SetInduction
  <2>4. QED
    BY <1>0, <2>3 DEF S
<1>4. Round(Closure) = Closure
  <2> DEFINE S == {k \in Nat : k <= Rounds => \/ Round(Reached[k]) = Reached[k]
                                              \/ Cardinality(Reached[k]) >= k}
  <2>1. 0 \in S
    <3>1. 0 \in 0 .. Rounds /\ Reached[0] \in SUBSET Nodes
      BY <1>0, ReachedIs
    <3>2. Cardinality(Reached[0]) \in Nat
      BY <3>1, NodesFinite
    <3>3. QED
      BY <3>2
  <2>2. ASSUME NEW k \in Nat, k \in S PROVE k + 1 \in S
    <3>1. ASSUME k + 1 <= Rounds
          PROVE  \/ Round(Reached[k + 1]) = Reached[k + 1]
                 \/ Cardinality(Reached[k + 1]) >= k + 1
      <4>1. k \in 0 .. Rounds /\ k <= Rounds /\ k + 1 \in 0 .. Rounds
        BY <1>0, <3>1
      <4>0. PICK old, new : old = Reached[k] /\ new = Reached[k + 1]
        OBVIOUS
      <4>2. new = Round(old) /\ old \in SUBSET Nodes /\ new \in SUBSET Nodes
        BY <3>1, <4>1, <4>0, ReachedIs
      <4>3. Round(old) = old \/ Cardinality(old) >= k
        BY <2>2, <4>1, <4>0
      <4>4. CASE new = old
        BY <4>2, <4>4, <4>0
      <4>5. CASE new # old
        <5>1. old \subseteq new
          BY <4>2, RoundFacts
        <5>2. /\ IsFiniteSet(new) /\ Cardinality(new) \in Nat
              /\ IsFiniteSet(old) /\ Cardinality(old) \in Nat
          BY <4>2, NodesFinite
        <5>3. Cardinality(old) <= Cardinality(new) /\ Cardinality(old) # Cardinality(new)
          BY <4>5, <5>1, <5>2, FS_Subset
        <5>4. Cardinality(old) >= k
          BY <4>2, <4>3, <4>5
        <5>5. Cardinality(new) >= k + 1
          BY <5>2, <5>3, <5>4
        <5>6. QED
          BY <4>0, <5>5
      <4>6. QED
        BY <4>4, <4>5
    <3>2. QED
      BY <3>1
  <2> HIDE DEF S
  <2>3. Rounds \in S
    BY <1>0, <2>1, <2>2, SetInduction
  <2>4. Round(Closure) = Closure \/ Cardinality(Closure) >= Rounds
    BY <1>0, <2>3 DEF S
  <2>5. CASE Cardinality(Closure) >= Rounds
    <3>1. Closure = Nodes
      BY <1>1, <2>5, NodesFinite
    <3>2. Round(Closure) \in SUBSET Nodes /\ Closure \subseteq Round(Closure)
      BY <1>1, RoundFacts
    <3>3. QED
      BY <3>1, <3>2
  <2>6. QED
    BY <2>4, <2>5
<1>5. Closed(Closure)
  <2>1. \A n \in Closure : Children(n) \subseteq Round(Closure)
    BY <1>1, RoundFacts
  <2>2. QED
    BY <1>3, <1>4, <2>1 DEF Closed
<1>6. Closure = Needed
  BY <1>1, <1>2, <1>5 DEF Needed
<1>7. QED
  BY <1>1, <1>5, <1>6
-----------------------------------------------------------------------------
(***************************************************************************)
(* The resolver finds it.                                                  *)
(***************************************************************************)

\* The roots are needed, and what a needed node leads to.
LEMMA NeededFacts ==
  ASSUME IsWorld(world)
  PROVE  /\ Needed \subseteq Nodes /\ Roots \subseteq Needed
         /\ \A n \in Needed : Children(n) \subseteq Needed
         /\ \A s \in SUBSET Nodes : Closed(s) => Needed \subseteq s
<1>1. Closure = Needed /\ Closed(Closure)
  BY ClosureIsNeeded
<1>2. Closed(Needed)
  BY <1>1
<1>3. QED
  BY <1>2 DEF Closed, Needed

\* What a world says does not change while the world does not.
LEMMA WorldSays ==
  ASSUME UNCHANGED world
  PROVE  /\ \A p : Manifest(p)' = Manifest(p)
         /\ \A n : NameOf(n)' = NameOf(n) /\ Deps(n)' = Deps(n) /\ Children(n)' = Children(n)
                   /\ (Broken(n)' <=> Broken(n))
         /\ \A n, d : /\ DependencyFails(n, d)' <=> DependencyFails(n, d)
                      /\ DependencyNode(n, d)' = DependencyNode(n, d)
         /\ \A f : Taken(f)' = Taken(f) /\ (FrameInv(f)' <=> FrameInv(f))
         /\ TopLevel' = TopLevel /\ Roots' = Roots /\ Needed' = Needed
         /\ \A c : Clash(c)' <=> Clash(c)
<1> USE DEF Manifest
<1>1. \A p : Manifest(p)' = Manifest(p)
  OBVIOUS
<1>2. \A n : NameOf(n)' = NameOf(n) /\ Deps(n)' = Deps(n)
  BY DEF NameOf, Deps
<1>3. TopLevel' = TopLevel
  BY DEF TopLevel
<1>4. \A n, d : DependencyFails(n, d)' <=> DependencyFails(n, d)
  BY DEF DependencyFails, SelectionFails, Included, Matches
<1>5. \A n, d : DependencyNode(n, d)' = DependencyNode(n, d)
  BY <1>3 DEF DependencyNode, Matches, Included, LocalKind, TopLevel
<1> USE DEF Manifest
<1>6. \A n : Children(n)' = Children(n)
  BY <1>2, <1>4, <1>5 DEF Children
<1>7. \A n : Broken(n)' <=> Broken(n)
  BY <1>2, <1>4, <1>6 DEF Broken
<1>8. \A f : Taken(f)' = Taken(f)
  BY <1>2, <1>5 DEF Taken
<1>9. \A f : FrameInv(f)' <=> FrameInv(f)
  BY <1>2, <1>4, <1>8 DEF FrameInv
<1>10. Roots' = Roots
  BY <1>3 DEF Roots, Seed
<1>11. Needed' = Needed
  BY <1>6, <1>10 DEF Needed, Closed
<1>12. \A c : Clash(c)' <=> Clash(c)
  BY <1>1, <1>2, <1>11 DEF Clash
<1>13. QED
  BY <1>1, <1>2, <1>3, <1>4, <1>5, <1>6, <1>7, <1>8, <1>9, <1>10, <1>11, <1>12

\* The frame that ResolveNode starts with.
Frame(n) == [node |-> n, left |-> Deps(n), found |-> {}]

\* The first visit of a node that is needed: the node is known from then on, or
\* its name was, as another package's.
LEMMA OpenExact ==
  ASSUME IsWorld(world), TablesInv, NEW n \in Needed, n \notin nodes, NEW under, Open(n, under)
  PROVE  /\ UNCHANGED <<world, edges>>
         /\ \/ /\ at' = "refused" /\ why' \in {"version", "source"} /\ Clash(why')
               /\ UNCHANGED <<nodes, stack>>
            \/ /\ UNCHANGED <<at, why>>
               /\ nodes' = nodes \cup {n} /\ stack' = Append(under, Frame(n))
               /\ \A o \in nodes : NameOf(o) # NameOf(n)
<1> DEFINE namesakes == {o \in nodes : NameOf(o) = NameOf(n)}
           newer == \E o \in namesakes : Manifest(o.place).version # Manifest(n.place).version
<1>1. CASE namesakes # {}
  <2>1. /\ UNCHANGED <<world, edges, nodes, stack>> /\ at' = "refused"
        /\ why' = IF newer THEN "version" ELSE "source"
    BY <1>1 DEF Open, Refuse
  <2>2. PICK o \in namesakes : newer => Manifest(o.place).version # Manifest(n.place).version
    BY <1>1
  <2>3. o # n /\ NameOf(o) = NameOf(n) /\ o \in Needed
    BY <2>2 DEF TablesInv
  <2>4. why' = "version" => newer
    BY <2>1
  <2>5. Clash(why')
    BY <2>2, <2>3, <2>4 DEF Clash
  <2>6. QED
    BY <2>1, <2>5
<1>2. CASE namesakes = {}
  <2>1. /\ UNCHANGED <<world, edges, at, why>> /\ nodes' = nodes \cup {n}
        /\ stack' = Append(under, Frame(n))
    BY <1>2 DEF Open, Frame
  <2>2. QED
    BY <1>2, <2>1
<1>3. QED
  BY <1>1, <1>2

\* It has dealt with nothing yet.
LEMMA FrameFields ==
  ASSUME IsWorld(world), NEW n \in Nodes
  PROVE  /\ Frame(n) \in Frames /\ Frame(n).node = n /\ Frame(n).found = {}
         /\ FrameInv(Frame(n)) /\ Taken(Frame(n)) = {}
<1>1. Frame(n) \in Frames /\ Frame(n).node = n /\ Frame(n).found = {} /\ Frame(n).left = Deps(n)
  BY DepsType DEF Frame, Frames
<1>2. Taken(Frame(n)) = {}
  BY <1>1 DEF Taken
<1>3. QED
  BY <1>1, <1>2 DEF FrameInv

\* A call of ResolveNode has dealt with one more dependency.
LEMMA FrameGoesOn ==
  ASSUME NEW f, NEW g, FrameInv(f), NEW d \in f.left, ~DependencyFails(f.node, d),
         g.node = f.node, g.left = f.left \ {d}, DependencyNode(f.node, d) # f.node
  PROVE  FrameInv(g) /\ Taken(g) = Taken(f) \cup {DependencyNode(f.node, d)}
<1>1. f.left \subseteq Deps(f.node) /\ d \in Deps(f.node)
  BY DEF FrameInv
<1>2. Deps(g.node) \ g.left = (Deps(f.node) \ f.left) \cup {d}
  BY <1>1
<1>3. Taken(g) = Taken(f) \cup {DependencyNode(f.node, d)}
  BY <1>2 DEF Taken
<1>4. QED
  BY <1>1, <1>2, <1>3 DEF FrameInv

\* A call of ResolveNode that has dealt with all has found all there is to find.
LEMMA FrameIsDone ==
  ASSUME NEW f, FrameInv(f), f.left = {}
  PROVE  Taken(f) = Children(f.node) /\ ~Broken(f.node)
<1>1. \A d \in Deps(f.node) : ~DependencyFails(f.node, d)
  BY DEF FrameInv
<1>2. Taken(f) = Children(f.node)
  BY <1>1 DEF Taken, Children
<1>3. QED
  BY <1>1, <1>2 DEF FrameInv, Broken

\* What a node leads to is needed if the node is.
LEMMA ChildIsNeeded ==
  ASSUME IsWorld(world), NEW n \in Needed, NEW d \in Deps(n), ~DependencyFails(n, d)
  PROVE  /\ DependencyNode(n, d) \in Needed
         /\ DependencyNode(n, d) = n => Broken(n)
<1>1. DependencyNode(n, d) \in Children(n)
  BY DEF Children
<1>2. QED
  BY <1>1, NeededFacts DEF Broken

\* The stack after a step, from what is on it.
LEMMA StackIs ==
  ASSUME UNCHANGED world,
         \A i \in 1 .. Len(stack') :
           /\ FrameInv(stack'[i])
           /\ Taken(stack'[i]) = stack'[i].found \cup IF i < Len(stack') THEN {stack'[i + 1].node} ELSE {}
  PROVE  StackInv'
<1>1. \A g : (Taken(g)' = Taken(g)) /\ (FrameInv(g)' <=> FrameInv(g))
  BY WorldSays
<1>2. ASSUME NEW i \in 1 .. Len(stack'), NEW f \in {stack'[i]}
      PROVE  FrameInv(f)' /\ Taken(f)' = f.found \cup Called(i)'
  <2>1. FrameInv(f) /\ Taken(f) = f.found \cup Called(i)'
    BY DEF Called
  <2>2. QED
    BY <1>1, <2>1
<1>3. QED
  BY <1>2 DEF StackInv

\* The frames after another one was put on top of those of under.
LEMMA StackGrows ==
  ASSUME NEW under \in Seq(Frames), NEW f \in Frames, UNCHANGED world, stack' = Append(under, f),
         \A i \in 1 .. Len(under) :
           /\ FrameInv(under[i])
           /\ Taken(under[i]) = under[i].found
                                  \cup {IF i < Len(under) THEN under[i + 1].node ELSE f.node},
         FrameInv(f), Taken(f) = f.found
  PROVE  StackInv'
<1>1. /\ Len(stack') = Len(under) + 1 /\ Len(under) \in Nat
      /\ stack'[Len(under) + 1] = f
      /\ \A i \in 1 .. Len(under) : stack'[i] = under[i]
  BY AppendProperties
<1>2. ASSUME NEW i \in 1 .. Len(stack')
      PROVE  /\ FrameInv(stack'[i])
             /\ Taken(stack'[i]) = stack'[i].found \cup IF i < Len(stack') THEN {stack'[i + 1].node} ELSE {}
  <2>1. CASE i = Len(under) + 1
    BY <1>1, <2>1
  <2>2. CASE i \in 1 .. Len(under) - 1
    <3>1. /\ i \in 1 .. Len(under) /\ i + 1 \in 1 .. Len(under)
          /\ i < Len(under) /\ i < Len(stack')
      BY <1>1, <2>2
    <3>2. stack'[i] = under[i] /\ stack'[i + 1] = under[i + 1]
      BY <1>1, <3>1
    <3>3. FrameInv(under[i]) /\ Taken(under[i]) = under[i].found \cup {under[i + 1].node}
      BY <3>1
    <3>4. QED
      BY <3>1, <3>2, <3>3
  <2>3. CASE i = Len(under) /\ i \in 1 .. Len(under)
    <3>1. stack'[i] = under[i] /\ stack'[i + 1] = f /\ i < Len(stack') /\ ~(i < Len(under))
      BY <1>1, <2>3
    <3>2. FrameInv(under[i]) /\ Taken(under[i]) = under[i].found \cup {f.node}
      BY <2>3, <3>1
    <3>3. QED
      BY <3>1, <3>2
  <2>4. i = Len(under) + 1 \/ i \in 1 .. Len(under) - 1 \/ (i = Len(under) /\ i \in 1 .. Len(under))
    BY <1>1
  <2>5. QED
    BY <2>1, <2>2, <2>3, <2>4
<1>3. QED
  BY <1>2, StackIs

\* The tables after a step that leaves them alone.
LEMMA SameTables ==
  ASSUME TablesInv, UNCHANGED <<world, nodes, edges>>
  PROVE  TablesInv'
BY WorldSays DEF TablesInv

\* The stack after a step that leaves it alone.
LEMMA SameStack ==
  ASSUME StackInv, UNCHANGED <<world, stack>>
  PROVE  StackInv'
<1>1. \A i \in 1 .. Len(stack) : \A f \in {stack[i]} : FrameInv(f)' /\ Taken(f)' = f.found \cup Called(i)'
  BY WorldSays DEF StackInv, Called
<1>2. QED
  BY <1>1 DEF StackInv

\* The roots stay registered or to come while the resolver is at work, and
\* registered afterwards.
LEMMA RootsGoOn ==
  ASSUME RootsInv, UNCHANGED world, nodes \subseteq nodes', todo' \subseteq TopLevel,
         \/ at' \notin {"resolve", "resolved", "order", "planned"}
         \/ /\ at = "resolve" /\ at' = "resolve"
            /\ \A p \in todo : p \in todo' \/ Seed(p) \in nodes'
         \/ at \in {"resolved", "order", "planned"} /\ at' \in {"resolved", "order", "planned"}
  PROVE  RootsInv'
<1>1. TopLevel' = TopLevel /\ Roots' = Roots
  BY WorldSays
<1>2. at' = "resolve" => \A p \in TopLevel : p \in todo' \/ Seed(p) \in nodes'
  BY DEF RootsInv
<1>3. at' \in {"resolved", "order", "planned"} => Roots \subseteq nodes'
  BY DEF RootsInv
<1>4. (\A p \in TopLevel : p \in todo \/ Seed(p) \in nodes)'
        <=> \A p \in TopLevel : p \in todo' \/ Seed(p) \in nodes'
  BY <1>1 DEF Seed
<1>5. QED
  BY <1>1, <1>2, <1>3, <1>4 DEF RootsInv

\* A refusal keeps its reason, or has found one.
LEMMA ReasonGoesOn ==
  ASSUME ReasonInv, UNCHANGED world,
         \/ why' = why \/ why' \notin {"dependency", "self", "version", "source"}
         \/ why' \in {"dependency", "self"} /\ \E n \in Needed : Broken(n)
         \/ why' \in {"version", "source"} /\ Clash(why')
  PROVE  ReasonInv'
<1>1. why' \in {"dependency", "self"} => \E n \in Needed : Broken(n)
  BY DEF ReasonInv
<1>2. \A cause \in {"version", "source"} : why' = cause => Clash(cause)
  BY DEF ReasonInv
<1>3. Needed' = Needed /\ \A n : Broken(n)' <=> Broken(n)
  BY WorldSays
<1>4. \A c : Clash(c)' <=> Clash(c)
  BY WorldSays
<1>5. QED
  BY <1>1, <1>2, <1>3, <1>4 DEF ReasonInv

\* The first visit of a node that is needed, from the calls of under.
LEMMA OpenStep ==
  ASSUME TypeOK, ExactInv, at = "resolve", NEW n \in Needed, n \notin nodes,
         NEW under \in Seq(Frames), Open(n, under),
         \A i \in 1 .. Len(under) :
           /\ FrameInv(under[i])
           /\ Taken(under[i]) = under[i].found
                                  \cup {IF i < Len(under) THEN under[i + 1].node ELSE n},
         todo' \subseteq todo, \A p \in todo : p \in todo' \/ Seed(p) \in nodes \cup {n}
  PROVE  ExactInv'
<1>1. IsWorld(world) /\ TablesInv /\ StackInv /\ RootsInv /\ ReasonInv
  BY DEF TypeOK, ExactInv
<1>2. UNCHANGED <<world, edges>> /\ todo' \subseteq TopLevel
  BY <1>1, OpenExact DEF RootsInv
<1>3. CASE /\ at' = "refused" /\ why' \in {"version", "source"} /\ Clash(why')
           /\ UNCHANGED <<nodes, stack>>
  BY <1>1, <1>2, <1>3, SameTables, SameStack, RootsGoOn, ReasonGoesOn DEF ExactInv
<1>4. CASE /\ UNCHANGED <<at, why>>
           /\ nodes' = nodes \cup {n} /\ stack' = Append(under, Frame(n))
           /\ \A o \in nodes : NameOf(o) # NameOf(n)
  <2>1. n \in Nodes
    BY <1>1, NeededFacts
  <2>2. /\ Frame(n) \in Frames /\ Frame(n).node = n /\ Frame(n).found = {}
        /\ FrameInv(Frame(n)) /\ Taken(Frame(n)) = {}
    BY <1>1, <2>1, FrameFields
  <2>3. StackInv'
    <3>1. PICK f \in Frames : f = Frame(n)
      BY <2>2
    <3>2. /\ FrameInv(f) /\ Taken(f) = f.found /\ f.node = n /\ stack' = Append(under, f)
      BY <1>4, <2>2, <3>1
    <3>3. QED
      BY <1>2, <3>2, StackGrows
  <2>4. TablesInv'
    <3>1. nodes' \subseteq Needed
      BY <1>1, <1>4 DEF TablesInv
    <3>2. \A m, o \in nodes' : NameOf(m) = NameOf(o) => m = o
      BY <1>1, <1>4 DEF TablesInv
    <3>3. \A o \in DOMAIN edges' : edges'[o] = Children(o) /\ ~Broken(o)
      BY <1>1, <1>2 DEF TablesInv
    <3>4. QED
      BY <1>2, <3>1, <3>2, <3>3, WorldSays DEF TablesInv
  <2>5. RootsInv' /\ ReasonInv'
    BY <1>1, <1>2, <1>4, RootsGoOn, ReasonGoesOn
  <2>6. QED
    BY <2>3, <2>4, <2>5 DEF ExactInv
<1>5. QED
  BY <1>1, <1>3, <1>4, OpenExact

\* A root is met: it is known, or it is visited.
LEMMA SeedStep ==
  ASSUME TypeOK, ExactInv, ResolveSeed
  PROVE  ExactInv'
<1>1. IsWorld(world) /\ TablesInv /\ StackInv /\ RootsInv /\ ReasonInv
  BY DEF TypeOK, ExactInv
<1>2. PICK p \in todo : /\ todo' = todo \ {p}
                        /\ IF Seed(p) \in nodes THEN UNCHANGED <<world, at, why, nodes, edges, stack>>
                           ELSE Open(Seed(p), <<>>)
  BY DEF ResolveSeed
<1>3. at = "resolve" /\ todo' \subseteq todo /\ todo' \subseteq TopLevel /\ <<>> \in Seq(Frames) /\ Len(<<>>) = 0
  BY <1>1, <1>2 DEF ResolveSeed, RootsInv
<1>4. CASE Seed(p) \in nodes
  <2>1. UNCHANGED <<world, at, why, nodes, edges, stack>>
    BY <1>2, <1>4
  <2>2. \A q \in todo : q \in todo' \/ Seed(q) \in nodes'
    BY <1>2, <1>4, <2>1
  <2>3. QED
    BY <1>1, <1>3, <2>1, <2>2, SameTables, SameStack, RootsGoOn, ReasonGoesOn DEF ExactInv
<1>5. CASE Seed(p) \notin nodes
  <2>1. Seed(p) \in Needed
    BY <1>1, <1>2, NeededFacts DEF RootsInv, Roots
  <2>2. \A q \in todo : q \in todo' \/ Seed(q) \in nodes \cup {Seed(p)}
    BY <1>2
  <2>3. Open(Seed(p), <<>>)
    BY <1>2, <1>5
  <2>4. \A i \in 1 .. Len(<<>>) :
          /\ FrameInv(<<>>[i])
          /\ Taken(<<>>[i]) = <<>>[i].found
                                \cup {IF i < Len(<<>>) THEN <<>>[i + 1].node ELSE Seed(p)}
    BY <1>3
  <2>5. QED
    BY <1>3, <1>5, <2>1, <2>2, <2>3, <2>4, OpenStep
<1>6. QED
  BY <1>4, <1>5

\* A dependency of the package at hand is met.
LEMMA DependencyStep ==
  ASSUME TypeOK, GraphInv, ExactInv, ResolveDependency
  PROVE  ExactInv'
<1>1. IsWorld(world) /\ TablesInv /\ StackInv /\ RootsInv /\ ReasonInv /\ stack \in Seq(Frames)
  BY DEF TypeOK, ExactInv
<1>2. at = "resolve" /\ stack # <<>> /\ UNCHANGED todo
  BY DEF ResolveDependency
<1>3. PICK d \in Top.left :
        LET child == DependencyNode(Top.node, d)
            rest == [Top EXCEPT !.left = @ \ {d}]
        IN  \/ d.kind # "path" /\ Refuse("fetch")
            \/ DependencyFails(Top.node, d) /\ Refuse("dependency")
            \/ /\ ~DependencyFails(Top.node, d)
               /\ child \in nodes
               /\ IF child = Top.node THEN Refuse("self")
                  ELSE /\ stack' = Append(Below, [rest EXCEPT !.found = @ \cup {child}])
                       /\ UNCHANGED <<world, at, why, nodes, edges>>
            \/ /\ ~DependencyFails(Top.node, d)
               /\ child \notin nodes
               /\ Open(child, Append(Below, rest))
  BY DEF ResolveDependency
<1> DEFINE child == DependencyNode(Top.node, d)
           rest == [Top EXCEPT !.left = @ \ {d}]
           more == [rest EXCEPT !.found = @ \cup {child}]
<1>4. /\ Len(stack) \in Nat \ {0} /\ Top = stack[Len(stack)]
      /\ Top.node \in nodes /\ Below \in Seq(Frames) /\ Len(Below) = Len(stack) - 1
      /\ \A i \in 1 .. Len(Below) : Below[i] = stack[i]
  BY <1>2, FramesBelow
<1>5. Top \in Frames
  BY <1>1, <1>2, TopType
<1>6. Top.node \in Needed
  BY <1>1, <1>4 DEF TablesInv
<1>7. FrameInv(Top) /\ Taken(Top) = Top.found /\ d \in Deps(Top.node)
  <2>1. Len(stack) \in 1 .. Len(stack) /\ Called(Len(stack)) = {}
    BY <1>4 DEF Called
  <2>2. FrameInv(Top) /\ Taken(Top) = Top.found
    BY <1>1, <1>4, <2>1 DEF StackInv
  <2>3. QED
    BY <2>2 DEF FrameInv
<1>8. \A i \in 1 .. Len(Below) :
        /\ FrameInv(Below[i])
        /\ Taken(Below[i]) = Below[i].found
                               \cup {IF i < Len(Below) THEN Below[i + 1].node ELSE Top.node}
  <2> SUFFICES ASSUME NEW i \in 1 .. Len(Below)
               PROVE  /\ FrameInv(Below[i])
                      /\ Taken(Below[i]) = Below[i].found
                                             \cup {IF i < Len(Below) THEN Below[i + 1].node ELSE Top.node}
    OBVIOUS
  <2>1. i \in 1 .. Len(stack) /\ i < Len(stack) /\ Below[i] = stack[i]
    BY <1>4
  <2>2. FrameInv(Below[i]) /\ Taken(Below[i]) = Below[i].found \cup {stack[i + 1].node}
    BY <1>1, <2>1 DEF StackInv, Called
  <2>3. stack[i + 1] = IF i < Len(Below) THEN Below[i + 1] ELSE Top
    BY <1>4
  <2>4. QED
    BY <2>2, <2>3
<1>9. /\ rest \in Frames /\ rest.node = Top.node
      /\ rest.left = Top.left \ {d} /\ rest.found = Top.found
  BY <1>5 DEF Frames
<1> HIDE DEF child, rest, more
<1>10. CASE Refuse("fetch") \/ (DependencyFails(Top.node, d) /\ Refuse("dependency"))
              \/ (~DependencyFails(Top.node, d) /\ child = Top.node /\ Refuse("self"))
  <2>1. /\ UNCHANGED <<world, nodes, edges, stack>> /\ at' = "refused" /\ todo' \subseteq TopLevel
        /\ why' \in {"fetch", "dependency", "self"}
    BY <1>1, <1>2, <1>10 DEF Refuse, RootsInv
  <2>2. Refuse("dependency") \/ Refuse("self") => why' # "fetch"
    BY DEF Refuse
  <2>3. Refuse("fetch") => why' = "fetch"
    BY DEF Refuse
  <2>4. why' # "fetch" => Broken(Top.node)
    <3>1. DependencyFails(Top.node, d) => Broken(Top.node)
      BY <1>7 DEF Broken
    <3>2. ~DependencyFails(Top.node, d) /\ child = Top.node => Broken(Top.node)
      BY <1>1, <1>6, <1>7, ChildIsNeeded DEF child
    <3>3. QED
      BY <1>10, <2>3, <3>1, <3>2
  <2>5. RootsInv'
    BY <1>1, <2>1, RootsGoOn
  <2>6. ReasonInv'
    BY <1>1, <1>6, <2>1, <2>4, ReasonGoesOn
  <2>7. QED
    BY <1>1, <2>1, <2>5, <2>6, SameTables, SameStack DEF ExactInv
<1>11. CASE /\ ~DependencyFails(Top.node, d) /\ child \in nodes /\ child # Top.node
            /\ stack' = Append(Below, more) /\ UNCHANGED <<world, at, why, nodes, edges>>
  <2>1. /\ more \in Frames /\ more.node = Top.node
        /\ more.left = Top.left \ {d} /\ more.found = Top.found \cup {child}
    <3>1. child \in Nodes
      BY <1>11 DEF TypeOK
    <3>2. QED
      BY <1>9, <3>1 DEF more, Frames
  <2>2. FrameInv(more) /\ Taken(more) = more.found
    BY <1>7, <1>11, <2>1, FrameGoesOn DEF child
  <2>3. PICK f \in Frames : f = more
    BY <2>1
  <2>4. /\ FrameInv(f) /\ Taken(f) = f.found /\ f.node = Top.node
        /\ stack' = Append(Below, f) /\ UNCHANGED world
    BY <1>11, <2>1, <2>2, <2>3
  <2>5. \A i \in 1 .. Len(Below) :
          /\ FrameInv(Below[i])
          /\ Taken(Below[i]) = Below[i].found
                                 \cup {IF i < Len(Below) THEN Below[i + 1].node ELSE f.node}
    BY <1>8, <2>4
  <2>6. StackInv'
    BY <1>4, <2>4, <2>5, StackGrows
  <2>7. RootsInv'
    BY <1>1, <1>2, <1>11, RootsGoOn DEF RootsInv
  <2>8. ReasonInv'
    BY <1>1, <1>11, ReasonGoesOn
  <2>9. QED
    BY <1>1, <1>11, <2>6, <2>7, <2>8, SameTables DEF ExactInv
<1>12. CASE /\ ~DependencyFails(Top.node, d) /\ child \notin nodes
            /\ Open(child, Append(Below, rest))
  <2>1. child \in Needed /\ child # Top.node
    BY <1>1, <1>4, <1>6, <1>7, <1>12, ChildIsNeeded DEF child
  <2>2. FrameInv(rest) /\ Taken(rest) = rest.found \cup {child}
    BY <1>7, <1>9, <1>12, <2>1, FrameGoesOn DEF child
  <2>3. PICK f \in Frames : f = rest
    BY <1>9
  <2>4. PICK under \in Seq(Frames) : under = Append(Below, f)
    BY <1>4, AppendProperties
  <2>5. /\ Len(under) = Len(Below) + 1 /\ Len(Below) \in Nat
        /\ under[Len(Below) + 1] = f
        /\ \A i \in 1 .. Len(Below) : under[i] = Below[i]
    BY <1>4, <2>4, AppendProperties
  <2>6. ASSUME NEW i \in 1 .. Len(under)
        PROVE  /\ FrameInv(under[i])
               /\ Taken(under[i]) = under[i].found
                                      \cup {IF i < Len(under) THEN under[i + 1].node ELSE child}
    <3>1. CASE i = Len(Below) + 1
      BY <2>2, <2>3, <2>5, <3>1
    <3>2. CASE i \in 1 .. Len(Below)
      <4>1. under[i] = Below[i] /\ i < Len(under)
        BY <2>5, <3>2
      <4>2. under[i + 1].node = IF i < Len(Below) THEN Below[i + 1].node ELSE Top.node
        <5>1. CASE i < Len(Below)
          <6>1. i + 1 \in 1 .. Len(Below)
            BY <2>5, <3>2, <5>1
          <6>2. QED
            BY <2>5, <5>1, <6>1
        <5>2. CASE ~(i < Len(Below))
          <6>1. i + 1 = Len(Below) + 1
            BY <2>5, <3>2, <5>2
          <6>2. QED
            BY <1>9, <2>3, <2>5, <5>2, <6>1
        <5>3. QED
          BY <5>1, <5>2
      <4>3. QED
        BY <1>8, <3>2, <4>1, <4>2
    <3>3. i = Len(Below) + 1 \/ i \in 1 .. Len(Below)
      BY <2>5
    <3>4. QED
      BY <3>1, <3>2, <3>3
  <2>7. Open(child, under) /\ todo' \subseteq todo
    BY <1>2, <1>12, <2>3, <2>4
  <2>8. \A p \in todo : p \in todo' \/ Seed(p) \in nodes \cup {child}
    BY <1>2
  <2>9. PICK n \in Needed : n = child
    BY <2>1
  <2>10. QED
    BY <1>2, <1>12, <2>6, <2>7, <2>8, <2>9, OpenStep
<1>13. QED
  BY <1>3, <1>10, <1>11, <1>12 DEF child, rest, more

\* A call of ResolveNode returns: the tables hold all its node leads to.
LEMMA ReturnStep ==
  ASSUME TypeOK, GraphInv, ExactInv, Return
  PROVE  ExactInv'
<1>1. IsWorld(world) /\ TablesInv /\ StackInv /\ RootsInv /\ ReasonInv /\ stack \in Seq(Frames)
  BY DEF TypeOK, ExactInv
<1>2. /\ at = "resolve" /\ stack # <<>> /\ Top.left = {}
      /\ UNCHANGED <<world, at, why, todo, nodes>>
  BY DEF Return
<1>3. /\ Len(stack) \in Nat \ {0} /\ Top = stack[Len(stack)]
      /\ Top.node \in nodes /\ Below \in Seq(Frames) /\ Len(Below) = Len(stack) - 1
      /\ \A i \in 1 .. Len(Below) : Below[i] = stack[i]
  BY <1>2, FramesBelow
<1>4. Len(stack) \in 1 .. Len(stack) /\ Called(Len(stack)) = {}
  BY <1>3 DEF Called
<1>5. FrameInv(Top) /\ Taken(Top) = Top.found
  BY <1>1, <1>3, <1>4 DEF StackInv
<1>6. Top.found = Children(Top.node) /\ ~Broken(Top.node)
  BY <1>2, <1>5, FrameIsDone
<1>7. TablesInv'
  <2>1. /\ DOMAIN edges' = DOMAIN edges \cup {Top.node}
        /\ \A n \in DOMAIN edges' : edges'[n] = IF n = Top.node THEN Top.found ELSE edges[n]
    BY DEF Return
  <2>2. \A n \in DOMAIN edges' : edges'[n] = Children(n) /\ ~Broken(n)
    BY <1>1, <1>6, <2>1 DEF TablesInv
  <2>3. QED
    BY <1>1, <1>2, <2>2, WorldSays DEF TablesInv
<1>8. CASE Len(stack) = 1
  <2>1. stack' = <<>> /\ Len(stack') = 0
    BY <1>8 DEF Return
  <2>2. StackInv'
    BY <1>2, <2>1, StackIs
  <2>3. QED
    BY <1>1, <1>2, <1>7, <2>2, RootsGoOn, ReasonGoesOn DEF ExactInv, RootsInv
<1>9. CASE Len(stack) # 1
  <2> DEFINE k == Len(stack) - 1
             f == [Below[k] EXCEPT !.found = @ \cup {Top.node}]
  <2>1. k \in 1 .. Len(Below) /\ k \in 1 .. Len(stack) /\ k < Len(stack) /\ k = Len(Below)
    BY <1>3, <1>9
  <2>2. Below[k] \in Frames /\ Below[k] = stack[k] /\ stack[k + 1] = Top
    BY <1>3, <2>1, ElementOfSeq
  <2>3. /\ f \in Frames /\ f.node = Below[k].node /\ f.left = Below[k].left
        /\ f.found = Below[k].found \cup {Top.node}
    <3>1. Top.node \in Nodes
      BY <1>3, TypeParts DEF GraphTyped
    <3>2. QED
      BY <2>2, <3>1 DEF Frames
  <2>4. stack' = [Below EXCEPT ![k] = f]
    BY <1>9 DEF Return
  <2> HIDE DEF k, f
  <2>5. /\ Len(stack') = Len(Below)
        /\ \A j \in 1 .. Len(Below) : stack'[j] = IF j = k THEN f ELSE Below[j]
    BY <1>3, <2>1, <2>3, <2>4, ExceptSeq
  <2>6. FrameInv(f) /\ Taken(f) = f.found
    <3>1. FrameInv(Below[k]) /\ Taken(Below[k]) = Below[k].found \cup Called(k)
      BY <1>1, <2>1, <2>2 DEF StackInv
    <3>2. Called(k) = {Top.node}
      BY <2>1, <2>2 DEF Called
    <3>3. Taken(f) = Taken(Below[k]) /\ (FrameInv(f) <=> FrameInv(Below[k]))
      BY <2>3 DEF Taken, FrameInv
    <3>4. QED
      BY <2>3, <3>1, <3>2, <3>3
  <2>7. ASSUME NEW i \in 1 .. Len(stack')
        PROVE  /\ FrameInv(stack'[i])
               /\ Taken(stack'[i]) = stack'[i].found
                                       \cup IF i < Len(stack') THEN {stack'[i + 1].node} ELSE {}
    <3>1. CASE i = k
      <4>1. stack'[i] = f /\ ~(i < Len(stack'))
        BY <2>1, <2>5, <3>1
      <4>2. QED
        BY <2>6, <4>1
    <3>2. CASE i # k
      <4>1. /\ i \in 1 .. Len(stack) /\ i < Len(stack) /\ i < Len(stack')
            /\ i \in 1 .. Len(Below) /\ i + 1 \in 1 .. Len(Below)
        BY <1>3, <2>1, <2>5, <3>2
      <4>2. stack'[i] = stack[i] /\ stack'[i + 1].node = stack[i + 1].node
        BY <1>3, <2>2, <2>3, <2>5, <3>2, <4>1
      <4>3. FrameInv(stack[i]) /\ Taken(stack[i]) = stack[i].found \cup {stack[i + 1].node}
        BY <1>1, <4>1 DEF StackInv, Called
      <4>4. QED
        BY <4>1, <4>2, <4>3
    <3>3. QED
      BY <3>1, <3>2
  <2>8. StackInv'
    BY <1>2, <2>7, StackIs
  <2>9. QED
    BY <1>1, <1>2, <1>7, <2>8, RootsGoOn, ReasonGoesOn DEF ExactInv, RootsInv
<1>10. QED
  BY <1>8, <1>9

\* The resolver is at the closure of the roots, or on the way to it, or there
\* is none.
LEMMA ExactStep ==
  ASSUME TypeOK, GraphInv, ExactInv, [Next]_vars
  PROVE  ExactInv'
<1>1. IsWorld(world) /\ TablesInv /\ StackInv /\ RootsInv /\ ReasonInv
  BY DEF TypeOK, ExactInv
<1>2. UNCHANGED world
  BY SameWorld
<1>3. ASSUME UNCHANGED <<nodes, edges, stack>>, RootsInv',
             why' = why \/ why' \notin {"dependency", "self", "version", "source"}
      PROVE  ExactInv'
  BY <1>1, <1>2, <1>3, SameTables, SameStack, ReasonGoesOn DEF ExactInv
<1>4. CASE ResolveSeed
  BY <1>4, SeedStep
<1>5. CASE ResolveDependency
  BY <1>5, DependencyStep
<1>6. CASE Return
  BY <1>6, ReturnStep
<1>7. CASE BuildRootSeeds
  <2>1. CASE at' = "refused" /\ why' = "workspace" /\ UNCHANGED <<todo, nodes, edges, stack>>
    <3>1. RootsInv'
      BY <1>1, <1>2, <2>1, RootsGoOn DEF RootsInv
    <3>2. QED
      BY <1>3, <2>1, <3>1
  <2>2. CASE at' = "resolve" /\ todo' = TopLevel /\ UNCHANGED <<why, nodes, edges, stack>>
    <3>1. TopLevel' = TopLevel
      BY <1>2, WorldSays
    <3>2. RootsInv'
      BY <2>2, <3>1 DEF RootsInv
    <3>3. QED
      BY <1>3, <2>2, <3>2
  <2>3. QED
    BY <1>7, <2>1, <2>2 DEF BuildRootSeeds, Refuse
<1>8. CASE Resolved
  <2>1. at = "resolve" /\ at' = "resolved" /\ todo = {} /\ UNCHANGED <<why, todo, nodes, edges, stack>>
    BY <1>8 DEF Resolved
  <2>2. Roots \subseteq nodes
    BY <1>1, <2>1 DEF RootsInv, Roots
  <2>3. TopLevel' = TopLevel /\ Roots' = Roots
    BY <1>2, WorldSays
  <2>4. RootsInv'
    BY <2>1, <2>2, <2>3 DEF RootsInv
  <2>5. QED
    BY <1>3, <2>1, <2>4
<1>9. CASE ParsePlanInvocation \/ SelectEntry \/ Visit \/ Leave \/ WritePlan \/ UNCHANGED vars
  <2>1. /\ UNCHANGED <<todo, nodes, edges, stack>>
        /\ why' = why \/ why' \notin {"dependency", "self", "version", "source"}
        /\ \/ at' \notin {"resolve", "resolved", "order", "planned"}
           \/ at = "resolve" /\ at' = "resolve"
           \/ at \in {"resolved", "order", "planned"} /\ at' \in {"resolved", "order", "planned"}
    <3>1. CASE SelectEntry
      BY <3>1 DEF SelectEntry
    <3>2. CASE ParsePlanInvocation \/ Visit \/ Leave \/ WritePlan
      BY <3>2 DEF ParsePlanInvocation, Visit, Leave, WritePlan, graphVars
    <3>3. CASE UNCHANGED vars
      BY <3>3 DEF vars, graphVars
    <3>4. QED
      BY <1>9, <3>1, <3>2, <3>3
  <2>2. todo' \subseteq TopLevel
    BY <1>1, <2>1 DEF RootsInv
  <2>3. RootsInv'
    BY <1>1, <1>2, <2>1, <2>2, RootsGoOn
  <2>4. QED
    BY <1>3, <2>1, <2>3
<1>10. QED
  BY <1>4, <1>5, <1>6, <1>7, <1>8, <1>9 DEF Next, GraphNext

\* Before it starts there is nothing in the tables.
LEMMA InitExact == Init => ExactInv
<1> SUFFICES ASSUME Init PROVE ExactInv
  OBVIOUS
<1>1. /\ at = "invoked" /\ why = "none" /\ todo = {} /\ nodes = {} /\ edges = <<>> /\ stack = <<>>
  BY DEF Init, GraphInit
<1>2. DOMAIN edges = {} /\ Len(stack) = 0
  BY <1>1
<1>3. QED
  BY <1>1, <1>2 DEF ExactInv, TablesInv, StackInv, RootsInv, ReasonInv

\* With nothing left to do, the tables are what the world has.
LEMMA ExactAtLast ==
  ASSUME TypeOK, GraphInv, ExactInv
  PROVE  ResolvesExactly
<1>1. IsWorld(world) /\ TablesInv /\ RootsInv /\ ReasonInv
  BY DEF TypeOK, ExactInv
<1>2. Closure = Needed
  BY <1>1, ClosureIsNeeded
<1>3. ASSUME NEW m \in Needed, Broken(m) PROVE ~Consistent
  BY <1>2, <1>3 DEF Consistent, Broken
<1>4. ASSUME at \notin {"invoked", "seeds", "resolve", "refused"}
      PROVE  Consistent /\ nodes = Closure /\ edges = [n \in Closure |-> Children(n)]
  <2>1. at \in {"resolved", "order", "planned"}
    BY <1>4 DEF TypeOK
  <2>2. DOMAIN edges = nodes /\ \A n \in nodes : edges[n] \subseteq nodes
    BY <2>1, EdgesAreNodes
  <2>3. Closed(nodes) /\ nodes \in SUBSET Nodes
    <3>1. \A n \in nodes : Children(n) \subseteq nodes
      BY <1>1, <2>2 DEF TablesInv
    <3>2. Roots \subseteq nodes
      BY <1>1, <2>1 DEF RootsInv
    <3>3. nodes \in SUBSET Nodes
      BY DEF TypeOK
    <3>4. QED
      BY <3>1, <3>2, <3>3 DEF Closed
  <2>4. nodes = Needed
    BY <1>1, <2>3, NeededFacts DEF TablesInv
  <2>5. edges = [n \in nodes |-> Children(n)]
    BY <1>1, <2>2 DEF TablesInv, TypeOK
  <2>6. Consistent
    BY <1>1, <1>2, <2>2, <2>4 DEF Consistent, TablesInv, Broken
  <2>7. QED
    BY <1>2, <2>4, <2>5, <2>6
<1>5. ASSUME why \in {"dependency", "self"} PROVE ~Consistent
  BY <1>1, <1>3, <1>5 DEF ReasonInv
<1>6. ASSUME NEW c \in {"version", "source"}, why = c PROVE ~Consistent
  BY <1>1, <1>2, <1>6 DEF ReasonInv, Clash, Consistent
<1>7. ASSUME why = "version"
      PROVE  \E m, n \in Closure : /\ NameOf(m) = NameOf(n)
                                   /\ Manifest(m.place).version # Manifest(n.place).version
  BY <1>1, <1>2, <1>7 DEF ReasonInv, Clash
<1>8. QED
  BY <1>4, <1>5, <1>6, <1>7 DEF ResolvesExactly

\* The graph is the closure of the roots in the world, in whatever order the
\* resolver goes through roots and dependencies, and it refuses what has none.
THEOREM GraphIsExact == Spec => []ResolvesExactly
<1>1. PlanningInv => TypeOK /\ GraphInv
  BY DEF PlanningInv
<1>2. TypeOK /\ GraphInv /\ ExactInv /\ [Next]_vars => ExactInv'
  BY ExactStep
<1>3. TypeOK /\ GraphInv /\ ExactInv => ResolvesExactly
  BY ExactAtLast
<1>4. QED
  BY <1>1, <1>2, <1>3, InitExact, PlanningInvariant, PTL DEF Spec
=============================================================================
