---------------------------- MODULE PackageGraph ----------------------------
(***************************************************************************)
(* The single-version resolver, SingleVersionResolver of                   *)
(* src/PafioResolve/Resolver.cpp: from the manifest of a project to the    *)
(* graph of the packages it needs, depth first, a package being a node     *)
(* once it is met.                                                         *)
(*                                                                         *)
(* A place is a directory that can hold a pafio.toml: one of the project,  *)
(* or one of the snapshot of a git revision or a registry release, which   *)
(* is named by the place of its own pafio.toml; the project is named Root. *)
(* Materialising a snapshot is the business of SourceCache and             *)
(* RegistryClient; here it works or it fails.  The code goes through roots *)
(* and dependencies in the order of their paths and aliases: the names are *)
(* abstract, so the model takes them in any order.  Dependencies and       *)
(* dev-dependencies are one set, as the resolver joins them.  The          *)
(* manifests do not change while it runs.                                  *)
(***************************************************************************)
EXTENDS Integers, FiniteSets, Sequences

CONSTANTS
  Places,         \* the directories
  Root,           \* that of the manifest the run is given
  Names,          \* the names of packages
  Any,            \* a dependency that names no package
  MaxDepth        \* bounds the recursion; no run gets there

Kinds == {"workspace", "path", "git", "registry"}
Targets == [kind : {"lib", "bin", "test"}, name : STRING]
Dependencies == [kind : {"path", "git", "registry"}, place : Places, package : Names \cup {Any}]
Manifests == [exists : BOOLEAN, package : BOOLEAN, name : Names, version : STRING,
              deps : SUBSET Dependencies, members : SUBSET Places, excluded : SUBSET Places,
              toolchain : STRING, targets : SUBSET Targets, absent : SUBSET Targets]
Nodes == [kind : Kinds, place : Places]

ASSUME GraphAssumption ==
  /\ Root \in Places /\ IsFiniteSet(Places)
  /\ Any \notin Names
  /\ MaxDepth \in Nat

\* What the directories hold, and the snapshot each is in.
IsWorld(w) ==
  /\ w.manifest \in [Places -> Manifests]
  /\ w.snapshot \in [Places -> Places]
  /\ w.manifest[Root].exists

VARIABLES
  world,          \* the directories
  at,             \* where the run is; it resolves from "seeds" to "resolved"
  why,            \* what it was refused for
  todo,           \* root_seeds_ still to resolve
  nodes,          \* nodes_, each with its fingerprint as identity
  edges,          \* node -> its dependencies, once it is complete
  stack           \* the calls of ResolveNode under way

graphVars == <<world, at, why, todo, nodes, edges, stack>>

Frames == [node : Nodes, left : SUBSET Dependencies, found : SUBSET Nodes]

Manifest(p) == world.manifest[p]
Deps(n) == Manifest(n.place).deps
NameOf(n) == Manifest(n.place).name

\* The directories whose packages are roots of the graph.
TopLevel == {p \in {Root} : Manifest(p).package} \cup Manifest(Root).members

\* The kind of a package of the project, whichever way it is reached.
LocalKind(p) == IF p \in TopLevel THEN "workspace" ELSE "path"
Seed(p) == [kind |-> "workspace", place |-> p]
Roots == {Seed(p) : p \in TopLevel}

\* The packages at place p, or among the members of the workspace there, that
\* a dependency on package q can mean.
Included(p) == Manifest(p).members \ Manifest(p).excluded
Matches(p, q) ==
  {m \in {p} : Manifest(m).package /\ q \in {Any, Manifest(m).name}}
    \cup {m \in Included(p) : q # Any /\ Manifest(m).name = q}

SelectionFails(p, q) ==
  \/ q # Any /\ \E m \in Included(p) : ~(Manifest(m).exists /\ Manifest(m).package)
  \/ Cardinality(Matches(p, q)) # 1

\* The dependency d of node n leads nowhere.
DependencyFails(n, d) ==
  \/ ~Manifest(d.place).exists
  \/ d.kind = "path" /\ n.kind = "git" /\ world.snapshot[d.place] # world.snapshot[n.place]
  \/ d.kind = "registry" /\ d.package = Any
  \/ SelectionFails(d.place, d.package)

\* Where it leads: within a git snapshot, path dependencies stay git sources.
DependencyNode(n, d) ==
  LET p == CHOOSE m \in Matches(d.place, d.package) : TRUE
  IN  [kind |-> IF d.kind # "path" THEN d.kind
                ELSE IF n.kind = "git" THEN "git" ELSE LocalKind(p),
       place |-> p]
-----------------------------------------------------------------------------
Refuse(cause) ==
  /\ at' = "refused"
  /\ why' = cause
  /\ UNCHANGED <<world, nodes, edges, stack>>

BuildRootSeeds ==
  /\ at = "seeds"
  /\ IF \E m \in Manifest(Root).members : m \in Manifest(Root).excluded \/ ~Manifest(m).exists
                                             \/ ~Manifest(m).package
     THEN Refuse("workspace") /\ UNCHANGED todo
     ELSE /\ at' = "resolve"
          /\ todo' = TopLevel
          /\ UNCHANGED <<world, why, nodes, edges, stack>>

Top == stack[Len(stack)]
Below == SubSeq(stack, 1, Len(stack) - 1)

\* (variant: a package that is known by its name is taken for the one asked for)
OpenTakingNamesakes(n, under) ==
  LET namesakes == {o \in nodes : NameOf(o) = NameOf(n)}
  IN  IF \E o \in namesakes : Manifest(o.place).version # Manifest(n.place).version
      THEN Refuse("version")
      ELSE /\ Len(under) < MaxDepth
           /\ nodes' = IF namesakes = {} THEN nodes \cup {n} ELSE nodes
           /\ stack' = IF namesakes = {}
                       THEN Append(under, [node |-> n, left |-> Deps(n), found |-> {}]) ELSE under
           /\ UNCHANGED <<world, at, why, edges>>

\* (variant: a node is entered in the tables when its dependencies are done)
OpenUnregistered(n, under) ==
  /\ Len(under) < MaxDepth
  /\ stack' = Append(under, [node |-> n, left |-> Deps(n), found |-> {}])
  /\ UNCHANGED <<world, at, why, nodes, edges>>

\* The first visit of node n, on the stack of calls under.
Open(n, under) ==
  LET namesakes == {o \in nodes : NameOf(o) = NameOf(n)}
  IN  IF namesakes # {}
      THEN Refuse(IF \E o \in namesakes : Manifest(o.place).version # Manifest(n.place).version
                  THEN "version" ELSE "source")
      ELSE /\ Len(under) < MaxDepth
           /\ nodes' = nodes \cup {n}
           /\ stack' = Append(under, [node |-> n, left |-> Deps(n), found |-> {}])
           /\ UNCHANGED <<world, at, why, edges>>

ResolveSeed ==
  /\ at = "resolve" /\ stack = <<>>
  /\ \E p \in todo :
       /\ todo' = todo \ {p}
       /\ IF Seed(p) \in nodes THEN UNCHANGED <<world, at, why, nodes, edges, stack>>
          ELSE Open(Seed(p), <<>>)

\* One dependency of the package at hand: select it, and go into it when it is new.
ResolveDependency ==
  /\ at = "resolve" /\ stack # <<>>
  /\ UNCHANGED todo
  /\ \E d \in Top.left :
       LET child == DependencyNode(Top.node, d)
           rest == [Top EXCEPT !.left = @ \ {d}]
       IN  \/ d.kind # "path" /\ Refuse("fetch")
           \/ DependencyFails(Top.node, d) /\ Refuse("dependency")
           \/ /\ ~DependencyFails(Top.node, d)
              /\ child \in nodes
              /\ IF child = Top.node THEN Refuse("self")
                 ELSE /\ stack' = Append(Below, [rest EXCEPT !.found = @ \cup {child}])
                      /\ UNCHANGED <<world, at, why, nodes, edges>>
           \/ /\ ~DependencyFails(Top.node, d)
              /\ child \notin nodes
              /\ Open(child, Append(Below, rest))

\* ResolveNode returns to the package that depends on this one, or to the roots.
Return ==
  /\ at = "resolve" /\ stack # <<>> /\ Top.left = {}
  /\ edges' = [n \in DOMAIN edges \cup {Top.node} |-> IF n = Top.node THEN Top.found ELSE edges[n]]
  /\ stack' = IF Len(stack) = 1 THEN <<>>
              ELSE [Below EXCEPT ![Len(stack) - 1].found = @ \cup {Top.node}]
  /\ UNCHANGED <<world, at, why, todo, nodes>>

Resolved ==
  /\ at = "resolve" /\ stack = <<>> /\ todo = {}
  /\ at' = "resolved"
  /\ UNCHANGED <<world, why, todo, nodes, edges, stack>>

GraphInit ==
  /\ at = "invoked"
  /\ why = "none"
  /\ todo = {}
  /\ nodes = {}
  /\ edges = <<>>
  /\ stack = <<>>

GraphNext == BuildRootSeeds \/ ResolveSeed \/ ResolveDependency \/ Return \/ Resolved
-----------------------------------------------------------------------------
(***************************************************************************)
(* What the graph of a world is, without an order of visits.               *)
(***************************************************************************)
Children(n) == {DependencyNode(n, d) : d \in {e \in Deps(n) : ~DependencyFails(n, e)}}
\* What is reached from the roots, in as many rounds as there are nodes.
Round(s) == s \cup UNION {Children(n) : n \in s}
Rounds == Cardinality(Nodes)
Reached[i \in 0 .. Rounds] == IF i = 0 THEN Roots ELSE Round(Reached[i - 1])
Closure == Reached[Rounds]

\* Single-version: every dependency leads somewhere, to another package than
\* the one that has it, and a name stands for one package.
Consistent ==
  /\ \A n \in Closure : n \notin Children(n) /\ \A d \in Deps(n) : ~DependencyFails(n, d)
  /\ \A m, n \in Closure : NameOf(m) = NameOf(n) => m = n

\* The resolver answers with the closure of the roots if it is consistent and is
\* refused only for what is wrong with it, whatever the order of the visits
\* (node_by_package_name_ sees only what was met before).
ResolvesExactly ==
  /\ at \notin {"invoked", "seeds", "resolve", "refused"} =>
       /\ Consistent
       /\ nodes = Closure
       /\ edges = [n \in Closure |-> Children(n)]
  /\ why \in {"dependency", "self", "version", "source"} => ~Consistent
  /\ why = "version" => \E m, n \in Closure : /\ NameOf(m) = NameOf(n)
                                              /\ Manifest(m.place).version # Manifest(n.place).version
=============================================================================
