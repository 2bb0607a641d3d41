----------------------------- MODULE BuildPlan -----------------------------
(***************************************************************************)
(* build, run and test up to the compile plan: ParsePlanInvocation of      *)
(* src/PafioCLI/Support.cpp, the checks of src/PafioCloud/Job.cpp, the     *)
(* resolution of PackageGraph and WriteBuildCompilePlan of                 *)
(* src/PafioPlan/CompilePlan.cpp.                                          *)
(*                                                                         *)
(* The plan names the entry target and the packages in an order a compiler *)
(* can follow; an order is found by a second depth-first search, which is  *)
(* the one that refuses cycles.  Text, hashes and profiles are left out,   *)
(* and the files do not change during a run.                               *)
(***************************************************************************)
EXTENDS PackageGraph

CONSTANT Cases          \* the worlds to try, each with an invocation

VARIABLES
  request,              \* the command, its package and its targets
  active,               \* packages on the search's stack, outermost first
  order,                \* package_order: the packages that are done
  entry,                \* the selected target, once there is one
  plan                  \* plan.json: the packages it lists, their order, what to build

planVars == <<request, active, order, entry, plan>>
vars == <<graphVars, planVars>>

NoEntry == [kind |-> "none", name |-> "none"]
NoPlan == [packages |-> {}, order |-> <<>>, entry |-> NoEntry]
Requests == [command : {"build", "run", "test"}, package : Names \cup {Any}, chosen : SUBSET Targets]

ASSUME PlanAssumption ==
  \A c \in Cases : /\ IsWorld(c.world) /\ c.request \in Requests
                   /\ IsFiniteSet(c.request.chosen)
                   /\ \A p \in Places : IsFiniteSet(c.world.manifest[p].targets)

Elements(s) == {s[i] : i \in DOMAIN s}

\* (variant: run takes what build takes)
FlagsOfBuild(command) == IF command = "test" THEN {"test"} ELSE {"lib", "bin"}

\* The target flags that ParsePlanInvocation lets each command have.
Flags(command) ==
  CASE command = "build" -> {"lib", "bin"} [] command = "run" -> {"bin"} [] OTHER -> {"test"}

ParsePlanInvocation ==
  /\ at = "invoked"
  /\ IF \A t \in request.chosen : t.kind \in Flags(request.command)
     THEN at' = "seeds" /\ UNCHANGED why
     ELSE at' = "refused" /\ why' = "usage"
  /\ UNCHANGED <<world, todo, nodes, edges, stack, planVars>>

\* The compiler is told of one edition, channel and implicit std for all packages.
Uniform == \A m, n \in nodes : Manifest(m.place).toolchain = Manifest(n.place).toolchain

\* ResolveEntryPackage: the root that is named, else that of the manifest, else the only one.
EntryPackages ==
  IF request.package # Any THEN {r \in Roots : NameOf(r) = request.package}
  ELSE IF Seed(Root) \in Roots THEN {Seed(Root)}
  ELSE IF Cardinality(Roots) = 1 THEN Roots ELSE {}

\* (variant: without a choice the library comes first)
EntryTargetsLibFirst(m) ==
  LET lib == {t \in m.targets : t.kind = "lib"}
  IN  IF request.chosen # {} THEN request.chosen \cap m.targets
      ELSE IF lib # {} THEN lib ELSE {t \in m.targets : t.kind \in Flags(request.command)}

\* ResolveEntryTarget: the target that is chosen, else the only one there is.
EntryTargets(m) ==
  LET ofKind(k) == {t \in m.targets : t.kind = k}
  IN  IF request.chosen # {}
      THEN IF \/ Cardinality(request.chosen) > 1
              \/ request.command # "build" /\ \E t \in request.chosen : t.kind = "lib"
           THEN {} ELSE request.chosen \cap m.targets
      ELSE CASE request.command = "test" -> ofKind("test")
             [] request.command = "run" -> ofKind("bin")
             [] OTHER -> ofKind("lib") \cup ofKind("bin")

\* ValidateUniformToolchain, then the entry: one package, one target, and its file.
SelectEntry ==
  /\ at = "resolved"
  /\ LET found == UNION {EntryTargets(Manifest(r.place)) : r \in EntryPackages}
         there == {t \in found : \A r \in EntryPackages : t \notin Manifest(r.place).absent}
         fault == IF ~Uniform THEN "toolchain"
                  ELSE IF Cardinality(EntryPackages) # 1 THEN "entry package"
                  ELSE IF Cardinality(found) # 1 THEN "entry target"
                  ELSE IF there = {} THEN "entry file" ELSE "none"
     IN  IF fault = "none"
         THEN at' = "order" /\ entry' = (CHOOSE t \in there : TRUE) /\ UNCHANGED why
         ELSE at' = "refused" /\ why' = fault /\ UNCHANGED entry
  /\ UNCHANGED <<world, todo, nodes, edges, stack, request, active, order, plan>>

\* BuildPackageOrder: into a package, from the outermost loop or from one that needs it.
Visit ==
  /\ at = "order"
  /\ \E n \in IF active = <<>> THEN nodes ELSE edges[active[Len(active)]] :
       /\ n \notin Elements(order)
       /\ IF n \in Elements(active)
          THEN at' = "refused" /\ why' = "cycle" /\ UNCHANGED active
          ELSE active' = Append(active, n) /\ UNCHANGED <<at, why>>
  /\ UNCHANGED <<world, todo, nodes, edges, stack, request, order, entry, plan>>

\* (variant: it is put in the order whether they are or not)
LeaveEarly ==
  /\ at = "order" /\ active # <<>>
  /\ order' = Append(order, active[Len(active)])
  /\ active' = SubSeq(active, 1, Len(active) - 1)
  /\ UNCHANGED <<graphVars, request, entry, plan>>

\* Its dependencies are done: it is next in the order.
Leave ==
  /\ at = "order" /\ active # <<>>
  /\ edges[active[Len(active)]] \subseteq Elements(order)
  /\ order' = Append(order, active[Len(active)])
  /\ active' = SubSeq(active, 1, Len(active) - 1)
  /\ UNCHANGED <<graphVars, request, entry, plan>>

\* BuildSourceHash reads the manifest and the file of every target of package n.
Hashable(n) == Manifest(n.place).targets \cap Manifest(n.place).absent = {}

\* BuildPackageJson: what the plan says of package n.
PlanPackage(n) == [id |-> n, targets |-> Manifest(n.place).targets, needs |-> edges[n]]

WritePlan ==
  /\ at = "order" /\ active = <<>> /\ Elements(order) = nodes
  /\ IF \A n \in nodes : Hashable(n)
     THEN /\ at' = "planned"
          /\ plan' = [packages |-> {PlanPackage(n) : n \in nodes}, order |-> order, entry |-> entry]
          /\ UNCHANGED why
     ELSE at' = "refused" /\ why' = "file" /\ UNCHANGED plan
  /\ UNCHANGED <<world, todo, nodes, edges, stack, request, active, order, entry>>

Init ==
  /\ \E c \in Cases : world = c.world /\ request = c.request
  /\ GraphInit
  /\ active = <<>>
  /\ order = <<>>
  /\ entry = NoEntry
  /\ plan = NoPlan

Next ==
  \/ ParsePlanInvocation
  \/ GraphNext /\ UNCHANGED planVars
  \/ SelectEntry \/ Visit \/ Leave \/ WritePlan

\* The process takes its next step unless it has none left: nothing in it waits.
Spec == Init /\ [][Next]_vars /\ WF_vars(Next)
-----------------------------------------------------------------------------
TypeOK ==
  /\ IsWorld(world)
  /\ at \in {"invoked", "seeds", "resolve", "resolved", "order", "planned", "refused"}
  /\ why \in {"none", "usage", "workspace", "fetch", "dependency", "self", "version", "source",
              "toolchain", "entry package", "entry target", "entry file", "cycle", "file"}
  /\ todo \subseteq Places
  /\ nodes \subseteq Nodes
  /\ edges \in [DOMAIN edges -> SUBSET nodes] /\ DOMAIN edges \subseteq nodes
  /\ stack \in Seq(Frames)
  /\ request \in Requests
  /\ active \in Seq(Nodes)
  /\ order \in Seq(Nodes)
  /\ entry \in Targets \cup {NoEntry}
  /\ plan.packages \subseteq [id : Nodes, targets : SUBSET Targets, needs : SUBSET Nodes]
  /\ plan.order \in Seq(Nodes)
  /\ plan.entry \in Targets \cup {NoEntry}

\* Packages with a cycle among them: each needs another one, or itself.
Cyclic(c) == c # {} /\ \A n \in c : edges[n] \cap c # {}

\* A plan lists every package it speaks of, once, and puts it behind what it
\* needs; it is refused for a cycle only if there is one (a resolver's graph may
\* have cycles).
PlansExactly ==
  /\ at = "planned" =>
       /\ Elements(plan.order) = {p.id : p \in plan.packages}
       /\ Len(plan.order) = Cardinality(plan.packages)
       /\ \A p \in plan.packages, i \in DOMAIN plan.order :
            plan.order[i] = p.id => p.needs \subseteq {plan.order[j] : j \in 1 .. i - 1}
  /\ why = "cycle" => \E c \in SUBSET nodes : Cyclic(c)

\* What a plan builds is what was asked for: what run starts is a program, what
\* test starts is a test, of a root package, and nothing else would have done.
EntryIsMeant ==
  at = "planned" =>
    /\ \E r \in Roots : /\ plan.entry \in Manifest(r.place).targets \ Manifest(r.place).absent
                        /\ request.package \in {Any, NameOf(r)}
                        /\ \A t \in Manifest(r.place).targets :
                             request.chosen = {} /\ t.kind \in Flags(request.command) => t = plan.entry
    /\ request.chosen \subseteq {plan.entry}
    /\ plan.entry.kind \in Flags(request.command)

\* Every invocation comes to an end, whatever cycles there are among the packages.
Terminates == <>(at \in {"planned", "refused"})
=============================================================================
