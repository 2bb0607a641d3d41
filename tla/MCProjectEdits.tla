--------------------------- MODULE MCProjectEdits ---------------------------
(***************************************************************************)
(* Two runs at a time, three in all.  The manifests by hand are the empty  *)
(* one and one with the same alias in both sections, which "remove" must   *)
(* not touch without being told which.                                     *)
(***************************************************************************)
EXTENDS ProjectEdits, TLC

CONSTANTS p1, p2

Dep(alias, package, section) == [alias |-> alias, package |-> package, section |-> section]

MCManifests == { {}, {Dep("x", "lib", "dependencies"), Dep("x", "tool", "dev-dependencies")} }

Add(alias, package) ==
  [do |-> "add", alias |-> alias, package |-> package, section |-> "dependencies"]
Remove(target, section) == [do |-> "remove", target |-> target, section |-> section]
Lock(check, offline) == [do |-> "lock", check |-> check, locked |-> FALSE, offline |-> offline]
Workflow(do, locked, offline) == [do |-> do, locked |-> locked, offline |-> offline]

MCCommands ==
  { [do |-> "new"], [do |-> "init"], Add("x", "lib"), Add("y", "tool"), Remove("x", None),
    Remove("tool", "dev-dependencies"), Lock(FALSE, FALSE), Lock(TRUE, TRUE),
    Workflow("sync", FALSE, FALSE), Workflow("fetch", FALSE, FALSE),
    Workflow("tree", FALSE, FALSE), Workflow("vendor", TRUE, FALSE),
    Workflow("check", FALSE, FALSE), Workflow("build", TRUE, TRUE),
    Workflow("project-graph", FALSE, TRUE) }

Symmetry == Permutations({p1, p2})
=============================================================================
