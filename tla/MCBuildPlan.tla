---------------------------- MODULE MCBuildPlan ----------------------------
(***************************************************************************)
(* Worlds and invocations for BuildPlan: places 1 and 2 are directories of *)
(* the project, 3 and 4 those of a snapshot that is rooted at 3.           *)
(***************************************************************************)
EXTENDS BuildPlan

MCPlaces == 1 .. 4
MCNames == {"a", "b", "c"}

Lib == [kind |-> "lib", name |-> "lib"]
Bin(x) == [kind |-> "bin", name |-> x]
Test(x) == [kind |-> "test", name |-> x]
Dep(kind, place, package) == [kind |-> kind, place |-> place, package |-> package]

Absent == [exists |-> FALSE, package |-> FALSE, name |-> "a", version |-> "1", deps |-> {},
           members |-> {}, excluded |-> {}, toolchain |-> "t", targets |-> {}, absent |-> {}]
Package(name, version, deps) ==
  [Absent EXCEPT !.exists = TRUE, !.package = TRUE, !.name = name, !.version = version,
                 !.deps = deps, !.targets = {Lib}]

WorldOf(m1, m2, m3, m4) ==
  [manifest |-> <<m1, m2, m3, m4>>, snapshot |-> <<1, 1, 3, 3>>]

\* Three packages that depend on each other in all ways, with names and versions
\* that clash or not.
Tangles ==
  {WorldOf(Package("a", "1", d1), Package(n2, "1", d2), Package(n3, v3, d3), Absent) :
     n2 \in {"a", "b"}, n3 \in {"b", "c"}, v3 \in {"1", "2"},
     d1 \in SUBSET {Dep("path", 2, Any), Dep("git", 3, Any), Dep("path", 1, Any)},
     d2 \in SUBSET {Dep("registry", 3, "c"), Dep("git", 3, "b"), Dep("path", 1, "a")},
     d3 \in SUBSET {Dep("path", 2, "b"), Dep("git", 3, Any), Dep("registry", 3, Any)}}

\* A workspace at 1, with or without a package of its own.
Workspace(package, members, excluded) ==
  [Absent EXCEPT !.exists = TRUE, !.package = package, !.members = members, !.excluded = excluded,
                 !.targets = IF package THEN {Lib} ELSE {}]
Workspaces ==
  {WorldOf([Workspace(p1, ms, ex) EXCEPT !.deps = IF p1 THEN d1 ELSE {}], m2, m3, Absent) :
     p1 \in BOOLEAN, ms \in (SUBSET {2, 3}) \ {{}}, ex \in {{}, {3}},
     d1 \in SUBSET {Dep("path", 1, "b"), Dep("path", 2, Any)},
     m2 \in {Package("b", "1", {}), Package("b", "1", {Dep("path", 1, "b")}),
             Package("b", "1", {Dep("path", 1, Any)}), Package("b", "1", {Dep("path", 1, "c")})},
     m3 \in {Absent, Workspace(FALSE, {2}, {}), Package("c", "1", {Dep("path", 2, "b")})}}

\* A git source that is a workspace at 3, with its package at 4.
GitWorkspaces ==
  {WorldOf(Package("a", "1", {d1, Dep("path", 2, Any)}), Package("b", "1", d2),
           Workspace(FALSE, {4}, ex), Package("c", "1", d4)) :
     d1 \in {Dep("git", 3, "c"), Dep("git", 3, "b"), Dep("git", 3, Any), Dep("path", 4, "c")},
     d2 \in SUBSET {Dep("git", 3, "c"), Dep("path", 4, "c")}, ex \in {{}, {4}},
     d4 \in SUBSET {Dep("path", 2, "b"), Dep("path", 3, "c")}}

\* One package of another toolchain, or one with a target that has no file.
OddOnes ==
  {WorldOf(Package("a", "1", {Dep("path", 2, "b")}),
           [Package("b", "1", {}) EXCEPT !.toolchain = t2, !.absent = x2], Absent, Absent) :
     t2 \in {"t", "u"}, x2 \in {{}, {Lib}}}

\* One package with all kinds of targets, the file of one missing or not.
Shapes ==
  {WorldOf([Package("a", "1", {}) EXCEPT !.targets = ts, !.absent = x], Absent, Absent, Absent) :
     ts \in (SUBSET {Lib, Bin("x"), Bin("y"), Test("x"), Test("y")}) \ {{}},
     x \in {{}, {Lib}, {Bin("x")}, {Test("x")}}}

Command(c, package, chosen) == [command |-> c, package |-> package, chosen |-> chosen]
Build == Command("build", Any, {})
MCCases ==
  [world : Tangles \cup GitWorkspaces \cup OddOnes, request : {Build}]
    \cup [world : Workspaces, request : {Build, Command("build", "b", {}), Command("build", "c", {Lib})}]
    \cup [world : Shapes, request : {Command(c, Any, ts) : c \in {"build", "run", "test"},
                                     ts \in {{}, {Lib}, {Bin("x")}, {Test("x")}, {Lib, Bin("y")}}}]
=============================================================================
