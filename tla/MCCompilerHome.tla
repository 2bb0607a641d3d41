--------------------------- MODULE MCCompilerHome ---------------------------
(***************************************************************************)
(* Two runs at a time, three in all, of the commands below.  The two       *)
(* commits of the compiler have different versions; "own" is a build of    *)
(* the user's with the version of the first, and "old" is a compiler the   *)
(* compatibility matrix does not admit.                                    *)
(***************************************************************************)
EXTENDS CompilerHome, TLC

CONSTANTS p1, p2, r1, r2, own, old, v1, v2

MCVersionOf == [c \in {r1, r2, own, old} |-> IF c = r2 THEN v2 ELSE v1]

Install(ref, online) == [do |-> "install", ref |-> ref, fetch |-> online, online |-> online]
ToolInstall(bin) == [do |-> "tool install", bin |-> bin]
Use(version) == [do |-> "tool use", version |-> version]
PinTo(version) == [do |-> "tool pin", version |-> version]
Set(field, value) == [do |-> "change", field |-> field, value |-> value]
Plan(bin, fetch, online) == [do |-> "plan", bin |-> bin, fetch |-> fetch, online |-> online]

MCCommands ==
  { Install("main", TRUE), Install("main", FALSE), ToolInstall(own), ToolInstall(old),
    Use(v1), PinTo(v1), PinTo(None), Set("mode", "build"),
    Set("risk", "partner-controlled"), Set("lane", "warm-shared"),
    Plan(None, TRUE, TRUE), Plan(None, TRUE, FALSE), Plan(own, TRUE, TRUE),
    Plan(None, FALSE, TRUE) }

Symmetry == Permutations({p1, p2})
=============================================================================
