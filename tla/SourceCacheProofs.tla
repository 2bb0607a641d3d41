-------------------------- MODULE SourceCacheProofs --------------------------
(***************************************************************************)
(* Proofs about SourceCache, for every set of revisions.                   *)
(*                                                                         *)
(* A checkout is whole as soon as it has a marker, and is touched only     *)
(* while it has none, before the run has found it.  What a run has found   *)
(* under PAFIO_HOME is in the mirror, which loses only what the source has *)
(* dropped.  A vendored tree is whole except while it is copied, and after *)
(* a vendor run that was cut short.                                        *)
(***************************************************************************)
EXTENDS SourceCache, TLAPS

AtRevision == {"lookup", "revision", "recheck", "checkout", "clear", "extract", "fill", "mark",
               "copying"}

PlaceInv == at \in AtRevision => rev \in Revs

\* What is to be resolved has not been found.
TodoInv ==
  at \in {"next"} \cup (AtRevision \ {"copying"}) =>
    /\ at # "next" => rev \in todo
    /\ \A r \in todo : from[r] = "none"

\* The mirror has what was resolved from it, or is being, unless it was dropped.
MirrorInv ==
  /\ mirror = "none" => mirrored = {}
  /\ at \in {"revision", "recheck"} => mirror # "none"
  /\ mirrored \subseteq upstream \cup withdrawn
  /\ at \in {"checkout", "clear", "extract", "fill", "mark"} => rev \in mirrored
  /\ \A r \in Revs : from[r] = "home" => r \in mirrored \cup withdrawn
  /\ given \subseteq mirrored \cup withdrawn

\* A checkout is whole when it has a marker or is found, and has none while made.
CheckoutInv ==
  /\ \A r \in Revs : ready[r] => tree[r] = "whole"
  /\ at \in {"clear", "extract", "fill"} => ~ready[rev]
  /\ at = "mark" => tree[rev] = "whole"
  /\ \A r \in Revs : from[r] = "home" => tree[r] = "whole"

\* A tree that was not left in the middle is whole, or is not used.
VendorInv ==
  /\ ~torn /\ at # "copying" => \A r \in Revs : Vendored(r) => vtree[r] = "whole"
  /\ ~torn /\ at \notin {"copy", "copying"} =>
       \A r \in Revs : from[r] = "vendor" => vtree[r] = "whole"
  /\ \A r \in served : vtree[r] = "whole"

\* A vendor run has copied what is no longer to be done, and all of it at the end.
CopyInv ==
  /\ at \in {"wipe", "copy", "copying"} => served = {}
  /\ at = "copy" => ~torn /\ \A r \in Revs :
       IF r \in todo THEN vtree[r] = "none" /\ ~vready[r]
       ELSE r \in run.needs => vtree[r] = "whole"
  /\ at = "copying" => /\ ~torn
                       /\ rev \in todo
                       /\ from[rev] = "home"
                       /\ \A r \in Revs \ {rev} :
                            IF r \in todo THEN vtree[r] = "none" /\ ~vready[r]
                            ELSE r \in run.needs => vtree[r] = "whole"
                       /\ \A r \in Revs \ {rev} : Vendored(r) => vtree[r] = "whole"

SourceInv ==
  /\ TypeOK
  /\ PlaceInv
  /\ TodoInv
  /\ MirrorInv
  /\ CheckoutInv
  /\ VendorInv
  /\ CopyInv
-----------------------------------------------------------------------------
LEMMA InitEstablishes == Init => SourceInv
<1> SUFFICES ASSUME Init PROVE SourceInv
  OBVIOUS
<1>1. TypeOK
  BY DEF Init, TypeOK, Trees, Stages, NoRun, Runs
<1>2. \A r \in Revs : ~Vendored(r)
  BY DEF Init, Vendored
<1> QED
  BY <1>1, <1>2
  DEF Init, SourceInv, PlaceInv, TodoInv, AtRevision, MirrorInv, CheckoutInv, VendorInv, CopyInv

-----------------------------------------------------------------------------
(***************************************************************************)
(* Types and places.                                                       *)
(***************************************************************************)
\* A removal that is cut short leaves a tree.
LEMMA RemainsIsTree ==
  ASSUME NEW t \in Trees
  PROVE  Remains(t) \subseteq Trees
BY DEF Remains, Trees

\* The stages of an ended run.
LEMMA EndTypes ==
  ASSUME TypeOK, End
  PROVE  /\ at' \in Stages /\ rev' \in Revs \cup {"none"} /\ todo' \subseteq Revs
         /\ from' \in [Revs -> {"none", "home", "vendor"}] /\ run' \in Runs
         /\ (at' = "idle" => run' = NoRun /\ todo' = {} /\ from' = [r \in Revs |-> "none"])
BY DEF End, TypeOK, Stages, Runs, NoRun

LEMMA TypeStep == TypeOK /\ PlaceInv /\ [Next]_vars => TypeOK'
<1> SUFFICES ASSUME TypeOK, PlaceInv, [Next]_vars PROVE TypeOK'
  OBVIOUS
<1> USE DEF TypeOK
<1>1. ASSUME NEW r \in Revs, Push(r) PROVE TypeOK'
  BY <1>1 DEF Push, home, vendor, locals, history
<1>2. CASE DeleteHome
  BY <1>2 DEF DeleteHome, vendor, locals, Trees
<1>27. ASSUME NEW r \in Revs, Withdraw(r) PROVE TypeOK'
  BY <1>27 DEF Withdraw, home, vendor, locals
<1>28. CASE KillFetch
  <2>1. mirrored' \subseteq Revs
    BY <1>28 DEF KillFetch
  <2> QED
    BY <1>28, <2>1, EndTypes DEF KillFetch, home, vendor, history
<1>29. CASE MarkIsLost
  BY <1>29 DEF MarkIsLost, Found, git, home, vendor, history, Stages
<1>3. ASSUME NEW n \in Runs, Begin(n) PROVE TypeOK'
  BY <1>3 DEF Begin, Goto, git, home, vendor, history, Runs, Stages
<1>4. ASSUME NEW r \in Revs, Pick(r) PROVE TypeOK'
  BY <1>4 DEF Pick, Goto, git, home, vendor, history, Stages
<1>5. CASE UseVendored
  BY <1>5 DEF UseVendored, Found, git, home, vendor, history, Stages
<1>6. CASE UseMirror
  BY <1>6 DEF UseMirror, Goto, git, home, vendor, history, Stages
<1>7. CASE Clone
  BY <1>7 DEF Clone, Goto, home, vendor, history, Stages
<1>8. CASE KillClone
  BY <1>8, EndTypes DEF KillClone, home, vendor, history
<1>9. CASE Fetch
  <2>1. mirrored' \subseteq Revs
    BY <1>9 DEF Fetch
  <2> QED
    BY <1>9, <2>1 DEF Fetch, Goto, home, vendor, history, Stages
<1>10. CASE HaveRevision
  BY <1>10 DEF HaveRevision, git, home, vendor, history, Stages
<1>11. CASE Refuse
  BY <1>11, EndTypes DEF Refuse, git, home, vendor, history
<1>12. CASE FindMarker
  BY <1>12 DEF FindMarker, Found, git, home, vendor, history, Stages
<1>13. CASE MissMarker
  BY <1>13 DEF MissMarker, Goto, git, home, vendor, history, Stages
<1>14. CASE Clear
  BY <1>14 DEF Clear, Goto, git, vendor, history, Stages, Trees
<1>15. CASE StartExtract
  BY <1>15 DEF StartExtract, Goto, git, vendor, history, Stages, Trees
<1>16. CASE FinishExtract
  BY <1>16 DEF FinishExtract, Goto, git, vendor, history, Stages, Trees
<1>17. CASE Mark
  BY <1>17 DEF Mark, Found, git, vendor, history, Stages
<1>18. CASE Return
  <2>1. run.needs \subseteq Revs
    BY DEF Runs
  <2> QED
    BY <1>18, <2>1, EndTypes DEF Return, git, home, vendor
<1>19. CASE StartVendor
  <2>1. run.needs \subseteq Revs
    BY DEF Runs
  <2> QED
    BY <1>19, <2>1 DEF StartVendor, Goto, git, home, vendor, Stages
<1>20. CASE Wipe
  <2>1. run.needs \subseteq Revs
    BY DEF Runs
  <2> QED
    BY <1>20, <2>1 DEF Wipe, Goto, git, home, Stages, Trees
<1>21. ASSUME NEW r \in Revs, StartCopy(r) PROVE TypeOK'
  BY <1>21 DEF StartCopy, Goto, git, home, history, Stages, Trees
<1>22. ASSUME NEW r \in Revs, MissSource(r) PROVE TypeOK'
  BY <1>22, EndTypes DEF MissSource, git, home, vendor, history
<1>23. CASE FinishCopy
  <2>1. rev \in Revs
    BY <1>23 DEF FinishCopy, Goto, PlaceInv, AtRevision
  <2>2. Source(rev) \in Trees
    BY <2>1 DEF Source
  <2> QED
    BY <1>23, <2>2 DEF FinishCopy, Goto, git, home, history, Stages
<1>24. CASE FinishVendor
  <2>1. run.needs \subseteq Revs
    BY DEF Runs
  <2> QED
    BY <1>24, <2>1, EndTypes DEF FinishVendor, git, home, vendor
<1>25. CASE Stop
  <2>1. /\ tree' \in [Revs -> Trees] /\ ready' \in [Revs -> BOOLEAN]
        /\ vtree' \in [Revs -> Trees] /\ vready' \in [Revs -> BOOLEAN]
        /\ torn' \in BOOLEAN
    <3>1. CASE at = "clear"
      <4>1. rev \in Revs
        BY <3>1 DEF PlaceInv, AtRevision
      <4>2. Remains(tree[rev]) \subseteq Trees
        BY <4>1, RemainsIsTree
      <4> QED
        BY <1>25, <3>1, <4>1, <4>2 DEF Stop, vendor
    <3>2. CASE at # "clear"
      BY <1>25, <3>2 DEF Stop, home, vendor
    <3> QED
      BY <3>1, <3>2
  <2> QED
    BY <1>25, <2>1, EndTypes DEF Stop, git
<1>26. CASE UNCHANGED vars
  BY <1>26 DEF vars, git, home, vendor, locals, history
<1> QED
  BY <1>1, <1>2, <1>3, <1>4, <1>5, <1>6, <1>7, <1>8, <1>9, <1>10, <1>11, <1>12, <1>13, <1>14,
     <1>15, <1>16, <1>17, <1>18, <1>19, <1>20, <1>21, <1>22, <1>23, <1>24, <1>25, <1>26, <1>27, <1>28, <1>29
  DEF Next, Materialize, WriteVendorTree

LEMMA PlaceStep == TypeOK /\ PlaceInv /\ [Next]_vars => PlaceInv'
<1> SUFFICES ASSUME TypeOK, PlaceInv, [Next]_vars PROVE PlaceInv'
  OBVIOUS
<1> USE DEF PlaceInv, AtRevision
<1>1. CASE UNCHANGED locals
  BY <1>1 DEF locals
<1>2. CASE at' \in {"idle", "next", "wipe", "copy"}
  BY <1>2
<1>3. ASSUME NEW r \in Revs, Pick(r) \/ StartCopy(r) PROVE PlaceInv'
  BY <1>3 DEF Pick, StartCopy
<1>4. CASE at \in AtRevision /\ rev' = rev
  BY <1>4
<1> QED
  BY <1>1, <1>2, <1>3, <1>4
  DEF Next, Materialize, WriteVendorTree, vars, Push, Withdraw, DeleteHome, Begin, UseVendored, UseMirror,
      Clone, KillClone, Fetch, KillFetch, HaveRevision, Refuse, FindMarker, MissMarker, Clear, StartExtract,
      FinishExtract, Mark, MarkIsLost, Return, StartVendor, Wipe, MissSource, FinishCopy, FinishVendor, Stop,
      End, Found, Goto

LEMMA TodoStep == TypeOK /\ PlaceInv /\ TodoInv /\ [Next]_vars => TodoInv'
<1> SUFFICES ASSUME TypeOK, PlaceInv, TodoInv, [Next]_vars PROVE TodoInv'
  OBVIOUS
<1> USE DEF TodoInv, AtRevision
<1>1. CASE UNCHANGED locals
  BY <1>1 DEF locals
<1>2. CASE at' \in {"idle", "wipe", "copy", "copying"}
  BY <1>2
<1>3. ASSUME NEW n \in Runs, Begin(n) PROVE TodoInv'
  <2>1. \A r \in Revs : from[r] = "none"
    BY <1>3 DEF Begin, Goto, TypeOK
  <2>2. at' = "next" /\ from' = from /\ todo' \subseteq Revs
    BY <1>3 DEF Begin, Goto, Runs
  <2> QED
    BY <2>1, <2>2
<1>4. ASSUME NEW r \in Revs, Pick(r) PROVE TodoInv'
  BY <1>4 DEF Pick, Goto
<1>5. ASSUME NEW q \in {"home", "vendor"}, Found(q), at \in AtRevision \ {"copying"}
      PROVE  TodoInv'
  <2>1. at' = "next" /\ todo' = todo \ {rev} /\ \A r \in Revs \ {rev} : from'[r] = from[r]
    BY <1>5 DEF Found, TypeOK
  <2> QED
    BY <1>5, <2>1 DEF TypeOK
<1>6. CASE /\ at \in AtRevision \ {"copying"}
           /\ UNCHANGED <<rev, todo, from>>
  BY <1>6
<1>7. CASE UseVendored \/ FindMarker \/ Mark \/ MarkIsLost
  BY <1>5, <1>7 DEF UseVendored, FindMarker, Mark, MarkIsLost
<1> QED
  BY <1>1, <1>2, <1>3, <1>4, <1>6, <1>7
  DEF Next, Materialize, WriteVendorTree, vars, Push, Withdraw, DeleteHome, UseMirror, Clone,
      KillClone, Fetch, KillFetch, HaveRevision, Refuse, MissMarker, Clear, StartExtract,
      FinishExtract, Return, StartVendor, Wipe, StartCopy, MissSource, FinishCopy, FinishVendor,
      Stop, End, Goto

-----------------------------------------------------------------------------
(***************************************************************************)
(* The mirror and the checkouts.                                           *)
(***************************************************************************)
\* Only deleting PAFIO_HOME takes from the mirror what the source still has.
LEMMA MirrorGrows ==
  ASSUME MirrorInv, [Next]_vars
  PROVE  \/ DeleteHome
         \/ /\ mirrored \subseteq mirrored' \cup withdrawn'
            /\ mirror' = "none" => mirrored' = {}
            /\ mirrored' \subseteq upstream' \cup withdrawn'
            /\ withdrawn \subseteq withdrawn'
<1> USE DEF MirrorInv
<1>1. CASE UNCHANGED <<mirror, mirrored, upstream, withdrawn>>
  BY <1>1
<1>2. CASE Clone
  BY <1>2 DEF Clone, history
<1>3. CASE KillClone
  BY <1>3 DEF KillClone, history
<1>4. CASE Fetch \/ KillFetch
  BY <1>4 DEF Fetch, KillFetch, Goto, history
<1>5. ASSUME NEW r \in Revs, Push(r) \/ Withdraw(r)
      PROVE  /\ UNCHANGED <<mirror, mirrored>>
             /\ upstream \cup withdrawn \subseteq upstream' \cup withdrawn'
             /\ withdrawn \subseteq withdrawn'
  BY <1>5 DEF Push, Withdraw, history
<1> QED
  BY <1>1, <1>2, <1>3, <1>4, <1>5
  DEF Next, Materialize, WriteVendorTree, vars, git, history, Begin, Pick, UseVendored,
      UseMirror, HaveRevision, Refuse, FindMarker, MissMarker, Clear, StartExtract, FinishExtract,
      Mark, MarkIsLost, Return, StartVendor, Wipe, StartCopy, MissSource, FinishCopy, FinishVendor,
      Stop

\* What is found, and handed out, in a step.
LEMMA FoundAndGiven ==
  ASSUME TypeOK, [Next]_vars
  PROVE  /\ \A r \in Revs :
              from'[r] = "home" => from[r] = "home" \/ (r = rev /\ (FindMarker \/ Mark \/ MarkIsLost))
         /\ \A r \in given' : r \in given \/ (r \in Revs /\ from[r] = "home")
<1>1. CASE UNCHANGED <<from, given>>
  BY <1>1
<1>2. CASE DeleteHome
  BY <1>2 DEF DeleteHome, locals
<1>3. CASE End /\ UNCHANGED given
  BY <1>3 DEF End
<1>4. CASE UseVendored
  BY <1>4 DEF UseVendored, Found, TypeOK, history
<1>5. CASE FindMarker \/ Mark \/ MarkIsLost
  BY <1>5 DEF FindMarker, Mark, MarkIsLost, Found, TypeOK, history
<1>6. CASE Return \/ StartVendor
  <2>1. \A r \in given' : r \in given \/ (r \in run.needs /\ from[r] = "home")
    BY <1>6 DEF Return, StartVendor
  <2>2. run.needs \subseteq Revs
    BY DEF TypeOK, Runs
  <2>3. \A r \in Revs : from'[r] = "home" => from[r] = "home"
    BY <1>6 DEF Return, StartVendor, End
  <2> QED
    BY <2>1, <2>2, <2>3
<1> QED
  BY <1>1, <1>2, <1>3, <1>4, <1>5, <1>6
  DEF Next, Materialize, WriteVendorTree, vars, locals, history, Push, Withdraw, Begin, Pick, UseMirror, Clone,
      KillClone, Fetch, KillFetch, HaveRevision, Refuse, MissMarker, Clear, StartExtract, FinishExtract, Wipe,
      StartCopy, MissSource, FinishCopy, FinishVendor, Stop

LEMMA MirrorStep == TypeOK /\ MirrorInv /\ [Next]_vars => MirrorInv'
<1> SUFFICES ASSUME TypeOK, MirrorInv, [Next]_vars PROVE MirrorInv'
  OBVIOUS
<1>1. CASE DeleteHome
  <2>1. \A r \in Revs : from[r] = "none"
    BY <1>1 DEF DeleteHome, TypeOK, MirrorInv
  <2> QED
    BY <1>1, <2>1 DEF DeleteHome, MirrorInv, locals
<1>2. CASE ~DeleteHome
  <2>1. /\ mirrored \subseteq mirrored' \cup withdrawn'
        /\ mirror' = "none" => mirrored' = {}
        /\ mirrored' \subseteq upstream' \cup withdrawn'
        /\ withdrawn \subseteq withdrawn'
    BY <1>2, MirrorGrows
  <2>2. ASSUME at' \in {"checkout", "clear", "extract", "fill", "mark"} PROVE rev' \in mirrored'
    BY <1>2, <2>2
    DEF MirrorInv, Next, Materialize, WriteVendorTree, vars, git, locals, Push, Withdraw, Begin,
        Pick, UseVendored, UseMirror, Clone, KillClone, Fetch, KillFetch, HaveRevision, Refuse,
        FindMarker, MissMarker, Clear, StartExtract, FinishExtract, Mark, MarkIsLost, Return,
        StartVendor, Wipe, StartCopy, MissSource, FinishCopy, FinishVendor, Stop, End, Found, Goto
  <2>5. at' \in {"revision", "recheck"} => mirror' # "none"
    BY <1>2
    DEF MirrorInv, Next, Materialize, WriteVendorTree, vars, git, locals, Push, Withdraw, Begin,
        Pick, UseVendored, UseMirror, Clone, KillClone, Fetch, KillFetch, HaveRevision, Refuse,
        FindMarker, MissMarker, Clear, StartExtract, FinishExtract, Mark, MarkIsLost, Return,
        StartVendor, Wipe, StartCopy, MissSource, FinishCopy, FinishVendor, Stop, End, Found, Goto
  <2>3. \A r \in Revs : from'[r] = "home" => r \in mirrored \cup withdrawn
    BY FoundAndGiven DEF MirrorInv, FindMarker, Mark, MarkIsLost
  <2>4. given' \subseteq mirrored \cup withdrawn
    BY FoundAndGiven DEF MirrorInv
  <2> QED
    BY <2>1, <2>2, <2>3, <2>4, <2>5 DEF MirrorInv
<1> QED
  BY <1>1, <1>2

LEMMA CheckoutStep ==
  TypeOK /\ PlaceInv /\ TodoInv /\ CheckoutInv /\ [Next]_vars => CheckoutInv'
<1> SUFFICES ASSUME TypeOK, PlaceInv, TodoInv, CheckoutInv, [Next]_vars PROVE CheckoutInv'
  OBVIOUS
<1> USE DEF CheckoutInv
<1>1. \A r \in Revs :
        from'[r] = "home" => from[r] = "home" \/ (r = rev /\ (FindMarker \/ Mark \/ MarkIsLost))
  BY FoundAndGiven
<1>2. ASSUME at \in {"clear", "extract", "fill", "mark"}
      PROVE  rev \in Revs /\ from[rev] # "home"
  BY <1>2 DEF PlaceInv, TodoInv, AtRevision
<1>3. ASSUME UNCHANGED <<tree, ready>>, \A r \in Revs : from'[r] = "home" => tree[r] = "whole",
             at' \notin {"clear", "extract", "fill", "mark"}
      PROVE  CheckoutInv'
  BY <1>3
<1>4. CASE DeleteHome
  <2>1. at' = "idle" /\ \A r \in Revs : from'[r] = "none"
    BY <1>4 DEF DeleteHome, TypeOK, locals
  <2>2. \A r \in Revs : ready'[r] = FALSE
    BY <1>4 DEF DeleteHome
  <2> QED
    BY <1>4, <2>1, <2>2 DEF DeleteHome
<1>5. CASE UNCHANGED <<tree, ready, at, rev, from>>
  BY <1>5
<1>6. CASE MissMarker
  BY <1>6 DEF MissMarker, Goto, home
<1>7. CASE Clear
  <2>1. rev \in Revs /\ ~ready[rev] /\ from[rev] # "home"
    BY <1>2, <1>7 DEF Clear, Goto
  <2>2. \A r \in Revs : ready'[r] => ready[r] /\ r # rev
    BY <1>7, <2>1 DEF Clear, TypeOK
  <2>3. \A r \in Revs : r # rev => tree'[r] = tree[r]
    BY <1>7, <2>1 DEF Clear, TypeOK
  <2>4. at' = "extract" /\ rev' = rev /\ from' = from
    BY <1>7 DEF Clear, Goto
  <2> QED
    BY <2>1, <2>2, <2>3, <2>4
<1>8. CASE StartExtract
  <2>1. rev \in Revs /\ ~ready[rev] /\ from[rev] # "home"
    BY <1>2, <1>8 DEF StartExtract, Goto
  <2>2. ready' = ready /\ \A r \in Revs : r # rev => tree'[r] = tree[r]
    BY <1>8, <2>1 DEF StartExtract, TypeOK
  <2>3. at' = "fill" /\ rev' = rev /\ from' = from
    BY <1>8 DEF StartExtract, Goto
  <2> QED
    BY <2>1, <2>2, <2>3
<1>9. CASE FinishExtract
  <2>1. rev \in Revs
    BY <1>9 DEF FinishExtract, Goto, PlaceInv, AtRevision
  <2>2. ready' = ready /\ tree'[rev] = "whole" /\ \A r \in Revs : r # rev => tree'[r] = tree[r]
    BY <1>9, <2>1 DEF FinishExtract, TypeOK
  <2>3. at' = "mark" /\ rev' = rev /\ from' = from
    BY <1>9 DEF FinishExtract, Goto
  <2> QED
    BY <2>1, <2>2, <2>3
<1>10. CASE Mark \/ MarkIsLost
  <2>1. rev \in Revs /\ tree[rev] = "whole"
    BY <1>10 DEF Mark, MarkIsLost, PlaceInv, AtRevision
  <2>2. tree' = tree /\ \A r \in Revs : r # rev => ready'[r] = ready[r]
    BY <1>10, <2>1 DEF Mark, MarkIsLost, home, TypeOK
  <2>3. at' = "next"
    BY <1>10 DEF Mark, MarkIsLost, Found
  <2> QED
    BY <1>1, <2>1, <2>2, <2>3
<1>11. CASE FindMarker
  <2>1. rev \in Revs /\ ready[rev] /\ at' = "next"
    BY <1>11 DEF FindMarker, Found, PlaceInv, AtRevision
  <2> QED
    BY <1>1, <1>3, <1>11, <2>1 DEF FindMarker, home
<1>12. CASE Stop
  <2>1. at' = "idle" /\ \A r \in Revs : from'[r] = "none"
    BY <1>12 DEF Stop, End
  <2>2. CASE at = "clear"
    <3>1. rev \in Revs /\ ~ready[rev]
      BY <1>2, <2>2
    <3>2. \A r \in Revs : r # rev => tree'[r] = tree[r] /\ ready'[r] = ready[r]
      BY <1>12, <2>2, <3>1 DEF Stop, TypeOK
    <3>3. ~ready'[rev]
      BY <1>12, <2>2, <3>1 DEF Stop, TypeOK
    <3> QED
      BY <2>1, <3>1, <3>2, <3>3
  <2>3. CASE at # "clear"
    BY <1>3, <1>12, <2>1, <2>3 DEF Stop, home
  <2> QED
    BY <2>2, <2>3
<1>13. CASE End /\ UNCHANGED home
  BY <1>3, <1>13 DEF End, home
<1>14. CASE /\ UNCHANGED home
            /\ at' \notin {"clear", "extract", "fill", "mark"}
            /\ ~(FindMarker \/ Mark \/ MarkIsLost)
  BY <1>1, <1>3, <1>14 DEF home
<1> QED
  BY <1>4, <1>5, <1>6, <1>7, <1>8, <1>9, <1>10, <1>11, <1>12, <1>13, <1>14
  DEF Next, Materialize, WriteVendorTree, vars, locals, home, Push, Withdraw, Begin, Pick,
      UseVendored, UseMirror, Clone, KillClone, Fetch, KillFetch, HaveRevision, Refuse, Return,
      StartVendor, Wipe, StartCopy, MissSource, FinishCopy, FinishVendor, Found, Goto

-----------------------------------------------------------------------------
(***************************************************************************)
(* The vendor root.                                                        *)
(***************************************************************************)
\* What every step leaves of the vendor root, resolving steps first.
LEMMA VendorStep == SourceInv /\ [Next]_vars => VendorInv' /\ CopyInv'
<1> SUFFICES ASSUME SourceInv, [Next]_vars PROVE VendorInv' /\ CopyInv'
  OBVIOUS
<1> USE DEF SourceInv, VendorInv, CopyInv
<1>1. ASSUME UNCHANGED <<vtree, vready, at, rev, todo, from, run, served, torn>>
      PROVE  VendorInv' /\ CopyInv'
  <2>1. \A r \in Revs : Vendored(r)' <=> Vendored(r)
    BY <1>1 DEF Vendored
  <2> QED
    BY <1>1, <2>1
<1>2. ASSUME UNCHANGED <<vtree, vready, torn>>, served' \subseteq served,
             at \notin {"copy", "copying"}, at' \notin {"copy", "copying"},
             at' = "wipe" => served' = {},
             \A r \in Revs : from'[r] = "vendor" => from[r] = "vendor" \/ Vendored(r)
      PROVE  VendorInv' /\ CopyInv'
  <2>1. \A r \in Revs : Vendored(r)' <=> Vendored(r)
    BY <1>2 DEF Vendored
  <2> QED
    BY <1>2, <2>1
<1>3. ASSUME End, UNCHANGED <<vtree, vready, torn, served>>, at # "copying"
      PROVE  VendorInv' /\ CopyInv'
  <2>1. \A r \in Revs : Vendored(r)' <=> Vendored(r)
    BY <1>3 DEF Vendored
  <2>2. at' = "idle" /\ \A r \in Revs : from'[r] = "none"
    BY <1>3 DEF End
  <2> QED
    BY <1>3, <2>1, <2>2
<1>4. CASE Wipe
  <2>1. \A r \in Revs : vtree'[r] = "none" /\ ~vready'[r]
    BY <1>4 DEF Wipe
  <2>2. at' = "copy" /\ todo' = run.needs /\ run' = run /\ ~torn' /\ served' = {}
    BY <1>4 DEF Wipe, Goto
  <2>3. \A r \in Revs : ~Vendored(r)'
    BY <2>1 DEF Vendored
  <2> QED
    BY <2>1, <2>2, <2>3
<1>5. ASSUME NEW r \in Revs, StartCopy(r) PROVE VendorInv' /\ CopyInv'
  <2>1. at = "copy" /\ at' = "copying" /\ r \in todo /\ rev' = r /\ Source(r) # "none"
    BY <1>5 DEF StartCopy, Goto
  <2>2. UNCHANGED <<todo, from, run, served, torn>> /\ served = {}
    BY <1>5, <2>1 DEF StartCopy, history
  <2>3. vtree[r] = "none" /\ from[r] = "home"
    BY <2>1 DEF Source, TypeOK
  <2>4. \A q \in Revs \ {r} : vtree'[q] = vtree[q] /\ vready'[q] = vready[q]
    BY <1>5 DEF StartCopy, TypeOK
  <2>5. \A q \in Revs \ {r} : Vendored(q)' <=> Vendored(q)
    BY <2>4 DEF Vendored
  <2>6. \A q \in Revs : Vendored(q) => vtree[q] = "whole"
    BY <2>1
  <2> QED
    BY <2>1, <2>2, <2>3, <2>4, <2>5, <2>6
<1>6. CASE FinishCopy
  <2>1. at = "copying" /\ at' = "copy" /\ rev \in Revs /\ todo' = todo \ {rev}
    BY <1>6 DEF FinishCopy, Goto, PlaceInv, AtRevision
  <2>2. UNCHANGED <<from, run, served, torn>> /\ served = {}
    BY <1>6, <2>1 DEF FinishCopy, history
  <2>3. vtree'[rev] = "whole"
    <3>1. from[rev] = "home" /\ tree[rev] = "whole"
      BY <2>1 DEF CheckoutInv
    <3> QED
      BY <1>6, <2>1, <3>1 DEF FinishCopy, Source, TypeOK
  <2>4. \A q \in Revs \ {rev} : vtree'[q] = vtree[q] /\ vready'[q] = vready[q]
    BY <1>6 DEF FinishCopy, TypeOK
  <2>5. \A q \in Revs \ {rev} : Vendored(q)' <=> Vendored(q)
    BY <2>4 DEF Vendored
  <2>6. \A q \in Revs : Vendored(q)' => vtree'[q] = "whole"
    BY <2>1, <2>3, <2>4, <2>5
  <2> QED
    BY <2>1, <2>2, <2>3, <2>4, <2>6
<1>7. CASE FinishVendor
  <2>1. UNCHANGED <<vtree, vready, torn>> /\ at = "copy" /\ todo = {} /\ served' = run.needs
    BY <1>7 DEF FinishVendor, vendor
  <2>2. at' = "idle" /\ \A r \in Revs : from'[r] = "none"
    BY <1>7 DEF FinishVendor, End
  <2>3. \A r \in Revs : Vendored(r)' <=> Vendored(r)
    BY <2>1 DEF Vendored
  <2>4. \A r \in run.needs : vtree[r] = "whole"
    BY <2>1 DEF TypeOK, Runs
  <2> QED
    BY <2>1, <2>2, <2>3, <2>4
<1>8. CASE Stop
  <2>1. at' = "idle" /\ served' = served /\ \A r \in Revs : from'[r] = "none"
    BY <1>8 DEF Stop, End
  <2>2. CASE at \in {"wipe", "copying"}
    <3>1. torn' /\ served = {}
      BY <1>8, <2>2 DEF Stop
    <3> QED
      BY <2>1, <3>1
  <2>3. CASE at \notin {"wipe", "copying"}
    <3>1. UNCHANGED <<vtree, vready, torn>>
      BY <1>8, <2>3 DEF Stop, vendor
    <3> QED
      BY <1>3, <1>8, <2>1, <2>3, <3>1 DEF Stop
  <2> QED
    BY <2>2, <2>3
<1>9. CASE UseVendored
  BY <1>2, <1>9 DEF UseVendored, Found, vendor, history, TypeOK
<1>10. CASE FindMarker \/ Mark \/ MarkIsLost
  BY <1>2, <1>10 DEF FindMarker, Mark, MarkIsLost, Found, vendor, history, TypeOK
<1>11. CASE StartVendor
  BY <1>2, <1>11 DEF StartVendor, Goto, vendor
<1>12. CASE KillClone \/ KillFetch \/ Refuse \/ Return
  BY <1>3, <1>12 DEF KillClone, KillFetch, Refuse, MustRefuse, Return, vendor, history
<1>13. ASSUME NEW r \in Revs, MissSource(r) PROVE VendorInv' /\ CopyInv'
  BY <1>3, <1>13 DEF MissSource, vendor, history
<1>14. CASE DeleteHome \/ UNCHANGED vars \/ \E r \in Revs : Push(r) \/ Withdraw(r)
  BY <1>1, <1>14 DEF DeleteHome, Push, Withdraw, vars, vendor, locals, history
<1>15. ASSUME NEW n \in Runs, Begin(n) PROVE VendorInv' /\ CopyInv'
  BY <1>2, <1>15 DEF Begin, Goto, vendor, history
<1>16. ASSUME NEW r \in Revs, Pick(r) PROVE VendorInv' /\ CopyInv'
  BY <1>2, <1>16 DEF Pick, Goto, vendor, history
<1>17. CASE UseMirror \/ Clone \/ Fetch \/ HaveRevision \/ MissMarker
  BY <1>2, <1>17 DEF UseMirror, Clone, Fetch, KillFetch, HaveRevision, MissMarker, Goto, vendor, history
<1>18. CASE Clear \/ StartExtract \/ FinishExtract
  BY <1>2, <1>18 DEF Clear, StartExtract, FinishExtract, Goto, vendor, history
<1> QED
  BY <1>4, <1>5, <1>6, <1>7, <1>8, <1>9, <1>10, <1>11, <1>12, <1>13, <1>14, <1>15, <1>16, <1>17,
     <1>18
  DEF Next, Materialize, WriteVendorTree

-----------------------------------------------------------------------------
(***************************************************************************)
(* Theorems.                                                               *)
(***************************************************************************)
\* The invariant of the source cache and the vendor root.
THEOREM SourceInvariant == Spec => []SourceInv
<1>1. SourceInv /\ [Next]_vars => SourceInv'
  BY TypeStep, PlaceStep, TodoStep, MirrorStep, CheckoutStep, VendorStep DEF SourceInv
<1> QED
  BY <1>1, InitEstablishes, PTL DEF Spec

\* The mirror, the trees and the locals of a run keep their types (TypeOK).
THEOREM SourceTyping == Spec => []TypeOK
<1>1. SourceInv => TypeOK
  BY DEF SourceInv
<1> QED
  BY <1>1, SourceInvariant, PTL

\* What a run has resolved under PAFIO_HOME is not refused to an offline one while
\* the git source keeps it.
THEOREM ResolvedStaysOffline == Spec => []OfflineStaysValid
<1>1. SourceInv => OfflineStaysValid
  BY DEF SourceInv, MirrorInv, OfflineStaysValid, MustRefuse
<1> QED
  BY <1>1, SourceInvariant, PTL

\* What the last complete vendor run has vendored is whole and is found.
THEOREM VendoredIsServed == Spec => []VendoredServes
<1>1. SourceInv => VendoredServes
  BY DEF SourceInv, VendorInv, VendoredServes, Vendored, HasManifest
<1> QED
  BY <1>1, SourceInvariant, PTL

\* A run finds whole snapshots only, unless a vendor run was cut short.
THEOREM FoundSnapshotsWhole == Spec => []FoundIsWhole
<1>1. SourceInv => FoundIsWhole
  BY DEF SourceInv, CheckoutInv, VendorInv, FoundIsWhole, Source
<1> QED
  BY <1>1, SourceInvariant, PTL

\* The checkouts under PAFIO_HOME implement the store of snapshots, in which what
\* is handed out is complete, though its marker may have been lost.
THEOREM SourceImplementsStore == Spec => ImplementsStore
<1>1. Init => Store!Init
  BY DEF Init, Store!Init
<1>2. SourceInv /\ [Next]_vars => [Store!Next]_(Store!storeVars)
  <2> SUFFICES ASSUME SourceInv, [Next]_vars
               PROVE  Store!Next \/ UNCHANGED Store!storeVars
    OBVIOUS
  <2> DEFINE complete == {r \in Revs : tree[r] = "whole"}
             kept == {r \in Revs : ready[r]}
  <2>0. TypeOK /\ PlaceInv
    BY DEF SourceInv
  <2>1. CASE UNCHANGED <<tree, ready, given>>
    BY <2>1 DEF Store!storeVars
  <2>2. CASE DeleteHome
    <3>1. complete' = {} /\ kept' = {} /\ given' = {}
      BY <2>2 DEF DeleteHome
    <3> QED
      BY <3>1 DEF Store!Next, Store!Empty
  <2>3. CASE Clear \/ StartExtract \/ (Stop /\ at = "clear")
    <3>1. rev \in Revs /\ ~ready[rev]
      BY <2>0, <2>3 DEF Clear, StartExtract, Goto, PlaceInv, AtRevision, SourceInv, CheckoutInv
    <3>2. PICK r \in Revs : r = rev /\ r \notin kept
      BY <3>1
    <3>3. \A q \in Revs : (q # r => ready'[q] = ready[q] /\ tree'[q] = tree[q]) /\ ~ready'[r]
      BY <2>0, <2>3, <3>1, <3>2 DEF Clear, StartExtract, Stop, TypeOK
    <3>4. kept' = kept /\ given' = given
      BY <2>3, <3>2, <3>3 DEF Clear, StartExtract, Stop, history
    <3>5. complete' = complete \/ complete' = complete \ {r} \/ complete' = complete \cup {r}
      BY <3>3
    <3>6. CASE complete' = complete
      BY <3>4, <3>6 DEF Store!storeVars
    <3>7. CASE complete' = complete \ {r}
      <4>1. Store!Unmake(r)
        BY <3>2, <3>4, <3>7 DEF Store!Unmake
      <4> QED
        BY <4>1 DEF Store!Next
    <3>8. CASE complete' = complete \cup {r}
      <4>1. Store!Make(r)
        BY <3>4, <3>8 DEF Store!Make
      <4> QED
        BY <4>1 DEF Store!Next
    <3> QED
      BY <3>5, <3>6, <3>7, <3>8
  <2>4. CASE FinishExtract
    <3>1. PICK r \in Revs : r = rev
      BY <2>0, <2>4 DEF FinishExtract, Goto, PlaceInv, AtRevision
    <3>2. complete' = complete \cup {r} /\ kept' = kept /\ given' = given
      BY <2>0, <2>4, <3>1 DEF FinishExtract, TypeOK, history
    <3>3. Store!Make(r)
      BY <3>2 DEF Store!Make
    <3> QED
      BY <3>3 DEF Store!Next
  <2>5. CASE Mark
    <3>1. PICK r \in Revs : r = rev /\ r \in complete
      BY <2>0, <2>5 DEF Mark, PlaceInv, AtRevision, SourceInv, CheckoutInv
    <3>2. complete' = complete /\ kept' = kept \cup {r} /\ given' = given
      BY <2>0, <2>5, <3>1 DEF Mark, TypeOK, history
    <3>3. Store!Keep(r)
      BY <3>1, <3>2 DEF Store!Keep
    <3> QED
      BY <3>3 DEF Store!Next
  <2>6. CASE Return \/ StartVendor
    <3>1. PICK s \in SUBSET Revs : s = {r \in run.needs : from[r] = "home"}
      BY <2>0 DEF TypeOK, Runs
    <3>2. s \subseteq complete
      BY <3>1 DEF SourceInv, CheckoutInv
    <3>3. given' = given \cup s /\ kept' = kept /\ complete' = complete
      BY <2>6, <3>1 DEF Return, StartVendor, home
    <3>4. Store!Give(s)
      BY <3>2, <3>3 DEF Store!Give
    <3> QED
      BY <3>4 DEF Store!Next
  <2>7. \/ UNCHANGED <<tree, ready, given>>
        \/ DeleteHome
        \/ Clear \/ StartExtract \/ (Stop /\ at = "clear")
        \/ FinishExtract
        \/ Mark
        \/ Return \/ StartVendor
    BY DEF Next, Materialize, WriteVendorTree, vars, home, history, Push, Withdraw, Begin, Pick,
           UseVendored, UseMirror, Clone, KillClone, Fetch, KillFetch, HaveRevision, Refuse,
           FindMarker, MissMarker, MarkIsLost, Wipe, StartCopy, MissSource, FinishCopy,
           FinishVendor, Stop
  <2> QED
    BY <2>1, <2>2, <2>3, <2>4, <2>5, <2>6, <2>7
<1> QED
  BY <1>1, <1>2, SourceInvariant, PTL DEF Spec, ImplementsStore, Store!Spec
=============================================================================
