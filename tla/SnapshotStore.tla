---------------------------- MODULE SnapshotStore ----------------------------
(***************************************************************************)
(* What a cache of extracted sources promises to whoever it hands one out: *)
(* only a complete snapshot is handed out, and one that is kept stays      *)
(* complete until the cache is deleted as a whole.  A snapshot that is     *)
(* complete but not kept is made anew when it is next asked for.           *)
(***************************************************************************)
CONSTANTS
  Items,
  KeptFirst   \* only what is kept is handed out

VARIABLES
  complete,   \* the items whose snapshot is complete
  kept,       \* those of them that are marked as such
  given       \* the items that were handed out

storeVars == <<complete, kept, given>>

Init ==
  /\ complete = {}
  /\ kept = {}
  /\ given = {}

Make(i) ==
  /\ complete' = complete \cup {i}
  /\ UNCHANGED <<kept, given>>

Keep(i) ==
  /\ i \in complete
  /\ kept' = kept \cup {i}
  /\ UNCHANGED <<complete, given>>

Unmake(i) ==
  /\ i \notin kept
  /\ complete' = complete \ {i}
  /\ UNCHANGED <<kept, given>>

Give(s) ==
  /\ s \subseteq IF KeptFirst THEN kept ELSE complete
  /\ given' = given \cup s
  /\ UNCHANGED <<complete, kept>>

\* The whole cache is deleted by its owner.
Empty ==
  /\ complete' = {}
  /\ kept' = {}
  /\ given' = {}

Next ==
  \/ \E i \in Items : Make(i) \/ Keep(i) \/ Unmake(i)
  \/ \E s \in SUBSET Items : Give(s)
  \/ Empty

Spec == Init /\ [][Next]_storeVars
=============================================================================
