--------------------------- MODULE TransparencyLog ---------------------------
(***************************************************************************)
(* What the registry promises of its transparency log, without any of the  *)
(* files it is kept in: entries are only ever added at the end, no release *)
(* is entered twice, and the signed head is the log as it stood when the   *)
(* head was signed.                                                        *)
(***************************************************************************)
EXTENDS Sequences

CONSTANTS
  Entries,    \* what can be entered: the released archives
  KeyOf       \* entry -> the package version it releases

VARIABLES
  log,        \* the leaves, in sequence
  head        \* the prefix of the log the last checkpoint signs

logVars == <<log, head>>

Init ==
  /\ log = << >>
  /\ head = << >>

Enter(e) ==
  /\ \A i \in DOMAIN log : KeyOf[log[i]] # KeyOf[e]
  /\ log' = Append(log, e)
  /\ UNCHANGED head

Sign ==
  /\ head' = log
  /\ UNCHANGED log

Next ==
  \/ \E e \in Entries : Enter(e)
  \/ Sign

Spec == Init /\ [][Next]_logVars
=============================================================================
