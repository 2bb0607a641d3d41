-------------------------- MODULE MCProcessRunner --------------------------
(***************************************************************************)
(* The instance of ProcessRunner that TLC checks: pipes that are full with *)
(* one unit, so that both sides meet full and empty ones all the time.     *)
(***************************************************************************)
EXTENDS ProcessRunner
=============================================================================
