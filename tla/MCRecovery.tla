------------------------------ MODULE MCRecovery ------------------------------
(* Small windows, so that every length of gap occurs; the executions are not *)
(* taken for interchangeable, since liveness is checked.                     *)
EXTENDS Recovery
=============================================================================
