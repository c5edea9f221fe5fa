------------------------------ MODULE MCWorker ------------------------------
(* One worker, its restarts, and another process that wants its lease.      *)
EXTENDS Worker
=============================================================================
