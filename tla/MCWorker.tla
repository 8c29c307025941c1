------------------------------ MODULE MCWorker ------------------------------
(* The worker on small instances: two or three tasks, one place and one prefetched.  *)
EXTENDS WorkerLedger

CONSTANTS a, b, c
=============================================================================
