------------------------------ MODULE MCJobLog ------------------------------
(* A job of a few events, with or without a cancel, a death and a torn line. *)
EXTENDS JobLog
=============================================================================
