------------------------------- MODULE MCComfy -------------------------------
(* Two tasks at a time: one with a timeout, one with a stall guard.         *)
EXTENDS Comfy
=============================================================================
