------------------------------- MODULE MCPod -------------------------------
(* podh-boot, with the worker (app.serve) as the user of its local API.     *)
EXTENDS Pod

(* Each kind of pod, and both ways to end. *)
MCBoots == {{"workload", "serve", "exit"}, {"workload"}, {"serve"}, {}, {"exit"}}
MCAskers == {"serve"}
=============================================================================
