------------------------------ MODULE MCModels ------------------------------
(* The watcher and two POSTs over two models, one of them an addition that  *)
(* is listed from the second revision on.                                   *)
EXTENDS Models

CONSTANTS p, q, r1, r2

(* p was left for after ready; q is an addition. *)
MCServes == [r \in 1..2 |-> IF r = 1 THEN {p} ELSE {p, q}]

MCAsked == [r \in {r1, r2} |-> IF r = r1 THEN {p} ELSE {q}]
MCGiven == [r \in {r1, r2} |-> IF r = r1 THEN {p} ELSE {}]
=============================================================================
