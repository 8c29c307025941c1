---------------------------- MODULE WorkerLedger ----------------------------
(***************************************************************************)
(* The worker's threads implement the ledger of its claims.                *)
(***************************************************************************)
EXTENDS Worker

(* A TaskRun is over once closed, whatever started says of it. *)
Phase(n) ==
    IF n > claimed THEN "unclaimed"
    ELSE IF closed[n] THEN "over"
    ELSE IF started[n] THEN "running" ELSE "held"

phaseBar == [n \in Claims |-> Phase(n)]

Ledger == INSTANCE ClaimLedger WITH phase <- phaseBar, call <- final

(* Every claim ends once and is told of once (loop.py's TaskRun.closed:     *)
(* "released, dropped or reported: nothing more to say").                   *)
LedgerSpec == Ledger!Spec
=============================================================================
