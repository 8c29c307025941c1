---------------------------- MODULE ClaimLedger ----------------------------
(***************************************************************************)
(* What podh-worker promises of each claim, whatever its threads do: it is *)
(* held, perhaps started, and over once; and pod-control is told of it by  *)
(* at most one done or one release, begun in the step that ends it.        *)
(***************************************************************************)
EXTENDS Naturals

CONSTANT Claims        \* the claims a worker makes, in order

VARIABLES phase, call

ledger == <<phase, call>>

Init ==
    /\ phase = [n \in Claims |-> "unclaimed"]
    /\ call = [n \in Claims |-> "no"]

Hold(n) ==
    /\ phase[n] = "unclaimed"
    /\ phase' = [phase EXCEPT ![n] = "held"]
    /\ UNCHANGED call

Start(n) ==
    /\ phase[n] = "held"
    /\ phase' = [phase EXCEPT ![n] = "running"]
    /\ UNCHANGED call

(* Told, with a done or a release on its way, or dropped in silence; a done *)
(* is only ever said of a task that was started.                            *)
End(n, how) ==
    /\ phase[n] \in {"held", "running"}
    /\ how = "done" => phase[n] = "running"
    /\ phase' = [phase EXCEPT ![n] = "over"]
    /\ call' = [call EXCEPT ![n] = how]

Answered(n) ==
    /\ call[n] \in {"done", "release"}
    /\ call' = [call EXCEPT ![n] = "told"]
    /\ UNCHANGED phase

Next ==
    \E n \in Claims :
        \/ Hold(n) \/ Start(n) \/ Answered(n)
        \/ \E how \in {"no", "done", "release"} : End(n, how)

Spec == Init /\ [][Next]_ledger
=============================================================================
