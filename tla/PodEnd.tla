------------------------------- MODULE PodEnd -------------------------------
(***************************************************************************)
(* What podh-boot promises of a pod's end, whatever its threads do: it is  *)
(* decided once and the verdict stands; pod-control is told of it after    *)
(* podh-boot has had its logs uploaded, the children are stopped after     *)
(* that, and podh-boot leaves of itself only when all of it is over.       *)
(***************************************************************************)
CONSTANT Verdicts, NoVerdict

VARIABLES
    verdict,
    phase,    \* of the end: open, decided, logged, told, over
    process,  \* podh-boot: up, left, or killed by a signal
    watched   \* the pod has something to supervise

endings == <<verdict, phase, process, watched>>

Init ==
    /\ verdict = NoVerdict /\ phase = "open" /\ process = "up"
    /\ watched \in BOOLEAN

Decide(v) ==
    /\ process = "up" /\ phase = "open"
    /\ verdict' = v /\ phase' = "decided"
    /\ UNCHANGED <<process, watched>>

Goes(from, to) ==
    /\ process = "up" /\ phase = from
    /\ phase' = to
    /\ UNCHANGED <<verdict, process, watched>>

Leave ==
    /\ process = "up"
    /\ phase = "over" \/ (phase = "open" /\ ~watched)
    /\ process' = "left"
    /\ UNCHANGED <<verdict, phase, watched>>

Killed ==
    /\ process = "up"
    /\ process' = "killed"
    /\ UNCHANGED <<verdict, phase, watched>>

Next ==
    \/ \E v \in Verdicts : Decide(v)
    \/ Goes("decided", "logged") \/ Goes("logged", "told") \/ Goes("told", "over")
    \/ Leave \/ Killed

Spec == Init /\ [][Next]_endings
=============================================================================
