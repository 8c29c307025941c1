------------------------------- MODULE Wiring -------------------------------
(***************************************************************************)
(* What is decided of a pipeline before any of it runs: whether its wiring *)
(* holds (framework.py's Runner.wiring), where a resumed run starts        *)
(* (resume.py), and in how many passes its sources fit on the disk         *)
(* (chunks.py's plan).                                                     *)
(*                                                                         *)
(* A pipeline is a sequence of the names of stages; the registry, which is *)
(* the workload's, says what each stage needs and makes.                   *)
(***************************************************************************)
EXTENDS Integers, Sequences, FiniteSets, SequencesExt

CONSTANT Registry   \* stage name -> [scope, optional, requires, produces]

ASSUME RegistryIsOne ==
    \A s \in DOMAIN Registry :
        /\ Registry[s].scope \in {"job", "chunk"}
        /\ Registry[s].optional \in BOOLEAN
        /\ IsFiniteSet(Registry[s].requires) /\ IsFiniteSet(Registry[s].produces)

Requires(s) == Registry[s].requires
Produces(s) == Registry[s].produces
PerChunk(s) == Registry[s].scope = "chunk"
Known(stages) == Range(stages) \subseteq DOMAIN Registry

Artifacts == UNION {Requires(s) \cup Produces(s) : s \in DOMAIN Registry}

(* What stands ready for the i-th stage: given, or produced before it.      *)
AvailableAt(stages, given, i) ==
    given \cup UNION {Produces(stages[j]) : j \in 1..(i - 1)}

Unmet(stages, given) ==
    {i \in DOMAIN stages :
        ~(Requires(stages[i]) \subseteq AvailableAt(stages, given, i))}

MadeTwice(stages) ==
    {a \in Artifacts : \E i, j \in DOMAIN stages :
        i # j /\ a \in Produces(stages[i]) \cap Produces(stages[j])}

(* The stages of a pipeline that are in S, in their order.                  *)
Keep(stages, S) ==
    LET upTo[n \in 0..Len(stages)] ==
            IF n = 0 THEN <<>>
            ELSE IF stages[n] \in S THEN Append(upTo[n - 1], stages[n]) ELSE upTo[n - 1]
    IN upTo[Len(stages)]

WiringOK(stages, given) == Unmet(stages, given) = {} /\ MadeTwice(stages) = {}

(* The stages an explicit restart point leaves: those named before it are   *)
(* skipped.  auto skips what a record claims and its check confirms, and    *)
(* execute_job hands it no record.                                          *)
From(stages, start) ==
    LET skip == {stages[j] : j \in {j \in DOMAIN stages :
                    \A i \in 1..j : stages[i] # start}}
    IN IF start \in {"off", "never", "auto"} THEN stages
       ELSE Keep(stages, Range(stages) \ skip)

RestartKnown(stages, start) == start \in {"off", "never", "auto"} \cup Range(stages)

-----------------------------------------------------------------------------
(* chunks.plan over groups (here, sources) of the given sizes: each pass    *)
(* takes the next group unless that would exceed the budget.                *)

Total(pass, size) ==
    LET sum[n \in 0..Len(pass)] == IF n = 0 THEN 0 ELSE sum[n - 1] + size[pass[n]]
    IN sum[Len(pass)]

Closed(at) == IF at.pass = <<>> THEN at.done ELSE Append(at.done, at.pass)

(* The pass is closed once it is full, whatever it would take next.         *)
TakeLate(at, g, size, budget) ==
    IF at.pass # <<>> /\ Total(at.pass, size) > budget
    THEN [done |-> Closed(at), pass |-> <<g>>]
    ELSE [at EXCEPT !.pass = Append(@, g)]

Take(at, g, size, budget) ==
    IF at.pass # <<>> /\ Total(at.pass, size) + size[g] > budget
    THEN [done |-> Closed(at), pass |-> <<g>>]
    ELSE [at EXCEPT !.pass = Append(@, g)]

Passes(groups, size, budget) ==
    LET at[n \in 0..Len(groups)] ==
            IF n = 0 THEN [done |-> <<>>, pass |-> <<>>]
            ELSE Take(at[n - 1], groups[n], size, budget)
    IN Closed(at[Len(groups)])

(* "A single group larger than the budget still becomes its own chunk", and *)
(* nothing else exceeds it; no group is left out, split or taken twice, and *)
(* no two passes could have been one.                                       *)
PassesSound(groups, size, budget) ==
    LET passes == Passes(groups, size, budget) IN
    /\ FlattenSeq(passes) = groups
    /\ \A i \in DOMAIN passes :
         /\ passes[i] # <<>>
         /\ Len(passes[i]) > 1 => Total(passes[i], size) <= budget
         /\ i > 1 => Total(passes[i - 1], size) + size[passes[i][1]] > budget
=============================================================================
