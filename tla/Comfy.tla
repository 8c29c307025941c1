-------------------------------- MODULE Comfy --------------------------------
(***************************************************************************)
(* A worker's ComfyUI tasks (comfy.py, worker/handlers.py): each submits   *)
(* one prompt, follows it over a websocket, by polling when that is not    *)
(* there, and stops it when it is cancelled, too long or stuck, if need be *)
(* by a restart of the workload.                                           *)
(*                                                                         *)
(* ComfyUI is the environment, as this code uses it: it runs one prompt of *)
(* its queue at a time, tells the prompt's client, writes the prompt's     *)
(* history, may leave any request unanswered, may be wedged in a node that *)
(* is deaf to interrupts, and may die and lose all of it.                  *)
(*                                                                         *)
(* A task has one prompt, and its name stands for the prompt's id.         *)
(***************************************************************************)
EXTENDS Naturals, Sequences, SequencesExt

CONSTANTS
    Tasks,
    Timed,    \* those with a timeout_s
    Guarded,  \* those with a stall_s
    Stopped,  \* bound: those the control plane may stop
    Picky,    \* those with a `keep`
    MaxDeaths \* bound: how often ComfyUI dies or is restarted

ASSUME ComfyConstants ==
    /\ Timed \subseteq Tasks /\ Guarded \subseteq Tasks
    /\ Stopped \subseteq Tasks /\ Picky \subseteq Tasks
    /\ MaxDeaths \in Nat /\ "none" \notin Tasks

VARIABLES
    pc, ws,       \* run, and its websocket
    facts,        \* what it has come to: "finished" it was told; "asked" to stop;
                  \* "late" by timeout_s, "quiet" for stall_s, "over" a grace
    seen, how,    \* the history it has read; what a stop came to
    up, deaths,   \* ComfyUI
    pending, running, \* its queue
    state, node,  \* the running prompt: how it ended, if it has; its node's mood
    hist,         \* the history: prompt -> how it ended
    told          \* what ComfyUI has sent to each websocket, not read yet

runVars == <<pc, ws, facts, seen, how>>
comfyVars == <<up, deaths, pending, running, state, node, hist>>
vars == <<runVars, comfyVars, told>>

Ends == {"success", "error", "interrupted"}

Init ==
    /\ pc = [t \in Tasks |-> "prepare"] /\ ws = [t \in Tasks |-> "none"]
    /\ facts = [t \in Tasks |-> {}]
    /\ seen = [t \in Tasks |-> "none"] /\ how = [t \in Tasks |-> "none"]
    /\ up = TRUE /\ deaths = 0 /\ pending = <<>> /\ running = "none"
    /\ state = "going" /\ node = "fine" /\ hist = [t \in Tasks |-> "none"]
    /\ told = [t \in Tasks |-> <<>>]

-----------------------------------------------------------------------------
(* ComfyUI. *)

(* A message is for the client of its prompt.  Of several progress messages *)
(* one stands for all.                                                      *)
Told(t, m) ==
    IF ws[t] = "open" /\ ~(m = "progress" /\ told[t] # <<>>)
    THEN [told EXCEPT ![t] = Append(@, m)] ELSE told

Takes ==
    /\ up /\ running = "none" /\ pending # <<>>
    /\ running' = Head(pending) /\ pending' = Tail(pending)
    /\ state' = "going" /\ node' = "fine" /\ told' = Told(Head(pending), "progress")
    /\ UNCHANGED <<runVars, up, deaths, hist>>

Going == up /\ running # "none" /\ state = "going"

Progresses ==
    /\ Going /\ node # "deaf" /\ told' = Told(running, "progress") /\ told' # told
    /\ UNCHANGED <<runVars, comfyVars>>

(* A node is stuck in C: it ends no more, and no interrupt reaches it.      *)
Wedges ==
    /\ Going /\ node = "fine" /\ node' = "deaf"
    /\ UNCHANGED <<runVars, up, deaths, pending, running, state, hist, told>>

(* The prompt's end is told before its history is there.                    *)
Comes ==
    /\ Going /\ node # "deaf"
    /\ \E end \in IF node = "asked" THEN Ends ELSE {"success", "error"} :
         state' = end /\ told' = Told(running, end)
    /\ UNCHANGED <<runVars, up, deaths, pending, running, node, hist>>

Rests == running' = "none" /\ state' = "going" /\ node' = "fine"

Leaves ==
    /\ up /\ running # "none" /\ state # "going"
    /\ hist' = [hist EXCEPT ![running] = state]
    /\ told' = Told(running, "over") /\ Rests
    /\ UNCHANGED <<runVars, up, deaths, pending>>

(* Nothing of its queue and its history outlives the process.               *)
Empties ==
    /\ pending' = <<>> /\ Rests /\ hist' = [t \in Tasks |-> "none"]
    /\ deaths' = deaths + 1

Dropped == [t \in Tasks |-> IF ws[t] = "open" THEN "dropped" ELSE ws[t]]

Dies ==
    /\ up /\ deaths < MaxDeaths /\ up' = FALSE /\ Empties /\ ws' = Dropped
    /\ UNCHANGED <<pc, facts, seen, how, told>>

Rises ==
    /\ ~up /\ up' = TRUE
    /\ UNCHANGED <<runVars, deaths, pending, running, state, node, hist, told>>

-----------------------------------------------------------------------------
(* The task: ComfyRunner.prepare, run's websocket and submit. *)

To(t, l) == pc' = [pc EXCEPT ![t] = l]
Stay == UNCHANGED <<ws, facts, told>>
Fact(t, f) == facts' = [facts EXCEPT ![t] = @ \cup {f}]

(* run is left by a result or an exception: the websocket is closed. *)
Exit(t, l) ==
    /\ To(t, l)
    /\ facts' = [facts EXCEPT ![t] = {}]
    /\ ws' = [ws EXCEPT ![t] = "none"] /\ told' = [told EXCEPT ![t] = <<>>]

(* The workflow, its map or an input is not there, or the patch misses.     *)
Prepare(t) ==
    /\ pc[t] = "prepare"
    /\ To(t, "connect") \/ To(t, "failed")
    /\ UNCHANGED <<ws, facts, seen, how, comfyVars, told>>

Connect(t) ==
    /\ pc[t] = "connect" /\ To(t, "submit")
    /\ \/ up /\ ws' = [ws EXCEPT ![t] = "open"]
       \/ UNCHANGED ws
    /\ UNCHANGED <<facts, seen, how, comfyVars, told>>

(* ComfyUI may take a prompt and its answer be lost: submit raises then.    *)
Submit(t) ==
    /\ pc[t] = "submit"
    /\ \/ /\ up /\ pending' = Append(pending, t)
          /\ (To(t, "check") /\ Stay) \/ Exit(t, "lost")
       \/ Exit(t, "failed") /\ UNCHANGED pending
    /\ UNCHANGED <<seen, how, up, deaths, running, state, node, hist>>

-----------------------------------------------------------------------------
(* _follow. *)

(* The loop's first question: is there a reason to stop?                    *)
OutOfTimeUnlessPolling(t) == t \in Timed /\ "late" \in facts[t] /\ ws[t] # "none"
OutOfTime(t) == t \in Timed /\ "late" \in facts[t]

Stuck(t) == t \in Guarded /\ "quiet" \in facts[t] /\ ws[t] # "none"

MustStop(t) == "asked" \in facts[t] \/ OutOfTime(t) \/ Stuck(t)

Abort(t) ==
    /\ pc[t] = "check" /\ MustStop(t) /\ To(t, "delete")
    /\ facts' = [facts EXCEPT ![t] = {}]
    /\ UNCHANGED <<ws, seen, how, comfyVars, told>>

(* A request is answered with what there is, or not at all.                 *)
Answer(what, silence) == {silence} \cup (IF up THEN {what} ELSE {})

(* The history is read once the end was told, and by polling without a      *)
(* websocket.                                                               *)
Look(t) ==
    /\ pc[t] = "check" /\ ~MustStop(t)
    /\ \/ /\ "finished" \notin facts[t] /\ ws[t] # "none"
          /\ To(t, "recv") /\ Stay /\ UNCHANGED seen
       \/ /\ "finished" \in facts[t] \/ ws[t] = "none"
          /\ \E got \in Answer(hist[t], "none") :
               IF got # "none" THEN Exit(t, "collect") /\ seen' = [seen EXCEPT ![t] = got]
               ELSE /\ UNCHANGED seen
                    /\ IF {"finished", "over"} \subseteq facts[t] THEN Exit(t, "failed")
                       ELSE To(t, "recv") /\ Stay
    /\ UNCHANGED <<how, comfyVars>>

Hear(t) == told' = [told EXCEPT ![t] = Tail(@)]

(* Every message of the prompt is a sign of life.                           *)
RefreshedAlways(t) == facts[t] \ {"quiet", "over"}
Refreshed(t) == IF told[t] = <<>> THEN facts[t] ELSE facts[t] \ {"quiet", "over"}

Recv(t) ==
    /\ pc[t] = "recv"
    /\ IF told[t] # <<>> /\ Head(told[t]) \in {"error", "interrupted"} THEN Exit(t, "failed")
       ELSE /\ To(t, "check")
            /\ \/ /\ told[t] # <<>> /\ Hear(t) /\ UNCHANGED ws
                  /\ facts' = [facts EXCEPT ![t] = Refreshed(t) \cup
                         (IF Head(told[t]) \in {"success", "over"} THEN {"finished"} ELSE {})]
               \/ /\ told[t] = <<>> /\ UNCHANGED told
                  /\ ws' = [ws EXCEPT ![t] = IF @ = "dropped" THEN "none" ELSE @]
                  /\ facts' = [facts EXCEPT ![t] = Refreshed(t)]
    /\ UNCHANGED <<seen, how, comfyVars>>

-----------------------------------------------------------------------------
(* stop. *)

(* Out of the queue first; if that is not answered, no interrupt is sent.   *)
(* An answer that is an HTTP error is an answer, though it took nothing out. *)
Delete(t) ==
    /\ pc[t] = "delete"
    /\ \/ /\ up /\ pending' \in {RemoveFirst(pending, t), pending}
          /\ To(t, "interrupt") \/ To(t, "grace")
       \/ To(t, "grace") /\ UNCHANGED pending
    /\ UNCHANGED <<ws, facts, seen, how, up, deaths, running, state,
                   node, hist, told>>

Interrupt(t) ==
    /\ pc[t] = "interrupt" /\ To(t, "grace")
    /\ IF up /\ running = t /\ node = "fine" THEN node' \in {"asked", "fine"}
       ELSE UNCHANGED node
    /\ UNCHANGED <<ws, facts, seen, how, up, deaths, pending, running,
                   state, hist, told>>

InQueue(t) == IF running = t THEN "running" ELSE IF t \in Range(pending) THEN "pending"
              ELSE "none"

(* No answer about the queue does not say that the prompt has left it.      *)
GoneIfSilent(queued) == queued \in {"none", "unknown"}
Gone(queued) == queued = "none"

Has(t, h) == how' = [how EXCEPT ![t] = h] /\ Exit(t, "stopped")

Grace(t) ==
    /\ pc[t] = "grace" /\ "over" \notin facts[t]
    /\ \/ /\ told[t] # <<>>
          /\ IF Head(told[t]) \in Ends THEN Has(t, "interrupted")
             ELSE Hear(t) /\ UNCHANGED <<pc, how, ws, facts>>
       \/ /\ ws[t] = "dropped" /\ told[t] = <<>>
          /\ ws' = [ws EXCEPT ![t] = "none"] /\ UNCHANGED <<pc, how, told, facts>>
       \/ /\ ws[t] # "dropped" /\ told[t] = <<>>
          /\ \E got \in Answer(hist[t], "none"), queued \in Answer(InQueue(t), "unknown") :
               (got # "none" \/ Gone(queued)) /\ Has(t, "interrupted")
    /\ UNCHANGED <<seen, comfyVars>>

(* The interrupt was ignored: the local API restarts the workload, for all. *)
Restart(t) ==
    /\ pc[t] = "grace" /\ "over" \in facts[t]
    /\ \/ /\ deaths < MaxDeaths /\ up' = TRUE /\ Empties
          /\ To(t, "stopped") /\ how' = [how EXCEPT ![t] = "restarted"]
          /\ ws' = [Dropped EXCEPT ![t] = "none"] /\ told' = [told EXCEPT ![t] = <<>>]
          /\ facts' = [facts EXCEPT ![t] = {}]
       \/ Has(t, "unstopped") /\ UNCHANGED comfyVars
    /\ UNCHANGED seen

-----------------------------------------------------------------------------
(* The outputs: an entry that says error fails the run; so does a file that *)
(* is nowhere to be had, and none that the task keeps.                      *)
Fine(t) == seen[t] = "success"

Collect(t) ==
    /\ pc[t] = "collect"
    /\ \/ Fine(t) /\ To(t, "finish")
       \/ To(t, "failed")
    /\ UNCHANGED <<ws, facts, seen, how, comfyVars, told>>

Finish(t) ==
    /\ pc[t] = "finish"
    /\ To(t, "done") \/ (t \in Picky /\ To(t, "failed"))
    /\ UNCHANGED <<ws, facts, seen, how, comfyVars, told>>

-----------------------------------------------------------------------------
(* Time, and the control plane.  The stall_s and the 30 s for the history   *)
(* count from the last message.                                             *)
Following(t) == pc[t] \in {"check", "recv"}

Passes(t, f, when) ==
    /\ when /\ f \notin facts[t] /\ Fact(t, f)
    /\ UNCHANGED <<pc, ws, seen, how, comfyVars, told>>

Late(t) == Passes(t, "late", Following(t) /\ t \in Timed)
Quiet(t) == Passes(t, "quiet", Following(t) /\ t \in Guarded /\ told[t] = <<>>)
Over(t) == Passes(t, "over", \/ pc[t] = "grace"
                             \/ Following(t) /\ "finished" \in facts[t] /\ told[t] = <<>>)
Ask(t) == Passes(t, "asked", Following(t) /\ t \in Stopped)

Step(t) ==
    \/ Prepare(t) \/ Connect(t) \/ Submit(t) \/ Abort(t) \/ Look(t) \/ Recv(t)
    \/ Delete(t) \/ Interrupt(t) \/ Grace(t) \/ Restart(t) \/ Collect(t) \/ Finish(t)

Environment == Takes \/ Progresses \/ Wedges \/ Comes \/ Leaves \/ Dies \/ Rises

Next == Environment \/ \E t \in Tasks : Step(t) \/ Late(t) \/ Quiet(t) \/ Over(t) \/ Ask(t)

(* The threads run and time passes; ComfyUI is promised nothing.            *)
Spec ==
    /\ Init /\ [][Next]_vars
    /\ \A t \in Tasks : WF_vars(Step(t)) /\ WF_vars(Late(t)) /\ WF_vars(Quiet(t))
                        /\ WF_vars(Over(t))

-----------------------------------------------------------------------------
(* Properties. *)

(* Every variable has its type. *)
TypeOK ==
    /\ pc \in [Tasks -> {"prepare", "connect", "submit", "check", "recv", "delete", "interrupt",
                        "grace", "collect", "finish", "failed", "lost", "stopped", "done"}]
    /\ ws \in [Tasks -> {"none", "open", "dropped"}]
    /\ facts \in [Tasks -> SUBSET {"finished", "asked", "late", "quiet", "over"}]
    /\ seen \in [Tasks -> Ends \cup {"none"}] /\ hist \in [Tasks -> Ends \cup {"none"}]
    /\ how \in [Tasks -> {"none", "interrupted", "restarted", "unstopped"}]
    /\ up \in BOOLEAN /\ deaths \in 0..MaxDeaths
    /\ pending \in Seq(Tasks) /\ running \in Tasks \cup {"none"}
    /\ state \in Ends \cup {"going"} /\ node \in {"fine", "asked", "deaf"}
    /\ told \in [Tasks -> Seq(Ends \cup {"progress", "over"})]

Ended(t) == pc[t] \in {"failed", "lost", "stopped", "done"}

(* A task that has ended leaves ComfyUI nothing of its own to run: "a       *)
(* ComfyUI still busy with the last task would run the next one late or not *)
(* at all".  Not when it could not be stopped and said so, nor when         *)
(* ComfyUI took a prompt and the answer was lost.                           *)
NothingLeftGoing ==
    \A t \in Tasks :
        Ended(t) /\ pc[t] # "lost" /\ how[t] # "unstopped" =>
            InQueue(t) = "none" \/ (running = t /\ state # "going")

(* Every run ends that has a timeout: with the websocket or without,        *)
(* however ComfyUI hangs, dies, forgets the prompt or answers nothing.      *)
TimedEnd == \A t \in Timed : Following(t) ~> Ended(t)

(* One that has only a stall guard ends, or has lost its websocket, or is   *)
(* told of progress for ever.                                               *)
StalledEnd ==
    \A t \in Guarded : []<>(Ended(t) \/ ~Following(t) \/ ws[t] = "none" \/ told[t] # <<>>)
=============================================================================
