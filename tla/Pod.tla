-------------------------------- MODULE Pod --------------------------------
(***************************************************************************)
(* The life of a pod under podh-boot (src/pod_harness/boot): the stages,   *)
(* app.serve and its waiter, the workload and its supervisor, a drain, the *)
(* requests of the pod's own processes on the local API, a SIGTERM, and    *)
(* the one end all of them come to (Context.finish).                       *)
(*                                                                         *)
(* Threads: main, which a signal's handler interrupts; the thread of a     *)
(* stage, which may outlive its time limit; the waiter of app.serve; the   *)
(* workload's supervisor; the drain; one request each for a restart and    *)
(* for done.  The stages before the workload are one step.  Whether the    *)
(* workload answers, what its log says and how a process exits are         *)
(* choices.  A control plane is configured; the upload of a drained pod's  *)
(* logs is left out, and a stopped process is gone when stop_process is.   *)
(***************************************************************************)
EXTENDS Naturals, FiniteSets

CONSTANTS
    Boots,    \* the boot specs: which have a workload, a serve, --exit-on-fail
    Askers,   \* whose processes use the local API: "stage", "workload", "serve"
    MaxAsks   \* bound: the restarts asked for

ASSUME PodConstants ==
    /\ Boots \subseteq SUBSET {"workload", "serve", "exit"}
    /\ Askers \subseteq {"stage", "workload", "serve"}
    /\ MaxAsks \in Nat

VARIABLES
    boot,    \* this pod's
    main,    \* where main is
    term,    \* where on_term is, once a signal has come
    stage,   \* where the stage's thread is
    serve,   \* ctx.serve: set, its process ("loose": forked, self.proc not yet
             \* assigned), restarts, stopping, drained; and that its last stop
             \* found no process, since main was just starting one
    waiter,  \* Serve._wait has found an exit to act on, under the lock
    work,    \* ctx.workload: set, its process, restarts, stopping, and how
             \* many workload processes run that are no longer its process
    loop,    \* where Workload._loop is
    ask,     \* where the request for a restart is
    asks,    \* those made
    reply,   \* the last heartbeat's reply asks for a drain or park
    drain,   \* the hook and its thread
    result,  \* ctx.result
    ender,   \* the thread whose finish it is
    end,     \* where that finish is
    told     \* who has reported the pod's done to pod-control

mainVars == <<boot, main, term, stage>>
serveVars == <<serve, waiter>>
askVars == <<ask, asks>>
drainVars == <<reply, drain>>
endVars == <<result, ender, end>>
vars == <<mainVars, serveVars, work, loop, askVars, drainVars, endVars, told>>

Alive == main # "gone"
Finished == end = "over"

(* The waiter holds Serve.lock, too while the finish it called goes on;     *)
(* whoever else takes that lock has it for one step.                        *)
ServeLocked == waiter \/ (ender = "serve" /\ ~Finished)

WorkLockedByLoop == loop \in {"poll", "start", "up", "end"}

(* Workload.lock, for as long as the supervisor or a restart has it. *)
WorkLocked ==
    \/ ask \in {"stop", "start", "up", "end"}
    \/ loop \in {"poll", "start", "up", "end"}

Init ==
    /\ boot \in Boots
    /\ main = "stages" /\ term = "no" /\ stage = "run"
    /\ serve = [set |-> FALSE, proc |-> "none", restarts |-> 0,
                stopping |-> FALSE, drained |-> FALSE, missed |-> FALSE]
    /\ work = [set |-> FALSE, proc |-> "none", restarts |-> 0,
               stopping |-> FALSE, strays |-> 0]
    /\ waiter = FALSE /\ loop = "off" /\ ask = "no" /\ asks = 0
    /\ reply = FALSE /\ drain = "off"
    /\ result = "none" /\ ender = "nobody" /\ end = "open"
    /\ told = {}

-----------------------------------------------------------------------------
(* The end. *)

FinishAgain(who, r) == result' = r /\ ender' = who /\ end' = "logs"

(* finish up to its first call out: the first to come decides. *)
Finish(who, r) ==
    IF result = "none"
    THEN result' = r /\ ender' = who /\ end' = "logs"
    ELSE UNCHANGED endVars

(* stop_process: what runs is stopped, and what has exited is left as it is *)
(* (a serve that is stopped: its exit code is not looked at any more).  A   *)
(* loose process is none to stop.                                           *)
Stopped(proc, dead) == IF proc = "run" THEN dead ELSE proc

StopServeOnce ==
    serve' = IF serve.set
             THEN [serve EXCEPT !.proc = Stopped(@, "bad"),
                                !.missed = (serve.proc = "loose")]
             ELSE serve

StopServe ==
    serve' = IF serve.set
             THEN [serve EXCEPT !.stopping = TRUE, !.proc = Stopped(@, "bad"),
                                !.missed = (serve.proc = "loose")]
             ELSE serve

StopWorkLocked ==
    /\ ~WorkLocked
    /\ work' = [work EXCEPT !.stopping = TRUE, !.proc = Stopped(@, "dead")]

StopWork == work' = [work EXCEPT !.stopping = TRUE, !.proc = Stopped(@, "dead")]

(* Who stops the children looks for both at once. *)
ThenWork == IF work.set THEN "work" ELSE "procs"

(* The rest of finish, in the thread that decided: a signal's handler       *)
(* interrupts it when that is main.                                         *)
EndGoes(from, to) ==
    /\ Alive /\ (ender = "main" => term = "no")
    /\ end = from /\ end' = to
    /\ UNCHANGED <<mainVars, waiter, loop, askVars, drainVars, result, ender>>

EndUploads == EndGoes("logs", "tell") /\ UNCHANGED <<serve, work, told>>

(* heartbeat.done, answered or not: it is not sent again. *)
EndTells ==
    /\ EndGoes("tell", "serve")
    /\ told' = told \cup {"boot"}
    /\ UNCHANGED <<serve, work>>

EndStopsServe ==
    /\ EndGoes("serve", ThenWork)
    /\ ServeLocked => ender = "serve"
    /\ StopServe
    /\ UNCHANGED <<work, told>>

(* The workload, what the stages run, and finished.set. *)
EndStopsRest ==
    /\ \/ EndGoes("work", "over") /\ StopWork
       \/ EndGoes("procs", "over") /\ UNCHANGED work
    /\ UNCHANGED <<serve, told>>

EndSteps == EndUploads \/ EndTells \/ EndStopsServe \/ EndStopsRest

-----------------------------------------------------------------------------
(* main, and the thread of the stage it waits for. *)

StartWork ==
    work' = [work EXCEPT !.proc = "run",
                         !.strays = IF work.proc = "run" THEN @ + 1 ELSE @]

StageGoes(from, to) ==
    /\ Alive /\ stage = from /\ stage' = to
    /\ UNCHANGED <<boot, main, term, serveVars, loop, askVars, drainVars, endVars, told>>

StageFails ==
    /\ \E at \in {"run", "start", "up"} : StageGoes(at, "failed")
    /\ UNCHANGED work

(* Everything before the workload. *)
StageWorks ==
    /\ StageGoes("run", IF "workload" \in boot THEN "start" ELSE "done")
    /\ UNCHANGED work

StageStarts == StageGoes("start", "set") /\ StartWork

StageSets == StageGoes("set", "up") /\ work' = [work EXCEPT !.set = TRUE]

StageUp == work.proc = "run" /\ StageGoes("up", "done") /\ UNCHANGED work

StageSteps == StageFails \/ StageWorks \/ StageStarts \/ StageSets \/ StageUp

MainAt(at) ==
    /\ Alive /\ term = "no" /\ main = at
    /\ UNCHANGED <<boot, term, stage, waiter, work, askVars, reply, told>>

MainFails(r) == Finish("main", r) /\ main' = "ending"

(* run_stage comes back: with the last stage done, or with a failure, which *)
(* is the time limit's when the thread still runs.                          *)
MainStages ==
    /\ MainAt("stages")
    /\ \/ stage = "done" /\ main' = "hook" /\ UNCHANGED endVars
       \/ stage # "done" /\ MainFails("stage")
    /\ UNCHANGED <<serve, loop, drain>>

MainHooks ==
    /\ MainAt("hook")
    /\ main' = "build" /\ drain' = "on"
    /\ UNCHANGED <<serve, loop, endVars>>

MainBuilds ==
    /\ MainAt("build")
    /\ \/ /\ "serve" \in boot
          /\ serve' = [serve EXCEPT !.set = TRUE]
          /\ main' = "start" /\ UNCHANGED endVars
       \/ "serve" \in boot /\ MainFails("app_serve") /\ UNCHANGED serve
       \/ "serve" \notin boot /\ main' = "supervise" /\ UNCHANGED <<serve, endVars>>
    /\ UNCHANGED <<loop, drain>>

(* Serve.start takes no lock: its process is there before self.proc is.     *)
MainForks ==
    /\ MainAt("start")
    /\ \/ /\ serve' = [serve EXCEPT !.proc = "loose"]
          /\ main' = "forked" /\ UNCHANGED endVars
       \/ MainFails("app_serve") /\ UNCHANGED serve
    /\ UNCHANGED <<loop, drain>>

MainStarts ==
    /\ MainAt("forked") /\ main' = "supervise"
    /\ serve' = [serve EXCEPT !.proc = "run"]
    /\ UNCHANGED <<loop, drain, endVars>>

MainSupervises ==
    /\ MainAt("supervise")
    /\ loop' = IF work.set THEN "look" ELSE loop
    /\ main' = IF ~work.set /\ ~serve.set /\ "exit" \in boot THEN "gone" ELSE "wait"
    /\ UNCHANGED <<serve, drain, endVars>>

(* finished.wait, or the return from a finish of its own; then _end. *)
MainEnds ==
    /\ \/ MainAt("wait") /\ Finished
       \/ MainAt("ending") /\ (ender = "main" => Finished)
    /\ main' = IF "exit" \in boot THEN "gone" ELSE "idle"
    /\ UNCHANGED <<serve, loop, drain, endVars>>

MainSteps ==
    \/ MainStages \/ MainHooks \/ MainBuilds
    \/ MainForks \/ MainStarts \/ MainSupervises \/ MainEnds

-----------------------------------------------------------------------------
(* on_term, in main's thread wherever main is; it ends in SystemExit. *)

TermGoes(from, to) ==
    /\ Alive /\ term = from /\ term' = to
    /\ UNCHANGED <<boot, stage, waiter, loop, askVars, drainVars, endVars, told>>

Sigterm == TermGoes("no", "serve") /\ UNCHANGED <<main, serve, work>>

TermStopsServe ==
    /\ TermGoes("serve", ThenWork)
    /\ serve.set => ~ServeLocked
    /\ StopServe
    /\ UNCHANGED <<main, work>>

TermStopsWork ==
    /\ TermGoes("work", "procs") /\ StopWork
    /\ UNCHANGED <<main, serve>>

TermLeaves ==
    /\ TermGoes("procs", "out") /\ main' = "gone"
    /\ UNCHANGED <<serve, work>>

TermSteps == TermStopsServe \/ TermStopsWork \/ TermLeaves

-----------------------------------------------------------------------------
(* app.serve. *)

ServeElse == UNCHANGED <<mainVars, work, loop, askVars, drainVars, told>>

ServeExits ==
    /\ Alive /\ serve.proc = "run"
    /\ \E p \in {"ok", "bad"} : serve' = [serve EXCEPT !.proc = p]
    /\ ServeElse /\ UNCHANGED <<waiter, endVars>>

ServeIgnoredAtEnd == Finished

ServeIgnored == serve.stopping \/ Finished

gone == [serve EXCEPT !.proc = "gone"]   \* its exit is seen to

(* Serve._wait, once its process has exited: is that still of interest? *)
ServeLooks ==
    /\ Alive /\ serve.proc \in {"ok", "bad"} /\ ~ServeLocked
    /\ IF ServeIgnored
       THEN serve' = gone /\ UNCHANGED waiter
       ELSE waiter' = TRUE /\ UNCHANGED serve
    /\ ServeElse /\ UNCHANGED endVars

(* The drain or park of the local state's snapshot. *)
DrainAsked == reply

(* A crash is restarted once. *)
MayRestart(child) == child.restarts < 1

(* Serve._wait goes on: a drain, the pod's end, or a restart, which may     *)
(* fail.                                                                    *)
ServeActs ==
    /\ Alive /\ waiter /\ waiter' = FALSE
    /\ \/ /\ serve.proc = "ok" /\ DrainAsked
          /\ serve' = [gone EXCEPT !.drained = TRUE] /\ UNCHANGED endVars
       \/ /\ serve.proc = "ok" /\ ~DrainAsked
          /\ serve' = gone /\ Finish("serve", "finished")
       \/ /\ serve.proc = "bad" /\ ~MayRestart(serve)
          /\ serve' = gone /\ Finish("serve", "app_serve")
       \/ /\ serve.proc = "bad" /\ MayRestart(serve)
          /\ serve' = [serve EXCEPT !.proc = "run", !.restarts = @ + 1]
          /\ UNCHANGED endVars
       \/ /\ serve.proc = "bad" /\ MayRestart(serve)
          /\ serve' = [gone EXCEPT !.restarts = @ + 1]
          /\ Finish("serve", "app_serve")
    /\ ServeElse

ServeSteps == ServeLooks \/ ServeActs

-----------------------------------------------------------------------------
(* A drain.  The heartbeat is quiet once the pod's end is decided           *)
(* (STOP_FILE), and while a ready pod's workload does not answer.           *)

DrainElse == UNCHANGED <<mainVars, waiter, work, loop, askVars, endVars, told>>

Reply(d) ==
    /\ Alive /\ result = "none"
    /\ main = "stages" \/ ~work.set \/ work.proc = "run"
    /\ reply' = d
    /\ drain' = IF d /\ drain = "on" THEN "go" ELSE drain
    /\ DrainElse /\ UNCHANGED serve

DrainBegins ==
    /\ Alive /\ drain = "go"
    /\ IF serve.set /\ ~serve.drained /\ ~serve.stopping
       THEN serve' = [serve EXCEPT !.drained = TRUE] /\ drain' = "stop"
       ELSE UNCHANGED serve /\ drain' = "over"
    /\ DrainElse /\ UNCHANGED reply

DrainStops ==
    /\ Alive /\ drain = "stop" /\ ~ServeLocked
    /\ StopServe /\ drain' = "over"
    /\ DrainElse /\ UNCHANGED reply

DrainSteps == DrainBegins \/ DrainStops

-----------------------------------------------------------------------------
(* The workload: its supervisor, and the restarts asked for. *)

WorkloadDies ==
    /\ Alive /\ work.proc = "run"
    /\ work' = [work EXCEPT !.proc = "dead"]
    /\ UNCHANGED <<mainVars, serveVars, loop, askVars, drainVars, endVars, told>>

LoopAt(at) ==
    /\ Alive /\ loop = at
    /\ UNCHANGED <<mainVars, serveVars, askVars, drainVars, told>>

(* ctx.fail, then return: the lock goes when finish comes back. *)
LoopFails ==
    /\ Finish("loop", "workload")
    /\ loop' = IF result = "none" THEN "end" ELSE "out"

LoopLooks ==
    /\ LoopAt("look")
    /\ \/ (work.stopping \/ Finished) /\ loop' = "out"
       \/ ~work.stopping /\ ~Finished /\ ~WorkLocked /\ loop' = "poll"
    /\ UNCHANGED <<work, endVars>>

(* The log's fatal strings, and the process. *)
LoopPolls ==
    /\ LoopAt("poll")
    /\ \/ LoopFails /\ UNCHANGED work
       \/ work.proc = "run" /\ loop' = "look" /\ UNCHANGED <<work, endVars>>
       \/ work.proc = "dead" /\ ~MayRestart(work) /\ LoopFails /\ UNCHANGED work
       \/ /\ work.proc = "dead" /\ MayRestart(work)
          /\ work' = [work EXCEPT !.restarts = @ + 1]
          /\ loop' = "start" /\ UNCHANGED endVars

(* An OSError of start is not caught: the supervisor dies of it. *)
LoopStarts ==
    /\ LoopAt("start")
    /\ \/ StartWork /\ loop' = "up"
       \/ loop' = "dead" /\ UNCHANGED work
    /\ UNCHANGED endVars

LoopUpReturns ==
    /\ LoopAt("up")
    /\ \/ work.proc = "run" /\ loop' = "out" /\ UNCHANGED endVars
       \/ LoopFails
    /\ UNCHANGED work

LoopUp ==
    /\ LoopAt("up")
    /\ \/ work.proc = "run" /\ loop' = "look" /\ UNCHANGED endVars
       \/ LoopFails
    /\ UNCHANGED work

LoopLeaves ==
    /\ LoopAt("end") /\ Finished /\ loop' = "out"
    /\ UNCHANGED <<work, endVars>>

LoopSteps == LoopLooks \/ LoopPolls \/ LoopStarts \/ LoopUp \/ LoopLeaves

(* A process of the pod that may use the local API. *)
Asking ==
    \/ "serve" \in Askers /\ serve.proc \in {"loose", "run"}
    \/ "workload" \in Askers /\ work.proc = "run"
    \/ "stage" \in Askers /\ stage = "run"

AskGoes(from, to) ==
    /\ Alive /\ ask = from /\ ask' = to
    /\ UNCHANGED <<mainVars, serveVars, loop, drainVars, told>>

(* POST /workload/restart, when there is a workload and the pod is not over. *)
AskRestart ==
    /\ Asking /\ asks < MaxAsks /\ work.set /\ ~Finished
    /\ AskGoes("no", "lock")
    /\ asks' = asks + 1 /\ UNCHANGED <<work, endVars>>

RestartLocks ==
    /\ ~WorkLocked
    /\ AskGoes("lock", IF work.stopping \/ Finished THEN "no" ELSE "stop")
    /\ UNCHANGED <<asks, work, endVars>>

RestartStops ==
    /\ AskGoes("stop", "start")
    /\ work' = [work EXCEPT !.proc = Stopped(@, "dead")]
    /\ UNCHANGED <<asks, endVars>>

RestartStarts ==
    /\ \/ AskGoes("start", "up") /\ StartWork
       \/ AskGoes("start", "no") /\ UNCHANGED work
    /\ UNCHANGED <<asks, endVars>>

(* It answers, or it does not come back, or its log says the host is bad. *)
RestartUp ==
    /\ \/ AskGoes("up", "no") /\ UNCHANGED endVars
       \/ /\ AskGoes("up", IF result = "none" THEN "end" ELSE "no")
          /\ Finish("restart", "workload")
    /\ UNCHANGED <<asks, work>>

RestartLeaves ==
    /\ Finished /\ AskGoes("end", "no")
    /\ UNCHANGED <<asks, work, endVars>>

AskSteps ==
    \/ RestartLocks \/ RestartStops \/ RestartStarts
    \/ RestartUp \/ RestartLeaves

-----------------------------------------------------------------------------
(* podh-report done: POST /done, whose thread is that of finish; and its own  *)
(* report when podh-boot has not answered within its 10 s.                  *)

ReportElse ==
    UNCHANGED <<mainVars, serveVars, work, loop, askVars, drainVars>>

ReportDone ==
    /\ Alive /\ Asking
    /\ Finish("done", "reported")
    /\ ReportElse /\ UNCHANGED told

(* podh-report runs inside a process that asks, and is stopped with it. *)
ReportDirect ==
    /\ ender = "done" /\ ~Finished /\ Asking
    /\ told' = told \cup {"report"}
    /\ ReportElse /\ UNCHANGED endVars

-----------------------------------------------------------------------------
Next ==
    \/ EndSteps \/ MainSteps \/ StageSteps \/ Sigterm \/ TermSteps
    \/ ServeExits \/ ServeSteps
    \/ (\E d \in BOOLEAN : Reply(d)) \/ DrainSteps
    \/ WorkloadDies \/ LoopSteps \/ AskRestart \/ AskSteps
    \/ ReportDone \/ ReportDirect

Spec == Init /\ [][Next]_vars

(* Every thread of podh-boot goes on: waits have limits, and a stage that   *)
(* does not end is given up.  Its children, pod-control and signals are     *)
(* under no fairness.                                                       *)
FairSpec ==
    /\ Spec
    /\ WF_vars(EndSteps) /\ WF_vars(MainSteps) /\ WF_vars(TermSteps)
    /\ WF_vars(ServeSteps) /\ WF_vars(DrainSteps) /\ WF_vars(LoopSteps)
    /\ WF_vars(AskSteps)

-----------------------------------------------------------------------------
Serves ==
    [set : BOOLEAN, proc : {"none", "loose", "run", "ok", "bad", "gone"},
     restarts : 0..1, stopping : BOOLEAN, drained : BOOLEAN, missed : BOOLEAN]

Works ==
    [set : BOOLEAN, proc : {"none", "run", "dead"},
     restarts : 0..1, stopping : BOOLEAN, strays : Nat]

Verdicts == {"stage", "finished", "app_serve", "workload", "reported"}

(* The variables' types; the crash restarts are at most one each. *)
TypeOK ==
    /\ boot \in Boots
    /\ main \in {"stages", "hook", "build", "start", "forked", "supervise",
                 "wait", "ending", "idle", "gone"}
    /\ term \in {"no", "serve", "work", "procs", "out"}
    /\ stage \in {"run", "start", "set", "up", "done", "failed"}
    /\ serve \in Serves /\ waiter \in BOOLEAN
    /\ work \in Works
    /\ loop \in {"off", "look", "poll", "start", "up", "end", "out", "dead"}
    /\ ask \in {"no", "lock", "stop", "start", "up", "end"}
    /\ asks \in 0..MaxAsks
    /\ reply \in BOOLEAN
    /\ drain \in {"off", "on", "go", "stop", "over"}
    /\ result \in Verdicts \cup {"none"}
    /\ ender \in {"nobody", "main", "serve", "loop", "restart", "done"}
    /\ end \in {"open", "logs", "tell", "serve", "work", "procs", "over"}
    /\ told \subseteq {"boot", "report"}

(* The pod's end is one end, in its order (core.py finish, cli.py _end). *)
EndPhase ==
    CASE end = "open" -> "open"
      [] end = "logs" -> "decided"
      [] end = "tell" -> "logged"
      [] end \in {"serve", "work", "procs"} -> "told"
      [] OTHER -> "over"

Process == IF Alive THEN "up" ELSE IF term = "out" THEN "killed" ELSE "left"

End == INSTANCE PodEnd WITH
    Verdicts <- Verdicts, NoVerdict <- "none",
    verdict <- result, phase <- EndPhase, process <- Process,
    watched <- (boot \cap {"workload", "serve"} # {})

EndsOnce == End!Spec

(* app.serve does not outlive the pod's end, nor podh-boot: none is started *)
(* or restarted by main, its waiter or a drain once finish or on_term has   *)
(* stopped it, whoever came first (serve.py 50-83, core.py 499-506).  But   *)
(* for a process that main had forked and not yet put in self.proc when the *)
(* last of them looked for one to stop (serve.py 45).                       *)
ServeEndsWithPod ==
    Finished \/ ~Alive => serve.proc \notin {"loose", "run"} \/ serve.missed

(* The supervisor's restart of a dead workload and a restart asked for on   *)
(* the local API never leave two of it on the GPU and the port (workload.py *)
(* 170-221).                                                                *)
OneWorkload == work.strays = 0

(* Once the pod's end is decided it is carried through and main comes back  *)
(* from its wait, unless a signal ends podh-boot: nobody waits for a lock   *)
(* its own finish holds (core.py 466-507, cli.py 244-246).                  *)
EndCompletes == result # "none" ~> main \in {"idle", "gone"}

(* A workload that died is started again or ends the pod (workload.py       *)
(* 170-196), unless the supervisor itself died of an OSError.               *)
WorkloadLossHeard ==
    loop # "off" /\ work.proc = "dead" ~>
        work.proc = "run" \/ result # "none" \/ loop = "dead" \/ ~Alive

(* An app.serve that was stopped, by a drain, the end or a signal, is not   *)
(* restarted by its waiter, which may have seen a crash just before         *)
(* (serve.py 50-92).                                                        *)
StoppedStaysStopped ==
    [][serve.stopping /\ serve.proc \in {"ok", "bad", "gone"}
          => serve'.proc # "run"]_vars

(* pod-control is told of the end only after its logs are uploaded: "BEFORE *)
(* done: done terminates the pod within seconds" (core.py 490-493).         *)
LogsBeforeDone == [][told' # told => end \notin {"open", "logs"}]_vars
=============================================================================
