------------------------------- MODULE Worker -------------------------------
(***************************************************************************)
(* podh-worker (src/pod_harness/worker/loop.py): one main thread claims,   *)
(* dispatches and watches; every claimed task has a beat thread, a prepare *)
(* thread and, once dispatched, an execute thread.  The threads share the  *)
(* dict of claimed tasks and each TaskRun's fields; pod-control, which     *)
(* leases the tasks, is external and may take a task back at any time.     *)
(*                                                                         *)
(* A TaskRun is named by its place in the order of claims, 1..claimed, so  *)
(* "the dict's insertion order" is the order of the numbers.  A step is    *)
(* what one thread does between two points where another thread's step     *)
(* can matter: a call to pod-control, a lock given up, a shared field      *)
(* read now and used later.                                                *)
(***************************************************************************)
EXTENDS Integers, FiniteSets

CONSTANTS
    Tasks,       \* pod-control's tasks (their ids)
    NoTask,      \* the id of a TaskRun that does not exist yet
    Capacity,    \* --capacity: how many execute at once
    Prefetch,    \* --prefetch: how many more are held
    OnceModes,   \* --once, one task and then exit: given, not given, or either
    MaxClaims,   \* bound: TaskRuns made in a behaviour
    Served,      \* tasks whose kind has a handler here
    NeedModels,  \* tasks that are held, or with models missing on this pod
    Timed,       \* tasks that carry a timeout_s
    Hangs,       \* tasks whose handler may never return, whatever it is told
    FallbackApp, \* tasks that say fallback: "app"
    Revocable,   \* bound: tasks pod-control may take back or cancel
    Rehand       \* may pod-control hand this pod a task it had before?

ASSUME WorkerConstants ==
    /\ IsFiniteSet(Tasks)
    /\ NoTask \notin Tasks
    /\ Capacity \in Nat \ {0}
    /\ Prefetch \in Nat
    /\ MaxClaims \in Nat
    /\ OnceModes \subseteq BOOLEAN
    /\ Rehand \in BOOLEAN
    /\ Served \subseteq Tasks /\ NeedModels \subseteq Tasks
    /\ Timed \subseteq Tasks /\ Hangs \subseteq Tasks /\ FallbackApp \subseteq Tasks
    /\ Revocable \subseteq Tasks

Claims == 1..MaxClaims

VARIABLES
    mpc,       \* where the main thread is in run()
    todo,      \* the TaskRuns its for loop has still to visit
    want,      \* tasks it will ask pod-control for
    active,    \* _dispatch's count of started tasks
    overdue,   \* _watch: TaskRuns whose grace is over by the clock it read
    handed,    \* ids of a claim's reply not added yet
    once,      \* --once was given
    draining, broken,
    claimed,   \* claimed_total
    tasks,     \* the dict self.tasks, as the TaskRuns it holds
    taskOf,    \* TaskRun.id
    started, closed, ready,
    stop,      \* ctx.stop_reason
    stopAt,    \* stop_at: unset, set, or more than 2*interrupt_grace+10 s ago
    late,      \* TaskRuns that have run longer than their timeout_s
    beat, prep, exec,  \* where each TaskRun's three threads are
    final,     \* the TaskRun's done or release call to pod-control
    srv        \* pod-control: where each task is

mainVars == <<mpc, todo, want, active, overdue, handed>>
runVars  == <<started, closed, ready, stop, stopAt, late>>
threads  == <<beat, prep, exec>>
poolVars == <<once, draining, broken, claimed, tasks, taskOf>>
taskVars == <<runVars, threads, final, srv>>
restVars == <<poolVars, taskVars>>
vars == <<mainVars, restVars>>

(* The handler's own code: inputs and prepare and run, or hung in them, or  *)
(* finish with its uploads.                                                 *)
Handling == {"handler", "hung", "finish"}

Dead == mpc = "dead"

(* pod-control's view of a task: waiting for a pod, leased to this one,     *)
(* cancelled, or gone (ended, or another pod's).                            *)
ServerStates == {"queued", "here", "cancelled", "gone"}

Least(S) == CHOOSE n \in S : \A m \in S : n <= m

NotPopped(n) == tasks

(* What the dict holds after `tasks.pop(t.id)`: the id's entry goes,        *)
(* whichever TaskRun it is.                                                 *)
Popped(n) == {m \in tasks : taskOf[m] # taskOf[n]}

(* ctx.stop keeps the first reason. *)
Reason(n, why) == IF stop[n] = "none" THEN why ELSE stop[n]

NeverDated(n) == stopAt[n]

(* stop_at, written when it is still None. *)
SetOnce(n) == IF stopAt[n] = "unset" THEN "set" ELSE stopAt[n]

Init ==
    /\ mpc = "poll" /\ todo = {} /\ want = 0 /\ active = 0 /\ handed = {}
    /\ overdue = {} /\ once \in OnceModes
    /\ draining = FALSE /\ broken = FALSE /\ claimed = 0 /\ tasks = {}
    /\ taskOf = [n \in Claims |-> NoTask]
    /\ started = [n \in Claims |-> FALSE]
    /\ closed = [n \in Claims |-> FALSE]
    /\ ready = [n \in Claims |-> FALSE]
    /\ stop = [n \in Claims |-> "none"]
    /\ stopAt = [n \in Claims |-> "unset"]
    /\ late = {}
    /\ beat = [n \in Claims |-> "off"]
    /\ prep = [n \in Claims |-> "off"]
    /\ exec = [n \in Claims |-> "off"]
    /\ final = [n \in Claims |-> "no"]
    /\ srv = [t \in Tasks |-> "queued"]

-----------------------------------------------------------------------------
(* The calls that end a task. *)

(* _release, up to its call: the test-and-set of closed under t.lock, then  *)
(* api.release on its way.  Only the thread that closed the task makes it.  *)
CloseToRelease(n) ==
    /\ ~closed[n]
    /\ closed' = [closed EXCEPT ![n] = TRUE]
    /\ final' = [final EXCEPT ![n] = "release"]

CloseToReportBlind(n, outcome) ==
    /\ closed' = [closed EXCEPT ![n] = TRUE]
    /\ final' = [final EXCEPT ![n] =
            IF outcome = "failed" /\ taskOf[n] \in FallbackApp
            THEN "release" ELSE "done"]

(* _report, up to its call: the same test-and-set; a failure of a task that *)
(* says fallback "app" is a release, anything else a done.                  *)
CloseToReport(n, outcome) ==
    /\ ~closed[n]
    /\ closed' = [closed EXCEPT ![n] = TRUE]
    /\ final' = [final EXCEPT ![n] =
            IF outcome = "failed" /\ taskOf[n] \in FallbackApp
            THEN "release" ELSE "done"]

(* Where pod-control puts a task this pod gave back or lost. *)
Requeued == IF Rehand THEN "queued" ELSE "gone"

(* The call is answered, or its attempts are used up.  A done that arrives  *)
(* in time ends the task; a release gives it back, and so, in the end, does *)
(* a lease that no call ever ended.                                         *)
FinalAnswered(n) ==
    /\ ~Dead
    /\ final[n] \in {"release", "done"}
    /\ final' = [final EXCEPT ![n] = "told"]
    /\ IF srv[taskOf[n]] = "here"
       THEN \E to \in {Requeued} \cup (IF final[n] = "done" THEN {"gone"} ELSE {}) :
                srv' = [srv EXCEPT ![taskOf[n]] = to]
       ELSE UNCHANGED srv
    /\ UNCHANGED <<mainVars, poolVars, runVars, threads>>

-----------------------------------------------------------------------------
(* The main thread: Worker.run. *)

(* _dispatch begins: the runs and the number of started ones, as they are   *)
(* now.  The steps that lead here touch nothing shared after reading tasks. *)
ToDispatch ==
    /\ todo' = tasks
    /\ active' = Cardinality({n \in tasks : started[n]})
    /\ mpc' = "dispatch"

ToExit == mpc' = "exit" /\ UNCHANGED <<todo, active, overdue>>

IdleAtOnce == TRUE

(* Nothing is claimed any more: run() may end. *)
Idle == tasks = {}

(* A SIGTERM, wherever the main thread is, or podh-boot's local state says   *)
(* drain or park, which it looks at here; either stays seen.                *)
HearDrain ==
    /\ ~Dead /\ ~draining
    /\ draining' = TRUE
    /\ UNCHANGED <<once, mainVars, broken, claimed, tasks, taskOf, taskVars>>

PollDrain ==
    /\ mpc = "poll" /\ (draining \/ broken)
    /\ mpc' = "drain" /\ todo' = tasks
    /\ UNCHANGED <<want, active, overdue, handed, restVars>>

(* --once, and its one task was claimed: exit when it has gone. *)
PollOnce ==
    /\ mpc = "poll" /\ ~draining /\ ~broken /\ once /\ claimed >= 1
    /\ IF Idle THEN ToExit ELSE ToDispatch
    /\ UNCHANGED <<want, overdue, handed, restVars>>

(* How many tasks to ask pod-control for. *)
Free == IF once THEN 1 - claimed ELSE Capacity + Prefetch - Cardinality(tasks)

PollClaim ==
    /\ mpc = "poll" /\ ~draining /\ ~broken /\ ~(once /\ claimed >= 1)
    /\ want' = Free
    /\ mpc' = "claim"
    /\ UNCHANGED <<todo, active, overdue, handed, restVars>>

MayReleaseStarted(n) == ~closed[n]

(* What a drain gives back; _release looks at closed itself. *)
MayRelease(n) == ~started[n] /\ ~closed[n]

(* While draining or broken: each TaskRun that has not started is released. *)
DrainVisit ==
    /\ mpc = "drain" /\ todo # {}
    /\ LET n == Least(todo) IN
         \/ /\ ~MayRelease(n)
            /\ todo' = todo \ {n}
            /\ UNCHANGED <<mpc, closed, final>>
         \/ /\ MayRelease(n)
            /\ CloseToRelease(n)
            /\ mpc' = "drainsend"
            /\ UNCHANGED todo
    /\ UNCHANGED <<want, active, overdue, handed, poolVars, started, ready,
                   stop, stopAt, late, threads, srv>>

DrainClose ==
    /\ mpc = "drainsend" /\ final[Least(todo)] = "told"
    /\ tasks' = Popped(Least(todo))
    /\ todo' = todo \ {Least(todo)}
    /\ mpc' = "drain"
    /\ UNCHANGED <<once, want, active, overdue, handed, draining, broken, claimed,
                   taskOf, taskVars>>

DrainDone ==
    /\ mpc = "drain" /\ todo = {}
    /\ IF Idle THEN ToExit ELSE ToDispatch
    /\ UNCHANGED <<want, overdue, handed, restVars>>

(* No place free, too early to ask again, or an answer that is no 200. *)
ClaimNothing ==
    /\ mpc = "claim"
    /\ ToDispatch /\ want' = 0
    /\ UNCHANGED <<overdue, handed, restVars>>

(* pod-control leases at most `want` queued tasks to this pod, and may say  *)
(* in the same reply that the pod is draining.                              *)
ClaimReply ==
    /\ mpc = "claim" /\ want > 0
    /\ \E S \in SUBSET {t \in Tasks : srv[t] = "queued"} :
         /\ Cardinality(S) <= want
         /\ claimed + Cardinality(S) <= MaxClaims
         /\ handed' = S
         /\ srv' = [t \in Tasks |-> IF t \in S THEN "here" ELSE srv[t]]
    /\ \E d \in BOOLEAN : draining' = (draining \/ d)
    /\ mpc' = "add" /\ want' = 0
    /\ UNCHANGED <<once, todo, active, overdue, broken, claimed, tasks, taskOf,
                   runVars, threads, final>>

NewTaskRun(t) ==
    /\ claimed' = claimed + 1
    /\ tasks' = tasks \cup {claimed + 1}
    /\ taskOf' = [taskOf EXCEPT ![claimed + 1] = t]
    /\ beat' = [beat EXCEPT ![claimed + 1] = "wait"]
    /\ prep' = [prep EXCEPT ![claimed + 1] = "prep"]

(* One task of the reply: passed over when the dict still has its id, else  *)
(* a TaskRun with its beat and prepare threads.                             *)
AddTask(t) ==
    /\ mpc = "add" /\ t \in handed
    /\ handed' = handed \ {t}
    /\ \/ /\ \E m \in tasks : taskOf[m] = t
          /\ UNCHANGED <<claimed, tasks, taskOf, beat, prep>>
       \/ /\ \A m \in tasks : taskOf[m] # t
          /\ NewTaskRun(t)
    /\ UNCHANGED <<once, mpc, todo, want, active, overdue, draining, broken,
                   runVars, exec, final, srv>>

AddDone ==
    /\ mpc = "add" /\ handed = {}
    /\ ToDispatch
    /\ UNCHANGED <<want, overdue, handed, restVars>>

MayDispatchOneMore == todo # {} /\ active <= Capacity /\ ~draining /\ ~broken

MayDispatch == todo # {} /\ active < Capacity /\ ~draining /\ ~broken

Dispatchable(n) == ~started[n] /\ ~closed[n] /\ ready[n]

(* ... and each in turn is started while a place is free. *)
DispatchVisit ==
    /\ mpc = "dispatch" /\ MayDispatch
    /\ LET n == Least(todo) IN
         /\ todo' = todo \ {n}
         /\ \/ /\ Dispatchable(n)
               /\ started' = [started EXCEPT ![n] = TRUE]
               /\ exec' = [exec EXCEPT ![n] = "start"]
               /\ active' = active + 1
            \/ /\ ~Dispatchable(n)
               /\ UNCHANGED <<started, exec, active>>
    /\ UNCHANGED <<mpc, want, overdue, handed, poolVars, closed, ready, stop,
                   stopAt, late, beat, prep, final, srv>>

(* _watch begins with the clock and a snapshot; after it, the next round.   *)
ToWatch(S) ==
    /\ todo' = S
    /\ overdue' = {n \in S : stopAt[n] = "past"}
    /\ mpc' = IF S = {} THEN "poll" ELSE "watch"

WatchNext ==
    LET rest == todo \ {Least(todo)} IN
    /\ todo' = rest
    /\ overdue' = overdue \cap rest
    /\ mpc' = IF rest = {} THEN "poll" ELSE "watch"

(* _dispatch's loop ends or breaks. *)
DispatchDone ==
    /\ mpc = "dispatch" /\ ~MayDispatch
    /\ active' = 0
    /\ ToWatch({n \in tasks : started[n] /\ ~closed[n]})
    /\ UNCHANGED <<want, handed, restVars>>

(* _watch: a run past its timeout_s is stopped; a stop is dated. *)
WatchVisit ==
    /\ mpc = "watch"
    /\ LET n == Least(todo)
           r == IF n \in late THEN Reason(n, "timeout") ELSE stop[n]
       IN /\ n \notin overdue
          /\ stop' = [stop EXCEPT ![n] = r]
          /\ stopAt' = [stopAt EXCEPT ![n] = IF r # "none" THEN SetOnce(n) ELSE @]
          /\ WatchNext
    /\ UNCHANGED <<want, active, handed, poolVars, started, closed, ready,
                   late, threads, final, srv>>

(* _watch: the handler did not stop in time.  The workload is restarted and *)
(* the main thread reports for it, unless the task was closed since the     *)
(* snapshot; either way the worker is broken and the task leaves the dict.  *)
WatchGiveUp ==
    /\ mpc = "watch"
    /\ LET n == Least(todo) IN
         /\ n \in overdue
         /\ \/ /\ CloseToReport(n, IF stop[n] = "timeout" THEN "failed"
                                                          ELSE "cancelled")
               /\ mpc' = "giveup"
               /\ UNCHANGED <<todo, overdue, broken, tasks>>
            \/ /\ closed[n]
               /\ broken' = TRUE
               /\ tasks' = Popped(n)
               /\ WatchNext
               /\ UNCHANGED <<closed, final>>
    /\ UNCHANGED <<once, want, active, handed, draining, claimed, taskOf, started,
                   ready, stop, stopAt, late, threads, srv>>

GiveUpClose ==
    /\ mpc = "giveup" /\ final[Least(todo)] = "told"
    /\ broken' = TRUE
    /\ tasks' = Popped(Least(todo))
    /\ WatchNext
    /\ UNCHANGED <<once, want, active, handed, draining, claimed, taskOf, taskVars>>

(* run() returned: threads are joined for at most 5 s each, then the        *)
(* process ends and its daemon threads with it.                             *)
Exit ==
    /\ mpc = "exit"
    /\ mpc' = "dead"
    /\ UNCHANGED <<todo, want, active, overdue, handed, restVars>>

-----------------------------------------------------------------------------
(* The beat thread: _beat. *)

(* A beat that pod-control answers with "not yours any more"; one that is   *)
(* answered "go on", or not at all, changes nothing here: the one stop it   *)
(* could find undated is what HandlerHears heard, and BeatHear dates that.  *)
BeatAsk(n) ==
    /\ ~Dead /\ beat[n] = "wait" /\ ~closed[n]
    /\ srv[taskOf[n]] # "here"
    /\ beat' = [beat EXCEPT ![n] =
            IF srv[taskOf[n]] = "cancelled" THEN "cancelled" ELSE "lost"]
    /\ UNCHANGED <<mainVars, poolVars, runVars, prep, exec, final, srv>>

(* The reply is handled: ctx.stop first, then the look at t.started. *)
BeatHear(n) ==
    /\ ~Dead /\ beat[n] \in {"lost", "cancelled"}
    /\ stop' = [stop EXCEPT ![n] = Reason(n, beat[n])]
    /\ \/ /\ started[n]
          /\ beat' = [beat EXCEPT ![n] = "wait"]
          /\ stopAt' = [stopAt EXCEPT ![n] = SetOnce(n)]
       \/ /\ ~started[n]
          /\ beat' = [beat EXCEPT ![n] = "drop"]
          /\ UNCHANGED stopAt
    /\ UNCHANGED <<mainVars, poolVars, started, closed, ready, late, prep,
                   exec, final, srv>>

(* _drop, on what t.started was: closed whatever it was, and popped. *)
BeatDrop(n) ==
    /\ ~Dead /\ beat[n] = "drop"
    /\ closed' = [closed EXCEPT ![n] = TRUE]
    /\ tasks' = Popped(n)
    /\ stopAt' = [stopAt EXCEPT ![n] = SetOnce(n)]
    /\ beat' = [beat EXCEPT ![n] = "wait"]
    /\ UNCHANGED <<once, mainVars, draining, broken, claimed, taskOf, started,
                   ready, stop, late, prep, exec, final, srv>>

-----------------------------------------------------------------------------
(* The prepare thread: _prep and _models. *)

PrepReady(n) ==
    /\ ready' = [ready EXCEPT ![n] = TRUE]
    /\ prep' = [prep EXCEPT ![n] = "end"]
    /\ UNCHANGED <<closed, final>>

(* _release in this thread: nothing when the task is already closed. *)
PrepRelease(n) ==
    /\ \/ /\ CloseToRelease(n)
          /\ prep' = [prep EXCEPT ![n] = "release"]
       \/ /\ closed[n]
          /\ prep' = [prep EXCEPT ![n] = "end"]
          /\ UNCHANGED <<closed, final>>
    /\ UNCHANGED ready

PrepLook(n) ==
    /\ ~Dead /\ prep[n] = "prep"
    /\ \/ /\ taskOf[n] \notin Served
          /\ PrepRelease(n)
       \/ /\ taskOf[n] \in Served \ NeedModels
          /\ PrepReady(n)
       \/ /\ taskOf[n] \in Served \cap NeedModels
          /\ prep' = [prep EXCEPT ![n] = "models"]
          /\ UNCHANGED <<closed, final, ready>>
    /\ UNCHANGED <<mainVars, poolVars, started, stop, stopAt, late, beat,
                   exec, srv>>

(* The models are present, or failed, or not there in time, or the wait     *)
(* crashed; a task stopped or closed meanwhile is left as it is.            *)
PrepModels(n) ==
    /\ ~Dead /\ prep[n] = "models"
    /\ \/ /\ closed[n] \/ stop[n] # "none"
          /\ prep' = [prep EXCEPT ![n] = "end"]
          /\ UNCHANGED <<closed, final, ready>>
       \/ /\ ~closed[n] /\ stop[n] = "none"
          /\ PrepReady(n) \/ PrepRelease(n)
    /\ UNCHANGED <<mainVars, poolVars, started, stop, stopAt, late, beat,
                   exec, srv>>

PrepClose(n) ==
    /\ ~Dead /\ prep[n] = "release" /\ final[n] = "told"
    /\ prep' = [prep EXCEPT ![n] = "end"]
    /\ tasks' = Popped(n)
    /\ UNCHANGED <<once, mainVars, draining, broken, claimed, taskOf, runVars,
                   beat, exec, final, srv>>

-----------------------------------------------------------------------------
(* The execute thread: _execute. *)

(* It goes on with the task. *)
ExecTo(n, where) ==
    /\ exec' = [exec EXCEPT ![n] = where]
    /\ UNCHANGED <<closed, final, tasks, stop>>

(* _close alone, the lease being lost. *)
ExecQuit(n) ==
    /\ exec' = [exec EXCEPT ![n] = "end"]
    /\ closed' = [closed EXCEPT ![n] = TRUE]
    /\ tasks' = Popped(n)
    /\ UNCHANGED <<final, stop>>

(* _report, then _close: when the task was closed already _report says      *)
(* nothing and _close follows at once.                                      *)
ExecReport(n, outcome) ==
    \/ /\ CloseToReport(n, outcome)
       /\ exec' = [exec EXCEPT ![n] = "report"]
       /\ UNCHANGED tasks
    \/ /\ closed[n]
       /\ exec' = [exec EXCEPT ![n] = "end"]
       /\ tasks' = Popped(n)
       /\ UNCHANGED <<closed, final>>

(* `except Cancelled`: a lost lease ends in silence, else it is reported.   *)
(* ComfyUI may say it was interrupted with no stop asked for here.          *)
ExecCancelled(n) ==
    \/ /\ stop[n] = "lost" /\ ExecQuit(n)
    \/ /\ stop[n] # "lost"
       /\ ExecReport(n, "cancelled")
       /\ stop' = [stop EXCEPT ![n] = Reason(n, "cancelled")]

(* The reason is a failure, whatever ctx.stop_reason says. *)
ExecFailed(n) == ExecReport(n, "failed") /\ UNCHANGED stop

(* ctx.check, going on to `where` when nothing asks for a stop. *)
ExecCheck(n, where) ==
    \/ stop[n] = "none" /\ ExecTo(n, where)
    \/ stop[n] \in {"cancelled", "lost"} /\ ExecCancelled(n)
    \/ stop[n] = "timeout" /\ ExecFailed(n)

execElse == <<once, mainVars, draining, broken, claimed, taskOf, started, ready,
              stopAt, late, beat, prep>>

(* api.start: a 2xx, "not yours", or nothing after its attempts. *)
ExecStart(n) ==
    /\ ~Dead /\ exec[n] = "start"
    /\ \/ /\ srv[taskOf[n]] = "here"
          /\ ExecTo(n, "check")
       \/ /\ srv[taskOf[n]] # "here"
          /\ exec' = [exec EXCEPT ![n] = "end"]
          /\ closed' = [closed EXCEPT ![n] = TRUE]
          /\ tasks' = Popped(n)
          /\ stop' = [stop EXCEPT ![n] = Reason(n, "lost")]
          /\ UNCHANGED final
       \/ /\ CloseToRelease(n)
          /\ exec' = [exec EXCEPT ![n] = "report"]
          /\ UNCHANGED <<tasks, stop>>
       \/ /\ closed[n]
          /\ ExecTo(n, "end")
    /\ UNCHANGED <<execElse, srv>>

(* The check between api.start and the handler. *)
ExecBegin(n) ==
    /\ ~Dead /\ exec[n] = "check"
    /\ ExecCheck(n, "handler")
    /\ UNCHANGED <<execElse, srv>>

(* The handler's own calls (event, artifact, outputs) hear that the task    *)
(* is no longer running here.                                               *)
HandlerHears(n) ==
    /\ ~Dead /\ exec[n] \in {"handler", "finish"} /\ stop[n] = "none"
    /\ srv[taskOf[n]] # "here"
    /\ stop' = [stop EXCEPT ![n] =
            IF srv[taskOf[n]] = "cancelled" THEN "cancelled" ELSE "lost"]
    /\ UNCHANGED <<execElse, closed, exec, tasks, final, srv>>

(* inputs, prepare and run returned; a check precedes finish. *)
HandlerReturns(n) ==
    /\ ~Dead /\ exec[n] = "handler"
    /\ ExecCheck(n, "finish")
    /\ UNCHANGED <<execElse, srv>>

(* It raised Cancelled: on its own check, or as ComfyUI was interrupted. *)
HandlerCancelled(n) ==
    /\ ~Dead /\ exec[n] \in {"handler", "finish"}
    /\ ExecCancelled(n)
    /\ UNCHANGED <<execElse, srv>>

(* It raised anything else: TaskFailed, ComfyError, any exception. *)
HandlerFails(n) ==
    /\ ~Dead /\ exec[n] \in {"handler", "finish"}
    /\ ExecFailed(n)
    /\ UNCHANGED <<execElse, srv>>

HandlerHangs(n) ==
    /\ ~Dead /\ exec[n] = "handler" /\ taskOf[n] \in Hangs
    /\ ExecTo(n, "hung")
    /\ UNCHANGED <<execElse, srv>>

(* finish returned: reported ok, with no further check. *)
FinishReturns(n) ==
    /\ ~Dead /\ exec[n] = "finish"
    /\ ExecReport(n, "ok")
    /\ UNCHANGED <<execElse, stop, srv>>

ExecClose(n) ==
    /\ ~Dead /\ exec[n] = "report" /\ final[n] = "told"
    /\ exec' = [exec EXCEPT ![n] = "end"]
    /\ tasks' = Popped(n)
    /\ UNCHANGED <<execElse, closed, stop, final, srv>>

-----------------------------------------------------------------------------
(* Time, and pod-control on its own account. *)

TimeoutPasses(n) ==
    /\ ~Dead /\ started[n] /\ ~closed[n] /\ taskOf[n] \in Timed
    /\ stop[n] = "none" /\ n \notin late
    /\ late' = late \cup {n}
    /\ UNCHANGED <<mainVars, poolVars, started, closed, ready, stop, stopAt,
                   threads, final, srv>>

GracePasses(n) ==
    /\ ~Dead /\ stopAt[n] = "set" /\ exec[n] \notin {"off", "end"}
    /\ stopAt' = [stopAt EXCEPT ![n] = "past"]
    /\ UNCHANGED <<mainVars, poolVars, started, closed, ready, stop, late,
                   threads, final, srv>>

(* A TaskRun of the task is open.  What pod-control does with a task that   *)
(* no open TaskRun beats for matters here only if it may hand it out again. *)
Heard(t) == \E n \in 1..claimed : taskOf[n] = t /\ ~closed[n]

(* The lease ran out, or someone requeued the task. *)
LeaseLost(t) ==
    /\ ~Dead /\ t \in Revocable /\ srv[t] = "here" /\ (Heard(t) \/ Rehand)
    /\ srv' = [srv EXCEPT ![t] = Requeued]
    /\ UNCHANGED <<mainVars, poolVars, runVars, threads, final>>

TaskCancelled(t) ==
    /\ ~Dead /\ t \in Revocable /\ srv[t] = "here" /\ (Heard(t) \/ Rehand)
    /\ srv' = [srv EXCEPT ![t] = "cancelled"]
    /\ UNCHANGED <<mainVars, poolVars, runVars, threads, final>>

-----------------------------------------------------------------------------
Main ==
    \/ PollDrain \/ PollOnce \/ PollClaim
    \/ DrainVisit \/ DrainClose \/ DrainDone
    \/ ClaimNothing \/ ClaimReply \/ (\E t \in Tasks : AddTask(t)) \/ AddDone
    \/ DispatchVisit \/ DispatchDone
    \/ WatchVisit \/ WatchGiveUp \/ GiveUpClose
    \/ Exit

Beat(n) == BeatHear(n) \/ BeatDrop(n)

Prep(n) == PrepLook(n) \/ PrepModels(n) \/ PrepClose(n)

(* What the execute thread does unless its handler hangs. *)
Execute(n) ==
    \/ ExecStart(n) \/ ExecBegin(n)
    \/ HandlerReturns(n) \/ HandlerCancelled(n) \/ HandlerFails(n)
    \/ FinishReturns(n) \/ ExecClose(n)

(* What comes to an end by itself: a call's attempts, a timeout, a grace.   *)
(* Each does so at most once for a TaskRun.                                 *)
Ends(n) == FinalAnswered(n) \/ TimeoutPasses(n) \/ GracePasses(n)

Next ==
    \/ Main
    \/ HearDrain
    \/ \E n \in 1..claimed :
         \/ Beat(n) \/ BeatAsk(n)
         \/ Prep(n)
         \/ Execute(n) \/ HandlerHears(n) \/ HandlerHangs(n)
         \/ Ends(n)
    \/ \E t \in Tasks : LeaseLost(t) \/ TaskCancelled(t)

Spec == Init /\ [][Next]_vars

(* Threads are scheduled, calls time out and the clock runs; pod-control    *)
(* and the app owe nothing, and a handler that hangs never returns.         *)
Fairness ==
    /\ WF_vars(Main)
    /\ \A n \in Claims :
         /\ WF_vars(Beat(n)) /\ WF_vars(Prep(n)) /\ WF_vars(Execute(n))
         /\ WF_vars(Ends(n))

FairSpec == Spec /\ Fairness

-----------------------------------------------------------------------------
(* Properties.                                                              *)

PoolTypeOK ==
    /\ mpc \in {"poll", "drain", "drainsend", "claim", "add", "dispatch", "watch",
               "giveup", "exit", "dead"}
    /\ want \in Int /\ active \in Nat
    /\ once \in BOOLEAN /\ draining \in BOOLEAN /\ broken \in BOOLEAN
    /\ handed \subseteq Tasks
    /\ claimed \in Nat /\ claimed + Cardinality(handed) <= MaxClaims
    /\ tasks \subseteq 1..claimed /\ late \subseteq 1..claimed
    /\ todo \subseteq 1..claimed /\ overdue \subseteq todo
    /\ mpc \in {"drainsend", "watch", "giveup"} => todo # {}
    /\ mpc \notin {"watch", "giveup"} => overdue = {}

RunTypeOK ==
    /\ taskOf \in [Claims -> Tasks \cup {NoTask}]
    /\ \A n \in Claims : taskOf[n] = NoTask <=> n > claimed
    /\ started \in [Claims -> BOOLEAN]
    /\ closed \in [Claims -> BOOLEAN]
    /\ ready \in [Claims -> BOOLEAN]
    /\ stop \in [Claims -> {"none", "lost", "cancelled", "timeout"}]
    /\ stopAt \in [Claims -> {"unset", "set", "past"}]
    /\ beat \in [Claims -> {"off", "wait", "lost", "cancelled", "drop"}]
    /\ prep \in [Claims -> {"off", "prep", "models", "release", "end"}]
    /\ exec \in [Claims -> Handling \cup {"off", "start", "check", "report", "end"}]
    /\ final \in [Claims -> {"no", "release", "done", "told"}]
    /\ srv \in [Tasks -> ServerStates]

(* Every variable has its type; the counts stay within what the options     *)
(* allow.                                                                   *)
TypeOK == PoolTypeOK /\ RunTypeOK

(* "At most `capacity` execute at once" (loop.py's header): however the     *)
(* beats' drops, the give-ups and the dispatches interleave, no more than   *)
(* Capacity handlers are running, including those of tasks already closed.  *)
HandlersWithinCapacity ==
    Cardinality({n \in Claims : exec[n] \in Handling}) <= Capacity

(* Why HandlersWithinCapacity is kept, when pod-control hands a task to this *)
(* pod once only: what occupies a place is a started run that is still in   *)
(* the dict, or whose handler is running.                                   *)
Occupied == {n \in Claims : started[n] /\ (n \in tasks \/ exec[n] \in Handling)}

(* An id names one TaskRun. *)
OneRunPerId ==
    /\ \A t \in Tasks : srv[t] = "queued" =>
            t \notin handed /\ \A n \in Claims : taskOf[n] # t
    /\ \A t \in handed : \A n \in Claims : taskOf[n] # t
    /\ \A m, n \in 1..claimed : taskOf[m] = taskOf[n] => m = n

(* How far each thread can be, given the others'. *)
ThreadsAgree ==
    /\ \A n \in Claims :
         /\ n > claimed => beat[n] = "off" /\ prep[n] = "off" /\ ~ready[n]
         /\ started[n] <=> exec[n] # "off"
         /\ started[n] => ready[n]
         /\ ready[n] => prep[n] = "end"
         /\ beat[n] = "drop" => stop[n] # "none" /\ exec[n] \notin Handling
         /\ stopAt[n] # "unset" \/ n \in overdue => stop[n] # "none"
    /\ mpc = "drainsend" => ~started[Least(todo)]
    /\ mpc = "giveup" => Least(todo) \in overdue

(* A claim outside the dict is closed; a started one does not get to its    *)
(* handler any more, and is in it only when the worker has broken.          *)
OutsideIsOver ==
    \A n \in 1..claimed :
        n \notin tasks =>
            /\ closed[n]
            /\ started[n] => stop[n] # "none" \/ exec[n] \in {"report", "end"}
            /\ exec[n] \in Handling => broken

(* The places taken never exceed what _dispatch counted, nor the capacity.  *)
CapacityInv ==
    /\ OneRunPerId
    /\ ThreadsAgree
    /\ OutsideIsOver
    /\ Cardinality(Occupied) <= Capacity
    /\ mpc = "dispatch" /\ ~broken => Cardinality(Occupied) <= active

(* A handler runs for a closed task only when _watch gave it up: neither    *)
(* a drop that races the dispatch, nor a release, leaves a handler working  *)
(* on a task this pod has given back.                                       *)
OnlyGiveUpAbandons ==
    \A n \in Claims :
        exec[n] \in Handling /\ closed[n] => broken \/ mpc = "giveup"

(* run() returns only when nothing this worker claimed is still open: each  *)
(* was reported, released or dropped, and no handler runs unless given up.  *)
ExitQuiet ==
    mpc \in {"exit", "dead"} =>
        \A n \in 1..claimed :
            closed[n] /\ (exec[n] \in Handling => broken)

(* A claimed task ends, reported, released or dropped, though models fail,  *)
(* leases go, and handlers hang: those with a timeout_s are given up.       *)
ClaimedEnds == \A n \in Claims : n <= claimed ~> (n <= claimed /\ closed[n])

(* A drain ends: the worker stops claiming, lets what runs finish, exits;   *)
(* and a --once worker exits after its task, however that one ends.         *)
WorkerExits == (draining \/ (once /\ claimed >= 1)) ~> Dead
=============================================================================
