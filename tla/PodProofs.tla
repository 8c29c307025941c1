----------------------------- MODULE PodProofs -----------------------------
(***************************************************************************)
(* Of a pod's life (Pod.tla): it is typed and never runs two workloads,    *)
(* for any boot specs, askers and bound; and, when only app.serve uses the *)
(* local API, its end is PodEnd's and app.serve does not outlive it.       *)
(***************************************************************************)
EXTENDS Pod, TLAPS

(* What OneWorkload rests on: before ctx.workload is set nobody restarts    *)
(* it; from there on who starts it has the lock, and has seen it dead.      *)
WorkInv ==
    /\ work.strays = 0
    /\ stage \in {"run", "start"} => ~work.set /\ work.proc = "none"
    /\ ~work.set => loop = "off" /\ ask = "no"
    /\ loop = "start" => work.proc = "dead"
    /\ ask = "start" => work.proc # "run"
    /\ ~(/\ ask \in {"stop", "start", "up", "end"}
         /\ loop \in {"poll", "start", "up", "end"})

(* Where main is and what has come about by then: until app.serve runs and  *)
(* the workload has its supervisor nobody but main can end the pod.         *)
Quiet == loop = "off" /\ ask = "no" /\ serve.proc = "none" /\ ~waiter

Early ==
    \/ main \in {"stages", "hook", "build", "start"}
    \/ main = "supervise" /\ ~serve.set

MainInv ==
    /\ Early \/ main = "ending" => Quiet
    /\ Early => result = "none"
    /\ main = "ending" => ender = "main"
    /\ stage \in {"up", "done"} /\ "workload" \in boot => work.set
    /\ main \in {"hook", "build", "start", "supervise"} => stage = "done"
    /\ main = "supervise" /\ "serve" \in boot => serve.set
    /\ main = "start" => serve.set
    /\ main = "forked" => serve.proc = "loose" /\ stage = "done"
    /\ serve.proc = "loose" => main \in {"forked", "gone"} /\ loop = "off" /\ ~waiter

(* The waiter acts on an exit, and has the lock until its finish is over.   *)
WaiterInv ==
    /\ result = "none" <=> end = "open"
    /\ ender = "nobody" <=> end = "open"
    /\ serve.proc # "none" => serve.set
    /\ waiter => serve.proc \in {"ok", "bad"}
    /\ ender = "serve" /\ ~Finished => ~waiter

(* Once somebody has stopped app.serve for good, nobody is about to start   *)
(* it; and podh-boot leaves only after that.                                *)
StoppedInv ==
    /\ end \in {"work", "procs", "over"} \/ term \in {"work", "procs", "out"} =>
          /\ serve.proc \notin {"loose", "run"} \/ serve.missed
          /\ ~waiter /\ (serve.set => serve.stopping)
    /\ ~Alive => serve.proc \notin {"loose", "run"} \/ serve.missed

EndInv == MainInv /\ WaiterInv /\ StoppedInv

-----------------------------------------------------------------------------
(* The children's records, as the operations leave them. *)

LEMMA ServeStopped ==
    ASSUME serve \in Serves, StopServe
    PROVE  /\ serve' \in Serves
           /\ serve'.set = serve.set
           /\ serve.set => /\ serve'.proc # "run" /\ serve'.stopping
                           /\ serve'.missed = (serve.proc = "loose")
           /\ serve.set => serve'.proc # "loose" \/ serve'.missed
           /\ serve.proc # "run" => serve'.proc = serve.proc
           /\ serve.proc # "loose" => serve'.proc # "loose"
           /\ ~serve.set => serve' = serve
<1>1. CASE ~serve.set
  BY <1>1 DEF StopServe
<1>2. CASE serve.set
  <2> DEFINE p == Stopped(serve.proc, "bad")
  <2>1. p \in {"none", "loose", "ok", "bad", "gone"}
    BY DEF Stopped, Serves
  <2>2. p = IF serve.proc = "run" THEN "bad" ELSE serve.proc
    BY DEF Stopped
  <2>3. serve' = [serve EXCEPT !.stopping = TRUE, !.proc = p,
                               !.missed = (serve.proc = "loose")]
    BY <1>2 DEF StopServe
  <2> HIDE DEF p
  <2>4. serve' \in Serves
    BY <2>1, <2>3 DEF Serves
  <2>5. /\ serve'.set = serve.set /\ serve'.proc = p /\ serve'.stopping
        /\ serve'.missed = (serve.proc = "loose")
    BY <2>3 DEF Serves
  <2> QED
    BY <1>2, <2>1, <2>2, <2>4, <2>5
<1> QED
  BY <1>1, <1>2

LEMMA WorkStarted ==
    ASSUME work \in Works, StartWork
    PROVE  /\ work' \in Works /\ work'.proc = "run" /\ work'.set = work.set
           /\ work.proc # "run" => work'.strays = work.strays
<1> DEFINE n == IF work.proc = "run" THEN work.strays + 1 ELSE work.strays
<1>1. n \in Nat /\ (work.proc # "run" => n = work.strays)
  BY DEF Works
<1>2. work' = [work EXCEPT !.proc = "run", !.strays = n]
  BY DEF StartWork
<1> HIDE DEF n
<1> QED
  BY <1>1, <1>2 DEF Works

LEMMA WorkStopped ==
    ASSUME work \in Works,
           \/ StopWork
           \/ work' = [work EXCEPT !.proc = Stopped(@, "dead")]
    PROVE  /\ work' \in Works /\ work'.set = work.set /\ work'.strays = work.strays
           /\ work'.proc = IF work.proc = "run" THEN "dead" ELSE work.proc
<1> DEFINE p == Stopped(work.proc, "dead")
<1>1. p \in {"none", "run", "dead"}
  BY DEF Stopped, Works
<1>2. p = IF work.proc = "run" THEN "dead" ELSE work.proc
  BY DEF Stopped
<1>3. \/ work' = [work EXCEPT !.stopping = TRUE, !.proc = p]
      \/ work' = [work EXCEPT !.proc = p]
  BY DEF StopWork
<1> HIDE DEF p
<1>4. /\ work' \in Works /\ work'.set = work.set /\ work'.strays = work.strays
      /\ work'.proc = p
  BY <1>1, <1>3 DEF Works
<1> QED
  BY <1>2, <1>4

(* Of a call of finish: the first is heard, any other changes nothing.      *)
Enders == {"main", "serve", "loop", "restart", "done"}
Ends == {"open", "logs", "tell", "serve", "work", "procs", "over"}

LEMMA FinishType ==
    ASSUME TypeOK, NEW who \in Enders, NEW r \in Verdicts, Finish(who, r)
    PROVE  /\ result' \in Verdicts \cup {"none"}
           /\ ender' \in Enders \cup {"nobody"}
           /\ end' \in Ends
BY DEF TypeOK, Finish, endVars, Enders, Ends

-----------------------------------------------------------------------------
(* Types. *)

LEMMA TypeInit == Init => TypeOK
<1> SUFFICES ASSUME Init PROVE TypeOK
  OBVIOUS
<1>1. serve \in Serves
  BY DEF Init, Serves
<1>2. work \in Works
  BY DEF Init, Works
<1>3. boot \in Boots /\ asks \in 0..MaxAsks /\ told \subseteq {"boot", "report"}
  BY PodConstants DEF Init
<1> QED
  BY <1>1, <1>2, <1>3 DEF Init, TypeOK

LEMMA TypeNext == TypeOK /\ [Next]_vars => TypeOK'
<1> USE DEF mainVars, serveVars, askVars, drainVars, endVars
<1> SUFFICES ASSUME TypeOK, [Next]_vars PROVE TypeOK'
  OBVIOUS
<1>1. CASE EndSteps
  <2>1. CASE EndUploads
    BY <2>1 DEF TypeOK, EndUploads, EndGoes
  <2>2. CASE EndTells
    BY <2>2 DEF TypeOK, EndTells, EndGoes
  <2>3. CASE EndStopsServe
    BY <2>3, ServeStopped DEF TypeOK, EndStopsServe, EndGoes, ThenWork
  <2>4. CASE EndStopsRest
    BY <2>4, WorkStarted, WorkStopped DEF TypeOK, EndStopsRest, EndGoes
  <2> QED
    BY <1>1, <2>1, <2>2, <2>3, <2>4 DEF EndSteps
<1>2. CASE MainSteps
  <2>1. CASE MainStages
    BY <2>1, FinishType DEF TypeOK, MainStages, MainAt, MainFails, Verdicts, Enders, Ends
  <2>2. CASE MainHooks
    BY <2>2 DEF TypeOK, MainHooks, MainAt
  <2>3. CASE MainBuilds
    <3>1. serve' \in Serves
      BY <2>3 DEF TypeOK, MainBuilds, Serves
    <3>2. UNCHANGED endVars \/ Finish("main", "app_serve")
      BY <2>3 DEF MainBuilds, MainFails
    <3>3. /\ result' \in Verdicts \cup {"none"}
          /\ ender' \in Enders \cup {"nobody"}
          /\ end' \in Ends
      BY <3>2, FinishType DEF TypeOK, Verdicts, Enders, Ends
    <3>4. main' \in {"start", "ending", "supervise"}
      BY <2>3 DEF MainBuilds, MainFails
    <3> QED
      BY <2>3, <3>1, <3>3, <3>4 DEF TypeOK, MainBuilds, MainAt, Enders, Ends
  <2>4. CASE MainForks \/ MainStarts
    <3>1. CASE MainForks
      BY <3>1, FinishType
         DEF TypeOK, MainForks, MainAt, MainFails, Verdicts, Enders, Ends, Serves
    <3>2. CASE MainStarts
      BY <3>2 DEF TypeOK, MainStarts, MainAt, Serves
    <3> QED
      BY <2>4, <3>1, <3>2
  <2>5. CASE MainSupervises
    BY <2>5 DEF TypeOK, MainSupervises, MainAt
  <2>6. CASE MainEnds
    <3>1. main' \in {"idle", "gone"}
      BY <2>6 DEF MainEnds
    <3>2. UNCHANGED <<boot, term, stage, serve, waiter, work, loop, ask, asks,
                      reply, drain, result, ender, end, told>>
      BY <2>6 DEF MainEnds, MainAt
    <3> QED
      BY <3>1, <3>2 DEF TypeOK
  <2> QED
    BY <1>2, <2>1, <2>2, <2>3, <2>4, <2>5, <2>6 DEF MainSteps
<1>3. CASE StageSteps
  <2>1. CASE StageFails
    BY <2>1 DEF TypeOK, StageFails, StageGoes
  <2>2. CASE StageWorks
    BY <2>2 DEF TypeOK, StageWorks, StageGoes
  <2>3. CASE StageStarts
    BY <2>3, WorkStarted, WorkStopped DEF TypeOK, StageStarts, StageGoes
  <2>4. CASE StageSets
    <3>1. work' \in Works
      BY <2>4 DEF TypeOK, StageSets, Works
    <3> QED
      BY <2>4, <3>1 DEF TypeOK, StageSets, StageGoes
  <2>5. CASE StageUp
    BY <2>5 DEF TypeOK, StageUp, StageGoes
  <2> QED
    BY <1>3, <2>1, <2>2, <2>3, <2>4, <2>5 DEF StageSteps
<1>4. CASE Sigterm \/ TermSteps
  <2>1. CASE Sigterm
    BY <2>1 DEF TypeOK, Sigterm, TermGoes
  <2>2. CASE TermStopsServe
    BY <2>2, ServeStopped DEF TypeOK, TermStopsServe, TermGoes, ThenWork
  <2>3. CASE TermStopsWork
    BY <2>3, WorkStarted, WorkStopped DEF TypeOK, TermStopsWork, TermGoes
  <2>4. CASE TermLeaves
    BY <2>4 DEF TypeOK, TermLeaves, TermGoes
  <2> QED
    BY <1>4, <2>1, <2>2, <2>3, <2>4 DEF TermSteps
<1>5. CASE ServeExits
  BY <1>5 DEF TypeOK, ServeExits, ServeElse, Serves
<1>6. CASE ServeSteps
  <2>1. CASE ServeLooks
    <3>1. serve' \in Serves /\ waiter' \in BOOLEAN
      BY <2>1 DEF TypeOK, ServeLooks, gone, Serves
    <3> QED
      BY <2>1, <3>1 DEF TypeOK, ServeLooks, ServeElse
  <2>2. CASE ServeActs
    <3>1. serve' \in Serves
      <4>1. MayRestart(serve) => serve.restarts + 1 \in 0..1
        BY DEF TypeOK, MayRestart, Serves
      <4>2. \/ serve' = [gone EXCEPT !.drained = TRUE]
            \/ serve' = gone
            \/ /\ serve' = [serve EXCEPT !.proc = "run", !.restarts = @ + 1]
               /\ MayRestart(serve)
            \/ /\ serve' = [gone EXCEPT !.restarts = @ + 1]
               /\ MayRestart(serve)
        BY <2>2 DEF ServeActs
      <4> QED
        BY <4>1, <4>2 DEF TypeOK, gone, Serves
    <3>2. \/ UNCHANGED endVars
          \/ \E r \in Verdicts : Finish("serve", r)
      BY <2>2 DEF ServeActs, Verdicts
    <3>3. /\ result' \in Verdicts \cup {"none"}
          /\ ender' \in Enders \cup {"nobody"}
          /\ end' \in Ends
      BY <3>2, FinishType DEF TypeOK, Verdicts, Enders, Ends
    <3>4. /\ waiter' \in BOOLEAN
          /\ UNCHANGED <<boot, main, term, stage, work, loop, ask, asks, reply,
                         drain, told>>
      BY <2>2 DEF ServeActs, ServeElse
    <3> QED
      BY ONLY TypeOK, <3>1, <3>3, <3>4 DEF TypeOK, Enders, Ends
  <2> QED
    BY <1>6, <2>1, <2>2 DEF ServeSteps
<1>7. CASE \E d \in BOOLEAN : Reply(d)
  BY <1>7 DEF TypeOK, Reply, DrainElse
<1>8. CASE DrainSteps
  <2>1. CASE DrainBegins
    <3>1. serve' \in Serves
      BY <2>1 DEF TypeOK, DrainBegins, Serves
    <3> QED
      BY <2>1, <3>1 DEF TypeOK, DrainBegins, DrainElse
  <2>2. CASE DrainStops
    BY <2>2, ServeStopped DEF TypeOK, DrainStops, DrainElse
  <2> QED
    BY <1>8, <2>1, <2>2 DEF DrainSteps
<1>9. CASE WorkloadDies
  BY <1>9 DEF TypeOK, WorkloadDies, Works
<1>10. CASE LoopSteps
  <2>1. CASE LoopLooks
    BY <2>1 DEF TypeOK, LoopLooks, LoopAt
  <2>2. CASE LoopPolls
    BY <2>2, FinishType
       DEF TypeOK, LoopPolls, LoopAt, LoopFails, MayRestart, Verdicts, Enders, Ends, Works
  <2>3. CASE LoopStarts
    BY <2>3, WorkStarted, WorkStopped DEF TypeOK, LoopStarts, LoopAt
  <2>4. CASE LoopUp
    BY <2>4, FinishType DEF TypeOK, LoopUp, LoopAt, LoopFails, Verdicts, Enders, Ends
  <2>5. CASE LoopLeaves
    BY <2>5 DEF TypeOK, LoopLeaves, LoopAt
  <2> QED
    BY <1>10, <2>1, <2>2, <2>3, <2>4, <2>5 DEF LoopSteps
<1>11. CASE AskRestart
  BY <1>11, PodConstants DEF TypeOK, AskRestart, AskGoes
<1>12. CASE AskSteps
  <2>1. CASE RestartLocks
    BY <2>1 DEF TypeOK, RestartLocks, AskGoes
  <2>2. CASE RestartStops
    BY <2>2, WorkStopped DEF TypeOK, RestartStops, AskGoes
  <2>3. CASE RestartStarts
    BY <2>3, WorkStarted, WorkStopped DEF TypeOK, RestartStarts, AskGoes
  <2>4. CASE RestartUp
    <3>1. UNCHANGED endVars \/ Finish("restart", "workload")
      BY <2>4 DEF RestartUp
    <3>2. /\ result' \in Verdicts \cup {"none"}
          /\ ender' \in Enders \cup {"nobody"}
          /\ end' \in Ends
      BY <3>1, FinishType DEF TypeOK, Verdicts, Enders, Ends
    <3>3. ask' \in {"no", "end"} /\ UNCHANGED <<mainVars, serveVars, loop, drainVars, told>>
      BY <2>4 DEF RestartUp, AskGoes
    <3> QED
      BY <2>4, <3>2, <3>3 DEF TypeOK, RestartUp, Enders, Ends
  <2>5. CASE RestartLeaves
    BY <2>5 DEF TypeOK, RestartLeaves, AskGoes
  <2> QED
    BY <1>12, <2>1, <2>2, <2>3, <2>4, <2>5 DEF AskSteps
<1>13. CASE ReportDone
  BY <1>13, FinishType DEF TypeOK, ReportDone, ReportElse, Verdicts, Enders, Ends
<1>14. CASE ReportDirect
  BY <1>14 DEF TypeOK, ReportDirect, ReportElse
<1>15. CASE UNCHANGED vars
  BY <1>15 DEF TypeOK, vars
<1> QED
  BY <1>1, <1>2, <1>3, <1>4, <1>5, <1>6, <1>7, <1>8, <1>9, <1>10, <1>11,
     <1>12, <1>13, <1>14, <1>15 DEF Next

(* A pod is typed, whatever its boot spec and whoever uses its local API:   *)
(* in particular each child is restarted at most once after a crash.        *)
THEOREM PodType == Spec => []TypeOK
<1> QED
  BY TypeInit, TypeNext, PTL DEF Spec

-----------------------------------------------------------------------------
(* One workload. *)

LEMMA WorkNext == TypeOK /\ WorkInv /\ [Next]_vars => WorkInv'
<1> USE DEF mainVars, serveVars, askVars, drainVars, endVars
<1> SUFFICES ASSUME TypeOK, WorkInv, [Next]_vars PROVE WorkInv'
  OBVIOUS
<1>0. work \in Works
  BY DEF TypeOK
<1>1. CASE UNCHANGED <<stage, work, loop, ask>>
  BY <1>1 DEF WorkInv
<1>2. CASE EndStopsRest
  <2>1. StopWork \/ UNCHANGED work
    BY <1>2 DEF EndStopsRest
  <2>2. /\ work'.set = work.set /\ work'.strays = work.strays
        /\ \/ work'.proc = work.proc
           \/ work.proc = "run" /\ work'.proc = "dead"
    BY <1>0, <2>1, WorkStopped
  <2>3. UNCHANGED <<stage, loop, ask>>
    BY <1>2 DEF EndStopsRest, EndGoes
  <2> QED
    BY <2>2, <2>3 DEF WorkInv
<1>3. CASE MainSupervises
  BY <1>3 DEF WorkInv, MainSupervises, MainAt
<1>4. CASE StageSteps
  <2>1. CASE StageFails \/ StageUp
    BY <2>1 DEF WorkInv, StageFails, StageUp, StageGoes
  <2>2. CASE StageWorks
    BY <2>2 DEF WorkInv, StageWorks, StageGoes
  <2>3. CASE StageStarts
    BY <1>0, <2>3, WorkStarted DEF WorkInv, StageStarts, StageGoes
  <2>4. CASE StageSets
    <3>1. work'.set /\ work'.strays = work.strays /\ work'.proc = work.proc
      BY <1>0, <2>4 DEF StageSets, Works
    <3> QED
      BY <2>4, <3>1 DEF WorkInv, StageSets, StageGoes
  <2> QED
    BY <1>4, <2>1, <2>2, <2>3, <2>4 DEF StageSteps
<1>5. CASE TermStopsWork
  BY <1>0, <1>5, WorkStopped DEF WorkInv, TermStopsWork, TermGoes
<1>6. CASE WorkloadDies
  <2>1. /\ work'.set = work.set /\ work'.strays = work.strays
        /\ work.proc = "run" /\ work'.proc = "dead"
    BY <1>0, <1>6 DEF WorkloadDies, Works
  <2> QED
    BY <1>6, <2>1 DEF WorkInv, WorkloadDies
<1>7. CASE LoopSteps
  <2>1. CASE LoopLooks
    BY <2>1 DEF WorkInv, LoopLooks, LoopAt, WorkLocked
  <2>2. CASE LoopPolls
    <3>1. /\ work'.set = work.set /\ work'.strays = work.strays
          /\ work'.proc = work.proc
      BY <1>0, <2>2 DEF LoopPolls, Works
    <3>2. loop' \in {"end", "out", "look"} \/ (loop' = "start" /\ work.proc = "dead")
      BY <2>2 DEF LoopPolls, LoopFails
    <3>3. loop = "poll" /\ UNCHANGED <<stage, ask>>
      BY <2>2 DEF LoopPolls, LoopAt
    <3> QED
      BY <3>1, <3>2, <3>3 DEF WorkInv
  <2>3. CASE LoopStarts
    BY <1>0, <2>3, WorkStarted DEF WorkInv, LoopStarts, LoopAt
  <2>4. CASE LoopUp
    BY <2>4 DEF WorkInv, LoopUp, LoopAt, LoopFails
  <2>5. CASE LoopLeaves
    BY <2>5 DEF WorkInv, LoopLeaves, LoopAt
  <2> QED
    BY <1>7, <2>1, <2>2, <2>3, <2>4, <2>5 DEF LoopSteps
<1>8. CASE AskRestart
  BY <1>8 DEF WorkInv, AskRestart, AskGoes
<1>9. CASE AskSteps
  <2>1. CASE RestartLocks
    BY <2>1 DEF WorkInv, RestartLocks, AskGoes, WorkLocked
  <2>2. CASE RestartStops
    BY <1>0, <2>2, WorkStopped DEF WorkInv, RestartStops, AskGoes
  <2>3. CASE RestartStarts
    BY <1>0, <2>3, WorkStarted DEF WorkInv, RestartStarts, AskGoes
  <2>4. CASE RestartUp
    BY <2>4 DEF WorkInv, RestartUp, AskGoes
  <2>5. CASE RestartLeaves
    BY <2>5 DEF WorkInv, RestartLeaves, AskGoes
  <2> QED
    BY <1>9, <2>1, <2>2, <2>3, <2>4, <2>5 DEF AskSteps
<1>10. \/ UNCHANGED <<stage, work, loop, ask>> \/ EndStopsRest \/ MainSupervises
       \/ StageSteps \/ TermStopsWork \/ WorkloadDies \/ LoopSteps
       \/ AskRestart \/ AskSteps
  <2>1. EndSteps => UNCHANGED <<stage, work, loop, ask>> \/ EndStopsRest
    BY DEF EndSteps, EndUploads, EndTells, EndStopsServe, EndGoes
  <2>2. MainSteps => UNCHANGED <<stage, work, loop, ask>> \/ MainSupervises
    BY DEF MainSteps, MainStages, MainHooks, MainBuilds, MainForks, MainStarts, MainEnds, MainAt
  <2>3. Sigterm \/ TermSteps => UNCHANGED <<stage, work, loop, ask>> \/ TermStopsWork
    BY DEF Sigterm, TermSteps, TermStopsServe, TermLeaves, TermGoes
  <2>4. ServeExits \/ ServeSteps => UNCHANGED <<stage, work, loop, ask>>
    BY DEF ServeExits, ServeSteps, ServeLooks, ServeActs, ServeElse
  <2>5. (\E d \in BOOLEAN : Reply(d)) \/ DrainSteps => UNCHANGED <<stage, work, loop, ask>>
    BY DEF Reply, DrainSteps, DrainBegins, DrainStops, DrainElse
  <2>6. ReportDone \/ ReportDirect => UNCHANGED <<stage, work, loop, ask>>
    BY DEF ReportDone, ReportDirect, ReportElse
  <2>7. UNCHANGED vars => UNCHANGED <<stage, work, loop, ask>>
    BY DEF vars
  <2> QED
    BY <2>1, <2>2, <2>3, <2>4, <2>5, <2>6, <2>7 DEF Next
<1> QED
  BY <1>1, <1>2, <1>3, <1>4, <1>5, <1>6, <1>7, <1>8, <1>9, <1>10

(* However often the workload dies, whoever asks for restarts, and whenever *)
(* the pod ends or a stage's thread is left behind: no start of a workload  *)
(* leaves another one of it running.                                        *)
THEOREM PodOneWorkload == Spec => []OneWorkload
<1>1. Init => WorkInv
  BY DEF Init, WorkInv
<1>2. WorkInv => OneWorkload
  BY DEF WorkInv, OneWorkload
<1> QED
  BY <1>1, <1>2, WorkNext, PodType, PTL DEF Spec
-----------------------------------------------------------------------------
(* The end, when only app.serve uses the local API.                         *)

LEMMA FinishMeans ==
    ASSUME NEW who \in Enders, NEW r \in Verdicts, Finish(who, r)
    PROVE  /\ \/ result = "none" /\ result' = r /\ ender' = who /\ end' = "logs"
              \/ result # "none" /\ UNCHANGED <<result, ender, end>>
           /\ r # "none" /\ who # "nobody"
BY DEF Finish, endVars, Enders, Verdicts

LEMMA EndInit == Init => EndInv
<1> SUFFICES ASSUME Init PROVE EndInv
  OBVIOUS
<1>1. ~serve.set /\ serve.proc = "none"
  BY DEF Init
<1> QED
  BY <1>1 DEF Init, EndInv, MainInv, Early, Quiet, WaiterInv, StoppedInv, Alive, Finished

LEMMA EndNext ==
    ASSUME Askers \subseteq {"serve"}
    PROVE  TypeOK /\ EndInv /\ [Next]_vars => EndInv'
<1> USE DEF mainVars, serveVars, askVars, drainVars, endVars
<1> SUFFICES ASSUME TypeOK, EndInv, [Next]_vars PROVE EndInv'
  OBVIOUS
<1> USE DEF EndInv, MainInv, Early, Quiet, WaiterInv, StoppedInv, Alive, Finished
<1>0. serve \in Serves /\ work \in Works
  BY DEF TypeOK
<1>1. CASE EndSteps
  <2>1. CASE EndUploads
    BY <2>1 DEF EndUploads, EndGoes
  <2>2. CASE EndTells
    BY <2>2 DEF EndTells, EndGoes
  <2>3. CASE EndStopsServe
    BY <1>0, <2>3, ServeStopped DEF EndStopsServe, EndGoes, ThenWork, ServeLocked
  <2>4. CASE EndStopsRest
    <3>1. work'.set = work.set
      BY <1>0, <2>4, WorkStopped DEF EndStopsRest
    <3> QED
      BY <2>4, <3>1 DEF EndStopsRest, EndGoes
  <2> QED
    BY <1>1, <2>1, <2>2, <2>3, <2>4 DEF EndSteps
<1>2. CASE MainSteps
  <2>1. CASE MainStages
    BY <2>1, FinishMeans DEF MainStages, MainAt, MainFails, Enders, Verdicts
  <2>2. CASE MainHooks
    BY <2>2 DEF MainHooks, MainAt
  <2>3. CASE MainBuilds
    <3>1. CASE "serve" \in boot /\ UNCHANGED endVars /\ main' = "start"
                 /\ serve' = [serve EXCEPT !.set = TRUE]
      <4>1. serve'.set /\ serve'.proc = serve.proc
        BY <1>0, <3>1 DEF Serves
      <4> QED
        BY <2>3, <3>1, <4>1 DEF MainBuilds, MainAt
    <3>2. CASE MainFails("app_serve") /\ UNCHANGED serve
      BY <2>3, <3>2, FinishMeans DEF MainBuilds, MainAt, MainFails, Enders, Verdicts
    <3>3. CASE "serve" \notin boot /\ main' = "supervise" /\ UNCHANGED <<serve, endVars>>
      BY <2>3, <3>3 DEF MainBuilds, MainAt
    <3> QED
      BY <2>3, <3>1, <3>2, <3>3 DEF MainBuilds
  <2>4. CASE MainForks
    <3>1. CASE /\ serve' = [serve EXCEPT !.proc = "loose"]
               /\ main' = "forked" /\ UNCHANGED endVars
      <4>1. serve'.proc = "loose" /\ serve'.set = serve.set
        BY <1>0, <3>1 DEF Serves
      <4> QED
        BY <2>4, <3>1, <4>1 DEF MainForks, MainAt
    <3>2. CASE MainFails("app_serve") /\ UNCHANGED serve
      BY <2>4, <3>2, FinishMeans DEF MainForks, MainAt, MainFails, Enders, Verdicts
    <3> QED
      BY <2>4, <3>1, <3>2 DEF MainForks
  <2>7. CASE MainStarts
    <3>1. /\ serve'.proc = "run" /\ serve'.set = serve.set
          /\ serve'.missed = serve.missed /\ serve'.stopping = serve.stopping
      BY <1>0, <2>7 DEF MainStarts, Serves
    <3> QED
      BY <2>7, <3>1 DEF MainStarts, MainAt
  <2>5. CASE MainSupervises
    BY <2>5 DEF MainSupervises, MainAt
  <2>6. CASE MainEnds
    BY <2>6 DEF MainEnds, MainAt
  <2> QED
    BY <1>2, <2>1, <2>2, <2>3, <2>4, <2>5, <2>6, <2>7 DEF MainSteps
<1>3. CASE StageSteps
  <2>1. CASE StageFails
    BY <2>1 DEF StageFails, StageGoes
  <2>2. CASE StageWorks
    BY <2>2 DEF StageWorks, StageGoes
  <2>3. CASE StageStarts
    <3>1. work'.set = work.set
      BY <1>0, <2>3, WorkStarted DEF StageStarts
    <3> QED
      BY <2>3, <3>1 DEF StageStarts, StageGoes
  <2>4. CASE StageSets
    <3>1. work'.set
      BY <1>0, <2>4 DEF StageSets, Works
    <3> QED
      BY <2>4, <3>1 DEF StageSets, StageGoes
  <2>5. CASE StageUp
    BY <2>5 DEF StageUp, StageGoes
  <2> QED
    BY <1>3, <2>1, <2>2, <2>3, <2>4, <2>5 DEF StageSteps
<1>4. CASE Sigterm \/ TermSteps
  <2>1. CASE Sigterm
    BY <2>1 DEF Sigterm, TermGoes
  <2>2. CASE TermStopsServe
    BY <1>0, <2>2, ServeStopped DEF TermStopsServe, TermGoes, ThenWork, ServeLocked
  <2>3. CASE TermStopsWork
    <3>1. work'.set = work.set
      BY <1>0, <2>3, WorkStopped DEF TermStopsWork
    <3> QED
      BY <2>3, <3>1 DEF TermStopsWork, TermGoes
  <2>4. CASE TermLeaves
    BY <2>4 DEF TermLeaves, TermGoes
  <2> QED
    BY <1>4, <2>1, <2>2, <2>3, <2>4 DEF TermSteps
<1>5. CASE ServeExits
  <2>1. /\ serve'.set = serve.set /\ serve'.stopping = serve.stopping
        /\ serve'.missed = serve.missed
        /\ serve.proc = "run" /\ serve'.proc \in {"ok", "bad"}
    BY <1>0, <1>5 DEF ServeExits, Serves
  <2> QED
    BY <1>5, <2>1 DEF ServeExits, ServeElse
<1>6. CASE ServeSteps
  <2>1. CASE ServeLooks
    <3>1. /\ serve'.set = serve.set /\ serve'.stopping = serve.stopping
          /\ serve'.missed = serve.missed
          /\ serve'.proc \in {serve.proc, "gone"} /\ serve.proc \in {"ok", "bad"}
          /\ waiter' => serve'.proc = serve.proc
      <4>1. CASE serve' = gone /\ UNCHANGED waiter /\ ServeIgnored
        <5>1. /\ gone.set = serve.set /\ gone.stopping = serve.stopping
              /\ gone.proc = "gone" /\ gone.missed = serve.missed
          BY <1>0 DEF gone, Serves
        <5>2. ~waiter
          BY <2>1 DEF ServeLooks, ServeLocked
        <5> QED
          BY <2>1, <4>1, <5>1, <5>2 DEF ServeLooks
      <4>2. CASE UNCHANGED serve
        BY <2>1, <4>2 DEF ServeLooks
      <4> QED
        BY <2>1, <4>1, <4>2 DEF ServeLooks
    <3>2. waiter' => ~waiter /\ ~serve.stopping /\ ~Finished /\ ender # "serve"
      BY <2>1 DEF ServeLooks, ServeLocked, ServeIgnored
    <3> QED
      BY <2>1, <3>1, <3>2 DEF ServeLooks, ServeElse
  <2>2. CASE ServeActs
    <3>1. /\ serve'.set = serve.set /\ serve'.stopping = serve.stopping
          /\ serve'.missed = serve.missed /\ serve'.proc \in {"gone", "run"}
      BY <1>0, <2>2 DEF ServeActs, gone, Serves
    <3>2. UNCHANGED endVars \/ \E r \in Verdicts : Finish("serve", r)
      BY <2>2 DEF ServeActs, Verdicts
    <3>3. /\ waiter /\ ~waiter' /\ Alive
          /\ UNCHANGED <<boot, main, term, stage, work, loop, ask>>
      BY <2>2 DEF ServeActs, ServeElse
    <3> QED
      BY <3>1, <3>2, <3>3, FinishMeans DEF Enders
  <2> QED
    BY <1>6, <2>1, <2>2 DEF ServeSteps
<1>7. CASE \E d \in BOOLEAN : Reply(d)
  BY <1>7 DEF Reply, DrainElse
<1>8. CASE DrainSteps
  <2>1. CASE DrainBegins
    <3>1. /\ serve'.set = serve.set /\ serve'.stopping = serve.stopping
          /\ serve'.missed = serve.missed /\ serve'.proc = serve.proc
      BY <1>0, <2>1 DEF DrainBegins, Serves
    <3> QED
      BY <2>1, <3>1 DEF DrainBegins, DrainElse
  <2>2. CASE DrainStops
    BY <1>0, <2>2, ServeStopped DEF DrainStops, DrainElse, ServeLocked
  <2> QED
    BY <1>8, <2>1, <2>2 DEF DrainSteps
<1>9. CASE WorkloadDies
  <2>1. work'.set = work.set
    BY <1>0, <1>9 DEF WorkloadDies, Works
  <2> QED
    BY <1>9, <2>1 DEF WorkloadDies
<1>10. CASE LoopSteps
  <2>1. work'.set = work.set /\ loop # "off" /\ loop' # "off"
    <3>1. CASE LoopLooks \/ LoopUp \/ LoopLeaves
      BY <3>1 DEF LoopLooks, LoopUp, LoopLeaves, LoopAt, LoopFails
    <3>2. CASE LoopPolls
      BY <1>0, <3>2 DEF LoopPolls, LoopAt, LoopFails, Works
    <3>3. CASE LoopStarts
      BY <1>0, <3>3, WorkStarted DEF LoopStarts, LoopAt
    <3> QED
      BY <1>10, <3>1, <3>2, <3>3 DEF LoopSteps
  <2>2. UNCHANGED endVars \/ Finish("loop", "workload")
    BY <1>10 DEF LoopSteps, LoopLooks, LoopPolls, LoopStarts, LoopUp, LoopLeaves, LoopFails
  <2>3. UNCHANGED <<boot, main, term, stage, serve, waiter, ask>>
    BY <1>10 DEF LoopSteps, LoopLooks, LoopPolls, LoopStarts, LoopUp, LoopLeaves, LoopAt
  <2> QED
    BY <2>1, <2>2, <2>3, FinishMeans DEF Enders, Verdicts
<1>11. CASE AskRestart
  BY <1>11 DEF AskRestart, AskGoes, Asking
<1>12. CASE AskSteps
  <2>1. work'.set = work.set
    BY <1>0, <1>12, WorkStarted, WorkStopped
       DEF AskSteps, RestartLocks, RestartStops, RestartStarts, RestartUp, RestartLeaves
  <2>2. UNCHANGED endVars \/ Finish("restart", "workload")
    BY <1>12
       DEF AskSteps, RestartLocks, RestartStops, RestartStarts, RestartUp, RestartLeaves
  <2>3. ask # "no" /\ UNCHANGED <<boot, main, term, stage, serve, waiter, loop>>
    BY <1>12
       DEF AskSteps, RestartLocks, RestartStops, RestartStarts, RestartUp,
           RestartLeaves, AskGoes
  <2> QED
    BY <2>1, <2>2, <2>3, FinishMeans DEF Enders, Verdicts
<1>13. CASE ReportDone
  BY <1>13, FinishMeans DEF ReportDone, ReportElse, Asking, Enders, Verdicts
<1>14. CASE ReportDirect
  BY <1>14 DEF ReportDirect, ReportElse
<1>15. CASE UNCHANGED vars
  BY <1>15 DEF vars
<1> QED
  BY <1>1, <1>2, <1>3, <1>4, <1>5, <1>6, <1>7, <1>8, <1>9, <1>10, <1>11,
     <1>12, <1>13, <1>14, <1>15 DEF Next

(* When only app.serve uses the local API, then whoever decides the pod's   *)
(* end, a SIGTERM or a drain in the midst of it or not: app.serve does not  *)
(* run once the end is over or podh-boot is gone.                           *)
THEOREM PodServeEnds ==
    ASSUME Askers \subseteq {"serve"}
    PROVE  Spec => []ServeEndsWithPod
<1>1. EndInv => ServeEndsWithPod
  BY DEF EndInv, StoppedInv, ServeEndsWithPod, Finished
<1> QED
  BY <1>1, EndInit, EndNext, PodType, PTL DEF Spec

-----------------------------------------------------------------------------
(* The end is PodEnd's. *)

LEMMA EndStep ==
    ASSUME Askers \subseteq {"serve"}
    PROVE  TypeOK /\ EndInv /\ [Next]_vars => [End!Next]_(End!endings)
<1> USE DEF mainVars, serveVars, askVars, drainVars, endVars, Alive, Finished
<1> DEFINE same == UNCHANGED <<boot, main, term, result, ender, end>>
           calls == /\ Alive /\ Alive' /\ UNCHANGED boot
                    /\ \/ UNCHANGED endVars
                       \/ \E who \in Enders, r \in Verdicts : Finish(who, r)
<1> SUFFICES ASSUME TypeOK, EndInv, [Next]_vars PROVE [End!Next]_(End!endings)
  OBVIOUS
<1>1. CASE same
  BY <1>1 DEF End!endings, EndPhase, Process
<1>2. CASE calls
  <2>1. Process = "up" /\ Process' = "up"
    BY <1>2 DEF Process
  <2>2. CASE UNCHANGED <<result, ender, end>>
    BY <1>2, <2>1, <2>2 DEF End!endings, EndPhase
  <2>3. ASSUME NEW r \in Verdicts, result = "none", result' = r, end' = "logs"
        PROVE  [End!Next]_(End!endings)
    <3>1. EndPhase = "open" /\ EndPhase' = "decided"
      BY <2>3 DEF EndPhase, EndInv, WaiterInv
    <3>2. End!Decide(r)
      BY <1>2, <2>1, <2>3, <3>1 DEF End!Decide
    <3> QED
      BY <3>2 DEF End!Next
  <2> QED
    BY <1>2, <2>2, <2>3, FinishMeans
<1>3. CASE EndSteps
  <2>1. /\ Alive /\ UNCHANGED <<boot, main, term, result>>
        /\ \/ end = "logs" /\ end' = "tell"
           \/ end = "tell" /\ end' = "serve"
           \/ end = "serve" /\ end' \in {"work", "procs"}
           \/ end \in {"work", "procs"} /\ end' = "over"
    BY <1>3 DEF EndSteps, EndUploads, EndTells, EndStopsServe, EndStopsRest,
                EndGoes, ThenWork
  <2>2. Process = "up" /\ Process' = "up"
    BY <2>1 DEF Process
  <2>3. \/ EndPhase = "decided" /\ EndPhase' = "logged"
        \/ EndPhase = "logged" /\ EndPhase' = "told"
        \/ EndPhase' = EndPhase
        \/ EndPhase = "told" /\ EndPhase' = "over"
    BY <2>1 DEF EndPhase
  <2> QED
    BY <2>1, <2>2, <2>3 DEF End!Next, End!Goes, End!endings
<1>4. CASE MainSupervises \/ MainEnds
  <2>1. CASE Alive'
    <3>1. UNCHANGED <<boot, result, end>> /\ Process = "up" /\ Process' = "up"
      BY <1>4, <2>1 DEF MainSupervises, MainEnds, MainAt, Process
    <3> QED
      BY <3>1 DEF End!endings, EndPhase
  <2>2. CASE ~Alive'
    <3>1. /\ UNCHANGED <<boot, result, end>>
          /\ Process = "up" /\ Process' = "left"
      BY <1>4, <2>2 DEF MainSupervises, MainEnds, MainAt, Process
    <3>2. end = "over" \/ (end = "open" /\ boot \cap {"workload", "serve"} = {})
      <4>1. CASE MainSupervises
        <5>1. main = "supervise" /\ ~work.set /\ ~serve.set
          BY <2>2, <4>1 DEF MainSupervises, MainAt
        <5> QED
          BY <5>1 DEF EndInv, MainInv, Early, WaiterInv
      <4>2. CASE MainEnds
        BY <4>2 DEF MainEnds, EndInv, MainInv, MainAt
      <4> QED
        BY <1>4, <4>1, <4>2
    <3>3. End!Leave
      BY <3>1, <3>2 DEF End!Leave, EndPhase
    <3> QED
      BY <3>3 DEF End!Next
  <2> QED
    BY <2>1, <2>2
<1>5. CASE TermLeaves
  <2>1. UNCHANGED <<boot, result, end>> /\ Process = "up" /\ Process' = "killed"
    BY <1>5 DEF TermLeaves, TermGoes, Process
  <2>2. End!Killed
    BY <2>1 DEF End!Killed, EndPhase
  <2> QED
    BY <2>2 DEF End!Next
<1>6. CASE MainStages \/ MainHooks \/ MainBuilds \/ MainForks \/ MainStarts
  <2>1. MainStages => calls
    BY DEF MainStages, MainAt, MainFails, Enders, Verdicts
  <2>2. MainHooks => calls
    BY DEF MainHooks, MainAt
  <2>3. MainBuilds => calls
    BY DEF MainBuilds, MainAt, MainFails, Enders, Verdicts
  <2>4. MainForks => calls
    BY DEF MainForks, MainAt, MainFails, Enders, Verdicts
  <2>5. MainStarts => calls
    BY DEF MainStarts, MainAt
  <2> QED
    BY <1>2, <1>6, <2>1, <2>2, <2>3, <2>4, <2>5
<1>7. CASE StageSteps \/ Sigterm \/ TermStopsServe \/ TermStopsWork
  <2>1. StageSteps => calls
    BY DEF StageSteps, StageFails, StageWorks, StageStarts, StageSets, StageUp, StageGoes
  <2>2. Sigterm \/ TermStopsServe \/ TermStopsWork => calls
    BY DEF Sigterm, TermStopsServe, TermStopsWork, TermGoes
  <2> QED
    BY <1>2, <1>7, <2>1, <2>2
<1>8. CASE ServeExits \/ ServeSteps \/ DrainSteps \/ \E d \in BOOLEAN : Reply(d)
  <2>1. ServeExits \/ ServeLooks => calls
    BY DEF ServeExits, ServeLooks, ServeElse
  <2>2. ServeActs => calls
    <3>1. ServeActs => UNCHANGED endVars \/ \E r \in Verdicts : Finish("serve", r)
      BY DEF ServeActs, Verdicts
    <3>2. ServeActs => Alive /\ Alive' /\ UNCHANGED boot
      BY DEF ServeActs, ServeElse
    <3> QED
      BY <3>1, <3>2 DEF Enders
  <2>3. DrainSteps \/ (\E d \in BOOLEAN : Reply(d)) => calls
    BY DEF DrainSteps, DrainBegins, DrainStops, Reply, DrainElse
  <2> QED
    BY <1>2, <1>8, <2>1, <2>2, <2>3 DEF ServeSteps
<1>9. CASE WorkloadDies \/ LoopSteps
  <2>1. WorkloadDies => calls
    BY DEF WorkloadDies
  <2>2. LoopSteps => UNCHANGED endVars \/ Finish("loop", "workload")
    BY DEF LoopSteps, LoopLooks, LoopPolls, LoopStarts, LoopUp, LoopLeaves, LoopFails
  <2>3. LoopSteps => Alive /\ Alive' /\ UNCHANGED boot
    BY DEF LoopSteps, LoopLooks, LoopPolls, LoopStarts, LoopUp, LoopLeaves, LoopAt
  <2>4. LoopSteps => calls
    BY <2>2, <2>3 DEF Enders, Verdicts
  <2> QED
    BY <1>2, <1>9, <2>1, <2>4
<1>10. CASE AskRestart \/ AskSteps
  <2>1. AskRestart => calls
    BY DEF AskRestart, AskGoes
  <2>2. AskSteps => UNCHANGED endVars \/ Finish("restart", "workload")
    BY DEF AskSteps, RestartLocks, RestartStops, RestartStarts, RestartUp, RestartLeaves
  <2>3. AskSteps => Alive /\ Alive' /\ UNCHANGED boot
    BY DEF AskSteps, RestartLocks, RestartStops, RestartStarts, RestartUp,
           RestartLeaves, AskGoes
  <2>4. AskSteps => calls
    BY <2>2, <2>3 DEF Enders, Verdicts
  <2> QED
    BY <1>2, <1>10, <2>1, <2>4
<1>11. CASE ReportDone \/ ReportDirect \/ UNCHANGED vars
  <2>1. ReportDone => calls
    BY DEF ReportDone, ReportElse, Enders, Verdicts
  <2>2. ReportDirect \/ UNCHANGED vars => same
    BY DEF ReportDirect, ReportElse, vars
  <2> QED
    BY <1>1, <1>2, <1>11, <2>1, <2>2
<1> QED
  BY <1>3, <1>4, <1>5, <1>6, <1>7, <1>8, <1>9, <1>10, <1>11
     DEF Next, MainSteps, TermSteps

(* When only app.serve uses the local API: the first finish decides the     *)
(* pod's end and its verdict stands; the logs podh-boot uploads, its done,  *)
(* and the children's stop follow in that order; and podh-boot leaves of    *)
(* itself only after all of that, or when nothing was to be supervised.     *)
THEOREM PodEndsOnce ==
    ASSUME Askers \subseteq {"serve"}
    PROVE  Spec => EndsOnce
<1>1. Init => End!Init
  BY DEF Init, End!Init, EndPhase, Process, Alive
<1> QED
  BY <1>1, EndInit, EndNext, EndStep, PodType, PTL DEF Spec, EndsOnce, End!Spec

-----------------------------------------------------------------------------
(* A stopped app.serve stays stopped.                                       *)

(* Stop and the waiter exclude each other by Serve.lock, so what the waiter *)
(* has found out under it still holds when it starts app.serve again.       *)
WaiterLast == waiter => ~serve.stopping

LEMMA LastNext == TypeOK /\ EndInv /\ WaiterLast /\ [Next]_vars => WaiterLast'
<1> USE DEF mainVars, serveVars, askVars, drainVars, endVars
<1> SUFFICES ASSUME TypeOK, EndInv, WaiterLast, [Next]_vars PROVE WaiterLast'
  OBVIOUS
<1>0. serve \in Serves
  BY DEF TypeOK
<1>1. CASE UNCHANGED serveVars \/ ~waiter'
  BY <1>1 DEF WaiterLast
<1>2. CASE EndStopsServe \/ TermStopsServe \/ DrainStops
  <2>1. ~waiter \/ ~serve.set
    BY <1>2 DEF EndStopsServe, EndGoes, TermStopsServe, DrainStops, ServeLocked,
                EndInv, WaiterInv, Finished
  <2>2. ~waiter
    BY <2>1 DEF EndInv, WaiterInv
  <2> QED
    BY <1>2, <2>2 DEF WaiterLast, EndStopsServe, EndGoes, TermStopsServe, TermGoes,
                      DrainStops, DrainElse
<1>3. CASE ServeLooks
  <2>1. CASE serve' = gone /\ UNCHANGED waiter
    BY <1>3, <2>1 DEF WaiterLast, ServeLooks, ServeLocked
  <2>2. CASE UNCHANGED serve /\ ~ServeIgnored
    BY <2>2 DEF WaiterLast, ServeIgnored
  <2> QED
    BY <1>3, <2>1, <2>2 DEF ServeLooks
<1>4. CASE MainBuilds \/ MainForks \/ MainStarts \/ ServeExits \/ DrainBegins
  <2>1. UNCHANGED <<waiter>> /\ (waiter => serve'.stopping = serve.stopping)
    <3>1. UNCHANGED serve \/ serve' = [serve EXCEPT !.set = TRUE]
          \/ serve' = [serve EXCEPT !.drained = TRUE]
          \/ (\E p \in {"loose", "run", "ok", "bad"} : serve' = [serve EXCEPT !.proc = p])
      BY <1>4 DEF MainBuilds, MainForks, MainStarts, ServeExits, DrainBegins
    <3>2. UNCHANGED <<waiter>>
      BY <1>4 DEF MainBuilds, MainForks, MainStarts, MainAt, ServeExits, ServeElse,
                  DrainBegins, DrainElse
    <3> QED
      BY <1>0, <3>1, <3>2 DEF Serves
  <2> QED
    BY <2>1 DEF WaiterLast
<1>5. \/ UNCHANGED serveVars \/ ~waiter'
      \/ EndStopsServe \/ TermStopsServe \/ DrainStops \/ ServeLooks
      \/ MainBuilds \/ MainForks \/ MainStarts \/ ServeExits \/ DrainBegins
  <2>1. EndSteps => UNCHANGED serveVars \/ EndStopsServe
    BY DEF EndSteps, EndUploads, EndTells, EndStopsRest, EndGoes
  <2>2. MainSteps => UNCHANGED serveVars \/ MainBuilds \/ MainForks \/ MainStarts
    BY DEF MainSteps, MainStages, MainHooks, MainSupervises, MainEnds, MainAt
  <2>3. StageSteps => UNCHANGED serveVars
    BY DEF StageSteps, StageFails, StageWorks, StageStarts, StageSets, StageUp, StageGoes
  <2>4. Sigterm \/ TermSteps => UNCHANGED serveVars \/ TermStopsServe
    BY DEF Sigterm, TermSteps, TermStopsWork, TermLeaves, TermGoes
  <2>5. ServeSteps => ServeLooks \/ ~waiter'
    BY DEF ServeSteps, ServeActs
  <2>6. DrainSteps \/ (\E d \in BOOLEAN : Reply(d))
           => UNCHANGED serveVars \/ DrainBegins \/ DrainStops
    BY DEF DrainSteps, Reply, DrainElse
  <2>7. WorkloadDies \/ LoopSteps => UNCHANGED serveVars
    BY DEF WorkloadDies, LoopSteps, LoopLooks, LoopPolls, LoopStarts, LoopUp,
           LoopLeaves, LoopAt
  <2>8. AskRestart \/ AskSteps => UNCHANGED serveVars
    BY DEF AskRestart, AskSteps, RestartLocks, RestartStops, RestartStarts,
           RestartUp, RestartLeaves, AskGoes
  <2>9. ReportDone \/ ReportDirect \/ UNCHANGED vars => UNCHANGED serveVars
    BY DEF ReportDone, ReportDirect, ReportElse, vars
  <2> QED
    BY <2>1, <2>2, <2>3, <2>4, <2>5, <2>6, <2>7, <2>8, <2>9 DEF Next
<1> QED
  BY <1>1, <1>2, <1>3, <1>4, <1>5

(* Who starts app.serve: main, the first time, and the waiter.              *)
LEMMA RunsBy ==
    ASSUME TypeOK, EndInv, WaiterLast, [Next]_vars,
           serve.stopping, serve.proc \in {"ok", "bad", "gone"}
    PROVE  serve'.proc # "run"
<1> USE DEF mainVars, serveVars, askVars, drainVars, endVars
<1>0. serve \in Serves
  BY DEF TypeOK
<1>1. ~waiter
  BY DEF WaiterLast
<1>2. CASE UNCHANGED serve
  BY <1>2
<1>3. CASE StopServe
  BY <1>0, <1>3, ServeStopped
<1>4. CASE serve' = gone \/ serve' = [serve EXCEPT !.set = TRUE]
           \/ serve' = [serve EXCEPT !.drained = TRUE]
  BY <1>0, <1>4 DEF gone, Serves
<1>5. ~MainStarts /\ (MainForks => UNCHANGED serve)
  BY DEF MainForks, MainStarts, MainAt, EndInv, MainInv, Early, Quiet
<1>6. EndSteps => UNCHANGED serve \/ StopServe
  BY DEF EndSteps, EndUploads, EndTells, EndStopsServe, EndStopsRest
<1>7. MainSteps => UNCHANGED serve \/ serve' = [serve EXCEPT !.set = TRUE]
  BY <1>5 DEF MainSteps, MainStages, MainHooks, MainBuilds, MainSupervises, MainEnds
<1>8. StageSteps \/ Sigterm \/ TermSteps => UNCHANGED serve \/ StopServe
  BY DEF StageSteps, StageFails, StageWorks, StageStarts, StageSets, StageUp,
         StageGoes, Sigterm, TermSteps, TermStopsServe, TermStopsWork, TermLeaves
<1>9. ~ServeExits /\ (ServeSteps => UNCHANGED serve \/ serve' = gone)
  BY <1>1 DEF ServeExits, ServeSteps, ServeLooks, ServeActs
<1>10. DrainSteps \/ (\E d \in BOOLEAN : Reply(d)) =>
          UNCHANGED serve \/ StopServe \/ serve' = [serve EXCEPT !.drained = TRUE]
  BY DEF DrainSteps, DrainBegins, DrainStops, Reply
<1>11. WorkloadDies \/ LoopSteps \/ AskRestart \/ AskSteps => UNCHANGED serve
  BY DEF WorkloadDies, LoopSteps, LoopLooks, LoopPolls, LoopStarts, LoopUp,
         LoopLeaves, LoopAt, AskRestart, AskSteps, RestartLocks, RestartStops,
         RestartStarts, RestartUp, RestartLeaves, AskGoes
<1>12. ReportDone \/ ReportDirect \/ UNCHANGED vars => UNCHANGED serve
  BY DEF ReportDone, ReportDirect, ReportElse, vars
<1> QED
  BY <1>2, <1>3, <1>4, <1>6, <1>7, <1>8, <1>9, <1>10, <1>11, <1>12 DEF Next

(* When only app.serve uses the local API: a crash the waiter sees as a     *)
(* drain, the end or a signal stops app.serve is not followed by a restart. *)
THEOREM PodStoppedStays ==
    ASSUME Askers \subseteq {"serve"}
    PROVE  Spec => StoppedStaysStopped
<1>1. Init => WaiterLast
  BY DEF Init, WaiterLast
<1>2. TypeOK /\ EndInv /\ WaiterLast /\ [Next]_vars =>
         [serve.stopping /\ serve.proc \in {"ok", "bad", "gone"}
             => serve'.proc # "run"]_vars
  BY RunsBy
<1> QED
  BY <1>1, <1>2, EndInit, EndNext, LastNext, PodType, PTL DEF Spec, StoppedStaysStopped
=============================================================================
