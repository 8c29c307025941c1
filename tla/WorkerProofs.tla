---------------------------- MODULE WorkerProofs ----------------------------
(***************************************************************************)
(* Theorems about podh-worker, for any tasks, capacity, prefetch and       *)
(* number of claims: the types, the ledger its threads implement, the      *)
(* places its handlers take, and what a closed task leaves behind.         *)
(***************************************************************************)
EXTENDS WorkerLedger, FiniteSetTheorems, WellFoundedInduction, TLAPS

(* The least of a set of numbers is one of them: the loops visit a member   *)
(* of what they have left.                                                  *)
LEMMA LeastIn ==
    ASSUME NEW S \in SUBSET Nat, S # {}
    PROVE  Least(S) \in S
<1> DEFINE R == OpToRel(<, Nat)
<1>1. \A x, y \in Nat : x < y => <<x, y>> \in R
  <2>1. R = {ss \in Nat \X Nat : ss[1] < ss[2]}
    BY DEF OpToRel
  <2>2. \A x, y \in Nat :
            x < y => <<x, y>> \in {ss \in Nat \X Nat : ss[1] < ss[2]}
    OBVIOUS
  <2>3. QED
    BY <2>1, <2>2
<1>2. IsWellFoundedOn(R, Nat)
  BY NatLessThanWellFounded
<1> HIDE DEF R
<1>3. PICK x \in S : \A y \in S : ~(<<y, x>> \in R)
  BY <1>2, WFMin
<1>4. ASSUME NEW y \in S
      PROVE  x <= y
  <2>1. ~(y < x)
    BY <1>1, <1>3
  <2>2. QED
    BY <2>1
<1>5. QED
  BY <1>4 DEF Least

(* Sets of tasks are finite, and one less is one less to add. *)
LEMMA TaskSets ==
    ASSUME NEW S \in SUBSET Tasks
    PROVE  /\ Cardinality(S) \in Nat
           /\ \A t \in S : /\ Cardinality(S \ {t}) = Cardinality(S) - 1
                           /\ Cardinality(S) > 0
<1>1. IsFiniteSet(S)
  BY WorkerConstants, FS_Subset
<1>2. Cardinality(S) \in Nat
  BY <1>1, FS_CardinalityType
<1>3. ASSUME NEW t \in S
      PROVE  /\ Cardinality(S \ {t}) = Cardinality(S) - 1
             /\ Cardinality(S) > 0
  <2>1. Cardinality(S) # 0
    BY <1>1, FS_EmptySet
  <2>2. Cardinality(S \ {t}) = Cardinality(S) - 1
    BY <1>1, FS_RemoveElement
  <2>3. QED
    BY <1>2, <2>1, <2>2
<1>4. QED
  BY <1>2, <1>3

(* So are sets of claims. *)
LEMMA ClaimSets ==
    ASSUME NEW S \in SUBSET Claims
    PROVE  IsFiniteSet(S) /\ Cardinality(S) \in Nat
<1>1. IsFiniteSet(Claims)
  BY WorkerConstants, FS_Interval DEF Claims
<1>2. QED
  BY <1>1, FS_Subset, FS_CardinalityType

-----------------------------------------------------------------------------
LEMMA TypeInit == Init => TypeOK
<1> SUFFICES ASSUME Init
             PROVE  TypeOK
  OBVIOUS
<1>1. Cardinality(handed) = 0
  BY FS_EmptySet DEF Init
<1>2. /\ todo = {} /\ tasks = {} /\ late = {} /\ overdue = {} /\ handed = {}
      /\ claimed = 0 /\ want = 0 /\ active = 0 /\ mpc = "poll"
      /\ once \in BOOLEAN
      /\ draining = FALSE /\ broken = FALSE
  BY WorkerConstants DEF Init
<1>3. /\ started \in [Claims -> BOOLEAN] /\ closed \in [Claims -> BOOLEAN]
      /\ ready \in [Claims -> BOOLEAN]
      /\ srv \in [Tasks -> ServerStates]
  BY DEF Init, ServerStates
<1>4. /\ taskOf \in [Claims -> Tasks \cup {NoTask}]
      /\ \A n \in Claims : taskOf[n] = NoTask <=> n > claimed
  BY <1>2 DEF Init, Claims
<1>5. /\ stop \in [Claims -> {"none", "lost", "cancelled", "timeout"}]
      /\ stopAt \in [Claims -> {"unset", "set", "past"}]
      /\ beat \in [Claims -> {"off", "wait", "lost", "cancelled", "drop"}]
      /\ prep \in [Claims -> {"off", "prep", "models", "release", "end"}]
  BY DEF Init
<1>6. /\ exec \in [Claims -> Handling \cup {"off", "start", "check", "report", "end"}]
      /\ final \in [Claims -> {"no", "release", "done", "told"}]
  BY DEF Init
<1>7. claimed + Cardinality(handed) <= MaxClaims
  BY <1>1, <1>2, WorkerConstants
<1>8. QED
  <2>1. PoolTypeOK
    <3>1. /\ mpc \in {"poll", "drain", "drainsend", "claim", "add", "dispatch",
                     "watch", "giveup", "exit", "dead"}
          /\ once \in BOOLEAN /\ draining \in BOOLEAN /\ broken \in BOOLEAN
      BY <1>2
    <3>2. want \in Int /\ active \in Nat /\ claimed \in Nat
      BY <1>2
    <3>3. /\ handed \subseteq Tasks /\ overdue \subseteq todo
          /\ mpc \in {"drainsend", "watch", "giveup"} => todo # {}
          /\ mpc \notin {"watch", "giveup"} => overdue = {}
      BY <1>2
    <3>4. tasks \subseteq 1..claimed /\ late \subseteq 1..claimed /\ todo \subseteq 1..claimed
      BY <1>2
    <3>5. QED
      BY <3>1, <3>2, <3>3, <3>4, <1>7 DEF PoolTypeOK
  <2>2. RunTypeOK
    BY <1>3, <1>4, <1>5, <1>6 DEF RunTypeOK
  <2>3. QED
    BY <2>1, <2>2 DEF TypeOK

LEMMA Visited ==
    ASSUME TypeOK
    PROVE  /\ 1..claimed \subseteq Claims
           /\ todo # {} => Least(todo) \in todo /\ Least(todo) \in 1..claimed
<1>1. Cardinality(handed) \in Nat
  BY TaskSets DEF TypeOK, PoolTypeOK
<1>2. 1..claimed \subseteq Claims
  BY <1>1, WorkerConstants DEF TypeOK, PoolTypeOK, Claims
<1>3. ASSUME todo # {}
      PROVE  Least(todo) \in todo /\ Least(todo) \in 1..claimed
  <2>1. todo \in SUBSET Nat /\ todo \subseteq 1..claimed
    BY DEF TypeOK, PoolTypeOK
  <2>2. Least(todo) \in todo
    BY <1>3, <2>1, LeastIn
  <2>3. QED
    BY <2>1, <2>2
<1>4. QED
  BY <1>2, <1>3

LEMMA StartedCount ==
    ASSUME TypeOK
    PROVE  Cardinality({n \in tasks : started[n]}) \in Nat
<1>1. {n \in tasks : started[n]} \subseteq Claims
  BY Visited DEF TypeOK, PoolTypeOK
<1>2. QED
  BY <1>1, ClaimSets

(* Each step keeps the types of what the main thread works with ... *)
LEMMA PoolTypeStep ==
    ASSUME TypeOK, Next
    PROVE  PoolTypeOK'
<1> USE TypeOK, WorkerConstants
    DEF TypeOK, PoolTypeOK, mainVars, poolVars, restVars, taskVars, runVars
<1>1. CASE PollDrain
    BY <1>1 DEF PollDrain
<1>2. CASE PollOnce
    BY <1>2, StartedCount DEF PollOnce, ToExit, ToDispatch, Idle
<1>3. CASE PollClaim
    BY <1>3 DEF PollClaim, Free
<1>4. CASE DrainVisit
    BY <1>4 DEF DrainVisit, MayRelease
<1>5. CASE DrainClose
    BY <1>5 DEF DrainClose, Popped
<1>6. CASE DrainDone
    BY <1>6, StartedCount DEF DrainDone, ToExit, ToDispatch, Idle
<1>7. CASE ClaimNothing
    BY <1>7, StartedCount DEF ClaimNothing, ToDispatch
<1>8. CASE ClaimReply
    BY <1>8, TaskSets DEF ClaimReply
<1>9. ASSUME NEW t \in Tasks, AddTask(t)
      PROVE  PoolTypeOK'
  <2>1. /\ handed' = handed \ {t} /\ t \in handed
        /\ UNCHANGED <<mpc, todo, want, active, overdue, once, draining, broken,
                       late>>
    BY <1>9 DEF AddTask
  <2>2. /\ Cardinality(handed) \in Nat /\ Cardinality(handed') \in Nat
        /\ Cardinality(handed') = Cardinality(handed) - 1
    BY <2>1, TaskSets
  <2>3. CASE claimed' = claimed /\ tasks' = tasks
    BY <2>1, <2>2, <2>3
  <2>4. CASE claimed' = claimed + 1 /\ tasks' = tasks \cup {claimed + 1}
    BY <2>1, <2>2, <2>4
  <2>5. QED
    BY <1>9, <2>3, <2>4 DEF AddTask, NewTaskRun
<1>10. CASE AddDone
    BY <1>10, StartedCount DEF AddDone, ToDispatch
<1>11. CASE DispatchVisit
  <2>1. /\ mpc' = mpc /\ todo' \subseteq todo /\ mpc = "dispatch"
        /\ active' \in {active, active + 1}
        /\ UNCHANGED <<want, overdue, handed, once, draining, broken, claimed,
                       tasks, late>>
    BY <1>11 DEF DispatchVisit
  <2>2. QED
    BY <2>1
<1>12. CASE DispatchDone
    BY <1>12 DEF DispatchDone, ToWatch, MayDispatch
<1>13. CASE WatchVisit
    BY <1>13 DEF WatchVisit, WatchNext
<1>14. CASE WatchGiveUp
    BY <1>14 DEF WatchGiveUp, WatchNext, Popped
<1>15. CASE GiveUpClose
    BY <1>15 DEF GiveUpClose, WatchNext, Popped
<1>16. CASE Exit
    BY <1>16 DEF Exit
<1>17. CASE HearDrain
    BY <1>17 DEF HearDrain
<1>18. ASSUME NEW n \in 1..claimed, BeatHear(n)
      PROVE  PoolTypeOK'
    BY <1>18 DEF BeatHear
<1>19. ASSUME NEW n \in 1..claimed, BeatDrop(n)
      PROVE  PoolTypeOK'
    BY <1>19 DEF BeatDrop, Popped
<1>20. ASSUME NEW n \in 1..claimed, BeatAsk(n)
      PROVE  PoolTypeOK'
    BY <1>20 DEF BeatAsk
<1>21. ASSUME NEW n \in 1..claimed, PrepLook(n)
      PROVE  PoolTypeOK'
    BY <1>21 DEF PrepLook, PrepRelease, PrepReady
<1>22. ASSUME NEW n \in 1..claimed, PrepModels(n)
      PROVE  PoolTypeOK'
    BY <1>22 DEF PrepModels, PrepRelease, PrepReady
<1>23. ASSUME NEW n \in 1..claimed, PrepClose(n)
      PROVE  PoolTypeOK'
    BY <1>23 DEF PrepClose, Popped
<1>24. ASSUME NEW n \in 1..claimed, ExecStart(n)
      PROVE  PoolTypeOK'
    BY <1>24 DEF ExecStart, execElse, ExecTo, Popped
<1>25. ASSUME NEW n \in 1..claimed, ExecBegin(n)
      PROVE  PoolTypeOK'
    BY <1>25 DEF ExecBegin, execElse, ExecCheck, ExecTo, ExecCancelled,
     ExecFailed, ExecReport, ExecQuit, Popped
<1>26. ASSUME NEW n \in 1..claimed, HandlerReturns(n)
      PROVE  PoolTypeOK'
    BY <1>26 DEF HandlerReturns, execElse, ExecCheck, ExecTo, ExecCancelled,
     ExecFailed, ExecReport, ExecQuit, Popped
<1>27. ASSUME NEW n \in 1..claimed, HandlerCancelled(n)
      PROVE  PoolTypeOK'
    BY <1>27 DEF HandlerCancelled, execElse, ExecCancelled, ExecReport,
     ExecQuit, Popped
<1>28. ASSUME NEW n \in 1..claimed, HandlerFails(n)
      PROVE  PoolTypeOK'
    BY <1>28 DEF HandlerFails, execElse, ExecFailed, ExecReport, Popped
<1>29. ASSUME NEW n \in 1..claimed, FinishReturns(n)
      PROVE  PoolTypeOK'
    BY <1>29 DEF FinishReturns, execElse, ExecReport, Popped
<1>30. ASSUME NEW n \in 1..claimed, ExecClose(n)
      PROVE  PoolTypeOK'
    BY <1>30 DEF ExecClose, execElse, Popped
<1>31. ASSUME NEW n \in 1..claimed, HandlerHears(n)
      PROVE  PoolTypeOK'
    BY <1>31 DEF HandlerHears, execElse
<1>32. ASSUME NEW n \in 1..claimed, HandlerHangs(n)
      PROVE  PoolTypeOK'
    BY <1>32 DEF HandlerHangs, execElse, ExecTo
<1>33. ASSUME NEW n \in 1..claimed, FinalAnswered(n)
      PROVE  PoolTypeOK'
    BY <1>33 DEF FinalAnswered
<1>34. ASSUME NEW n \in 1..claimed, TimeoutPasses(n)
      PROVE  PoolTypeOK'
    BY <1>34 DEF TimeoutPasses
<1>35. ASSUME NEW n \in 1..claimed, GracePasses(n)
      PROVE  PoolTypeOK'
    BY <1>35 DEF GracePasses
<1>36. ASSUME NEW t \in Tasks, LeaseLost(t)
      PROVE  PoolTypeOK'
    BY <1>36 DEF LeaseLost
<1>37. ASSUME NEW t \in Tasks, TaskCancelled(t)
      PROVE  PoolTypeOK'
    BY <1>37 DEF TaskCancelled
<1>38. QED
  BY Next, <1>1, <1>2, <1>3, <1>4, <1>5, <1>6, <1>7, <1>8, <1>9, <1>10, <1>11,
     <1>12, <1>13, <1>14, <1>15, <1>16, <1>17, <1>18, <1>19, <1>20, <1>21,
     <1>22, <1>23, <1>24, <1>25, <1>26, <1>27, <1>28, <1>29, <1>30, <1>31,
     <1>32, <1>33, <1>34, <1>35, <1>36, <1>37
     DEF Next, Main, Beat, Prep, Execute, Ends

(* What an execute thread's step writes of its TaskRun ... *)
ExecTypes ==
    /\ exec \in [Claims -> Handling \cup {"off", "start", "check", "report", "end"}]
    /\ closed \in [Claims -> BOOLEAN]
    /\ final \in [Claims -> {"no", "release", "done", "told"}]
    /\ stop \in [Claims -> {"none", "lost", "cancelled", "timeout"}]

LEMMA ExecReportTypes ==
    ASSUME RunTypeOK, NEW n \in Claims
    PROVE  /\ \A outcome : ExecReport(n, outcome) /\ UNCHANGED stop => ExecTypes'
           /\ ExecCancelled(n) => ExecTypes'
           /\ \A where \in {"check", "handler", "finish", "hung", "end"} :
                ExecTo(n, where) => ExecTypes'
<1> USE DEF RunTypeOK, ExecTypes, Handling
<1>1. ASSUME NEW outcome, ExecReport(n, outcome)
      PROVE  /\ exec' \in [Claims -> Handling \cup {"off", "start", "check", "report", "end"}]
             /\ closed' \in [Claims -> BOOLEAN]
             /\ final' \in [Claims -> {"no", "release", "done", "told"}]
  <2>1. exec' \in [Claims -> Handling \cup {"off", "start", "check", "report", "end"}]
    BY <1>1 DEF ExecReport
  <2>2. closed' \in [Claims -> BOOLEAN]
    BY <1>1 DEF ExecReport, CloseToReport
  <2>3. final' \in [Claims -> {"no", "release", "done", "told"}]
    BY <1>1 DEF ExecReport, CloseToReport
  <2> QED
    BY <2>1, <2>2, <2>3
<1>2. ASSUME NEW outcome, ExecReport(n, outcome), UNCHANGED stop
      PROVE  ExecTypes'
  BY <1>1, <1>2
<1>3. ASSUME ExecCancelled(n)
      PROVE  ExecTypes'
  <2>1. CASE ExecQuit(n)
    BY <2>1 DEF ExecQuit
  <2>2. CASE /\ ExecReport(n, "cancelled")
             /\ stop' = [stop EXCEPT ![n] = Reason(n, "cancelled")]
    <3>1. stop' \in [Claims -> {"none", "lost", "cancelled", "timeout"}]
      BY <2>2 DEF Reason
    <3>2. QED
      BY <1>1, <2>2, <3>1
  <2>3. QED
    BY <1>3, <2>1, <2>2 DEF ExecCancelled
<1>4. ASSUME NEW where \in {"check", "handler", "finish", "hung", "end"},
             ExecTo(n, where)
      PROVE  ExecTypes'
  BY <1>4 DEF ExecTo
<1>5. QED
  BY <1>2, <1>3, <1>4

LEMMA ExecCheckTypes ==
    ASSUME RunTypeOK, NEW n \in Claims,
           NEW where \in {"check", "handler", "finish", "hung", "end"},
           ExecCheck(n, where)
    PROVE  ExecTypes'
BY ExecReportTypes DEF ExecCheck, ExecFailed

(* ... and a prepare thread's. *)
PrepTypes ==
    /\ prep \in [Claims -> {"off", "prep", "models", "release", "end"}]
    /\ closed \in [Claims -> BOOLEAN]
    /\ ready \in [Claims -> BOOLEAN]
    /\ final \in [Claims -> {"no", "release", "done", "told"}]

LEMMA PrepReleaseTypes ==
    ASSUME RunTypeOK, NEW n \in Claims
    PROVE  /\ PrepRelease(n) => PrepTypes'
           /\ PrepReady(n) => PrepTypes'
           /\ \A where \in {"models", "end"} :
                /\ prep' = [prep EXCEPT ![n] = where]
                /\ UNCHANGED <<closed, final, ready>>
                => PrepTypes'
<1> USE DEF RunTypeOK, PrepTypes
<1>1. ASSUME PrepRelease(n)
      PROVE  PrepTypes'
  <2>1. CASE CloseToRelease(n) /\ prep' = [prep EXCEPT ![n] = "release"]
    BY <1>1, <2>1 DEF PrepRelease, CloseToRelease
  <2>2. CASE prep' = [prep EXCEPT ![n] = "end"] /\ UNCHANGED <<closed, final>>
    BY <1>1, <2>2 DEF PrepRelease
  <2>3. QED
    BY <1>1, <2>1, <2>2 DEF PrepRelease
<1>2. PrepReady(n) => PrepTypes'
  BY DEF PrepReady
<1>3. ASSUME NEW where \in {"models", "end"},
             prep' = [prep EXCEPT ![n] = where],
             UNCHANGED <<closed, final, ready>>
      PROVE  PrepTypes'
  BY <1>3
<1>4. QED
  BY <1>1, <1>2, <1>3

(* ... and of each TaskRun's fields. *)
LEMMA RunTypeStep ==
    ASSUME TypeOK, Next
    PROVE  RunTypeOK'
<1>a. 1..claimed \subseteq Claims /\ RunTypeOK /\ claimed \in Nat
  BY Visited DEF TypeOK, PoolTypeOK
<1> USE <1>a, WorkerConstants
    DEF RunTypeOK, Claims, Handling, poolVars, restVars, taskVars, runVars, threads
<1>1. CASE PollDrain
    BY <1>1 DEF PollDrain
<1>2. CASE PollOnce
    BY <1>2 DEF PollOnce
<1>3. CASE PollClaim
    BY <1>3 DEF PollClaim
<1>4. CASE DrainVisit
  <2>1. Least(todo) \in Claims
    BY <1>4, TypeOK, Visited DEF DrainVisit, TypeOK, PoolTypeOK
  <2>2. closed' \in [Claims -> BOOLEAN]
    BY <1>4, <2>1 DEF DrainVisit, CloseToRelease
  <2>3. final' \in [Claims -> {"no", "release", "done", "told"}]
    BY <1>4, <2>1, ZenonT(40) DEF DrainVisit, CloseToRelease
  <2>4. QED
    BY <1>4, <2>2, <2>3 DEF DrainVisit
<1>5. CASE DrainClose
    BY <1>5 DEF DrainClose
<1>6. CASE DrainDone
    BY <1>6 DEF DrainDone
<1>7. CASE ClaimNothing
    BY <1>7 DEF ClaimNothing
<1>8. CASE ClaimReply
    BY <1>8 DEF ClaimReply, ServerStates
<1>9. ASSUME NEW t \in Tasks, AddTask(t)
      PROVE  RunTypeOK'
  <2>1. UNCHANGED <<started, closed, ready, stop, stopAt, exec, final, srv>>
    BY <1>9 DEF AddTask
  <2>2. CASE UNCHANGED <<claimed, tasks, taskOf, beat, prep>>
    BY <2>1, <2>2
  <2>3. CASE NewTaskRun(t)
    <3>1. /\ taskOf' \in [Claims -> Tasks \cup {NoTask}]
          /\ beat' \in [Claims -> {"off", "wait", "lost", "cancelled", "drop"}]
          /\ prep' \in [Claims -> {"off", "prep", "models", "release", "end"}]
      BY <2>3 DEF NewTaskRun
    <3>2. \A n \in Claims : taskOf'[n] = NoTask <=> n > claimed'
      BY <2>3 DEF NewTaskRun
    <3>3. QED
      BY <2>1, <3>1, <3>2
  <2>4. QED
    BY <1>9, <2>2, <2>3 DEF AddTask
<1>10. CASE AddDone
    BY <1>10 DEF AddDone
<1>11. CASE DispatchVisit
  <2>1. Least(todo) \in Claims
    BY <1>11, TypeOK, Visited DEF DispatchVisit, MayDispatch
  <2>2. started' \in [Claims -> BOOLEAN]
    BY <1>11, <2>1 DEF DispatchVisit
  <2>3. exec' \in [Claims -> Handling \cup {"off", "start", "check", "report", "end"}]
    BY <1>11, <2>1, ZenonT(40) DEF DispatchVisit
  <2>4. QED
    BY <1>11, <2>2, <2>3 DEF DispatchVisit
<1>12. CASE DispatchDone
    BY <1>12 DEF DispatchDone, MayDispatch
<1>13. CASE WatchVisit
    BY <1>13, TypeOK, Visited DEF WatchVisit, Reason, SetOnce, TypeOK,
     PoolTypeOK
<1>14. CASE WatchGiveUp
  <2>1. Least(todo) \in Claims
    BY <1>14, TypeOK, Visited DEF WatchGiveUp, TypeOK, PoolTypeOK
  <2>2. closed' \in [Claims -> BOOLEAN]
    BY <1>14, <2>1 DEF WatchGiveUp, CloseToReport
  <2>3. final' \in [Claims -> {"no", "release", "done", "told"}]
    BY <1>14, <2>1, ZenonT(40) DEF WatchGiveUp, CloseToReport
  <2>4. QED
    BY <1>14, <2>2, <2>3 DEF WatchGiveUp
<1>15. CASE GiveUpClose
    BY <1>15 DEF GiveUpClose
<1>16. CASE Exit
    BY <1>16 DEF Exit
<1>17. CASE HearDrain
    BY <1>17 DEF HearDrain
<1>18. ASSUME NEW n \in 1..claimed, BeatHear(n)
      PROVE  RunTypeOK'
  <2>1. beat' \in [Claims -> {"off", "wait", "lost", "cancelled", "drop"}]
    BY <1>18 DEF BeatHear
  <2>2. stop' \in [Claims -> {"none", "lost", "cancelled", "timeout"}]
    BY <1>18 DEF BeatHear, Reason
  <2>3. stopAt' \in [Claims -> {"unset", "set", "past"}]
    BY <1>18 DEF BeatHear, SetOnce
  <2>4. QED
    BY <1>18, <2>1, <2>2, <2>3 DEF BeatHear
<1>19. ASSUME NEW n \in 1..claimed, BeatDrop(n)
      PROVE  RunTypeOK'
    BY <1>19 DEF BeatDrop, SetOnce
<1>20. ASSUME NEW n \in 1..claimed, BeatAsk(n)
      PROVE  RunTypeOK'
    BY <1>20 DEF BeatAsk
<1>21. ASSUME NEW n \in 1..claimed, PrepLook(n)
      PROVE  RunTypeOK'
  <2>1. PrepTypes'
    BY <1>21, PrepReleaseTypes DEF PrepLook
  <2>2. QED
    BY <1>21, <2>1 DEF PrepLook, PrepTypes
<1>22. ASSUME NEW n \in 1..claimed, PrepModels(n)
      PROVE  RunTypeOK'
  <2>1. PrepTypes'
    BY <1>22, PrepReleaseTypes DEF PrepModels
  <2>2. QED
    BY <1>22, <2>1 DEF PrepModels, PrepTypes
<1>23. ASSUME NEW n \in 1..claimed, PrepClose(n)
      PROVE  RunTypeOK'
    BY <1>23 DEF PrepClose
<1>24. ASSUME NEW n \in 1..claimed, ExecStart(n)
      PROVE  RunTypeOK'
  <2>1. n \in Claims
    OBVIOUS
  <2>2. ExecTypes'
    <3>1. CASE ExecTo(n, "check") \/ ExecTo(n, "end")
      BY <2>1, <3>1, ExecReportTypes
    <3>2. CASE /\ exec' = [exec EXCEPT ![n] = "end"]
               /\ closed' = [closed EXCEPT ![n] = TRUE]
               /\ stop' = [stop EXCEPT ![n] = Reason(n, "lost")]
               /\ UNCHANGED final
      BY <2>1, <3>2 DEF ExecTypes, Reason
    <3>3. CASE /\ CloseToRelease(n)
               /\ exec' = [exec EXCEPT ![n] = "report"]
               /\ UNCHANGED <<tasks, stop>>
      BY <2>1, <3>3 DEF ExecTypes, CloseToRelease
    <3>4. QED
      BY <1>24, <3>1, <3>2, <3>3 DEF ExecStart
  <2>3. QED
    BY <1>24, <2>2 DEF ExecStart, execElse, ExecTypes
<1>25. ASSUME NEW n \in 1..claimed, ExecBegin(n)
      PROVE  RunTypeOK'
  <2>1. n \in Claims
    OBVIOUS
  <2>2. ExecTypes'
    BY <1>25, <2>1, ExecReportTypes, ExecCheckTypes DEF ExecBegin
  <2>3. QED
    BY <1>25, <2>2 DEF ExecBegin, execElse, ExecTypes
<1>26. ASSUME NEW n \in 1..claimed, HandlerReturns(n)
      PROVE  RunTypeOK'
  <2>1. n \in Claims
    OBVIOUS
  <2>2. ExecTypes'
    BY <1>26, <2>1, ExecReportTypes, ExecCheckTypes DEF HandlerReturns
  <2>3. QED
    BY <1>26, <2>2 DEF HandlerReturns, execElse, ExecTypes
<1>27. ASSUME NEW n \in 1..claimed, HandlerCancelled(n)
      PROVE  RunTypeOK'
  <2>1. n \in Claims
    OBVIOUS
  <2>2. ExecTypes'
    BY <1>27, <2>1, ExecReportTypes, ExecCheckTypes DEF HandlerCancelled
  <2>3. QED
    BY <1>27, <2>2 DEF HandlerCancelled, execElse, ExecTypes
<1>28. ASSUME NEW n \in 1..claimed, HandlerFails(n)
      PROVE  RunTypeOK'
  <2>1. n \in Claims
    OBVIOUS
  <2>2. ExecTypes'
    BY <1>28, <2>1, ExecReportTypes, ExecCheckTypes DEF HandlerFails, ExecFailed
  <2>3. QED
    BY <1>28, <2>2 DEF HandlerFails, execElse, ExecTypes
<1>29. ASSUME NEW n \in 1..claimed, FinishReturns(n)
      PROVE  RunTypeOK'
  <2>1. n \in Claims
    OBVIOUS
  <2>2. ExecTypes'
    BY <1>29, <2>1, ExecReportTypes, ExecCheckTypes DEF FinishReturns
  <2>3. QED
    BY <1>29, <2>2 DEF FinishReturns, execElse, ExecTypes
<1>30. ASSUME NEW n \in 1..claimed, ExecClose(n)
      PROVE  RunTypeOK'
    BY <1>30 DEF ExecClose, execElse
<1>31. ASSUME NEW n \in 1..claimed, HandlerHears(n)
      PROVE  RunTypeOK'
    BY <1>31 DEF HandlerHears, execElse
<1>32. ASSUME NEW n \in 1..claimed, HandlerHangs(n)
      PROVE  RunTypeOK'
    BY <1>32 DEF HandlerHangs, execElse, ExecTo
<1>33. ASSUME NEW n \in 1..claimed, FinalAnswered(n)
      PROVE  RunTypeOK'
  <2>1. final' \in [Claims -> {"no", "release", "done", "told"}]
    BY <1>33 DEF FinalAnswered
  <2>2. srv' \in [Tasks -> ServerStates]
    BY <1>33 DEF FinalAnswered, Requeued, ServerStates
  <2>3. QED
    BY <1>33, <2>1, <2>2 DEF FinalAnswered
<1>34. ASSUME NEW n \in 1..claimed, TimeoutPasses(n)
      PROVE  RunTypeOK'
    BY <1>34 DEF TimeoutPasses
<1>35. ASSUME NEW n \in 1..claimed, GracePasses(n)
      PROVE  RunTypeOK'
    BY <1>35 DEF GracePasses
<1>36. ASSUME NEW t \in Tasks, LeaseLost(t)
      PROVE  RunTypeOK'
    BY <1>36 DEF LeaseLost, Requeued, ServerStates
<1>37. ASSUME NEW t \in Tasks, TaskCancelled(t)
      PROVE  RunTypeOK'
    BY <1>37 DEF TaskCancelled, ServerStates
<1>38. QED
  BY Next, <1>1, <1>2, <1>3, <1>4, <1>5, <1>6, <1>7, <1>8, <1>9, <1>10, <1>11,
     <1>12, <1>13, <1>14, <1>15, <1>16, <1>17, <1>18, <1>19, <1>20, <1>21,
     <1>22, <1>23, <1>24, <1>25, <1>26, <1>27, <1>28, <1>29, <1>30, <1>31,
     <1>32, <1>33, <1>34, <1>35, <1>36, <1>37
     DEF Next, Main, Beat, Prep, Execute, Ends

LEMMA TypeStep == TypeOK /\ [Next]_vars => TypeOK'
<1>1. ASSUME TypeOK, UNCHANGED vars
      PROVE  TypeOK'
  <2>1. PoolTypeOK'
    BY <1>1 DEF vars, mainVars, restVars, poolVars, taskVars, runVars, TypeOK, PoolTypeOK
  <2>2. RunTypeOK'
    BY <1>1 DEF vars, restVars, poolVars, taskVars, runVars, threads, TypeOK, RunTypeOK
  <2>3. QED
    BY <2>1, <2>2 DEF TypeOK
<1>2. QED
  BY <1>1, PoolTypeStep, RunTypeStep DEF TypeOK

(* Type correctness: every variable has its type, whatever the threads,     *)
(* pod-control and the app do, and the number of claims stays bounded.      *)
THEOREM WorkerType == Spec => []TypeOK
<1>1. QED
  BY TypeInit, TypeStep, PTL DEF Spec

(*****************************************************************************)
(* The ledger of the claims.                                                 *)
(*****************************************************************************)

(* What an open claim, a claim not made yet and an execute thread are, so   *)
(* that each close ends a claim nothing was said of, and a done is of a     *)
(* started one.                                                             *)
LedgerInv ==
    /\ \A n \in Claims :
         /\ ~closed[n] => final[n] = "no"
         /\ n > claimed => ~closed[n] /\ ~started[n]
         /\ exec[n] # "off" => started[n]
    /\ mpc \in {"watch", "giveup"} => \A n \in todo : started[n]

LEMMA LedgerInvInit == Init => LedgerInv
BY WorkerConstants DEF Init, LedgerInv, Claims

LEMMA LedgerInvStep ==
    ASSUME TypeOK, LedgerInv, Next
    PROVE  LedgerInv'
<1>a. /\ 1..claimed \subseteq Claims /\ claimed \in Nat
      /\ started \in [Claims -> BOOLEAN] /\ closed \in [Claims -> BOOLEAN]
      /\ exec \in [Claims -> Handling \cup {"off", "start", "check", "report", "end"}]
      /\ final \in [Claims -> {"no", "release", "done", "told"}]
  BY Visited DEF TypeOK, PoolTypeOK, RunTypeOK
<1>b. MaxClaims \in Nat /\ NoTask \notin Tasks
  BY WorkerConstants
<1> USE <1>a, <1>b, LedgerInv
    DEF LedgerInv, Claims, Handling, mainVars, poolVars, restVars, taskVars, runVars, threads
<1>1. CASE PollDrain
    BY <1>1 DEF PollDrain
<1>2. CASE PollOnce
    BY <1>2 DEF PollOnce, ToExit, ToDispatch, Idle
<1>3. CASE PollClaim
    BY <1>3 DEF PollClaim
<1>4. CASE DrainVisit
    BY <1>4, TypeOK, Visited DEF DrainVisit, CloseToRelease, MayRelease,
     TypeOK, PoolTypeOK
<1>5. CASE DrainClose
    BY <1>5 DEF DrainClose
<1>6. CASE DrainDone
    BY <1>6 DEF DrainDone, ToExit, ToDispatch, Idle
<1>7. CASE ClaimNothing
    BY <1>7 DEF ClaimNothing, ToDispatch
<1>8. CASE ClaimReply
    BY <1>8 DEF ClaimReply
<1>9. ASSUME NEW t \in Tasks, AddTask(t)
      PROVE  LedgerInv'
    BY <1>9 DEF AddTask, NewTaskRun
<1>10. CASE AddDone
    BY <1>10 DEF AddDone, ToDispatch
<1>11. CASE DispatchVisit
    BY <1>11, TypeOK, Visited, SMTT(20)
    DEF DispatchVisit, MayDispatch, Dispatchable, TypeOK, PoolTypeOK
<1>12. CASE DispatchDone
    BY <1>12 DEF DispatchDone, ToWatch, MayDispatch
<1>13. CASE WatchVisit
    BY <1>13, TypeOK, Visited DEF WatchVisit, WatchNext, TypeOK, PoolTypeOK
<1>14. CASE WatchGiveUp
  <2>1. /\ Least(todo) \in Claims /\ todo' \subseteq todo
        /\ UNCHANGED <<claimed, started, exec>>
        /\ mpc = "watch"
    <3>1. Least(todo) \in Claims /\ mpc = "watch"
      BY <1>14, TypeOK, Visited DEF WatchGiveUp, TypeOK, PoolTypeOK
    <3>2. todo' \subseteq todo
      BY <1>14 DEF WatchGiveUp, WatchNext
    <3>3. QED
      BY <1>14, <3>1, <3>2 DEF WatchGiveUp
  <2>2. \A m \in Claims : ~closed'[m] => ~closed[m] /\ final'[m] = final[m]
    BY <1>14, <2>1 DEF WatchGiveUp, CloseToReport
  <2>3. \A m \in Claims : m > claimed => ~closed'[m]
    <3>1. Least(todo) \in 1..claimed
      BY <1>14, TypeOK, Visited DEF WatchGiveUp, TypeOK, PoolTypeOK
    <3>2. QED
      BY <1>14, <3>1 DEF WatchGiveUp, CloseToReport
  <2>4. QED
    BY <2>1, <2>2, <2>3
<1>15. CASE GiveUpClose
    BY <1>15, TypeOK, Visited DEF GiveUpClose, WatchNext, TypeOK, PoolTypeOK
<1>16. CASE Exit
    BY <1>16 DEF Exit
<1>17. CASE HearDrain
    BY <1>17 DEF HearDrain
<1>18. ASSUME NEW n \in 1..claimed, BeatHear(n)
      PROVE  LedgerInv'
    BY <1>18 DEF BeatHear
<1>19. ASSUME NEW n \in 1..claimed, BeatDrop(n)
      PROVE  LedgerInv'
    BY <1>19 DEF BeatDrop
<1>20. ASSUME NEW n \in 1..claimed, BeatAsk(n)
      PROVE  LedgerInv'
    BY <1>20 DEF BeatAsk
<1>21. ASSUME NEW n \in 1..claimed, PrepLook(n)
      PROVE  LedgerInv'
    BY <1>21 DEF PrepLook, PrepRelease, PrepReady, CloseToRelease
<1>22. ASSUME NEW n \in 1..claimed, PrepModels(n)
      PROVE  LedgerInv'
    BY <1>22 DEF PrepModels, PrepRelease, PrepReady, CloseToRelease
<1>23. ASSUME NEW n \in 1..claimed, PrepClose(n)
      PROVE  LedgerInv'
    BY <1>23 DEF PrepClose
<1>24. ASSUME NEW n \in 1..claimed, ExecStart(n)
      PROVE  LedgerInv'
    BY <1>24 DEF ExecStart, execElse, ExecTo, CloseToRelease
<1>25. ASSUME NEW n \in 1..claimed, ExecBegin(n)
      PROVE  LedgerInv'
    BY <1>25 DEF ExecBegin, execElse, ExecCheck, ExecTo, ExecCancelled,
     ExecFailed, ExecReport, ExecQuit, CloseToReport
<1>26. ASSUME NEW n \in 1..claimed, HandlerReturns(n)
      PROVE  LedgerInv'
    BY <1>26 DEF HandlerReturns, execElse, ExecCheck, ExecTo, ExecCancelled,
     ExecFailed, ExecReport, ExecQuit, CloseToReport
<1>27. ASSUME NEW n \in 1..claimed, HandlerCancelled(n)
      PROVE  LedgerInv'
    BY <1>27 DEF HandlerCancelled, execElse, ExecCancelled, ExecReport,
     ExecQuit, CloseToReport
<1>28. ASSUME NEW n \in 1..claimed, HandlerFails(n)
      PROVE  LedgerInv'
    BY <1>28 DEF HandlerFails, execElse, ExecFailed, ExecReport, CloseToReport
<1>29. ASSUME NEW n \in 1..claimed, FinishReturns(n)
      PROVE  LedgerInv'
    BY <1>29 DEF FinishReturns, execElse, ExecReport, CloseToReport
<1>30. ASSUME NEW n \in 1..claimed, ExecClose(n)
      PROVE  LedgerInv'
    BY <1>30 DEF ExecClose, execElse
<1>31. ASSUME NEW n \in 1..claimed, HandlerHears(n)
      PROVE  LedgerInv'
    BY <1>31 DEF HandlerHears, execElse
<1>32. ASSUME NEW n \in 1..claimed, HandlerHangs(n)
      PROVE  LedgerInv'
    BY <1>32 DEF HandlerHangs, execElse, ExecTo
<1>33. ASSUME NEW n \in 1..claimed, FinalAnswered(n)
      PROVE  LedgerInv'
    BY <1>33 DEF FinalAnswered
<1>34. ASSUME NEW n \in 1..claimed, TimeoutPasses(n)
      PROVE  LedgerInv'
    BY <1>34 DEF TimeoutPasses
<1>35. ASSUME NEW n \in 1..claimed, GracePasses(n)
      PROVE  LedgerInv'
    BY <1>35 DEF GracePasses
<1>36. ASSUME NEW t \in Tasks, LeaseLost(t)
      PROVE  LedgerInv'
    BY <1>36 DEF LeaseLost
<1>37. ASSUME NEW t \in Tasks, TaskCancelled(t)
      PROVE  LedgerInv'
    BY <1>37 DEF TaskCancelled
<1>38. QED
  BY Next, <1>1, <1>2, <1>3, <1>4, <1>5, <1>6, <1>7, <1>8, <1>9, <1>10, <1>11,
     <1>12, <1>13, <1>14, <1>15, <1>16, <1>17, <1>18, <1>19, <1>20, <1>21,
     <1>22, <1>23, <1>24, <1>25, <1>26, <1>27, <1>28, <1>29, <1>30, <1>31,
     <1>32, <1>33, <1>34, <1>35, <1>36, <1>37
     DEF Next, Main, Beat, Prep, Execute, Ends

LEMMA LedgerInvariant == Spec => [](TypeOK /\ LedgerInv)
<1>1. Init => TypeOK /\ LedgerInv
  BY TypeInit, LedgerInvInit
<1>2. ASSUME TypeOK, LedgerInv, UNCHANGED vars
      PROVE  LedgerInv'
  BY <1>2 DEF LedgerInv, vars, mainVars, restVars, poolVars, taskVars, runVars, threads
<1>3. TypeOK /\ LedgerInv /\ [Next]_vars => (TypeOK /\ LedgerInv)'
  BY <1>2, TypeStep, LedgerInvStep
<1>4. QED
  BY <1>1, <1>3, PTL DEF Spec

LEMMA NextClaim ==
    ASSUME TypeOK, Next, claimed' = claimed + 1
    PROVE  claimed + 1 \in Claims /\ claimed \in Nat
<1>1. TypeOK'
  BY TypeStep
<1>2. Cardinality(handed') \in Nat /\ claimed' + Cardinality(handed') <= MaxClaims
  BY <1>1, TaskSets DEF TypeOK, PoolTypeOK
<1>3. claimed \in Nat
  BY DEF TypeOK, PoolTypeOK
<1>4. QED
  BY <1>2, <1>3, WorkerConstants DEF Claims

-----------------------------------------------------------------------------
(* A worker's step, seen in the ledger. *)

LEMMA NothingLedger ==
    ASSUME UNCHANGED <<claimed, closed, started, final>>
    PROVE  UNCHANGED Ledger!ledger
BY DEF Ledger!ledger, phaseBar, Phase

LEMMA EndsLedger ==
    ASSUME TypeOK, LedgerInv, NEW n \in 1..claimed, ~closed[n],
           NEW how \in {"no", "done", "release"}, how = "done" => started[n],
           closed' = [closed EXCEPT ![n] = TRUE],
           final' = [final EXCEPT ![n] = how],
           UNCHANGED <<claimed, started>>
    PROVE  Ledger!Next
<1>1. n \in Claims /\ closed \in [Claims -> BOOLEAN] /\ claimed \in Nat
  BY Visited DEF TypeOK, PoolTypeOK, RunTypeOK
<1>2. phaseBar[n] = IF started[n] THEN "running" ELSE "held"
  BY <1>1 DEF phaseBar, Phase
<1>3. phaseBar' = [phaseBar EXCEPT ![n] = "over"]
  <2>1. \A m \in Claims : Phase(m)' = IF m = n THEN "over" ELSE Phase(m)
    BY <1>1 DEF Phase, Claims
  <2>2. QED
    BY <2>1 DEF phaseBar
<1>4. QED
  BY <1>1, <1>2, <1>3 DEF Ledger!Next, Ledger!End

LEMMA QuitsLedger ==
    ASSUME TypeOK, LedgerInv, NEW n \in 1..claimed,
           closed' = [closed EXCEPT ![n] = TRUE],
           UNCHANGED <<claimed, started, final>>
    PROVE  [Ledger!Next]_(Ledger!ledger)
<1>1. /\ n \in Claims /\ closed \in [Claims -> BOOLEAN]
      /\ final \in [Claims -> {"no", "release", "done", "told"}]
  BY Visited DEF TypeOK, PoolTypeOK, RunTypeOK
<1>2. CASE closed[n]
  <2>1. closed' = closed
    BY <1>1, <1>2
  <2>2. QED
    BY <2>1, NothingLedger
<1>3. CASE ~closed[n]
  <2>1. final' = [final EXCEPT ![n] = "no"]
    BY <1>1, <1>3 DEF LedgerInv
  <2>2. QED
    BY <1>3, <2>1, EndsLedger
<1>4. QED
  BY <1>2, <1>3

LEMMA ReleasesLedger ==
    ASSUME TypeOK, LedgerInv, NEW n \in 1..claimed, CloseToRelease(n),
           UNCHANGED <<claimed, started>>
    PROVE  Ledger!Next
BY EndsLedger DEF CloseToRelease

LEMMA ReportsLedger ==
    ASSUME TypeOK, LedgerInv, NEW n \in 1..claimed, NEW outcome,
           CloseToReport(n, outcome), started[n], UNCHANGED <<claimed, started>>
    PROVE  Ledger!Next
<1>1. PICK how \in {"no", "done", "release"} :
            final' = [final EXCEPT ![n] = how]
  BY DEF CloseToReport
<1>2. QED
  BY <1>1, EndsLedger DEF CloseToReport

LEMMA ExecLedger ==
    ASSUME TypeOK, LedgerInv, NEW n \in 1..claimed, started[n],
           UNCHANGED <<claimed, started>>
    PROVE  /\ \A where : ExecTo(n, where) => [Ledger!Next]_(Ledger!ledger)
           /\ \A outcome : ExecReport(n, outcome) => [Ledger!Next]_(Ledger!ledger)
           /\ ExecCancelled(n) => [Ledger!Next]_(Ledger!ledger)
           /\ \A where : ExecCheck(n, where) => [Ledger!Next]_(Ledger!ledger)
<1>1. ASSUME NEW where, ExecTo(n, where)
      PROVE  [Ledger!Next]_(Ledger!ledger)
  BY <1>1, NothingLedger DEF ExecTo
<1>2. ASSUME NEW outcome, ExecReport(n, outcome)
      PROVE  [Ledger!Next]_(Ledger!ledger)
  BY <1>2, NothingLedger, ReportsLedger DEF ExecReport
<1>3. ASSUME ExecCancelled(n)
      PROVE  [Ledger!Next]_(Ledger!ledger)
  <2>1. CASE ExecQuit(n)
    BY <2>1, QuitsLedger DEF ExecQuit
  <2>2. CASE ExecReport(n, "cancelled")
    BY <2>2, <1>2
  <2>3. QED
    BY <1>3, <2>1, <2>2 DEF ExecCancelled
<1>4. ASSUME NEW where, ExecCheck(n, where)
      PROVE  [Ledger!Next]_(Ledger!ledger)
  BY <1>1, <1>2, <1>3, <1>4 DEF ExecCheck, ExecFailed
<1>5. QED
  BY <1>1, <1>2, <1>3, <1>4

LEMMA LedgerStep ==
    ASSUME TypeOK, LedgerInv, Next
    PROVE  [Ledger!Next]_(Ledger!ledger)
<1>1. CASE PollDrain
  BY <1>1, NothingLedger DEF PollDrain, restVars, poolVars, taskVars, runVars
<1>2. CASE PollOnce
  BY <1>2, NothingLedger DEF PollOnce, restVars, poolVars, taskVars, runVars
<1>3. CASE PollClaim
  BY <1>3, NothingLedger DEF PollClaim, restVars, poolVars, taskVars, runVars
<1>4. CASE DrainVisit
  BY <1>4, Visited, NothingLedger, ReleasesLedger
     DEF DrainVisit, poolVars, TypeOK, PoolTypeOK
<1>5. CASE DrainClose
  BY <1>5, NothingLedger DEF DrainClose, restVars, poolVars, taskVars, runVars
<1>6. CASE DrainDone
  BY <1>6, NothingLedger DEF DrainDone, restVars, poolVars, taskVars, runVars
<1>7. CASE ClaimNothing
  BY <1>7, NothingLedger DEF ClaimNothing, restVars, poolVars, taskVars, runVars
<1>8. CASE ClaimReply
  BY <1>8, NothingLedger DEF ClaimReply, restVars, poolVars, taskVars, runVars
<1>9. ASSUME NEW t \in Tasks, AddTask(t)
      PROVE  [Ledger!Next]_(Ledger!ledger)
  <2>1. UNCHANGED <<closed, started, final>>
    BY <1>9 DEF AddTask, runVars
  <2>2. CASE UNCHANGED claimed
    BY <2>1, <2>2, NothingLedger
  <2>3. CASE claimed' = claimed + 1
    <3>1. claimed + 1 \in Claims /\ claimed \in Nat
      BY <2>3, NextClaim
    <3>2. phaseBar[claimed + 1] = "unclaimed"
      BY <3>1 DEF phaseBar, Phase
    <3>3. phaseBar' = [phaseBar EXCEPT ![claimed + 1] = "held"]
      <4>1. \A m \in Claims :
                Phase(m)' = IF m = claimed + 1 THEN "held" ELSE Phase(m)
        BY <2>1, <2>3, <3>1 DEF Phase, LedgerInv, Claims
      <4>2. QED
        BY <4>1 DEF phaseBar
    <3>4. QED
      BY <2>1, <3>1, <3>2, <3>3 DEF Ledger!Next, Ledger!Hold
  <2>4. QED
    BY <1>9, <2>2, <2>3 DEF AddTask, NewTaskRun
<1>10. CASE AddDone
  BY <1>10, NothingLedger DEF AddDone, restVars, poolVars, taskVars, runVars
<1>11. CASE DispatchVisit
  <2>1. UNCHANGED <<claimed, closed, final>>
    BY <1>11 DEF DispatchVisit, poolVars
  <2>2. CASE UNCHANGED started
    BY <2>1, <2>2, NothingLedger
  <2>3. ASSUME NEW n \in 1..claimed, Dispatchable(n),
               started' = [started EXCEPT ![n] = TRUE]
        PROVE  Ledger!Next
    <3>1. n \in Claims /\ started \in [Claims -> BOOLEAN] /\ claimed \in Nat
      BY Visited DEF TypeOK, PoolTypeOK, RunTypeOK
    <3>2. phaseBar[n] = "held"
      BY <2>3, <3>1 DEF phaseBar, Phase, Dispatchable
    <3>3. phaseBar' = [phaseBar EXCEPT ![n] = "running"]
      <4>1. \A m \in Claims :
                Phase(m)' = IF m = n THEN "running" ELSE Phase(m)
        BY <2>1, <2>3, <3>1 DEF Phase, Dispatchable
      <4>2. QED
        BY <4>1 DEF phaseBar
    <3>4. QED
      BY <2>1, <3>1, <3>2, <3>3 DEF Ledger!Next, Ledger!Start
  <2>4. Least(todo) \in 1..claimed
    BY <1>11, Visited DEF DispatchVisit, MayDispatch
  <2>5. QED
    BY <1>11, <2>2, <2>3, <2>4 DEF DispatchVisit
<1>12. CASE DispatchDone
  BY <1>12, NothingLedger DEF DispatchDone, restVars, poolVars, taskVars, runVars
<1>13. CASE WatchVisit
  BY <1>13, NothingLedger DEF WatchVisit, restVars, poolVars, taskVars, runVars
<1>14. CASE WatchGiveUp
  <2>1. Least(todo) \in 1..claimed /\ started[Least(todo)]
    BY <1>14, Visited DEF WatchGiveUp, LedgerInv, TypeOK, PoolTypeOK
  <2>2. QED
    BY <1>14, <2>1, NothingLedger, ReportsLedger DEF WatchGiveUp
<1>15. CASE GiveUpClose
  BY <1>15, NothingLedger DEF GiveUpClose, restVars, poolVars, taskVars, runVars
<1>16. CASE Exit
  BY <1>16, NothingLedger DEF Exit, restVars, poolVars, taskVars, runVars
<1>17. CASE HearDrain
  BY <1>17, NothingLedger DEF HearDrain, restVars, poolVars, taskVars, runVars
<1>18. ASSUME NEW n \in 1..claimed, BeatHear(n)
      PROVE  [Ledger!Next]_(Ledger!ledger)
  BY <1>18, NothingLedger DEF BeatHear, restVars, poolVars, taskVars, runVars
<1>19. ASSUME NEW n \in 1..claimed, BeatDrop(n)
      PROVE  [Ledger!Next]_(Ledger!ledger)
  BY <1>19, QuitsLedger DEF BeatDrop
<1>20. ASSUME NEW n \in 1..claimed, BeatAsk(n)
      PROVE  [Ledger!Next]_(Ledger!ledger)
  BY <1>20, NothingLedger DEF BeatAsk, restVars, poolVars, taskVars, runVars
<1>21. ASSUME NEW n \in 1..claimed, PrepLook(n)
      PROVE  [Ledger!Next]_(Ledger!ledger)
  <2>1. UNCHANGED <<claimed, started>>
    BY <1>21 DEF PrepLook, poolVars
  <2>2. CASE PrepRelease(n)
    BY <2>1, <2>2, NothingLedger, ReleasesLedger DEF PrepRelease
  <2>3. CASE UNCHANGED <<closed, final>>
    BY <2>1, <2>3, NothingLedger
  <2>4. QED
    BY <1>21, <2>2, <2>3 DEF PrepLook, PrepReady
<1>22. ASSUME NEW n \in 1..claimed, PrepModels(n)
      PROVE  [Ledger!Next]_(Ledger!ledger)
  <2>1. UNCHANGED <<claimed, started>>
    BY <1>22 DEF PrepModels, poolVars
  <2>2. CASE PrepRelease(n)
    BY <2>1, <2>2, NothingLedger, ReleasesLedger DEF PrepRelease
  <2>3. CASE UNCHANGED <<closed, final>>
    BY <2>1, <2>3, NothingLedger
  <2>4. QED
    BY <1>22, <2>2, <2>3 DEF PrepModels, PrepReady
<1>23. ASSUME NEW n \in 1..claimed, PrepClose(n)
      PROVE  [Ledger!Next]_(Ledger!ledger)
  BY <1>23, NothingLedger DEF PrepClose, restVars, poolVars, taskVars, runVars
<1>24. ASSUME NEW n \in 1..claimed, ExecStart(n)
      PROVE  [Ledger!Next]_(Ledger!ledger)
  <2>1. started[n] /\ UNCHANGED <<claimed, started>>
    BY <1>24, Visited DEF ExecStart, execElse, LedgerInv
  <2>2. CASE /\ closed' = [closed EXCEPT ![n] = TRUE]
             /\ UNCHANGED final
    BY <2>1, <2>2, QuitsLedger
  <2>3. QED
    BY <1>24, <2>1, <2>2, ExecLedger, ReleasesLedger DEF ExecStart
<1>25. ASSUME NEW n \in 1..claimed, ExecBegin(n)
      PROVE  [Ledger!Next]_(Ledger!ledger)
  <2>1. started[n] /\ UNCHANGED <<claimed, started>>
    BY <1>25, Visited DEF ExecBegin, execElse, LedgerInv, Handling
  <2>2. QED
    BY <1>25, <2>1, ExecLedger DEF ExecBegin
<1>26. ASSUME NEW n \in 1..claimed, HandlerReturns(n)
      PROVE  [Ledger!Next]_(Ledger!ledger)
  <2>1. started[n] /\ UNCHANGED <<claimed, started>>
    BY <1>26, Visited DEF HandlerReturns, execElse, LedgerInv, Handling
  <2>2. QED
    BY <1>26, <2>1, ExecLedger DEF HandlerReturns
<1>27. ASSUME NEW n \in 1..claimed, HandlerCancelled(n)
      PROVE  [Ledger!Next]_(Ledger!ledger)
  <2>1. started[n] /\ UNCHANGED <<claimed, started>>
    BY <1>27, Visited DEF HandlerCancelled, execElse, LedgerInv, Handling
  <2>2. QED
    BY <1>27, <2>1, ExecLedger DEF HandlerCancelled
<1>28. ASSUME NEW n \in 1..claimed, HandlerFails(n)
      PROVE  [Ledger!Next]_(Ledger!ledger)
  <2>1. started[n] /\ UNCHANGED <<claimed, started>>
    BY <1>28, Visited DEF HandlerFails, execElse, LedgerInv, Handling
  <2>2. QED
    BY <1>28, <2>1, ExecLedger DEF HandlerFails, ExecFailed
<1>29. ASSUME NEW n \in 1..claimed, FinishReturns(n)
      PROVE  [Ledger!Next]_(Ledger!ledger)
  <2>1. started[n] /\ UNCHANGED <<claimed, started>>
    BY <1>29, Visited DEF FinishReturns, execElse, LedgerInv, Handling
  <2>2. QED
    BY <1>29, <2>1, ExecLedger DEF FinishReturns
<1>30. ASSUME NEW n \in 1..claimed, ExecClose(n)
      PROVE  [Ledger!Next]_(Ledger!ledger)
  BY <1>30, NothingLedger DEF ExecClose, execElse, restVars, poolVars, taskVars, runVars
<1>31. ASSUME NEW n \in 1..claimed, HandlerHears(n)
      PROVE  [Ledger!Next]_(Ledger!ledger)
  BY <1>31, NothingLedger DEF HandlerHears, execElse, restVars, poolVars, taskVars, runVars
<1>32. ASSUME NEW n \in 1..claimed, HandlerHangs(n)
      PROVE  [Ledger!Next]_(Ledger!ledger)
  BY <1>32, NothingLedger DEF HandlerHangs, ExecTo, execElse, restVars, poolVars, taskVars, runVars
<1>33. ASSUME NEW n \in 1..claimed, FinalAnswered(n)
      PROVE  [Ledger!Next]_(Ledger!ledger)
  <2>1. n \in Claims
    BY Visited
  <2>2. UNCHANGED phaseBar
    BY <1>33 DEF FinalAnswered, poolVars, runVars, phaseBar, Phase
  <2>3. Ledger!Answered(n)
    BY <1>33, <2>2 DEF FinalAnswered, Ledger!Answered
  <2>4. QED
    BY <2>1, <2>3 DEF Ledger!Next
<1>34. ASSUME NEW n \in 1..claimed, TimeoutPasses(n)
      PROVE  [Ledger!Next]_(Ledger!ledger)
  BY <1>34, NothingLedger DEF TimeoutPasses, restVars, poolVars, taskVars, runVars
<1>35. ASSUME NEW n \in 1..claimed, GracePasses(n)
      PROVE  [Ledger!Next]_(Ledger!ledger)
  BY <1>35, NothingLedger DEF GracePasses, restVars, poolVars, taskVars, runVars
<1>36. ASSUME NEW t \in Tasks, LeaseLost(t)
      PROVE  [Ledger!Next]_(Ledger!ledger)
  BY <1>36, NothingLedger DEF LeaseLost, restVars, poolVars, taskVars, runVars
<1>37. ASSUME NEW t \in Tasks, TaskCancelled(t)
      PROVE  [Ledger!Next]_(Ledger!ledger)
  BY <1>37, NothingLedger DEF TaskCancelled, restVars, poolVars, taskVars, runVars
<1>38. QED
  BY Next, <1>1, <1>2, <1>3, <1>4, <1>5, <1>6, <1>7, <1>8, <1>9, <1>10, <1>11,
     <1>12, <1>13, <1>14, <1>15, <1>16, <1>17, <1>18, <1>19, <1>20, <1>21,
     <1>22, <1>23, <1>24, <1>25, <1>26, <1>27, <1>28, <1>29, <1>30, <1>31,
     <1>32, <1>33, <1>34, <1>35, <1>36, <1>37
     DEF Next, Main, Beat, Prep, Execute, Ends

(* The threads implement the ledger: each claim is over once, in the step   *)
(* that closes its TaskRun, and pod-control is told of it at most once, by  *)
(* a done only when it was started here.                                    *)
THEOREM WorkerImplementsLedger == Spec => LedgerSpec
<1>1. Init => Ledger!Init
  BY WorkerConstants DEF Init, Ledger!Init, phaseBar, Phase, Claims
<1>2. TypeOK /\ LedgerInv /\ [Next]_vars => [Ledger!Next]_(Ledger!ledger)
  <2>1. UNCHANGED vars => UNCHANGED Ledger!ledger
    BY NothingLedger DEF vars, restVars, poolVars, taskVars, runVars
  <2>2. QED
    BY <2>1, LedgerStep
<1>3. QED
  BY <1>1, <1>2, LedgerInvariant, PTL DEF Spec, LedgerSpec, Ledger!Spec

(*****************************************************************************)
(* At most Capacity handlers.                                                *)
(*****************************************************************************)

LEMMA CapacityInvInit == Init => CapacityInv
<1> SUFFICES ASSUME Init
             PROVE  CapacityInv
  OBVIOUS
<1>1. OneRunPerId
  BY WorkerConstants DEF Init, OneRunPerId, Claims
<1>2. ThreadsAgree
  BY WorkerConstants DEF Init, ThreadsAgree, Claims, Handling
<1>3. OutsideIsOver
  BY DEF Init, OutsideIsOver
<1>4. Occupied = {}
  BY DEF Init, Occupied
<1>5. Cardinality(Occupied) = 0
  BY <1>4, FS_EmptySet
<1>6. QED
  BY <1>1, <1>2, <1>3, <1>5, WorkerConstants DEF CapacityInv, Init

LEMMA PoppedOne ==
    ASSUME TypeOK, OneRunPerId, NEW n \in 1..claimed
    PROVE  Popped(n) = tasks \ {n}
BY DEF Popped, OneRunPerId, TypeOK, PoolTypeOK

LEMMA OneRunStep ==
    ASSUME TypeOK, OneRunPerId, Next, ~Rehand
    PROVE  OneRunPerId'
<1>a. /\ 1..claimed \subseteq Claims /\ claimed \in Nat
      /\ taskOf \in [Claims -> Tasks \cup {NoTask}]
      /\ srv \in [Tasks -> ServerStates]
      /\ handed \subseteq Tasks
      /\ \A n \in Claims : taskOf[n] = NoTask <=> n > claimed
  BY Visited DEF TypeOK, PoolTypeOK, RunTypeOK
<1> USE <1>a, OneRunPerId, ~Rehand, WorkerConstants
    DEF OneRunPerId, mainVars, poolVars, restVars, taskVars, runVars, threads
<1>1. CASE PollDrain
    BY <1>1 DEF PollDrain
<1>2. CASE PollOnce
    BY <1>2 DEF PollOnce
<1>3. CASE PollClaim
    BY <1>3 DEF PollClaim
<1>4. CASE DrainVisit
    BY <1>4, TypeOK, Visited DEF DrainVisit, TypeOK, PoolTypeOK
<1>5. CASE DrainClose
    BY <1>5, TypeOK, Visited DEF DrainClose, TypeOK, PoolTypeOK
<1>6. CASE DrainDone
    BY <1>6 DEF DrainDone
<1>7. CASE ClaimNothing
    BY <1>7 DEF ClaimNothing
<1>8. CASE ClaimReply
    BY <1>8 DEF ClaimReply
<1>9. ASSUME NEW t \in Tasks, AddTask(t)
      PROVE  OneRunPerId'
  <2>1. /\ t \in handed /\ handed' = handed \ {t} /\ UNCHANGED srv
        /\ srv[t] # "queued" /\ \A m \in Claims : taskOf[m] # t
    BY <1>9 DEF AddTask
  <2>2. CASE UNCHANGED <<claimed, taskOf>>
    BY <2>1, <2>2
  <2>3. CASE claimed' = claimed + 1 /\ taskOf' = [taskOf EXCEPT ![claimed + 1] = t]
    <3>1. \A m \in Claims : taskOf'[m] = IF m = claimed + 1 THEN t ELSE taskOf[m]
      BY <2>3 DEF Claims
    <3>2. \A u \in Tasks : srv'[u] = "queued" =>
              u \notin handed' /\ \A m \in Claims : taskOf'[m] # u
      BY <2>1, <3>1
    <3>3. \A u \in handed' : \A m \in Claims : taskOf'[m] # u
      BY <2>1, <3>1
    <3>4. \A l, m \in 1..claimed' : taskOf'[l] = taskOf'[m] => l = m
      <4>1. 1..claimed' \subseteq Claims
        BY <2>3, NextClaim DEF Claims
      <4>2. ASSUME NEW l \in 1..claimed', NEW m \in 1..claimed',
                   taskOf'[l] = taskOf'[m]
            PROVE  l = m
        <5>1. l \in Claims /\ m \in Claims
          BY <4>1
        <5>2. (l \in 1..claimed \/ l = claimed + 1) /\ (m \in 1..claimed \/ m = claimed + 1)
          BY <2>3
        <5>3. QED
          BY <2>1, <3>1, <4>2, <5>1, <5>2
      <4>3. QED
        BY <4>2
    <3>5. QED
      BY <3>2, <3>3, <3>4
  <2>4. QED
    BY <1>9, <2>2, <2>3 DEF AddTask, NewTaskRun
<1>10. CASE AddDone
    BY <1>10 DEF AddDone
<1>11. CASE DispatchVisit
    BY <1>11, TypeOK, Visited DEF DispatchVisit, TypeOK, PoolTypeOK
<1>12. CASE DispatchDone
    BY <1>12 DEF DispatchDone
<1>13. CASE WatchVisit
    BY <1>13, TypeOK, Visited DEF WatchVisit, TypeOK, PoolTypeOK
<1>14. CASE WatchGiveUp
    BY <1>14, TypeOK, Visited DEF WatchGiveUp, TypeOK, PoolTypeOK
<1>15. CASE GiveUpClose
    BY <1>15, TypeOK, Visited DEF GiveUpClose, TypeOK, PoolTypeOK
<1>16. CASE Exit
    BY <1>16 DEF Exit
<1>17. CASE HearDrain
    BY <1>17 DEF HearDrain
<1>18. ASSUME NEW n \in 1..claimed, BeatHear(n)
      PROVE  OneRunPerId'
    BY <1>18 DEF BeatHear
<1>19. ASSUME NEW n \in 1..claimed, BeatDrop(n)
      PROVE  OneRunPerId'
    BY <1>19 DEF BeatDrop
<1>20. ASSUME NEW n \in 1..claimed, BeatAsk(n)
      PROVE  OneRunPerId'
    BY <1>20 DEF BeatAsk
<1>21. ASSUME NEW n \in 1..claimed, PrepLook(n)
      PROVE  OneRunPerId'
    BY <1>21 DEF PrepLook
<1>22. ASSUME NEW n \in 1..claimed, PrepModels(n)
      PROVE  OneRunPerId'
    BY <1>22 DEF PrepModels
<1>23. ASSUME NEW n \in 1..claimed, PrepClose(n)
      PROVE  OneRunPerId'
    BY <1>23 DEF PrepClose
<1>24. ASSUME NEW n \in 1..claimed, ExecStart(n)
      PROVE  OneRunPerId'
    BY <1>24 DEF ExecStart, execElse
<1>25. ASSUME NEW n \in 1..claimed, ExecBegin(n)
      PROVE  OneRunPerId'
    BY <1>25 DEF ExecBegin, execElse
<1>26. ASSUME NEW n \in 1..claimed, HandlerReturns(n)
      PROVE  OneRunPerId'
    BY <1>26 DEF HandlerReturns, execElse
<1>27. ASSUME NEW n \in 1..claimed, HandlerCancelled(n)
      PROVE  OneRunPerId'
    BY <1>27 DEF HandlerCancelled, execElse
<1>28. ASSUME NEW n \in 1..claimed, HandlerFails(n)
      PROVE  OneRunPerId'
    BY <1>28 DEF HandlerFails, execElse
<1>29. ASSUME NEW n \in 1..claimed, FinishReturns(n)
      PROVE  OneRunPerId'
    BY <1>29 DEF FinishReturns, execElse
<1>30. ASSUME NEW n \in 1..claimed, ExecClose(n)
      PROVE  OneRunPerId'
    BY <1>30 DEF ExecClose, execElse
<1>31. ASSUME NEW n \in 1..claimed, HandlerHears(n)
      PROVE  OneRunPerId'
    BY <1>31 DEF HandlerHears, execElse
<1>32. ASSUME NEW n \in 1..claimed, HandlerHangs(n)
      PROVE  OneRunPerId'
    BY <1>32 DEF HandlerHangs, execElse
<1>33. ASSUME NEW n \in 1..claimed, FinalAnswered(n)
      PROVE  OneRunPerId'
    BY <1>33 DEF FinalAnswered, Requeued
<1>34. ASSUME NEW n \in 1..claimed, TimeoutPasses(n)
      PROVE  OneRunPerId'
    BY <1>34 DEF TimeoutPasses
<1>35. ASSUME NEW n \in 1..claimed, GracePasses(n)
      PROVE  OneRunPerId'
    BY <1>35 DEF GracePasses
<1>36. ASSUME NEW t \in Tasks, LeaseLost(t)
      PROVE  OneRunPerId'
    BY <1>36 DEF LeaseLost, Requeued
<1>37. ASSUME NEW t \in Tasks, TaskCancelled(t)
      PROVE  OneRunPerId'
    BY <1>37 DEF TaskCancelled
<1>38. QED
  BY Next, <1>1, <1>2, <1>3, <1>4, <1>5, <1>6, <1>7, <1>8, <1>9, <1>10, <1>11,
     <1>12, <1>13, <1>14, <1>15, <1>16, <1>17, <1>18, <1>19, <1>20, <1>21,
     <1>22, <1>23, <1>24, <1>25, <1>26, <1>27, <1>28, <1>29, <1>30, <1>31,
     <1>32, <1>33, <1>34, <1>35, <1>36, <1>37
     DEF Next, Main, Beat, Prep, Execute, Ends

LEMMA ThreadsStep ==
    ASSUME TypeOK, LedgerInv, ThreadsAgree, Next
    PROVE  ThreadsAgree'
<1>a. /\ 1..claimed \subseteq Claims /\ claimed \in Nat
      /\ RunTypeOK
  BY Visited DEF TypeOK, PoolTypeOK
<1> USE <1>a, ThreadsAgree, WorkerConstants
    DEF ThreadsAgree, RunTypeOK, Claims, Handling, mainVars, poolVars, restVars, taskVars, runVars, threads
<1>1. CASE PollDrain
    BY <1>1 DEF PollDrain
<1>2. CASE PollOnce
    BY <1>2 DEF PollOnce, ToExit, ToDispatch, Idle
<1>3. CASE PollClaim
    BY <1>3 DEF PollClaim
<1>4. CASE DrainVisit
    BY <1>4, TypeOK, Visited DEF DrainVisit, CloseToRelease, MayRelease,
     TypeOK, PoolTypeOK
<1>5. CASE DrainClose
    BY <1>5, TypeOK, Visited DEF DrainClose, TypeOK, PoolTypeOK
<1>6. CASE DrainDone
    BY <1>6 DEF DrainDone, ToExit, ToDispatch, Idle
<1>7. CASE ClaimNothing
    BY <1>7 DEF ClaimNothing, ToDispatch
<1>8. CASE ClaimReply
    BY <1>8 DEF ClaimReply
<1>9. ASSUME NEW t \in Tasks, AddTask(t)
      PROVE  ThreadsAgree'
    BY <1>9 DEF AddTask, NewTaskRun
<1>10. CASE AddDone
    BY <1>10 DEF AddDone, ToDispatch
<1>11. CASE DispatchVisit
    BY <1>11, TypeOK, Visited, SMTT(20)
    DEF DispatchVisit, MayDispatch, Dispatchable, TypeOK, PoolTypeOK
<1>12. CASE DispatchDone
    BY <1>12 DEF DispatchDone, ToWatch, MayDispatch
<1>13. CASE WatchVisit
    BY <1>13, TypeOK, Visited DEF WatchVisit, WatchNext, Reason, SetOnce,
     TypeOK, PoolTypeOK
<1>14. CASE WatchGiveUp
    BY <1>14, TypeOK, Visited DEF WatchGiveUp, CloseToReport, WatchNext,
     TypeOK, PoolTypeOK
<1>15. CASE GiveUpClose
    BY <1>15, TypeOK, Visited DEF GiveUpClose, WatchNext, TypeOK, PoolTypeOK
<1>16. CASE Exit
    BY <1>16 DEF Exit
<1>17. CASE HearDrain
    BY <1>17 DEF HearDrain
<1>18. ASSUME NEW n \in 1..claimed, BeatHear(n)
      PROVE  ThreadsAgree'
    BY <1>18 DEF BeatHear, Reason, SetOnce
<1>19. ASSUME NEW n \in 1..claimed, BeatDrop(n)
      PROVE  ThreadsAgree'
    BY <1>19 DEF BeatDrop, SetOnce
<1>20. ASSUME NEW n \in 1..claimed, BeatAsk(n)
      PROVE  ThreadsAgree'
    BY <1>20 DEF BeatAsk
<1>21. ASSUME NEW n \in 1..claimed, PrepLook(n)
      PROVE  ThreadsAgree'
    BY <1>21 DEF PrepLook, PrepRelease, PrepReady, CloseToRelease
<1>22. ASSUME NEW n \in 1..claimed, PrepModels(n)
      PROVE  ThreadsAgree'
    BY <1>22 DEF PrepModels, PrepRelease, PrepReady, CloseToRelease
<1>23. ASSUME NEW n \in 1..claimed, PrepClose(n)
      PROVE  ThreadsAgree'
    BY <1>23 DEF PrepClose
<1>24. ASSUME NEW n \in 1..claimed, ExecStart(n)
      PROVE  ThreadsAgree'
    BY <1>24 DEF ExecStart, execElse, ExecTo, Reason, CloseToRelease
<1>25. ASSUME NEW n \in 1..claimed, ExecBegin(n)
      PROVE  ThreadsAgree'
    BY <1>25 DEF ExecBegin, execElse, ExecCheck, ExecTo, ExecCancelled,
     ExecFailed, ExecReport, ExecQuit, CloseToReport, Reason
<1>26. ASSUME NEW n \in 1..claimed, HandlerReturns(n)
      PROVE  ThreadsAgree'
    BY <1>26 DEF HandlerReturns, execElse, ExecCheck, ExecTo, ExecCancelled,
     ExecFailed, ExecReport, ExecQuit, CloseToReport, Reason
<1>27. ASSUME NEW n \in 1..claimed, HandlerCancelled(n)
      PROVE  ThreadsAgree'
    BY <1>27 DEF HandlerCancelled, execElse, ExecCancelled, ExecReport,
     ExecQuit, CloseToReport, Reason
<1>28. ASSUME NEW n \in 1..claimed, HandlerFails(n)
      PROVE  ThreadsAgree'
    BY <1>28 DEF HandlerFails, execElse, ExecFailed, ExecReport, CloseToReport
<1>29. ASSUME NEW n \in 1..claimed, FinishReturns(n)
      PROVE  ThreadsAgree'
    BY <1>29 DEF FinishReturns, execElse, ExecReport, CloseToReport
<1>30. ASSUME NEW n \in 1..claimed, ExecClose(n)
      PROVE  ThreadsAgree'
    BY <1>30 DEF ExecClose, execElse
<1>31. ASSUME NEW n \in 1..claimed, HandlerHears(n)
      PROVE  ThreadsAgree'
    BY <1>31 DEF HandlerHears, execElse
<1>32. ASSUME NEW n \in 1..claimed, HandlerHangs(n)
      PROVE  ThreadsAgree'
    BY <1>32 DEF HandlerHangs, execElse, ExecTo
<1>33. ASSUME NEW n \in 1..claimed, FinalAnswered(n)
      PROVE  ThreadsAgree'
    BY <1>33 DEF FinalAnswered
<1>34. ASSUME NEW n \in 1..claimed, TimeoutPasses(n)
      PROVE  ThreadsAgree'
    BY <1>34 DEF TimeoutPasses
<1>35. ASSUME NEW n \in 1..claimed, GracePasses(n)
      PROVE  ThreadsAgree'
    BY <1>35 DEF GracePasses
<1>36. ASSUME NEW t \in Tasks, LeaseLost(t)
      PROVE  ThreadsAgree'
    BY <1>36 DEF LeaseLost
<1>37. ASSUME NEW t \in Tasks, TaskCancelled(t)
      PROVE  ThreadsAgree'
    BY <1>37 DEF TaskCancelled
<1>38. QED
  BY Next, <1>1, <1>2, <1>3, <1>4, <1>5, <1>6, <1>7, <1>8, <1>9, <1>10, <1>11,
     <1>12, <1>13, <1>14, <1>15, <1>16, <1>17, <1>18, <1>19, <1>20, <1>21,
     <1>22, <1>23, <1>24, <1>25, <1>26, <1>27, <1>28, <1>29, <1>30, <1>31,
     <1>32, <1>33, <1>34, <1>35, <1>36, <1>37
     DEF Next, Main, Beat, Prep, Execute, Ends

LEMMA OutsideStep ==
    ASSUME TypeOK, LedgerInv, CapacityInv, Next
    PROVE  OutsideIsOver'
<1>a. /\ 1..claimed \subseteq Claims /\ claimed \in Nat
      /\ tasks \subseteq 1..claimed
      /\ RunTypeOK /\ OneRunPerId /\ ThreadsAgree /\ OutsideIsOver
  BY Visited DEF TypeOK, PoolTypeOK, CapacityInv
<1> USE <1>a, TypeOK, LedgerInv
    DEF OutsideIsOver, ThreadsAgree, LedgerInv, RunTypeOK, Handling, mainVars, poolVars, restVars, taskVars, runVars, threads
<1>1. CASE PollDrain
    BY <1>1 DEF PollDrain
<1>2. CASE PollOnce
    BY <1>2 DEF PollOnce
<1>3. CASE PollClaim
    BY <1>3 DEF PollClaim
<1>4. CASE DrainVisit
    BY <1>4, TypeOK, Visited DEF DrainVisit, CloseToRelease, MayRelease,
     TypeOK, PoolTypeOK
<1>5. CASE DrainClose
    BY <1>5, PoppedOne, TypeOK, Visited DEF DrainClose, TypeOK, PoolTypeOK
<1>6. CASE DrainDone
    BY <1>6 DEF DrainDone
<1>7. CASE ClaimNothing
    BY <1>7 DEF ClaimNothing
<1>8. CASE ClaimReply
    BY <1>8 DEF ClaimReply
<1>9. ASSUME NEW t \in Tasks, AddTask(t)
      PROVE  OutsideIsOver'
    BY <1>9 DEF AddTask, NewTaskRun
<1>10. CASE AddDone
    BY <1>10 DEF AddDone
<1>11. CASE DispatchVisit
    BY <1>11, TypeOK, Visited DEF DispatchVisit, MayDispatch, Dispatchable,
     TypeOK, PoolTypeOK
<1>12. CASE DispatchDone
    BY <1>12 DEF DispatchDone, MayDispatch
<1>13. CASE WatchVisit
    BY <1>13, TypeOK, Visited DEF WatchVisit, Reason, TypeOK, PoolTypeOK
<1>14. CASE WatchGiveUp
    BY <1>14, PoppedOne, TypeOK, Visited DEF WatchGiveUp, CloseToReport,
     TypeOK, PoolTypeOK
<1>15. CASE GiveUpClose
    BY <1>15, PoppedOne, TypeOK, Visited DEF GiveUpClose, TypeOK, PoolTypeOK
<1>16. CASE Exit
    BY <1>16 DEF Exit
<1>17. CASE HearDrain
    BY <1>17 DEF HearDrain
<1>18. ASSUME NEW n \in 1..claimed, BeatHear(n)
      PROVE  OutsideIsOver'
    BY <1>18 DEF BeatHear, Reason
<1>19. ASSUME NEW n \in 1..claimed, BeatDrop(n)
      PROVE  OutsideIsOver'
    BY <1>19, PoppedOne DEF BeatDrop
<1>20. ASSUME NEW n \in 1..claimed, BeatAsk(n)
      PROVE  OutsideIsOver'
    BY <1>20 DEF BeatAsk
<1>21. ASSUME NEW n \in 1..claimed, PrepLook(n)
      PROVE  OutsideIsOver'
    BY <1>21 DEF PrepLook, PrepRelease, PrepReady, CloseToRelease
<1>22. ASSUME NEW n \in 1..claimed, PrepModels(n)
      PROVE  OutsideIsOver'
    BY <1>22 DEF PrepModels, PrepRelease, PrepReady, CloseToRelease
<1>23. ASSUME NEW n \in 1..claimed, PrepClose(n)
      PROVE  OutsideIsOver'
    BY <1>23, PoppedOne DEF PrepClose
<1>24. ASSUME NEW n \in 1..claimed, ExecStart(n)
      PROVE  OutsideIsOver'
    BY <1>24, PoppedOne DEF ExecStart, execElse, ExecTo, Reason,
     CloseToRelease
<1>25. ASSUME NEW n \in 1..claimed, ExecBegin(n)
      PROVE  OutsideIsOver'
    BY <1>25, PoppedOne DEF ExecBegin, execElse, ExecCheck, ExecTo,
     ExecCancelled, ExecFailed, ExecReport, ExecQuit, CloseToReport, Reason
<1>26. ASSUME NEW n \in 1..claimed, HandlerReturns(n)
      PROVE  OutsideIsOver'
    BY <1>26, PoppedOne DEF HandlerReturns, execElse, ExecCheck, ExecTo,
     ExecCancelled, ExecFailed, ExecReport, ExecQuit, CloseToReport, Reason
<1>27. ASSUME NEW n \in 1..claimed, HandlerCancelled(n)
      PROVE  OutsideIsOver'
    BY <1>27, PoppedOne DEF HandlerCancelled, execElse, ExecCancelled,
     ExecReport, ExecQuit, CloseToReport, Reason
<1>28. ASSUME NEW n \in 1..claimed, HandlerFails(n)
      PROVE  OutsideIsOver'
    BY <1>28, PoppedOne DEF HandlerFails, execElse, ExecFailed, ExecReport,
     CloseToReport
<1>29. ASSUME NEW n \in 1..claimed, FinishReturns(n)
      PROVE  OutsideIsOver'
    BY <1>29, PoppedOne DEF FinishReturns, execElse, ExecReport, CloseToReport
<1>30. ASSUME NEW n \in 1..claimed, ExecClose(n)
      PROVE  OutsideIsOver'
    BY <1>30, PoppedOne DEF ExecClose, execElse
<1>31. ASSUME NEW n \in 1..claimed, HandlerHears(n)
      PROVE  OutsideIsOver'
    BY <1>31 DEF HandlerHears, execElse
<1>32. ASSUME NEW n \in 1..claimed, HandlerHangs(n)
      PROVE  OutsideIsOver'
    BY <1>32 DEF HandlerHangs, execElse, ExecTo
<1>33. ASSUME NEW n \in 1..claimed, FinalAnswered(n)
      PROVE  OutsideIsOver'
    BY <1>33 DEF FinalAnswered
<1>34. ASSUME NEW n \in 1..claimed, TimeoutPasses(n)
      PROVE  OutsideIsOver'
    BY <1>34 DEF TimeoutPasses
<1>35. ASSUME NEW n \in 1..claimed, GracePasses(n)
      PROVE  OutsideIsOver'
    BY <1>35 DEF GracePasses
<1>36. ASSUME NEW t \in Tasks, LeaseLost(t)
      PROVE  OutsideIsOver'
    BY <1>36 DEF LeaseLost
<1>37. ASSUME NEW t \in Tasks, TaskCancelled(t)
      PROVE  OutsideIsOver'
    BY <1>37 DEF TaskCancelled
<1>38. QED
  BY Next, <1>1, <1>2, <1>3, <1>4, <1>5, <1>6, <1>7, <1>8, <1>9, <1>10, <1>11,
     <1>12, <1>13, <1>14, <1>15, <1>16, <1>17, <1>18, <1>19, <1>20, <1>21,
     <1>22, <1>23, <1>24, <1>25, <1>26, <1>27, <1>28, <1>29, <1>30, <1>31,
     <1>32, <1>33, <1>34, <1>35, <1>36, <1>37
     DEF Next, Main, Beat, Prep, Execute, Ends

LEMMA OccupiedShrinks ==
    ASSUME TypeOK, LedgerInv, CapacityInv, Next, ~DispatchVisit
    PROVE  Occupied' \subseteq Occupied
<1>a. /\ 1..claimed \subseteq Claims /\ claimed \in Nat
      /\ tasks \subseteq 1..claimed
      /\ RunTypeOK /\ OneRunPerId /\ ThreadsAgree /\ OutsideIsOver
  BY Visited DEF TypeOK, PoolTypeOK, CapacityInv
<1> USE <1>a, ~DispatchVisit, LedgerInv
    DEF Occupied, OutsideIsOver, ThreadsAgree, RunTypeOK, Handling, mainVars, poolVars, restVars, taskVars, runVars, threads
<1>1. CASE PollDrain
    BY <1>1 DEF PollDrain
<1>2. CASE PollOnce
    BY <1>2 DEF PollOnce
<1>3. CASE PollClaim
    BY <1>3 DEF PollClaim
<1>4. CASE DrainVisit
    BY <1>4, TypeOK, Visited DEF DrainVisit, TypeOK, PoolTypeOK
<1>5. CASE DrainClose
    BY <1>5, PoppedOne, TypeOK, Visited DEF DrainClose, TypeOK, PoolTypeOK
<1>6. CASE DrainDone
    BY <1>6 DEF DrainDone
<1>7. CASE ClaimNothing
    BY <1>7 DEF ClaimNothing
<1>8. CASE ClaimReply
    BY <1>8 DEF ClaimReply
<1>9. ASSUME NEW t \in Tasks, AddTask(t)
      PROVE  Occupied' \subseteq Occupied
    BY <1>9 DEF AddTask, NewTaskRun
<1>10. CASE AddDone
    BY <1>10 DEF AddDone
<1>11. CASE DispatchVisit
    BY <1>11, TypeOK, Visited DEF DispatchVisit, MayDispatch, Dispatchable,
     TypeOK, PoolTypeOK
<1>12. CASE DispatchDone
    BY <1>12 DEF DispatchDone, MayDispatch
<1>13. CASE WatchVisit
    BY <1>13, TypeOK, Visited DEF WatchVisit, TypeOK, PoolTypeOK
<1>14. CASE WatchGiveUp
    BY <1>14, PoppedOne, TypeOK, Visited DEF WatchGiveUp, TypeOK, PoolTypeOK
<1>15. CASE GiveUpClose
    BY <1>15, PoppedOne, TypeOK, Visited DEF GiveUpClose, TypeOK, PoolTypeOK
<1>16. CASE Exit
    BY <1>16 DEF Exit
<1>17. CASE HearDrain
    BY <1>17 DEF HearDrain
<1>18. ASSUME NEW n \in 1..claimed, BeatHear(n)
      PROVE  Occupied' \subseteq Occupied
    BY <1>18 DEF BeatHear
<1>19. ASSUME NEW n \in 1..claimed, BeatDrop(n)
      PROVE  Occupied' \subseteq Occupied
    BY <1>19, PoppedOne DEF BeatDrop
<1>20. ASSUME NEW n \in 1..claimed, BeatAsk(n)
      PROVE  Occupied' \subseteq Occupied
    BY <1>20 DEF BeatAsk
<1>21. ASSUME NEW n \in 1..claimed, PrepLook(n)
      PROVE  Occupied' \subseteq Occupied
    BY <1>21 DEF PrepLook, PrepRelease
<1>22. ASSUME NEW n \in 1..claimed, PrepModels(n)
      PROVE  Occupied' \subseteq Occupied
    BY <1>22 DEF PrepModels, PrepRelease
<1>23. ASSUME NEW n \in 1..claimed, PrepClose(n)
      PROVE  Occupied' \subseteq Occupied
    BY <1>23, PoppedOne DEF PrepClose
<1>24. ASSUME NEW n \in 1..claimed, ExecStart(n)
      PROVE  Occupied' \subseteq Occupied
    BY <1>24, PoppedOne DEF ExecStart, execElse, ExecTo
<1>25. ASSUME NEW n \in 1..claimed, ExecBegin(n)
      PROVE  Occupied' \subseteq Occupied
    BY <1>25, PoppedOne DEF ExecBegin, execElse, ExecCheck, ExecTo,
     ExecCancelled, ExecFailed, ExecReport, ExecQuit
<1>26. ASSUME NEW n \in 1..claimed, HandlerReturns(n)
      PROVE  Occupied' \subseteq Occupied
    BY <1>26, PoppedOne DEF HandlerReturns, execElse, ExecCheck, ExecTo,
     ExecCancelled, ExecFailed, ExecReport, ExecQuit
<1>27. ASSUME NEW n \in 1..claimed, HandlerCancelled(n)
      PROVE  Occupied' \subseteq Occupied
    BY <1>27, PoppedOne DEF HandlerCancelled, execElse, ExecCancelled,
     ExecReport, ExecQuit
<1>28. ASSUME NEW n \in 1..claimed, HandlerFails(n)
      PROVE  Occupied' \subseteq Occupied
    BY <1>28, PoppedOne DEF HandlerFails, execElse, ExecFailed, ExecReport
<1>29. ASSUME NEW n \in 1..claimed, FinishReturns(n)
      PROVE  Occupied' \subseteq Occupied
    BY <1>29, PoppedOne DEF FinishReturns, execElse, ExecReport
<1>30. ASSUME NEW n \in 1..claimed, ExecClose(n)
      PROVE  Occupied' \subseteq Occupied
    BY <1>30, PoppedOne DEF ExecClose, execElse
<1>31. ASSUME NEW n \in 1..claimed, HandlerHears(n)
      PROVE  Occupied' \subseteq Occupied
    BY <1>31 DEF HandlerHears, execElse
<1>32. ASSUME NEW n \in 1..claimed, HandlerHangs(n)
      PROVE  Occupied' \subseteq Occupied
    BY <1>32 DEF HandlerHangs, execElse, ExecTo
<1>33. ASSUME NEW n \in 1..claimed, FinalAnswered(n)
      PROVE  Occupied' \subseteq Occupied
    BY <1>33 DEF FinalAnswered
<1>34. ASSUME NEW n \in 1..claimed, TimeoutPasses(n)
      PROVE  Occupied' \subseteq Occupied
    BY <1>34 DEF TimeoutPasses
<1>35. ASSUME NEW n \in 1..claimed, GracePasses(n)
      PROVE  Occupied' \subseteq Occupied
    BY <1>35 DEF GracePasses
<1>36. ASSUME NEW t \in Tasks, LeaseLost(t)
      PROVE  Occupied' \subseteq Occupied
    BY <1>36 DEF LeaseLost
<1>37. ASSUME NEW t \in Tasks, TaskCancelled(t)
      PROVE  Occupied' \subseteq Occupied
    BY <1>37 DEF TaskCancelled
<1>38. QED
  BY Next, <1>1, <1>2, <1>3, <1>4, <1>5, <1>6, <1>7, <1>8, <1>9, <1>10, <1>11,
     <1>12, <1>13, <1>14, <1>15, <1>16, <1>17, <1>18, <1>19, <1>20, <1>21,
     <1>22, <1>23, <1>24, <1>25, <1>26, <1>27, <1>28, <1>29, <1>30, <1>31,
     <1>32, <1>33, <1>34, <1>35, <1>36, <1>37
     DEF Next, Main, Beat, Prep, Execute, Ends

LEMMA OccupiedSet ==
    ASSUME TypeOK
    PROVE  /\ IsFiniteSet(Occupied) /\ Cardinality(Occupied) \in Nat
           /\ \A S \in SUBSET Occupied : Cardinality(S) <= Cardinality(Occupied)
<1>1. Occupied \subseteq Claims
  BY DEF Occupied
<1>2. IsFiniteSet(Occupied) /\ Cardinality(Occupied) \in Nat
  BY <1>1, ClaimSets
<1>3. QED
  BY <1>2, FS_Subset

(* _dispatch begins with at least as many as occupy a place counted. *)
LEMMA CountedPlaces ==
    ASSUME TypeOK, CapacityInv, ~broken
    PROVE  Cardinality(Occupied) <= Cardinality({n \in tasks : started[n]})
<1>1. tasks \subseteq Claims /\ 1..claimed \subseteq Claims /\ claimed \in Nat
  BY Visited DEF TypeOK, PoolTypeOK
<1>2. Occupied \subseteq {n \in tasks : started[n]}
  <2>1. ASSUME NEW n \in Occupied
        PROVE  n \in tasks /\ started[n]
    <3>1. started[n] /\ n \in Claims
      BY DEF Occupied
    <3>2. n \in 1..claimed
      BY <1>1, <3>1 DEF Claims, CapacityInv, ThreadsAgree
    <3>3. QED
      BY <3>1, <3>2 DEF Occupied, CapacityInv, OutsideIsOver
  <2>2. QED
    BY <2>1
<1>3. IsFiniteSet({n \in tasks : started[n]})
  BY <1>1, ClaimSets
<1>4. QED
  BY <1>2, <1>3, FS_Subset

LEMMA OccupiedStep ==
    ASSUME TypeOK, LedgerInv, CapacityInv, Next
    PROVE  /\ Cardinality(Occupied') <= Capacity
           /\ mpc' = "dispatch" /\ ~broken' => Cardinality(Occupied') <= active'
<1>1. CASE DispatchVisit
  <2> DEFINE n == Least(todo)
  <2>1. n \in Claims /\ ~broken /\ active < Capacity /\ mpc = "dispatch"
    BY <1>1, Visited DEF DispatchVisit, MayDispatch
  <2>2. Cardinality(Occupied) <= active /\ active \in Nat
    BY <2>1 DEF CapacityInv, TypeOK, PoolTypeOK
  <2>3. CASE active' = active /\ UNCHANGED <<started, exec>>
    <3>1. Occupied' = Occupied
      BY <1>1, <2>3 DEF DispatchVisit, poolVars, Occupied
    <3>2. QED
      BY <2>2, <2>3, <3>1 DEF CapacityInv
  <2>4. CASE /\ active' = active + 1
             /\ started' = [started EXCEPT ![n] = TRUE]
             /\ exec' = [exec EXCEPT ![n] = "start"]
    <3>1. Occupied' \subseteq Occupied \cup {n}
      BY <1>1, <2>1, <2>4 DEF DispatchVisit, poolVars, Occupied, TypeOK, RunTypeOK, Handling
    <3>2. /\ IsFiniteSet(Occupied \cup {n})
          /\ Cardinality(Occupied \cup {n}) <= Cardinality(Occupied) + 1
          /\ Cardinality(Occupied) \in Nat
      BY OccupiedSet, FS_AddElement
    <3>3. Cardinality(Occupied') <= Cardinality(Occupied \cup {n})
      BY <3>1, <3>2, FS_Subset
    <3>4. Cardinality(Occupied') \in Nat /\ Cardinality(Occupied \cup {n}) \in Nat
      BY <3>1, <3>2, FS_Subset, FS_CardinalityType
    <3>5. QED
      BY <2>1, <2>2, <2>4, <3>2, <3>3, <3>4, WorkerConstants
  <2>5. QED
    BY <1>1, <2>3, <2>4 DEF DispatchVisit
<1>2. CASE ~DispatchVisit
  <2>1. /\ Cardinality(Occupied') <= Cardinality(Occupied)
        /\ Cardinality(Occupied) \in Nat /\ Cardinality(Occupied') \in Nat
    <3>1. Occupied' \subseteq Occupied
      BY <1>2, OccupiedShrinks
    <3>2. QED
      BY <3>1, OccupiedSet, FS_Subset, FS_CardinalityType
  <2>2. Cardinality(Occupied') <= Capacity
    BY <2>1, WorkerConstants DEF CapacityInv
  <2>3. ASSUME mpc' = "dispatch", ~broken'
        PROVE  Cardinality(Occupied') <= active'
    <3>1. \/ ToDispatch /\ ~broken
          \/ mpc = "dispatch" /\ active' = active /\ ~broken
      BY <1>2, <2>3
      DEF Next, Main, Beat, Prep, Execute, Ends, PollDrain, PollOnce, PollClaim,
          DrainVisit, DrainClose, DrainDone, ClaimNothing, ClaimReply, AddTask, AddDone,
          DispatchDone, ToWatch, WatchVisit, WatchNext, WatchGiveUp, GiveUpClose, Exit,
          HearDrain, ToExit, BeatHear, BeatDrop, BeatAsk, PrepLook, PrepModels, PrepClose,
          ExecStart, ExecBegin, execElse, HandlerReturns, HandlerCancelled, HandlerFails,
          FinishReturns, ExecClose, HandlerHears, HandlerHangs, FinalAnswered,
          TimeoutPasses, GracePasses, LeaseLost, TaskCancelled, mainVars, poolVars,
          restVars
    <3>2. CASE ToDispatch /\ ~broken
      <4>1. Cardinality(Occupied) <= active' /\ active' \in Nat
        BY <3>2, CountedPlaces, StartedCount DEF ToDispatch
      <4>2. QED
        BY <2>1, <4>1
    <3>3. CASE mpc = "dispatch" /\ active' = active /\ ~broken
      BY <2>1, <3>3 DEF CapacityInv, TypeOK, PoolTypeOK
    <3>4. QED
      BY <3>1, <3>2, <3>3
  <2>4. QED
    BY <2>2, <2>3
<1>3. QED
  BY <1>1, <1>2

LEMMA CapacityInvStep ==
    ASSUME TypeOK, LedgerInv, CapacityInv, Next, ~Rehand
    PROVE  CapacityInv'
<1>1. OneRunPerId' /\ ThreadsAgree' /\ OutsideIsOver'
  BY OneRunStep, ThreadsStep, OutsideStep DEF CapacityInv
<1>2. QED
  BY <1>1, OccupiedStep DEF CapacityInv

LEMMA WorkerInvariantStep ==
    ASSUME ~Rehand
    PROVE  TypeOK /\ LedgerInv /\ CapacityInv /\ [Next]_vars
           => (TypeOK /\ LedgerInv /\ CapacityInv)'
<1>1. ASSUME CapacityInv, UNCHANGED vars
      PROVE  CapacityInv'
  BY <1>1 DEF CapacityInv, OneRunPerId, ThreadsAgree, OutsideIsOver, Occupied,
     vars, mainVars, restVars, poolVars, taskVars, runVars, threads
<1>2. ASSUME LedgerInv, UNCHANGED vars
      PROVE  LedgerInv'
  BY <1>2 DEF LedgerInv, vars, mainVars, restVars, poolVars, taskVars, runVars, threads
<1>3. QED
  BY <1>1, <1>2, TypeStep, LedgerInvStep, CapacityInvStep

(* When pod-control never hands this pod a task it had before, at most      *)
(* Capacity handlers run, those of tasks dropped or given up included.      *)
THEOREM WorkerCapacity ==
    ASSUME ~Rehand
    PROVE  Spec => []HandlersWithinCapacity
<1>1. Init => TypeOK /\ LedgerInv /\ CapacityInv
  BY TypeInit, LedgerInvInit, CapacityInvInit
<1>2. TypeOK /\ LedgerInv /\ CapacityInv /\ [Next]_vars
      => (TypeOK /\ LedgerInv /\ CapacityInv)'
  BY WorkerInvariantStep
<1>3. TypeOK /\ LedgerInv /\ CapacityInv => HandlersWithinCapacity
  <2> SUFFICES ASSUME TypeOK, LedgerInv, CapacityInv
               PROVE  HandlersWithinCapacity
    OBVIOUS
  <2> DEFINE H == {n \in Claims : exec[n] \in Handling}
  <2>1. H \subseteq Occupied
    BY DEF Occupied, LedgerInv, Handling
  <2>2. Cardinality(H) <= Cardinality(Occupied) /\ Cardinality(H) \in Nat
    BY <2>1, OccupiedSet, FS_Subset, FS_CardinalityType
  <2>3. QED
    BY <2>2, OccupiedSet, WorkerConstants DEF CapacityInv, HandlersWithinCapacity
<1>4. QED
  BY <1>1, <1>2, <1>3, PTL DEF Spec

(***************************************************************************)
(* What a closed task leaves behind.                                       *)
(***************************************************************************)

(* A task closed under a thread that is on its way to the handler was asked *)
(* to stop, so the check before the handler turns it back.                  *)
TurnedBack ==
    /\ \A n \in Claims : closed[n] /\ exec[n] \in {"start", "check"} => stop[n] # "none"
    /\ OnlyGiveUpAbandons

LEMMA TurnedBackInit == Init => TurnedBack
  BY DEF Init, TurnedBack, OnlyGiveUpAbandons

LEMMA TurnedBackStep ==
    ASSUME TypeOK, LedgerInv, ThreadsAgree, TurnedBack, Next
    PROVE  TurnedBack'
<1>a. /\ 1..claimed \subseteq Claims /\ claimed \in Nat
      /\ RunTypeOK
  BY Visited DEF TypeOK, PoolTypeOK
<1> USE <1>a, ThreadsAgree, LedgerInv, TurnedBack
    DEF ThreadsAgree, LedgerInv, TurnedBack, OnlyGiveUpAbandons, RunTypeOK, Handling, mainVars,
        poolVars, restVars, taskVars, runVars, threads
<1>1. CASE PollDrain \/ PollOnce \/ PollClaim \/ DrainDone \/ ClaimNothing \/ AddDone
    BY <1>1 DEF PollDrain, PollOnce, PollClaim, DrainDone, ClaimNothing, AddDone, ToExit,
     ToDispatch
<1>2. CASE DrainVisit
    BY <1>2, TypeOK, Visited DEF DrainVisit, CloseToRelease, MayRelease,
     TypeOK, PoolTypeOK
<1>3. CASE DrainClose \/ ClaimReply \/ DispatchDone \/ Exit \/ HearDrain
    BY <1>3 DEF DrainClose, ClaimReply, DispatchDone, ToWatch, Exit, HearDrain
<1>4. ASSUME NEW t \in Tasks, AddTask(t)
      PROVE  TurnedBack'
    BY <1>4 DEF AddTask
<1>5. CASE DispatchVisit
    BY <1>5, TypeOK, Visited DEF DispatchVisit, MayDispatch, Dispatchable,
     TypeOK, PoolTypeOK
<1>6. CASE WatchVisit
    BY <1>6, TypeOK, Visited DEF WatchVisit, WatchNext, Reason, TypeOK, PoolTypeOK
<1>7. CASE WatchGiveUp
    BY <1>7, TypeOK, Visited DEF WatchGiveUp, CloseToReport, WatchNext, TypeOK, PoolTypeOK
<1>8. CASE GiveUpClose
    BY <1>8 DEF GiveUpClose
<1>9. ASSUME NEW n \in 1..claimed, BeatHear(n) \/ BeatDrop(n) \/ BeatAsk(n)
      PROVE  TurnedBack'
    BY <1>9 DEF BeatHear, BeatDrop, BeatAsk, Reason
<1>10. ASSUME NEW n \in 1..claimed, PrepLook(n) \/ PrepModels(n) \/ PrepClose(n)
      PROVE  TurnedBack'
    BY <1>10 DEF PrepLook, PrepModels, PrepClose, PrepRelease, PrepReady, CloseToRelease
<1>11. ASSUME NEW n \in 1..claimed, ExecStart(n)
      PROVE  TurnedBack'
    BY <1>11 DEF ExecStart, execElse, ExecTo, CloseToRelease, Reason
<1>12. ASSUME NEW n \in 1..claimed, ExecBegin(n)
      PROVE  TurnedBack'
    BY <1>12 DEF ExecBegin, execElse, ExecCheck, ExecTo, ExecCancelled,
     ExecFailed, ExecReport, ExecQuit, CloseToReport, Reason
<1>13. ASSUME NEW n \in 1..claimed, HandlerReturns(n)
      PROVE  TurnedBack'
    BY <1>13 DEF HandlerReturns, execElse, ExecCheck, ExecTo, ExecCancelled,
     ExecFailed, ExecReport, ExecQuit, CloseToReport, Reason
<1>14. ASSUME NEW n \in 1..claimed, HandlerCancelled(n)
      PROVE  TurnedBack'
    BY <1>14 DEF HandlerCancelled, execElse, ExecCancelled, ExecReport,
     ExecQuit, CloseToReport, Reason
<1>15. ASSUME NEW n \in 1..claimed, HandlerFails(n)
      PROVE  TurnedBack'
    BY <1>15 DEF HandlerFails, execElse, ExecFailed, ExecReport, CloseToReport
<1>16. ASSUME NEW n \in 1..claimed, FinishReturns(n)
      PROVE  TurnedBack'
    BY <1>16 DEF FinishReturns, execElse, ExecReport, CloseToReport
<1>17. ASSUME NEW n \in 1..claimed, ExecClose(n) \/ HandlerHears(n) \/ HandlerHangs(n)
      PROVE  TurnedBack'
    BY <1>17 DEF ExecClose, HandlerHears, HandlerHangs, execElse, ExecTo
<1>18. ASSUME NEW n \in 1..claimed, FinalAnswered(n) \/ TimeoutPasses(n) \/ GracePasses(n)
      PROVE  TurnedBack'
    BY <1>18 DEF FinalAnswered, TimeoutPasses, GracePasses
<1>19. ASSUME NEW t \in Tasks, LeaseLost(t) \/ TaskCancelled(t)
      PROVE  TurnedBack'
    BY <1>19 DEF LeaseLost, TaskCancelled
<1>20. QED
  BY Next, <1>1, <1>2, <1>3, <1>4, <1>5, <1>6, <1>7, <1>8, <1>9, <1>10, <1>11,
     <1>12, <1>13, <1>14, <1>15, <1>16, <1>17, <1>18, <1>19
     DEF Next, Main, Beat, Prep, Execute, Ends

(* No drop that races the dispatch, and no release, leaves a handler at     *)
(* work on a task this pod has given back: only a give-up does, and it      *)
(* breaks the worker.  Even when pod-control hands tasks out again.         *)
THEOREM WorkerAbandonsOnlyByGivingUp == Spec => []OnlyGiveUpAbandons
<1>1. Init => TypeOK /\ LedgerInv /\ ThreadsAgree /\ TurnedBack
  BY TypeInit, LedgerInvInit, CapacityInvInit, TurnedBackInit DEF CapacityInv
<1>2. ASSUME TypeOK, LedgerInv, ThreadsAgree, TurnedBack, UNCHANGED vars
      PROVE  (LedgerInv /\ ThreadsAgree /\ TurnedBack)'
  BY <1>2 DEF LedgerInv, ThreadsAgree, TurnedBack, OnlyGiveUpAbandons,
     vars, mainVars, restVars, poolVars, taskVars, runVars, threads
<1>3. TypeOK /\ LedgerInv /\ ThreadsAgree /\ TurnedBack /\ [Next]_vars
      => (TypeOK /\ LedgerInv /\ ThreadsAgree /\ TurnedBack)'
  BY <1>2, TypeStep, LedgerInvStep, ThreadsStep, TurnedBackStep
<1>4. TurnedBack => OnlyGiveUpAbandons
  BY DEF TurnedBack
<1>5. QED
  BY <1>1, <1>3, <1>4, PTL DEF Spec

(* run() has returned: the dict was empty, and stays so. *)
LeftEmpty == mpc \in {"exit", "dead"} => tasks = {}

LEMMA LeftEmptyStep ==
    ASSUME LeftEmpty, Next
    PROVE  LeftEmpty'
<1>1. ASSUME mpc' \in {"exit", "dead"}
      PROVE  tasks = {} /\ tasks' \subseteq tasks
  <2>1. mpc \in {"exit", "dead"} \/ Idle
    BY <1>1
    DEF Next, Main, Beat, Prep, Execute, Ends, PollDrain, PollOnce, PollClaim,
        DrainVisit, DrainClose, DrainDone, ClaimNothing, ClaimReply, AddTask, AddDone,
        DispatchVisit, DispatchDone, ToDispatch, ToWatch, WatchVisit, WatchNext, WatchGiveUp,
        GiveUpClose, Exit, HearDrain, ToExit, BeatHear, BeatDrop, BeatAsk, PrepLook,
        PrepModels, PrepClose, ExecStart, ExecBegin, execElse, HandlerReturns,
        HandlerCancelled, HandlerFails, FinishReturns, ExecClose, HandlerHears, HandlerHangs,
        FinalAnswered, TimeoutPasses, GracePasses, LeaseLost, TaskCancelled, mainVars,
        poolVars, restVars
  <2>2. tasks' \subseteq tasks
    <3>1. CASE Main
      <4>1. ~(\E t \in Tasks : AddTask(t))
        BY <1>1 DEF AddTask
      <4>2. CASE DrainClose \/ WatchGiveUp \/ GiveUpClose
        BY <4>2 DEF DrainClose, WatchGiveUp, GiveUpClose, Popped
      <4>3. CASE \/ PollDrain \/ PollOnce \/ PollClaim \/ DrainVisit \/ DrainDone
                 \/ ClaimNothing \/ ClaimReply \/ AddDone
        BY <4>3 DEF PollDrain, PollOnce, PollClaim, DrainVisit, DrainDone, ClaimNothing,
                    ClaimReply, AddDone, poolVars, restVars
      <4>4. CASE DispatchVisit \/ DispatchDone \/ WatchVisit \/ Exit
        BY <4>4 DEF DispatchVisit, DispatchDone, WatchVisit, Exit, poolVars, restVars
      <4> QED
        BY <3>1, <4>1, <4>2, <4>3, <4>4 DEF Main
    <3>2. CASE HearDrain \/ \E t \in Tasks : LeaseLost(t) \/ TaskCancelled(t)
      BY <3>2 DEF HearDrain, LeaseLost, TaskCancelled, poolVars, restVars
    <3>3. ASSUME NEW n \in 1..claimed,
                 Beat(n) \/ BeatAsk(n) \/ Prep(n) \/ HandlerHears(n) \/ HandlerHangs(n) \/ Ends(n)
          PROVE  tasks' \subseteq tasks
      BY <3>3 DEF Beat, BeatHear, BeatDrop, BeatAsk, Prep, PrepLook, PrepModels, PrepClose,
                  HandlerHears, HandlerHangs, ExecTo, Ends, FinalAnswered, TimeoutPasses,
                  GracePasses, Popped, poolVars, restVars
    <3>4. ASSUME NEW n \in 1..claimed, Execute(n) PROVE tasks' \subseteq tasks
      <4>1. /\ \A where : ExecTo(n, where) => tasks' = tasks
            /\ \A outcome : ExecReport(n, outcome) => tasks' \subseteq tasks
            /\ ExecQuit(n) => tasks' \subseteq tasks
        BY DEF ExecTo, ExecReport, ExecQuit, Popped
      <4>2. ExecCancelled(n) \/ ExecFailed(n) => tasks' \subseteq tasks
        BY <4>1 DEF ExecCancelled, ExecFailed
      <4>3. \A where : ExecCheck(n, where) => tasks' \subseteq tasks
        BY <4>1, <4>2 DEF ExecCheck
      <4>4. CASE ExecStart(n) \/ ExecBegin(n) \/ ExecClose(n)
        BY <4>1, <4>2, <4>3, <4>4 DEF ExecStart, ExecBegin, ExecClose, Popped
      <4>5. CASE HandlerReturns(n) \/ HandlerCancelled(n) \/ HandlerFails(n) \/ FinishReturns(n)
        BY <4>1, <4>2, <4>3, <4>5
        DEF HandlerReturns, HandlerCancelled, HandlerFails, FinishReturns
      <4> QED
        BY <3>4, <4>4, <4>5 DEF Execute
    <3> QED
      BY <3>1, <3>2, <3>3, <3>4 DEF Next
  <2>3. QED
    BY <2>1, <2>2 DEF LeftEmpty, Idle
<1>2. QED
  BY <1>1 DEF LeftEmpty

(* run() returns only when each claim of this worker has been closed, and   *)
(* no handler is at work unless it was given up.                            *)
THEOREM WorkerExitsQuiet ==
    ASSUME ~Rehand
    PROVE  Spec => []ExitQuiet
<1>1. Init => TypeOK /\ LedgerInv /\ CapacityInv /\ LeftEmpty
  BY TypeInit, LedgerInvInit, CapacityInvInit DEF Init, LeftEmpty
<1>2. ASSUME LeftEmpty, UNCHANGED vars
      PROVE  LeftEmpty'
  BY <1>2 DEF LeftEmpty, vars, mainVars, restVars, poolVars
<1>3. TypeOK /\ LedgerInv /\ CapacityInv /\ LeftEmpty /\ [Next]_vars
      => (TypeOK /\ LedgerInv /\ CapacityInv /\ LeftEmpty)'
  BY <1>2, WorkerInvariantStep, LeftEmptyStep
<1>4. CapacityInv /\ LeftEmpty => ExitQuiet
  BY DEF CapacityInv, LeftEmpty, OutsideIsOver, ExitQuiet
<1>5. QED
  BY <1>1, <1>3, <1>4, PTL DEF Spec
=============================================================================
