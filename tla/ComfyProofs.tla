----------------------------- MODULE ComfyProofs -----------------------------
(***************************************************************************)
(* Of a worker's ComfyUI tasks (Comfy.tla): they are typed, and one that   *)
(* has ended leaves ComfyUI nothing to run, for any number of tasks and    *)
(* whatever ComfyUI does.                                                  *)
(***************************************************************************)
EXTENDS Comfy, SequenceTheorems, WellFoundedInduction, TLAPS

USE ComfyConstants

(***************************************************************************)
(* Facts about sequences.                                                  *)
(***************************************************************************)

(* Where an element first is. *)
LEMMA LeastNatural ==
    ASSUME NEW T, T \subseteq Nat, T # {}
    PROVE  \E n \in T : \A m \in T : n <= m
<1>1. IsWellFoundedOn(OpToRel(<, Nat), Nat)
  BY NatLessThanWellFounded
<1>2. PICK n \in T : \A m \in T : ~(<<m, n>> \in OpToRel(<, Nat))
  <2> HIDE DEF OpToRel
  <2> QED
    BY ONLY <1>1, WFMin, T \subseteq Nat, T # {}
<1>3. \A m \in T : ~(m < n)
  BY <1>2, Zenon DEF OpToRel
<1> QED
  BY <1>3

Once(s) == \A i, j \in DOMAIN s : s[i] = s[j] => i = j

(* What is taken out of a queue leaves no other in it, nor any twice.       *)
LEMMA RemovedIs ==
    ASSUME NEW T, NEW s \in Seq(T), NEW t
    PROVE  LET r == RemoveFirst(s, t) IN
           r \in Seq(T) /\ Range(r) \subseteq Range(s) /\ (Once(s) => Once(r))
<1> DEFINE I == {i \in 1..Len(s) : s[i] = t}
<1>1. CASE I = {}
  <2>1. RemoveFirst(s, t) = s
    BY <1>1 DEF RemoveFirst
  <2> QED
    BY <2>1
<1>2. CASE I # {}
  <2>1. PICK k \in I : \A m \in I : k <= m
    <3>1. I \subseteq Nat
      OBVIOUS
    <3> HIDE DEF I
    <3> QED
      BY <1>2, <3>1, LeastNatural
  <2>2. Min(I) \in I
    BY <2>1 DEF Min
  <2>3. RemoveFirst(s, t) = RemoveAt(s, Min(I))
    BY <1>2 DEF RemoveFirst, SelectInSeq
  <2>4. PICK n \in 1..Len(s) : RemoveFirst(s, t) = RemoveAt(s, n)
    BY <2>2, <2>3
  <2> DEFINE a == SubSeq(s, 1, n - 1)
             b == SubSeq(s, n + 1, Len(s))
             r == RemoveAt(s, n)
             at(i) == IF i < n THEN i ELSE i + 1
  <2>5. /\ a \in Seq(T) /\ Len(a) = n - 1 /\ \A i \in 1..(n - 1) : a[i] = s[i]
        /\ b \in Seq(T) /\ Len(b) = Len(s) - n /\ \A i \in 1..(Len(s) - n) : b[i] = s[n + i]
    OBVIOUS
  <2>6. r \in Seq(T) /\ Len(r) = Len(s) - 1 /\ \A i \in 1..(Len(s) - 1) : r[i] = s[at(i)]
    <3> HIDE DEF a, b
    <3>1. r = a \o b
      BY DEF RemoveAt, a, b
    <3>2. Len(s) \in Nat /\ Len(r) = Len(s) - 1 /\ r \in Seq(T)
      BY <2>5, <3>1
    <3>3. \A i \in 1..(n - 1) : r[i] = s[i]
      BY <2>5, <3>1, <3>2
    <3>4. \A i \in n..(Len(s) - 1) : r[i] = s[i + 1]
      <4> TAKE i \in n..(Len(s) - 1)
      <4>1. i > Len(a) /\ i <= Len(a) + Len(b) /\ i - Len(a) = i - (n - 1)
        BY <2>5, <3>2
      <4>2. r[i] = b[i - (n - 1)]
        BY <2>5, <3>1, <4>1
      <4>3. i - (n - 1) \in 1..(Len(s) - n) /\ n + (i - (n - 1)) = i + 1
        BY <3>2
      <4> QED
        BY <2>5, <4>2, <4>3
    <3> QED
      BY <3>2, <3>3, <3>4
  <2>7. DOMAIN r = 1..(Len(s) - 1) /\ DOMAIN s = 1..Len(s)
    BY <2>6
  <2> HIDE DEF r
  <2>8. \A i \in DOMAIN r : at(i) \in DOMAIN s /\ r[i] = s[at(i)]
    BY <2>4, <2>6, <2>7
  <2>9. \A i, j \in DOMAIN r : at(i) = at(j) => i = j
    BY <2>7
  <2> HIDE DEF at
  <2>10. Range(r) \subseteq Range(s) /\ (Once(s) => Once(r))
    BY <2>8, <2>9 DEF Range, Once
  <2> QED
    BY <2>4, <2>6, <2>10 DEF r
<1> QED
  BY <1>1, <1>2

(* A queue's head and what is behind it. *)
LEMMA HeadOf ==
    ASSUME NEW T, NEW s \in Seq(T), s # <<>>
    PROVE  /\ Head(s) \in T /\ Head(s) \in Range(s) /\ Tail(s) \in Seq(T)
           /\ Range(Tail(s)) \subseteq Range(s)
           /\ Once(s) => Once(Tail(s)) /\ Head(s) \notin Range(Tail(s))
<1>1. /\ Len(s) >= 1 /\ Head(s) = s[1] /\ Len(Tail(s)) = Len(s) - 1
      /\ \A i \in 1..(Len(s) - 1) : Tail(s)[i] = s[i + 1]
      /\ Tail(s) \in Seq(T)
  OBVIOUS
<1>2. DOMAIN s = 1..Len(s) /\ DOMAIN Tail(s) = 1..(Len(s) - 1)
  BY <1>1
<1> DEFINE r == Tail(s)
<1> HIDE DEF r
<1> QED
  BY <1>1, <1>2 DEF Once, Range

LEMMA AppendedOf ==
    ASSUME NEW T, NEW s \in Seq(T), NEW e \in T
    PROVE  /\ Append(s, e) \in Seq(T) /\ Range(Append(s, e)) = Range(s) \cup {e}
           /\ Once(s) /\ e \notin Range(s) => Once(Append(s, e))
<1> DEFINE r == Append(s, e)
<1>1. /\ r \in Seq(T) /\ Len(r) = Len(s) + 1 /\ r[Len(s) + 1] = e
      /\ \A i \in 1..Len(s) : r[i] = s[i]
  OBVIOUS
<1>2. DOMAIN s = 1..Len(s) /\ DOMAIN r = 1..(Len(s) + 1)
  BY <1>1
<1> HIDE DEF r
<1>3. Range(r) = Range(s) \cup {e}
  BY <1>1, <1>2 DEF Range
<1>4. Once(s) /\ e \notin Range(s) => Once(r)
  BY <1>1, <1>2 DEF Range, Once
<1> QED
  BY <1>1, <1>3, <1>4 DEF r

(***************************************************************************)
(* Types.                                                                  *)
(***************************************************************************)

Places == {"prepare", "connect", "submit", "check", "recv", "delete", "interrupt",
           "grace", "collect", "finish", "failed", "lost", "stopped", "done"}
Messages == Ends \cup {"progress", "over"}
Facts == {"finished", "asked", "late", "quiet", "over"}

(* The types of what a task's own steps write, and of the rest. *)
RunType ==
    /\ pc \in [Tasks -> Places]
    /\ ws \in [Tasks -> {"none", "open", "dropped"}]
    /\ facts \in [Tasks -> SUBSET Facts]
    /\ told \in [Tasks -> Seq(Messages)]

OutcomeType ==
    /\ seen \in [Tasks -> Ends \cup {"none"}]
    /\ how \in [Tasks -> {"none", "interrupted", "restarted", "unstopped"}]

ComfyType ==
    /\ hist \in [Tasks -> Ends \cup {"none"}]
    /\ up \in BOOLEAN /\ deaths \in 0..MaxDeaths
    /\ pending \in Seq(Tasks) /\ running \in Tasks \cup {"none"}
    /\ state \in Ends \cup {"going"} /\ node \in {"fine", "asked", "deaf"}

LEMMA TypeParts == TypeOK <=> RunType /\ OutcomeType /\ ComfyType
BY DEF TypeOK, RunType, OutcomeType, ComfyType, Places, Messages, Facts

LEMMA TypeInit == Init => RunType /\ OutcomeType /\ ComfyType
BY DEF Init, RunType, OutcomeType, ComfyType, Places

LEMMA ToldType ==
    ASSUME RunType, NEW t \in Tasks, NEW m \in Messages
    PROVE  /\ Told(t, m) \in [Tasks -> Seq(Messages)]
           /\ \A u \in Tasks : u # t => Told(t, m)[u] = told[u]
           /\ Told(t, m)[t] \in {told[t], Append(told[t], m)}
BY DEF RunType, Told

LEMMA ToType ==
    ASSUME RunType, NEW t \in Tasks, NEW l \in Places, To(t, l)
    PROVE  /\ pc' \in [Tasks -> Places] /\ pc'[t] = l
           /\ \A u \in Tasks \ {t} : pc'[u] = pc[u]
BY DEF RunType, To

LEMMA ExitType ==
    ASSUME RunType, NEW t \in Tasks, NEW l \in Places, Exit(t, l)
    PROVE  /\ RunType'
           /\ pc'[t] = l /\ told'[t] = <<>> /\ facts'[t] = {}
           /\ \A u \in Tasks \ {t} : pc'[u] = pc[u] /\ told'[u] = told[u] /\ facts'[u] = facts[u]
<1>1. pc' \in [Tasks -> Places] /\ pc'[t] = l /\ \A u \in Tasks \ {t} : pc'[u] = pc[u]
  BY ToType DEF Exit
<1>2. /\ ws' \in [Tasks -> {"none", "open", "dropped"}]
      /\ facts' \in [Tasks -> SUBSET Facts]
      /\ told' \in [Tasks -> Seq(Messages)]
      /\ told'[t] = <<>> /\ facts'[t] = {}
      /\ \A u \in Tasks \ {t} : told'[u] = told[u] /\ facts'[u] = facts[u]
  BY DEF RunType, Exit
<1> QED
  BY <1>1, <1>2 DEF RunType

LEMMA HearType ==
    ASSUME RunType, NEW t \in Tasks, told[t] # <<>>, Hear(t)
    PROVE  /\ told' \in [Tasks -> Seq(Messages)]
           /\ told'[t] = Tail(told[t])
           /\ \A u \in Tasks \ {t} : told'[u] = told[u]
<1>1. Tail(told[t]) \in Seq(Messages)
  BY HeadOf DEF RunType
<1> QED
  BY <1>1 DEF RunType, Hear

LEMMA EmptiesType ==
    ASSUME ComfyType, Empties, deaths < MaxDeaths, up' \in BOOLEAN
    PROVE  ComfyType'
BY DEF ComfyType, Empties, Rests

LEMMA TypeEnvironment ==
    ASSUME RunType, OutcomeType, ComfyType, Environment
    PROVE  RunType' /\ OutcomeType' /\ ComfyType'
<1> USE DEF runVars, comfyVars
<1>1. CASE Takes
  <2>1. Head(pending) \in Tasks /\ Tail(pending) \in Seq(Tasks)
    BY <1>1, HeadOf DEF Takes, ComfyType
  <2>2. told' \in [Tasks -> Seq(Messages)]
    BY <1>1, <2>1, ToldType DEF Takes, Messages
  <2> QED
    BY <1>1, <2>1, <2>2 DEF Takes, RunType, OutcomeType, ComfyType
<1>2. CASE Progresses
  <2>1. told' \in [Tasks -> Seq(Messages)]
    BY <1>2, ToldType DEF Progresses, Going, Messages, ComfyType
  <2> QED
    BY <1>2, <2>1 DEF Progresses, RunType, OutcomeType, ComfyType
<1>3. CASE Wedges
  BY <1>3 DEF Wedges, RunType, OutcomeType, ComfyType
<1>4. CASE Comes
  <2>1. PICK end \in Ends : state' = end /\ told' = Told(running, end)
    BY <1>4 DEF Comes, Ends
  <2>2. told' \in [Tasks -> Seq(Messages)]
    BY <1>4, <2>1, ToldType DEF Comes, Going, Messages, ComfyType
  <2> QED
    BY <1>4, <2>1, <2>2 DEF Comes, RunType, OutcomeType, ComfyType
<1>5. CASE Leaves
  <2>1. running \in Tasks /\ state \in Ends
    BY <1>5 DEF Leaves, ComfyType
  <2>2. told' \in [Tasks -> Seq(Messages)]
    BY <1>5, <2>1, ToldType DEF Leaves, Messages
  <2>3. hist' \in [Tasks -> Ends \cup {"none"}]
    BY <1>5, <2>1 DEF Leaves, ComfyType
  <2> QED
    BY <1>5, <2>2, <2>3 DEF Leaves, Rests, RunType, OutcomeType, ComfyType
<1>6. CASE Dies
  <2>1. ws' \in [Tasks -> {"none", "open", "dropped"}]
    BY <1>6 DEF Dies, Dropped, RunType
  <2>2. ComfyType'
    BY <1>6, EmptiesType DEF Dies
  <2> QED
    BY <1>6, <2>1, <2>2 DEF Dies, RunType, OutcomeType
<1>7. CASE Rises
  BY <1>7 DEF Rises, RunType, OutcomeType, ComfyType
<1> QED
  BY <1>1, <1>2, <1>3, <1>4, <1>5, <1>6, <1>7 DEF Environment

LEMMA TypeTask ==
    ASSUME RunType, OutcomeType, ComfyType, NEW t \in Tasks,
           Step(t) \/ Late(t) \/ Quiet(t) \/ Over(t) \/ Ask(t)
    PROVE  RunType' /\ OutcomeType' /\ ComfyType'
<1> USE DEF comfyVars
<1>0. \A l \in {"connect", "failed", "submit", "check", "lost", "delete", "recv", "collect",
               "interrupt", "grace", "stopped", "finish", "done"} : l \in Places
  BY DEF Places
<1>1. CASE Prepare(t)
  BY <1>0, <1>1, ToType DEF Prepare, RunType, OutcomeType, ComfyType
<1>2. CASE Connect(t)
  <2>1. ws' \in [Tasks -> {"none", "open", "dropped"}]
    BY <1>2 DEF Connect, RunType
  <2>2. pc' \in [Tasks -> Places]
    BY <1>0, <1>2, ToType DEF Connect
  <2> QED
    BY <1>2, <2>1, <2>2 DEF Connect, RunType, OutcomeType, ComfyType
<1>3. CASE Submit(t)
  <2>1. RunType'
    <3>1. CASE To(t, "check") /\ Stay
      BY <1>0, <3>1, ToType DEF Stay, RunType
    <3> QED
      BY <1>0, <1>3, <3>1, ExitType DEF Submit
  <2>2. pending' \in Seq(Tasks)
    BY <1>3, AppendedOf DEF Submit, ComfyType
  <2> QED
    BY <1>3, <2>1, <2>2 DEF Submit, OutcomeType, ComfyType
<1>4. CASE Abort(t)
  <2>1. facts' \in [Tasks -> SUBSET Facts]
    BY <1>4 DEF Abort, RunType
  <2>2. pc' \in [Tasks -> Places]
    BY <1>0, <1>4, ToType DEF Abort
  <2> QED
    BY <1>4, <2>1, <2>2 DEF Abort, RunType, OutcomeType, ComfyType
<1>5. CASE Look(t)
  <2>1. RunType'
    <3>1. ASSUME NEW l \in {"recv"}, To(t, l), Stay PROVE RunType'
      BY <1>0, <3>1, ToType DEF Stay, RunType
    <3> QED
      BY <1>0, <1>5, <3>1, ExitType DEF Look
  <2>2. seen' \in [Tasks -> Ends \cup {"none"}]
    <3>1. \A got \in Answer(hist[t], "none") : got \in Ends \cup {"none"}
      BY DEF Answer, ComfyType
    <3> QED
      BY <1>5, <3>1 DEF Look, OutcomeType
  <2> QED
    BY <1>5, <2>1, <2>2 DEF Look, OutcomeType, ComfyType
<1>6. CASE Recv(t)
  <2>1. RunType'
    <3>1. CASE Exit(t, "failed")
      BY <1>0, <3>1, ExitType
    <3>2. CASE To(t, "check") /\ told[t] # <<>> /\ Hear(t) /\ UNCHANGED ws
               /\ facts' = [facts EXCEPT ![t] = Refreshed(t) \cup
                      (IF Head(told[t]) \in {"success", "over"} THEN {"finished"} ELSE {})]
      <4>1. facts' \in [Tasks -> SUBSET Facts]
        BY <3>2 DEF Refreshed, Facts, RunType
      <4>2. told' \in [Tasks -> Seq(Messages)]
        BY <3>2, HearType
      <4>3. pc' \in [Tasks -> Places]
        BY <1>0, <3>2, ToType
      <4> QED
        BY <3>2, <4>1, <4>2, <4>3 DEF RunType
    <3>3. CASE To(t, "check") /\ UNCHANGED told
               /\ ws' = [ws EXCEPT ![t] = IF @ = "dropped" THEN "none" ELSE @]
               /\ facts' = [facts EXCEPT ![t] = Refreshed(t)]
      <4>1. facts' \in [Tasks -> SUBSET Facts]
        BY <3>3 DEF Refreshed, Facts, RunType
      <4>2. ws' \in [Tasks -> {"none", "open", "dropped"}]
        BY <3>3 DEF RunType
      <4>3. pc' \in [Tasks -> Places]
        BY <1>0, <3>3, ToType
      <4> QED
        BY <3>3, <4>1, <4>2, <4>3 DEF RunType
    <3> QED
      BY <1>6, <3>1, <3>2, <3>3 DEF Recv
  <2> QED
    BY <1>6, <2>1 DEF Recv, OutcomeType, ComfyType
<1>7. CASE Delete(t)
  <2>1. pc' \in [Tasks -> Places]
    BY <1>0, <1>7, ToType DEF Delete
  <2>2. pending' \in Seq(Tasks)
    BY <1>7, RemovedIs DEF Delete, ComfyType
  <2> QED
    BY <1>7, <2>1, <2>2 DEF Delete, RunType, OutcomeType, ComfyType
<1>8. CASE Interrupt(t)
  <2>1. pc' \in [Tasks -> Places]
    BY <1>0, <1>8, ToType DEF Interrupt
  <2>2. node' \in {"fine", "asked", "deaf"}
    BY <1>8 DEF Interrupt, ComfyType
  <2> QED
    BY <1>8, <2>1, <2>2 DEF Interrupt, RunType, OutcomeType, ComfyType
<1>9. CASE Grace(t)
  <2>1. CASE Has(t, "interrupted")
    <3>1. how' \in [Tasks -> {"none", "interrupted", "restarted", "unstopped"}]
      BY <2>1 DEF Has, OutcomeType
    <3> QED
      BY <1>0, <1>9, <2>1, <3>1, ExitType DEF Has, Grace, OutcomeType, ComfyType
  <2>2. CASE told[t] # <<>> /\ Hear(t) /\ UNCHANGED <<pc, how, ws, facts>>
    BY <1>9, <2>2, HearType DEF Grace, RunType, OutcomeType, ComfyType
  <2>3. CASE ws' = [ws EXCEPT ![t] = "none"] /\ UNCHANGED <<pc, how, told, facts>>
    <3>1. ws' \in [Tasks -> {"none", "open", "dropped"}]
      BY <2>3 DEF RunType
    <3> QED
      BY <1>9, <2>3, <3>1 DEF Grace, RunType, OutcomeType, ComfyType
  <2> QED
    BY <1>9, <2>1, <2>2, <2>3 DEF Grace
<1>10. CASE Restart(t)
  <2>1. CASE Has(t, "unstopped") /\ UNCHANGED comfyVars
    <3>1. how' \in [Tasks -> {"none", "interrupted", "restarted", "unstopped"}]
      BY <2>1 DEF Has, OutcomeType
    <3> QED
      BY <1>0, <1>10, <2>1, <3>1, ExitType DEF Has, Restart, OutcomeType, ComfyType
  <2>2. CASE /\ deaths < MaxDeaths /\ up' = TRUE /\ Empties
             /\ To(t, "stopped") /\ how' = [how EXCEPT ![t] = "restarted"]
             /\ ws' = [Dropped EXCEPT ![t] = "none"] /\ told' = [told EXCEPT ![t] = <<>>]
             /\ facts' = [facts EXCEPT ![t] = {}]
    <3>1. ws' \in [Tasks -> {"none", "open", "dropped"}]
      BY <2>2 DEF Dropped, RunType
    <3>2. told' \in [Tasks -> Seq(Messages)] /\ facts' \in [Tasks -> SUBSET Facts]
      BY <2>2 DEF RunType
    <3>3. pc' \in [Tasks -> Places]
      BY <1>0, <2>2, ToType
    <3>4. how' \in [Tasks -> {"none", "interrupted", "restarted", "unstopped"}]
      BY <2>2 DEF OutcomeType
    <3>5. ComfyType'
      BY <2>2, EmptiesType
    <3> QED
      BY <1>10, <3>1, <3>2, <3>3, <3>4, <3>5 DEF Restart, RunType, OutcomeType
  <2> QED
    BY <1>10, <2>1, <2>2 DEF Restart
<1>11. CASE Collect(t) \/ Finish(t)
  BY <1>0, <1>11, ToType DEF Collect, Finish, RunType, OutcomeType, ComfyType
<1>12. CASE Late(t) \/ Quiet(t) \/ Over(t) \/ Ask(t)
  <2>1. \E f \in Facts : facts' = [facts EXCEPT ![t] = @ \cup {f}]
    BY <1>12 DEF Late, Quiet, Over, Ask, Passes, Fact, Facts
  <2>2. facts' \in [Tasks -> SUBSET Facts]
    BY <2>1 DEF RunType
  <2> QED
    BY <1>12, <2>2 DEF Late, Quiet, Over, Ask, Passes, RunType, OutcomeType, ComfyType
<1> QED
  BY <1>1, <1>2, <1>3, <1>4, <1>5, <1>6, <1>7, <1>8, <1>9, <1>10, <1>11, <1>12 DEF Step

LEMMA TypeStep ==
    RunType /\ OutcomeType /\ ComfyType /\ [Next]_vars
    => RunType' /\ OutcomeType' /\ ComfyType'
<1> SUFFICES ASSUME RunType, OutcomeType, ComfyType, [Next]_vars
             PROVE  RunType' /\ OutcomeType' /\ ComfyType'
  OBVIOUS
<1>1. CASE UNCHANGED vars
  BY <1>1 DEF vars, runVars, comfyVars, RunType, OutcomeType, ComfyType
<1> QED
  BY <1>1, TypeEnvironment, TypeTask DEF Next

(* Every variable keeps its type. *)
THEOREM ComfyTypes == Spec => []TypeOK
<1>1. Spec => [](RunType /\ OutcomeType /\ ComfyType)
  BY TypeInit, TypeStep, PTL DEF Spec
<1> QED
  BY <1>1, TypeParts, PTL

(***************************************************************************)
(* Nothing is left going.  A prompt is spent when ComfyUI has nothing of   *)
(* it to run any more; until then its task has been told nothing of an end *)
(* and is on its way, or has given up knowing that it is not at rest.      *)
(***************************************************************************)

Before == {"prepare", "connect", "submit"}

Spent(t) == t \notin Range(pending) /\ (running = t => state # "going")

(* Nothing of a prompt is anywhere before it is submitted. *)
Unsent(t) ==
    /\ t \notin Range(pending) /\ running # t
    /\ hist[t] = "none" /\ told[t] = <<>> /\ facts[t] = {}

(* Nobody has said that the prompt ended, and its task does not hold that.  *)
Open(t) ==
    /\ hist[t] = "none" /\ Range(told[t]) \subseteq {"progress"}
    /\ "finished" \notin facts[t]
    /\ \/ pc[t] \in Before \cup {"check", "recv", "delete", "interrupt", "grace", "lost"}
       \/ pc[t] = "stopped" /\ how[t] = "unstopped"

(* A prompt has one place in the queue, and none while it runs. *)
QueueOnce == Once(pending) /\ running \notin Range(pending)

UnsentInv == \A t \in Tasks : pc[t] \in Before => Unsent(t)
SpentInv == \A t \in Tasks : Spent(t) \/ Open(t)

Typed == RunType /\ OutcomeType /\ ComfyType
GoingInv == QueueOnce /\ UnsentInv /\ SpentInv

LEMMA GoingInit == Init => GoingInv
<1> SUFFICES ASSUME Init PROVE GoingInv
  OBVIOUS
<1>1. pending = <<>> /\ Range(pending) = {}
  BY DEF Init, Range
<1>2. \A t \in Tasks : t # "none"
  OBVIOUS
<1> QED
  BY <1>1, <1>2 DEF Init, GoingInv, QueueOnce, Once, UnsentInv, Unsent, SpentInv, Spent, Before

LEMMA QueueStep == Typed /\ GoingInv /\ [Next]_vars => QueueOnce'
<1> SUFFICES ASSUME Typed, GoingInv, [Next]_vars PROVE QueueOnce'
  OBVIOUS
<1> USE DEF comfyVars
<1>0. \A t \in Tasks : t # "none"
  OBVIOUS
<1>1. CASE UNCHANGED <<pending, running>>
  BY <1>1 DEF GoingInv, QueueOnce
<1>2. ASSUME pending' = <<>>, running' = "none" PROVE QueueOnce'
  BY <1>2 DEF QueueOnce, Once, Range
<1>3. CASE Environment
  <2>1. CASE Takes
    BY <2>1, HeadOf DEF Takes, Typed, ComfyType, GoingInv, QueueOnce
  <2>2. CASE Progresses \/ Wedges \/ Comes \/ Rises
    BY <1>1, <2>2 DEF Progresses, Wedges, Comes, Rises
  <2>3. CASE Leaves
    <3>1. Range(pending) \subseteq Tasks
      BY RangeOfSeq DEF Typed, ComfyType, Range
    <3> QED
      BY <1>0, <2>3, <3>1 DEF Leaves, Rests, GoingInv, QueueOnce
  <2>4. CASE Dies
    BY <1>2, <2>4 DEF Dies, Empties, Rests
  <2> QED
    BY <1>3, <2>1, <2>2, <2>3, <2>4 DEF Environment
<1>4. ASSUME NEW t \in Tasks, Step(t) PROVE QueueOnce'
  <2>1. CASE Submit(t)
    <3>1. t \notin Range(pending) /\ running # t
      BY <2>1 DEF Submit, GoingInv, UnsentInv, Unsent, Before
    <3>2. pending' \in {pending, Append(pending, t)} /\ running' = running
      BY <2>1 DEF Submit
    <3>3. Once(pending) /\ running \notin Range(pending) /\ pending \in Seq(Tasks)
      BY DEF Typed, ComfyType, GoingInv, QueueOnce
    <3>4. /\ Once(Append(pending, t))
          /\ Range(Append(pending, t)) = Range(pending) \cup {t}
      BY <3>1, <3>3, AppendedOf
    <3> QED
      BY <3>1, <3>2, <3>3, <3>4 DEF QueueOnce
  <2>2. CASE Delete(t)
    <3>1. pending' \in {pending, RemoveFirst(pending, t)} /\ running' = running
      BY <2>2 DEF Delete
    <3> QED
      BY <3>1, RemovedIs DEF Typed, ComfyType, GoingInv, QueueOnce
  <2>3. CASE Restart(t)
    BY <1>1, <1>2, <2>3 DEF Restart, Empties, Rests
  <2>4. CASE Prepare(t) \/ Connect(t) \/ Abort(t) \/ Look(t) \/ Recv(t) \/ Interrupt(t)
             \/ Grace(t) \/ Collect(t) \/ Finish(t)
    BY <1>1, <2>4 DEF Prepare, Connect, Abort, Look, Recv, Interrupt, Grace, Collect, Finish
  <2> QED
    BY <1>4, <2>1, <2>2, <2>3, <2>4 DEF Step
<1>5. ASSUME NEW t \in Tasks, Late(t) \/ Quiet(t) \/ Over(t) \/ Ask(t) PROVE QueueOnce'
  BY <1>1, <1>5 DEF Late, Quiet, Over, Ask, Passes
<1>6. CASE UNCHANGED vars
  BY <1>1, <1>6 DEF vars
<1> QED
  BY <1>3, <1>4, <1>5, <1>6 DEF Next

(* A step that tells a task nothing of an end, and gives ComfyUI nothing of *)
(* it to run, leaves it as it was.                                          *)
LEMMA LeftAlone ==
    ASSUME NEW t \in Tasks, t \in Range(pending)' => t \in Range(pending),
           running' = t => running = t /\ state' = state,
           hist'[t] \in {hist[t], "none"}, told'[t] = told[t],
           UNCHANGED <<pc[t], facts[t], how[t]>>
    PROVE  /\ Spent(t) => Spent(t)'
           /\ Unsent(t) => Unsent(t)'
           /\ Open(t) => Open(t)'
BY DEF Spent, Unsent, Open

LEMMA EnvironmentKeeps ==
    ASSUME Typed, GoingInv, Environment, NEW t \in Tasks
    PROVE  /\ UNCHANGED <<pc, facts, how>>
           /\ Spent(t) => Spent(t)'
           /\ Unsent(t) => Unsent(t)'
           /\ Open(t) => Spent(t)' \/ Open(t)'
<1> USE DEF runVars, comfyVars
<1>0. t # "none" /\ \A u \in Range(pending) : u \in Tasks
  BY RangeOfSeq DEF Typed, ComfyType, Range
<1>1. UNCHANGED <<pc, facts, how>>
  BY DEF Environment, Takes, Progresses, Wedges, Comes, Leaves, Dies, Rises
<1>2. CASE Takes
  <2> DEFINE h == Head(pending)
  <2>1. /\ h \in Tasks /\ h \in Range(pending) /\ Range(pending') \subseteq Range(pending)
        /\ running' = h /\ told' = Told(h, "progress") /\ hist' = hist
    BY <1>2, HeadOf DEF Takes, Typed, ComfyType
  <2> HIDE DEF h
  <2>2. CASE t # h
    <3>1. told'[t] = told[t]
      BY <2>1, <2>2, ToldType DEF Typed, Messages
    <3> QED
      BY <1>1, <2>1, <2>2, <3>1, LeftAlone
  <2>3. CASE t = h
    <3>1. ~Spent(t) /\ ~Unsent(t)
      BY <2>1, <2>3 DEF Spent, Unsent
    <3>2. told'[t] \in {told[t], Append(told[t], "progress")}
      BY <2>1, <2>3, ToldType DEF Typed, Messages
    <3>3. Range(told[t]) \subseteq {"progress"} => Range(told'[t]) \subseteq {"progress"}
      <4>1. told[t] \in Seq(Messages) /\ "progress" \in Messages
        BY DEF Typed, RunType, Messages
      <4>2. Range(Append(told[t], "progress")) = Range(told[t]) \cup {"progress"}
        BY <4>1, AppendedOf
      <4> QED
        BY <3>2, <4>2
    <3> QED
      BY <1>1, <2>1, <3>1, <3>3 DEF Open
  <2> QED
    BY <2>2, <2>3
<1>3. CASE Progresses
  <2>1. /\ running \in Tasks /\ told' = Told(running, "progress")
        /\ UNCHANGED <<pending, running, state, hist>>
    BY <1>3 DEF Progresses, Going, Typed, ComfyType
  <2>2. CASE t # running
    <3>1. told'[t] = told[t]
      BY <2>1, <2>2, ToldType DEF Typed, Messages
    <3> QED
      BY <1>1, <2>1, <2>2, <3>1, LeftAlone
  <2>3. CASE t = running
    <3>1. ~Spent(t) /\ ~Unsent(t)
      BY <1>3, <2>3 DEF Spent, Unsent, Progresses, Going
    <3>2. told'[t] \in {told[t], Append(told[t], "progress")}
      BY <2>1, <2>3, ToldType DEF Typed, Messages
    <3>3. Range(told[t]) \subseteq {"progress"} => Range(told'[t]) \subseteq {"progress"}
      <4>1. told[t] \in Seq(Messages) /\ "progress" \in Messages
        BY DEF Typed, RunType, Messages
      <4>2. Range(Append(told[t], "progress")) = Range(told[t]) \cup {"progress"}
        BY <4>1, AppendedOf
      <4> QED
        BY <3>2, <4>2
    <3> QED
      BY <1>1, <2>1, <3>1, <3>3 DEF Open
  <2> QED
    BY <2>2, <2>3
<1>4. CASE Wedges \/ Rises
  <2>1. UNCHANGED <<pending, running, state, hist, told>>
    BY <1>4 DEF Wedges, Rises
  <2> QED
    BY <1>1, <2>1, LeftAlone
<1>5. CASE Comes
  <2>1. PICK end \in Ends : state' = end /\ told' = Told(running, end)
    BY <1>5 DEF Comes, Ends
  <2>2. /\ running \in Tasks /\ running \notin Range(pending)
        /\ UNCHANGED <<pending, running, hist>>
    BY <1>5 DEF Comes, Going, Typed, ComfyType, GoingInv, QueueOnce
  <2>3. CASE t # running
    <3>1. told'[t] = told[t]
      BY <2>1, <2>2, <2>3, ToldType DEF Typed, Messages
    <3> QED
      BY <1>1, <2>2, <2>3, <3>1, LeftAlone
  <2>4. CASE t = running
    <3>1. Spent(t)' /\ ~Unsent(t)
      BY <2>1, <2>2, <2>4 DEF Spent, Unsent, Ends
    <3> QED
      BY <1>1, <3>1
  <2> QED
    BY <2>3, <2>4
<1>6. CASE Leaves
  <2>1. /\ running \in Tasks /\ running \notin Range(pending) /\ state \in Ends
        /\ running' = "none" /\ pending' = pending
        /\ hist' = [hist EXCEPT ![running] = state] /\ told' = Told(running, "over")
    BY <1>6 DEF Leaves, Rests, Typed, ComfyType, GoingInv, QueueOnce
  <2>2. CASE t # running
    <3>1. told'[t] = told[t] /\ hist'[t] = hist[t]
      BY <2>1, <2>2, ToldType DEF Typed, ComfyType, Messages
    <3> QED
      BY <1>0, <1>1, <2>1, <2>2, <3>1, LeftAlone
  <2>3. CASE t = running
    <3>1. Spent(t)' /\ ~Unsent(t)
      BY <1>0, <2>1, <2>3 DEF Spent, Unsent
    <3> QED
      BY <1>1, <3>1
  <2> QED
    BY <2>2, <2>3
<1>7. CASE Dies
  <2>1. pending' = <<>> /\ running' = "none" /\ hist' = [u \in Tasks |-> "none"]
        /\ told' = told
    BY <1>7 DEF Dies, Empties, Rests
  <2>2. t \notin Range(pending)'
    BY <2>1 DEF Range
  <2> QED
    BY <1>0, <1>1, <2>1, <2>2, LeftAlone
<1> QED
  BY <1>2, <1>3, <1>4, <1>5, <1>6, <1>7 DEF Environment

Acts(t) == Step(t) \/ Late(t) \/ Quiet(t) \/ Over(t) \/ Ask(t)

(* Of a task that is not to be submitted ComfyUI gets nothing more to run.  *)
LEMMA NothingAdded ==
    ASSUME Typed, GoingInv, NEW t \in Tasks, NEW u \in Tasks, Acts(u), ~(u = t /\ Submit(u))
    PROVE  /\ t \in Range(pending)' => t \in Range(pending)
           /\ running' = t => running = t /\ state' = state
           /\ hist'[t] \in {hist[t], "none"}
<1> USE DEF comfyVars
<1>0. t # "none"
  OBVIOUS
<1>1. CASE UNCHANGED <<pending, running, state, hist>>
  BY <1>1
<1>2. CASE Submit(u)
  <2>1. pending' \in {pending, Append(pending, u)} /\ UNCHANGED <<running, state, hist>>
    BY <1>2 DEF Submit
  <2>2. Range(pending') \subseteq Range(pending) \cup {u}
    BY <2>1, AppendedOf DEF Typed, ComfyType
  <2> QED
    BY <1>2, <2>1, <2>2
<1>3. CASE Delete(u)
  <2>1. pending' \in {pending, RemoveFirst(pending, u)} /\ UNCHANGED <<running, state, hist>>
    BY <1>3 DEF Delete
  <2>2. Range(pending') \subseteq Range(pending)
    BY <2>1, RemovedIs DEF Typed, ComfyType
  <2> QED
    BY <2>1, <2>2
<1>4. CASE Restart(u)
  <2>1. CASE Empties
    <3>1. pending' = <<>> /\ running' = "none" /\ hist' = [v \in Tasks |-> "none"]
      BY <2>1 DEF Empties, Rests
    <3>2. t \notin Range(pending)'
      BY <3>1 DEF Range
    <3> QED
      BY <1>0, <3>1, <3>2
  <2> QED
    BY <1>1, <1>4, <2>1 DEF Restart
<1>5. CASE Prepare(u) \/ Connect(u) \/ Abort(u) \/ Look(u) \/ Recv(u) \/ Interrupt(u)
           \/ Grace(u) \/ Collect(u) \/ Finish(u) \/ Late(u) \/ Quiet(u) \/ Over(u) \/ Ask(u)
  BY <1>1, <1>5 DEF Prepare, Connect, Abort, Look, Recv, Interrupt, Grace, Collect, Finish,
                    Late, Quiet, Over, Ask, Passes
<1> QED
  BY <1>2, <1>3, <1>4, <1>5 DEF Acts, Step

(* A task writes nothing of another's. *)
LEMMA OthersKeep ==
    ASSUME Typed, NEW t \in Tasks, NEW u \in Tasks, u # t, Acts(u)
    PROVE  UNCHANGED <<pc[t], facts[t], how[t], told[t]>>
<1> USE DEF To, Stay, Exit, Typed, RunType, OutcomeType
<1>1. CASE Prepare(u) \/ Connect(u) \/ Submit(u) \/ Abort(u) \/ Look(u)
  BY <1>1 DEF Prepare, Connect, Submit, Abort, Look
<1>2. CASE Recv(u)
  BY <1>2 DEF Recv, Hear
<1>3. CASE Delete(u) \/ Interrupt(u) \/ Collect(u) \/ Finish(u)
  BY <1>3 DEF Delete, Interrupt, Collect, Finish
<1>4. CASE Grace(u)
  BY <1>4 DEF Grace, Has, Hear
<1>5. CASE Restart(u)
  BY <1>5 DEF Restart, Has
<1>6. CASE Late(u) \/ Quiet(u) \/ Over(u) \/ Ask(u)
  BY <1>6 DEF Late, Quiet, Over, Ask, Passes, Fact
<1> QED
  BY <1>1, <1>2, <1>3, <1>4, <1>5, <1>6 DEF Acts, Step

(* Before it is submitted. *)
LEMMA FirstSteps ==
    ASSUME Typed, GoingInv, NEW t \in Tasks, Prepare(t) \/ Connect(t) \/ Submit(t)
    PROVE  (pc'[t] \in Before => Unsent(t)') /\ (Spent(t)' \/ Open(t)')
<1> USE DEF comfyVars
<1>1. Unsent(t) /\ Spent(t)
  BY DEF Prepare, Connect, Submit, GoingInv, UnsentInv, Unsent, Spent, Before
<1>2. CASE Prepare(t) \/ Connect(t)
  BY <1>1, <1>2 DEF Prepare, Connect, Unsent, Spent
<1>3. CASE Submit(t)
  <2>1. pc'[t] \in {"check", "lost", "failed"}
    BY <1>3 DEF Submit, To, Exit, Typed, RunType
  <2>2. told'[t] = <<>> /\ facts'[t] = {} /\ hist'[t] = "none"
    BY <1>1, <1>3 DEF Submit, Stay, Exit, Unsent, Typed, RunType
  <2>3. CASE pc'[t] = "failed"
    <3>1. UNCHANGED <<pending, running, state>>
      BY <1>3, <2>3 DEF Submit, To, Exit, Typed, RunType
    <3> QED
      BY <1>1, <2>1, <3>1 DEF Spent, Before
  <2>4. CASE pc'[t] \in {"check", "lost"}
    <3>1. Range(told'[t]) = {}
      BY <2>2 DEF Range
    <3> QED
      BY <2>2, <2>4, <3>1 DEF Open, Before
  <2> QED
    BY <2>1, <2>3, <2>4
<1> QED
  BY <1>2, <1>3

(* A task whose prompt may still be run or running keeps it in sight. *)
LEMMA OpenSteps ==
    ASSUME Typed, NEW t \in Tasks, Acts(t), Open(t), pc[t] \notin Before
    PROVE  Spent(t)' \/ Open(t)'
<1> USE DEF comfyVars
<1>1. told[t] # <<>> => Head(told[t]) = "progress" /\ Range(Tail(told[t])) \subseteq {"progress"}
  BY HeadOf DEF Open, Typed, RunType
<1>2. CASE Abort(t)
  BY <1>2 DEF Abort, To, Open, Typed, RunType
<1>3. CASE Look(t)
  <2>1. hist[t] = "none" /\ "finished" \notin facts[t]
    BY DEF Open
  <2>2. \A got \in Answer(hist[t], "none") : got = "none"
    BY <2>1 DEF Answer
  <2>3. To(t, "recv") /\ Stay
    BY <1>3, <2>1, <2>2 DEF Look
  <2> QED
    BY <1>3, <2>3 DEF Look, To, Stay, Open, Typed, RunType
<1>4. CASE Recv(t)
  <2>1. CASE told[t] # <<>>
    <3>1. /\ pc'[t] = "check" /\ told'[t] = Tail(told[t])
          /\ facts'[t] = Refreshed(t)
          /\ hist' = hist
      <4>1. /\ To(t, "check") /\ Hear(t) /\ UNCHANGED hist
            /\ facts' = [facts EXCEPT ![t] = Refreshed(t) \cup {}]
        BY <1>1, <1>4, <2>1 DEF Recv
      <4>2. facts'[t] = Refreshed(t)
        BY <4>1 DEF Typed, RunType
      <4> QED
        BY <4>1, <4>2 DEF To, Hear, Typed, RunType
    <3>2. "finished" \notin facts'[t]
      BY <3>1 DEF Refreshed, Open
    <3> QED
      BY <1>1, <2>1, <3>1, <3>2 DEF Open
  <2>2. CASE told[t] = <<>>
    <3>1. pc'[t] = "check" /\ told' = told /\ facts'[t] = Refreshed(t) /\ hist' = hist
      BY <1>4, <2>2 DEF Recv, To, Typed, RunType
    <3>2. "finished" \notin facts'[t]
      BY <3>1 DEF Refreshed, Open
    <3> QED
      BY <3>1, <3>2 DEF Open
  <2> QED
    BY <2>1, <2>2
<1>5. CASE Delete(t) \/ Interrupt(t)
  BY <1>5 DEF Delete, Interrupt, To, Open, Typed, RunType
<1>6. CASE Grace(t)
  <2>1. CASE told[t] # <<>>
    <3>1. Hear(t) /\ UNCHANGED <<pc, how, facts, hist>>
      BY <1>1, <1>6, <2>1 DEF Grace, Ends
    <3>2. told'[t] = Tail(told[t])
      BY <3>1 DEF Hear, Typed, RunType
    <3> QED
      BY <1>1, <2>1, <3>1, <3>2 DEF Open
  <2>2. CASE told[t] = <<>> /\ ws[t] = "dropped"
    BY <1>6, <2>2 DEF Grace, Open
  <2>3. CASE told[t] = <<>> /\ ws[t] # "dropped"
    <3>1. \A got \in Answer(hist[t], "none") : got = "none"
      BY DEF Answer, Open
    <3>2. "none" \in Answer(InQueue(t), "unknown")
      BY <1>6, <2>3, <3>1 DEF Grace, Gone
    <3>3. InQueue(t) = "none"
      BY <3>2 DEF Answer
    <3>4. Spent(t)
      BY <3>3 DEF InQueue, Spent
    <3> QED
      BY <1>6, <3>4 DEF Grace, Spent
  <2> QED
    BY <2>1, <2>2, <2>3
<1>7. CASE Restart(t)
  <2>1. CASE Empties
    BY <2>1 DEF Empties, Rests, Spent, Range
  <2>2. CASE Has(t, "unstopped") /\ UNCHANGED comfyVars
    <3>1. /\ pc'[t] = "stopped" /\ how'[t] = "unstopped" /\ told'[t] = <<>>
          /\ facts'[t] = {} /\ hist' = hist
      BY <2>2 DEF Has, Exit, To, Typed, RunType, OutcomeType
    <3>2. Range(told'[t]) = {}
      BY <3>1 DEF Range
    <3> QED
      BY <3>1, <3>2 DEF Open
  <2> QED
    BY <1>7, <2>1, <2>2 DEF Restart
<1>8. CASE Late(t) \/ Quiet(t) \/ Over(t) \/ Ask(t)
  <2>1. \E f \in Facts \ {"finished"} : facts' = [facts EXCEPT ![t] = @ \cup {f}]
    BY <1>8 DEF Late, Quiet, Over, Ask, Passes, Fact, Facts
  <2>2. "finished" \notin facts'[t]
    BY <2>1 DEF Open, Typed, RunType
  <2> QED
    BY <1>8, <2>2 DEF Late, Quiet, Over, Ask, Passes, Open
<1>9. CASE Prepare(t) \/ Connect(t) \/ Submit(t) \/ Collect(t) \/ Finish(t)
  BY <1>9 DEF Prepare, Connect, Submit, Collect, Finish, Before, Open
<1> QED
  BY <1>2, <1>3, <1>4, <1>5, <1>6, <1>7, <1>8, <1>9 DEF Acts, Step

LEMMA PlacesGone ==
    ASSUME Typed, NEW t \in Tasks, Acts(t), pc[t] \notin Before
    PROVE  pc'[t] \notin Before
<1> USE DEF To, Exit, Typed, RunType, Before
<1>1. CASE Prepare(t) \/ Connect(t) \/ Submit(t)
  BY <1>1 DEF Prepare, Connect, Submit
<1>2. CASE Abort(t) \/ Look(t) \/ Recv(t) \/ Delete(t) \/ Interrupt(t)
  BY <1>2 DEF Abort, Look, Recv, Delete, Interrupt
<1>3. CASE Grace(t) \/ Restart(t)
  BY <1>3 DEF Grace, Restart, Has
<1>4. CASE Collect(t) \/ Finish(t)
  BY <1>4 DEF Collect, Finish
<1>5. CASE Late(t) \/ Quiet(t) \/ Over(t) \/ Ask(t)
  BY <1>5 DEF Late, Quiet, Over, Ask, Passes
<1> QED
  BY <1>1, <1>2, <1>3, <1>4, <1>5 DEF Acts, Step

LEMMA GoingStep == Typed /\ GoingInv /\ [Next]_vars => GoingInv'
<1> SUFFICES ASSUME Typed, GoingInv, [Next]_vars PROVE GoingInv'
  OBVIOUS
<1>1. ASSUME NEW t \in Tasks
      PROVE  (pc'[t] \in Before => Unsent(t)') /\ (Spent(t)' \/ Open(t)')
  <2>0. (pc[t] \in Before => Unsent(t)) /\ (Spent(t) \/ Open(t))
    BY DEF GoingInv, UnsentInv, SpentInv
  <2>1. CASE UNCHANGED vars
    BY <2>0, <2>1, LeftAlone DEF vars, runVars, comfyVars
  <2>2. CASE Environment
    BY <2>0, <2>2, EnvironmentKeeps
  <2>3. ASSUME NEW u \in Tasks, u # t, Acts(u)
        PROVE  (pc'[t] \in Before => Unsent(t)') /\ (Spent(t)' \/ Open(t)')
    <3>1. UNCHANGED <<pc[t], facts[t], how[t], told[t]>>
      BY <2>3, OthersKeep
    <3>2. /\ t \in Range(pending)' => t \in Range(pending)
          /\ running' = t => running = t /\ state' = state
          /\ hist'[t] \in {hist[t], "none"}
      BY <2>3, NothingAdded
    <3> QED
      BY <2>0, <3>1, <3>2, LeftAlone
  <2>4. CASE Acts(t)
    <3>1. CASE Prepare(t) \/ Connect(t) \/ Submit(t)
      BY <3>1, FirstSteps
    <3>2. CASE ~(Prepare(t) \/ Connect(t) \/ Submit(t))
      <4>1. pc[t] \notin Before
        BY <2>4, <3>2 DEF Acts, Step, Abort, Look, Recv, Delete, Interrupt, Grace, Restart,
              Collect, Finish, Late, Quiet, Over, Ask, Passes, Following, Before
      <4>2. pc'[t] \notin Before
        BY <2>4, <4>1, PlacesGone
      <4>3. Spent(t) => Spent(t)'
        <5>1. /\ t \in Range(pending)' => t \in Range(pending)
              /\ running' = t => running = t /\ state' = state
          BY <2>4, <3>2, NothingAdded
        <5> QED
          BY <5>1 DEF Spent
      <4> QED
        BY <2>0, <2>4, <4>1, <4>2, <4>3, OpenSteps
    <3> QED
      BY <3>1, <3>2
  <2> QED
    BY <2>1, <2>2, <2>3, <2>4 DEF Next, Acts
<1> QED
  BY <1>1, QueueStep DEF GoingInv, UnsentInv, SpentInv

(* "a ComfyUI still busy with the last task would run the next one late or  *)
(* not at all": whatever ComfyUI does, forgets or leaves unanswered, and    *)
(* however many tasks there are, a task that has ended leaves it nothing of *)
(* its own to run, but for a stop that said it failed and a prompt whose    *)
(* answer was lost.                                                         *)
THEOREM EndedLeavesNothing == Spec => []NothingLeftGoing
<1>1. Init => Typed
  BY TypeInit DEF Typed
<1>2. Typed /\ [Next]_vars => Typed'
  BY TypeStep DEF Typed
<1>3. GoingInv => NothingLeftGoing
  BY DEF GoingInv, SpentInv, Spent, Open, Before, NothingLeftGoing, Ended, InQueue
<1> QED
  BY <1>1, <1>2, <1>3, GoingInit, GoingStep, PTL DEF Spec
=============================================================================
