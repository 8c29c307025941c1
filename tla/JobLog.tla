------------------------------- MODULE JobLog -------------------------------
(***************************************************************************)
(* One job's record on disk (src/pod_harness/events.py) and the three that *)
(* write it: the job's subprocess (status.py's reporter), the API's thread *)
(* that reaps it and the API's thread that cancels it (serve/jobs.py).     *)
(* Nothing but the file system is between them: no lock is taken around    *)
(* events.jsonl, status.json or the name status.json.tmp.                  *)
(*                                                                         *)
(* A step is one file operation.  What an event says is cut down to what   *)
(* it makes of the job's state; a snapshot also says which events it is    *)
(* merged from, where the code keeps the stages and chunks they report.    *)
(***************************************************************************)
EXTENDS Integers, Sequences, FiniteSets

CONSTANTS
    Steps,    \* bound: the events of the subprocess between its first and its last
    Cancels,  \* may the job be cancelled?
    Kills,    \* bound: may the subprocess of a job nobody cancels die by itself?
    Tears     \* bound: may such a death leave a line without its end?

ASSUME JobLogConstants ==
    /\ Steps \in Nat
    /\ Cancels \in BOOLEAN /\ Kills \in BOOLEAN /\ Tears \in BOOLEAN

Writers == {"child", "reaper", "cancel"}

(* Two names, and at most one file open in each writer, at a time. *)
Files == 1..(Cardinality(Writers) + 2)
NoFile == 0

VARIABLES
    lines,    \* events.jsonl
    content,  \* what each file is, by the disk's own number for it
    status,   \* the file named status.json
    tmp,      \* the file named status.json.tmp
    pc,       \* where each writer is in its emit
    ev, seq, doc, fd,  \* a writer's event, its seq, its snapshot, its open file
    told,     \* events the subprocess has emitted
    failed,   \* one of them said that a stage failed
    over,     \* the last of them was job_done
    proc,     \* the subprocess: not started, running, asked to end, ended
    rc,       \* how it ended: 0 or not
    known,    \* _procs has it
    poll,     \* the long poll: looking for events, or for the state, or over
    cursor,   \* its since_seq
    got       \* the events it was given

logVars == <<lines, content, status, tmp>>
emitVars == <<pc, ev, seq, doc, fd>>
childVars == <<told, failed, over>>
jobVars == <<childVars, proc, rc, known>>
pollVars == <<poll, cursor, got>>
vars == <<logVars, emitVars, jobVars, pollVars>>

TerminalBarFailed == {"done", "cancelled"}

Terminal == {"done", "failed", "cancelled"}

(* A snapshot; a file that holds less than one reads as "unknown". *)
Half == [whole |-> FALSE, job |-> "unknown", seq |-> 0, merged |-> {}]

(* An event: who emits it, its number there, and its job_state ("failed"    *)
(* also for a stage that failed; "" when it leaves the job's state alone).  *)
Event(w, n, job) == [by |-> w, n |-> n, job |-> job]
NoEvent == Event("", 0, "")
Submitted == Event("submit", 1, "running")

(* A line that reads back as an event, and one that does not. *)
Line(e, n) == [event |-> e, seq |-> n, end |-> TRUE]
Lost(ended) == [event |-> NoEvent, seq |-> 0, end |-> ended]
Readable(l) == l.event # NoEvent

(* Submit has emitted its event and started the subprocess; a poller that   *)
(* knows the job asks for all of it.                                        *)
Init ==
    /\ lines = <<Line(Submitted, 1)>>
    /\ status = 1 /\ tmp = NoFile
    /\ content = [f \in Files |->
            IF f = 1 THEN [whole |-> TRUE, job |-> "running", seq |-> 1,
                           merged |-> {Submitted}]
            ELSE Half]
    /\ pc = [w \in Writers |-> "idle"]
    /\ ev = [w \in Writers |-> NoEvent]
    /\ seq = [w \in Writers |-> 0]
    /\ doc = [w \in Writers |-> Half]
    /\ fd = [w \in Writers |-> NoFile]
    /\ told = 0 /\ failed = FALSE /\ over = FALSE
    /\ proc = "runs" /\ rc = 0 /\ known = FALSE
    /\ poll = "since" /\ cursor = 0 /\ got = {}

-----------------------------------------------------------------------------
(* EventLog.emit, one file operation after another. *)

(* A writer begins to emit e. *)
Emit(w, e) ==
    /\ ev' = [ev EXCEPT ![w] = e]
    /\ pc' = [pc EXCEPT ![w] = "seq"]
    /\ UNCHANGED <<seq, doc, fd>>

(* The seq of the last line that reads back, and one more. *)
LastSeq ==
    LET whole == {i \in DOMAIN lines : Readable(lines[i])}
    IN IF whole = {} THEN 0
       ELSE lines[CHOOSE i \in whole : \A j \in whole : j <= i].seq

SeqCounted == 1 + told

NextSeq == LastSeq + 1

EmitSeq(w) ==
    /\ pc[w] = "seq"
    /\ seq' = [seq EXCEPT ![w] = NextSeq]
    /\ pc' = [pc EXCEPT ![w] = "append"]
    /\ UNCHANGED <<logVars, ev, doc, fd, jobVars, pollVars>>

(* The file with l at its end: an unended line swallows what follows it.    *)
Appended(l) ==
    IF lines # <<>> /\ ~lines[Len(lines)].end
    THEN [lines EXCEPT ![Len(lines)] = Lost(l.end)]
    ELSE Append(lines, l)

EmitAppend(w) ==
    /\ pc[w] = "append"
    /\ lines' = Appended(Line(ev[w], seq[w]))
    /\ pc' = [pc EXCEPT ![w] = "read"]
    /\ UNCHANGED <<content, status, tmp, ev, seq, doc, fd, jobVars, pollVars>>

Replaced(old, w) ==
    [whole |-> TRUE, job |-> IF ev[w].job # "" THEN ev[w].job ELSE old.job,
     seq |-> seq[w], merged |-> {ev[w]}]

(* The snapshot with w's event merged in. *)
Merged(old, w) ==
    [whole |-> TRUE,
     job |-> IF ev[w].job # "" THEN ev[w].job ELSE old.job,
     seq |-> seq[w],
     merged |-> old.merged \cup {ev[w]}]

EmitRead(w) ==
    /\ pc[w] = "read"
    /\ doc' = [doc EXCEPT ![w] = Merged(content[status], w)]
    /\ pc' = [pc EXCEPT ![w] = "open"]
    /\ UNCHANGED <<logVars, ev, seq, fd, jobVars, pollVars>>

Unused ==
    CHOOSE f \in Files :
        f # status /\ f # tmp /\ \A w \in Writers : f # fd[w]

EmitOpenInPlace(w) ==
    /\ pc[w] = "open"
    /\ fd' = [fd EXCEPT ![w] = status]
    /\ tmp' = status
    /\ content' = [content EXCEPT ![status] = Half]
    /\ pc' = [pc EXCEPT ![w] = "write"]
    /\ UNCHANGED <<lines, status, ev, seq, doc, jobVars, pollVars>>

(* Opening the temporary name for writing empties what is there. *)
EmitOpen(w) ==
    /\ pc[w] = "open"
    /\ LET f == IF tmp = NoFile THEN Unused ELSE tmp IN
         /\ tmp' = f
         /\ fd' = [fd EXCEPT ![w] = f]
         /\ content' = [content EXCEPT ![f] = Half]
    /\ pc' = [pc EXCEPT ![w] = "write"]
    /\ UNCHANGED <<lines, status, ev, seq, doc, jobVars, pollVars>>

(* The text goes to the file that was opened, whatever its name is now; a   *)
(* longer text another writer put there shows behind it.                    *)
EmitWrite(w) ==
    /\ pc[w] = "write"
    /\ \E text \in {doc[w]} \cup (IF content[fd[w]].whole THEN {Half} ELSE {}) :
            content' = [content EXCEPT ![fd[w]] = text]
    /\ fd' = [fd EXCEPT ![w] = NoFile]
    /\ pc' = [pc EXCEPT ![w] = "replace"]
    /\ UNCHANGED <<lines, status, tmp, ev, seq, doc, jobVars, pollVars>>

(* Renaming it raises when another writer already has. *)
EmitReplace(w) ==
    /\ pc[w] = "replace"
    /\ \/ /\ tmp # NoFile
          /\ status' = tmp /\ tmp' = NoFile
          /\ pc' = [pc EXCEPT ![w] = "emitted"]
       \/ /\ tmp = NoFile
          /\ pc' = [pc EXCEPT ![w] = "raised"]
          /\ UNCHANGED <<status, tmp>>
    /\ UNCHANGED <<lines, content, ev, seq, doc, fd, jobVars, pollVars>>

Emitting(w) ==
    \/ EmitSeq(w) \/ EmitAppend(w) \/ EmitRead(w)
    \/ EmitOpen(w) \/ EmitWrite(w) \/ EmitReplace(w)

-----------------------------------------------------------------------------
(* The subprocess. *)

Alive == proc \in {"runs", "killed"}

Emitted(w) == pc[w] \in {"emitted", "raised"}

(* Nobody has cancelled, so that the subprocess and the reaper take turns.  *)
Alone == pc["cancel"] = "idle"

(* job_start; what the stages, their progress and the chunks say, a stage   *)
(* that failed being said so and the rest going on or not; job_done, "done"  *)
(* only if no stage failed (an optional one too: framework.py's ok is over   *)
(* all results), which alone is said when the wiring is wrong.  An emit that *)
(* raised is swallowed.                                                      *)
ChildEmits ==
    /\ Alive /\ ~over /\ (pc["child"] = "idle" \/ Emitted("child"))
    /\ \E job \in {"running", "", "failed", "done"}, last \in BOOLEAN :
         /\ \/ ~last /\ told = 0 /\ job = "running"
            \/ ~last /\ told \in 1..Steps /\ job \in {"", "failed"}
            \/ last /\ job = IF failed \/ told = 0 THEN "failed" ELSE "done"
         /\ Emit("child", Event("child", told + 1, job))
         /\ failed' = (failed \/ job = "failed")
         /\ over' = last
    /\ told' = told + 1
    /\ UNCHANGED <<logVars, proc, rc, known, pollVars>>

(* It exits as the run went.  Other code than the engine (spec's exec), a    *)
(* reporter without a log and a run that raises exit having said what they   *)
(* will, or nothing, with either code.                                       *)
ChildExits ==
    /\ Alive /\ (pc["child"] = "idle" \/ Emitted("child"))
    /\ proc' = "ended"
    /\ \/ over /\ rc' = IF failed THEN 1 ELSE 0
       \/ ~over /\ rc' \in {0, 1}
    /\ pc' = [pc EXCEPT !["child"] = "off"]
    /\ UNCHANGED <<logVars, ev, seq, doc, fd, childVars, known, pollVars>>

(* Killed by the cancel's SIGTERM, or by something else, wherever it is.    *)
ChildDies ==
    /\ proc = "killed" \/ (proc = "runs" /\ Kills /\ Alone)
    /\ proc' = "ended" /\ rc' = 1
    /\ \/ UNCHANGED lines
       \/ /\ Tears /\ Alone /\ pc["child"] = "append"
          /\ lines' = Appended(Lost(FALSE))
    /\ pc' = [pc EXCEPT !["child"] = "off"]
    /\ fd' = [fd EXCEPT !["child"] = NoFile]
    /\ UNCHANGED <<content, status, tmp, ev, seq, doc, childVars, known, pollVars>>

-----------------------------------------------------------------------------
(* The API: the rest of submit, the reaper and a cancel. *)

Track ==
    /\ ~known /\ pc["reaper"] = "idle"
    /\ known' = TRUE
    /\ pc' = [pc EXCEPT !["reaper"] = "wait"]
    /\ UNCHANGED <<logVars, ev, seq, doc, fd, childVars, proc, rc, pollVars>>

LeftAlone(job) == job \in {"running", "done", "failed"}

(* What the reaper leaves alone: the engine's own verdict. *)
Reported(job) == job \in {"done", "failed"}

(* The process has ended: a cancelled job is said to be cancelled, one that *)
(* reported is left alone, and any other gets its verdict here.             *)
Reap ==
    /\ proc = "ended" /\ pc["reaper"] = "wait"
    /\ known' = FALSE
    /\ LET job == content[status].job IN
         \/ /\ Reported(job)
            /\ pc' = [pc EXCEPT !["reaper"] = "off"]
            /\ UNCHANGED <<ev, seq, doc, fd>>
         \/ /\ ~Reported(job)
            /\ Emit("reaper", Event("reaper", 1,
                    IF job = "cancelled" THEN "cancelled"
                    ELSE IF rc = 0 THEN "done" ELSE "failed"))
    /\ UNCHANGED <<logVars, childVars, proc, rc, pollVars>>

(* A cancel of a job that is known and running: the intent is recorded ...  *)
CancelAsked ==
    /\ Cancels /\ pc["cancel"] = "idle" /\ known /\ Alive
    /\ Emit("cancel", Event("cancel", 1, "cancelled"))
    /\ UNCHANGED <<logVars, jobVars, pollVars>>

(* ... and then the process killed, unless it has ended meanwhile, which    *)
(* raises as the emit may have.                                             *)
CancelKills ==
    /\ pc["cancel"] = "emitted"
    /\ \/ /\ Alive
          /\ proc' = "killed"
          /\ pc' = [pc EXCEPT !["cancel"] = "told"]
       \/ /\ ~Alive
          /\ pc' = [pc EXCEPT !["cancel"] = "raised"]
          /\ UNCHANGED proc
    /\ UNCHANGED <<logVars, ev, seq, doc, fd, childVars, rc, known, pollVars>>

-----------------------------------------------------------------------------
(* The long poll: EventLog.wait and EventLog.since. *)

SinceNext(n) ==
    {i \in DOMAIN lines : Readable(lines[i]) /\ lines[i].seq > n + 1}

Since(n) == {i \in DOMAIN lines : Readable(lines[i]) /\ lines[i].seq > n}

PollSince ==
    /\ poll = "since"
    /\ LET new == Since(cursor) IN
         \/ /\ new # {}
            /\ got' = got \cup {lines[i].event : i \in new}
            /\ cursor' = lines[CHOOSE i \in new : \A j \in new : j <= i].seq
            /\ UNCHANGED poll
         \/ /\ new = {}
            /\ poll' = "status"
            /\ UNCHANGED <<cursor, got>>
    /\ UNCHANGED <<logVars, emitVars, jobVars>>

(* It returns, with nothing, for a job that has ended. *)
PollStatus ==
    /\ poll = "status"
    /\ poll' = IF content[status].job \in Terminal THEN "home" ELSE "since"
    /\ UNCHANGED <<logVars, emitVars, jobVars, cursor, got>>

-----------------------------------------------------------------------------
Next ==
    \/ \E w \in Writers : Emitting(w)
    \/ ChildEmits \/ ChildExits \/ ChildDies
    \/ Track \/ Reap \/ CancelAsked \/ CancelKills
    \/ PollSince \/ PollStatus

Spec == Init /\ [][Next]_vars

(* The API's threads run, and SIGTERM ends the subprocess; what the stages  *)
(* do takes as long as it takes.                                            *)
FairSpec ==
    /\ Spec
    /\ \A w \in {"reaper", "cancel"} : WF_vars(Emitting(w))
    /\ WF_vars(Track) /\ WF_vars(Reap) /\ WF_vars(CancelKills)
    /\ WF_vars(proc = "killed" /\ ChildDies)
    /\ WF_vars(PollSince \/ PollStatus)

-----------------------------------------------------------------------------
(* Properties. *)

Events == [by : Writers \cup {"submit", ""}, n : Nat, job : Terminal \cup {"", "running"}]
Lines == [event : Events, seq : Nat, end : BOOLEAN]
Docs == [whole : BOOLEAN, job : Terminal \cup {"running", "unknown"}, seq : Nat,
         merged : SUBSET Events]

(* Every variable has its type, a writer has a file open just when it is to *)
(* write, and there is always a file to open.                               *)
TypeOK ==
    /\ lines \in Seq(Lines)
    /\ content \in [Files -> Docs]
    /\ status \in Files /\ tmp \in (Files \cup {NoFile}) \ {status}
    /\ pc \in [Writers -> {"idle", "wait", "seq", "append", "read", "open", "write",
                           "replace", "emitted", "raised", "told", "off"}]
    /\ ev \in [Writers -> Events] /\ seq \in [Writers -> Nat] /\ doc \in [Writers -> Docs]
    /\ fd \in [Writers -> Files \cup {NoFile}]
    /\ \A w \in Writers : fd[w] # NoFile <=> pc[w] = "write"
    /\ \E f \in Files : f # status /\ f # tmp /\ \A w \in Writers : f # fd[w]
    /\ told \in 0..(Steps + 2) /\ failed \in BOOLEAN /\ over \in BOOLEAN
    /\ rc \in {0, 1} /\ known \in BOOLEAN
    /\ proc \in {"runs", "killed", "ended"}
    /\ poll \in {"since", "status", "home"} /\ cursor \in Nat /\ got \subseteq Events

(* "Both hold one without colliding on seq" (events.py's EventLog): of two  *)
(* lines that read back, the later one has the greater seq.                 *)
SeqsGrow ==
    Alone =>
    \A i, j \in DOMAIN lines :
        i < j /\ Readable(lines[i]) /\ Readable(lines[j])
        => lines[i].seq < lines[j].seq

(* "A reader never observes a half-written document" (_atomic_write).       *)
StatusWhole == Alone => content[status].whole

Quiet(w) == pc[w] \notin {"seq", "append", "read", "open", "write", "replace"}

Logged == {lines[i].event : i \in DOMAIN lines} \ {NoEvent}

(* "Merge rather than replace": when no emit is under way the snapshot has  *)
(* every event merged in, but the one a process died emitting.              *)
StatusMergesAll ==
    Alone /\ (\A w \in Writers : Quiet(w)) =>
        Logged \ content[status].merged
            \subseteq (IF proc = "ended" THEN {ev["child"]} ELSE {})

(* A poller that moved its cursor past an event was given it.               *)
CursorMissesNothing ==
    Alone =>
    \A i \in DOMAIN lines :
        Readable(lines[i]) /\ lines[i].seq <= cursor => lines[i].event \in got

(* A job cancelled, and told so, is not then called failed ("reporting that *)
(* as failed would make an operator sift deliberate cancellations out").    *)
CancelledNotFailed ==
    pc["cancel"] = "told" /\ pc["reaper"] = "emitted"
    => ev["reaper"].job # "failed"

(* A process that ended leaves no job running: "a crashed job sits at       *)
(* running forever and every poller waits on a process that is gone".       *)
EndSettles ==
    (proc = "ended" /\ known /\ Alone) ~> content[status].job \in Terminal

(* ... nor a poller waiting. *)
PollersGoHome == (proc = "ended" /\ Alone) ~> poll = "home"
=============================================================================
