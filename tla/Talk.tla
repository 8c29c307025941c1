-------------------------------- MODULE Talk --------------------------------
(***************************************************************************)
(* How a pod talks to its control plane (heartbeat.py, podlogs.py, and the *)
(* loops and handlers of local.py, sidecar.py and report.py that use       *)
(* them): beats while there is work, lines of the boot, the report of the  *)
(* end, and log tails when a beat's reply asks for them.                   *)
(*                                                                         *)
(* Three hosts have the client.  podh-boot and the sidecar are one process *)
(* each, whose threads share the client's module globals; under podh-init  *)
(* the heartbeat is a process and so is each podh-report.                  *)
(*                                                                         *)
(* The control plane is the environment: it may be of an age that does not *)
(* know a route or a key, may turn a request away (401), may fail at it,   *)
(* and may leave it unanswered, heard or not.                              *)
(***************************************************************************)
EXTENDS Naturals, Sequences, FiniteSets

CONSTANTS
    Requests, \* the log requests it makes
    Ages,     \* the keys and routes it may know
    Wants,    \* what is asked for: the last n lines of a file, each of a size
              \* as it is read (raw) and as it is sent (text)
    Cap       \* TAIL_MAX_BYTES

ASSUME TalkConstants ==
    /\ Cap \in Nat \ {0}
    /\ Requests \cap {"beat", "line", "end", "none"} = {}
    /\ \A want \in Wants : want.file \in Seq([raw : Nat, text : Nat]) /\ want.n \in Nat

Threads == {"beat", "line", "end"} \cup Requests

Reports == {"line", "end"}

VARIABLES
    host,       \* which process has the client
    known,      \* the keys and routes the control plane knows
    asking,     \* the log request it puts into its replies
    heard,      \* what it has taken of the reports, and of log tails
    pc, keys,   \* each thread, and the newer keys of its POST
    status,     \* what request returned to it
    reply,      \* the log request in the beat's reply
    malformed,  \* the processes whose _LAST_STATUS is 400 or 422
    refused,    \* _BOOT_NUMBERS_REFUSED
    stop,       \* STOP_FILE
    watched,    \* the beats ask for signs of work
    working, fresh,   \* the workload gives them; an activity file changed lately
    busy, done, unsupported,  \* the Responder
    body,       \* request -> the tail it sends
    excused     \* history, of a report: not all of it was answered, or answered
                \* for another reason than its keys, or another thread wrote
                \* _LAST_STATUS before it was read

planeVars == <<host, known, heard>>
globals == <<malformed, refused>>
workVars == <<watched, working, fresh>>
responder == <<busy, done, unsupported, body>>
vars == <<planeVars, asking, pc, keys, status, reply, globals, stop, workVars, responder, excused>>

Routes == {"logs", "boot"}
Keys == {"busy", "stage", "numbers", "reason"}

Uses(h) == CASE h = "init" -> Routes \cup {"stage", "reason"}
             [] h = "boot" -> Routes \cup Keys
             [] h = "sidecar" -> {"boot", "stage", "reason"}

Process(t) == IF host = "init" /\ t \in Reports THEN t ELSE "client"

(* podh-init: PODH_HEARTBEAT_STALE_SEC is 0, or more.  podh-boot never asks *)
(* before it is ready.  The sidecar always asks.                            *)
MayBeWatched(h) ==
    CASE h = "init" -> BOOLEAN [] h = "boot" -> {FALSE} [] h = "sidecar" -> {TRUE}

Init ==
    /\ host \in {"init", "boot", "sidecar"} /\ known \in {age \cap Uses(host) : age \in Ages}
    /\ asking = "none" /\ heard = {}
    /\ pc = [t \in Threads |-> "idle"] /\ keys = [t \in Threads |-> {}]
    /\ status = [t \in Threads |-> 0] /\ reply = "none"
    /\ malformed = {} /\ refused = FALSE
    /\ stop = FALSE /\ working = TRUE /\ fresh = TRUE /\ watched \in MayBeWatched(host)
    /\ busy = {} /\ done = {} /\ unsupported = FALSE
    /\ body = [r \in Requests |-> <<>>]
    /\ excused = {}

-----------------------------------------------------------------------------
(* request, and what comes of it. *)

To(t, l) == pc' = [pc EXCEPT ![t] = l]

(* A thread is through with its request. *)
Through(t) == keys' = [keys EXCEPT ![t] = {}] /\ status' = [status EXCEPT ![t] = 0]

(* Another thread's request writes the global this one has yet to read.     *)
Crossed(t) == {u \in Reports \ {t} : pc[u] = "back" /\ Process(u) = Process(t)}

Clears(t) ==
    /\ malformed' = malformed \ {Process(t)}
    /\ excused' = excused \cup Crossed(t)

(* A request begins: it clears the global.  What a thread decided last and  *)
(* this are one step, as nothing another does in between is seen.           *)
Start(t, k) ==
    /\ To(t, "sent") /\ keys' = [keys EXCEPT ![t] = k]
    /\ status' = [status EXCEPT ![t] = 0] /\ Clears(t)

Route(t) == IF t \in Requests THEN "logs" ELSE IF t = "line" THEN "boot" ELSE "any"

(* The code of an answer: the route is not there, a key is not known, or    *)
(* the body is taken; or the token is refused, or the control plane fails,  *)
(* which is the same to all but the Responder.                              *)
Code(t) ==
    {500} \cup (IF t \in Requests THEN {401} ELSE {})
          \cup (IF Route(t) \in Routes \ known THEN {404}
                ELSE IF keys[t] \subseteq known THEN {200} ELSE {422})

Takes(t) ==
    /\ heard' = heard \cup ({t} \ {"beat"})
    /\ asking' = IF t = asking THEN "none" ELSE asking

Ignores == UNCHANGED <<heard, asking>>

(* For what it says in a key, or for another reason.                        *)
Refuses(t, code) ==
    /\ IF code = 500 THEN Ignores \/ (200 \in Code(t) /\ Takes(t)) ELSE Ignores
    /\ malformed' = IF code = 422 THEN malformed \cup {Process(t)}
                    ELSE malformed \ {Process(t)}
    /\ excused' = excused \cup Crossed(t) \cup (IF code = 422 THEN {} ELSE {t} \cap Reports)

(* _post tells its caller no more than that a body was taken.               *)
Seen(t, code) == IF t \in Requests \/ code = 200 THEN code ELSE 0

(* HTTPError leaves its code in the global, an answer that never comes      *)
(* leaves there what it finds.                                              *)
Returns(t) ==
    /\ pc[t] = "sent" /\ To(t, "back")
    /\ \/ \E code \in Code(t) :
            /\ status' = [status EXCEPT ![t] = Seen(t, code)]
            /\ IF code = 200
               THEN /\ Takes(t) /\ UNCHANGED <<malformed, excused>>
                    /\ reply' = IF t = "beat" THEN asking ELSE reply
               ELSE Refuses(t, code) /\ UNCHANGED reply
       \/ /\ status' = [status EXCEPT ![t] = 0] /\ excused' = excused \cup ({t} \cap Reports)
          /\ Ignores \/ (200 \in Code(t) /\ Takes(t))
          /\ UNCHANGED <<malformed, reply>>
    /\ body' = [r \in Requests |-> IF r = t THEN <<>> ELSE body[r]]
    /\ UNCHANGED <<host, known, keys, refused, stop, workVars, busy, done, unsupported>>

(* A report is refused for what it says in keys of a later age. *)
MalformedAt400(t) == status[t] = 400
Malformed(t) == status[t] # 200 /\ Process(t) \in malformed

(* boot: the numbers go first, and stay away from later lines. *)
WithoutNumbers(t) ==
    /\ pc[t] = "back" /\ "numbers" \in keys[t] /\ Malformed(t)
    /\ refused' = TRUE /\ Start(t, keys[t] \ {"numbers"})
    /\ UNCHANGED <<planeVars, asking, reply, stop, workVars, responder>>

(* _post_tolerant *)
Resends(t) ==
    /\ pc[t] = "back" /\ keys[t] # {} /\ "numbers" \notin keys[t] /\ Malformed(t)
    /\ Start(t, {})
    /\ UNCHANGED <<planeVars, asking, reply, refused, stop, workVars, responder>>

Over(t) == pc[t] = "back" /\ ~(keys[t] # {} /\ Malformed(t))

-----------------------------------------------------------------------------
(* The beats. *)

(* An activity file of podh-init's tells of work for a while; the other two *)
(* hosts ask the workload, podh-boot once it is ready.                      *)
Answers == working
Live == ~watched \/ (IF host = "init" THEN fresh ELSE Answers)

(* podh-boot is ready, and its workload has a url to ask: one without, and  *)
(* an app that is the work itself, is never asked.  Of a pod that ends by   *)
(* then the beats are over.                                                 *)
Ready ==
    /\ host = "boot" /\ ~watched /\ ~stop /\ watched' = TRUE
    /\ UNCHANGED <<planeVars, asking, pc, keys, status, reply, globals, stop, working,
                   fresh, responder, excused>>

BeatKeys == IF host = "boot" THEN {"busy"} ELSE {}

Beat ==
    /\ pc["beat"] = "idle" /\ ~stop /\ Live /\ Start("beat", BeatKeys)
    /\ UNCHANGED <<planeVars, asking, reply, refused, stop, workVars, responder>>

BeatEnds ==
    /\ pc["beat"] = "idle" /\ stop /\ To("beat", "over")
    /\ UNCHANGED <<planeVars, asking, keys, status, reply, globals, stop, workVars,
                   responder, excused>>

(* Responder.__call__, for a host that has one: a reply may be older than    *)
(* the answer to what it asks.                                              *)
HeededAgain(r) == r # "none" /\ host # "sidecar" /\ ~unsupported /\ r \notin busy
Heeded(r) == r # "none" /\ host # "sidecar" /\ ~unsupported /\ r \notin busy \cup done

TakesReply ==
    /\ Over("beat") /\ reply' = "none"
    /\ LET r == IF status["beat"] = 200 THEN reply ELSE "none" IN
         IF Heeded(r)
         THEN /\ busy' = busy \cup {r}
              /\ pc' = [pc EXCEPT !["beat"] = "idle", ![r] = "collect"]
         ELSE To("beat", "idle") /\ UNCHANGED busy
    /\ Through("beat")
    /\ UNCHANGED <<planeVars, asking, globals, stop, workVars, done,
                   unsupported, body, excused>>

-----------------------------------------------------------------------------
(* The answer to a log request. *)

(* The sizes of the lines from the i-th on. *)
From(file, size, i) ==
    LET from[j \in 1 .. Len(file) + 1] ==
          IF j > Len(file) THEN 0 ELSE file[j][size] + from[j + 1]
    IN from[i]

Least(a, b) == IF a < b THEN a ELSE b

(* The lines of a file that are whole in its last Cap bytes: the first part *)
(* read goes, be it a line or the end of one.                               *)
InReach(file) ==
    {i \in 1 .. Len(file) : From(file, "raw", 1) <= Cap \/ From(file, "raw", i) < Cap}

Newest(file, fit) == SubSeq(file, Len(file) - Cardinality(fit) + 1, Len(file))

TheLast(file, n) == SubSeq(file, Len(file) - Least(n, Len(file)) + 1, Len(file))

(* _fit keeps the newest whose text fits (and the end of one that does not  *)
(* fit alone, which is no line here).                                       *)
TextFits(file) == {i \in 1 .. Len(file) : From(file, "text", i) <= Cap}

(* Of the lines asked for, some lay before what was read. *)
ShortOfNone(file, out, n) == FALSE
Short(file, out, n) == From(file, "raw", 1) > Cap /\ Len(out) < n

ReadTail(file, n) ==
    LET out == Newest(file, InReach(file))
        asked == TheLast(out, n)
        whole == Newest(asked, TextFits(asked))
    IN [lines |-> whole, cut |-> whole # asked \/ Short(file, out, n)]

Pushes(r) ==
    /\ pc[r] = "collect" /\ Start(r, {})
    /\ \E want \in Wants :
         body' = [body EXCEPT ![r] = [want |-> want, got |-> ReadTail(want.file, want.n)]]
    /\ UNCHANGED <<planeVars, asking, reply, refused, stop, workVars, busy, done,
                   unsupported>>

(* Any answer but a failure of the control plane's settles the request.     *)
Settles(code) == code \in {200, 401, 404, 422}

(* podh-init's heartbeat prints to a file of its own, which is no activity. *)
OnTheConsole == fresh' = TRUE /\ UNCHANGED watched
Says == UNCHANGED <<fresh, watched>>

Answered(r) ==
    /\ Over(r) /\ To(r, "idle") /\ busy' = busy \ {r}
    /\ done' = IF Settles(status[r]) THEN done \cup {r} ELSE done
    /\ unsupported' = (unsupported \/ status[r] = 404)
    /\ Through(r) /\ Says
    /\ UNCHANGED <<planeVars, asking, reply, globals, stop, working, body, excused>>

-----------------------------------------------------------------------------
(* The boot's lines, and the end. *)

LineKeys == IF host = "boot" THEN {{"stage"}, {"stage", "numbers"}} ELSE {{"stage"}}

Line ==
    /\ pc["line"] = "idle"
    /\ \E k \in LineKeys : Start("line", IF refused THEN k \ {"numbers"} ELSE k)
    /\ UNCHANGED <<planeVars, asking, reply, refused, stop, workVars, responder>>

(* The next report is another one, and another podh-report under podh-init. *)
Forget(t) ==
    /\ heard' = heard \ {t} /\ excused' = excused \ {t}
    /\ malformed' = malformed \ {t}

LineOver ==
    /\ Over("line") /\ To("line", "idle") /\ Through("line") /\ Forget("line")
    /\ UNCHANGED <<host, known, asking, reply, refused, stop, workVars, responder>>

(* finish of podh-boot, done of the sidecar and of podh-report: quiet       *)
(* first.                                                                   *)
End ==
    /\ pc["end"] = "idle" /\ stop' = TRUE
    /\ IF host = "boot" THEN To("end", "upload") /\ UNCHANGED <<keys, status, malformed, excused>>
       ELSE Start("end", {"reason"})
    /\ UNCHANGED <<planeVars, asking, reply, refused, workVars, responder>>

(* upload_all: nothing to send; or the request for the links and, if there  *)
(* is a store, PUTs one after the other.  Its budget bounds it, and it never *)
(* raises.                                                                  *)
Upload ==
    /\ pc["end"] = "upload" /\ To("end", "links") /\ Clears("end")
    /\ UNCHANGED <<planeVars, asking, keys, status, reply, refused, stop, workVars, responder>>

Report ==
    /\ pc["end"] \in {"upload", "links"} /\ Start("end", {"reason"})
    /\ UNCHANGED <<planeVars, asking, reply, refused, stop, workVars, responder>>

EndOver ==
    /\ Over("end") /\ To("end", "over") /\ Through("end") /\ Forget("end")
    /\ UNCHANGED <<host, known, asking, reply, refused, stop, workVars, responder>>

-----------------------------------------------------------------------------
(* The environment. *)

Ask ==
    /\ asking = "none" /\ \E r \in Requests \ heard : asking' = r
    /\ UNCHANGED <<planeVars, pc, keys, status, reply, globals, stop, workVars, responder, excused>>

(* One that is not asked may hang as it likes: its beats are those of Live. *)
Hangs ==
    /\ watched /\ working /\ working' = FALSE
    /\ UNCHANGED <<planeVars, asking, pc, keys, status, reply, globals, stop, fresh,
                   watched, responder, excused>>

(* stale_after_sec without a change of an activity file. *)
Stale ==
    /\ host = "init" /\ ~working /\ fresh /\ fresh' = FALSE
    /\ UNCHANGED <<planeVars, asking, pc, keys, status, reply, globals, stop, working,
                   watched, responder, excused>>

Posts(t) == Returns(t) \/ WithoutNumbers(t) \/ Resends(t)

BeatStep == Posts("beat") \/ Beat \/ BeatEnds \/ TakesReply
LineStep == Posts("line") \/ Line \/ LineOver
EndStep == Posts("end") \/ Upload \/ Report \/ EndOver
PushStep(r) == Posts(r) \/ Pushes(r) \/ Answered(r)

Next ==
    \/ BeatStep \/ LineStep \/ EndStep \/ End \/ Ask \/ Ready \/ Hangs \/ Stale
    \/ \E r \in Requests : PushStep(r)

(* A request has a timeout, and the threads run: every step comes.  Neither *)
(* the end nor a request of the control plane's needs to.                   *)
Spec ==
    /\ Init /\ [][Next]_vars
    /\ WF_vars(BeatStep) /\ WF_vars(LineStep) /\ WF_vars(EndStep) /\ WF_vars(Stale)
    /\ \A r \in Requests : WF_vars(PushStep(r))

-----------------------------------------------------------------------------
(* Properties. *)

Places == {"idle", "sent", "back", "collect", "upload", "links", "over"}

(* Every variable has its type, and a log request is one the Responder is   *)
(* busy with just as long as a thread of its own answers it.                *)
TypeOK ==
    /\ host \in {"init", "boot", "sidecar"} /\ known \subseteq Uses(host)
    /\ asking \in Requests \cup {"none"} /\ reply \in Requests \cup {"none"}
    /\ heard \subseteq Requests \cup Reports /\ excused \subseteq Reports
    /\ pc \in [Threads -> Places] /\ keys \in [Threads -> SUBSET Keys]
    /\ status \in [Threads -> {0, 200, 401, 404, 422, 500}]
    /\ malformed \subseteq Reports \cup {"client"}
    /\ {refused, stop, watched, working, fresh, unsupported} \subseteq BOOLEAN
    /\ done \subseteq Requests /\ busy = {r \in Requests : pc[r] # "idle"}
    /\ body \in [Requests ->
            {<<>>} \cup {[want |-> w, got |-> ReadTail(w.file, w.n)] : w \in Wants}]

(* The report of the end, or a boot line, that the control plane refused    *)
(* for a key of a later age reaches it without: "that must not cost the     *)
(* request itself - least of all /done".  Not when an answer stayed out or  *)
(* it was turned away for another reason, and not when another thread's     *)
(* request came between the refusal and the look at _LAST_STATUS.           *)
RefusalCostsNothing ==
    \A t \in Reports : Over(t) => t \in heard \cup excused

(* A log request is answered once: a reply that repeats it, made before the *)
(* answer came, brings no second one.  Only an answer of which the pod did  *)
(* not learn is given again.                                                *)
AnsweredOnce == \A r \in Requests : pc[r] = "sent" => r \notin done

(* What is sent of a log is its end, no line of those asked for is missing  *)
(* between, and what is missing before is said to be.                       *)
TailIsTrue ==
    \A r \in Requests : body[r] # <<>> =>
        LET got == body[r].got
            file == body[r].want.file IN
        /\ got.lines = TheLast(file, Len(got.lines))
        /\ From(got.lines, "text", 1) <= Cap
        /\ got.cut <=> got.lines # TheLast(file, body[r].want.n)

(* A pod goes quiet for good when its end is reported, or asked for, and    *)
(* when its workload hangs, if its beats ask for signs of work at all -     *)
(* whatever the control plane asks of it: "a hung one stops", "and looks    *)
(* stuck".                                                                  *)
GoesQuiet ==
    (stop \/ (watched /\ ~working)) ~> [](pc["beat"] \in {"idle", "over"})
=============================================================================
