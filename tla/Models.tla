------------------------------- MODULE Models -------------------------------
(***************************************************************************)
(* The models of a pod that is ready (src/pod_harness/boot/models.py): the *)
(* one manifest, the downloads, and the threads that ask for them at once: *)
(* the watcher, which follows models_rev on the heartbeat's replies, and   *)
(* one thread for each POST /models/fetch of the worker (ensure).          *)
(*                                                                         *)
(* A file is there, verified, or is not: sizes and hashes are left out, as *)
(* are the put-back of sourced files and the manifest's "missing".  The    *)
(* sha of a file is put on record (models-verified.json) once the file is  *)
(* at its path, which may fail.  The boot's models stage has passed:       *)
(* revision 1 is known, and what it left for later is not on the disk yet. *)
(***************************************************************************)
EXTENDS Integers, FiniteSets

CONSTANTS
    Paths,      \* of the models
    MaxRev,     \* bound: how often models_rev rises
    Serves,     \* what pod-control's manifest lists at each revision
    Sourced,    \* paths it lists with a source and no url
    Later,      \* paths of revision 1 the boot left for after ready
    Requests,   \* the POSTs of the worker
    Asked,      \* their paths
    Given,      \* those of them that come with a link of their own
    Attempts,   \* ATTEMPTS of a download
    Parallel,   \* PARALLEL: downloads at once of one caller
    Unanswered, \* the callers whose requests for the manifest may fail
    Watcher, Nobody

Callers == Requests \cup {Watcher}
Threads == Callers \X Paths

ASSUME ModelsConstants ==
    /\ MaxRev \in Nat \ {0} /\ Attempts \in Nat \ {0} /\ Parallel \in Nat \ {0}
    /\ Serves \in [1..MaxRev -> SUBSET Paths]
    /\ Sourced \subseteq Paths /\ Later \subseteq Serves[1]
    /\ Asked \in [Requests -> SUBSET Paths]
    /\ Given \in [Requests -> SUBSET Paths]
    /\ \A r \in Requests : Given[r] \subseteq Asked[r]
    /\ Unanswered \subseteq Callers
    /\ Watcher \notin Requests /\ Nobody \notin Callers

VARIABLES
    srvRev,   \* pod-control's models_rev
    want,     \* Watcher.want
    asked,    \* Watcher.ev
    items,    \* Manifest.items: absent, with a url, or with a source only
    files,    \* the paths whose file is on the disk
    unrecorded, \* those of them whose sha could not be put on record
    states,   \* LocalState.models
    forsaken, \* the paths a caller left as they were told when it met an exception
    inflight, \* _INFLIGHT: whose download a path's slot is
    pc,       \* where each caller is
    todo,     \* its paths still to look at or, then, to fetch
    fpc,      \* where each fetch_one is
    item,     \* its m
    stale,    \* those whose m has another url than items has by now
    tries     \* its attempts made

callVars == <<pc, todo>>
fetchVars == <<fpc, item, stale, tries>>
disk == <<files, unrecorded>>
said == <<states, forsaken>>
vars == <<srvRev, want, asked, items, disk, said, inflight, callVars, fetchVars>>

(* The manifest at a revision. *)
Listed(rev) ==
    [p \in Paths |-> IF p \notin Serves[rev] THEN "absent"
                     ELSE IF p \in Sourced THEN "source" ELSE "url"]

Init ==
    /\ srvRev = 1 /\ want = 1 /\ asked = (Later # {})
    /\ items = Listed(1)
    /\ files = Serves[1] \ Later
    /\ unrecorded = {} /\ forsaken = {}
    /\ states = [p \in Paths |-> IF p \in files THEN "present" ELSE "none"]
    /\ inflight = [p \in Paths |-> Nobody]
    /\ pc = [c \in Callers |-> "idle"]
    /\ todo = [c \in Callers |-> {}]
    /\ fpc = [t \in Threads |-> "off"]
    /\ item = [t \in Threads |-> "absent"]
    /\ stale = {}
    /\ tries = [t \in Threads |-> 0]

-----------------------------------------------------------------------------
(* The manifest, and pod-control. *)

(* An addition; and a reply on the heartbeat that tells of it.              *)
Rises ==
    /\ srvRev < MaxRev
    /\ srvRev' = srvRev + 1
    /\ UNCHANGED <<want, asked, items, disk, said, inflight, callVars, fetchVars>>

OnReply ==
    /\ srvRev > want
    /\ want' = srvRev /\ asked' = TRUE
    /\ UNCHANGED <<srvRev, items, disk, said, inflight, callVars, fetchVars>>

(* GET /v1/pod/models answered: all that was known is replaced, and each    *)
(* link is a new one.                                                       *)
Refreshed ==
    /\ items' = Listed(srvRev)
    /\ stale' = Threads

Report(p, state) ==
    /\ states' = [states EXCEPT ![p] = state]
    /\ forsaken' = forsaken \ {p}

-----------------------------------------------------------------------------
(* fetch_one and _fetch_one: the thread of caller t[1] for the path t[2]. *)

Active == {"own", "try", "refresh", "source", "told", "wait"}
Owning == Active \ {"wait"}

MayFetch(c) == Cardinality({p \in Paths : fpc[<<c, p>>] \in Active}) < Parallel

FetchEnterAlways(t) ==
    /\ pc[t[1]] = "fetch" /\ fpc[t] = "queued" /\ MayFetch(t[1])
    /\ fpc' = [fpc EXCEPT ![t] = "own"]
    /\ inflight' = [inflight EXCEPT ![t[2]] = t[1]]
    /\ UNCHANGED <<srvRev, want, asked, items, disk, said, callVars,
                   item, stale, tries>>

(* One download per path: a second caller waits for the first. *)
FetchEnter(t) ==
    /\ pc[t[1]] = "fetch" /\ fpc[t] = "queued" /\ MayFetch(t[1])
    /\ \/ /\ inflight[t[2]] = Nobody
          /\ fpc' = [fpc EXCEPT ![t] = "own"]
          /\ inflight' = [inflight EXCEPT ![t[2]] = t[1]]
       \/ /\ inflight[t[2]] # Nobody
          /\ fpc' = [fpc EXCEPT ![t] = "wait"]
          /\ UNCHANGED inflight
    /\ UNCHANGED <<srvRev, want, asked, items, disk, said, callVars,
                   item, stale, tries>>

fetchElse == <<srvRev, want, asked, inflight, callVars>>

(* What it knew is of no more use. *)
Told(t, state) ==
    /\ Report(t[2], state)
    /\ fpc' = [fpc EXCEPT ![t] = "told"]
    /\ item' = [item EXCEPT ![t] = "absent"]
    /\ tries' = [tries EXCEPT ![t] = 0]

FetchLookBlind(t) ==
    /\ fpc[t] = "own"
    /\ Report(t[2], "fetching")
    /\ item' = [item EXCEPT ![t] = items[t[2]]]
    /\ stale' = stale \ {t}
    /\ fpc' = [fpc EXCEPT ![t] = IF items[t[2]] = "source" THEN "source" ELSE "try"]
    /\ UNCHANGED <<fetchElse, items, disk, tries>>

(* present puts the sha of a file on record that is not, which may fail.    *)
FetchLook(t) ==
    /\ fpc[t] = "own"
    /\ \/ /\ items[t[2]] # "absent" /\ t[2] \in files
          /\ \/ Told(t, "present") /\ unrecorded' = unrecorded \ {t[2]}
             \/ t[2] \in unrecorded /\ Told(t, "failed") /\ UNCHANGED unrecorded
          /\ UNCHANGED stale
       \/ /\ items[t[2]] = "absent" \/ t[2] \notin files
          /\ Report(t[2], "fetching")
          /\ item' = [item EXCEPT ![t] = items[t[2]]]
          /\ stale' = stale \ {t}
          /\ fpc' = [fpc EXCEPT ![t] = IF items[t[2]] = "source" THEN "source" ELSE "try"]
          /\ UNCHANGED <<tries, unrecorded>>
    /\ UNCHANGED <<fetchElse, items, files>>

(* _remember comes after the file is at its path: when it raises, the file  *)
(* stays there and is told failed.                                          *)
Lands(t) ==
    /\ files' = files \cup {t[2]}
    /\ \/ Told(t, "present") /\ unrecorded' = unrecorded \ {t[2]}
       \/ Told(t, "failed") /\ unrecorded' = unrecorded \cup {t[2]}

Fails(t) == Told(t, "failed") /\ UNCHANGED disk

(* from_source: one attempt. *)
FetchSource(t) ==
    /\ fpc[t] = "source"
    /\ Lands(t) \/ Fails(t)
    /\ UNCHANGED <<fetchElse, items, stale>>

(* An attempt that fresh links may help; the last one fails. *)
Again(t) ==
    \/ /\ tries[t] + 1 < Attempts
       /\ tries' = [tries EXCEPT ![t] = @ + 1]
       /\ fpc' = [fpc EXCEPT ![t] = "refresh"]
       /\ UNCHANGED <<said, disk, item>>
    \/ tries[t] + 1 = Attempts /\ Fails(t)

(* With a url the download lands, or its link is refused or the line drops, *)
(* or its time is up or the disk fails; without one there is nothing to do. *)
FetchTry(t) ==
    /\ fpc[t] = "try"
    /\ \/ Fails(t)
       \/ item[t] = "url" /\ (Lands(t) \/ Again(t))
    /\ UNCHANGED <<fetchElse, items, stale>>

(* Manifest.refresh(stale=...): no request when another has brought a link  *)
(* for the path; a request that brings no manifest costs an attempt.        *)
FetchRefresh(t) ==
    /\ fpc[t] = "refresh"
    /\ LET known == items[t[2]] = "url" /\ t \in stale IN
          \/ /\ \/ known /\ UNCHANGED items /\ stale' = stale \ {t}
                \/ ~known /\ items' = Listed(srvRev) /\ stale' = Threads \ {t}
             /\ item' = [item EXCEPT ![t] = items'[t[2]]]
             /\ fpc' = [fpc EXCEPT ![t] = "try"]
             /\ UNCHANGED <<said, disk, tries>>
          \/ /\ ~known /\ t[1] \in Unanswered
             /\ Again(t)
             /\ UNCHANGED <<items, stale>>
    /\ UNCHANGED fetchElse

FetchLeaveAlone(t) ==
    /\ fpc[t] = "told"
    /\ fpc' = [fpc EXCEPT ![t] = "done"]
    /\ inflight' = [inflight EXCEPT ![t[2]] = Nobody]
    /\ UNCHANGED <<srvRev, want, asked, items, disk, said, callVars,
                   item, stale, tries>>

(* The slot is popped and its event set: those who waited return as well,   *)
(* with the same outcome, of which their callers make no use.               *)
FetchLeave(t) ==
    /\ fpc[t] = "told"
    /\ fpc' = [u \in Threads |->
            IF u = t \/ (u[2] = t[2] /\ fpc[u] = "wait") THEN "done" ELSE fpc[u]]
    /\ inflight' = [inflight EXCEPT ![t[2]] = Nobody]
    /\ UNCHANGED <<srvRev, want, asked, items, disk, said, callVars,
                   item, stale, tries>>

Fetching(t) ==
    \/ FetchEnter(t) \/ FetchLook(t) \/ FetchSource(t) \/ FetchTry(t)
    \/ FetchRefresh(t) \/ FetchLeave(t)

-----------------------------------------------------------------------------
(* The callers. *)

callElse == <<srvRev, want, inflight, item, tries>>

(* Watcher.loop: the event is cleared before anything is looked at. *)
WatchWake ==
    /\ pc[Watcher] = "idle" /\ asked
    /\ asked' = FALSE
    /\ pc' = [pc EXCEPT ![Watcher] = "manifest"]
    /\ UNCHANGED <<callElse, items, stale, disk, said, todo, fpc>>

(* Watcher.once, and an ensure that does not know all it is asked for, get  *)
(* the manifest; the watcher gives up when there is none, an ensure goes on. *)
Needs(c) ==
    \/ c = Watcher
    \/ \E r \in Requests \cap {c} : \E p \in Asked[r] \ Given[r] : items[p] = "absent"

GetManifest(c) ==
    /\ pc[c] = "manifest"
    /\ \/ /\ Needs(c) /\ Refreshed
          /\ todo' = [todo EXCEPT ![c] = IF c = Watcher THEN Serves[srvRev] ELSE {}]
          /\ pc' = [pc EXCEPT ![c] = IF c = Watcher THEN "look" ELSE "merge"]
       \/ /\ ~Needs(c) \/ c \in Unanswered
          /\ pc' = [pc EXCEPT ![c] = IF c = Watcher THEN "idle" ELSE "merge"]
          /\ UNCHANGED <<items, stale, todo>>
    /\ UNCHANGED <<callElse, asked, disk, said, fpc>>

(* What is listed and not on the disk is fetched; what is there is put on   *)
(* record.                                                                  *)
WatchLook ==
    /\ pc[Watcher] = "look"
    /\ states' = [p \in Paths |-> IF p \in todo[Watcher] \cap files THEN "present"
                                  ELSE states[p]]
    /\ forsaken' = forsaken \ (todo[Watcher] \cap files)
    /\ unrecorded' = unrecorded \ todo[Watcher]
    /\ fpc' = [t \in Threads |->
            IF t[1] = Watcher /\ t[2] \in todo[Watcher] \ files THEN "queued" ELSE fpc[t]]
    /\ todo' = [todo EXCEPT ![Watcher] = {}]
    /\ pc' = [pc EXCEPT ![Watcher] = "fetch"]
    /\ UNCHANGED <<callElse, asked, items, stale, files>>

(* No try is around it: the watcher's thread dies of a record that fails,   *)
(* and never tells of those it has made by then.                            *)
WatchDies ==
    /\ pc[Watcher] = "look"
    /\ \E p \in todo[Watcher] \cap unrecorded :
         \E S \in SUBSET ((todo[Watcher] \cap unrecorded) \ {p}) :
            unrecorded' = unrecorded \ S /\ forsaken' = forsaken \cup S
    /\ todo' = [todo EXCEPT ![Watcher] = {}]
    /\ pc' = [pc EXCEPT ![Watcher] = "end"]
    /\ UNCHANGED <<callElse, asked, items, stale, files, states, fpc>>

(* ensure: each path is "fetching" when the POST is answered ... *)
EnsurePost(r) ==
    /\ pc[r] = "idle"
    /\ states' = [p \in Paths |-> IF p \in Asked[r] THEN "fetching" ELSE states[p]]
    /\ forsaken' = forsaken \ Asked[r]
    /\ pc' = [pc EXCEPT ![r] = "manifest"]
    /\ UNCHANGED <<callElse, asked, items, stale, disk, todo, fpc>>

(* ... and its thread merges the links it was given into the manifest,      *)
EnsureMerge(r) ==
    /\ pc[r] = "merge"
    /\ items' = [p \in Paths |-> IF p \in Given[r] THEN "url" ELSE items[p]]
    /\ stale' = stale \cup {t \in Threads : t[2] \in Given[r]}
    /\ todo' = [todo EXCEPT ![r] = Asked[r]]
    /\ pc' = [pc EXCEPT ![r] = "look"]
    /\ UNCHANGED <<callElse, asked, disk, said, fpc>>

(* looks at one path after another, and fetches what is not there.          *)
EnsureLook(r) ==
    /\ pc[r] = "look"
    /\ \E p \in todo[r] :
         /\ \/ /\ p \in files
               /\ Report(p, "present")
               /\ unrecorded' = unrecorded \ {q \in {p} : items[q] # "absent"}
               /\ UNCHANGED fpc
            \/ /\ p \notin files
               /\ fpc' = [fpc EXCEPT ![<<r, p>>] = "queued"]
               /\ UNCHANGED <<said, unrecorded>>
         /\ todo' = [todo EXCEPT ![r] = @ \ {p}]
         /\ pc' = [pc EXCEPT ![r] = IF todo[r] = {p} THEN "fetch" ELSE "look"]
    /\ UNCHANGED <<callElse, asked, items, stale, files>>

(* "Never leave a path fetching forever": of a record that fails, whatever  *)
(* it asked for and is still fetching fails.                                *)
EnsureGivesUp(r) ==
    /\ pc[r] = "look"
    /\ \E p \in todo[r] : p \in unrecorded /\ items[p] # "absent"
    /\ LET failed == {p \in Asked[r] : states[p] = "fetching"} IN
          /\ states' = [p \in Paths |-> IF p \in failed THEN "failed" ELSE states[p]]
          /\ forsaken' = forsaken \cup failed
    /\ fpc' = [t \in Threads |-> IF t[1] = r THEN "off" ELSE fpc[t]]
    /\ todo' = [todo EXCEPT ![r] = {}]
    /\ pc' = [pc EXCEPT ![r] = "end"]
    /\ UNCHANGED <<callElse, asked, items, stale, disk>>

FetchedAllClears(c) ==
    /\ pc[c] = "fetch"
    /\ \A p \in Paths : fpc[<<c, p>>] \in {"off", "done"}
    /\ fpc' = [t \in Threads |-> IF t[1] = c THEN "off" ELSE fpc[t]]
    /\ pc' = [pc EXCEPT ![c] = IF c = Watcher THEN "idle" ELSE "end"]
    /\ asked' = (asked /\ c # Watcher)
    /\ UNCHANGED <<callElse, items, stale, disk, said, todo>>

(* fetch_all returns when each of its downloads has. *)
FetchedAll(c) ==
    /\ pc[c] = "fetch"
    /\ \A p \in Paths : fpc[<<c, p>>] \in {"off", "done"}
    /\ fpc' = [t \in Threads |-> IF t[1] = c THEN "off" ELSE fpc[t]]
    /\ pc' = [pc EXCEPT ![c] = IF c = Watcher THEN "idle" ELSE "end"]
    /\ UNCHANGED <<callElse, asked, items, stale, disk, said, todo>>

Works(c) ==
    \/ GetManifest(c) \/ FetchedAll(c)
    \/ c = Watcher /\ (WatchWake \/ WatchLook \/ WatchDies)
    \/ \E r \in Requests \cap {c} : EnsureMerge(r) \/ EnsureLook(r) \/ EnsureGivesUp(r)
    \/ \E p \in Paths : Fetching(<<c, p>>)

Next ==
    \/ Rises \/ OnReply
    \/ \E r \in Requests : EnsurePost(r)
    \/ \E c \in Callers : Works(c)

Spec == Init /\ [][Next]_vars

(* A caller's threads run on; a download has a deadline. *)
FairSpec == Spec /\ \A c \in Callers : WF_vars(Works(c))

-----------------------------------------------------------------------------
(* Properties. *)

(* Every variable has its type, and no more downloads of a caller are under *)
(* way than PARALLEL.                                                       *)
TypeOK ==
    /\ srvRev \in 1..MaxRev /\ want \in 1..MaxRev /\ asked \in BOOLEAN
    /\ items \in [Paths -> {"absent", "url", "source"}]
    /\ files \subseteq Paths /\ unrecorded \subseteq files /\ forsaken \subseteq Paths
    /\ states \in [Paths -> {"none", "fetching", "present", "failed"}]
    /\ inflight \in [Paths -> Callers \cup {Nobody}]
    /\ pc \in [Callers -> {"idle", "manifest", "merge", "look", "fetch", "end"}]
    /\ todo \in [Callers -> SUBSET Paths]
    /\ fpc \in [Threads -> Active \cup {"off", "queued", "done"}]
    /\ item \in [Threads -> {"absent", "url", "source"}]
    /\ stale \subseteq Threads
    /\ tries \in [Threads -> 0..(Attempts - 1)]

(* "Two writers on one .part would race on the rename": at most one thread  *)
(* downloads a path.                                                        *)
OneWriter ==
    \A t, u \in Threads :
        t[2] = u[2] /\ fpc[t] \in Owning /\ fpc[u] \in Owning => t = u

(* A path is "present" only when its file is there, whoever fetched it and  *)
(* whoever reported last.  "A file that was in fact present" is called      *)
(* failed only when its sha could not be put on record - it is at its path  *)
(* before -, or when one who asked for it died of such a record first.      *)
StateTrue ==
    \A p \in Paths :
        /\ states[p] = "present" => p \in files
        /\ states[p] = "failed" /\ p \in files => p \in unrecorded \cup forsaken

(* "After ready: fetch models added mid-life": when the watcher rests, each *)
(* path of the last revision it was told of has been seen to.               *)
AdditionsSeen ==
    pc[Watcher] = "idle" /\ ~asked => \A p \in Serves[want] : states[p] # "none"

(* The thread of a POST ends, and the watcher comes back for the next       *)
(* revision or dies of a record: nobody waits for ever for another's        *)
(* download.                                                                *)
CallersReturn ==
    \A c \in Callers : pc[c] = "manifest" ~> pc[c] \in {"idle", "end"}
=============================================================================
