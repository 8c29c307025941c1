------------------------------- MODULE Runner -------------------------------
(***************************************************************************)
(* A batch pod's one job: podh-prepare fetches what the spec says, the     *)
(* engine (execute_job.py, framework.py) runs the stages over it, one      *)
(* source at a time when asked to, podh-publish pushes what they made, and *)
(* podh-init says how it ended.  The mount (mount.py, storage.py) is what  *)
(* moves files between the object store and the pod's disk.                *)
(*                                                                         *)
(* The stages are the workload's: one that runs may raise, and may make    *)
(* any part of what it declares.  A tree of files is one value: absent,    *)
(* whole, cut short (a fetch that broke off), from an earlier run, made by *)
(* this one, or, in the store, made by this one and lacking the files that *)
(* an upload leaves out for their names.                                   *)
(*                                                                         *)
(* What a spec decides of its files, over and above its stages:            *)
(*   names    whether the stages write files of such names: none ("fine"), *)
(*            "some" in every tree, or "all" of them                       *)
(*   corpus   where the sources lie: below the root the engine is told of, *)
(*            which is named corpus ("told") or not ("named"), elsewhere   *)
(*            (a path of their own), or it is told of none ("unset")       *)
(*   outRoot  whether a root for the output of the run is known            *)
(***************************************************************************)
EXTENDS Wiring

CONSTANTS
    Specs,     \* the job specs: a record of what the engine reads of one
    Size,      \* how much a source takes on the disk
    Budget,    \* what the disk has for them
    MaxFaults, \* bound: fetches and uploads that fail
    MaxWrites  \* bound: trees that one stage writes

NoKey == "-"   \* the key of no chunk

ASSUME RunnerConstants ==
    /\ Budget \in Nat /\ MaxFaults \in Nat /\ MaxWrites \in Nat /\ NoKey \notin DOMAIN Size
    /\ \A sp \in Specs :
         /\ sp.stages \in Seq(STRING) /\ sp.sources \in Seq(DOMAIN Size)
         /\ sp.kind \in {"object", "s3", "volume"} /\ sp.chunkBy \in BOOLEAN
         /\ sp.allowEmpty \in BOOLEAN /\ sp.outRoot \in BOOLEAN
         /\ sp.names \in {"fine", "some", "all"}
         /\ sp.corpus \in {"told", "named", "elsewhere", "unset"}

Sources == DOMAIN Size

(* Of a source: its corpus, and what the stages derive from it. *)
Derived == {"normalized", "work"}
Trees == <<"raw", "normalized", "work">>

(* Of the run: what it promotes, and its own output.                        *)
Products == {"profiles", "out"}

VARIABLES
    spec,
    pc,       \* podh-init's step, and within the engine the runner's
    stages,   \* Runner.stages
    queue,    \* the stages this pass has still to run
    left,     \* the chunks not entered yet
    key,      \* the chunk that is resident, or NoKey
    aborted,  \* a stage failed on a chunk
    put,      \* ctx.artifacts: none, empty, given, or under which chunk it was put
    scope,    \* ctx.params["sources"]
    results,  \* what the stages came to, in the order they ran
    rep,      \* the reporter: total, index, chunk and the job's last word
    disk, store,  \* what the pod and the object store have of each source
    out, outStore,  \* what they have of the run
    faults,
    rc        \* the job's exit status as podh-init knows it

given == {a \in DOMAIN put : put[a] \notin {"none", "empty"}}

specVars == <<spec, stages>>
loopVars == <<queue, left, key, aborted, scope>>
dataVars == <<disk, store, out, outStore, faults>>
vars == <<specVars, pc, loopVars, put, results, rep, dataVars, rc>>

(* The same mount serves both, and podh-prepare and podh-publish one.       *)
Fetches == spec.kind \in {"object", "s3"}
Object == spec.kind = "object"

(* attach_chunks, and the runner's own condition on top of it. *)
Hooked == spec.chunkBy /\ Len(spec.sources) > 1
Chunked == Hooked /\ \E i \in DOMAIN stages : PerChunk(stages[i])

OfScope(scp) == {s \in Range(stages) : Registry[s].scope = scp}
ChunkStages == Keep(stages, OfScope("chunk"))
Rest == Keep(stages, OfScope("job"))

Init ==
    /\ spec \in Specs
    /\ pc = "prepare" /\ stages = spec.stages
    /\ queue = <<>> /\ left = <<>> /\ key = NoKey /\ aborted = FALSE
    /\ scope = spec.sources
    /\ put = [a \in Artifacts |-> "none"]
    /\ results = <<>>
    /\ rep = [total |-> 0, index |-> 0, chunk |-> NoKey, verdict |-> "none"]
    /\ disk = [k \in Sources |-> [t \in Range(Trees) |->
            IF t = "raw" /\ ~Fetches THEN "whole" ELSE "none"]]
    /\ store = [k \in Sources |-> [t \in Range(Trees) |->
            IF t = "raw" THEN "whole" ELSE "old"]]
    /\ out = [p \in Products |-> "none"] /\ outStore = [p \in Products |-> "none"]
    /\ faults = 0 /\ rc = 0

-----------------------------------------------------------------------------
(* The mount. *)

Fault(n) == faults + n <= MaxFaults /\ faults' = faults + n

(* ObjectMount.prepare for the sources in S: those on the disk at the right *)
(* size are left, the others fetched; one whose fetch fails stays away, or  *)
(* is cut short, and then the mount is not ready.                           *)
Fetch(S, ready) ==
    /\ \E fail \in SUBSET {k \in S : disk[k].raw # "whole"}, cut \in {"none", "cut"} :
         /\ Fault(Cardinality(fail))
         /\ ready = (fail = {})
         /\ disk' = [k \in Sources |-> [disk[k] EXCEPT !.raw =
                IF k \in fail THEN cut ELSE IF k \in S THEN "whole" ELSE @]]
    /\ UNCHANGED <<store, out, outStore>>

(* Of a tree that the stages made, an upload sends what has no name of       *)
(* SKIP_PATTERNS, and is a success without the rest.                        *)
Sendable(tree) ==
    IF tree # "new" \/ spec.names = "fine" THEN tree
    ELSE IF spec.names = "some" THEN "lacking" ELSE "none"

(* What an upload of the tree makes of the store's copy: raw goes there     *)
(* when the store's has another size, a derived tree whenever there is one. *)
Uploaded(have, local) == IF Sendable(local) = "none" THEN have ELSE Sendable(local)

(* What is found of a source's trees where leave and podh-publish look.     *)
Found(k, t) ==
    IF t = "raw" /\ spec.corpus \in {"elsewhere", "unset"} THEN "none" ELSE disk[k][t]

(* The disk without what the chunk took of it: raw is removed from below a  *)
(* directory named corpus, wherever it was published from.                  *)
FreedNothing(k) == disk

Freed(k) ==
    [disk EXCEPT ![k] = [t \in Range(Trees) |->
        IF t = "raw" /\ spec.corpus # "told" THEN disk[k][t] ELSE "none"]]

(* leave, of a chunk: its trees go up in this order, up to the first that   *)
(* fails; all up, what the chunk took on the disk is removed.  Without a    *)
(* corpus root it does nothing.  A mount that is no object mount cannot     *)
(* publish a tree, which counts as a failure.                               *)
EvictsAnyway(n) == TRUE

Evicts(n) == n = Len(Trees)

LeaveChunk(k) ==
    /\ \/ /\ Fetches /\ spec.corpus # "unset"
          /\ \E n \in 0..Len(Trees) :
               /\ n < Len(Trees) => Found(k, Trees[n + 1]) # "none"
               /\ Fault(IF n < Len(Trees) THEN 1 ELSE 0)
               /\ store' = [store EXCEPT ![k] = [t \in Range(Trees) |->
                      IF \E i \in 1..n : Trees[i] = t
                      THEN Uploaded(@[t], Found(k, t)) ELSE @[t]]]
               /\ disk' = IF Evicts(n) THEN Freed(k) ELSE disk
       \/ /\ ~Fetches \/ spec.corpus = "unset"
          /\ UNCHANGED <<disk, store, faults>>
    /\ UNCHANGED <<out, outStore>>

-----------------------------------------------------------------------------
(* podh-prepare, then execute_job up to the runner. *)

(* The roots that are files are fetched for any spec, the sources now       *)
(* unless the spec is a chunked one; a job whose mount is not ready does    *)
(* not run.                                                                 *)
Prepare ==
    /\ pc = "prepare"
    /\ \/ /\ ~Object
          /\ pc' = "load" /\ UNCHANGED dataVars
       \/ /\ Object /\ Fault(1)
          /\ pc' = "fatal" /\ UNCHANGED <<disk, store, out, outStore>>
       \/ /\ Object /\ spec.chunkBy
          /\ pc' = "load" /\ UNCHANGED dataVars
       \/ /\ Object /\ ~spec.chunkBy
          /\ IF Len(Passes(spec.sources, Size, Budget)) > 1
             THEN pc' = "fatal" /\ UNCHANGED dataVars
             ELSE \E ready \in BOOLEAN :
                    /\ Fetch(Range(spec.sources), ready)
                    /\ pc' = IF ready THEN "load" ELSE "fatal"
    /\ UNCHANGED <<specVars, loopVars, put, results, rep, rc>>

(* An empty pipeline, an unknown stage or restart point: exit 1, no word.   *)
Refuse ==
    /\ pc = "load"
    /\ \/ spec.stages = <<>> \/ ~Known(spec.stages)
       \/ ~RestartKnown(spec.stages, spec.start)
    /\ pc' = "publish" /\ rc' = 1
    /\ UNCHANGED <<specVars, loopVars, put, results, rep, dataVars>>

(* The context is seeded with what is given, and the skipped stages go.     *)
Load ==
    /\ pc = "load"
    /\ spec.stages # <<>> /\ Known(spec.stages) /\ RestartKnown(spec.stages, spec.start)
    /\ put' = [a \in Artifacts |-> IF a \in spec.given THEN "given" ELSE "none"]
    /\ stages' = From(spec.stages, spec.start)
    /\ pc' = "run"
    /\ UNCHANGED <<spec, loopVars, results, rep, dataVars, rc>>

-----------------------------------------------------------------------------
(* Runner.run. *)

JobDone(ok) ==
    /\ rep' = [rep EXCEPT !.verdict = IF ok THEN "done" ELSE "failed"]
    /\ rc' = IF ok THEN 0 ELSE 1
    /\ pc' = "publish"

BadWiring ==
    /\ pc = "run" /\ ~WiringOK(stages, given)
    /\ JobDone(FALSE)
    /\ UNCHANGED <<specVars, loopVars, put, results, dataVars>>

TotalOf ==
    IF Chunked THEN Len(ChunkStages) * Len(spec.sources) + Len(Rest) ELSE Len(stages)

JobStart ==
    /\ pc = "run" /\ WiringOK(stages, given)
    /\ rep' = [rep EXCEPT !.total = TotalOf, !.index = 0]
    /\ IF Chunked
       THEN pc' = "chunks" /\ left' = spec.sources /\ queue' = <<>>
       ELSE pc' = "stages" /\ queue' = stages /\ UNCHANGED left
    /\ UNCHANGED <<specVars, key, aborted, scope, put, results, dataVars, rc>>

(* The next chunk: params narrowed to it, its source fetched, and what the  *)
(* mount says of that only printed.                                         *)
EnterChunk ==
    /\ pc = "chunks" /\ left # <<>> /\ ~aborted
    /\ key' = Head(left) /\ left' = Tail(left)
    /\ scope' = <<Head(left)>>
    /\ rep' = [rep EXCEPT !.chunk = Head(left)]
    /\ queue' = ChunkStages
    /\ IF Fetches THEN \E ready \in BOOLEAN : Fetch({Head(left)}, ready)
       ELSE UNCHANGED dataVars
    /\ pc' = "stages"
    /\ UNCHANGED <<specVars, aborted, put, results, rc>>

(* Stage.check: an empty artifact is none, a given one is there.            *)
Ready(s) == Requires(s) \subseteq given

(* Stage.verify_outputs: all it declares is in the context, by whomever.    *)
Verified(s, after) == \A a \in Produces(s) : after[a] \notin {"none", "empty"}

(* Does this outcome stop the pass? *)
StopsNever(s, status) == FALSE

Stops(s, status) == status = "failed" /\ ~Registry[s].optional

(* What the stage leaves behind: of what it declares, some put, some put    *)
(* empty, and files in the trees of the run and in those derived from the   *)
(* sources it was run over.                                                 *)
Over == IF key = NoKey THEN Range(spec.sources) ELSE {key}

Works(s) ==
    /\ \E made, void \in SUBSET Produces(s) :
         put' = [a \in Artifacts |->
            IF a \in made THEN (IF key = NoKey THEN "job" ELSE key)
            ELSE IF a \in void THEN "empty" ELSE put[a]]
    /\ \E trees \in SUBSET (Over \X Derived), products \in SUBSET Products :
         /\ Cardinality(trees) + Cardinality(products) <= MaxWrites
         /\ disk' = [k \in Sources |-> [t \in Range(Trees) |->
                IF <<k, t>> \in trees THEN "new" ELSE disk[k][t]]]
         /\ out' = [p \in Products |-> IF p \in products THEN "new" ELSE out[p]]
    /\ UNCHANGED <<store, outStore, faults>>

(* _one: skipped, failed by an exception or by its own outputs, or ok.      *)
RunStage ==
    /\ pc = "stages" /\ queue # <<>>
    /\ rep' = [rep EXCEPT !.index = @ + 1]
    /\ LET s == Head(queue) IN
         \E status \in {"skipped", "failed", "ok"} :
           /\ \/ status = "skipped" /\ ~Ready(s) /\ UNCHANGED <<put, dataVars>>
              \/ status = "failed" /\ Ready(s) /\ Works(s)
              \/ status = "ok" /\ Ready(s) /\ Works(s) /\ Verified(s, put')
           /\ results' = Append(results, [stage |-> s, chunk |-> key, status |-> status])
           /\ queue' = IF Stops(s, status) THEN <<>> ELSE Tail(queue)
           /\ aborted' = (aborted \/ (Stops(s, status) /\ key # NoKey))
    /\ UNCHANGED <<specVars, pc, left, key, scope, rc>>

(* A check or a verification that raises is nobody's to catch.              *)
StageRaises ==
    /\ pc = "stages" /\ queue # <<>>
    /\ rep' = [rep EXCEPT !.index = @ + 1]
    /\ \/ UNCHANGED <<put, dataVars>>
       \/ Ready(Head(queue)) /\ Works(Head(queue))
    /\ queue' = <<>> /\ pc' = "raised"
    /\ UNCHANGED <<specVars, left, key, aborted, scope, results, rc>>

(* Nothing but exit_chunk comes between it and the end of the engine, which *)
(* says no last word.                                                       *)
Die ==
    /\ pc = "raised"
    /\ IF key = NoKey THEN UNCHANGED dataVars ELSE LeaveChunk(key)
    /\ key' = NoKey
    /\ rep' = [rep EXCEPT !.chunk = NoKey]
    /\ pc' = "publish" /\ rc' = 1
    /\ UNCHANGED <<specVars, queue, left, aborted, scope, put, results>>

(* exit_chunk, and then chunk_done. *)
ExitChunk ==
    /\ pc = "stages" /\ queue = <<>> /\ key # NoKey
    /\ LeaveChunk(key)
    /\ key' = NoKey
    /\ rep' = [rep EXCEPT !.chunk = NoKey]
    /\ pc' = "chunks"
    /\ UNCHANGED <<specVars, queue, left, aborted, scope, put, results, rc>>

(* The chunks are through: the stages of the job run over what accumulated. *)
Reduce ==
    /\ pc = "chunks" /\ left = <<>> /\ ~aborted
    /\ queue' = Rest /\ pc' = "stages"
    /\ UNCHANGED <<specVars, left, key, aborted, scope, put, results, rep,
                   dataVars, rc>>

(* ... and not over a hole. *)
Abort ==
    /\ pc = "chunks" /\ aborted
    /\ results' = results \o
            [i \in DOMAIN Rest |-> [stage |-> Rest[i], chunk |-> NoKey, status |-> "unrun"]]
    /\ JobDone(FALSE)
    /\ UNCHANGED <<specVars, loopVars, put, dataVars>>

LastFine == results # <<>> => results[Len(results)].status \in {"ok", "skipped"}

AllFine == \A i \in DOMAIN results : results[i].status \in {"ok", "skipped"}

Finish ==
    /\ pc = "stages" /\ queue = <<>> /\ key = NoKey
    /\ JobDone(AllFine)
    /\ UNCHANGED <<specVars, loopVars, put, results, dataVars>>

-----------------------------------------------------------------------------
(* podh-publish, and podh-init's last word. *)

(* What is promoted goes up first, then the run's output, all that is       *)
(* derived, and the raw sources; the first that fails ends it.              *)
PublishUpTo(n) ==
    /\ outStore' = [p \in Products |->
            IF n > (IF p = "profiles" THEN 0 ELSE 1)
            THEN Uploaded(outStore[p], out[p]) ELSE outStore[p]]
    /\ store' = [k \in Sources |-> [t \in Range(Trees) |->
            IF n > (IF t \in Derived THEN 2 ELSE 3)
            THEN Uploaded(store[k][t], Found(k, t)) ELSE store[k][t]]]

(* Files that went up: raw ones the store has are not sent again.           *)
Sent ==
    \/ \E p \in Products : Sendable(out[p]) # "none"
    \/ \E k \in Sources : \/ Found(k, "raw") \notin {"none", store[k].raw}
                          \/ \E t \in Derived : Sendable(disk[k][t]) # "none"

(* A job that failed keeps its status, one that did not takes this one.     *)
WithPublishIgnored(ok) == rc

WithPublish(ok) == IF rc = 0 /\ ~ok THEN 1 ELSE rc

(* For another kind of mount, or with no root for the output, there is      *)
(* nothing to publish, which is a success.                                  *)
Publish ==
    /\ pc = "publish"
    /\ \/ /\ Object /\ spec.outRoot
          /\ \E n \in 0..4 :
               /\ Fault(IF n < 4 THEN 1 ELSE 0)
               /\ PublishUpTo(n)
               /\ rc' = WithPublish(n = 4 /\ (Sent \/ spec.allowEmpty))
          /\ UNCHANGED <<disk, out>>
       \/ /\ ~Object \/ ~spec.outRoot
          /\ UNCHANGED <<dataVars, rc>>
    /\ pc' = "told"
    /\ UNCHANGED <<specVars, loopVars, put, results, rep>>

Next ==
    \/ Prepare \/ Refuse \/ Load \/ BadWiring \/ JobStart
    \/ EnterChunk \/ RunStage \/ StageRaises \/ Die \/ ExitChunk
    \/ Reduce \/ Abort \/ Finish
    \/ Publish

Spec == Init /\ [][Next]_vars

-----------------------------------------------------------------------------
(* Properties. *)

(* Every variable has its type. *)
TypeOK ==
    /\ spec \in Specs
    /\ pc \in {"prepare", "load", "run", "chunks", "stages", "raised", "publish",
            "told", "fatal"}
    /\ stages \in Seq(Range(spec.stages)) /\ queue \in Seq(Range(spec.stages))
    /\ left \in Seq(Sources) /\ scope \in Seq(Sources)
    /\ key \in Sources \cup {NoKey} /\ aborted \in BOOLEAN
    /\ put \in [Artifacts -> {"none", "empty", "given", "job"} \cup Sources]
    /\ results \in Seq([stage : Range(spec.stages), chunk : Sources \cup {NoKey},
                         status : {"skipped", "failed", "ok", "unrun"}])
    /\ rep \in [total : Nat, index : Nat, chunk : Sources \cup {NoKey},
                 verdict : {"none", "done", "failed"}]
    /\ disk \in [Sources -> [Range(Trees) -> {"none", "cut", "whole", "new"}]]
    /\ store \in [Sources ->
            [Range(Trees) -> {"none", "old", "cut", "whole", "new", "lacking"}]]
    /\ out \in [Products -> {"none", "new"}]
    /\ outStore \in [Products -> {"none", "new", "lacking"}]
    /\ faults \in 0..MaxFaults /\ rc \in {0, 1}

(* chunks.plan bounds every pass by the budget and splits no group, for up  *)
(* to three groups of any size up to one that exceeds the budget.           *)
PlanFits ==
    pc = "prepare" =>
        \A n \in 0..3 : \A groups \in [1..n -> 0..(Budget + 1)] :
            PassesSound(groups, [g \in 0..(Budget + 1) |-> g], Budget)

(* A stage of the job works only over a corpus every chunk of which is      *)
(* through ("reduces over a hole ... a confident wrong answer"): no stage   *)
(* that may not fail has failed on any chunk.                               *)
NothingOverAHole ==
    \A i \in DOMAIN results :
        Chunked /\ ~PerChunk(results[i].stage) /\ results[i].status \in {"ok", "failed"} =>
            \A k \in Range(spec.sources), s \in Range(ChunkStages) :
                \E j \in 1..(i - 1) :
                    /\ results[j].stage = s /\ results[j].chunk = k
                    /\ results[j].status # "failed" \/ Registry[s].optional

(* The job is said to be done only when every planned stage has a result,   *)
(* for every chunk, and none of them failed.                                *)
DoneIsWhole ==
    rep.verdict = "done" =>
        /\ Len(results) = rep.total /\ rep.index = rep.total
        /\ \A i \in DOMAIN results : results[i].status # "failed"

(* While chunks are worked the pod holds one at a time ("two resident at    *)
(* once defeats the entire point of bounding the disk"), but for those      *)
(* whose publish failed: of a job whose sources lie where leave looks for   *)
(* them, below a root named corpus.                                         *)
OneResident ==
    Fetches /\ spec.corpus = "told" /\ Chunked /\ (pc = "chunks" \/ key # NoKey) =>
        Cardinality({k \in Sources : \E t \in Range(Trees) : disk[k][t] # "none"})
            <= 1 + faults

(* "Evicting before publishing loses the outputs": what is removed from the *)
(* disk is in the store in the state it had, but for the files that no      *)
(* upload sends, which go with it.                                          *)
EvictsPublished ==
    [][\A k \in Sources, t \in Range(Trees) :
          disk'[k][t] = "none" /\ disk[k][t] \notin {"none", "cut"}
          => Sendable(disk[k][t]) \in {"none", store'[k][t]}]_vars

(* A job reported as ended well on an object mount that knows its output    *)
(* root has its whole product in the store ("a green status" never means a  *)
(* product that went with the pod), but for the files that no upload sends. *)
DoneIsDurable ==
    pc = "told" /\ rc = 0 /\ Object /\ spec.outRoot =>
        /\ rep.verdict = "done"
        /\ \A p \in Products : Sendable(out[p]) \in {"none", outStore[p]}
        /\ \A k \in Sources, t \in Derived : Sendable(disk[k][t]) \in {"none", store[k][t]}

(* "corpus/raw is exactly as downloaded, never modified".                   *)
RawNeverModified ==
    [][\A k \in Sources : store[k].raw = "whole" => store'[k].raw = "whole"]_vars
=============================================================================
