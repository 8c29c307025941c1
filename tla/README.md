# Verification of pod-harness

pod-harness is what runs on a rented GPU pod: it boots the pod, keeps models and
code there, runs jobs or pulls tasks from a control plane (pod-control, which is
not in this repository), and tells of what became of them. These modules model
the parts of it where threads, processes, a killed pod, a broken connection or a
remote leaseholder meet, check them with TLC on small instances and prove the
main results with TLAPS.

Paths below are those of the repository; `src/src/pod_harness/` is written `ph/`.

## 1. Inventory

### The parts, their state and operations

| Part | State | Operations | What makes it hard |
|---|---|---|---|
| `ph/worker/loop.py` (podh-worker) | `tasks` dict, each `TaskRun`'s `started`, `closed`, `ready`, `stop_at`; `draining`, `broken`, `claimed_total` | claim, dispatch, watch, drain, per-task beat / prepare / execute threads | three threads per task and the main one share fields, mostly without locks; leases may go at any time; a handler may hang |
| `ph/worker/context.py`, `api.py` | `stop_reason`, attempts of a call | `stop`, `check`; calls with retries | first reason wins without a lock; a call that was counted but not answered |
| `ph/worker/handlers.py`, `ph/comfy.py` | a prompt in ComfyUI's queue, a websocket, the clocks of a run | `prepare`, `run`, `submit`, `_follow`, `stop`, `interrupt`, `collect` | ComfyUI is wedged, dies, restarts under other tasks, loses messages and answers |
| `ph/events.py`, `ph/status.py`, `ph/progress.py` | `events.jsonl`, `status.json`, one temporary name | `emit`, `since`, `wait`, `status` | three writers in two processes, no lock but the file system; death between two file operations |
| `src/serve/jobs.py` | `_procs`, the job's directory | `submit`, `_reap`, `cancel` | cancel against the end of the job and its reaper |
| `src/serve/api.py`, `code.py`, `extensions.py` | the idempotency keys on disk | `submit_job`, `job_events`, code and extension endpoints | two overlapping submits with one key |
| `ph/boot/models.py` | the manifest, `_INFLIGHT`, files, `LocalState.models`, `models-verified.json` | `refresh`, `fetch_one`, `Watcher.once`, `ensure`, the put-back thread; the boot's own stage | any number of callers want the same file while the manifest changes |
| `ph/boot/core.py`, `cli.py` | `finished`, the stage under way, processes, markers | `run_stage`, `finish`, `stop_process` | finish exactly once; a stage that timed out goes on in its thread |
| `ph/boot/serve.py`, `workload.py` | the supervised process, restarts, `stop` | `_wait`, `stop`, `drain`, `restart` | a restart against the end of the pod |
| `ph/boot/app.py`, `addons.py`, `binaries.py`, `ph/fetch.py`, `kits.py` | directories, their stamps, markers, `.part` files, the control plane's kits | unpack, clone, install, replace, mark; `http_download`; `get`, `put` | a kill between two steps, a boot asked for something else, a connection that drops and resumes over a changed file |
| `ph/heartbeat.py`, `podlogs.py`, `sidecar.py`, `report.py`, `ph/local.py` | last status, what was refused, which log requests are answered, `STOP_FILE` | the beat, boot lines, `/done`, log tails | threads that share module globals; control planes of every age; lost answers |
| `ph/framework.py`, `chunks.py`, `resume.py`, `spec.py`, `ph/execute_job.py`, `podh-prepare`, `podh-publish` | artifacts, results, the chunk at hand, trees on the disk and in the store | wiring, chunked runs, publish and evict, resume | failure of one chunk or transfer of several; what is evicted must be published |
| `ph/mount.py`, `storage.py`, `objectstore.py`, `codestore.py` | files, mounts | transfers | partial transfers, replace in place |
| `ph/registry.py` | a SQLite table | `assign`, `set_state` | guards are in the SQL |
| `ph/boot/gpu.py`, `image.py`, `ph/gpucheck.py`, `resources.py`, `parallel.py` | none shared | checks | sequential |
| `src/docker/**` | none shared | scripts of the image | sequential, but for podh-init's heartbeat |

`PROJECT.json` lists each with its status, and the hazards with their lines.

### How they interact

- pod-control leases tasks to the worker (claim, beat, start, done, release), and
  answers the boot's `/alive` with `drain`, `park`, `models_rev` and log requests.
- The worker asks podh-boot's local HTTP API for its state, tells it that it is
  busy, and POSTs `/models/fetch` (that is `ensure`). Its handlers talk to
  ComfyUI, which podh-boot supervises as the workload, and have it restarted by
  `/workload/restart`.
- The HTTP service starts one subprocess for each job (`execute_job`) and meets
  it in the job's directory only: the log and the snapshot.
- In a batch pod, podh-init runs podh-prepare, `execute_job` and podh-publish one
  after the other; they meet on the disk and in the object store.
- The boot runs its stages over what earlier boots left on the volume, supervises
  a service or task process and ends the pod.

### What makes each of the modelled parts correct

- **Worker**: at most `capacity` handlers run; a claim is over once and told of
  once; no handler works on a task the pod gave back (unless it had to be given
  up); every claim, a drain and `--once` end although handlers hang.
- **ComfyUI's client**: a task that has ended leaves nothing of its own in
  ComfyUI's queue, or says so; each guard ends the task it guards.
- **Job log**: seq numbers of what reads back grow; a poller's cursor skips
  nothing; a reader never sees half a snapshot; the snapshot and the log agree;
  a job whose process died gets an end, and its poller goes home.
- **Models**: one writer per path; what is said of a path agrees with its file;
  an addition is not slept through; nobody waits for ever for another's download.
- **Pod**: the end is decided once, told once and carried through, whichever
  thread comes first; app.serve does not outlive it and a stopped one is not
  started again; never two workloads at once; a workload's death is heard.
- **Installs**: a boot that is through has what it was asked for although it
  skipped what markers and stamps said was there; a file under its final name is
  whole; a published kit holds what its version says; every boot ends.
- **Talk**: what an older control plane refuses for a newer key reaches it
  without that key; a log request is answered once, with the log's true end; a
  pod that is over goes quiet, and so does one whose beats see it hang.
- **Batch job**: the job's stages never reduce over a failed chunk; "done" means
  every stage of every chunk; what is evicted was published; one chunk at a time
  is on the disk; an exit status of 0 means that the product is in the store. The
  last three hold with exceptions that section 5 names: the code makes them only
  for files an upload sends, for sources that lie where it looks for them, and
  for a mount of kind object.

## 2. Modules

| Module | Stands for |
|---|---|
| `Worker` | `ph/worker/loop.py`, with what it uses of `context.py` and `api.py` |
| `ClaimLedger` | the abstract specification: what the worker promises of each claim |
| `WorkerLedger` | the refinement mapping from `Worker` to `ClaimLedger` |
| `WorkerProofs` | the proofs about them |
| `Comfy` | `ph/comfy.py`'s runs and `ComfyRunner` of `worker/handlers.py`, with ComfyUI as the environment |
| `ComfyProofs` | the proofs about it |
| `JobLog` | `ph/events.py`, `ph/status.py`, `src/serve/jobs.py` |
| `JobLogProofs` | the proofs about it |
| `Models` | `ph/boot/models.py` after ready |
| `ModelsProofs` | the proofs about it |
| `Pod` | `ph/boot/cli.py`, `core.py` (`finish`, `run_stage`), `serve.py`, `workload.py`, and what of `local.py` and `report.py` reaches them |
| `PodEnd` | the abstract specification: what podh-boot promises of a pod's end |
| `PodProofs` | the proofs about it |
| `Install` | the stages of `ph/boot/binaries.py`, `models.py`, `addons.py`, `app.py` over `ph/fetch.py` and `kits.py`, across boots |
| `InstallProofs` | the proofs about it |
| `Talk` | `ph/heartbeat.py`, `podlogs.py`, with the loops of `local.py`, `sidecar.py` and `report.py` that use them |
| `TalkProofs` | the proofs about it |
| `Wiring` | the pure part of a job: stages' declarations, the engine's wiring check, the shallow check of a spec, `resume`'s trim, `chunks.plan` |
| `Runner` | a batch job: `podh-prepare`, `execute_job`, `framework.Runner` with its chunk hooks, `podh-publish`, over `ObjectMount` and `Storage` |
| `RunnerProofs` | the proofs about `Wiring` and `Runner` |
| `MCWorker`, `MCComfy`, `MCJobLog`, `MCModels`, `MCPod`, `MCInstall`, `MCTalk`, `MCRunner` | instances for TLC |

Definitions whose names extend another's and that nothing uses (`MayDispatchOneMore`,
`FetchEnterAlways`, ...) are plausible bugs. Put in place of the definition
they are named after, each makes TLC find a property violated: they show that
the property depends on the code it is about.

### Worker

State: `mpc` is the main thread's place in `run()`, with the loop variables it
keeps across a step (`todo`, `active`, `overdue`, `want`); `beat`, `prep`, `exec`
are each task's threads; `started`, `closed`, `ready`, `stop`, `stopAt` the
`TaskRun`'s fields; `tasks` the dict; `final` the done or release on its way;
`srv` pod-control. A `TaskRun` is named by its place in the order of claims, so
that a task handed out again has a second one.

A step is what one thread does between two points where another thread matters:
a call, a lock given up, a field read now and used later. So `_dispatch`'s
count, its look at each run and the start of the execute thread are separate
steps, and `_drop`, `_release` and `_report` split at `closed`. A SIGTERM sets
`draining` wherever the main thread is, as a signal's handler runs between any
two of its instructions (cli.py:45); so does podh-boot's local state, at the poll
(both are `HearDrain`).

| Actions | Code |
|---|---|
| `PollClaim`, `PollDrain`, `PollOnce`, `ClaimReply`, `ClaimNothing`, `AddTask`, `AddDone` | `run`, `_claim` |
| `DrainVisit`, `DrainClose`, `DrainDone` | releases while draining or broken |
| `DispatchVisit`, `DispatchDone` | `_dispatch` |
| `WatchVisit`, `WatchGiveUp`, `GiveUpClose` | `_watch` |
| `BeatAsk`, `BeatHear`, `BeatDrop` | `_beat`, `_drop` |
| `PrepLook`, `PrepModels`, `PrepClose` | `_prep`, `_models` |
| `ExecStart` ... `ExecClose`, `Handler*`, `FinishReturns` | `_execute`, `_report`, `_close` |
| `TimeoutPasses`, `GracePasses` | the clock |
| `LeaseLost`, `TaskCancelled`, `FinalAnswered` | pod-control (external) |

Whether the worker runs with `--once` is chosen by the initial state
(`OnceModes`). Left out: the input cache, the vram thread, the busy flag and held
tasks' details told to podh-boot, the attempts inside one call (a call is answered
or given up, in any order with the others), the window check of a claim, and the
unlocked test-and-set inside `TaskContext.stop` (one step here).

### Comfy

State: `pc` is where each task's thread is in `ComfyRunner` and
`ComfyClient.run`; `ws` its websocket; `facts` what it knows (the end it was
told, that it should stop, that it is late or quiet); `seen` what the history
said; `how` what a stop came to. ComfyUI is the rest: its queue, the prompt that
runs, whether its node hears an interrupt (`node`), the history, and the messages
sent and not yet read. It promises nothing: it may die and rise, be wedged, and
leave any request unanswered. It may also answer the deletion with an HTTP error:
that takes nothing out of the queue and does not keep `interrupt` from sending
the interrupt (comfy.py:220-225), while an answer that stays out does.

| Actions | Code |
|---|---|
| `Prepare`, `Finish` | `ComfyRunner.prepare`, `finish` |
| `Connect`, `Submit` | `_WS.__init__`, `submit` |
| `Abort`, `Look`, `Recv` | `_follow`: the guards, the history, the messages |
| `Delete`, `Interrupt`, `Grace`, `Restart` | `interrupt`, `stop`: the deletion, the interrupt, the wait for it, the workload's restart |
| `Collect` | `_collect`, `outputs_of`, the reason of a failure |
| `Late`, `Quiet`, `Over`, `Ask` | the clocks, and the task's stop |
| `Takes` ... `Rises` | ComfyUI (external) |

Left out: the upload of inputs, the download of outputs by their bytes, the
websocket's frames, the catalogue of nodes.

### JobLog

A step is one file operation, or one poll of the reader. Files have numbers and
two names, `status` and `tmp`: opening truncates what the name leads to,
renaming moves the name, so that the shared name `status.json.tmp` can do what
it does. `emit` is `EmitSeq`, `EmitAppend`, `EmitRead`, `EmitOpen`, `EmitWrite`,
`EmitReplace`, for the subprocess, the reaper and the cancel alike. An event is
cut down to what it makes of the job's state, and a snapshot also carries the
set of events merged into it.

The initial state is `submit` just after `Popen`: the log has the event of the
submission. The subprocess emits job_start, stage events and job_done (and may
say failed on the way), and may die anywhere, within an append too. job_done says
"done" only when no stage failed, an optional one included: `Runner.run`'s `ok` is
over all results, in which an optional stage that failed is "failed"
(framework.py:443, 534). It may also exit between two emits without having said
its last word, with either code: a spec's `exec` is other code than the engine, the
reporter may have no log, and a run may raise. Then `_reap` says the last word,
"done" for a code of 0. Left out: the mirror directory, writing the spec,
`since`'s limit, more than one cancel.

### Models

The boot's models stage has passed; a heartbeat's reply may tell the watcher of
a higher `models_rev` at any time, and POSTs come at any time. `pc` is where
each caller is, `fpc` where each of its downloads is, `inflight` is `_INFLIGHT`.
`stale` is which download's item has a link that was replaced since: it decides
whether `refresh(stale=...)` makes a request. A caller's pool has `Parallel`
places, and one that waits for another's download keeps its place.

A file is there, verified, or is not. Putting its sha on record (`_remember`, into
`models-verified.json`) comes after that, in a download as in a look at a file
that is there, and may fail: `unrecorded` has the files it failed for. What that
does depends on who met it: a download tells "failed" with the file in place
(`Lands`), a POST's thread tells "failed" of all it asked for that is still
"fetching" and ends (`EnsureGivesUp`), and the watcher's thread dies
(`WatchDies`). `forsaken` is history: the paths these two left as they were told.

Left out: sizes and hashes (`Install` has them), the put-back thread, the
manifest's `missing`, a POST's own link that is a source, and a download whose
failure is one of its logging or counting.

### Pod

The stages before the workload are one step; everything after has its own.
`main` is where main is, `term` where a signal's handler is (it runs in main's
thread, so main stands still meanwhile, wherever it is), `stage` the thread of
a stage, which goes on when main has given it up. `serve` and `work` are the two
children's objects with their process; `waiter` says that `Serve._wait` has an
exit to act on and holds the lock. Main's own start of app.serve takes no lock
(serve.py:45): its process is "loose" between `Popen` and the assignment of
`self.proc` (`MainForks`, `MainStarts`), where a stop finds none; `missed` is
history: the last stop did not find it. `loop` is `Workload._loop`, `ask` a restart
asked for on the local API, `drain` the hook and its thread. `result`, `ender`
and `end` are `finish`: what it decided, in which thread, and how far it is.

| Actions | Code |
|---|---|
| `Finish`, `EndUploads`, `EndTells`, `EndStopsServe`, `EndStopsRest` | `Context.finish`, in the thread that called it first |
| `MainStages` ... `MainEnds` | `main`, `run_stage`, `_end` |
| `StageFails` ... `StageUp` | a stage's thread: `_stages`, `workload.run`, `wait_up` |
| `Sigterm`, `TermStopsServe`, `TermStopsWork`, `TermLeaves` | `on_term` |
| `ServeExits`, `ServeLooks`, `ServeActs` | app.serve and `Serve._wait` |
| `Reply`, `DrainBegins`, `DrainStops` | the beat's reply, `on_reply` and `drain` |
| `WorkloadDies`, `Loop*` | the workload and `Workload._loop` |
| `AskRestart`, `Restart*` | `restart_for_api`, `Workload.restart` |
| `ReportDone`, `ReportDirect` | `podh-report done`: POST /done, and its own report |

The locks are not variables: who holds `Serve.lock` or `Workload.lock` follows
from where the threads are (`ServeLocked`, `WorkLocked`). `strays` counts the
workload processes that run and that nothing points to any more. Left out: what
the stages do (`Install` has four of them), the upload of a drained pod's logs,
which fatal string a log holds, and the time a child takes to stop.

### Install

A file is the sequence of its blocks, each of the version it was made of; a
`.part` likewise. A tree (of a binary, an addon, the app) is what it was made of
(`tree`), which requirements or setup were last through in it (`ready`) and what
its stamp says (`stamp`). No file is not the same as an empty one (`NoFile`).
`mark` is `markers.json`, on the volume. `load` is the download under way; in it
`known` says whether an answer gave the body's length (a Content-Range or a
Content-Length), without which a stream that stops is taken for whole
(fetch.py:175, 203). A boot runs
`pc` through the stages; `Die` kills the pod at any step, keeps the volume and
keeps or loses the container's disk; the next boot may be asked for another
plan. `kit` is the control plane's kits, which other pods publish too.

| Actions | Code |
|---|---|
| `Boot`, `Die` | `run_stage` from its start; a kill or a park |
| `Binary`, `BinaryPut` | `binaries._installed`, `install` |
| `SwapAside`, `SwapPlace` | the two renames of `replace_dir` |
| `Model`, `Landed` | `models.run`, `_fetch_one`, `present`, and `_remember`, which may fail the stage with the file in place |
| `AlreadyWhole`, `Refused`, `NothingMore`, `Answered`, `Block`, `Ended`, `TimedOut`, `Finish` | `http_download`, `_finish` |
| `AddonSet`, `Unkit`, `Addon`, `Pip`, `Probe`, `AddonMark`, `AddonsDone` | `addons.run`, `install`, `clone`, `pip_install`, `probe`, `publish` |
| `App`, `Setup`, `SetupEnd`, `Stamp`, `AppMark` | `app.run` |
| `Late`, `Turn`, `OtherPublishes` | the deadline; another file behind the link; another pod's kit (external) |

`touched` and `lost` are history. `touched`: the thing was changed for another
definition than that of its marker (`Change`); what is put in place for the
marker's own definition does not count. For the model's file that is the
recorded sha (`Recorded`): a file whose record is believed without a look stays
`touched`, one whose sha was computed does not. `lost`: the disk with the addon
was lost after its marker was set, and the marker, on the volume, was not. Left
out: aria2c, archives' contents, the comparison of freezes, more than one model
and one binary, the app's own commands' text.

### Talk

`host` is which process has the client: podh-boot and the sidecar are one
process whose threads share `heartbeat.py`'s globals (`malformed`, `refused`);
under podh-init the heartbeat is a process of its own, and so is each
`podh-report`, so that `malformed` is a set of processes. `known` is the control
plane's age: the routes and keys it knows. A thread (`beat`, `line` for boot
lines, `end` for the report of the end, and one for each log request) starts a
request (`Start`), is answered or not (`Returns`), and may send again without
what was refused (`WithoutNumbers`, `Resends`).

| Actions | Code |
|---|---|
| `Beat`, `BeatEnds`, `TakesReply` | the beat's loop, `alive`, `Responder.__call__` |
| `Pushes`, `Answered` | `collect`, `push`, `_answer`; `ReadTail` is `read_tail` and `_fit` |
| `Line`, `LineOver` | `boot` |
| `End`, `Upload`, `Report`, `EndOver` | `upload_all`, `done`, in each host |
| `Returns`, `WithoutNumbers`, `Resends` | `request`, `_refuse_boot_numbers`, `_post_tolerant` |
| `Ready`, `Live` | podh-boot's `state.ready`; what the beat asks |
| `Ask`, `Hangs`, `Stale` | the control plane, the workload, time (external) |

A request is taken (200), refused for a route (404, that of boot lines included) or
a key (422) the control plane does not know, turned away (401), or fails there (500),
heard or not. `watched` says whether the beats ask for signs of work at all:
podh-boot's only once it is ready, and with a workload that has a url (`Ready`,
cli.py:168-172, workload.py:306), podh-init's only with a positive
PODH_HEARTBEAT_STALE_SEC (heartbeat.py:518), the sidecar's always. One that does
not beats whatever the workload does.

What a thread decides after an answer and the start of its next request are one
step: nothing another thread does in between is seen. `excused` is history: an
answer stayed out or was for another reason than the report's keys, or another
thread wrote `_LAST_STATUS` before it was read. A
log's line has two sizes, as it is read and as it is sent, as a tail is cut by
both. Left out: the archive of all logs and the signed link it is put to, the
measured numbers, which file is the newest activity.

### Wiring and Runner

`Wiring` has operators only: `WiringOK` is `Runner.wiring`, `From` `resume`'s
trim, `Passes` `chunks.plan`.

`Runner` is one job of a batch pod. `spec` is chosen by the initial state; `pc`
goes through podh-prepare, the engine and podh-publish; `queue` is what the pass
has left to run, `left` the chunks not entered, `put` where each artifact of the
context comes from, `results` what the stages came to, `rep` the reporter's
counts and verdict. `disk` and `store` say for each source and each of its
trees whether it is absent, cut short, whole, of an earlier run, or new, and `out`
and `outStore` the same of what the run promotes (`profiles`) and of its output. A
store's copy may also lack the files that no upload sends.

Besides its stages a spec says: the kind of its mount (`s3` is fetched from like
`object`, but podh-prepare and podh-publish do nothing for it), whether the output
root is known (`outRoot`), whether files have names of `SKIP_PATTERNS`, which
`upload_dir` leaves out (`names`: none, some in each tree, or all of them), and
where the sources lie (`corpus`): below the root the engine is told of, named
corpus or not, elsewhere (a path of their own), or it is told of none. Publishing
looks below that root, the eviction below a directory named corpus next to it
(`Found`, `Freed`).

A stage that runs may raise, or come back with any part of what it declares, empty
or not, and writes up to `MaxWrites` trees of any kind, whatever its scope. A
check or a verification that raises is caught nowhere: the run dies, after the
chunk's `exit_chunk`, with no last word (`StageRaises`, `Die`). Up to `MaxFaults`
fetches and uploads fail; the roots that are files are fetched for any spec, and
one that fails is fatal (`Prepare`). An upload that breaks off midway counts as
one that did not go up.

| Actions | Code |
|---|---|
| `Prepare` | `podh-prepare`, `ObjectMount.prepare` |
| `Refuse`, `Load` | `load_registry`, `build_runner`, `seed_given`, `resume.apply` |
| `BadWiring`, `JobStart`, `Finish` | `Runner.run` |
| `EnterChunk`, `ExitChunk` | `attach_chunks`: `enter`, `leave`, with `publish_tree` and the eviction |
| `RunStage`, `StageRaises`, `Die` | `Runner._one`, `Stage.check`, `execute`, `verify_outputs`; the `finally` around a chunk |
| `Reduce`, `Abort` | `_run_chunked` after the chunks |
| `Publish` | `podh-publish`, and podh-init's exit status |

Left out: plan and verify as reports, `chunks.Working` and `run_chunks` (nothing
else in `src/` uses them), trees other than the source's own, the profiles and the
run's output, a `chunk_by` other than "source", stages that fetch raw sources
themselves, what a failed fetch of a root that is a file leaves of it (mount.py:270
has opened it for writing by then), the shallow check of a spec, which decides nothing
on the pod, and the volume and FUSE mounts but for what they do not do.

## 3. Runs

Deadlock checking is off everywhere: the worker's process, a job and its
poller, the threads of the POSTs, a boot and a report end, and that is no
deadlock. The liveness properties say what must be reached before.

| Run | Question | Instance | Why it is enough |
|---|---|---|---|
| `worker` | capacity, endings, ledger, exit; every claim ends; a drained worker and a `--once` worker exit | 2 tasks, capacity 1, prefetch 1, with and without `--once`; one task needs models, has a timeout, says fallback app, may hang and may be taken away | one task runs while another is held and a place gets free: every pair of threads of one task, and of two, meets; each way of ending is next to a task that needs the place |
| `worker_rehand` | violation: a task handed back to the pod that lost it | 2 tasks, `Rehand`, 3 claims | needs two TaskRuns of one id |
| `comfy` | nothing is left in ComfyUI's queue; each guard ends its task | 2 tasks, one with a timeout and a `keep`, one with a stall guard that may be stopped; one death or restart | one prompt runs while another waits; each guard is met by a deaf node, a lost answer, a lost websocket and a death |
| `joblog` | the record of a job: seqs, snapshots, cursors, its end | 1 event in the middle, deaths, torn lines, exits without a last word, a cancel or none | every place of death, before and after the reaper; the three writers' emits overlap in every way |
| `joblog_verdict` | violation: cancelled and then called failed | a cancel, no death | |
| `models_midlife` | one writer, truthful states, additions, waits that end | 2 models (one with a source only, added at the second revision), watcher and 2 POSTs, 2 attempts, 1 place; records that fail | each model has two callers at once, each of which can be first |
| `pod_end` | one end, carried through; no child started after its stop; one workload | pods with and without a workload, an app.serve and `--exit-on-fail`; app.serve uses the local API, one restart asked for; a stop may come between main's fork of app.serve and its knowing of it | every two of main, waiter, supervisor, restart, `POST /done`, drain and signal meet, with each of them first; a second restart asked for adds no new pair |
| `pod_logs` | violation: done is told before the logs are uploaded | no restart | needs one POST /done that takes longer than its caller waits |
| `install` | what a boot skips was there; files and kits are whole; boots end | 2 boots over 3 plans, 2 versions of a file of 2 and 3 blocks, a set of 2 addons (one optional) in 2 versions, one change behind the link, 1 retry, 2 attempts; answers with and without a length; the disk is kept or lost | the first boot dies at each step, the second asks for the same, the other and a part of it; a `.part` may be longer, shorter and of the other version |
| `talk` | refusals cost nothing; a log request is answered once and truly; a pod goes quiet | each host, with beats that ask for signs of work and beats that do not, control planes of 3 ages that may also turn away or fail, 1 log request, 5 logs of up to 3 lines on the edge of a cap of 3 | the ages are nested, so that a refusal is for all that is newer or for a part of it; each pair of threads of a process has its requests crossed |
| `runner` | the hole, the verdict, the eviction, the disk, the exit status | 10 pipelines (well and badly wired, with an unknown stage, empty), 1 or 2 sources, whole or by chunks, resumed or not, one fault, one tree written by each stage; one pipeline with each kind of stage over each of: object mount or s3, output root or none, names, places of the corpus | each stage of each chunk comes to each outcome with each transfer failing; a third chunk meets the same state as the second; what a spec says of its files changes what one upload or one eviction does, so one pipeline with both kinds of stage meets it all |
| `runner_raw` | violation: the store's good source replaced by a short one | as above | |

Bounds: `MaxClaims` (TaskRuns made), `Revocable` (tasks pod-control may take
back), `Stopped` and `MaxDeaths` (stops asked for, ComfyUI's deaths), `Steps` (a
subprocess's events in the middle), `MaxRev` (revisions), `MaxAsks` (restarts
asked for), `MaxBoots`, `MaxTurns` (boots, changes of the file behind the link),
`MaxFaults` (transfers that fail), `MaxWrites` (trees one run of a stage writes:
it may run for each chunk, and every tree is treated by itself). A bound only
stops new claims, deaths, events, revisions, requests or faults; it never stops
what is under way. Boot lines, beats and a download's resumptions are under no
bound.

No run checks the type invariants: each module's is proved for every value of
the constants (section 4). `PlanFits` is about an algorithm: the run holds
`chunks.plan` against its reference (`PassesSound`) for all sequences of up to
three groups of any size up to one above the budget, and `PlanIsSound` proves it
for all sequences. `install` has two boots, and a recorded sha that is no longer
that of the file needs three (install one version, be killed between the rename of
the next and its record, be asked for the first again): `UpIsAsAsked` covers any
number.

### Fairness

- Worker (`Fairness`): every thread runs on (weak fairness of each thread's
  steps, of the answers to calls, which all have timeouts, and of the two
  clocks). Nothing is assumed of pod-control or of handlers: one that may hang
  may do so for ever, and a lease need not be lost.
- Comfy: each task's thread runs on and its clocks pass (`Late`, `Quiet`,
  `Over`); every request has a timeout, so a step always comes. Nothing is
  assumed of ComfyUI.
- JobLog: the service's threads and the poller run on; the subprocess is only
  assumed to die once it has been killed. A job that runs for ever is allowed.
- Models: each caller's threads run on as a whole; a download ends, since it has
  a deadline and socket timeouts. Revisions and POSTs need not come.
- Pod: each thread of podh-boot runs on: its waits and calls have limits, and a
  stage that does not end is given up. The children, the replies of pod-control,
  requests and signals are under no fairness.
- Install: the stages run on and the deadline of a download passes (`Step`,
  `Late`). Commands have limits of their own. Deaths and the server are free.
- Talk: each thread (beat, line, end, a log's push) runs on, as every request has
  a timeout, and an activity file nobody writes goes stale (`Stale`). The
  control plane, the end and a hang need not come.
- Runner has no liveness property: it is one sequence of steps of one process
  after the other, none of which waits for another.

## 4. Proofs

All proofs are for any values of the constants allowed by the modules' `ASSUME`s.

| Theorem | Says | Argument |
|---|---|---|
| `WorkerType` | `Spec => []TypeOK` | inductive as it stands |
| `WorkerImplementsLedger` | `Spec => LedgerSpec`: `Worker` implements `ClaimLedger` under `phaseBar` and `final` | needs `LedgerInv`: a thread about to speak for a task knows whether it is started and closed. Each action is a `Hold`, `Start`, `End`, `Answered` or a stutter |
| `WorkerCapacity` | when a task is handed to the pod once (`~Rehand`), `[]HandlersWithinCapacity` | below |
| `WorkerAbandonsOnlyByGivingUp` | `Spec => []OnlyGiveUpAbandons` | `TurnedBack`: a task closed under a thread that is on its way to the handler was told to stop, so the check before the handler turns it back |
| `WorkerExitsQuiet` | when a task is handed to the pod once (`~Rehand`), `[]ExitQuiet` | `CapacityInv` says that what is out of the dict is closed; `LeftEmpty`: `run` returns with the dict empty, and it stays so |
| `ComfyTypes` | `Spec => []TypeOK` | inductive with each run's outcome |
| `EndedLeavesNothing` | `Spec => []NothingLeftGoing` | `GoingInv`, below |
| `JobLogTypes` | `Spec => []TypeOK` | inductive with the writers' places |
| `SeqsOnlyGrow`, `SnapshotIsWhole`, `SnapshotHasAll`, `PollerMissesNothing` | `Spec => []SeqsGrow`, `[]StatusWhole`, `[]StatusMergesAll`, `[]CursorMissesNothing` | `AloneInv`, below |
| `ModelsType` | `Spec => []TypeOK` | inductive as it stands |
| `ModelsOneWriter` | `Spec => []OneWriter` | `SlotInv`: a thread that downloads a path is the one its slot names |
| `ModelsStateTrue` | `KeepsListed => (Spec => []StateTrue)` | a path with a file is listed and stays so (`ListInv`), and who tries a path has no file there (`TryingFileless`), because only the slot's owner makes one. "Failed" with the file in place is told of an `unrecorded` path or left by who died of one (`forsaken`) |
| `ModelsAdditionsSeen` | `NothingUnlisted /\ WatcherAnswered => (Spec => []AdditionsSeen)` | `SeenInv`: from the event to its rest the watcher keeps every path it was told of in its list, in a download or told of; nobody ever takes back what was told |
| `PodType` | `Spec => []TypeOK` | inductive as it stands |
| `PodOneWorkload` | `Spec => []OneWorkload` | `WorkInv`: nobody restarts a workload before `ctx.workload` is set; after that who starts it has the lock and has seen it dead |
| `PodServeEnds` | `Askers \subseteq {"serve"}`: `Spec => []ServeEndsWithPod`, which excepts a process that was `missed` | `EndInv`, below |
| `PodEndsOnce` | `Askers \subseteq {"serve"}`: `Spec => EndsOnce`, that is `Pod` implements `PodEnd` under `result`, `EndPhase`, `Process` | `EndInv`; each action is a `Decide`, a `Goes`, `Leave`, `Killed` or a stutter |
| `PodStoppedStays` | `Askers \subseteq {"serve"}`: `Spec => StoppedStaysStopped` | `EndInv` and `WaiterLast`: stop and the waiter exclude each other by `Serve.lock` |
| `InstallTypes` | `Spec => []TypeOK` | inductive with the other parts of `IInv` |
| `UpIsAsAsked` | `Spec => []AsAsked`, which excepts what was `touched` and the requirements of an addon that was `lost` | `IInv`, below |
| `NoPartTakesTheName` | `Spec => FileIsWhole`, which speaks, without a sha, only of files whose length somebody gave | `PartInv`: a body that has ended, of a known length, made the `.part` as long as its version and end with a block of it |
| `KitsAreWhole` | `Spec => []KitIsWhole` | `SetInv`: each addon the set is through with, that may not fail, is at its commit |
| `TalkTypes` | `Spec => []TypeOK` | inductive with `BusyInv` |
| `OneAnswerEach` | `Spec => []AnsweredOnce` | `BusyInv`, `OnceInv`: the requests under way are the `busy` ones, and none of them is `done` |
| `RefusalLosesNoReport` | `Spec => []RefusalCostsNothing`, which excepts the `excused` | `RefusedInv`: a report that is back was taken, is excused, or was refused for its keys and the global still says so |
| `TailsAreTrue` | `Spec => []TailIsTrue` | `ReadTailIs`, about `read_tail` and `_fit` for every file, number and cap |
| `TypeIsKept`, `PhaseIsKept` | `Spec => []TypeOK`, `Spec => []Phase` | inductive; `Phase` says what each place in the run has of the loop's state |
| `NothingEvictedUnpublished` | `Spec => EvictsPublished`, but for a tree cut short and for the files no upload sends | `RawAsFetched`: a chunk's source is as it was fetched, and what was not published stays |
| `OneChunkAtATime` | `Spec => []OneResident`, for sources below a root named corpus (`corpus = "told"`) | `ResidentCounted`: the sources on the disk, but for the chunk at hand, are at most as many as the faults so far |
| `NeverOverAHole` | `Spec => []NothingOverAHole` | `NoHoleYet`: unless the run is aborted, every chunk entered has come through the stages its pass is past |
| `DoneMeansAllOfIt` | `Spec => []DoneIsWhole` | `Counted`: results, queue and what is ahead are the announced total for as long as all went well |
| `DoneIsInTheStore` | `Spec => []DoneIsDurable`, for a mount of kind object with an output root, but for the files no upload sends | inductive with `Phase` |
| `PlanIsSound`, `PlansAlwaysFit` | `PassesSound` for all groups, sizes and budgets; `Spec => []PlanFits` | below |

The number of running handlers is not inductive: `_dispatch` compares
a count it made earlier with the capacity, and other threads take runs out of the
dict meanwhile, while their handlers may still be running. `CapacityInv` counts
the places taken (`Occupied`: started, and in the dict or running), and says
that a claim outside the dict is closed and not on its way to its handler, that
an id names one TaskRun (so that a `pop` by id takes out the right one), and
that a dispatch's count is never below the places taken. `~Rehand` is needed:
`worker_rehand` is the counterexample.

`KeepsListed` (pod-control's manifest keeps what it listed, and lists what POSTs
bring links for) is needed as well: see the divergences.

`ServeEndsWithPod` is not inductive: it must be known that nobody is about to
start app.serve when it has been stopped. `EndInv` has three parts. `MainInv`:
until main forks app.serve nobody but main can end the pod, so what main
starts there it starts before the end; between the fork and `self.proc` the new
process may already POST /done, and a signal may come, and a stop that comes then is
`missed`. `WaiterInv`: the waiter acts on a process that has exited, and whose
finish it is. `StoppedInv`: once the end or the signal is past app.serve's stop,
it does not run unless it was missed, the waiter acts on nothing, and `stopping`
keeps it from doing so again. The first part is what needs
`Askers \subseteq {"serve"}`: a setup command of the app stage that POSTs /done
decides the end while main goes on to start app.serve.

`NothingLeftGoing` is not inductive: an ended task's prompt must be known to be
gone before the task ends. `GoingInv` says that a prompt has one place in the
queue, that one not yet submitted has none (`Unsent`), and that each task's prompt
is either spent (it neither waits nor runs) or open: nobody has said that it
ended, in the history, in a message or to the task, whose thread is still at it
or ended as `lost` or `unstopped`. That ComfyUI's queue holds a prompt once is what makes its
deletion final.

The properties of the job log speak of jobs nobody cancels (`Alone`; with a cancel
they fail, see the divergences). There the writers take turns (`Turn`): the reaper
begins when the subprocess has ended. `LogInv`: a seq about to be appended is
above all that read back, and a line without its end (a torn one) does not read
back, nor what is glued to it. `FileInv`: who is between the read and the rename
holds the snapshot's events and its own, and the temporary file is its own.
`MergeInv`: an event in the log is in the snapshot, in the hands of its writer, or
the last of a subprocess that ended. `CursorInv`: the cursor is at a line, and
what is not after it was given.

A boot that is through must have what it skipped, whichever boot put it there.
`IInv` of `Install` is the types and, for each kind of thing, that its record tells
the truth unless `touched`: `MarkInv` for an addon's marker, `AppInv` for the app's
marker together with the stamp in its directory, `FileInv` for the recorded sha,
`SwapInv` for a thing between its two renames (it is absent and, if it was marked,
touched), `SetInv` for the addons a boot has left behind it, `KitInv` for the
lengths of kits. A marker says of an addon's requirements what was true of the
disk it was set on: `MarkInv` claims them only for an addon that was not `lost`
since, which is where `addons.py:225` skips it without a look.

`chunks.plan` is a fold, and the library's induction theorems cannot be used. The
proof is by the least counterexample: `LeastNatural` takes the least element of a
set of naturals, `UpTo` turns it into an induction up to a bound with the claim as
a set, and `Passes` is a recursive function, so that its value after n groups is
one `Take` further than after n - 1. What holds after n groups (`Sound`): the
closed passes and the open one flatten to the first n groups, and would fit if the
open one were closed. `KeepIs`, `SumIs` and `TotalIs` use the same induction for
the other helpers, and so do `FromIs` and `ReadTailIs` of `TalkProofs` for the
lines of a log.

Every safety property of a passing run is thereby a theorem, of all values of the
constants the modules' `ASSUME`s allow, under the named hypotheses where the table
says so: `~Rehand`, `Askers \subseteq {"serve"}`, `KeepsListed`, `NothingUnlisted`,
`WatcherAnswered`; and with the exceptions that the properties state by the history
variables (`touched`, `lost`, `missed`, `unrecorded`, `forsaken`, `excused`) and by
what a spec says of its files. Each of them is needed, and what happens without it
is told in section 5. Only model-checked, because the prover reaches neither liveness under
fairness nor ENABLED: `ClaimedEnds`, `WorkerExits`, `TimedEnd`, `StalledEnd`,
`EndSettles`, `PollersGoHome`, `CallersReturn`, `EndCompletes`,
`WorkloadLossHeard`, `BootEnds`, `GoesQuiet`. The four runs that expect a
violation are about what the code does not do.

## 5. Findings and divergences

With a run (in `PROJECT.json`, "findings"):

- `worker_rehand`: `_close` pops by id and may take out a later TaskRun of the
  same task, so that more handlers than `capacity` run (loop.py:581).
- `joblog_verdict`: the subprocess's snapshot, read before the cancel's, takes
  "cancelled" back, and the reaper calls the job failed (events.py:207).
- `pod_logs`: `podh-report done` gives podh-boot 10 s, while the upload of the
  logs that comes first may take 60; it then reports done itself, with the
  upload still going on (report.py:57, core.py:490).
- `runner_raw`: a chunk's fetch that breaks off leaves a short source; the run
  goes on over it, and publishing the chunk sends it over the store's whole one,
  because `skip_existing` compares sizes (execute_job.py:265, mount.py:297,
  storage.py:277).

Reproduced while modelling, without a run of their own:

Worker
- A report is made although the lease was lost, when the handler ends first
  (loop.py:527; the header, loop.py:18-19, says nothing is reported).
- `_watch`'s close can take a task out of the dict while its `done` is still
  being retried; the process may then exit with the report undelivered
  (loop.py:429).

ComfyUI's client
- ComfyUI takes a prompt and the answer with its id is lost: the task fails and
  the prompt stays queued with nobody to stop it (comfy.py:288).
  `NothingLeftGoing` exempts that outcome.
- A message without a prompt id counts as one of the run and refreshes the clock
  of the stall guard (comfy.py:441): with another task's messages coming, a
  stuck run is not stopped. `StalledEnd` speaks of runs that hear nothing.
- A deletion nobody answers ends `interrupt` before the interrupt is sent
  (comfy.py:320-326); `stop`'s grace and the restart make up for it.
- By polling alone, after ComfyUI's death, a task without a timeout never ends.

Job log
- With a cancel, two events may get the same seq (events.py:148-150, 178), and a
  reader may see a half-written snapshot: the temporary name is shared
  (events.py:270-272). That is why `SeqsGrow`, `StatusWhole` and the others with
  `Alone` speak of jobs nobody cancels.
- A torn last line swallows the next event (events.py:186).
- `wait()` may answer that the job is over with events left unread
  (events.py:369); a cancel's text may land in the renamed snapshot, and the job
  then reads "unknown" (jobs.py:212-214).

Models
- A POST that sets a path to "fetching" after the owner of its download has
  reported it failed, and before the slot is popped, joins that slot; its outcome
  is reported by nobody, and the path stays "fetching" until a worker asks again
  (boot/models.py:312; 538 says "never leave a path fetching forever").
- The watcher's failed request for the manifest consumes its event: the addition
  waits for the next rise of `models_rev` (boot/models.py:461). `models_midlife`
  assumes the watcher's requests are answered; those of a POST may fail.
- The sha of a download goes on record after the file is at its path, within the
  same try: when that fails, the path is told failed with its file in place
  (boot/models.py:350, 363-370; the docstring, 298-303, is about the loser of a race
  that "reported a file that was in fact present as failed"). `StateTrue` allows it
  for `unrecorded` paths.
- Nothing is around the watcher's look at the files, which puts shas on record too:
  when that fails its thread ends, and the additions that come later are never
  fetched by it (boot/models.py:450, 464). `AdditionsSeen` speaks of a watcher that
  sleeps.
- A POST whose thread meets such a failure tells failed of all it asked for that
  is "fetching", also of what another caller is at (boot/models.py:535-539):
  `forsaken`.
- A refresh drops the links that POSTs brought; a later fetch of such a path
  says failed although the file is there (boot/models.py:94). `models_midlife`
  and `KeepsListed` have them listed.

Pod
- A drain that arrives after the reply hook is registered and before app.serve
  is started finds nothing to stop and is not looked at again: app.serve then
  runs on, against serve.py:13-15.
- `Serve.start` takes no lock when main calls it: a stop by the end of the pod or by
  a SIGTERM that comes between its `Popen` and `self.proc` (serve.py:45) finds no
  process, and app.serve runs on when podh-boot is through.
  `ServeEndsWithPod` excepts it by `missed`.
- `finish` stops the workload without its lock: a restart, or the supervisor,
  that is past its look at `stopping` starts the workload again after that, and
  nobody stops it (workload.py:175, 207). The same holds for the thread of a
  stage that was given up (core.py:562).
- An OSError of the supervisor's `start()` is not caught: its thread ends and
  the workload's next death is not heard, against workload.py's header.
  `WorkloadLossHeard` excepts it.
- A `POST /done` by a setup command of the app stage decides the end and stops
  nothing; main goes on and starts the workload and app.serve (`Askers` with
  "stage").
- With `--exit-on-fail`, main's own failure that comes second makes main wait
  for nothing: podh-boot may leave before the first finish has told its done,
  with `Askers` as above.
- A SIGTERM while another thread is in `finish` ends podh-boot without its done
  (cli.py:180-193); `EndCompletes` counts that as gone, and `PodEnd` as `Killed`.

Installs
- A changed definition of an addon or of the app that is only half installed
  leaves the earlier one's marker set: a boot asked for the earlier definition
  again skips it as installed (addons.py:225, app.py:71). `AsAsked` exempts it by
  `touched`.
- The markers are on the volume, the addons need not be. When the disk with an addon
  is lost and a kit, or a boot killed between its clone and its pip, puts the same
  commit back, its marker and its head agree and it is skipped without its
  requirements and its probe (addons.py:225; 24-25 says "pip still runs").
  `AsAsked` exempts the requirements of such an addon, by `lost`, and nothing else
  of it.
- An answer without Content-Range or Content-Length says nothing of the body's
  length: a stream that just stops is then finished, and without a size and a sha in
  the manifest a part, even of no bytes, takes the final name (fetch.py:175-181,
  203; the header says "a file at its final path is a complete one").
  `FileIsWhole` says so of files somebody gave the length of.
- A record that cannot be written fails the models stage with the file in place;
  the next boot finds it (models.py:350).
- A kill between the rename of a model and the record of its sha, and a download
  without a sha, leave the earlier version's sha on record (models.py:350).
- `replace_dir` says "either the old tree or the new one"; between its two
  renames there is neither (fetch.py:434-444), and the directories put aside are
  left when a kill comes there.
- Without a sha in the manifest a file may be a mixture of the versions of two
  boots: a `.part` whose length happens to be the file's is accepted
  (fetch.py:143). `FileIsWhole` promises less for those.
- A server that ignores the Range and drops every connection after some progress
  makes `http_download` start over until the stage's deadline (fetch.py:200).
- aria2c leaves a `.part` with holes, which a later `http_download` resumes by its
  length; only a sha tells.
- A kit may hold an optional addon at an older commit than its version's
  (addons.py:331).

Talk
- `_post_tolerant` reads the module's `_LAST_STATUS` after its request: another
  thread's request clears it, and a `/done` refused for its reason is not sent
  again; or sets it, and boot numbers are left out for good (heartbeat.py:229).
  `RefusalCostsNothing` exempts that interleaving by `excused`.
- podh-boot's beats ask the workload only when it is ready and has a url
  (cli.py:168-172, workload.py:306), and podh-init's look at the activity files only
  for a positive PODH_HEARTBEAT_STALE_SEC (heartbeat.py:518): without these a hung
  pod beats for ever (local.py:318, "so a hung workload looks stuck"). `GoesQuiet`
  speaks of pods whose beats ask (`watched`). Any answer below 500 counts as alive
  (workload.py:107-116), and so does a `live()` that raises (local.py:336-339):
  `working` is what these say, not whether work gets done.
- Log requests without an id share the empty one: only the first is ever
  answered (podlogs.py:178).
- A log whose last line alone is longer than a tail may be is answered empty:
  `read_tail` drops the part it begins in before `_fit` could cut it
  (podlogs.py:106-121).
- `status` and `handoff` of `/done` are not among the keys that are left out for
  an older control plane (heartbeat.py:348).

Batch job
- Files whose names match `SKIP_PATTERNS` (.zip, .tgz, .key, .env ...) are left out of
  every upload, which succeeds without them (storage.py:58, 283). `leave` then
  removes the whole tree, against its own "publish-then-evict" (execute_job.py:201,
  235), and podh-publish exits 0 without them. `EvictsPublished` and `DoneIsDurable`
  except these files (`Sendable`).
- For a mount of kind "s3", which `ObjectMount` serves, podh-prepare and podh-publish
  do nothing, and with no output root podh-publish does nothing either: an exit status
  of 0 with the product on the pod only (podh-publish:50-52, 58-62).
  `DoneIsDurable` speaks of kind object with an output root.
- `leave` publishes a source from below the corpus root and evicts it from
  `corpus/raw` next to it (execute_job.py:230, 265): with a root of another name, or
  a source with a path of its own, no source is ever evicted, and without a corpus
  root nothing is published or evicted at all (227). The disk then fills with every
  chunk. `OneResident` speaks of roots named corpus.
- The shallow check of a spec is stricter than the engine: it reads `given` of the
  capabilities and never the spec's own pipeline.given (spec.py:174), so that a job
  the engine runs (execute_job.py:112-133, "With it, the same pipeline is legal",
  tests/test_given.py:24-30) is refused before it gets there.
- A stage is verified by the context's artifacts, which are those of the chunk
  before until it puts its own: a stage that made nothing for the second chunk is
  "ok" (framework.py:218).
- With `chunk_by` and one source, or no stage per chunk, podh-prepare leaves the
  fetch to chunk hooks that never run (podh-prepare, execute_job.py:161).
- `enter` prints that the mount is not ready and goes on (execute_job.py:185).
- `params["sources"]` stays narrowed to the last chunk for the stages of the job
  (execute_job.py:181).
- A restart at a later stage makes the wiring invalid, when what the skipped ones
  make is not given (resume.py:65, framework.py:333).
- A job whose chunks were all published and evicted as it ran has no files left
  for podh-publish, which then reports that there was no output and exits 1.

### Hazards no property covers

`PROJECT.json` lists the hazards that properties are about. These were seen as
well:

- `spec.py:174`: what is given by the spec only, and refused by the shallow check
  (above). The check decides nothing on the pod and is not modelled.
- `status.py:115`: `stage_done` of an optional stage that failed makes the job's
  snapshot failed while its other stages still run; a poller goes home early.
- `serve/api.py:205`: two overlapping submits with one idempotency key both find
  no job and both start one. The handlers are not modelled.
- `boot/models.py:461`, `:507`, `:267`: the watcher's lost event (above); two
  callers on a pod without models each make a Manifest; the put-back thread ends
  on a file that is gone, and none is started again.
- `boot/models.py:312`, `:464`, `workload.py:175`, `:191`, `cli.py:218`, `local.py:167`:
  the divergences above; the models have these behaviours, and the properties
  speak of the others.
- `worker/loop.py:505`, `:122`, `context.py:141`: a report after a lost lease
  (above); the input cache's eviction of what was just put; `TaskContext.stop`
  without a lock.
- `worker/loop.py:198`: how many to claim comes from a snapshot of the dict; tasks
  only leave it between the count and the claim, so no more are held than asked.
- `boot/serve.py:56`: a drained worker may exit by itself before the drain stops
  it; its exit 0 is then no end (`ServeActs` has the guard).

## 6. Not modelled, and why

- GPU, image and resource checks, the registry (guards in single SQL statements),
  the image's scripts: sequences of commands or statements without state that
  another step reads.
- The HTTP service's handlers: each is one request over `jobs.py`, which is
  modelled; the hazard of two submits is described above.
- S3's signatures, multipart uploads, archives, the code store, FUSE: bytes and
  external programs. What a transfer may come to is in `Install` and `Runner`.
- What the modules leave out of their components is named under each of them.

## 7. Plan

All planned modules, the twelve runs and the proofs of every safety property
they check exist. What is left:

1. More of what the theorems need to assume: a version of `PodEndsOnce` for any
   `Askers`, that says what is lost when a setup command of the app stage ends the
   pod; of `JobLog` with a cancel, what still holds of the log alone.
2. The parts of the code nearest to the modelled ones that are left out: the
   worker's input cache, the put-back thread of `Models`, the busy flag.
