------------------------------- MODULE Install -------------------------------
(***************************************************************************)
(* What a boot of podh-boot puts on a pod's disks, stage by stage: a       *)
(* pinned binary, a model's file, the addons of a set and the app          *)
(* (boot/binaries.py, models.py, addons.py, app.py), by the downloads of   *)
(* fetch.py and the kits of kits.py.                                       *)
(*                                                                         *)
(* The pod may be killed at any step and boot again, asked for something   *)
(* else; the volume stays, the container's disk may not.  What a later     *)
(* boot skips, it skips by the word of markers the earlier ones left.      *)
(*                                                                         *)
(* A file is the sequence of its blocks, a block the version of the file   *)
(* it belongs to; a tree is the commit or the archive it was made from.    *)
(***************************************************************************)
EXTENDS Integers, Sequences, SequencesExt, FiniteSets

CONSTANTS
    Plans,     \* what a boot may be asked for
    Blocks,    \* version of the model's file -> how long it is
    Pins,      \* version of the addon set -> addon -> <<commit, pip>>
    Order,     \* the addons, in the set's order
    Optional,  \* those of them that may fail
    Retries,   \* http_download's retries
    Attempts,  \* models.ATTEMPTS
    MaxBoots,  \* bound: boots of the pod
    MaxTurns   \* bound: times the server has another file behind the link

ASSUME InstallConstants ==
    /\ Retries \in Nat /\ Attempts \in Nat /\ MaxBoots \in Nat /\ MaxTurns \in Nat
    /\ Blocks \in [DOMAIN Blocks -> Nat \ {0}] /\ "none" \notin DOMAIN Blocks
    /\ Order \in Seq(STRING) /\ {"app", "bin", "file"} \cap Range(Order) = {}
    /\ Pins \in [DOMAIN Pins -> [Range(Order) -> STRING \X STRING]]
    /\ "bin" \notin DOMAIN Pins
    /\ \A v \in DOMAIN Pins, x \in Range(Order) : Pins[v][x][1] # "none"
    /\ \A p \in Plans : /\ p.ver \in DOMAIN Blocks /\ p.set \in DOMAIN Pins
                        /\ p.sized \in BOOLEAN /\ p.summed \in BOOLEAN
                        /\ p.fetch \in STRING /\ p.setup \in STRING

Addons == Range(Order)
Things == Addons \cup {"app", "bin"}

(* No digest, and the state a command leaves that has not exited 0. *)
None == <<>>
Half == <<"half">>

Absent == [tree |-> "none", ready |-> None, stamp |-> None]
Fresh(tree) == [tree |-> tree, ready |-> None, stamp |-> None]

VARIABLES
    plan, pc, boots,
    file, part, verified,  \* the model: its file, its .part, the sha on record
    load,    \* the download: [tries, stalls, restarted, got, ver, pos, known]
    late,    \* the stage's deadline has passed
    served, turns,  \* the version behind the link
    dir,     \* what is in each thing's directory, and what was done in it
    mark,    \* markers.json: the digest each thing was last finished with
    swap,    \* a replace_dir under way, and what comes after it
    at, todo, fromKit, how, built,  \* addons.run: the item, what the kit may fill
    kit,     \* the control plane's kits: None, claimed or what they hold
    touched, \* the thing was changed under another digest than its marker's
    lost     \* the disk with the addon was lost after it was last marked

fileVars == <<file, part, verified, load, served, turns>>
treeVars == <<dir, mark, swap, touched, lost>>
setVars == <<at, todo, fromKit, how, built>>
vars == <<plan, pc, boots, late, fileVars, treeVars, setVars, kit>>

Whole(ver) == [i \in 1..Blocks[ver] |-> ver]
Idle == [tries |-> 0, stalls |-> 0, restarted |-> FALSE, got |-> FALSE,
         ver |-> "none", pos |-> 0, known |-> TRUE]

(* No file at the path: not the same as an empty one. *)
NoFile == <<"none">>

NoSwap == [of |-> "none", tree |-> "none", then |-> "off"]

Claimed == <<"claimed">>
Kept(k) == kit[k] \notin {None, Claimed}

Pin(x) == Pins[plan.set][x]
Want(x) == IF x = "app" THEN <<plan.fetch, plan.setup>> ELSE Pin(x)

Init ==
    /\ plan \in Plans /\ pc = "off" /\ boots = 0 /\ late = FALSE
    /\ file = NoFile /\ part = <<>> /\ verified = "none" /\ load = Idle
    /\ served = plan.ver /\ turns = 0
    /\ dir = [x \in Things |-> Absent] /\ mark = [x \in Things |-> None]
    /\ swap = NoSwap
    /\ touched = [x \in Things \cup {"file"} |-> FALSE]
    /\ lost = [x \in Addons |-> FALSE]
    /\ at = 1 /\ todo = {} /\ fromKit = FALSE /\ how = "kit" /\ built = FALSE
    /\ kit = [k \in {"bin"} \cup DOMAIN Pins |-> None]

Go(to) == pc' = to
Stage(to) == Go(to) /\ late' = FALSE
Fail == pc' = "failed"

(* A boot begins. *)
Boot ==
    /\ pc = "off" /\ boots < MaxBoots /\ boots' = boots + 1
    /\ plan' \in Plans /\ served' = plan'.ver
    /\ Go("bin")
    /\ UNCHANGED <<late, file, part, verified, load, turns, treeVars, setVars, kit>>

(* The pod is killed, or parked: nothing of the process is left.  It keeps  *)
(* its volume (the boot's directory, the binaries, the models), the         *)
(* container's disk with the addons and the app only perhaps.               *)
Die ==
    /\ pc # "off" /\ boots < MaxBoots
    /\ Stage("off")
    /\ \E wiped \in BOOLEAN :
         /\ dir' = [x \in Things |-> IF wiped /\ x # "bin" THEN Absent ELSE dir[x]]
         /\ lost' = [x \in Addons |-> lost[x] \/ (wiped /\ mark[x] # None)]
    /\ swap' = NoSwap /\ load' = Idle
    /\ at' = 1 /\ todo' = {} /\ fromKit' = FALSE /\ how' = "kit" /\ built' = FALSE
    /\ UNCHANGED <<plan, boots, file, part, verified, served, turns, mark, touched, kit>>

Late ==
    /\ pc \in {"ask", "body"} /\ ~late /\ late' = TRUE
    /\ UNCHANGED <<plan, pc, boots, fileVars, treeVars, setVars, kit>>

(* The file behind the link is replaced by another. *)
Turn ==
    /\ pc \in {"ask", "body"} /\ turns < MaxTurns /\ turns' = turns + 1
    /\ served' \in DOMAIN Blocks \ {served}
    /\ UNCHANGED <<plan, pc, boots, late, file, part, verified, load, treeVars,
                   setVars, kit>>

-----------------------------------------------------------------------------
(* replace_dir: what is there goes aside, the prepared tree takes its name. *)

(* What is done to a thing under the marker of another definition. *)
Change(x) ==
    touched' = [touched EXCEPT ![x] = @ \/ (mark[x] # None /\ mark[x] # Want(x))]

Replace(x, tree, then) ==
    /\ swap' = [of |-> x, tree |-> tree, then |-> then]
    /\ Go("aside")

SwapAside ==
    /\ pc = "aside" /\ Go("place")
    /\ dir' = [dir EXCEPT ![swap.of] = Absent]
    /\ Change(swap.of)
    /\ UNCHANGED <<plan, boots, late, fileVars, mark, swap, lost, setVars, kit>>

SwapPlace ==
    /\ pc = "place" /\ Go(swap.then) /\ swap' = NoSwap
    /\ dir' = [dir EXCEPT ![swap.of] = Fresh(swap.tree)]
    /\ UNCHANGED <<plan, boots, late, fileVars, mark, touched, lost, setVars, kit>>

-----------------------------------------------------------------------------
(* binaries.install, and the kits. *)

Holds(k, x) == IF k = "bin" THEN kit[k][1]
               ELSE kit[k][CHOOSE i \in DOMAIN Order : Order[i] = x]

(* kits.put: the claim is refused (409), or the archive is put and          *)
(* committed, or that fails with the claim taken.                           *)
Put(k, holds) ==
    IF kit[k] # None THEN UNCHANGED kit
    ELSE kit' \in {kit, [kit EXCEPT ![k] = Claimed], [kit EXCEPT ![k] = holds]}

(* Another pod has built the same thing: it matters where kits are looked at. *)
OtherPublishes ==
    /\ \E k \in {"bin", plan.set} :
         /\ pc = (IF k = "bin" THEN "bin" ELSE "addons")
         /\ ~Kept(k)
         /\ kit' = [kit EXCEPT ![k] =
                IF k = "bin" THEN <<"sha">>
                ELSE [i \in DOMAIN Order |-> Pins[k][Order[i]][1]]]
    /\ UNCHANGED <<plan, pc, boots, late, fileVars, treeVars, setVars>>

(* There already, or from the kit, or downloaded and then put there.        *)
BinInstalled == dir["bin"].tree = "sha"

Binary ==
    /\ pc = "bin"
    /\ \/ BinInstalled /\ Stage("model") /\ UNCHANGED swap
       \/ /\ ~BinInstalled /\ Kept("bin") /\ UNCHANGED late
          /\ Replace("bin", Holds("bin", "bin"), "model")
       \/ /\ ~BinInstalled /\ UNCHANGED late
          /\ \/ Replace("bin", "sha", "bin.put")
             \/ Fail /\ UNCHANGED swap
    /\ UNCHANGED <<plan, boots, fileVars, dir, mark, touched, lost, setVars, kit>>

BinaryPut ==
    /\ pc = "bin.put" /\ Stage("model")
    /\ Put("bin", <<"sha">>)
    /\ UNCHANGED <<plan, boots, fileVars, treeVars, setVars>>

-----------------------------------------------------------------------------
(* models: present, _fetch_one, and http_download. *)

SizeFits(f) == plan.sized => Len(f) = Blocks[plan.ver]

(* A recorded sha is not computed again, whatever has come to the path      *)
(* since; one that is computed is recorded.                                 *)
Recorded == verified = plan.ver

Present ==
    /\ file # NoFile /\ SizeFits(file)
    /\ plan.summed => Recorded \/ file = Whole(plan.ver)

(* _remember may fail, with the file in place: the stage fails then.        *)
Remember ==
    \/ /\ Stage("addons") /\ verified' = plan.ver
       /\ touched' = [touched EXCEPT !["file"] = FALSE]
    \/ Fail /\ UNCHANGED <<late, verified, touched>>

Model ==
    /\ pc = "model"
    /\ \/ /\ Present /\ plan.summed /\ ~Recorded
          /\ Remember /\ UNCHANGED load
       \/ /\ Present /\ (plan.summed => Recorded)
          /\ Stage("addons") /\ UNCHANGED <<load, verified, touched>>
       \/ /\ ~Present
          /\ Go("ask") /\ load' = Idle /\ UNCHANGED <<late, verified, touched>>
    /\ UNCHANGED <<plan, boots, file, part, served, turns, dir, mark, swap, lost,
                   setVars, kit>>

(* The download fails: with fresh links, once more, unless its time is up.  *)
Again ==
    IF load.tries + 1 < Attempts
    THEN Go("ask") /\ load' = [Idle EXCEPT !.tries = load.tries + 1]
    ELSE Fail /\ load' = Idle

(* No answer, or the connection drops: again, unless too often in a row     *)
(* with nothing got.                                                        *)
StallsFor(got) == IF got THEN 0 ELSE load.stalls + 1

Stall(got) ==
    IF StallsFor(got) > Retries THEN Again
    ELSE /\ Go("ask")
         /\ load' = [Idle EXCEPT !.tries = load.tries, !.restarted = load.restarted,
                                 !.stalls = StallsFor(got)]

downloading == <<plan, boots, late, file, verified, served, turns, treeVars, setVars, kit>>

TimeIsUpNever == FALSE
TimeIsUp == late

TimedOut ==
    /\ pc \in {"ask", "body"} /\ TimeIsUp /\ Fail /\ load' = Idle
    /\ UNCHANGED <<downloading, part>>

(* What of the .part the next request goes on from: none of one that is     *)
(* longer than the file.                                                    *)
Resumable == IF plan.sized /\ Len(part) > Blocks[plan.ver] THEN <<>> ELSE part

Complete == plan.sized /\ Len(part) = Blocks[plan.ver]

AlreadyWhole ==
    /\ pc = "ask" /\ ~TimeIsUp /\ Complete
    /\ Go("finish") /\ load' = [Idle EXCEPT !.tries = load.tries]
    /\ UNCHANGED <<downloading, part>>

(* 401 or 403, another status, or no answer at all. *)
Refused ==
    /\ pc = "ask" /\ ~TimeIsUp /\ ~Complete
    /\ part' = Resumable
    /\ Again \/ Stall(FALSE)
    /\ UNCHANGED downloading

(* 416: the server's file is no longer than what there is.                  *)
NothingMore ==
    /\ pc = "ask" /\ ~TimeIsUp /\ ~Complete
    /\ Resumable # <<>> /\ Len(Resumable) >= Blocks[served]
    /\ IF plan.sized \/ load.restarted THEN Again /\ part' = Resumable
       ELSE Go("ask") /\ part' = <<>> /\ load' = [load EXCEPT !.restarted = TRUE]
    /\ UNCHANGED downloading

(* 206 goes on where the .part ends; 200 is the whole file, Range or not.   *)
KeptAlways(status) == Resumable
KeptOf(status) == IF status = 206 THEN Resumable ELSE <<>>

(* The length is known when a header gives it: only then is it compared.    *)
Reply(status, known) ==
    IF known /\ plan.sized /\ Blocks[served] # Blocks[plan.ver]
    THEN Again /\ part' = Resumable
    ELSE /\ part' = KeptOf(status) /\ Go("body")
         /\ load' = [load EXCEPT !.ver = served, !.got = FALSE, !.known = known,
                !.pos = IF status = 206 THEN Len(Resumable) ELSE 0]

Answered ==
    /\ pc = "ask" /\ ~TimeIsUp /\ ~Complete
    /\ \E known \in BOOLEAN :
         \/ Reply(200, known)
         \/ Resumable # <<>> /\ Len(Resumable) < Blocks[served] /\ Reply(206, known)
    /\ UNCHANGED downloading

(* Something is got: the stalls are counted anew from here. *)
Block ==
    /\ pc = "body" /\ ~TimeIsUp /\ load.pos < Blocks[load.ver]
    /\ part' = Append(part, load.ver)
    /\ load' = [load EXCEPT !.pos = @ + 1, !.got = TRUE, !.stalls = 0]
    /\ UNCHANGED <<downloading, pc>>

(* The body ends, before its length or with it: one that ends early is seen *)
(* to, unless nothing said how long it is and the stream just stops.        *)
SeenWhole == load.pos = Blocks[load.ver] \/ ~load.known

Ended ==
    /\ pc = "body" /\ ~TimeIsUp
    /\ \/ load.pos < Blocks[load.ver] /\ Stall(load.got)
       \/ /\ SeenWhole /\ Go("finish")
          /\ load' = [Idle EXCEPT !.tries = load.tries, !.known = load.known]
    /\ UNCHANGED <<downloading, part>>

(* _finish: only a .part that is what it should be takes the file's name.   *)
Verified == SizeFits(part) /\ (plan.summed => part = Whole(plan.ver))

Finish ==
    /\ pc = "finish" /\ part' = <<>>
    /\ IF Verified
       THEN /\ file' = part /\ Go("landed") /\ load' = Idle
            /\ touched' = [touched EXCEPT !["file"] = verified # "none"]
       ELSE Again /\ UNCHANGED <<file, touched>>
    /\ UNCHANGED <<plan, boots, late, verified, served, turns, dir, mark, swap, lost,
                   setVars, kit>>

(* The sha is recorded, when there was one to verify. *)
Landed ==
    /\ pc = "landed"
    /\ IF plan.summed THEN Remember ELSE Stage("addons") /\ UNCHANGED <<verified, touched>>
    /\ UNCHANGED <<plan, boots, file, part, load, served, turns, dir, mark, swap, lost,
                   setVars, kit>>

-----------------------------------------------------------------------------
(* addons.run. *)

AtPin(x) == dir[x].tree = Pin(x)[1]

(* The kit of this version fills what is not at its commit yet, unless it   *)
(* is unusable.                                                             *)
AddonSet ==
    /\ pc = "addons"
    /\ \/ Fail /\ UNCHANGED <<todo, fromKit>>
       \/ Go("addon") /\ UNCHANGED <<todo, fromKit>>
       \/ /\ Kept(plan.set) /\ \E x \in Addons : ~AtPin(x)
          /\ fromKit' = TRUE /\ Go("unkit")
          /\ todo' = {x \in Addons : ~AtPin(x) /\ Holds(plan.set, x) # "none"}
    /\ UNCHANGED <<plan, boots, late, fileVars, treeVars, at, how, built, kit>>

Unkit ==
    /\ pc = "unkit"
    /\ \/ \E x \in todo : /\ todo' = todo \ {x}
                          /\ Replace(x, Holds(plan.set, x), "unkit")
       \/ todo = {} /\ Go("addon") /\ UNCHANGED <<todo, swap>>
    /\ UNCHANGED <<plan, boots, late, fileVars, dir, mark, touched, lost, at, fromKit,
                   how, built, kit>>

Item == Order[at]
NextItem == Go("addon") /\ at' = at + 1

AddonPassedOver == NextItem
AddonFails == IF Item \in Optional THEN NextItem ELSE Fail /\ UNCHANGED at

(* install: skipped, cloned, or with its requirements still to come.        *)
Skips(x) == mark[x] = Want(x) /\ AtPin(x)

Addon ==
    /\ pc = "addon" /\ at <= Len(Order)
    /\ \/ Skips(Item) /\ NextItem /\ UNCHANGED <<swap, how>>
       \/ /\ ~Skips(Item) /\ ~AtPin(Item)
          /\ \/ Replace(Item, Pin(Item)[1], "pip") /\ how' = "built" /\ UNCHANGED at
             \/ AddonFails /\ UNCHANGED <<swap, how>>
       \/ /\ ~Skips(Item) /\ AtPin(Item)
          /\ Go("pip") /\ how' = (IF fromKit THEN "kit" ELSE "built") /\ UNCHANGED <<at, swap>>
    /\ UNCHANGED <<plan, boots, late, fileVars, dir, mark, touched, lost, todo, fromKit,
                   built, kit>>

(* A command begins in the thing's directory: until it has exited 0, what   *)
(* is there is neither what it was nor what it will be.                     *)
Begin(x) ==
    /\ dir' = [dir EXCEPT ![x].ready = Half]
    /\ Change(x)

Pip ==
    /\ pc = "pip" /\ Go("probe") /\ Begin(Item)
    /\ UNCHANGED <<plan, boots, late, fileVars, mark, swap, lost, setVars, kit>>

(* pip, the links and the probe have all gone well, or one has not.         *)
Probe ==
    /\ pc = "probe"
    /\ \/ dir' = [dir EXCEPT ![Item].ready = Want(Item)] /\ Go("marked") /\ UNCHANGED at
       \/ AddonFails /\ UNCHANGED dir
    /\ UNCHANGED <<plan, boots, late, fileVars, mark, swap, touched, lost, todo, fromKit,
                   how, built, kit>>

SetMark(x) ==
    /\ mark' = [mark EXCEPT ![x] = Want(x)]
    /\ touched' = [touched EXCEPT ![x] = FALSE]
    /\ lost' = [a \in Addons |-> lost[a] /\ a # x]

AddonMark ==
    /\ pc = "marked" /\ NextItem /\ SetMark(Item)
    /\ built' = (built \/ how = "built")
    /\ UNCHANGED <<plan, boots, late, fileVars, dir, swap, todo, fromKit, how, kit>>

(* The set is through: the first pod to build it publishes the trees.       *)
AddonsDone ==
    /\ pc = "addon" /\ at > Len(Order) /\ Go("app")
    /\ IF built /\ ~fromKit
       THEN Put(plan.set, [i \in DOMAIN Order |-> dir[Order[i]].tree])
       ELSE UNCHANGED kit
    /\ UNCHANGED <<plan, boots, late, fileVars, treeVars, setVars>>

-----------------------------------------------------------------------------
(* app.run. *)

NoApp == plan.fetch = "none" /\ plan.setup = "none"

SetUpByMarker == mark["app"] = Want("app")
SetUp == mark["app"] = Want("app") /\ dir["app"].stamp = Want("app")

App ==
    /\ pc = "app"
    /\ \/ (NoApp \/ SetUp) /\ Go("up") /\ UNCHANGED swap
       \/ /\ ~NoApp /\ ~SetUp
          /\ IF plan.fetch = "none" THEN Go("setup") /\ UNCHANGED swap
             ELSE Replace("app", plan.fetch, "setup") \/ (Fail /\ UNCHANGED swap)
    /\ UNCHANGED <<plan, boots, late, fileVars, dir, mark, touched, lost, setVars, kit>>

Setup ==
    /\ pc = "setup"
    /\ IF plan.setup = "none"
       THEN /\ dir' = [dir EXCEPT !["app"].ready = Want("app")]
            /\ Go("stamp") /\ UNCHANGED touched
       ELSE Begin("app") /\ Go("setup.end")
    /\ UNCHANGED <<plan, boots, late, fileVars, mark, swap, lost, setVars, kit>>

SetupEnd ==
    /\ pc = "setup.end"
    /\ \/ dir' = [dir EXCEPT !["app"].ready = Want("app")] /\ Go("stamp")
       \/ Fail /\ UNCHANGED dir
    /\ UNCHANGED <<plan, boots, late, fileVars, mark, swap, touched, lost, setVars, kit>>

Stamp ==
    /\ pc = "stamp" /\ Go("mark")
    /\ dir' = [dir EXCEPT !["app"].stamp = Want("app")]
    /\ UNCHANGED <<plan, boots, late, fileVars, mark, swap, touched, lost, setVars, kit>>

AppMark ==
    /\ pc = "mark" /\ Go("up") /\ SetMark("app")
    /\ UNCHANGED <<plan, boots, late, fileVars, dir, swap, setVars, kit>>

Step ==
    \/ SwapAside \/ SwapPlace \/ Binary \/ BinaryPut
    \/ Model \/ TimedOut \/ AlreadyWhole \/ Refused \/ NothingMore \/ Answered
    \/ Block \/ Ended \/ Finish \/ Landed
    \/ AddonSet \/ Unkit \/ Addon \/ Pip \/ Probe \/ AddonMark \/ AddonsDone
    \/ App \/ Setup \/ SetupEnd \/ Stamp \/ AppMark

Next == Boot \/ Die \/ Late \/ Turn \/ OtherPublishes \/ Step

(* The stages run, and time passes. *)
Spec == Init /\ [][Next]_vars /\ WF_vars(Step) /\ WF_vars(Late)

-----------------------------------------------------------------------------
(* Properties. *)

(* What a directory can hold, and what can be on record of it. *)
Trees ==
    {"none", "sha"} \cup {p.fetch : p \in Plans}
        \cup {Pins[v][x][1] : v \in DOMAIN Pins, x \in Addons}
Digests ==
    {None, Half} \cup {<<p.fetch, p.setup>> : p \in Plans}
        \cup {Pins[v][x] : v \in DOMAIN Pins, x \in Addons}

(* Every variable has its type. *)
TypeOK ==
    /\ plan \in Plans /\ boots \in 0..MaxBoots /\ late \in BOOLEAN
    /\ pc \in {"off", "bin", "aside", "place", "bin.put", "model", "ask", "body", "finish",
               "landed", "addons", "unkit", "addon", "pip", "probe", "marked", "app", "setup",
               "setup.end", "stamp", "mark", "up", "failed"}
    /\ file \in Seq(DOMAIN Blocks) \cup {NoFile} /\ part \in Seq(DOMAIN Blocks)
    /\ verified \in DOMAIN Blocks \cup {"none"}
    /\ load \in [tries : Nat, stalls : Nat, restarted : BOOLEAN, got : BOOLEAN,
                  ver : DOMAIN Blocks \cup {"none"}, pos : Nat, known : BOOLEAN]
    /\ served \in DOMAIN Blocks /\ turns \in 0..MaxTurns
    /\ dir \in [Things -> [tree : Trees, ready : Digests, stamp : Digests]]
    /\ mark \in [Things -> Digests]
    /\ swap \in [of : Things \cup {"none"}, tree : Trees,
                  then : {"off", "model", "bin.put", "unkit", "pip", "setup"}]
    /\ touched \in [Things \cup {"file"} -> BOOLEAN] /\ lost \in [Addons -> BOOLEAN]
    /\ at \in 1..(Len(Order) + 1) /\ todo \subseteq Addons
    /\ fromKit \in BOOLEAN /\ how \in {"kit", "built"} /\ built \in BOOLEAN
    /\ kit \in [{"bin"} \cup DOMAIN Pins -> Seq(Trees) \cup {Claimed}]

(* A boot that is through has on its disks what it was asked for, whatever  *)
(* earlier boots left there and wherever they were killed: the file's       *)
(* content, each addon that may not fail at its commit with its             *)
(* requirements in, the app's archive with its setup run in it.  Two things *)
(* are left out.  One was finished, then changed for another plan that was  *)
(* not, and is asked for again as it was.  The other: the disk with an      *)
(* addon was lost, its marker on the volume was not, and its commit was put *)
(* back by a kit or by a boot killed before its pip: it is skipped then,    *)
(* without its requirements (addons.py:225).                                *)
AsAsked ==
    pc = "up" =>
        /\ BinInstalled
        /\ plan.summed /\ ~touched["file"] => file = Whole(plan.ver)
        /\ \A x \in Addons \ Optional :
             AtPin(x) /\ (touched[x] \/ lost[x] \/ dir[x].ready = Want(x))
        /\ NoApp \/ touched["app"] \/ dir["app"].ready = Want("app")
        /\ plan.fetch = "none" \/ dir["app"].tree = plan.fetch

PartOf(f, ver) == Range(f) \subseteq {ver}

(* "A file at its final path is a complete one": what takes the name is the *)
(* manifest's file when that gives a sha.  Without one it is never a mere   *)
(* part of it, unless nothing said how long it is, the manifest as little   *)
(* as the server's answer (it may be a mixture, of a .part begun with       *)
(* another file).                                                           *)
FileIsWhole ==
    [][file' \notin {file, Whole(plan.ver)} =>
           /\ ~plan.summed
           /\ PartOf(file', plan.ver) => ~plan.sized /\ ~load.known]_vars

(* A published kit has every addon that may not fail, at the commit of the  *)
(* version it is keyed by.                                                  *)
KitIsWhole ==
    \A k \in DOMAIN Pins : Kept(k) =>
        \A i \in DOMAIN Order : Order[i] \notin Optional => kit[k][i] = Pins[k][Order[i]][1]

(* A boot comes to an end, however often the connection drops, resumes and  *)
(* drops again.                                                             *)
BootEnds == pc # "off" ~> pc \in {"up", "failed", "off"}
=============================================================================
