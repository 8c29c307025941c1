---------------------------- MODULE InstallProofs ----------------------------
(***************************************************************************)
(* Of a pod's boots (Install.tla): the theorems below hold for any plans,  *)
(* files, addon sets and numbers of boots, retries and attempts, wherever  *)
(* the boots are killed.                                                   *)
(***************************************************************************)
EXTENDS Install, SequenceTheorems, TLAPS

(***************************************************************************)
(* The strengthening.                                                      *)
(***************************************************************************)

(* Where a boot stands, a swap under way counting for what comes after it.  *)
Where == IF pc \in {"aside", "place"} THEN swap.then ELSE pc

Downloading == {"model", "ask", "body", "finish", "landed"}
InSet == {"addon", "pip", "probe", "marked"}
InApp == {"app", "setup", "setup.end", "stamp", "mark", "up"}
PastModel == {"addons", "unkit"} \cup InSet \cup InApp

(* The download: what is in the .part is as long as the body has got, and   *)
(* ends with a block of it.                                                 *)
EndsWith(v) == Len(part) > 0 /\ part[Len(part)] = v

PartInv ==
    /\ pc = "body" => /\ load.ver \in DOMAIN Blocks
                      /\ Len(part) = load.pos /\ load.pos <= Blocks[load.ver]
                      /\ load.pos = Blocks[load.ver] => EndsWith(load.ver)
    /\ pc = "finish" => \/ Complete \/ ~load.known
                        \/ \E v \in DOMAIN Blocks : Len(part) = Blocks[v] /\ EndsWith(v)

(* What is on record of the file. *)
FileInv ==
    /\ verified # "none" /\ ~touched["file"] => file = Whole(verified)
    /\ pc = "landed" /\ plan.summed => file = Whole(plan.ver)
    /\ Where \in PastModel /\ plan.summed => verified = plan.ver

(* The swaps: each stage's are of its own thing, and what is swapped in is  *)
(* what it is to have; the binary is there once its stage is through.       *)
Swapping == pc \in {"aside", "place"}
OfBin == {"model", "bin.put"}

(* What an addon's marker says need not hold of it. *)
Doubt(x) == touched[x] \/ lost[x]

SwapInv ==
    /\ Swapping =>
         /\ swap.then \in OfBin => swap.of = "bin" /\ swap.tree = "sha"
         /\ swap.then = "unkit" => swap.of \in Addons
         /\ swap.then = "pip" => at <= Len(Order) /\ swap.of = Item /\ swap.tree = Pin(Item)[1]
         /\ swap.then = "setup" => swap.of = "app" /\ swap.tree = plan.fetch
                                   /\ plan.fetch # "none"
         /\ swap.then # "off"
    /\ Where = "unkit" => \A x \in todo : ~AtPin(x) /\ (Swapping => x # swap.of)
    /\ pc = "aside" /\ swap.of \in Addons => ~AtPin(swap.of)
    /\ pc = "place" => /\ dir[swap.of] = Absent
                       /\ swap.of \in Addons /\ mark[swap.of] # None => Doubt(swap.of)
    /\ pc \in {"off", "bin", "failed"} \/ (Swapping /\ swap.then \in OfBin) \/ BinInstalled

(* What the kits hold. *)
KitInv ==
    /\ kit["bin"] \in {None, Claimed, <<"sha">>}
    /\ \A k \in DOMAIN Pins : Kept(k) => Len(kit[k]) = Len(Order)
    /\ Where = "unkit" => Kept(plan.set)

(* The addons the set is through with are at their commits, and marked.     *)
Through == {Order[i] : i \in 1..(at - 1)} \ Optional

SetInv ==
    /\ Where \notin InSet \cup InApp \cup {"failed"} => at = 1
    /\ Where \in {"pip", "probe", "marked"} => at <= Len(Order) /\ Item \notin Through
    /\ Where \in InApp => at = Len(Order) + 1
    /\ pc \in {"pip", "probe", "marked"} => AtPin(Item)
    /\ pc = "pip" /\ mark[Item] = Want(Item) => Doubt(Item)
    /\ pc \in {"probe", "marked"} /\ mark[Item] # None => Doubt(Item)
    /\ pc = "marked" => dir[Item].ready = Want(Item)
    /\ \A x \in Through : Skips(x)

(* A marker tells the truth of an addon, unless it was changed or lost      *)
(* since.                                                                   *)
MarkInv ==
    \A x \in Addons : mark[x] # None /\ ~Doubt(x) =>
        dir[x].ready = mark[x] /\ dir[x].tree = mark[x][1]

(* So does the app's, where the stamp in its directory agrees with it.      *)
AppInv ==
    LET app == dir["app"]  marked == mark["app"] # None /\ ~touched["app"] IN
    /\ marked /\ app.stamp = mark["app"] => app.ready = mark["app"]
    /\ app.stamp # None /\ app.stamp[1] # "none" => app.tree = app.stamp[1]
    /\ pc \in {"setup", "setup.end"} => ~SetUp /\ ~NoApp
    /\ pc \in {"setup", "setup.end", "stamp", "mark"} /\ plan.fetch # "none"
         => app.tree = plan.fetch
    /\ pc = "setup" /\ plan.fetch # "none" => app.stamp = None
    /\ pc = "setup.end" /\ marked => mark["app"] = Want("app")
    /\ pc \in {"stamp", "mark"} => app.ready = Want("app")
    /\ pc = "mark" => app.stamp = Want("app")
    /\ pc = "up" => NoApp \/ SetUp

(***************************************************************************)
(* The data.                                                               *)
(***************************************************************************)

DirRec == [tree : Trees, ready : Digests, stamp : Digests]
LoadRec == [tries : Nat, stalls : Nat, restarted : BOOLEAN, got : BOOLEAN,
            ver : DOMAIN Blocks \cup {"none"}, pos : Nat, known : BOOLEAN]
SwapRec == [of : Things \cup {"none"}, tree : Trees,
            then : {"off", "model", "bin.put", "unkit", "pip", "setup"}]

LEMMA OneTwo ==
    ASSUME NEW S, NEW a \in S, NEW b \in S
    PROVE  /\ <<a>> \in Seq(S) /\ <<a, b>> \in Seq(S) /\ <<>> \in Seq(S)
           /\ Len(<<a>>) = 1 /\ Len(<<a, b>>) = 2 /\ Len(<<>>) = 0
  OBVIOUS

LEMMA PairIs ==
    ASSUME NEW S, NEW pair \in S \X S
    PROVE  \E a, b \in S : pair = <<a, b>>
  OBVIOUS

LEMMA PlanIs ==
    ASSUME TypeOK
    PROVE  /\ plan.ver \in DOMAIN Blocks /\ plan.set \in DOMAIN Pins
           /\ plan.sized \in BOOLEAN /\ plan.summed \in BOOLEAN
           /\ plan.fetch \in STRING /\ plan.setup \in STRING
  BY InstallConstants DEF TypeOK

LEMMA BlocksAre ==
    /\ "none" \notin DOMAIN Blocks
    /\ \A v \in DOMAIN Blocks :
         /\ Blocks[v] \in Nat \ {0} /\ Whole(v) \in Seq(DOMAIN Blocks)
         /\ Len(Whole(v)) = Blocks[v] /\ Range(Whole(v)) = {v}
<1> SUFFICES ASSUME NEW v \in DOMAIN Blocks
             PROVE  /\ Blocks[v] \in Nat \ {0} /\ Whole(v) \in Seq(DOMAIN Blocks)
                    /\ Len(Whole(v)) = Blocks[v] /\ Range(Whole(v)) = {v}
  BY InstallConstants
<1>1. Blocks[v] \in Nat \ {0}
  BY InstallConstants
<1>2. Whole(v) \in [1..Blocks[v] -> DOMAIN Blocks] /\ DOMAIN Whole(v) = 1..Blocks[v]
  BY DEF Whole
<1>3. Whole(v) \in Seq(DOMAIN Blocks)
  BY <1>1, <1>2, SeqDef
<1>4. Len(Whole(v)) = Blocks[v]
  BY <1>1, <1>2, <1>3, LenProperties
<1>5. 1 \in 1..Blocks[v]
  BY <1>1
<1>6. Range(Whole(v)) = {v}
  BY <1>2, <1>5 DEF Range, Whole
<1> QED
  BY <1>1, <1>3, <1>4, <1>6

LEMMA PinIs ==
    ASSUME NEW v \in DOMAIN Pins, NEW x \in Addons
    PROVE  /\ Pins[v][x] \in Digests /\ Pins[v][x] \notin {None, Half}
           /\ Pins[v][x][1] \in Trees \ {"none"}
<1>1. Pins[v][x] \in STRING \X STRING
  BY InstallConstants DEF Addons
<1>2. \E c, p \in STRING : Pins[v][x] = <<c, p>>
  BY ONLY <1>1, PairIs
<1>3. Len(Pins[v][x]) = 2
  BY ONLY <1>2, OneTwo
<1>4. Len(None) = 0 /\ Len(Half) = 1
  BY OneTwo DEF None, Half
<1>5. Pins[v][x] \notin {None, Half}
  BY <1>3, <1>4
<1>6. Pins[v][x][1] # "none"
  BY InstallConstants DEF Addons
<1>7. Pins[v][x] \in Digests /\ Pins[v][x][1] \in Trees
  BY DEF Digests, Trees
<1> QED
  BY <1>5, <1>6, <1>7

LEMMA WantIs ==
    ASSUME TypeOK, NEW x \in Addons \cup {"app"}
    PROVE  Want(x) \in Digests /\ Want(x) \notin {None, Half}
<1>1. CASE x = "app"
  <2>1. Want(x) = <<plan.fetch, plan.setup>> /\ plan \in Plans
    BY <1>1 DEF Want, TypeOK
  <2>2. Len(<<plan.fetch, plan.setup>>) = 2
    BY PlanIs, OneTwo
  <2>3. Len(None) = 0 /\ Len(Half) = 1
    BY OneTwo DEF None, Half
  <2>4. Want(x) \in Digests
    BY <2>1 DEF Digests
  <2> QED
    BY <2>1, <2>2, <2>3, <2>4
<1>2. CASE x # "app"
  BY <1>2, PlanIs, PinIs DEF Want, Pin
<1> QED
  BY <1>1, <1>2

LEMMA ThingsAre ==
    /\ Things = Addons \cup {"app", "bin"} /\ "app" \notin Addons /\ "bin" \notin Addons
    /\ "file" \notin Things
    /\ Len(Order) \in Nat /\ DOMAIN Order = 1..Len(Order)
    /\ \A i \in 1..Len(Order) : Order[i] \in Addons
    /\ {None, Half} \subseteq Digests /\ {"none", "sha"} \subseteq Trees
    /\ \A p \in Plans : p.fetch \in Trees
<1>1. Order \in Seq(STRING) /\ {"app", "bin", "file"} \cap Range(Order) = {}
  BY InstallConstants
<1>2. Len(Order) \in Nat /\ DOMAIN Order = 1..Len(Order)
  BY <1>1, LenProperties
<1>3. {None, Half} \subseteq Digests /\ {"none", "sha"} \subseteq Trees
      /\ \A p \in Plans : p.fetch \in Trees
  BY DEF Digests, Trees
<1>4. \A i \in 1..Len(Order) : Order[i] \in Range(Order)
  BY <1>2 DEF Range
<1> QED
  BY <1>1, <1>2, <1>3, <1>4 DEF Things, Addons

LEMMA ItemIs ==
    ASSUME TypeOK, at <= Len(Order)
    PROVE  Item \in Addons /\ Item # "app" /\ Item # "bin" /\ at \in 1..Len(Order)
           /\ at + 1 \in 1..(Len(Order) + 1)
<1>1. at \in 1..Len(Order) /\ at + 1 \in 1..(Len(Order) + 1)
  BY ThingsAre DEF TypeOK
<1> QED
  BY <1>1, ThingsAre DEF Item

LEMMA HoldsIs ==
    ASSUME TypeOK, KitInv
    PROVE  /\ Kept("bin") => Holds("bin", "bin") = "sha"
           /\ \A k \in DOMAIN Pins, x \in Addons : Kept(k) => Holds(k, x) \in Trees
<1>1. Kept("bin") => Holds("bin", "bin") = "sha"
  BY DEF KitInv, Kept, Holds
<1>2. ASSUME NEW k \in DOMAIN Pins, NEW x \in Addons, Kept(k)
      PROVE  Holds(k, x) \in Trees
  <2>1. kit[k] \in Seq(Trees) /\ Len(kit[k]) = Len(Order) /\ k # "bin"
    BY <1>2, InstallConstants DEF TypeOK, KitInv, Kept
  <2>2. \E i \in DOMAIN Order : Order[i] = x
    BY DEF Addons, Range
  <2>3. PICK i \in DOMAIN Order : Holds(k, x) = kit[k][i]
    BY <2>1, <2>2 DEF Holds
  <2>4. i \in 1..Len(kit[k])
    BY <2>1, <2>3, ThingsAre
  <2> QED
    BY <2>1, <2>3, <2>4, ElementOfSeq
<1> QED
  BY <1>1, <1>2

(***************************************************************************)
(* Types.                                                                  *)
(***************************************************************************)

Pcs == {"off", "bin", "aside", "place", "bin.put", "model", "ask", "body", "finish",
        "landed", "addons", "unkit", "addon", "pip", "probe", "marked", "app", "setup",
        "setup.end", "stamp", "mark", "up", "failed"}

FileTypes ==
    /\ file \in Seq(DOMAIN Blocks) \cup {NoFile} /\ part \in Seq(DOMAIN Blocks)
    /\ verified \in DOMAIN Blocks \cup {"none"} /\ load \in LoadRec
    /\ served \in DOMAIN Blocks /\ turns \in 0..MaxTurns

TreeTypes ==
    /\ dir \in [Things -> DirRec] /\ mark \in [Things -> Digests]
    /\ swap \in SwapRec /\ touched \in [Things \cup {"file"} -> BOOLEAN]
    /\ lost \in [Addons -> BOOLEAN]

SetTypes ==
    /\ at \in 1..(Len(Order) + 1) /\ todo \subseteq Addons
    /\ fromKit \in BOOLEAN /\ how \in {"kit", "built"} /\ built \in BOOLEAN

KitTypes == kit \in [{"bin"} \cup DOMAIN Pins -> Seq(Trees) \cup {Claimed}]

BootTypes == plan \in Plans /\ boots \in 0..MaxBoots /\ late \in BOOLEAN /\ pc \in Pcs

LEMMA TypeParts ==
    /\ TypeOK <=> BootTypes /\ FileTypes /\ TreeTypes /\ SetTypes /\ KitTypes
    /\ TypeOK' <=> BootTypes' /\ FileTypes' /\ TreeTypes' /\ SetTypes' /\ KitTypes'
  BY DEF TypeOK, BootTypes, FileTypes, TreeTypes, SetTypes, KitTypes, LoadRec, SwapRec,
     DirRec, Pcs

LEMMA AbsentIs ==
    /\ Absent \in DirRec /\ Absent.tree = "none" /\ Absent.ready = None /\ Absent.stamp = None
    /\ \A t \in Trees : Fresh(t) \in DirRec /\ Fresh(t).tree = t /\ Fresh(t).ready = None
                        /\ Fresh(t).stamp = None
    /\ NoSwap \in SwapRec /\ Idle \in LoadRec
  BY ThingsAre DEF Absent, Fresh, NoSwap, Idle, DirRec, SwapRec, LoadRec

LEMMA TypeInit == Init => TypeOK
<1> SUFFICES ASSUME Init PROVE TypeOK
  OBVIOUS
<1>0. 0 \in 0..MaxBoots /\ 0 \in 0..MaxTurns /\ 1 \in 1..(Len(Order) + 1)
  BY InstallConstants, ThingsAre
<1>1. BootTypes
  BY <1>0 DEF Init, BootTypes, Pcs
<1>2. FileTypes
  BY <1>0, InstallConstants, AbsentIs, EmptySeq DEF Init, FileTypes
<1>3. TreeTypes
  BY AbsentIs, ThingsAre DEF Init, TreeTypes
<1>4. SetTypes
  BY <1>0 DEF Init, SetTypes
<1>5. KitTypes
  BY DEF Init, KitTypes, None
<1> QED
  BY <1>1, <1>2, <1>3, <1>4, <1>5, TypeParts

LEMMA ReplaceIs ==
    ASSUME NEW x \in Things, NEW t \in Trees,
           NEW then \in {"off", "model", "bin.put", "unkit", "pip", "setup"}, Replace(x, t, then)
    PROVE  /\ swap' \in SwapRec /\ swap'.of = x /\ swap'.tree = t /\ swap'.then = then
           /\ pc' = "aside"
  BY DEF Replace, SwapRec, Go

LEMMA AgainIs ==
    ASSUME FileTypes, Again
    PROVE  load' \in LoadRec /\ pc' \in {"ask", "failed"}
<1>1. load \in LoadRec
  BY DEF FileTypes
<1>2. load.tries + 1 \in Nat
  BY <1>1 DEF LoadRec
<1>3. CASE load.tries + 1 < Attempts
  <2>1. load' = [Idle EXCEPT !.tries = load.tries + 1] /\ pc' = "ask"
    BY <1>3 DEF Again, Go
  <2> QED
    BY ONLY <1>2, <2>1, AbsentIs DEF LoadRec
<1>4. CASE ~(load.tries + 1 < Attempts)
  BY <1>1, <1>4, AbsentIs DEF Again, Fail
<1> QED
  BY <1>3, <1>4

LEMMA StallIs ==
    ASSUME FileTypes, NEW got \in BOOLEAN, Stall(got)
    PROVE  load' \in LoadRec /\ pc' \in {"ask", "failed"}
<1>1. load \in LoadRec
  BY DEF FileTypes
<1>2. StallsFor(got) \in Nat
  BY <1>1 DEF StallsFor, LoadRec
<1>3. CASE Again
  BY <1>3, AgainIs
<1>4. CASE /\ Go("ask")
           /\ load' = [Idle EXCEPT !.tries = load.tries, !.restarted = load.restarted,
                                   !.stalls = StallsFor(got)]
  BY <1>1, <1>2, <1>4, AbsentIs, ZenonT(40) DEF Go, LoadRec
<1> QED
  BY <1>3, <1>4 DEF Stall

LEMMA ReplyIs ==
    ASSUME FileTypes, NEW status \in {200, 206}, NEW known \in BOOLEAN, Reply(status, known),
           Resumable \in Seq(DOMAIN Blocks)
    PROVE  /\ load' \in LoadRec /\ pc' \in {"ask", "failed", "body"}
           /\ part' \in Seq(DOMAIN Blocks)
           /\ pc' = "body" => /\ part' = KeptOf(status) /\ load'.ver = served
                              /\ load'.pos = Len(part')
<1>1. CASE known /\ plan.sized /\ Blocks[served] # Blocks[plan.ver]
  BY <1>1, AgainIs DEF Reply
<1>2. CASE ~(known /\ plan.sized /\ Blocks[served] # Blocks[plan.ver])
  <2> DEFINE from == IF status = 206 THEN Len(Resumable) ELSE 0
  <2>1. load \in LoadRec /\ served \in DOMAIN Blocks
    BY DEF FileTypes
  <2>2. from \in Nat
    BY LenProperties
  <2>3. /\ part' = KeptOf(status) /\ pc' = "body"
        /\ load' = [load EXCEPT !.ver = served, !.got = FALSE, !.known = known,
                                 !.pos = from]
    BY <1>2 DEF Reply, Go
  <2>4. KeptOf(status) \in Seq(DOMAIN Blocks) /\ Len(KeptOf(status)) = from
    BY EmptySeq DEF KeptOf
  <2>5. load' \in LoadRec /\ load'.ver = served /\ load'.pos = from
    BY ONLY <2>1, <2>2, <2>3, ZenonT(40) DEF LoadRec
  <2> QED
    BY <1>2, <2>3, <2>4, <2>5
<1> QED
  BY <1>1, <1>2

LEMMA PutIs ==
    ASSUME KitTypes, NEW k \in {"bin"} \cup DOMAIN Pins, NEW holds \in Seq(Trees), Put(k, holds)
    PROVE  /\ KitTypes'
           /\ \A c \in {"bin"} \cup DOMAIN Pins : c # k => kit'[c] = kit[c]
           /\ kit'[k] \in {kit[k], Claimed, holds}
  BY DEF Put, KitTypes

LEMMA BeginIs ==
    ASSUME TypeOK, NEW x \in Addons \cup {"app"}, Begin(x)
    PROVE  /\ dir' \in [Things -> DirRec] /\ touched' \in [Things \cup {"file"} -> BOOLEAN]
           /\ \A y \in Things \ {x} : dir'[y] = dir[y]
           /\ \A y \in Things \cup {"file"} : y # x => touched'[y] = touched[y]
           /\ dir'[x].tree = dir[x].tree /\ dir'[x].ready = Half /\ dir'[x].stamp = dir[x].stamp
           /\ touched'[x] = (touched[x] \/ (mark[x] # None /\ mark[x] # Want(x)))
<1>1. x \in Things /\ dir \in [Things -> DirRec] /\ touched \in [Things \cup {"file"} -> BOOLEAN]
      /\ Half \in Digests
  BY TypeParts, ThingsAre DEF TreeTypes
<1>2. /\ dir' = [dir EXCEPT ![x].ready = Half]
      /\ touched' = [touched EXCEPT ![x] = @ \/ (mark[x] # None /\ mark[x] # Want(x))]
  BY DEF Begin, Change
<1>3. dir'[x] = [dir[x] EXCEPT !.ready = Half] /\ dir[x] \in DirRec
      /\ \A y \in Things \ {x} : dir'[y] = dir[y]
  BY <1>1, <1>2
<1>4. dir'[x] \in DirRec /\ dir'[x].tree = dir[x].tree /\ dir'[x].ready = Half
      /\ dir'[x].stamp = dir[x].stamp
  BY <1>1, <1>3 DEF DirRec
<1>5. dir' \in [Things -> DirRec]
  BY <1>1, <1>2, <1>3, <1>4
<1>6. /\ touched' \in [Things \cup {"file"} -> BOOLEAN]
      /\ \A y \in Things \cup {"file"} : y # x => touched'[y] = touched[y]
  BY <1>1, <1>2
<1>7. touched'[x] = (touched[x] \/ (mark[x] # None /\ mark[x] # Want(x)))
  BY ONLY <1>1, <1>2, Zenon
<1> QED
  BY <1>3, <1>4, <1>5, <1>6, <1>7

(* A command that exits 0: what it was for is ready. *)
LEMMA ReadyIs ==
    ASSUME TypeOK, NEW x \in Addons \cup {"app"}, NEW d \in Digests,
           dir' = [dir EXCEPT ![x].ready = d]
    PROVE  /\ dir' \in [Things -> DirRec] /\ \A y \in Things \ {x} : dir'[y] = dir[y]
           /\ dir'[x].tree = dir[x].tree /\ dir'[x].ready = d /\ dir'[x].stamp = dir[x].stamp
<1>1. x \in Things /\ dir \in [Things -> DirRec]
  BY TypeParts, ThingsAre DEF TreeTypes
<1>2. dir'[x] = [dir[x] EXCEPT !.ready = d] /\ dir[x] \in DirRec
      /\ \A y \in Things \ {x} : dir'[y] = dir[y]
  BY <1>1
<1>3. dir'[x] \in DirRec /\ dir'[x].tree = dir[x].tree /\ dir'[x].ready = d
      /\ dir'[x].stamp = dir[x].stamp
  BY <1>2 DEF DirRec
<1> QED
  BY <1>1, <1>2, <1>3

LEMMA StampIs ==
    ASSUME TypeOK, NEW d \in Digests, dir' = [dir EXCEPT !["app"].stamp = d]
    PROVE  /\ dir' \in [Things -> DirRec] /\ \A y \in Things \ {"app"} : dir'[y] = dir[y]
           /\ dir'["app"].tree = dir["app"].tree /\ dir'["app"].ready = dir["app"].ready
           /\ dir'["app"].stamp = d
<1>1. "app" \in Things /\ dir \in [Things -> DirRec]
  BY TypeParts, ThingsAre DEF TreeTypes
<1>2. dir'["app"] = [dir["app"] EXCEPT !.stamp = d] /\ dir["app"] \in DirRec
      /\ \A y \in Things \ {"app"} : dir'[y] = dir[y]
  BY <1>1
<1>3. dir'["app"] \in DirRec /\ dir'["app"].tree = dir["app"].tree /\ dir'["app"].stamp = d
      /\ dir'["app"].ready = dir["app"].ready
  BY <1>2 DEF DirRec
<1> QED
  BY <1>1, <1>2, <1>3

LEMMA MarkIs ==
    ASSUME TypeOK, NEW x \in Addons \cup {"app"}, SetMark(x)
    PROVE  /\ mark' \in [Things -> Digests] /\ touched' \in [Things \cup {"file"} -> BOOLEAN]
           /\ mark'[x] = Want(x) /\ \A y \in Things \ {x} : mark'[y] = mark[y]
           /\ touched'[x] = FALSE
           /\ \A y \in Things \cup {"file"} : y # x => touched'[y] = touched[y]
           /\ lost' \in [Addons -> BOOLEAN] /\ \A y \in Addons : y # x => lost'[y] = lost[y]
<1>1. /\ mark \in [Things -> Digests] /\ touched \in [Things \cup {"file"} -> BOOLEAN]
      /\ lost \in [Addons -> BOOLEAN]
      /\ x \in Things
  BY TypeParts, ThingsAre DEF TreeTypes
<1> QED
  BY <1>1, WantIs DEF SetMark

(* The two steps of replace_dir. *)
LEMMA AsideIs ==
    ASSUME TypeOK, SwapInv, SwapAside
    PROVE  /\ TreeTypes' /\ swap.of \in Things /\ dir'[swap.of] = Absent
           /\ \A y \in Things \ {swap.of} : dir'[y] = dir[y]
           /\ mark[swap.of] # None /\ mark[swap.of] # Want(swap.of) => touched'[swap.of]
           /\ touched[swap.of] => touched'[swap.of]
           /\ \A y \in Things \cup {"file"} : y # swap.of => touched'[y] = touched[y]
           /\ mark' = mark /\ swap' = swap /\ lost' = lost /\ pc = "aside" /\ pc' = "place"
<1>1. TreeTypes /\ pc = "aside"
  BY TypeParts DEF SwapAside
<1>2. swap.of \in Things
  <2>1. swap.then \in {"model", "bin.put", "unkit", "pip", "setup"}
    BY <1>1 DEF TreeTypes, SwapRec, SwapInv, Swapping
  <2>2. swap.then = "pip" => at <= Len(Order)
    BY <1>1 DEF SwapInv, Swapping
  <2> QED
    BY <1>1, <2>1, <2>2, ThingsAre, ItemIs DEF SwapInv, Swapping, OfBin
<1>3. /\ dir' = [dir EXCEPT ![swap.of] = Absent]
      /\ touched' = [touched EXCEPT ![swap.of] =
                        @ \/ (mark[swap.of] # None /\ mark[swap.of] # Want(swap.of))]
      /\ UNCHANGED <<mark, swap, lost>> /\ pc' = "place"
  BY DEF SwapAside, Change, Go
<1>4. touched' \in [Things \cup {"file"} -> BOOLEAN]
      /\ \A y \in Things \cup {"file"} : y # swap.of => touched'[y] = touched[y]
  BY <1>1, <1>2, <1>3 DEF TreeTypes
<1>5. touched'[swap.of] =
        (touched[swap.of] \/ (mark[swap.of] # None /\ mark[swap.of] # Want(swap.of)))
  BY ONLY <1>1, <1>2, <1>3, Zenon DEF TreeTypes
<1> QED
  BY <1>1, <1>2, <1>3, <1>4, <1>5, AbsentIs DEF TreeTypes

LEMMA PlaceIs ==
    ASSUME TypeOK, SwapInv, SwapPlace
    PROVE  /\ TreeTypes' /\ swap.of \in Things /\ dir'[swap.of] = Fresh(swap.tree)
           /\ dir'[swap.of].tree = swap.tree /\ dir'[swap.of].ready = None
           /\ dir'[swap.of].stamp = None
           /\ \A y \in Things \ {swap.of} : dir'[y] = dir[y]
           /\ UNCHANGED <<mark, touched, lost>> /\ pc = "place" /\ pc' = swap.then
           /\ swap.then \in {"model", "bin.put", "unkit", "pip", "setup"}
<1>1. TreeTypes /\ pc = "place"
  BY TypeParts DEF SwapPlace
<1>2. swap.of \in Things /\ swap.then \in {"model", "bin.put", "unkit", "pip", "setup"}
  <2>1. swap.then \in {"model", "bin.put", "unkit", "pip", "setup"}
    BY <1>1 DEF TreeTypes, SwapRec, SwapInv, Swapping
  <2>2. swap.then = "pip" => at <= Len(Order)
    BY <1>1 DEF SwapInv, Swapping
  <2> QED
    BY <1>1, <2>1, <2>2, ThingsAre, ItemIs DEF SwapInv, Swapping, OfBin
<1>3. swap.tree \in Trees
  BY <1>1 DEF TreeTypes, SwapRec
<1> QED
  BY <1>1, <1>2, <1>3, AbsentIs DEF SwapPlace, TreeTypes, Go

(* A sha is recorded, or that fails. *)
LEMMA RememberIs ==
    ASSUME TypeOK, Remember
    PROVE  /\ touched' \in [Things \cup {"file"} -> BOOLEAN]
           /\ \A y \in Things : touched'[y] = touched[y]
           /\ verified' \in DOMAIN Blocks \cup {"none"} /\ late' \in {late, FALSE}
           /\ \/ pc' = "addons" /\ verified' = plan.ver /\ ~touched'["file"]
              \/ pc' = "failed" /\ UNCHANGED <<verified, touched>>
<1>1. touched \in [Things \cup {"file"} -> BOOLEAN] /\ "file" \notin Things
      /\ plan.ver \in DOMAIN Blocks /\ verified \in DOMAIN Blocks \cup {"none"}
  BY TypeParts, ThingsAre, PlanIs DEF TreeTypes, FileTypes
<1> QED
  BY <1>1 DEF Remember, Stage, Go, Fail

LEMMA TypeStep ==
    ASSUME TypeOK, PartInv, SwapInv, KitInv, SetInv, Next
    PROVE  TypeOK'
<1>a. BootTypes /\ FileTypes /\ TreeTypes /\ SetTypes /\ KitTypes
  BY TypeParts
<1>b. SUFFICES BootTypes' /\ FileTypes' /\ TreeTypes' /\ SetTypes' /\ KitTypes'
  BY TypeParts
<1>c. plan.fetch \in Trees /\ plan.set \in DOMAIN Pins
  BY PlanIs, ThingsAre DEF TypeOK
<1>d. UNCHANGED fileVars => FileTypes'
  BY <1>a DEF fileVars, FileTypes
<1>e. UNCHANGED treeVars => TreeTypes'
  BY <1>a DEF treeVars, TreeTypes
<1>f. UNCHANGED setVars => SetTypes'
  BY <1>a DEF setVars, SetTypes
<1>g. UNCHANGED kit => KitTypes'
  BY <1>a DEF KitTypes
<1>h. /\ SwapInv => swap.then \in Pcs \/ swap.then = "off"
      /\ \A p \in Pcs : plan' = plan /\ boots' = boots /\ late' \in BOOLEAN /\ pc' = p => BootTypes'
  BY <1>a DEF BootTypes, Pcs, TreeTypes, SwapRec
<1>i. ASSUME plan' = plan, boots' = boots, late' \in {late, FALSE}, pc' \in Pcs
      PROVE  BootTypes'
  BY <1>i, <1>a DEF BootTypes
<1>j. ASSUME UNCHANGED downloading, load' \in LoadRec, part' \in Seq(DOMAIN Blocks)
      PROVE  FileTypes' /\ TreeTypes' /\ SetTypes' /\ KitTypes'
  <2>1. UNCHANGED <<file, verified, served, turns, treeVars, setVars, kit>>
    BY <1>j DEF downloading
  <2> QED
    BY <1>a, <1>e, <1>f, <1>g, <1>j, <2>1 DEF FileTypes
<1>k. Resumable \in Seq(DOMAIN Blocks)
  BY <1>a, EmptySeq DEF Resumable, FileTypes
<1>1. CASE Boot
  <2>0. boots + 1 \in 0..MaxBoots
    BY <1>1, <1>a, InstallConstants DEF Boot, BootTypes
  <2>1. BootTypes'
    BY <1>1, <2>0, <1>a DEF Boot, BootTypes, Go, Pcs
  <2>2. FileTypes'
    BY <1>1, <1>a, InstallConstants DEF Boot, FileTypes
  <2> QED
    BY <1>1, <2>1, <2>2, <1>e, <1>f, <1>g DEF Boot
<1>2. CASE Die
  <2>1. BootTypes'
    BY <1>2, <1>a DEF Die, BootTypes, Stage, Go, Pcs
  <2>2. FileTypes'
    BY <1>2, <1>a, AbsentIs DEF Die, FileTypes
  <2>3. TreeTypes'
    BY <1>2, <1>a, AbsentIs DEF Die, TreeTypes
  <2>4. SetTypes'
    <3>1. 1 \in 1..(Len(Order) + 1)
      BY ThingsAre
    <3> QED
      BY <1>2, <3>1 DEF Die, SetTypes
  <2> QED
    BY <1>2, <2>1, <2>2, <2>3, <2>4, <1>g DEF Die
<1>3. CASE Late
  BY <1>3, <1>a, <1>d, <1>e, <1>f, <1>g DEF Late, BootTypes
<1>4. CASE Turn
  <2>0. turns + 1 \in 0..MaxTurns
    BY <1>4, <1>a, InstallConstants DEF Turn, FileTypes
  <2>1. FileTypes'
    BY <1>4, <2>0, <1>a DEF Turn, FileTypes
  <2> QED
    BY <1>4, <2>1, <1>a, <1>e, <1>f, <1>g DEF Turn, BootTypes
<1>5. CASE OtherPublishes
  <2>1. PICK k \in {"bin", plan.set} :
          kit' = [kit EXCEPT ![k] =
                IF k = "bin" THEN <<"sha">>
                ELSE [i \in DOMAIN Order |-> Pins[k][Order[i]][1]]]
    BY <1>5 DEF OtherPublishes
  <2>2. <<"sha">> \in Seq(Trees)
    BY ThingsAre, OneTwo
  <2>3. k # "bin" => [i \in DOMAIN Order |-> Pins[k][Order[i]][1]] \in Seq(Trees)
    BY <1>c, <2>1, ThingsAre, PinIs, SeqDef
  <2>4. KitTypes'
    BY <2>1, <2>2, <2>3, <1>a DEF KitTypes
  <2> QED
    BY <1>5, <2>4, <1>a, <1>d, <1>e, <1>f DEF OtherPublishes, BootTypes
<1>6. CASE SwapAside
  BY <1>6, <1>a, <1>d, <1>f, <1>g, AsideIs DEF SwapAside, BootTypes, Go, Pcs
<1>7. CASE SwapPlace
  <2>1. swap.then \in Pcs
    BY <1>7, PlaceIs DEF Pcs
  <2> QED
    BY <1>7, <2>1, <1>i, <1>d, <1>f, <1>g, PlaceIs DEF SwapPlace
<1>8. CASE Binary
  <2>1. "bin" \in Things /\ "sha" \in Trees /\ (Kept("bin") => Holds("bin", "bin") = "sha")
    BY ThingsAre, HoldsIs
  <2>2. swap' \in SwapRec /\ pc' \in Pcs /\ late' \in {late, FALSE}
    <3>1. CASE BinInstalled /\ Stage("model") /\ UNCHANGED swap
      BY <3>1, <1>a DEF Stage, Go, Pcs, TreeTypes
    <3>2. CASE Replace("bin", "sha", "model") /\ UNCHANGED late
      BY <3>2, <2>1, ReplaceIs DEF Pcs
    <3>3. CASE Replace("bin", "sha", "bin.put") /\ UNCHANGED late
      BY <3>3, <2>1, ReplaceIs DEF Pcs
    <3>4. CASE Fail /\ UNCHANGED <<swap, late>>
      BY <3>4, <1>a DEF Fail, Pcs, TreeTypes
    <3> QED
      BY <1>8, <2>1, <3>1, <3>2, <3>3, <3>4 DEF Binary
  <2> QED
    BY <1>8, <2>2, <1>a, <1>i, <1>d, <1>f, <1>g DEF Binary, TreeTypes
<1>9. CASE BinaryPut
  <2>1. <<"sha">> \in Seq(Trees)
    BY ThingsAre, OneTwo
  <2>2. KitTypes'
    BY <1>9, <2>1, <1>a, PutIs DEF BinaryPut
  <2> QED
    BY <1>9, <2>2, <1>i, <1>d, <1>e, <1>f DEF BinaryPut, Stage, Go, Pcs
<1>10. CASE Model
  <2>1. load' \in LoadRec /\ verified' \in DOMAIN Blocks \cup {"none"}
        /\ touched' \in [Things \cup {"file"} -> BOOLEAN]
        /\ pc' \in Pcs /\ late' \in {late, FALSE}
    <3>1. CASE Remember
      BY <1>10, <3>1, <1>a, RememberIs, AbsentIs DEF Model, FileTypes, Pcs
    <3>2. CASE ~Remember
      BY <1>10, <3>2, <1>a, AbsentIs DEF Model, FileTypes, TreeTypes, Stage, Go, Pcs
    <3> QED
      BY <3>1, <3>2
  <2> QED
    BY <1>10, <2>1, <1>a, <1>i, <1>f, <1>g DEF Model, FileTypes, TreeTypes
<1>11. CASE TimedOut
  BY <1>11, <1>a, <1>i, <1>j, AbsentIs DEF TimedOut, downloading, FileTypes, Fail, Pcs
<1>12. CASE AlreadyWhole
  <2>1. load \in LoadRec /\ load' = [Idle EXCEPT !.tries = load.tries]
    BY <1>12, <1>a DEF AlreadyWhole, FileTypes
  <2>2. load' \in LoadRec
    BY ONLY <2>1, AbsentIs DEF LoadRec
  <2> QED
    BY <1>12, <2>2, <1>a, <1>i, <1>j DEF AlreadyWhole, downloading, FileTypes, Go, Pcs
<1>13. CASE Refused
  <2>1. load' \in LoadRec /\ pc' \in {"ask", "failed"}
    BY <1>13, <1>a, AgainIs, StallIs DEF Refused
  <2> QED
    BY <1>13, <2>1, <1>i, <1>j, <1>k DEF Refused, downloading, Pcs
<1>14. CASE NothingMore
  <2>1. load' \in LoadRec /\ pc' \in {"ask", "failed"} /\ part' \in Seq(DOMAIN Blocks)
    <3>1. CASE Again /\ part' = Resumable
      BY <3>1, <1>a, <1>k, AgainIs
    <3>2. CASE Go("ask") /\ part' = <<>> /\ load' = [load EXCEPT !.restarted = TRUE]
      BY <3>2, <1>a, EmptySeq DEF Go, FileTypes, LoadRec
    <3> QED
      BY <1>14, <3>1, <3>2 DEF NothingMore
  <2> QED
    BY <1>14, <2>1, <1>i, <1>j DEF NothingMore, downloading, Pcs
<1>15. CASE Answered
  <2>1. load' \in LoadRec /\ pc' \in {"ask", "failed", "body"} /\ part' \in Seq(DOMAIN Blocks)
    <3>1. PICK known \in BOOLEAN : \E status \in {200, 206} : Reply(status, known)
      BY <1>15 DEF Answered
    <3> QED
      BY <3>1, <1>a, <1>k, ReplyIs
  <2> QED
    BY <1>15, <2>1, <1>i, <1>j DEF Answered, downloading, Pcs
<1>16. CASE Block
  <2>1. load \in LoadRec /\ part \in Seq(DOMAIN Blocks)
    BY <1>a DEF FileTypes
  <2>2. load.ver \in DOMAIN Blocks \cup {"none"} /\ load.pos + 1 \in Nat
    BY <2>1 DEF LoadRec
  <2>3. load' = [load EXCEPT !.pos = load.pos + 1, !.got = TRUE, !.stalls = 0]
    BY <1>16 DEF Block
  <2>4. load' \in LoadRec
    BY ONLY <2>1, <2>2, <2>3 DEF LoadRec
  <2>5. load.ver \in DOMAIN Blocks
    BY <1>16 DEF Block, PartInv
  <2>6. part' \in Seq(DOMAIN Blocks)
    BY <1>16, <2>1, <2>5, AppendProperties DEF Block
  <2> QED
    BY <1>16, <2>4, <2>6, <1>a, <1>i, <1>j DEF Block, downloading, BootTypes
<1>17. CASE Ended
  <2>1. load' \in LoadRec /\ pc' \in Pcs
    <3>1. CASE Stall(load.got)
      <4>1. load.got \in BOOLEAN
        BY <1>a DEF FileTypes, LoadRec
      <4> QED
        BY <3>1, <4>1, <1>a, StallIs DEF Pcs
    <3>2. CASE /\ Go("finish")
               /\ load' = [Idle EXCEPT !.tries = load.tries, !.known = load.known]
      BY <3>2, <1>a, AbsentIs, ZenonT(40) DEF FileTypes, Go, Pcs, LoadRec
    <3> QED
      BY <1>17, <3>1, <3>2 DEF Ended
  <2> QED
    BY <1>17, <2>1, <1>a, <1>i, <1>j DEF Ended, downloading, FileTypes
<1>18. CASE Finish
  <2>1. load' \in LoadRec /\ pc' \in Pcs /\ file' \in Seq(DOMAIN Blocks) \cup {NoFile}
        /\ touched' \in [Things \cup {"file"} -> BOOLEAN]
    <3>1. CASE Verified
      <4>1. (verified # "none") \in BOOLEAN
        OBVIOUS
      <4>2. touched' = [touched EXCEPT !["file"] = verified # "none"]
        BY <1>18, <3>1 DEF Finish
      <4>3. touched' \in [Things \cup {"file"} -> BOOLEAN]
        BY ONLY <4>1, <4>2, <1>a DEF TreeTypes
      <4> QED
        BY <1>18, <3>1, <4>3, <1>a, AbsentIs DEF Finish, FileTypes, Go, Pcs
    <3>2. CASE ~Verified
      <4>1. Again /\ UNCHANGED <<file, touched>>
        BY <1>18, <3>2 DEF Finish
      <4> QED
        BY <4>1, <1>a, AgainIs DEF Pcs, FileTypes, TreeTypes
    <3> QED
      BY <3>1, <3>2
  <2>2. FileTypes'
    BY <1>18, <2>1, <1>a, EmptySeq DEF Finish, FileTypes
  <2> QED
    BY <1>18, <2>1, <2>2, <1>a, <1>i, <1>f, <1>g DEF Finish, TreeTypes
<1>19. CASE Landed
  <2>1. verified' \in DOMAIN Blocks \cup {"none"}
        /\ touched' \in [Things \cup {"file"} -> BOOLEAN]
        /\ pc' \in Pcs /\ late' \in {late, FALSE}
    <3>1. CASE Remember
      BY <3>1, <1>a, RememberIs DEF Pcs
    <3>2. CASE ~Remember
      BY <1>19, <3>2, <1>a DEF Landed, FileTypes, TreeTypes, Stage, Go, Pcs
    <3> QED
      BY <3>1, <3>2
  <2> QED
    BY <1>19, <2>1, <1>a, <1>i, <1>f, <1>g DEF Landed, FileTypes, TreeTypes
<1>20. CASE AddonSet
  <2>1. SetTypes'
    BY <1>20, <1>a DEF AddonSet, SetTypes
  <2>2. pc' \in Pcs
    BY <1>20 DEF AddonSet, Fail, Go, Pcs
  <2> QED
    BY <1>20, <2>1, <2>2, <1>i, <1>d, <1>e, <1>g DEF AddonSet
<1>21. CASE Unkit
  <2>1. swap' \in SwapRec /\ pc' \in Pcs /\ todo' \subseteq Addons
    <3>1. ASSUME NEW x \in todo, todo' = todo \ {x}, Replace(x, Holds(plan.set, x), "unkit")
          PROVE  swap' \in SwapRec /\ pc' \in Pcs /\ todo' \subseteq Addons
      <4>1. x \in Addons /\ Kept(plan.set)
        BY <1>21, <1>a DEF SetTypes, Unkit, KitInv, Where
      <4>2. x \in Things /\ Holds(plan.set, x) \in Trees
        BY <4>1, <1>c, HoldsIs, ThingsAre
      <4> QED
        BY <3>1, <4>2, <1>a, ReplaceIs DEF Pcs, SetTypes
    <3>2. CASE todo = {} /\ Go("addon") /\ UNCHANGED <<todo, swap>>
      BY <3>2, <1>a DEF SetTypes, TreeTypes, Go, Pcs
    <3> QED
      BY <1>21, <3>1, <3>2 DEF Unkit
  <2> QED
    BY <1>21, <2>1, <1>a, <1>i, <1>d, <1>g DEF Unkit, SetTypes, TreeTypes
<1>22. CASE Addon
  <2>1. /\ at + 1 \in 1..(Len(Order) + 1) /\ Item \in Things /\ Pin(Item)[1] \in Trees
    BY <1>22, <1>c, ItemIs, ThingsAre, PinIs DEF Addon, Pin
  <2>2. at' \in {at, at + 1} /\ swap' \in SwapRec /\ pc' \in Pcs /\ how' \in {"kit", "built"}
    <3>1. CASE AddonPassedOver /\ UNCHANGED <<swap, how>>
      BY <3>1, <1>a DEF AddonPassedOver, NextItem, Go, Pcs, TreeTypes, SetTypes
    <3>2. CASE Replace(Item, Pin(Item)[1], "pip") /\ how' = "built" /\ UNCHANGED at
      BY <3>2, <2>1, ReplaceIs DEF Pcs
    <3>3. CASE AddonFails /\ UNCHANGED <<swap, how>>
      BY <3>3, <1>a DEF AddonFails, NextItem, Fail, Go, Pcs, TreeTypes, SetTypes
    <3>4. CASE Go("pip") /\ how' = (IF fromKit THEN "kit" ELSE "built") /\ UNCHANGED <<at, swap>>
      BY <3>4, <1>a DEF Go, Pcs, TreeTypes
    <3> QED
      BY <1>22, <3>1, <3>2, <3>3, <3>4 DEF Addon, AddonPassedOver
  <2>3. SetTypes'
    BY <1>22, <2>1, <2>2, <1>a DEF Addon, SetTypes
  <2> QED
    BY <1>22, <2>2, <2>3, <1>a, <1>i, <1>d, <1>g DEF Addon, TreeTypes
<1>23. CASE Pip
  <2>1. Item \in Addons
    BY <1>23, ItemIs DEF Pip, SetInv, Where
  <2>2. dir' \in [Things -> DirRec] /\ touched' \in [Things \cup {"file"} -> BOOLEAN]
    BY <1>23, <2>1, BeginIs DEF Pip
  <2> QED
    BY <1>23, <2>2, <1>a, <1>i, <1>d, <1>f, <1>g DEF Pip, TreeTypes, Go, Pcs
<1>24. CASE Probe
  <2>1. Item \in Addons /\ at + 1 \in 1..(Len(Order) + 1)
    BY <1>24, ItemIs DEF Probe, SetInv, Where
  <2>2. dir' \in [Things -> DirRec] /\ pc' \in Pcs /\ at' \in {at, at + 1}
    <3>1. CASE dir' = [dir EXCEPT ![Item].ready = Want(Item)] /\ Go("marked") /\ UNCHANGED at
      BY <3>1, <2>1, ReadyIs, WantIs DEF Go, Pcs
    <3>2. CASE AddonFails /\ UNCHANGED dir
      BY <3>2, <1>a DEF AddonFails, NextItem, Fail, Go, Pcs, TreeTypes
    <3> QED
      BY <1>24, <3>1, <3>2 DEF Probe
  <2> QED
    BY <1>24, <2>1, <2>2, <1>a, <1>i, <1>d, <1>g DEF Probe, TreeTypes, SetTypes
<1>25. CASE AddonMark
  <2>1. Item \in Addons /\ at + 1 \in 1..(Len(Order) + 1)
    BY <1>25, ItemIs DEF AddonMark, SetInv, Where
  <2>2. mark' \in [Things -> Digests] /\ touched' \in [Things \cup {"file"} -> BOOLEAN]
        /\ lost' \in [Addons -> BOOLEAN]
    BY <1>25, <2>1, MarkIs DEF AddonMark
  <2>3. built' \in BOOLEAN
    BY <1>25, <1>a DEF AddonMark, SetTypes
  <2> QED
    BY <1>25, <2>1, <2>2, <2>3, <1>a, <1>i, <1>d, <1>g
    DEF AddonMark, TreeTypes, SetTypes, NextItem, Go, Pcs
<1>26. CASE AddonsDone
  <2>1. [i \in DOMAIN Order |-> dir[Order[i]].tree] \in Seq(Trees)
    <3>1. \A i \in 1..Len(Order) : dir[Order[i]].tree \in Trees
      BY <1>a, ThingsAre DEF TreeTypes, DirRec
    <3> QED
      BY <3>1, ThingsAre, SeqDef
  <2>2. KitTypes'
    BY <1>26, <2>1, <1>a, <1>c, <1>g, PutIs DEF AddonsDone
  <2> QED
    BY <1>26, <2>2, <1>i, <1>d, <1>e, <1>f DEF AddonsDone, Go, Pcs
<1>27. CASE App
  <2>1. swap' \in SwapRec /\ pc' \in Pcs
    <3>1. CASE Replace("app", plan.fetch, "setup")
      BY <3>1, <1>c, ThingsAre, ReplaceIs DEF Pcs
    <3> QED
      BY <1>27, <3>1, <1>a DEF App, TreeTypes, Fail, Go, Pcs
  <2> QED
    BY <1>27, <2>1, <1>a, <1>i, <1>d, <1>f, <1>g DEF App, TreeTypes
<1>28. CASE Setup
  <2>1. dir' \in [Things -> DirRec] /\ touched' \in [Things \cup {"file"} -> BOOLEAN] /\ pc' \in Pcs
    BY <1>28, <1>a, BeginIs, ReadyIs, WantIs DEF Setup, Go, Pcs, TreeTypes
  <2> QED
    BY <1>28, <2>1, <1>a, <1>i, <1>d, <1>f, <1>g DEF Setup, TreeTypes
<1>29. CASE SetupEnd
  <2>1. dir' \in [Things -> DirRec] /\ pc' \in Pcs
    BY <1>29, <1>a, ReadyIs, WantIs DEF SetupEnd, Fail, Go, Pcs, TreeTypes
  <2> QED
    BY <1>29, <2>1, <1>a, <1>i, <1>d, <1>f, <1>g DEF SetupEnd, TreeTypes
<1>30. CASE Stamp
  <2>1. dir' \in [Things -> DirRec]
    BY <1>30, StampIs, WantIs DEF Stamp
  <2> QED
    BY <1>30, <2>1, <1>a, <1>i, <1>d, <1>f, <1>g DEF Stamp, TreeTypes, Go, Pcs
<1>31. CASE AppMark
  <2>1. mark' \in [Things -> Digests] /\ touched' \in [Things \cup {"file"} -> BOOLEAN]
        /\ lost' \in [Addons -> BOOLEAN]
    BY <1>31, MarkIs DEF AppMark
  <2> QED
    BY <1>31, <2>1, <1>a, <1>i, <1>d, <1>f, <1>g DEF AppMark, TreeTypes, Go, Pcs
<1> QED
  BY <1>1, <1>2, <1>3, <1>4, <1>5, <1>6, <1>7, <1>8, <1>9, <1>10, <1>11, <1>12, <1>13, <1>14,
     <1>15, <1>16, <1>17, <1>18, <1>19, <1>20, <1>21, <1>22, <1>23, <1>24, <1>25, <1>26,
     <1>27, <1>28, <1>29, <1>30, <1>31 DEF Next, Step


(***************************************************************************)
(* Where the steps lead, and what they leave alone.                        *)
(***************************************************************************)

Fetching == {"model", "ask", "body", "finish", "landed"}
Downloads ==
    Late \/ Turn \/ TimedOut \/ AlreadyWhole \/ Refused \/ NothingMore \/ Answered \/ Block
    \/ Ended
OnFile == Downloads \/ Model \/ Finish \/ Landed

OnKit == OtherPublishes \/ BinaryPut
OnSet == AddonSet \/ Unkit \/ Addon \/ Pip \/ Probe \/ AddonMark \/ AddonsDone
OnApp == App \/ Setup \/ SetupEnd \/ Stamp \/ AppMark

LEMMA NextIs ==
    Next => Boot \/ Die \/ OnFile \/ OnKit \/ SwapAside \/ SwapPlace \/ Binary \/ OnSet \/ OnApp
  BY DEF Next, Step, OnFile, Downloads, OnKit, OnSet, OnApp

LEMMA DownloadsAre ==
    ASSUME TypeOK, Downloads
    PROVE  /\ UNCHANGED <<plan, boots, file, verified, treeVars, setVars, kit>>
           /\ pc \in {"ask", "body"} /\ pc' \in {"ask", "body", "finish", "failed"}
<1>a. FileTypes
  BY TypeParts
<1>k. Resumable \in Seq(DOMAIN Blocks)
  BY <1>a, EmptySeq DEF Resumable, FileTypes
<1>1. CASE Late \/ Turn
  BY <1>1 DEF Late, Turn, fileVars
<1>2. CASE TimedOut \/ AlreadyWhole \/ Block
  BY <1>2 DEF TimedOut, AlreadyWhole, Block, downloading, Fail, Go
<1>3. CASE Refused
  BY <1>3, <1>a, AgainIs, StallIs DEF Refused, downloading
<1>4. CASE NothingMore
  BY <1>4, <1>a, AgainIs DEF NothingMore, downloading, Go
<1>5. CASE Answered
  BY <1>5, <1>a, <1>k, ReplyIs DEF Answered, downloading
<1>6. CASE Ended
  <2>1. load.got \in BOOLEAN
    BY <1>a DEF FileTypes, LoadRec
  <2> QED
    BY <1>6, <2>1, <1>a, StallIs DEF Ended, downloading, Go
<1> QED
  BY <1>1, <1>2, <1>3, <1>4, <1>5, <1>6 DEF Downloads

LEMMA OnFileIs ==
    ASSUME TypeOK, OnFile
    PROVE  /\ UNCHANGED <<plan, dir, mark, swap, lost, setVars, kit>>
           /\ \A x \in Things : touched'[x] = touched[x]
           /\ pc \in Fetching /\ pc' \in Fetching \cup {"addons", "failed"}
<1>1. CASE Downloads
  BY <1>1, DownloadsAre DEF Fetching, treeVars
<1>a. FileTypes /\ TreeTypes /\ "file" \notin Things
  BY TypeParts, ThingsAre
<1>2. CASE Model
  BY <1>2, RememberIs DEF Model, Fetching, Stage, Go
<1>3. CASE Finish
  <2>1. pc = "finish" /\ pc' \in {"landed", "ask", "failed"}
    BY <1>3, <1>a, AgainIs DEF Finish, Go
  <2> QED
    BY <1>3, <1>a, <2>1 DEF Finish, Fetching, TreeTypes
<1>4. CASE Landed
  BY <1>4, RememberIs DEF Landed, Fetching, Stage, Go
<1> QED
  BY <1>1, <1>2, <1>3, <1>4 DEF OnFile

LEMMA OnAppIs ==
    ASSUME TypeOK, OnApp
    PROVE  /\ UNCHANGED <<plan, file, part, verified, load, setVars, kit>>
           /\ \A x \in Things \ {"app"} :
                dir'[x] = dir[x] /\ mark'[x] = mark[x] /\ touched'[x] = touched[x]
           /\ touched'["file"] = touched["file"] /\ \A x \in Addons : lost'[x] = lost[x]
           /\ pc \in {"app", "setup", "setup.end", "stamp", "mark"}
           /\ pc' \in {"setup", "setup.end", "stamp", "mark", "up", "failed", "aside"}
           /\ pc' = "aside" => App /\ swap'.then = "setup"
<1>a. TreeTypes /\ "app" \in Things \ Addons /\ "file" # "app" /\ plan.fetch \in Trees
  BY TypeParts, ThingsAre, PlanIs DEF TypeOK
<1>1. CASE App
  BY <1>1, <1>a, ReplaceIs DEF App, Fail, Go, fileVars
<1>2. CASE Setup
  <2>1. CASE plan.setup = "none"
    BY <1>2, <2>1, <1>a, ReadyIs, WantIs DEF Setup, Go, fileVars
  <2>2. CASE plan.setup # "none"
    BY <1>2, <2>2, <1>a, BeginIs DEF Setup, Go, fileVars
  <2> QED
    BY <2>1, <2>2
<1>3. CASE SetupEnd
  BY <1>3, <1>a, ReadyIs, WantIs DEF SetupEnd, Go, Fail, fileVars
<1>4. CASE Stamp
  BY <1>4, <1>a, StampIs, WantIs DEF Stamp, Go, fileVars
<1>5. CASE AppMark
  <2>1. SetMark("app") /\ pc = "mark" /\ pc' = "up"
        /\ UNCHANGED <<plan, boots, late, fileVars, dir, swap, setVars, kit>>
    BY <1>5 DEF AppMark, Go
  <2>2. /\ \A y \in Things \ {"app"} : mark'[y] = mark[y]
        /\ \A y \in Things \cup {"file"} : y # "app" => touched'[y] = touched[y]
        /\ \A y \in Addons : y # "app" => lost'[y] = lost[y]
    BY <2>1, MarkIs, Zenon
  <2> QED
    BY <2>1, <2>2, <1>a DEF fileVars
<1> QED
  BY <1>1, <1>2, <1>3, <1>4, <1>5 DEF OnApp

(* What an addon that cannot be installed leads to. *)
LEMMA PassOverIs ==
    ASSUME AddonFails \/ NextItem
    PROVE  \/ pc' = "addon" /\ at' = at + 1 /\ (Item \in Optional \/ NextItem)
           \/ pc' = "failed" /\ at' = at
  BY DEF AddonFails, NextItem, Fail, Go

LEMMA OnSetIs ==
    ASSUME TypeOK, SetInv, KitInv, OnSet
    PROVE  /\ UNCHANGED <<plan, file, part, verified, load>> /\ touched'["file"] = touched["file"]
           /\ \A x \in Things \ Addons :
                dir'[x] = dir[x] /\ mark'[x] = mark[x] /\ touched'[x] = touched[x]
           /\ pc \in {"addons", "unkit"} \cup InSet
           /\ pc' \in {"unkit", "app", "failed", "aside"} \cup InSet
           /\ pc' = "aside" => (Addon /\ swap'.then = "pip") \/ (Unkit /\ swap'.then = "unkit")
<1>a. TreeTypes /\ SetTypes /\ Addons \subseteq Things /\ "file" \notin Things
      /\ plan.set \in DOMAIN Pins
  BY TypeParts, ThingsAre, PlanIs
<1>1. CASE AddonSet
  BY <1>1 DEF AddonSet, Fail, Go, fileVars, treeVars, InSet
<1>2. CASE Unkit
  <2>1. ASSUME NEW x \in todo, Replace(x, Holds(plan.set, x), "unkit")
        PROVE  swap'.then = "unkit" /\ pc' = "aside"
    BY <2>1 DEF Replace, Go
  <2> QED
    BY <1>2, <2>1 DEF Unkit, Go, fileVars, InSet
<1>3. CASE Addon
  <2>1. CASE Replace(Item, Pin(Item)[1], "pip")
    BY <1>3, <2>1 DEF Addon, Replace, Go, fileVars, InSet
  <2>2. CASE AddonFails \/ NextItem
    BY <1>3, <2>2, PassOverIs DEF Addon, fileVars, InSet
  <2> QED
    BY <1>3, <2>1, <2>2 DEF Addon, Go, fileVars, InSet
<1>4. CASE Pip
  <2>1. Item \in Addons
    BY <1>4, ItemIs DEF Pip, SetInv, Where
  <2> QED
    BY <1>4, <1>a, <2>1, BeginIs DEF Pip, Go, fileVars, InSet
<1>5. CASE Probe
  <2>1. Item \in Addons
    BY <1>5, ItemIs DEF Probe, SetInv, Where
  <2> QED
    BY <1>5, <1>a, <2>1, ReadyIs, WantIs, PassOverIs DEF Probe, Go, fileVars, InSet
<1>6. CASE AddonMark
  <2>1. Item \in Addons
    BY <1>6, ItemIs DEF AddonMark, SetInv, Where
  <2>2. /\ \A y \in Things \ {Item} : mark'[y] = mark[y]
        /\ \A y \in Things \cup {"file"} : y # Item => touched'[y] = touched[y]
    BY <1>6, <2>1, MarkIs, Zenon DEF AddonMark
  <2>3. /\ pc = "marked" /\ pc' = "addon"
        /\ UNCHANGED <<plan, boots, late, fileVars, dir, swap, todo, fromKit, how, kit>>
    BY <1>6 DEF AddonMark, NextItem, Go
  <2> QED
    BY <1>a, <2>1, <2>2, <2>3 DEF fileVars, InSet
<1>7. CASE AddonsDone
  BY <1>7 DEF AddonsDone, Go, fileVars, treeVars, InSet
<1> QED
  BY <1>1, <1>2, <1>3, <1>4, <1>5, <1>6, <1>7 DEF OnSet

LEMMA OnKitIs ==
    ASSUME OnKit
    PROVE  /\ UNCHANGED <<plan, fileVars, treeVars, setVars>>
           /\ \/ BinaryPut /\ pc = "bin.put" /\ pc' = "model"
              \/ OtherPublishes /\ pc' = pc /\ pc \in {"bin", "addons"}
  BY DEF OnKit, OtherPublishes, BinaryPut, Stage, Go

LEMMA BinaryIs ==
    ASSUME TypeOK, KitInv, Binary
    PROVE  /\ UNCHANGED <<plan, fileVars, dir, mark, touched, lost, setVars, kit>> /\ pc = "bin"
           /\ \/ pc' = "model" /\ BinInstalled
              \/ pc' = "failed"
              \/ pc' = "aside" /\ swap'.then \in OfBin /\ swap'.of = "bin" /\ swap'.tree = "sha"
<1>1. "bin" \in Things /\ "sha" \in Trees /\ (Kept("bin") => Holds("bin", "bin") = "sha")
  BY ThingsAre, HoldsIs
<1>2. CASE \E then \in OfBin : Replace("bin", "sha", then)
  BY <1>1, <1>2, ReplaceIs DEF Binary, OfBin
<1>3. CASE BinInstalled /\ Stage("model")
  BY <1>3 DEF Binary, Stage, Go
<1>4. CASE Fail
  BY <1>4 DEF Binary, Fail
<1> QED
  BY <1>1, <1>2, <1>3, <1>4 DEF Binary, OfBin

(***************************************************************************)
(* The download and what is on record of the file.                         *)
(***************************************************************************)

LEMMA PartStep ==
    ASSUME TypeOK, PartInv, SwapInv, KitInv, SetInv, Next
    PROVE  PartInv'
<1>a. FileTypes /\ plan.ver \in DOMAIN Blocks
  BY TypeParts, PlanIs
<1>k. Resumable \in Seq(DOMAIN Blocks) /\ Len(part) \in Nat
  BY <1>a, EmptySeq, LenProperties DEF Resumable, FileTypes
<1>z. CASE pc' \notin {"body", "finish"}
  BY <1>z DEF PartInv
<1>1. CASE Late \/ Turn
  BY <1>1 DEF Late, Turn, PartInv, EndsWith, Complete, fileVars
<1>2. CASE AlreadyWhole
  BY <1>2 DEF AlreadyWhole, downloading, PartInv, Complete, Go
<1>3. CASE Answered
  <2> SUFFICES ASSUME pc' = "body" PROVE PartInv'
    BY <1>3, <1>z, <1>a, <1>k, ReplyIs DEF Answered
  <2>1. PICK known \in BOOLEAN, status \in {200, 206} :
          Reply(status, known) /\ (status = 206 => Len(Resumable) < Blocks[served])
    BY <1>3 DEF Answered
  <2>2. part' = KeptOf(status) /\ load'.ver = served /\ load'.pos = Len(part')
    BY <2>1, <1>a, <1>k, ReplyIs
  <2>3. served \in DOMAIN Blocks /\ Blocks[served] \in Nat \ {0}
    BY <1>a, BlocksAre DEF FileTypes
  <2>4. Len(part') < Blocks[served] /\ Len(part') \in Nat
    BY <2>1, <2>2, <2>3, <1>k, EmptySeq, LenProperties DEF KeptOf
  <2> QED
    BY <2>2, <2>3, <2>4 DEF PartInv
<1>4. CASE Block
  <2>1. load.ver \in DOMAIN Blocks /\ Len(part) = load.pos /\ load.pos < Blocks[load.ver]
        /\ Blocks[load.ver] \in Nat \ {0}
    BY <1>4, BlocksAre DEF Block, PartInv
  <2>2. part' = Append(part, load.ver) /\ pc' = "body" /\ part \in Seq(DOMAIN Blocks)
    BY <1>4, <1>a DEF Block, FileTypes
  <2>3. load' = [load EXCEPT !.pos = load.pos + 1, !.got = TRUE, !.stalls = 0]
        /\ load \in LoadRec
    BY <1>4, <1>a DEF Block, FileTypes
  <2>4. load'.ver = load.ver /\ load'.pos = load.pos + 1
    BY ONLY <2>3 DEF LoadRec
  <2>5. Len(part') = Len(part) + 1 /\ part'[Len(part')] = load.ver
    BY <2>1, <2>2, AppendProperties
  <2> QED
    BY <2>1, <2>2, <2>4, <2>5, <1>k DEF PartInv, EndsWith
<1>5. CASE Ended
  <2> SUFFICES ASSUME pc' = "finish" PROVE PartInv'
    <3>1. load.got \in BOOLEAN
      BY <1>a DEF FileTypes, LoadRec
    <3> QED
      BY <1>5, <1>z, <1>a, <3>1, StallIs DEF Ended, Go
  <2>1. load.ver \in DOMAIN Blocks /\ Len(part) = load.pos /\ load.pos <= Blocks[load.ver]
        /\ (load.pos = Blocks[load.ver] => EndsWith(load.ver)) /\ Blocks[load.ver] \in Nat
    BY <1>5, BlocksAre DEF Ended, PartInv
  <2>2. SeenWhole /\ part' = part
        /\ load' = [Idle EXCEPT !.tries = load.tries, !.known = load.known]
    <3>1. load.got \in BOOLEAN
      BY <1>a DEF FileTypes, LoadRec
    <3> QED
      BY <1>5, <1>a, <3>1, StallIs DEF Ended
  <2>3. CASE load.known
    <3>1. Len(part) = Blocks[load.ver] /\ EndsWith(load.ver)
      BY <1>k, <2>1, <2>2, <2>3 DEF SeenWhole
    <3> QED
      BY <2>1, <2>2, <3>1 DEF PartInv, EndsWith
  <2>4. CASE ~load.known
    <3>1. load'.known = load.known
      BY ONLY <2>2 DEF Idle
    <3> QED
      BY <2>4, <3>1 DEF PartInv
  <2> QED
    BY <2>3, <2>4
<1>6. CASE Boot \/ Die \/ TimedOut \/ Model \/ Landed
  BY <1>6, <1>z, RememberIs DEF Boot, Die, TimedOut, Model, Landed, Stage, Go, Fail
<1>7. CASE Refused \/ NothingMore \/ Finish
  BY <1>7, <1>z, <1>a, AgainIs, StallIs DEF Refused, NothingMore, Finish, Go
<1>8. CASE OnKit \/ Binary
  BY <1>8, <1>z, OnKitIs, BinaryIs
<1>9. CASE SwapAside \/ SwapPlace
  BY <1>9, <1>z, AsideIs, PlaceIs
<1>10. CASE OnSet \/ OnApp
  BY <1>10, <1>z, OnSetIs, OnAppIs DEF InSet
<1> QED
  BY <1>1, <1>2, <1>3, <1>4, <1>5, <1>6, <1>7, <1>8, <1>9, <1>10, NextIs DEF OnFile, Downloads

LEMMA OffFileIs ==
    ASSUME TypeOK, SwapInv, KitInv, SetInv, Next, ~OnFile
    PROVE  /\ UNCHANGED <<file, verified>> /\ touched'["file"] = touched["file"]
           /\ pc' # "landed"
           /\ Where' \in PastModel => Where \in PastModel /\ plan' = plan
<1>1. CASE Boot \/ Die
  BY <1>1 DEF Boot, Die, Stage, Go, treeVars, Where, PastModel, InSet, InApp
<1>2. CASE OnKit
  BY <1>2, OnKitIs DEF fileVars, treeVars, Where, PastModel, InSet, InApp
<1>3. CASE SwapAside
  <2>1. file' = file /\ verified' = verified /\ plan' = plan
    BY <1>3 DEF SwapAside, fileVars
  <2> QED
    BY <1>3, <2>1, AsideIs, ThingsAre DEF Where
<1>4. CASE SwapPlace
  <2>1. file' = file /\ verified' = verified /\ plan' = plan
    BY <1>4 DEF SwapPlace, fileVars
  <2> QED
    BY <1>4, <2>1, PlaceIs DEF Where
<1>5. CASE Binary
  BY <1>5, BinaryIs DEF fileVars, Where, PastModel, InSet, InApp, OfBin
<1>6. CASE OnSet
  BY <1>6, OnSetIs DEF Where, PastModel, InSet
<1>7. CASE OnApp
  BY <1>7, OnAppIs DEF Where, PastModel, InSet, InApp
<1> QED
  BY <1>1, <1>2, <1>3, <1>4, <1>5, <1>6, <1>7, NextIs

LEMMA FileStep ==
    ASSUME TypeOK, SwapInv, KitInv, SetInv, FileInv, Next
    PROVE  FileInv'
<1>a. FileTypes /\ TreeTypes /\ plan.ver \in DOMAIN Blocks /\ plan.summed \in BOOLEAN
      /\ "none" \notin DOMAIN Blocks
  BY TypeParts, PlanIs, BlocksAre
<1>1. CASE Downloads
  BY <1>1, DownloadsAre DEF FileInv, Where, PastModel, InSet, InApp, treeVars, Whole
<1>2. CASE Model
  <2>1. pc = "model" /\ UNCHANGED <<plan, file>>
    BY <1>2 DEF Model
  <2>2. CASE Present /\ plan.summed /\ ~Recorded /\ Remember
    BY <2>1, <2>2, RememberIs, <1>a
    DEF Present, FileInv, Where, Whole, PastModel, InSet, InApp
  <2>3. CASE Present /\ (plan.summed => Recorded) /\ Stage("addons")
             /\ UNCHANGED <<load, verified, touched>>
    BY <2>1, <2>3, <1>a DEF FileInv, Recorded, Stage, Go, Where, Whole
  <2>4. CASE ~Present /\ Go("ask") /\ UNCHANGED <<late, verified, touched>>
    BY <2>1, <2>4 DEF Go, FileInv, Where, PastModel, InSet, InApp, Whole
  <2> QED
    BY <1>2, <2>2, <2>3, <2>4 DEF Model
<1>3. CASE Finish
  <2>1. UNCHANGED <<plan, verified>>
    BY <1>3 DEF Finish
  <2>2. CASE Verified
    <3>1. touched' = [touched EXCEPT !["file"] = verified # "none"]
      BY <1>3, <2>2 DEF Finish
    <3>2. touched'["file"] = (verified # "none")
      BY ONLY <3>1, <1>a, Zenon DEF TreeTypes
    <3>3. pc' = "landed" /\ file' = part /\ (plan.summed => part = Whole(plan.ver))
      BY <1>3, <2>2 DEF Finish, Go, Verified
    <3> QED
      BY <2>1, <3>2, <3>3 DEF FileInv, Where, PastModel, InSet, InApp, Whole
  <2>3. CASE ~Verified
    <3>1. pc' \in {"ask", "failed"} /\ UNCHANGED <<file, touched>>
      BY <1>3, <2>3, <1>a, AgainIs DEF Finish
    <3> QED
      BY <2>1, <3>1 DEF FileInv, Where, PastModel, InSet, InApp, Whole
  <2> QED
    BY <2>2, <2>3
<1>4. CASE Landed
  <2>1. pc = "landed" /\ UNCHANGED <<plan, file>>
    BY <1>4 DEF Landed
  <2>2. CASE plan.summed
    <3>1. Remember /\ file = Whole(plan.ver)
      BY <1>4, <2>1, <2>2 DEF Landed, FileInv
    <3> QED
      BY <2>1, <3>1, RememberIs DEF FileInv, Where, Whole, PastModel, InSet, InApp
  <2>3. CASE ~plan.summed
    BY <1>4, <2>1, <2>3 DEF Landed, Stage, Go, FileInv, Where, Whole
  <2> QED
    BY <2>2, <2>3
<1>5. CASE ~OnFile
  BY <1>5, OffFileIs DEF FileInv, Whole
<1> QED
  BY <1>1, <1>2, <1>3, <1>4, <1>5 DEF OnFile

(***************************************************************************)
(* The swaps and the kits.                                                 *)
(***************************************************************************)

(* Whose tree a swap replaces. *)
LEMMA SwapOf ==
    ASSUME TypeOK, SwapInv, Swapping
    PROVE  /\ swap.then \in {"model", "bin.put", "unkit", "pip", "setup"}
           /\ IF swap.then \in OfBin THEN swap.of = "bin"
              ELSE IF swap.then = "setup" THEN swap.of = "app" ELSE swap.of \in Addons
           /\ "app" \notin Addons /\ "bin" \notin Addons
<1>1. swap.then \in {"model", "bin.put", "unkit", "pip", "setup"}
  BY TypeParts DEF TreeTypes, SwapRec, SwapInv
<1> QED
  BY <1>1, ItemIs, ThingsAre DEF SwapInv, OfBin

LEMMA SwapStep ==
    ASSUME TypeOK, SwapInv, KitInv, SetInv, MarkInv, Next
    PROVE  SwapInv'
<1>a. TreeTypes /\ "bin" \in Things /\ "app" \in Things /\ "bin" # "app" /\ "bin" \notin Addons
      /\ plan.fetch \in Trees /\ plan.set \in DOMAIN Pins
  BY TypeParts, ThingsAre, PlanIs DEF TypeOK
<1>1. CASE Boot \/ Die
  BY <1>1 DEF Boot, Die, Stage, Go, SwapInv, Swapping, Where
<1>2. CASE OnFile
  BY <1>2, <1>a, OnFileIs DEF SwapInv, Swapping, BinInstalled, Fetching, Where
<1>3. CASE OnKit
  BY <1>3, OnKitIs DEF SwapInv, Swapping, BinInstalled, treeVars, setVars, Where
<1>4. CASE Binary
  BY <1>4, <1>a, BinaryIs DEF SwapInv, Swapping, BinInstalled, OfBin, Where
<1>5. CASE SwapAside
  <2>1. pc = "aside" /\ pc' = "place" /\ UNCHANGED <<plan, at, swap, mark>> /\ Swapping
        /\ Swapping'
    BY <1>5 DEF SwapAside, setVars, Go, Swapping
  <2>2. swap.then \notin OfBin => dir'["bin"] = dir["bin"] /\ BinInstalled
    BY <1>5, <2>1, <1>a, SwapOf, AsideIs DEF SwapInv
  <2>3. dir'[swap.of] = Absent /\ lost' = lost
    BY <1>5, AsideIs
  <2>4. ASSUME swap.of \in Addons, mark[swap.of] # None
        PROVE  Doubt(swap.of)'
    <3>1. CASE mark[swap.of] # Want(swap.of)
      BY <1>5, <2>1, <2>4, <3>1, AsideIs DEF Doubt
    <3>2. CASE mark[swap.of] = Want(swap.of) /\ ~Doubt(swap.of)
      <4>1. swap.of # "app" /\ ~AtPin(swap.of)
        BY <2>1, <2>4, ThingsAre DEF SwapInv
      <4>2. dir[swap.of].tree = Pin(swap.of)[1]
        BY <2>4, <3>2, <4>1 DEF MarkInv, Want
      <4> QED
        BY <4>1, <4>2 DEF AtPin
    <3>3. CASE Doubt(swap.of)
      BY <1>5, <2>1, <2>3, <3>3, AsideIs DEF Doubt
    <3> QED
      BY <3>1, <3>2, <3>3
  <2>5. Where' = "unkit" => \A x \in todo' : ~AtPin(x)' /\ (Swapping' => x # swap'.of)
    <3>1. UNCHANGED <<todo, plan, swap>> /\ todo \subseteq Addons /\ Where' = Where
      BY <1>5, <2>1, TypeParts DEF SwapAside, setVars, SetTypes, Where
    <3>2. \A x \in todo : Where = "unkit" => dir'[x] = dir[x]
      BY <1>5, <2>1, <3>1, <1>a, AsideIs, ThingsAre DEF SwapInv
    <3> QED
      BY <2>1, <3>1, <3>2 DEF SwapInv, AtPin, Pin
  <2> QED
    BY <2>1, <2>2, <2>3, <2>4, <2>5 DEF SwapInv, BinInstalled, Item, Pin
<1>6. CASE SwapPlace
  <2>1. pc = "place" /\ pc' = swap.then /\ Swapping /\ ~Swapping' /\ pc' # "place"
        /\ pc' # "aside" /\ Where' = Where
    BY <1>6, PlaceIs DEF Swapping, Where
  <2>4. Where' = "unkit" => \A x \in todo' : ~AtPin(x)' /\ (Swapping' => x # swap'.of)
    <3>1. UNCHANGED <<todo, plan>> /\ todo \subseteq Addons
      BY <1>6, TypeParts DEF SwapPlace, setVars, SetTypes
    <3>2. \A x \in todo : Where = "unkit" => dir'[x] = dir[x]
      BY <1>6, <2>1, <3>1, <1>a, PlaceIs, ThingsAre DEF SwapInv
    <3> QED
      BY <2>1, <3>1, <3>2 DEF SwapInv, AtPin, Pin
  <2>2. CASE swap.then \in OfBin
    <3>1. dir'["bin"].tree = "sha"
      BY <1>6, <2>1, <2>2, PlaceIs DEF SwapInv
    <3> QED
      BY <2>1, <2>4, <3>1 DEF SwapInv, BinInstalled
  <2>3. CASE swap.then \notin OfBin
    <3>1. dir'["bin"] = dir["bin"] /\ BinInstalled
      BY <1>6, <2>1, <2>3, <1>a, SwapOf, PlaceIs DEF SwapInv
    <3> QED
      BY <2>1, <2>4, <3>1 DEF SwapInv, BinInstalled
  <2> QED
    BY <2>2, <2>3
<1>7. CASE OnSet
  <2>1. dir'["bin"] = dir["bin"] /\ BinInstalled /\ plan' = plan /\ pc' # "place"
    BY <1>7, <1>a, OnSetIs DEF SwapInv, Swapping, InSet
  <2>2. CASE pc' # "aside"
    <3>1. Where' = "unkit" => \A x \in todo' : ~AtPin(x)'
      <4>1. Where' = "unkit" => AddonSet /\ pc' = "unkit"
        BY <1>7, <2>1, <2>2, PassOverIs
        DEF OnSet, Where, AddonSet, Unkit, Addon, Replace, Pip, Probe, AddonMark, AddonsDone,
            Go, NextItem
      <4>2. CASE AddonSet /\ pc' = "unkit"
        <5>1. todo' = {x \in Addons : ~AtPin(x) /\ Holds(plan.set, x) # "none"} /\ dir' = dir
          BY <4>2 DEF AddonSet, Go, Fail, treeVars
        <5> QED
          BY <2>1, <5>1 DEF AtPin, Pin
      <4> QED
        BY <4>1, <4>2
    <3> QED
      BY <2>1, <2>2, <3>1 DEF SwapInv, Swapping, BinInstalled
  <2>3. CASE Addon /\ pc' = "aside"
    <3>1. Replace(Item, Pin(Item)[1], "pip") /\ at' = at /\ at <= Len(Order) /\ ~AtPin(Item)
          /\ dir' = dir
      <4>1. CASE Replace(Item, Pin(Item)[1], "pip") /\ UNCHANGED at /\ ~AtPin(Item)
        BY <2>3, <4>1 DEF Addon
      <4>2. CASE AddonFails \/ NextItem \/ Go("pip")
        BY <2>3, <4>2, PassOverIs DEF Go
      <4> QED
        BY <2>3, <4>1, <4>2 DEF Addon
    <3>2. swap'.of = Item /\ swap'.tree = Pin(Item)[1] /\ swap'.then = "pip"
      BY <3>1 DEF Replace
    <3> QED
      BY <2>1, <2>3, <3>1, <3>2 DEF SwapInv, BinInstalled, Item, Pin, OfBin, AtPin, Where
  <2>4. CASE Unkit /\ pc' = "aside"
    <3>1. PICK x \in todo : todo' = todo \ {x} /\ Replace(x, Holds(plan.set, x), "unkit")
      BY <2>4 DEF Unkit, Go
    <3>2. swap'.of = x /\ swap'.then = "unkit" /\ x \in Addons /\ dir' = dir
      BY <2>4, <3>1, TypeParts DEF Replace, SetTypes, Unkit
    <3>3. \A y \in todo : ~AtPin(y)
      BY <2>4 DEF Unkit, SwapInv, Where
    <3>4. \A y \in todo : ~AtPin(y)'
      BY <2>1, <3>2, <3>3 DEF AtPin, Pin
    <3> QED
      BY <2>1, <2>4, <3>1, <3>2, <3>4 DEF SwapInv, BinInstalled, OfBin
  <2> QED
    BY <1>7, <2>2, <2>3, <2>4, OnSetIs
<1>8. CASE OnApp
  <2>1. dir'["bin"] = dir["bin"] /\ BinInstalled /\ plan' = plan /\ pc' # "place"
    BY <1>8, <1>a, OnAppIs DEF SwapInv, Swapping
  <2>2. CASE pc' # "aside"
    <3>1. Where' # "unkit"
      BY <1>8, <2>1, <2>2, OnAppIs DEF Where
    <3> QED
      BY <2>1, <2>2, <3>1 DEF SwapInv, Swapping, BinInstalled
  <2>3. CASE pc' = "aside"
    <3>1. Replace("app", plan.fetch, "setup") /\ plan.fetch # "none"
      BY <1>8, <2>3, OnAppIs DEF App, Go, Fail
    <3>2. swap'.of = "app" /\ swap'.tree = plan.fetch /\ swap'.then = "setup"
      BY <3>1 DEF Replace
    <3> QED
      BY <2>1, <2>3, <3>1, <3>2, ThingsAre DEF SwapInv, BinInstalled, OfBin, Where
  <2> QED
    BY <2>2, <2>3
<1> QED
  BY <1>1, <1>2, <1>3, <1>4, <1>5, <1>6, <1>7, <1>8, NextIs

(* What is put where there was nothing. *)
LEMMA KitChanges ==
    ASSUME TypeOK, Next
    PROVE  \/ kit' = kit
           \/ \E k \in DOMAIN Pins : /\ OtherPublishes /\ ~Kept(k)
                /\ kit' = [kit EXCEPT ![k] = [i \in DOMAIN Order |-> Pins[k][Order[i]][1]]]
           \/ OtherPublishes /\ kit' = [kit EXCEPT !["bin"] = <<"sha">>]
           \/ BinaryPut /\ Put("bin", <<"sha">>)
           \/ AddonsDone /\ Put(plan.set, [i \in DOMAIN Order |-> dir[Order[i]].tree])
<1>a. plan.set \in DOMAIN Pins /\ "bin" \notin DOMAIN Pins
  BY PlanIs, InstallConstants
<1>1. CASE OtherPublishes
  BY <1>1, <1>a DEF OtherPublishes
<1>2. CASE BinaryPut
  BY <1>2 DEF BinaryPut
<1>3. CASE AddonsDone
  BY <1>3 DEF AddonsDone
<1>4. CASE Boot \/ Die \/ SwapAside \/ SwapPlace \/ Binary
  BY <1>4 DEF Boot, Die, SwapAside, SwapPlace, Binary
<1>5. CASE OnFile
  BY <1>5, OnFileIs
<1>6. CASE AddonSet \/ Unkit \/ Addon \/ Pip \/ Probe \/ AddonMark
  BY <1>6 DEF AddonSet, Unkit, Addon, Pip, Probe, AddonMark, setVars
<1>7. CASE OnApp
  BY <1>7 DEF OnApp, App, Setup, SetupEnd, Stamp, AppMark
<1> QED
  BY <1>1, <1>2, <1>3, <1>4, <1>5, <1>6, <1>7, NextIs DEF OnKit, OnSet

LEMMA TreesAre ==
    ASSUME TypeOK, NEW k \in DOMAIN Pins
    PROVE  /\ [i \in DOMAIN Order |-> Pins[k][Order[i]][1]] \in Seq(Trees)
           /\ [i \in DOMAIN Order |-> dir[Order[i]].tree] \in Seq(Trees)
           /\ Len([i \in DOMAIN Order |-> Pins[k][Order[i]][1]]) = Len(Order)
           /\ Len([i \in DOMAIN Order |-> dir[Order[i]].tree]) = Len(Order)
           /\ <<"sha">> \in Seq(Trees) /\ <<"sha">> # None
<1>1. \A i \in 1..Len(Order) : dir[Order[i]].tree \in Trees /\ Pins[k][Order[i]][1] \in Trees
  BY ThingsAre, PinIs, TypeParts DEF TreeTypes, DirRec
<1>2. /\ [i \in DOMAIN Order |-> Pins[k][Order[i]][1]] \in [1..Len(Order) -> Trees]
      /\ [i \in DOMAIN Order |-> dir[Order[i]].tree] \in [1..Len(Order) -> Trees]
  BY <1>1, ThingsAre
<1>3. \A s \in [1..Len(Order) -> Trees] : s \in Seq(Trees) /\ Len(s) = Len(Order)
  BY ThingsAre, SeqDef, LenProperties
<1>4. <<"sha">> \in Seq(Trees) /\ <<"sha">> # None
  BY ThingsAre, OneTwo DEF None
<1> QED
  BY <1>2, <1>3, <1>4

LEMMA KitStep ==
    ASSUME TypeOK, SwapInv, KitInv, SetInv, Next
    PROVE  KitInv'
<1>a. KitTypes /\ plan.set \in DOMAIN Pins /\ "bin" \notin DOMAIN Pins
      /\ Claimed # None
  BY TypeParts, PlanIs, InstallConstants, OneTwo DEF Claimed, None
<1>b. /\ kit'["bin"] \in {None, Claimed, <<"sha">>}
      /\ \A k \in DOMAIN Pins : Kept(k)' => Len(kit'[k]) = Len(Order)
      /\ \A k \in DOMAIN Pins : Kept(k) => Kept(k)'
  <2>1. CASE kit' = kit
    BY <2>1 DEF KitInv, Kept
  <2>2. ASSUME NEW k \in DOMAIN Pins, ~Kept(k),
               kit' = [kit EXCEPT ![k] = [i \in DOMAIN Order |-> Pins[k][Order[i]][1]]]
        PROVE  <1>b!1 /\ <1>b!2 /\ <1>b!3
    BY <2>2, <1>a, TreesAre DEF KitInv, Kept, KitTypes
  <2>3. CASE OtherPublishes /\ kit' = [kit EXCEPT !["bin"] = <<"sha">>]
    BY <2>3, <1>a DEF KitInv, Kept, KitTypes
  <2>4. CASE BinaryPut /\ Put("bin", <<"sha">>)
    <3>1. /\ \A k \in DOMAIN Pins : kit'[k] = kit[k]
          /\ kit'["bin"] \in {kit["bin"], Claimed, <<"sha">>}
      BY <2>4, <1>a, TreesAre, PutIs
    <3> QED
      BY <3>1 DEF KitInv, Kept
  <2>5. CASE AddonsDone /\ Put(plan.set, [i \in DOMAIN Order |-> dir[Order[i]].tree])
    <3> DEFINE made == [i \in DOMAIN Order |-> dir[Order[i]].tree]
    <3>1. Len(made) = Len(Order) /\ plan.set # "bin"
      BY <1>a, TreesAre
    <3> HIDE DEF made
    <3>2. made \in Seq(Trees) /\ Put(plan.set, made)
      BY <2>5, <1>a, TreesAre DEF made
    <3>3. CASE kit' = kit
      BY <3>3 DEF KitInv, Kept
    <3>4. CASE kit' # kit
      <4>1. kit[plan.set] = None
        BY <3>2, <3>4 DEF Put
      <4>2. /\ \A c \in {"bin"} \cup DOMAIN Pins : c # plan.set => kit'[c] = kit[c]
            /\ kit'[plan.set] \in {None, Claimed, made}
        BY ONLY <1>a, <3>2, <4>1, PutIs
      <4> QED
        BY <1>a, <3>1, <4>1, <4>2 DEF KitInv, Kept
    <3> QED
      BY <3>3, <3>4
  <2> QED
    BY <2>1, <2>2, <2>3, <2>4, <2>5, KitChanges
<1>c. Where' = "unkit" => plan' = plan /\ Kept(plan.set)
  <2>1. CASE Boot \/ Die
    BY <2>1 DEF Boot, Die, Stage, Go, Where
  <2>2. CASE OnFile
    BY <2>2, OnFileIs DEF Where, Fetching
  <2>3. CASE OnKit
    BY <2>3, OnKitIs DEF Where, treeVars, KitInv
  <2>4. CASE Binary
    BY <2>4, BinaryIs DEF Where, OfBin
  <2>5. CASE SwapAside
    BY <2>5, AsideIs DEF SwapAside, Where, KitInv
  <2>6. CASE SwapPlace
    BY <2>6, PlaceIs DEF SwapPlace, Where, KitInv
  <2>7. CASE OnSet
    <3>1. CASE AddonSet
      BY <3>1 DEF AddonSet, Go, Fail, Where
    <3>2. CASE Unkit
      BY <3>2 DEF Unkit, Where, KitInv
    <3>3. CASE ~AddonSet /\ ~Unkit
      <4>1. pc' # "unkit"
        BY <2>7, <3>3, PassOverIs
        DEF OnSet, Addon, Replace, Pip, Probe, AddonMark, AddonsDone, Go, NextItem
      <4> QED
        BY <2>7, <3>3, <4>1, OnSetIs DEF Where, InSet
    <3> QED
      BY <3>1, <3>2, <3>3
  <2>8. CASE OnApp
    BY <2>8, OnAppIs DEF Where
  <2> QED
    BY <2>1, <2>2, <2>3, <2>4, <2>5, <2>6, <2>7, <2>8, NextIs
<1> QED
  BY <1>a, <1>b, <1>c DEF KitInv, Kept

(***************************************************************************)
(* The addons.                                                             *)
(***************************************************************************)

LEMMA ThroughIs ==
    ASSUME TypeOK
    PROVE  /\ Through \subseteq Addons
           /\ at = 1 => Through = {}
           /\ at = Len(Order) + 1 => Through = Addons \ Optional
           /\ at' = at => Through' = Through
           /\ at <= Len(Order) /\ at' = at + 1 => Through' = Through \cup ({Item} \ Optional)
<1>1. at \in 1..(Len(Order) + 1) /\ Len(Order) \in Nat
  BY TypeParts, ThingsAre DEF SetTypes
<1>2. \A i \in 1..(at - 1) : i \in 1..Len(Order)
  BY <1>1
<1>3. Through \subseteq Addons
  BY <1>2, ThingsAre DEF Through
<1>4. at = 1 => 1..(at - 1) = {}
  BY <1>1
<1>5. ASSUME at = Len(Order) + 1 PROVE Through = Addons \ Optional
  <2>1. 1..(at - 1) = DOMAIN Order
    BY <1>1, <1>5, ThingsAre
  <2> QED
    BY <2>1 DEF Through, Addons, Range
<1>6. ASSUME at' = at + 1 PROVE 1..(at' - 1) = 1..(at - 1) \cup {at}
  BY <1>1, <1>6
<1>7. ASSUME at' = at + 1 PROVE Through' = Through \cup ({Item} \ Optional)
  BY <1>6, <1>7 DEF Through, Item
<1> QED
  BY <1>3, <1>4, <1>5, <1>7 DEF Through

LEMMA SetStep ==
    ASSUME TypeOK, SwapInv, KitInv, SetInv, Next
    PROVE  SetInv'
<1>a. TreeTypes /\ Through \subseteq Addons /\ Addons \subseteq Things /\ "app" \notin Addons
      /\ "bin" \notin Addons
  BY TypeParts, ThroughIs, ThingsAre
<1>b. Len(Order) \in Nat /\ at \in Nat
  BY ThingsAre, TypeParts DEF SetTypes
<1>z. ASSUME at' = 1, Where' \notin InSet \cup InApp PROVE SetInv'
  <2>1. 1..(at' - 1) = {}
    BY <1>z
  <2> QED
    BY <1>z, <2>1 DEF SetInv, Through, Where, InSet, InApp
<1>y. ASSUME at = 1, at' = at, Where' \notin InSet \cup InApp PROVE SetInv'
  BY <1>y, <1>z
(* The addons the set is through with are as they were. *)
<1>s. ASSUME plan' = plan, at' = at,
             \A x \in Through : dir'[x].tree = dir[x].tree /\ mark'[x] = mark[x]
      PROVE  \A x \in Through' : Skips(x)'
  <2>1. Through' = Through
    BY <1>s, ThroughIs
  <2>2. \A x \in Through : x # "app" /\ Skips(x)
    BY <1>a DEF SetInv
  <2> QED
    BY <1>s, <2>1, <2>2 DEF Skips, AtPin, Want, Pin
<1>1. CASE Boot
  BY <1>1, <1>y DEF Boot, Go, SetInv, Where, setVars, InSet, InApp
<1>2. CASE Die
  BY <1>2, <1>z DEF Die, Stage, Go, Where, InSet, InApp
<1>3. CASE OnFile
  BY <1>3, <1>y, OnFileIs DEF SetInv, Where, setVars, InSet, InApp, Fetching
<1>4. CASE OnKit
  BY <1>4, <1>y, OnKitIs DEF SetInv, Where, setVars, InSet, InApp
<1>5. CASE Binary
  BY <1>5, <1>y, BinaryIs DEF SetInv, Where, setVars, InSet, InApp, OfBin
<1>6. CASE SwapAside
  <2>1. pc = "aside" /\ pc' = "place" /\ UNCHANGED <<plan, at, swap, mark>> /\ Swapping
    BY <1>6 DEF SwapAside, setVars, Go, Swapping
  <2>2. swap.of \notin Through
    <3>1. CASE swap.then \in OfBin \cup {"unkit"}
      <4>1. at = 1
        BY <2>1, <3>1 DEF SetInv, Where, OfBin, InSet, InApp
      <4> QED
        BY <4>1, ThroughIs
    <3>2. CASE swap.then = "pip"
      BY <2>1, <3>2 DEF SetInv, Where, SwapInv
    <3>3. CASE swap.then = "setup"
      BY <2>1, <3>3, <1>a DEF SwapInv
    <3> QED
      BY <2>1, <3>1, <3>2, <3>3, SwapOf DEF OfBin
  <2>3. \A x \in Through : dir'[x] = dir[x]
    BY <1>6, <2>2, <1>a, AsideIs
  <2>4. \A x \in Through' : Skips(x)'
    BY <2>1, <2>3, <1>s
  <2>5. Where' = Where /\ Item' = Item /\ Through' = Through
    BY <2>1, ThroughIs DEF Where, Item
  <2> QED
    BY <2>1, <2>4, <2>5 DEF SetInv
<1>7. CASE SwapPlace
  <2>1. pc = "place" /\ pc' = swap.then /\ UNCHANGED <<plan, at, mark, touched, lost>> /\ Swapping
        /\ pc' \in {"model", "bin.put", "unkit", "pip", "setup"}
    BY <1>7, PlaceIs DEF SwapPlace, setVars, Swapping
  <2>2. swap.of \notin Through
    <3>1. CASE swap.then \in OfBin \cup {"unkit"}
      <4>1. at = 1
        BY <2>1, <3>1 DEF SetInv, Where, OfBin, InSet, InApp
      <4> QED
        BY <4>1, ThroughIs
    <3>2. CASE swap.then = "pip"
      BY <2>1, <3>2 DEF SetInv, Where, SwapInv
    <3>3. CASE swap.then = "setup"
      BY <2>1, <3>3, <1>a DEF SwapInv
    <3> QED
      BY <2>1, <3>1, <3>2, <3>3, SwapOf DEF OfBin
  <2>3. \A x \in Through : dir'[x] = dir[x]
    BY <1>7, <2>2, <1>a, PlaceIs
  <2>4. \A x \in Through' : Skips(x)'
    BY <2>1, <2>3, <1>s
  <2>5. Where' = Where /\ Item' = Item /\ Through' = Through
    BY <2>1, ThroughIs DEF Where, Item
  <2>6. ASSUME pc' = "pip"
        PROVE  AtPin(Item)' /\ (mark'[Item'] = Want(Item)' => Doubt(Item)')
    <3>1. at <= Len(Order) /\ swap.of = Item /\ swap.tree = Pin(Item)[1]
          /\ (mark[Item] # None => Doubt(Item))
      BY <1>7, <2>1, <2>6, PlaceIs, ItemIs DEF SwapInv
    <3>2. dir'[Item].tree = Pin(Item)[1] /\ Item \in Addons
      BY <1>7, <3>1, PlaceIs, ItemIs
    <3>3. Want(Item)' = Want(Item) /\ Want(Item) # None /\ Pin(Item)' = Pin(Item)
      BY <2>1, <2>5, <3>2, WantIs DEF Want, Pin
    <3> QED
      BY <2>1, <2>5, <3>1, <3>2, <3>3 DEF AtPin, Pin, Doubt
  <2> QED
    BY <2>1, <2>4, <2>5, <2>6 DEF SetInv
<1>8. CASE AddonSet
  <2>1. at = 1 /\ at' = at /\ pc' \in {"failed", "addon", "unkit"}
    BY <1>8 DEF AddonSet, SetInv, Where, InSet, InApp, Fail, Go
  <2>2. 1..(at' - 1) = {}
    BY <2>1
  <2> QED
    BY <2>1, <2>2 DEF SetInv, Through, Where, InSet, InApp
<1>9. CASE Unkit
  <2>1. at = 1 /\ at' = at
    BY <1>9 DEF Unkit, SetInv, Where, InSet, InApp
  <2>2. pc' = "addon" \/ (pc' = "aside" /\ swap'.then = "unkit")
    BY <1>9 DEF Unkit, Go, Replace
  <2>3. 1..(at' - 1) = {}
    BY <2>1
  <2> QED
    BY <2>1, <2>2, <2>3 DEF SetInv, Through, Where, InSet, InApp
<1>10. CASE Addon
  <2>1. Item \in Addons /\ at <= Len(Order) /\ pc = "addon" /\ UNCHANGED <<plan, dir, mark, touched>>
    BY <1>10, ItemIs DEF Addon
  <2>2. CASE NextItem /\ (Skips(Item) \/ Item \in Optional)
    <3>1. pc' = "addon" /\ at' = at + 1
      BY <2>2 DEF NextItem, Go
    <3>2. \A x \in Through' : Skips(x)
      BY <2>1, <2>2, <3>1, ThroughIs DEF SetInv
    <3>3. \A x \in Through' : Skips(x)'
      BY <2>1, <3>2 DEF Skips, AtPin, Want, Pin
    <3> QED
      BY <3>1, <3>3 DEF SetInv, Where, InSet, InApp
  <2>3. CASE Fail /\ UNCHANGED at
    BY <2>1, <2>3, <1>s DEF SetInv, Where, InSet, InApp, Fail
  <2>4. CASE ~Skips(Item) /\ Replace(Item, Pin(Item)[1], "pip") /\ UNCHANGED at
    <3>1. pc' = "aside" /\ swap'.then = "pip" /\ Item \notin Through
      BY <2>4 DEF Replace, Go, SetInv
    <3>2. Through' = Through /\ Item' = Item
      BY <2>4, ThroughIs DEF Item
    <3>3. \A x \in Through' : Skips(x)'
      BY <2>1, <2>4, <1>s
    <3> QED
      BY <2>1, <2>4, <3>1, <3>2, <3>3 DEF SetInv, Where, InSet, InApp
  <2>5. CASE ~Skips(Item) /\ AtPin(Item) /\ Go("pip") /\ UNCHANGED at
    <3>1. pc' = "pip" /\ Item \notin Through /\ mark[Item] # Want(Item)
      BY <2>5 DEF Go, SetInv, Skips
    <3>2. Through' = Through /\ Item' = Item
      BY <2>5, ThroughIs DEF Item
    <3>3. \A x \in Through' : Skips(x)'
      BY <2>1, <2>5, <1>s
    <3>4. AtPin(Item)' /\ mark'[Item'] # Want(Item)'
      BY <2>1, <2>5, <3>1, <3>2 DEF AtPin, Pin, Want
    <3> QED
      BY <2>1, <2>5, <3>1, <3>2, <3>3, <3>4 DEF SetInv, Where, InSet, InApp
  <2> QED
    BY <1>10, <2>2, <2>3, <2>4, <2>5 DEF Addon, AddonFails
<1>11. CASE Pip
  <2>1. Item \in Addons /\ at <= Len(Order) /\ Item \notin Through /\ pc = "pip" /\ AtPin(Item)
    BY <1>11, ItemIs DEF Pip, SetInv, Where
  <2>2. Begin(Item) /\ UNCHANGED <<plan, mark, at>> /\ pc' = "probe"
    BY <1>11 DEF Pip, setVars, Go
  <2>3. Through' = Through /\ Item' = Item
    BY <2>2, ThroughIs DEF Item
  <2>4. \A x \in Through' : Skips(x)'
    BY <2>1, <2>2, <1>a, <1>s, BeginIs
  <2>5. AtPin(Item)'
    BY <2>1, <2>2, <2>3, BeginIs DEF AtPin, Pin
  <2>6. mark'[Item'] # None => Doubt(Item)'
    <3>1. lost' = lost
      BY <1>11 DEF Pip
    <3> QED
      BY <2>1, <2>2, <2>3, <3>1, BeginIs DEF SetInv, Doubt
  <2> QED
    BY <2>1, <2>2, <2>3, <2>4, <2>5, <2>6 DEF SetInv, Where, InSet, InApp
<1>12. CASE Probe
  <2>1. Item \in Addons /\ at <= Len(Order) /\ Item \notin Through /\ pc = "probe" /\ AtPin(Item)
        /\ (mark[Item] # None => Doubt(Item))
    BY <1>12, ItemIs DEF Probe, SetInv, Where
  <2>2. UNCHANGED <<plan, mark, touched, lost>>
    BY <1>12 DEF Probe
  <2>3. CASE dir' = [dir EXCEPT ![Item].ready = Want(Item)] /\ Go("marked") /\ UNCHANGED at
    <3>1. Through' = Through /\ Item' = Item /\ pc' = "marked"
      BY <2>3, ThroughIs DEF Item, Go
    <3>2. \A x \in Through' : Skips(x)'
      BY <2>1, <2>2, <2>3, <1>a, <1>s, ReadyIs, WantIs
    <3>3. Want(Item) \in Digests
      BY <2>1, WantIs
    <3>4. dir'[Item].ready = Want(Item) /\ dir'[Item].tree = dir[Item].tree
      BY <2>1, <2>3, <3>3, ReadyIs
    <3>5. Want(Item)' = Want(Item) /\ Pin(Item)' = Pin(Item)
      BY <2>2, <3>1 DEF Want, Pin
    <3>6. AtPin(Item)' /\ dir'[Item'].ready = Want(Item)'
      BY <2>1, <3>1, <3>4, <3>5 DEF AtPin
    <3> QED
      BY <2>1, <2>2, <2>3, <3>1, <3>2, <3>6 DEF SetInv, Where, InSet, InApp, Doubt
  <2>4. CASE NextItem /\ Item \in Optional /\ UNCHANGED dir
    <3>1. pc' = "addon" /\ at' = at + 1 /\ Through' = Through
      BY <2>1, <2>4, ThroughIs DEF NextItem, Go
    <3>2. \A x \in Through' : Skips(x)'
      BY <2>2, <2>4, <3>1 DEF SetInv, Skips, AtPin, Want, Pin
    <3> QED
      BY <3>1, <3>2 DEF SetInv, Where, InSet, InApp
  <2>5. CASE Fail /\ UNCHANGED <<at, dir>>
    BY <2>2, <2>5, <1>s DEF SetInv, Where, InSet, InApp, Fail
  <2> QED
    BY <1>12, <2>3, <2>4, <2>5 DEF Probe, AddonFails
<1>13. CASE AddonMark
  <2>1. Item \in Addons /\ at <= Len(Order) /\ Item \notin Through /\ AtPin(Item)
    BY <1>13, ItemIs DEF AddonMark, SetInv, Where
  <2>2. UNCHANGED <<plan, dir>> /\ SetMark(Item) /\ pc' = "addon" /\ at' = at + 1
    BY <1>13 DEF AddonMark, NextItem, Go
  <2>3. mark'[Item] = Want(Item) /\ \A x \in Through : mark'[x] = mark[x]
    BY <2>1, <2>2, <1>a, MarkIs, ZenonT(30)
  <2>4. \A x \in Through \cup {Item} : mark'[x] = Want(x) /\ AtPin(x)
    BY <2>1, <2>3 DEF SetInv, Skips
  <2>5. \A x \in Through' : Skips(x)'
    BY <2>1, <2>2, <2>4, ThroughIs DEF Skips, AtPin, Want, Pin
  <2> QED
    BY <2>2, <2>5 DEF SetInv, Where, InSet, InApp
<1>14. CASE AddonsDone
  <2>1. pc' = "app" /\ UNCHANGED <<plan, dir, mark, at>> /\ at = Len(Order) + 1
    BY <1>14, <1>b, TypeParts, ThingsAre DEF AddonsDone, Go, treeVars, setVars, SetTypes
  <2> QED
    BY <2>1, <1>s DEF SetInv, Where, InSet, InApp
<1>15. CASE OnApp
  <2>1. UNCHANGED <<plan, at>> /\ Where \in InApp /\ Where' \in InApp \cup {"failed"}
        /\ Where' \notin InSet /\ pc' \notin InSet
    BY <1>15, OnAppIs DEF Where, InApp, InSet, setVars
  <2>2. \A x \in Through' : Skips(x)'
    BY <1>15, <2>1, <1>a, <1>s, OnAppIs
  <2> QED
    BY <2>1, <2>2 DEF SetInv, InSet
<1> QED
  BY <1>1, <1>2, <1>3, <1>4, <1>5, <1>6, <1>7, <1>8, <1>9, <1>10, <1>11, <1>12, <1>13, <1>14,
     <1>15, NextIs DEF OnSet

(***************************************************************************)
(* What the markers say.                                                   *)
(***************************************************************************)

LEMMA MarkStep ==
    ASSUME TypeOK, SwapInv, KitInv, SetInv, MarkInv, Next
    PROVE  MarkInv'
<1>a. TreeTypes /\ Addons \subseteq Things /\ "app" \notin Addons /\ "bin" \notin Addons
  BY TypeParts, ThingsAre
(* All but one addon as they were. *)
<1>s. ASSUME NEW y, \A x \in Addons \ {y} : /\ dir'[x] = dir[x] /\ mark'[x] = mark[x]
                                            /\ touched'[x] = touched[x] /\ lost'[x] = lost[x],
             y \in Addons /\ mark'[y] # None /\ ~touched'[y] /\ ~lost'[y]
                => dir'[y].ready = mark'[y] /\ dir'[y].tree = mark'[y][1]
      PROVE  MarkInv'
  BY <1>s DEF MarkInv, Doubt
<1>1. CASE Boot
  BY <1>1 DEF Boot, treeVars, MarkInv, Doubt
<1>2. CASE Die
  <2>1. PICK wiped \in BOOLEAN :
          /\ dir' = [x \in Things |-> IF wiped /\ x # "bin" THEN Absent ELSE dir[x]]
          /\ lost' = [x \in Addons |-> lost[x] \/ (wiped /\ mark[x] # None)]
    BY <1>2 DEF Die
  <2>2. mark' = mark /\ touched' = touched
    BY <1>2 DEF Die
  <2>3. ASSUME NEW x \in Addons, mark'[x] # None, ~Doubt(x)'
        PROVE  ~Doubt(x) /\ dir'[x] = dir[x]
    BY <1>a, <2>1, <2>2, <2>3 DEF Doubt
  <2> QED
    BY <2>2, <2>3 DEF MarkInv
<1>3. CASE OnFile
  BY <1>3, <1>a, OnFileIs DEF MarkInv, Doubt
<1>4. CASE OnKit
  BY <1>4, OnKitIs DEF MarkInv, treeVars, Doubt
<1>5. CASE Binary
  BY <1>5, BinaryIs DEF MarkInv, Doubt
<1>6. CASE SwapAside
  <2>1. swap'.of = swap.of /\ mark' = mark /\ pc' = "place"
    BY <1>6, AsideIs
  <2>2. swap.of \in Addons /\ mark'[swap.of] # None => touched'[swap.of] \/ lost'[swap.of]
    BY <2>1, SwapStep DEF SwapInv, Doubt
  <2> QED
    BY <1>6, <1>a, <1>s, <2>2, AsideIs
<1>7. CASE SwapPlace
  <2>1. swap.of \in Addons /\ mark'[swap.of] # None => touched'[swap.of] \/ lost'[swap.of]
    BY <1>7, PlaceIs DEF SwapInv, Doubt
  <2> QED
    BY <1>7, <1>a, <1>s, <2>1, PlaceIs
<1>8. CASE AddonSet \/ Unkit \/ Addon \/ AddonsDone
  BY <1>8 DEF AddonSet, Unkit, Addon, AddonsDone, treeVars, MarkInv, Doubt
<1>9. CASE Pip
  <2>1. Item \in Addons /\ Begin(Item) /\ mark' = mark /\ lost' = lost
    BY <1>9, ItemIs DEF Pip, SetInv, Where
  <2>2. mark[Item] # None => touched'[Item] \/ lost'[Item]
    BY <1>9, <2>1, BeginIs DEF SetInv, Pip, Doubt
  <2> QED
    BY <1>a, <1>s, <2>1, <2>2, BeginIs
<1>10. CASE Probe
  <2>1. Item \in Addons /\ UNCHANGED <<mark, touched, lost>> /\ (mark[Item] # None => Doubt(Item))
    BY <1>10, ItemIs DEF Probe, SetInv, Where
  <2>2. dir' = dir \/ dir' = [dir EXCEPT ![Item].ready = Want(Item)]
    BY <1>10 DEF Probe
  <2>3. \A x \in Addons \ {Item} : dir'[x] = dir[x]
    BY <1>a, <2>1, <2>2, ReadyIs, WantIs
  <2> QED
    BY <1>s, <2>1, <2>3 DEF Doubt
<1>11. CASE AddonMark
  <2>1. Item \in Addons /\ dir' = dir /\ SetMark(Item) /\ dir[Item].ready = Want(Item)
        /\ AtPin(Item) /\ Item # "app"
    BY <1>11, ItemIs DEF AddonMark, SetInv, Where
  <2>2. dir'[Item].ready = mark'[Item] /\ dir'[Item].tree = mark'[Item][1]
    BY <2>1, MarkIs DEF AtPin, Want
  <2>3. \A x \in Addons \ {Item} :
          /\ dir'[x] = dir[x] /\ mark'[x] = mark[x]
          /\ touched'[x] = touched[x] /\ lost'[x] = lost[x]
    BY <1>a, <2>1, MarkIs
  <2> QED
    BY <1>s, <2>2, <2>3
<1>12. CASE OnApp
  BY <1>12, <1>a, OnAppIs DEF MarkInv, Doubt
<1> QED
  BY <1>1, <1>2, <1>3, <1>4, <1>5, <1>6, <1>7, <1>8, <1>9, <1>10, <1>11, <1>12, NextIs DEF OnSet

LEMMA WantApp ==
    ASSUME TypeOK
    PROVE  /\ Want("app")[1] = plan.fetch /\ Want("app") # None /\ Want("app") \in Digests
           /\ plan' = plan => Want("app")' = Want("app")
  BY WantIs DEF Want

AppPcs == {"setup", "setup.end", "stamp", "mark", "up"}

LEMMA AppStep ==
    ASSUME TypeOK, SwapInv, KitInv, SetInv, AppInv, Next
    PROVE  AppInv'
<1>a. TreeTypes /\ "app" \in Things \ Addons /\ "app" # "bin" /\ plan.fetch \in Trees
  BY TypeParts, ThingsAre, PlanIs DEF TypeOK
(* The app left alone, or gone, and no step of its stage next. *)
<1>s. ASSUME mark'["app"] = mark["app"], touched["app"] => touched'["app"],
             dir'["app"] = dir["app"] \/ dir'["app"].stamp = None, pc' \notin AppPcs
      PROVE  AppInv'
  BY <1>s DEF AppInv, AppPcs
<1>1. CASE Boot
  BY <1>1, <1>s DEF Boot, treeVars, Go, AppPcs
<1>2. CASE Die
  <2>1. dir'["app"] \in {dir["app"], Absent}
    BY <1>2, <1>a DEF Die
  <2> QED
    BY <1>2, <2>1, <1>s, AbsentIs DEF Die, Stage, Go, AppPcs
<1>3. CASE OnFile
  BY <1>3, <1>a, <1>s, OnFileIs DEF Fetching, AppPcs
<1>4. CASE OnKit
  BY <1>4, <1>s, OnKitIs DEF treeVars, AppPcs
<1>5. CASE Binary
  BY <1>5, <1>s, BinaryIs DEF AppPcs
<1>6. CASE SwapAside
  <2>1. dir'["app"] = dir["app"] \/ dir'["app"].stamp = None
    BY <1>6, <1>a, AsideIs, AbsentIs
  <2> QED
    BY <1>6, <1>a, <2>1, <1>s, AsideIs DEF AppPcs
<1>7. CASE SwapPlace
  <2>1. pc = "place" /\ pc' = swap.then /\ Swapping /\ plan' = plan
    BY <1>7, PlaceIs DEF SwapPlace, Swapping
  <2>2. CASE swap.then # "setup"
    <3>1. swap.of # "app" /\ pc' \notin AppPcs
      BY <2>1, <2>2, <1>a, SwapOf DEF OfBin, AppPcs
    <3> QED
      BY <1>7, <3>1, <1>a, <1>s, PlaceIs
  <2>3. CASE swap.then = "setup"
    <3>1. swap.of = "app" /\ swap.tree = plan.fetch /\ plan.fetch # "none"
      BY <2>1, <2>3 DEF SwapInv
    <3>2. dir'["app"].stamp = None /\ dir'["app"].tree = plan.fetch /\ mark' = mark
          /\ touched' = touched
      BY <1>7, <3>1, PlaceIs
    <3> QED
      BY <2>1, <2>3, <3>1, <3>2, WantApp DEF AppInv, SetUp, NoApp
  <2> QED
    BY <2>2, <2>3
<1>8. CASE OnSet
  BY <1>8, <1>a, <1>s, OnSetIs DEF AppPcs, InSet
<1>9. CASE App
  <2>1. pc = "app" /\ UNCHANGED <<plan, dir, mark, touched>>
    BY <1>9 DEF App
  <2>2. CASE pc' \in {"aside", "failed"}
    BY <2>1, <2>2, <1>s DEF AppPcs
  <2>3. CASE pc' = "up" /\ (NoApp \/ SetUp)
    BY <2>1, <2>3, WantApp DEF AppInv, NoApp, SetUp
  <2>4. CASE pc' = "setup" /\ ~NoApp /\ ~SetUp /\ plan.fetch = "none"
    BY <2>1, <2>4, WantApp DEF AppInv, NoApp, SetUp
  <2> QED
    BY <1>9, <2>2, <2>3, <2>4 DEF App, Go, Fail, Replace
<1>10. CASE Setup
  <2>1. pc = "setup" /\ UNCHANGED <<plan, mark>> /\ ~SetUp /\ ~NoApp
        /\ Want("app")' = Want("app")
    BY <1>10, WantApp DEF Setup, AppInv
  <2>2. CASE plan.setup = "none"
    <3>1. /\ pc' = "stamp" /\ touched' = touched
          /\ dir'["app"].tree = dir["app"].tree /\ dir'["app"].ready = Want("app")
          /\ dir'["app"].stamp = dir["app"].stamp
      BY <1>10, <2>2, WantApp, ReadyIs DEF Setup, Go
    <3>2. plan.fetch # "none"
      BY <2>1, <2>2 DEF NoApp
    <3> QED
      BY <2>1, <3>1, <3>2 DEF AppInv
  <2>3. CASE plan.setup # "none"
    <3>1. /\ pc' = "setup.end"
          /\ dir'["app"].tree = dir["app"].tree /\ dir'["app"].stamp = dir["app"].stamp
          /\ touched'["app"] = (touched["app"] \/ (mark["app"] # None /\ mark["app"] # Want("app")))
      BY <1>10, <2>3, BeginIs DEF Setup, Go
    <3> QED
      BY <2>1, <3>1 DEF AppInv, SetUp, NoApp
  <2> QED
    BY <2>2, <2>3
<1>11. CASE SetupEnd
  <2>1. pc = "setup.end" /\ UNCHANGED <<plan, mark, touched>> /\ Want("app")' = Want("app")
    BY <1>11, WantApp DEF SetupEnd
  <2>2. CASE Fail /\ UNCHANGED dir
    BY <2>1, <2>2, <1>s DEF Fail, AppPcs
  <2>3. CASE dir' = [dir EXCEPT !["app"].ready = Want("app")] /\ Go("stamp")
    <3>1. /\ dir'["app"].tree = dir["app"].tree /\ dir'["app"].ready = Want("app")
          /\ dir'["app"].stamp = dir["app"].stamp /\ pc' = "stamp"
      BY <2>3, WantApp, ReadyIs DEF Go
    <3> QED
      BY <2>1, <3>1 DEF AppInv
  <2> QED
    BY <1>11, <2>2, <2>3 DEF SetupEnd
<1>12. CASE Stamp
  <2>1. /\ pc = "stamp" /\ pc' = "mark" /\ UNCHANGED <<plan, mark, touched>>
        /\ Want("app")' = Want("app") /\ Want("app")[1] = plan.fetch
    BY <1>12, WantApp DEF Stamp, Go
  <2>2. /\ dir'["app"].tree = dir["app"].tree /\ dir'["app"].ready = dir["app"].ready
        /\ dir'["app"].stamp = Want("app")
    BY <1>12, WantApp, StampIs DEF Stamp
  <2> QED
    BY <2>1, <2>2 DEF AppInv
<1>13. CASE AppMark
  <2>1. /\ pc = "mark" /\ pc' = "up" /\ UNCHANGED <<plan, dir>> /\ mark'["app"] = Want("app")
        /\ Want("app")' = Want("app")
    BY <1>13, WantApp, MarkIs DEF AppMark, Go
  <2> QED
    BY <2>1 DEF AppInv, SetUp
<1> QED
  BY <1>1, <1>2, <1>3, <1>4, <1>5, <1>6, <1>7, <1>8, <1>9, <1>10, <1>11, <1>12, <1>13, NextIs
  DEF OnApp

(***************************************************************************)
(* The theorems.                                                           *)
(***************************************************************************)

IInv ==
    TypeOK /\ PartInv /\ FileInv /\ SwapInv /\ KitInv /\ SetInv /\ MarkInv /\ AppInv

LEMMA IInvInit == Init => IInv
<1> SUFFICES ASSUME Init PROVE IInv
  OBVIOUS
<1>1. TypeOK /\ plan.ver \in DOMAIN Blocks
  BY TypeInit, PlanIs
<1>2. "app" \in Things /\ Addons \subseteq Things /\ Len(Order) \in Nat
      /\ "bin" \notin DOMAIN Pins
  BY ThingsAre, InstallConstants
<1>3. PartInv /\ FileInv /\ SwapInv
  BY DEF Init, PartInv, FileInv, SwapInv, Swapping, Where, PastModel, InSet, InApp
<1>4. KitInv
  BY <1>2 DEF Init, KitInv, Kept, Where
<1>5. SetInv
  BY <1>1, ThroughIs DEF Init, SetInv, Where, InSet, InApp
<1>6. MarkInv /\ AppInv
  BY <1>2, AbsentIs DEF Init, MarkInv, AppInv
<1> QED
  BY <1>1, <1>3, <1>4, <1>5, <1>6 DEF IInv

LEMMA IInvStep == IInv /\ [Next]_vars => IInv'
<1> SUFFICES ASSUME IInv, [Next]_vars PROVE IInv'
  OBVIOUS
<1>1. CASE Next
  BY <1>1, TypeStep, PartStep, FileStep, SwapStep, KitStep, SetStep, MarkStep, AppStep DEF IInv
<1>2. CASE UNCHANGED vars
  <2>1. UNCHANGED <<plan, pc, boots, late, file, part, verified, load, served, turns, dir,
                    mark, swap, touched, lost, at, todo, fromKit, how, built, kit>>
    BY <1>2 DEF vars, fileVars, treeVars, setVars
  <2>2. TypeOK'
    BY <2>1 DEF IInv, TypeOK
  <2>3. PartInv' /\ FileInv' /\ KitInv' /\ MarkInv'
    BY <2>1 DEF IInv, PartInv, FileInv, KitInv, MarkInv, Doubt, EndsWith, Complete, Whole, Where, Kept
  <2>4. SwapInv' /\ AppInv'
    BY <2>1 DEF IInv, SwapInv, AppInv, Doubt, AtPin, Where, Swapping, Item, Pin, BinInstalled,
       SetUp, NoApp, Want
  <2>5. SetInv'
    BY <2>1 DEF IInv, SetInv, Doubt, Where, Item, Through, Skips, AtPin, Pin, Want
  <2> QED
    BY <2>2, <2>3, <2>4, <2>5 DEF IInv
<1> QED
  BY <1>1, <1>2

LEMMA IInvAlways == Spec => []IInv
<1>1. Init => IInv
  BY IInvInit
<1>2. IInv /\ [Next]_vars => IInv'
  BY IInvStep
<1> QED
  BY <1>1, <1>2, PTL DEF Spec

(* Every variable keeps its type, through any boots. *)
THEOREM InstallTypes == Spec => []TypeOK
<1>1. IInv => TypeOK
  BY DEF IInv
<1> QED
  BY <1>1, IInvAlways, PTL

(* A boot that is through has on its disks what it was asked for: what the  *)
(* stages skip by a marker or a recorded sha is there, unless it was        *)
(* changed for another plan since, or is an addon whose disk was lost and   *)
(* whose marker was not.                                                    *)
THEOREM UpIsAsAsked == Spec => []AsAsked
<1>1. ASSUME IInv, pc = "up" PROVE AsAsked
  <2>a. /\ TypeOK /\ FileInv /\ SwapInv /\ SetInv /\ MarkInv /\ AppInv /\ Where = "up"
        /\ ~Swapping /\ "none" \notin DOMAIN Blocks
    BY <1>1, BlocksAre DEF IInv, Where, Swapping
  <2>1. BinInstalled
    BY <1>1, <2>a DEF SwapInv
  <2>2. plan.summed /\ ~touched["file"] => file = Whole(plan.ver)
    BY <2>a, PlanIs DEF FileInv, PastModel, InApp
  <2>3. ASSUME NEW x \in Addons \ Optional
        PROVE  AtPin(x) /\ (touched[x] \/ lost[x] \/ dir[x].ready = Want(x))
    <3>1. at = Len(Order) + 1
      BY <2>a DEF SetInv, InApp
    <3>2. Skips(x)
      BY <2>a, <3>1, ThroughIs DEF SetInv
    <3>3. Want(x) # None /\ Pin(x)[1] # "none"
      BY <2>a, WantIs, PlanIs, PinIs DEF Pin
    <3> QED
      BY <2>a, <3>2, <3>3 DEF MarkInv, Skips, Doubt
  <2>4. ~NoApp => SetUp
    BY <1>1, <2>a DEF AppInv
  <2>5. ASSUME SetUp
        PROVE  /\ touched["app"] \/ dir["app"].ready = Want("app")
               /\ plan.fetch = "none" \/ dir["app"].tree = plan.fetch
    BY <2>a, <2>5, WantApp DEF SetUp, AppInv
  <2> QED
    BY <2>1, <2>2, <2>3, <2>4, <2>5 DEF AsAsked, NoApp
<1>2. IInv => AsAsked
  BY <1>1 DEF AsAsked
<1> QED
  BY <1>2, IInvAlways, PTL

(* What takes the file's name is the manifest's file when that gives a sha; *)
(* without one it is never a part of it, so long as the manifest or the     *)
(* answer says how long it is.                                              *)
THEOREM NoPartTakesTheName == Spec => FileIsWhole
<1>1. ASSUME IInv, [Next]_vars, file' \notin {file, Whole(plan.ver)}
      PROVE  /\ ~plan.summed
             /\ PartOf(file', plan.ver) => ~plan.sized /\ ~load.known
  <2>a. TypeOK /\ PartInv /\ SwapInv /\ KitInv /\ SetInv /\ part \in Seq(DOMAIN Blocks)
        /\ plan.ver \in DOMAIN Blocks
    BY <1>1, PlanIs DEF IInv, TypeOK
  <2>1. Next
    BY <1>1 DEF vars, fileVars
  <2>2. Finish
    <3>1. OnFile
      BY <1>1, <2>a, <2>1, OffFileIs
    <3>2. ~Downloads
      BY <1>1, <2>a, DownloadsAre
    <3> QED
      BY <1>1, <3>1, <3>2 DEF OnFile, Model, Landed
  <2>3. pc = "finish" /\ Verified /\ file' = part
    BY <1>1, <2>2 DEF Finish
  <2>4. ~plan.summed
    BY <1>1, <2>3 DEF Verified
  <2>5. ASSUME PartOf(part, plan.ver), plan.sized \/ load.known PROVE FALSE
    <3>1. Len(part) = Blocks[plan.ver]
      <4>1. CASE plan.sized \/ Complete
        BY <2>3, <4>1 DEF Complete, Verified, SizeFits
      <4>2. ASSUME NEW v \in DOMAIN Blocks, Len(part) = Blocks[v], EndsWith(v)
            PROVE  v = plan.ver
        <5>1. Len(part) \in DOMAIN part
          BY <2>a, <4>2, LenProperties DEF EndsWith
        <5> QED
          BY <2>5, <4>2, <5>1 DEF EndsWith, Range, PartOf
      <4> QED
        BY <2>a, <2>3, <2>5, <4>1, <4>2 DEF PartInv
    <3>2. DOMAIN part = 1..Blocks[plan.ver] /\ part = [i \in DOMAIN part |-> part[i]]
      BY <2>a, <3>1, LenProperties
    <3>3. \A i \in DOMAIN part : part[i] = plan.ver
      BY <2>5 DEF Range, PartOf
    <3>4. part = Whole(plan.ver)
      BY <3>2, <3>3 DEF Whole
    <3> QED
      BY <1>1, <2>3, <3>4
  <2> QED
    BY <2>3, <2>4, <2>5
<1>2. IInv /\ [Next]_vars =>
        [file' \notin {file, Whole(plan.ver)} =>
            /\ ~plan.summed
            /\ PartOf(file', plan.ver) => ~plan.sized /\ ~load.known]_vars
  BY <1>1
<1> QED
  BY <1>2, IInvAlways, PTL DEF Spec, FileIsWhole

(* Every kit there is, whichever pod put it and wherever its boots were     *)
(* killed, has the addons that may not fail at its version's commits.       *)
THEOREM KitsAreWhole == Spec => []KitIsWhole
<1>1. Init => KitIsWhole
  BY InstallConstants DEF Init, KitIsWhole, Kept
<1>2. ASSUME IInv, KitIsWhole, Next PROVE KitIsWhole'
  <2>a. KitTypes /\ TypeOK /\ SetInv /\ plan.set \in DOMAIN Pins /\ "bin" \notin DOMAIN Pins
    BY <1>2, TypeParts, PlanIs, InstallConstants DEF IInv
  <2>1. CASE kit' = kit
    BY <1>2, <2>1 DEF KitIsWhole, Kept
  <2>2. ASSUME NEW k \in DOMAIN Pins,
               kit' = [kit EXCEPT ![k] = [i \in DOMAIN Order |-> Pins[k][Order[i]][1]]]
        PROVE  KitIsWhole'
    BY <1>2, <2>2, <2>a DEF KitIsWhole, Kept, KitTypes
  <2>3. CASE kit' = [kit EXCEPT !["bin"] = <<"sha">>]
    BY <1>2, <2>3, <2>a DEF KitIsWhole, Kept, KitTypes
  <2>4. CASE BinaryPut /\ Put("bin", <<"sha">>)
    <3>1. \A k \in DOMAIN Pins : kit'[k] = kit[k]
      BY <2>4, <2>a, TreesAre, PutIs
    <3> QED
      BY <1>2, <3>1 DEF KitIsWhole, Kept
  <2>5. CASE AddonsDone /\ Put(plan.set, [i \in DOMAIN Order |-> dir[Order[i]].tree])
    <3>1. /\ \A k \in DOMAIN Pins : k # plan.set => kit'[k] = kit[k]
          /\ kit'[plan.set] \in {kit[plan.set], Claimed, [i \in DOMAIN Order |-> dir[Order[i]].tree]}
      BY <2>5, <2>a, TreesAre, PutIs
    <3>2. at = Len(Order) + 1
      BY <2>5, <2>a, TypeParts, ThingsAre DEF AddonsDone, SetTypes
    <3>3. ASSUME NEW i \in DOMAIN Order, Order[i] \notin Optional
          PROVE  dir[Order[i]].tree = Pins[plan.set][Order[i]][1]
      BY <2>a, <3>2, <3>3, ThroughIs, ThingsAre DEF SetInv, Skips, AtPin, Pin
    <3> QED
      BY <1>2, <3>1, <3>3 DEF KitIsWhole, Kept
  <2> QED
    BY <1>2, <2>1, <2>2, <2>3, <2>4, <2>5, <2>a, KitChanges
<1>3. ASSUME KitIsWhole, UNCHANGED vars PROVE KitIsWhole'
  BY <1>3 DEF vars, KitIsWhole, Kept
<1> QED
  BY <1>1, <1>2, <1>3, IInvAlways, PTL DEF Spec
=============================================================================
