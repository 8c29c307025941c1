---------------------------- MODULE RunnerProofs ----------------------------
(***************************************************************************)
(* Of a batch pod's job (Runner.tla): the theorems below hold for any      *)
(* registry of stages, any specs, disk budget and number of faults.        *)
(***************************************************************************)
EXTENDS Runner, FiniteSetTheorems, SequenceTheorems, TLAPS

(***************************************************************************)
(* The strengthening.                                                      *)
(***************************************************************************)

(* Which phase of the run is on, and what that says of the loop's state.    *)
Before == {"prepare", "load", "run"}
Running == {"chunks", "stages"}

Phase ==
    /\ pc \in Before =>
         /\ queue = <<>> /\ key = NoKey /\ ~aborted /\ results = <<>>
         /\ rep.index = 0
    /\ pc \in Before \cup Running \cup {"raised"} => rep.verdict = "none" /\ rc = 0
    /\ pc = "chunks" => Chunked /\ queue = <<>> /\ key = NoKey
    /\ key # NoKey => pc \in {"stages", "raised"} /\ Chunked
    /\ pc = "stages" /\ Chunked /\ key = NoKey => left = <<>> /\ ~aborted
    /\ pc \in {"publish", "told"} /\ rc = 0 => rep.verdict = "done"
    /\ pc # "told" => \A p \in Products : outStore[p] = "none"

(* What is still to come after the queue is through. *)
Ahead ==
    IF Chunked /\ (pc = "chunks" \/ key # NoKey)
    THEN Len(left) * Len(ChunkStages) + Len(Rest) ELSE 0

Counted ==
    /\ rep.index <= rep.total
    /\ pc \in Running =>
         /\ rep.index = Len(results)
         /\ Len(results) + Len(queue) + Ahead <= rep.total
         /\ AllFine => Len(results) + Len(queue) + Ahead = rep.total

(* A source is on the disk as it was fetched. *)
RawAsFetched == \A k \in Sources : disk[k]["raw"] # "new"

Resident == {k \in Sources : \E t \in Range(Trees) : disk[k][t] # "none"}

(* What is resident and not the chunk at hand is what a fault left there.   *)
Bounded == Fetches /\ spec.corpus = "told" /\ spec.chunkBy

ResidentCounted ==
    Bounded =>
        /\ pc \in Before => Resident = {}
        /\ Chunked /\ (pc = "chunks" \/ key # NoKey) =>
             IsFiniteSet(Resident) /\ Cardinality(Resident \ {key}) <= faults

(* The stage has come through this chunk, in one of the first n results.    *)
Through(k, s, n) ==
    \E j \in 1..n : /\ results[j].stage = s /\ results[j].chunk = k
                    /\ results[j].status # "failed" \/ Registry[s].optional

NoHoleYet ==
    Chunked =>
        /\ pc = "chunks" \/ key # NoKey =>
             /\ \A i \in DOMAIN results : PerChunk(results[i].stage)
             /\ \A s \in Range(queue) : PerChunk(s)
        /\ pc = "stages" /\ key # NoKey /\ ~aborted =>
             \A s \in Range(ChunkStages) : s \in Range(queue) \/ Through(key, s, Len(results))
        /\ pc \in Running /\ ~aborted =>
             \A k \in Range(spec.sources), s \in Range(ChunkStages) :
                 k = key \/ k \in Range(left) \/ Through(k, s, Len(results))

(***************************************************************************)
(* Facts about data.                                                       *)
(***************************************************************************)

LEMMA LeastNatural ==
    ASSUME NEW T, T \subseteq Nat, T # {}
    PROVE  \E n \in T : \A m \in T : n <= m
<1>1. IsWellFoundedOn(OpToRel(<, Nat), Nat)
  BY NatLessThanWellFounded
<1>2. PICK n \in T : \A m \in T : ~(<<m, n>> \in OpToRel(<, Nat))
  <2> HIDE DEF OpToRel
  <2> QED
    BY ONLY <1>1, WFMin, T \subseteq Nat, T # {}
<1>3. \A m \in T : ~(m < n)
  BY <1>2, Zenon DEF OpToRel
<1> QED
  BY <1>3

(* Induction up to a bound, the claim being membership in a set. *)
LEMMA UpTo ==
    ASSUME NEW n \in Nat, NEW S, 0 \in S, \A k \in 0..n : k \in S /\ k # n => k + 1 \in S
    PROVE  \A k \in 0..n : k \in S
<1> DEFINE Out == {k \in 0..n : k \notin S}
<1> SUFFICES ASSUME Out # {} PROVE FALSE
  OBVIOUS
<1>1. PICK k \in Out : \A m \in Out : k <= m
  <2>1. Out \subseteq Nat
    OBVIOUS
  <2> HIDE DEF Out
  <2> QED
    BY <2>1, LeastNatural
<1>2. k \in 0..n /\ k \notin S /\ k # 0
  BY <1>1
<1>3. k - 1 \in 0..n /\ k - 1 # n /\ (k - 1) + 1 = k /\ ~(k <= k - 1)
  BY <1>2
<1>4. k - 1 \in S
  BY <1>1, <1>3
<1> QED
  BY <1>2, <1>3, <1>4

(* Steps of S, and the way they lead from b: there is one. *)
Steps(step, N, S) == N \in Nat /\ step \in [1..N -> [S -> S]]
Way(f, step, N, S, b) ==
    f \in [0..N -> S] /\ f[0] = b /\ \A n \in 1..N : f[n] = step[n][f[n - 1]]

LEMMA StepByStep ==
    ASSUME NEW N, NEW S, NEW b, b \in S, NEW step, Steps(step, N, S)
    PROVE  \E f : Way(f, step, N, S, b)
<1> USE DEF Steps
<1> DEFINE Def(f, n) == IF n = 0 THEN b ELSE step[n][f[n - 1]]
           Good(f, m) == \A n \in 0..m : f[n] = Def(f, n)
           Has == {m \in 0..N : \E f \in [0..m -> S] : Good(f, m)}
<1>1. 0 \in Has
  <2> DEFINE f == [n \in 0..0 |-> b]
  <2>1. f \in [0..0 -> S] /\ Good(f, 0)
    OBVIOUS
  <2> HIDE DEF f, Good
  <2> QED
    BY <2>1
<1>2. ASSUME NEW m \in 0..N, m \in Has, m # N PROVE m + 1 \in Has
  <2>1. PICK f \in [0..m -> S] : Good(f, m)
    BY <1>2
  <2> DEFINE x == step[m + 1][f[m]]
             h == [n \in 0..(m + 1) |-> IF n = m + 1 THEN x ELSE f[n]]
  <2>2. x \in S
    <3>1. m + 1 \in 1..N /\ m \in 0..m
      BY <1>2
    <3>2. step[m + 1] \in [S -> S] /\ f[m] \in S
      BY <3>1
    <3> QED
      BY <3>2
  <2>3. h \in [0..(m + 1) -> S]
    <3>1. \A n \in 0..(m + 1) : n # m + 1 => n \in 0..m
      BY <1>2
    <3> HIDE DEF x
    <3> QED
      BY <2>2, <3>1
  <2>4. Good(h, m + 1)
    <3> SUFFICES ASSUME NEW n \in 0..(m + 1) PROVE h[n] = Def(h, n)
      OBVIOUS
    <3>1. CASE n = m + 1
      <4>1. n # 0 /\ n - 1 = m /\ m \in 0..(m + 1) /\ m # m + 1
        BY <1>2, <3>1
      <4>2. h[n] = x /\ h[n - 1] = f[m]
        BY <3>1, <4>1
      <4> QED
        BY <3>1, <4>1, <4>2
    <3>2. CASE n # m + 1
      <4>1. n \in 0..m /\ (n # 0 => n - 1 \in 0..(m + 1) /\ n - 1 # m + 1)
        BY <1>2, <3>2
      <4>2. h[n] = f[n] /\ f[n] = Def(f, n)
        BY <2>1, <3>2, <4>1
      <4>3. n # 0 => h[n - 1] = f[n - 1]
        BY <4>1
      <4> HIDE DEF h
      <4> QED
        BY <4>2, <4>3
    <3> QED
      BY <3>1, <3>2
  <2>5. m + 1 \in 0..N
    BY <1>2
  <2> HIDE DEF h, Good
  <2> QED
    BY <2>3, <2>4, <2>5
<1>3. N \in Has
  <2> HIDE DEF Has
  <2>1. \A k \in 0..N : k \in Has /\ k # N => k + 1 \in Has
    BY ONLY <1>2
  <2>2. \A k \in 0..N : k \in Has
    BY <1>1, <2>1, UpTo
  <2> QED
    BY <2>2
<1>4. PICK f \in [0..N -> S] : Good(f, N)
  BY <1>3
<1>5. f[0] = b /\ \A n \in 1..N : f[n] = step[n][f[n - 1]]
  <2>1. 0 \in 0..N /\ \A n \in 1..N : n \in 0..N /\ n # 0
    OBVIOUS
  <2> QED
    BY <1>4, <2>1
<1> QED
  BY <1>4, <1>5 DEF Way

(* What Keep leaves of a pipeline is a pipeline, of stages in S.            *)
LEMMA KeepIs ==
    ASSUME NEW T, NEW s \in Seq(T), NEW S
    PROVE  Keep(s, S) \in Seq(T \cap S)
<1> DEFINE N == Len(s)
           Q == Seq(T \cap S)
           step == [n \in 1..N |-> [x \in Q |-> IF s[n] \in S THEN Append(x, s[n]) ELSE x]]
           Def(g) == [n \in 0..N |-> IF n = 0 THEN <<>>
                                    ELSE IF s[n] \in S THEN Append(g[n - 1], s[n]) ELSE g[n - 1]]
           upTo == CHOOSE g : g = Def(g)
           Kept == {n \in 0..N : upTo[n] \in Q}
<1>1. N \in Nat /\ \A n \in 1..N : s[n] \in T
  OBVIOUS
<1>2. \A n \in 1..N, x \in Q : (IF s[n] \in S THEN Append(x, s[n]) ELSE x) \in Q
  BY <1>1, AppendProperties
<1>3. <<>> \in Q
  OBVIOUS
<1> HIDE DEF Q
<1>4. PICK f : f \in [0..N -> Q] /\ f[0] = <<>> /\ \A n \in 1..N : f[n] = step[n][f[n - 1]]
  <2>1. Steps(step, N, Q)
    BY <1>1, <1>2 DEF Steps
  <2> HIDE DEF step, N
  <2>2. \E f : Way(f, step, N, Q, <<>>)
    BY <1>3, <2>1, StepByStep
  <2> QED
    BY <2>2 DEF Way
<1>5. \A n \in 0..N : n # 0 => n \in 1..N /\ n - 1 \in 0..N
  BY <1>1
<1>6. f = Def(f)
  <2>1. \A n \in 0..N : f[n] = IF n = 0 THEN <<>>
                                ELSE IF s[n] \in S THEN Append(f[n - 1], s[n]) ELSE f[n - 1]
    <3> SUFFICES ASSUME NEW n \in 0..N, n # 0
                 PROVE  f[n] = IF s[n] \in S THEN Append(f[n - 1], s[n]) ELSE f[n - 1]
      BY <1>4
    <3>1. n \in 1..N /\ f[n - 1] \in Q /\ f[n] = step[n][f[n - 1]]
      BY <1>4, <1>5
    <3> QED
      BY <3>1
  <2>2. f = [n \in 0..N |-> f[n]]
    BY <1>4
  <2> QED
    BY <2>1, <2>2
<1>7. upTo = Def(upTo)
  <2> HIDE DEF Def
  <2> QED
    BY <1>6
<1>8. Keep(s, S) = upTo[N]
  BY DEF Keep
<1> HIDE DEF upTo
<1>9. 0 \in Kept
  BY <1>1, <1>3, <1>7
<1>10. ASSUME NEW n \in 0..N, n \in Kept, n # N PROVE n + 1 \in Kept
  <2>1. n + 1 \in 1..N /\ n + 1 \in 0..N /\ (n + 1) - 1 = n /\ n + 1 # 0
    BY <1>1, <1>10
  <2>2. upTo[n + 1] = IF s[n + 1] \in S THEN Append(upTo[n], s[n + 1]) ELSE upTo[n]
    BY <1>7, <2>1
  <2>3. upTo[n + 1] \in Q
    BY <1>2, <1>10, <2>1, <2>2
  <2> QED
    BY <2>1, <2>3
<1>11. N \in Kept
  <2> HIDE DEF Kept, N
  <2>1. \A k \in 0..N : k \in Kept /\ k # N => k + 1 \in Kept
    BY ONLY <1>10
  <2>2. \A k \in 0..N : k \in Kept
    BY ONLY <1>1, <1>9, <2>1, UpTo
  <2>3. N \in 0..N
    BY <1>1
  <2> QED
    BY <2>2, <2>3
<1> QED
  BY <1>8, <1>11 DEF Q

LEMMA TreesAre ==
    /\ Range(Trees) = {"raw", "normalized", "work"}
    /\ Len(Trees) = 3
    /\ \A t \in Range(Trees) : \E i \in 1..3 : Trees[i] = t
<1>1. Len(Trees) = 3 /\ DOMAIN Trees = 1..3
  BY DEF Trees
<1>2. Trees[1] = "raw" /\ Trees[2] = "normalized" /\ Trees[3] = "work"
  BY DEF Trees
<1>3. 1..3 = {1, 2, 3}
  OBVIOUS
<1> QED
  BY <1>1, <1>2, <1>3 DEF Range

LEMMA RangeFinite ==
    ASSUME NEW T, NEW s \in Seq(T)
    PROVE  IsFiniteSet(Range(s))
<1>1. s \in Surjection(1..Len(s), Range(s))
  BY DEF Surjection, Range
<1>2. IsFiniteSet(1..Len(s))
  BY FS_Interval
<1> QED
  BY <1>1, <1>2, FS_Surjection

(* The elements of a sequence are its head and those of its tail.           *)
LEMMA HeadAndTail ==
    ASSUME NEW T, NEW s \in Seq(T), s # <<>>
    PROVE  /\ Head(s) \in T /\ Tail(s) \in Seq(T) /\ Len(s) = Len(Tail(s)) + 1
           /\ Range(s) = {Head(s)} \cup Range(Tail(s))
<1>1. /\ Head(s) \in T /\ Tail(s) \in Seq(T) /\ Len(Tail(s)) = Len(s) - 1
      /\ \A i \in 1..Len(Tail(s)) : Tail(s)[i] = s[i + 1]
  BY HeadTailProperties
<1>2. Len(s) \in Nat \ {0} /\ Head(s) = s[1]
  BY EmptySeq
<1>3. Range(s) = {s[i] : i \in 1..Len(s)}
  BY RangeEquality
<1>4. Range(Tail(s)) = {Tail(s)[i] : i \in 1..Len(Tail(s))}
  BY <1>1, RangeEquality
<1>5. ASSUME NEW i \in 1..Len(s) PROVE i = 1 \/ (i - 1 \in 1..Len(Tail(s)) /\ (i - 1) + 1 = i)
  BY <1>1, <1>2
<1>6. \A i \in 1..Len(Tail(s)) : i + 1 \in 1..Len(s)
  BY <1>1, <1>2
<1>7. Range(s) \subseteq {Head(s)} \cup Range(Tail(s))
  <2> SUFFICES ASSUME NEW i \in 1..Len(s)
               PROVE  s[i] \in {Head(s)} \cup Range(Tail(s))
    BY <1>3
  <2>1. CASE i = 1
    BY <1>2, <2>1
  <2>2. CASE i - 1 \in 1..Len(Tail(s)) /\ (i - 1) + 1 = i
    BY <1>1, <1>4, <2>2
  <2> QED
    BY <1>5, <2>1, <2>2
<1>8. {Head(s)} \cup Range(Tail(s)) \subseteq Range(s)
  BY <1>1, <1>2, <1>3, <1>4, <1>6
<1> QED
  BY <1>1, <1>2, <1>7, <1>8

(* What the stages of either scope are: sequences of the run's stages.      *)
LEMMA StagesAre ==
    ASSUME TypeOK
    PROVE  /\ ChunkStages \in Seq(Range(spec.stages)) /\ Rest \in Seq(Range(spec.stages))
           /\ \A s \in Range(ChunkStages) : PerChunk(s)
           /\ \A s \in Range(Rest) : ~PerChunk(s)
           /\ Len(ChunkStages) \in Nat /\ Len(Rest) \in Nat
<1>1. stages \in Seq(Range(spec.stages))
  BY DEF TypeOK
<1>2. /\ ChunkStages \in Seq(Range(spec.stages) \cap OfScope("chunk"))
      /\ Rest \in Seq(Range(spec.stages) \cap OfScope("job"))
  BY <1>1, KeepIs DEF ChunkStages, Rest
<1>3. /\ Range(ChunkStages) \subseteq Range(spec.stages) \cap OfScope("chunk")
      /\ Range(Rest) \subseteq Range(spec.stages) \cap OfScope("job")
  BY <1>2, RangeOfSeq
<1>4. /\ \A s \in Range(ChunkStages) : PerChunk(s)
      /\ \A s \in Range(Rest) : ~PerChunk(s)
  BY <1>3 DEF OfScope, PerChunk
<1>5. ChunkStages \in Seq(Range(spec.stages)) /\ Rest \in Seq(Range(spec.stages))
  BY <1>2, SeqMonotonic
<1> QED
  BY <1>4, <1>5, LenProperties

LEMMA SpecIs ==
    ASSUME TypeOK
    PROVE  /\ spec.sources \in Seq(Sources) /\ spec.stages \in Seq(STRING)
           /\ spec.stages \in Seq(Range(spec.stages))
           /\ NoKey \notin Sources /\ MaxFaults \in Nat
  BY RunnerConstants, SeqOfRange DEF TypeOK, Sources

(***************************************************************************)
(* Types.                                                                  *)
(***************************************************************************)

DiskType == [Sources -> [Range(Trees) -> {"none", "cut", "whole", "new"}]]
Stored == {"none", "old", "cut", "whole", "new", "lacking"}
StoreType == [Sources -> [Range(Trees) -> Stored]]
OutType == [Products -> {"none", "new"}]
OutStoreType == [Products -> {"none", "new", "lacking"}]
ResultType == [stage : Range(spec.stages), chunk : Sources \cup {NoKey},
               status : {"skipped", "failed", "ok", "unrun"}]
PutType == {"none", "empty", "given", "job"} \cup Sources
RepType == [total : Nat, index : Nat, chunk : Sources \cup {NoKey},
            verdict : {"none", "done", "failed"}]

LEMMA FaultIs ==
    ASSUME TypeOK, NEW n \in Nat, Fault(n)
    PROVE  faults' \in 0..MaxFaults /\ faults' = faults + n
  BY RunnerConstants DEF Fault, TypeOK

(* A fetch: a source of S that fails is cut short or absent, and costs a    *)
(* fault; the others of S are whole, and no other source is touched.        *)
LEMMA FetchIs ==
    ASSUME TypeOK, NEW S, S \subseteq Sources, IsFiniteSet(S), NEW ready, Fetch(S, ready)
    PROVE  /\ faults' \in 0..MaxFaults /\ faults <= faults' /\ disk' \in DiskType
           /\ \A k \in Sources : /\ k \notin S => disk'[k] = disk[k]
                                 /\ disk[k]["raw"] # "new" => disk'[k]["raw"] # "new"
                                 /\ disk[k]["raw"] = "whole" => disk'[k]["raw"] = "whole"
                                 /\ \A t \in Range(Trees) \ {"raw"} : disk'[k][t] = disk[k][t]
           /\ UNCHANGED <<store, out, outStore>>
<1>1. PICK fail \in SUBSET {k \in S : disk[k].raw # "whole"}, cut \in {"none", "cut"} :
        /\ Fault(Cardinality(fail))
        /\ disk' = [k \in Sources |-> [disk[k] EXCEPT !.raw =
               IF k \in fail THEN cut ELSE IF k \in S THEN "whole" ELSE @]]
  BY DEF Fetch
<1>2. Cardinality(fail) \in Nat
  <2>1. fail \in SUBSET S
    BY <1>1
  <2> QED
    BY <2>1, FS_Subset, FS_CardinalityType
<1>3. faults' \in 0..MaxFaults /\ faults <= faults'
  BY <1>1, <1>2, FaultIs DEF TypeOK
<1>4. disk \in DiskType
  BY DEF TypeOK, DiskType
<1>5. ASSUME NEW k \in Sources
      PROVE  /\ disk'[k] \in [Range(Trees) -> {"none", "cut", "whole", "new"}]
             /\ k \notin S => disk'[k] = disk[k]
             /\ disk[k]["raw"] # "new" => disk'[k]["raw"] # "new"
             /\ disk[k]["raw"] = "whole" => disk'[k]["raw"] = "whole"
             /\ \A t \in Range(Trees) \ {"raw"} : disk'[k][t] = disk[k][t]
  <2>1. disk[k] \in [Range(Trees) -> {"none", "cut", "whole", "new"}]
    BY <1>4 DEF DiskType
  <2>2. disk'[k] = [disk[k] EXCEPT !.raw =
               IF k \in fail THEN cut ELSE IF k \in S THEN "whole" ELSE disk[k].raw]
    BY <1>1
  <2> QED
    BY <1>1, <2>1, <2>2, TreesAre
<1>6. disk' \in DiskType
  BY <1>1, <1>5 DEF DiskType
<1> QED
  BY <1>3, <1>5, <1>6 DEF Fetch

(* What an upload leaves in the store is of the store's types.              *)
LEMMA UploadedIs ==
    ASSUME NEW have, NEW local
    PROVE  /\ Uploaded(have, local) \in {have, local, "lacking"}
           /\ Sendable(local) \in {"none", Uploaded(have, local)}
           /\ Sendable(local) # "none" => Uploaded(have, local) = Sendable(local)
  BY DEF Uploaded, Sendable

(* A chunk is left: its trees go up, and with the last of them it goes.     *)
LEMMA LeaveIs ==
    ASSUME TypeOK, NEW k \in Sources, LeaveChunk(k)
    PROVE  /\ faults' \in 0..MaxFaults /\ faults <= faults'
           /\ disk' \in DiskType /\ store' \in StoreType
           /\ \A c \in Sources \ {k} : disk'[c] = disk[c] /\ store'[c] = store[c]
           /\ \/ Fetches /\ faults' = faults
                 /\ \A t \in Range(Trees) :
                      /\ disk'[k][t] = IF t = "raw" /\ spec.corpus # "told"
                                       THEN disk[k][t] ELSE "none"
                      /\ store'[k][t] = Uploaded(store[k][t], Found(k, t))
              \/ Fetches /\ faults' = faults + 1 /\ disk' = disk
              \/ (~Fetches \/ spec.corpus = "unset") /\ UNCHANGED <<disk, store, faults>>
           /\ UNCHANGED <<out, outStore>>
<1>1. disk \in DiskType /\ store \in StoreType /\ faults \in 0..MaxFaults
  BY DEF TypeOK, DiskType, StoreType, Stored
<1>2. CASE Fetches /\ spec.corpus # "unset"
  <2>1. PICK n \in 0..Len(Trees) :
          /\ Fault(IF n < Len(Trees) THEN 1 ELSE 0)
          /\ store' = [store EXCEPT ![k] = [t \in Range(Trees) |->
                 IF \E i \in 1..n : Trees[i] = t
                 THEN Uploaded(@[t], Found(k, t)) ELSE @[t]]]
          /\ disk' = IF Evicts(n) THEN Freed(k) ELSE disk
    BY <1>2 DEF LeaveChunk
  <2>2. store'[k] = [t \in Range(Trees) |->
                 IF \E i \in 1..n : Trees[i] = t
                 THEN Uploaded(store[k][t], Found(k, t)) ELSE store[k][t]]
    BY <2>1, <1>1 DEF StoreType
  <2>3. \A c \in Sources \ {k} : store'[c] = store[c]
    BY <2>1, <1>1 DEF StoreType
  <2>4. store'[k] \in [Range(Trees) -> Stored]
    <3>1. \A t \in Range(Trees) : Found(k, t) \in Stored /\ store[k][t] \in Stored
      BY <1>1 DEF StoreType, DiskType, Stored, Found
    <3>2. \A t \in Range(Trees) : Uploaded(store[k][t], Found(k, t)) \in Stored
      BY <3>1, UploadedIs DEF Stored
    <3> QED
      BY <2>2, <3>1, <3>2
  <2>5. store' \in StoreType
    BY <2>1, <2>3, <2>4, <1>1 DEF StoreType
  <2>6. Freed(k) \in DiskType /\ \A c \in Sources \ {k} : Freed(k)[c] = disk[c]
    BY <1>1 DEF Freed, DiskType
  <2>7. disk' \in DiskType /\ \A c \in Sources \ {k} : disk'[c] = disk[c]
    BY <2>1, <2>6, <1>1
  <2>8. CASE n = 3
    <3>1. faults' = faults + 0 /\ faults' \in 0..MaxFaults
      BY <2>1, <2>8, TreesAre, FaultIs
    <3>2. disk' = Freed(k)
      BY <2>1, <2>8, TreesAre DEF Evicts
    <3>3. \A t \in Range(Trees) :
            disk'[k][t] = IF t = "raw" /\ spec.corpus # "told" THEN disk[k][t] ELSE "none"
      BY <3>2, <1>1 DEF Freed, DiskType
    <3>4. \A t \in Range(Trees) : store'[k][t] = Uploaded(store[k][t], Found(k, t))
      BY <2>2, <2>8, TreesAre
    <3> QED
      BY <3>1, <3>3, <3>4, <2>3, <2>5, <2>7, <1>1, <1>2 DEF LeaveChunk
  <2>9. CASE n # 3
    <3>1. faults' = faults + 1 /\ faults' \in 0..MaxFaults
      <4>1. n < Len(Trees)
        BY <2>9, TreesAre
      <4> QED
        BY <4>1, <2>1, FaultIs
    <3>2. disk' = disk
      BY <2>1, <2>9, TreesAre DEF Evicts
    <3> QED
      BY <3>1, <3>2, <2>3, <2>5, <2>7, <1>1, <1>2 DEF LeaveChunk
  <2> QED
    BY <2>8, <2>9
<1>3. CASE ~Fetches \/ spec.corpus = "unset"
  BY <1>1, <1>3 DEF LeaveChunk
<1> QED
  BY <1>2, <1>3

(* A stage works: no source's raw file, no file goes, and over a chunk no   *)
(* other source is touched.                                                 *)
LEMMA WorksIs ==
    ASSUME TypeOK, NEW s, Works(s)
    PROVE  /\ put' \in [Artifacts -> PutType]
           /\ disk' \in DiskType /\ out' \in OutType
           /\ \A k \in Sources : disk'[k]["raw"] = disk[k]["raw"]
           /\ \A k \in Sources, t \in Range(Trees) : disk'[k][t] \in {disk[k][t], "new"}
           /\ key # NoKey => \A k \in Sources : k # key => disk'[k] = disk[k]
           /\ UNCHANGED <<store, outStore, faults>>
<1>1. disk \in DiskType /\ out \in OutType /\ key \in Sources \cup {NoKey}
      /\ put \in [Artifacts -> PutType]
  BY DEF TypeOK, DiskType, PutType, OutType
<1>2. put' \in [Artifacts -> PutType]
  <2>1. PICK made \in SUBSET Produces(s), void \in SUBSET Produces(s) :
          put' = [a \in Artifacts |->
            IF a \in made THEN (IF key = NoKey THEN "job" ELSE key)
            ELSE IF a \in void THEN "empty" ELSE put[a]]
    BY DEF Works
  <2> QED
    BY <2>1, <1>1 DEF PutType
<1>3. UNCHANGED <<store, outStore, faults>>
  BY DEF Works
<1>4. PICK trees \in SUBSET (Over \X Derived), products \in SUBSET Products :
        /\ disk' = [k \in Sources |-> [t \in Range(Trees) |->
               IF <<k, t>> \in trees THEN "new" ELSE disk[k][t]]]
        /\ out' = [p \in Products |-> IF p \in products THEN "new" ELSE out[p]]
  BY DEF Works
<1>5. out' \in OutType
  BY <1>1, <1>4 DEF OutType
<1>6. disk' \in DiskType
  BY <1>1, <1>4 DEF DiskType
<1>7. \A k \in Sources, t \in Range(Trees) :
        disk'[k][t] = IF <<k, t>> \in trees THEN "new" ELSE disk[k][t]
  BY <1>4
<1>8. \A k \in Sources : disk'[k]["raw"] = disk[k]["raw"]
  <2>1. \A k : <<k, "raw">> \notin trees
    BY <1>4 DEF Derived
  <2> QED
    BY <1>7, <2>1, TreesAre
<1>9. ASSUME key # NoKey, NEW k \in Sources, k # key PROVE disk'[k] = disk[k]
  <2>1. \A t : <<k, t>> \notin trees
    BY <1>4, <1>9 DEF Over
  <2>2. disk'[k] = [t \in Range(Trees) |-> disk[k][t]]
    BY <1>4, <2>1
  <2> QED
    BY <1>1, <2>2 DEF DiskType
<1> QED
  BY <1>2, <1>3, <1>5, <1>6, <1>7, <1>8, <1>9

LEMMA TypeInit == Init => TypeOK
<1> SUFFICES ASSUME Init PROVE TypeOK
  OBVIOUS
<1>1. spec \in Specs /\ spec.stages \in Seq(STRING) /\ spec.sources \in Seq(Sources)
  BY RunnerConstants DEF Init, Sources
<1>2. stages \in Seq(Range(spec.stages)) /\ scope \in Seq(Sources)
  BY <1>1, SeqOfRange DEF Init
<1>3. <<>> \in Seq(Range(spec.stages)) /\ <<>> \in Seq(Sources) /\ results \in Seq(ResultType)
  BY EmptySeq DEF Init
<1>4. put \in [Artifacts -> PutType] /\ rep \in RepType
  BY DEF Init, PutType, RepType
<1>5. disk \in DiskType /\ store \in StoreType /\ out \in OutType /\ outStore \in OutStoreType
  BY DEF Init, DiskType, StoreType, Stored, OutType, OutStoreType
<1>6. faults \in 0..MaxFaults
  BY RunnerConstants DEF Init
<1> QED
  BY <1>1, <1>2, <1>3, <1>4, <1>5, <1>6
  DEF Init, TypeOK, PutType, RepType, DiskType, StoreType, Stored, OutType, OutStoreType,
      ResultType

LEMMA TypeStep ==
    ASSUME TypeOK, Next
    PROVE  TypeOK'
<1>a. /\ spec \in Specs /\ stages \in Seq(Range(spec.stages))
      /\ queue \in Seq(Range(spec.stages)) /\ left \in Seq(Sources) /\ scope \in Seq(Sources)
      /\ key \in Sources \cup {NoKey} /\ aborted \in BOOLEAN
      /\ put \in [Artifacts -> PutType] /\ results \in Seq(ResultType) /\ rep \in RepType
      /\ disk \in DiskType /\ store \in StoreType
      /\ out \in OutType /\ outStore \in OutStoreType
      /\ faults \in 0..MaxFaults /\ rc \in {0, 1}
      /\ pc \in {"prepare", "load", "run", "chunks", "stages", "raised", "publish",
                 "told", "fatal"}
  BY DEF TypeOK, PutType, RepType, DiskType, StoreType, Stored, OutType, OutStoreType, ResultType
<1> USE DEF TypeOK, PutType, RepType, DiskType, StoreType, Stored, OutType, OutStoreType, ResultType
<1> USE DEF specVars, loopVars, dataVars
<1>1. CASE Prepare
  <2>1. CASE UNCHANGED dataVars
    BY <1>1, <1>a, <2>1 DEF Prepare
  <2>2. CASE \E ready \in BOOLEAN : Fetch(Range(spec.sources), ready)
    <3>1. Range(spec.sources) \subseteq Sources /\ IsFiniteSet(Range(spec.sources))
      BY SpecIs, RangeOfSeq, RangeFinite
    <3>2. /\ faults' \in 0..MaxFaults /\ disk' \in DiskType /\ UNCHANGED <<store, out, outStore>>
      BY <2>2, <3>1, FetchIs
    <3> QED
      BY <1>1, <1>a, <3>2 DEF Prepare
  <2>3. CASE Fault(1) /\ pc' = "fatal" /\ UNCHANGED <<disk, store, out, outStore>>
    <3>1. faults' \in 0..MaxFaults
      BY <2>3, FaultIs
    <3> QED
      BY <1>1, <1>a, <2>3, <3>1 DEF Prepare
  <2> QED
    BY <1>1, <2>1, <2>2, <2>3 DEF Prepare
<1>2. CASE Refuse
  BY <1>2, <1>a DEF Refuse
<1>3. CASE Load
  <2>1. stages' \in Seq(Range(spec.stages))
    <3>1. spec.stages \in Seq(Range(spec.stages))
      BY SpecIs
    <3>2. \A S : Keep(spec.stages, S) \in Seq(Range(spec.stages) \cap S)
      BY <3>1, KeepIs
    <3>3. \A S : Keep(spec.stages, S) \in Seq(Range(spec.stages))
      <4> SUFFICES ASSUME NEW S PROVE Keep(spec.stages, S) \in Seq(Range(spec.stages))
        OBVIOUS
      <4>1. Keep(spec.stages, S) \in Seq(Range(spec.stages) \cap S)
        BY <3>2
      <4>2. Range(spec.stages) \cap S \subseteq Range(spec.stages)
        OBVIOUS
      <4> QED
        BY ONLY <4>1, <4>2, SeqMonotonic
    <3> QED
      BY <1>3, <3>1, <3>3 DEF Load, From
  <2>2. put' \in [Artifacts -> PutType]
    BY <1>3 DEF Load
  <2> QED
    BY <1>3, <1>a, <2>1, <2>2 DEF Load
<1>4. CASE BadWiring
  BY <1>4, <1>a DEF BadWiring, JobDone
<1>5. CASE JobStart
  <2>1. TotalOf \in Nat
    <3>1. /\ Len(ChunkStages) \in Nat /\ Len(Rest) \in Nat
          /\ Len(spec.sources) \in Nat /\ Len(stages) \in Nat
      BY StagesAre, SpecIs, <1>a, LenProperties
    <3>2. \A m, n \in Nat : m * n \in Nat
      OBVIOUS
    <3> QED
      BY ONLY <3>1, <3>2 DEF TotalOf
  <2>2. rep' \in RepType
    BY <1>5, <1>a, <2>1 DEF JobStart
  <2>3. queue' \in Seq(Range(spec.stages)) /\ left' \in Seq(Sources)
    <3>1. CASE Chunked
      BY <1>5, <3>1, SpecIs, EmptySeq DEF JobStart
    <3>2. CASE ~Chunked
      BY <1>5, <3>2, <1>a DEF JobStart
    <3> QED
      BY <3>1, <3>2
  <2> QED
    BY <1>5, <1>a, <2>2, <2>3 DEF JobStart
<1>6. CASE EnterChunk
  <2>1. Head(left) \in Sources /\ left' \in Seq(Sources) /\ scope' \in Seq(Sources)
    BY <1>6, <1>a, HeadTailProperties DEF EnterChunk
  <2>2. queue' \in Seq(Range(spec.stages))
    BY <1>6, StagesAre DEF EnterChunk
  <2>3. rep' \in RepType
    BY <1>6, <1>a, <2>1 DEF EnterChunk
  <2>4. /\ faults' \in 0..MaxFaults /\ disk' \in DiskType /\ UNCHANGED <<store, out, outStore>>
    <3>1. CASE UNCHANGED dataVars
      BY <3>1, <1>a
    <3>2. CASE \E ready \in BOOLEAN : Fetch({Head(left)}, ready)
      BY <3>2, <2>1, FetchIs, FS_Singleton
    <3> QED
      BY <1>6, <3>1, <3>2 DEF EnterChunk
  <2> QED
    BY <1>6, <1>a, <2>1, <2>2, <2>3, <2>4 DEF EnterChunk
<1>7. CASE RunStage
  <2>1. queue # <<>> /\ Head(queue) \in Range(spec.stages) /\ Tail(queue) \in Seq(Range(spec.stages))
    BY <1>7, <1>a, HeadTailProperties DEF RunStage
  <2> DEFINE s == Head(queue)
  <2>2. PICK status \in {"skipped", "failed", "ok"} :
          /\ (UNCHANGED <<put, dataVars>>) \/ Works(s)
          /\ results' = Append(results, [stage |-> s, chunk |-> key, status |-> status])
          /\ queue' = IF Stops(s, status) THEN <<>> ELSE Tail(queue)
          /\ aborted' = (aborted \/ (Stops(s, status) /\ key # NoKey))
    BY <1>7 DEF RunStage
  <2>3. results' \in Seq(ResultType)
    <3>1. [stage |-> s, chunk |-> key, status |-> status] \in ResultType
      BY <1>a, <2>1
    <3> QED
      BY <2>2, <3>1, <1>a, AppendProperties
  <2>4. queue' \in Seq(Range(spec.stages)) /\ aborted' \in BOOLEAN
    BY <2>1, <2>2, <1>a, EmptySeq
  <2>5. /\ put' \in [Artifacts -> PutType] /\ disk' \in DiskType /\ out' \in OutType
        /\ UNCHANGED <<store, outStore, faults>>
    <3>1. CASE Works(s)
      BY <3>1, WorksIs
    <3>2. CASE UNCHANGED <<put, dataVars>>
      BY <3>2, <1>a
    <3> QED
      BY <2>2, <3>1, <3>2
  <2>6. rep' \in RepType
    <3>1. rep' = [rep EXCEPT !.index = @ + 1]
      BY <1>7 DEF RunStage
    <3>2. rep \in RepType
      BY <1>a
    <3>3. rep.index + 1 \in Nat
      BY ONLY <3>2 DEF RepType
    <3> QED
      BY ONLY <3>1, <3>2, <3>3 DEF RepType
  <2> QED
    BY <1>7, <1>a, <2>3, <2>4, <2>5, <2>6 DEF RunStage
<1>8. CASE ExitChunk
  <2>1. key \in Sources /\ LeaveChunk(key)
    BY <1>8, <1>a DEF ExitChunk
  <2>2. /\ faults' \in 0..MaxFaults /\ disk' \in DiskType /\ store' \in StoreType
        /\ UNCHANGED <<out, outStore>>
    BY <2>1, LeaveIs
  <2>3. rep' \in RepType
    BY <1>8, <1>a DEF ExitChunk
  <2> QED
    BY <1>8, <1>a, <2>2, <2>3 DEF ExitChunk
<1>9. CASE Reduce
  BY <1>9, <1>a, StagesAre DEF Reduce
<1>10. CASE Abort
  <2> DEFINE more == [i \in DOMAIN Rest |->
                        [stage |-> Rest[i], chunk |-> NoKey, status |-> "unrun"]]
  <2>1. more \in Seq(ResultType)
    <3>1. Len(Rest) \in Nat /\ DOMAIN Rest = 1..Len(Rest)
          /\ \A i \in 1..Len(Rest) : Rest[i] \in Range(spec.stages)
      BY StagesAre, LenProperties
    <3>2. more \in [1..Len(Rest) -> ResultType]
      BY <3>1
    <3> QED
      BY <3>1, <3>2, SeqDef
  <2>2. results' \in Seq(ResultType)
    <3>1. results' = results \o more
      BY <1>10 DEF Abort
    <3> QED
      BY ONLY <3>1, <2>1, <1>a, ConcatProperties
  <2> QED
    BY <1>10, <1>a, <2>2 DEF Abort, JobDone
<1>11. CASE Finish
  BY <1>11, <1>a DEF Finish, JobDone
<1>12. CASE Publish
  <2>1. CASE Object /\ spec.outRoot
    <3>1. PICK n \in 0..4 : /\ Fault(IF n < 4 THEN 1 ELSE 0) /\ PublishUpTo(n)
                            /\ rc' = WithPublish(n = 4 /\ (Sent \/ spec.allowEmpty))
      BY <1>12, <2>1 DEF Publish
    <3>2. faults' \in 0..MaxFaults
      BY <3>1, FaultIs
    <3>3. store' \in StoreType
      <4>1. \A k \in Sources, t \in Range(Trees) : Found(k, t) \in Stored
        BY <1>a DEF Found
      <4>2. \A k \in Sources, t \in Range(Trees) : store[k][t] \in Stored
        BY <1>a
      <4>3. \A have, local \in Stored : Uploaded(have, local) \in Stored
        BY UploadedIs
      <4>4. \A k \in Sources, t \in Range(Trees) : Uploaded(store[k][t], Found(k, t)) \in Stored
        BY ONLY <4>1, <4>2, <4>3
      <4> QED
        BY <3>1, <4>2, <4>4 DEF PublishUpTo
    <3>4. outStore' \in OutStoreType
      BY <3>1, <1>a, UploadedIs DEF PublishUpTo
    <3>5. rc' \in {0, 1}
      BY <3>1, <1>a DEF WithPublish
    <3> QED
      BY <1>12, <1>a, <2>1, <3>2, <3>3, <3>4, <3>5 DEF Publish
  <2>2. CASE ~Object \/ ~spec.outRoot
    BY <1>12, <1>a, <2>2 DEF Publish
  <2> QED
    BY <2>1, <2>2
<1>13. CASE StageRaises
  <2>1. queue # <<>> /\ Head(queue) \in Range(spec.stages)
    BY <1>13, <1>a, HeadTailProperties DEF StageRaises
  <2>2. /\ put' \in [Artifacts -> PutType] /\ disk' \in DiskType /\ out' \in OutType
        /\ UNCHANGED <<store, outStore, faults>>
    <3>1. CASE Works(Head(queue))
      BY <3>1, WorksIs
    <3>2. CASE UNCHANGED <<put, dataVars>>
      BY <3>2, <1>a
    <3> QED
      BY <1>13, <3>1, <3>2 DEF StageRaises
  <2>3. rep' \in RepType
    <3>1. rep' = [rep EXCEPT !.index = @ + 1]
      BY <1>13 DEF StageRaises
    <3>2. rep \in RepType
      BY <1>a
    <3>3. rep.index + 1 \in Nat
      BY ONLY <3>2 DEF RepType
    <3> QED
      BY ONLY <3>1, <3>2, <3>3 DEF RepType
  <2> QED
    BY <1>13, <1>a, <2>2, <2>3, EmptySeq DEF StageRaises
<1>14. CASE Die
  <2>1. /\ faults' \in 0..MaxFaults /\ disk' \in DiskType /\ store' \in StoreType
        /\ UNCHANGED <<out, outStore>>
    <3>1. CASE key = NoKey
      BY <1>14, <1>a, <3>1 DEF Die
    <3>2. CASE key # NoKey
      <4>1. key \in Sources /\ LeaveChunk(key)
        BY <1>14, <1>a, <3>2 DEF Die
      <4> QED
        BY <4>1, LeaveIs
    <3> QED
      BY <3>1, <3>2
  <2>2. rep' \in RepType
    BY <1>14, <1>a DEF Die
  <2> QED
    BY <1>14, <1>a, <2>1, <2>2 DEF Die
<1> QED
  BY <1>1, <1>2, <1>3, <1>4, <1>5, <1>6, <1>7, <1>8, <1>9, <1>10, <1>11, <1>12, <1>13, <1>14
  DEF Next

LEMMA TypeStutter ==
    ASSUME TypeOK, UNCHANGED vars
    PROVE  TypeOK'
  BY DEF TypeOK, vars, specVars, loopVars, dataVars

(* Every variable keeps its type.                                           *)
THEOREM TypeIsKept == Spec => []TypeOK
<1>1. TypeOK /\ [Next]_vars => TypeOK'
  BY TypeStep, TypeStutter
<1> QED
  BY TypeInit, <1>1, PTL DEF Spec

(***************************************************************************)
(* The phases of a run.                                                    *)
(***************************************************************************)

LEMMA PhaseInit == Init => Phase
  BY DEF Init, Phase, Before, Running

(* Which stages there are does not change once they run. *)
LEMMA SameStages ==
    ASSUME UNCHANGED <<spec, stages>>
    PROVE  /\ Object' = Object /\ Fetches' = Fetches /\ Bounded' = Bounded
           /\ Chunked' = Chunked /\ ChunkStages' = ChunkStages /\ Rest' = Rest
  BY DEF Object, Fetches, Bounded, Chunked, Hooked, ChunkStages, Rest, OfScope

LEMMA PhaseStep ==
    ASSUME TypeOK, Phase, Next
    PROVE  Phase'
<1> USE DEF Phase, Before, Running, specVars, loopVars, dataVars
<1>0. ASSUME UNCHANGED <<spec, stages>> PROVE Chunked' = Chunked
  BY <1>0, SameStages
<1>a. rep \in RepType /\ rc \in {0, 1} /\ key \in Sources \cup {NoKey} /\ NoKey \notin Sources
      /\ aborted \in BOOLEAN
  BY SpecIs DEF TypeOK, RepType
<1>1. CASE Prepare
  <2>1. UNCHANGED outStore
    BY <1>1 DEF Prepare, Fetch
  <2> QED
    BY <1>1, <1>0, <2>1 DEF Prepare
<1>2. CASE Refuse
  BY <1>2, <1>0 DEF Refuse
<1>3. CASE Load
  BY <1>3 DEF Load
<1>4. CASE BadWiring
  BY <1>4, <1>0 DEF BadWiring, JobDone
<1>5. CASE JobStart
  <2>1. rep'.verdict = "none"
    BY <1>5, <1>a DEF JobStart, RepType
  <2> QED
    BY <1>5, <1>0, <1>a, <2>1 DEF JobStart
<1>6. CASE EnterChunk
  <2>1. rep'.verdict = "none"
    BY <1>6, <1>a DEF EnterChunk, RepType
  <2>2. UNCHANGED outStore
    BY <1>6 DEF EnterChunk, Fetch
  <2>3. Head(left) \in Sources
    BY <1>6, HeadTailProperties DEF EnterChunk, TypeOK
  <2> QED
    BY <1>6, <1>0, <1>a, <2>1, <2>2, <2>3 DEF EnterChunk
<1>7. CASE RunStage
  <2>1. rep'.verdict = "none"
    BY <1>7, <1>a DEF RunStage, RepType
  <2>2. UNCHANGED outStore
    BY <1>7 DEF RunStage, Works
  <2>3. key = NoKey => aborted' = aborted
    BY <1>7, <1>a DEF RunStage
  <2> QED
    BY <1>7, <1>0, <1>a, <2>1, <2>2, <2>3 DEF RunStage
<1>8. CASE ExitChunk
  <2>1. rep'.verdict = "none"
    BY <1>8, <1>a DEF ExitChunk, RepType
  <2>2. UNCHANGED outStore
    BY <1>8 DEF ExitChunk, LeaveChunk
  <2> QED
    BY <1>8, <1>0, <1>a, <2>1, <2>2 DEF ExitChunk
<1>9. CASE Reduce
  BY <1>9, <1>0, <1>a DEF Reduce
<1>10. CASE Abort
  BY <1>10, <1>0, <1>a DEF Abort, JobDone
<1>11. CASE Finish
  <2>1. rc' = 0 => rep'.verdict = "done"
    BY <1>11, <1>a DEF Finish, JobDone, RepType
  <2> QED
    BY <1>11, <1>0, <1>a, <2>1 DEF Finish, JobDone
<1>12. CASE Publish
  <2>1. rc' = 0 => rc = 0
    BY <1>12, <1>a DEF Publish, WithPublish
  <2> QED
    BY <1>12, <1>0, <1>a, <2>1 DEF Publish
<1>13. CASE StageRaises
  <2>1. rep'.verdict = "none"
    BY <1>13, <1>a DEF StageRaises, RepType
  <2>2. UNCHANGED outStore
    BY <1>13 DEF StageRaises, Works
  <2> QED
    BY <1>13, <1>0, <1>a, <2>1, <2>2 DEF StageRaises
<1>14. CASE Die
  <2>1. UNCHANGED outStore
    BY <1>14 DEF Die, LeaveChunk
  <2> QED
    BY <1>14, <1>0, <1>a, <2>1 DEF Die
<1> QED
  BY <1>1, <1>2, <1>3, <1>4, <1>5, <1>6, <1>7, <1>8, <1>9, <1>10, <1>11, <1>12, <1>13, <1>14
  DEF Next

LEMMA PhaseStutter ==
    ASSUME Phase, UNCHANGED vars
    PROVE  Phase'
  BY SameStages DEF Phase, vars, specVars, loopVars, dataVars

THEOREM PhaseIsKept == Spec => []Phase
<1>1. TypeOK /\ Phase /\ [Next]_vars => Phase'
  BY PhaseStep, PhaseStutter
<1> QED
  BY PhaseInit, <1>1, TypeIsKept, PTL DEF Spec

(***************************************************************************)
(* What is published.                                                      *)
(***************************************************************************)

LEMMA EntersOne ==
    ASSUME TypeOK, EnterChunk
    PROVE  {Head(left)} \subseteq Sources /\ IsFiniteSet({Head(left)})
<1>1. Head(left) \in Sources
  BY HeadTailProperties DEF EnterChunk, TypeOK
<1> QED
  BY <1>1, FS_Singleton

LEMMA RawInit == Init => RawAsFetched
  BY TreesAre DEF Init, RawAsFetched

(* The steps that touch the pod's disk: a fetch, a stage's work, and the    *)
(* leaving of a chunk.                                                      *)
LEMMA DiskSteps ==
    ASSUME TypeOK, [Next]_vars
    PROVE  \/ disk' = disk
           \/ \E S, ready : S \subseteq Sources /\ IsFiniteSet(S) /\ Fetch(S, ready)
           \/ \E s : Works(s)
           \/ key \in Sources /\ LeaveChunk(key)
<1> DEFINE Goal == \/ disk' = disk
                   \/ \E S, ready : S \subseteq Sources /\ IsFiniteSet(S) /\ Fetch(S, ready)
                   \/ \E s : Works(s)
                   \/ key \in Sources /\ LeaveChunk(key)
<1>1. CASE Prepare
  <2>1. Range(spec.sources) \subseteq Sources /\ IsFiniteSet(Range(spec.sources))
    BY SpecIs, RangeOfSeq, RangeFinite
  <2>2. disk' = disk \/ \E ready : Fetch(Range(spec.sources), ready)
    BY <1>1 DEF Prepare, dataVars
  <2> QED
    BY <2>1, <2>2
<1>2. CASE EnterChunk
  <2>1. {Head(left)} \subseteq Sources /\ IsFiniteSet({Head(left)})
    BY <1>2, EntersOne
  <2>2. disk' = disk \/ \E ready : Fetch({Head(left)}, ready)
    BY <1>2 DEF EnterChunk, dataVars
  <2> QED
    BY <2>1, <2>2
<1>3. CASE RunStage \/ StageRaises
  BY <1>3 DEF RunStage, StageRaises, dataVars
<1>4. CASE ExitChunk \/ Die
  BY <1>4 DEF ExitChunk, Die, dataVars, TypeOK
<1> HIDE DEF Goal
<1>5. CASE disk' = disk
  BY <1>5 DEF Goal
<1>6. Goal
  BY <1>1, <1>2, <1>3, <1>4, <1>5 DEF Next, vars, dataVars, Refuse, Load, BadWiring, JobStart,
     Reduce, Abort, Finish, Publish, Goal
<1> QED
  BY <1>6 DEF Goal

LEMMA RawStep ==
    ASSUME TypeOK, RawAsFetched, [Next]_vars
    PROVE  RawAsFetched'
<1>1. CASE disk' = disk
  BY <1>1 DEF RawAsFetched
<1>2. CASE \E S, ready : S \subseteq Sources /\ IsFiniteSet(S) /\ Fetch(S, ready)
  BY <1>2, FetchIs DEF RawAsFetched
<1>3. CASE \E s : Works(s)
  BY <1>3, WorksIs DEF RawAsFetched
<1>4. CASE key \in Sources /\ LeaveChunk(key)
  <2>1. \A c \in Sources : disk'[c]["raw"] \in {disk[c]["raw"], "none"}
    BY <1>4, LeaveIs, TreesAre
  <2> QED
    BY <2>1 DEF RawAsFetched
<1> QED
  BY <1>1, <1>2, <1>3, <1>4, DiskSteps

(* What goes from the pod's disk has gone up: only leaving a chunk removes  *)
(* a whole tree, and only when every tree of the chunk is in the store.     *)
LEMMA EvictStep ==
    ASSUME TypeOK, RawAsFetched, [Next]_vars,
           NEW k \in Sources, NEW t \in Range(Trees),
           disk'[k][t] = "none", disk[k][t] \notin {"none", "cut"}
    PROVE  Sendable(disk[k][t]) \in {"none", store'[k][t]}
<1>1. CASE disk' = disk
  BY <1>1
<1>2. ASSUME NEW S, NEW ready, S \subseteq Sources, IsFiniteSet(S), Fetch(S, ready)
      PROVE  FALSE
  <2>1. disk[k][t] \in {"none", "cut", "whole", "new"}
    BY DEF TypeOK
  <2>2. CASE t = "raw"
    BY <1>2, <2>1, <2>2, FetchIs DEF RawAsFetched
  <2>3. CASE t # "raw"
    BY <1>2, <2>3, FetchIs
  <2> QED
    BY <2>2, <2>3
<1>3. CASE \E s : Works(s)
  BY <1>3, WorksIs
<1>4. CASE key \in Sources /\ LeaveChunk(key)
  <2>1. /\ key = k
        /\ disk'[k][t] = IF t = "raw" /\ spec.corpus # "told" THEN disk[k][t] ELSE "none"
        /\ store'[k][t] = Uploaded(store[k][t], Found(k, t))
    BY <1>4, LeaveIs
  <2>2. Found(k, t) = disk[k][t]
    BY <2>1 DEF Found
  <2> QED
    BY <2>1, <2>2, UploadedIs
<1> QED
  BY <1>1, <1>2, <1>3, <1>4, DiskSteps

(* "Evicting before publishing loses the outputs" does not happen to a file *)
(* that an upload sends, whatever fails while a chunk is left.              *)
THEOREM NothingEvictedUnpublished == Spec => EvictsPublished
<1>1. TypeOK /\ RawAsFetched /\ [Next]_vars => RawAsFetched'
  BY RawStep
<1>2. TypeOK /\ RawAsFetched /\ [Next]_vars =>
        [\A k \in Sources, t \in Range(Trees) :
          disk'[k][t] = "none" /\ disk[k][t] \notin {"none", "cut"}
          => Sendable(disk[k][t]) \in {"none", store'[k][t]}]_vars
  BY EvictStep
<1> QED
  BY RawInit, <1>1, <1>2, TypeIsKept, PTL DEF Spec, EvictsPublished

LEMMA DurableStep ==
    ASSUME TypeOK, Phase, DoneIsDurable, [Next]_vars
    PROVE  DoneIsDurable'
<1> SUFFICES ASSUME (pc = "told" /\ rc = 0 /\ Object /\ spec.outRoot)'
             PROVE  (/\ rep.verdict = "done"
                     /\ \A p \in Products : Sendable(out[p]) \in {"none", outStore[p]}
                     /\ \A k \in Sources, t \in Derived :
                           Sendable(disk[k][t]) \in {"none", store[k][t]})'
  BY DEF DoneIsDurable
<1>1. CASE Publish
  <2>1. /\ rc = 0 /\ rep' = rep /\ rep.verdict = "done" /\ Object /\ spec.outRoot
        /\ spec' = spec
    BY <1>1 DEF Publish, WithPublish, Phase, Object, specVars
  <2>2. PICK n \in 0..4 : /\ PublishUpTo(n)
                          /\ rc' = WithPublish(n = 4 /\ (Sent \/ spec.allowEmpty))
    BY <1>1, <2>1 DEF Publish
  <2>3. n = 4
    BY <2>1, <2>2 DEF WithPublish
  <2>4. UNCHANGED <<disk, out>>
    BY <1>1, <2>1 DEF Publish
  <2>5. \A p \in Products : outStore'[p] = Uploaded(outStore[p], out[p])
    BY <2>2, <2>3 DEF PublishUpTo
  <2>6. ASSUME NEW k \in Sources, NEW t \in Derived
        PROVE  store'[k][t] = Uploaded(store[k][t], disk[k][t])
    <3>1. t \in Range(Trees) /\ t # "raw"
      BY TreesAre DEF Derived
    <3>2. Found(k, t) = disk[k][t]
      BY <3>1 DEF Found
    <3> QED
      BY <2>2, <2>3, <3>1, <3>2 DEF PublishUpTo
  <2>7. \A p \in Products : Sendable(out[p]) \in {"none", outStore'[p]}
    BY <2>5, UploadedIs
  <2>8. \A k \in Sources, t \in Derived : Sendable(disk[k][t]) \in {"none", store'[k][t]}
    BY <2>6, UploadedIs
  <2> QED
    BY <2>1, <2>4, <2>7, <2>8 DEF Sendable
<1>2. CASE UNCHANGED vars
  BY <1>2 DEF vars, specVars, dataVars, DoneIsDurable, Object, Sendable
<1> QED
  BY <1>1, <1>2 DEF Next, Prepare, Refuse, Load, BadWiring, JobStart, JobDone,
     EnterChunk, RunStage, StageRaises, Die, ExitChunk, Reduce, Abort, Finish

(* A job that ended well has its whole product in the store.                *)
THEOREM DoneIsInTheStore == Spec => []DoneIsDurable
<1>1. Init => DoneIsDurable
  BY DEF Init, DoneIsDurable
<1>2. TypeOK /\ Phase /\ DoneIsDurable /\ [Next]_vars => DoneIsDurable'
  BY DurableStep
<1> QED
  BY <1>1, <1>2, TypeIsKept, PhaseIsKept, PTL DEF Spec

(***************************************************************************)
(* One chunk at a time.                                                    *)
(***************************************************************************)

LEMMA ResidentInit == Init => ResidentCounted
<1> SUFFICES ASSUME Init, Bounded PROVE ResidentCounted
  BY DEF ResidentCounted
<1>1. \A k \in Sources, t \in Range(Trees) : disk[k][t] = "none"
  BY DEF Init, Bounded
<1>2. Resident = {} /\ Resident \ {key} = {}
  BY <1>1 DEF Resident
<1>3. IsFiniteSet(Resident) /\ Cardinality(Resident \ {key}) = 0
  BY <1>2, FS_EmptySet
<1>4. faults = 0
  BY DEF Init
<1> QED
  BY <1>2, <1>3, <1>4 DEF ResidentCounted

LEMMA ResidentSame ==
    ASSUME ResidentCounted, UNCHANGED <<spec, stages, disk, key>>, faults' \in Nat, faults \in Nat,
           faults <= faults', pc' \in Before => pc \in Before, pc' = "chunks" => pc = "chunks",
           IsFiniteSet(Resident) => Cardinality(Resident \ {key}) \in Nat
    PROVE  ResidentCounted'
<1>1. Resident' = Resident
  BY DEF Resident
<1>2. Bounded' = Bounded /\ Chunked' = Chunked
  BY SameStages
<1> QED
  BY <1>1, <1>2 DEF ResidentCounted

LEMMA WithoutOne ==
    ASSUME NEW S, NEW x, IsFiniteSet(S)
    PROVE  /\ IsFiniteSet(S \ {x})
           /\ Cardinality(S) \in Nat /\ Cardinality(S \ {x}) \in Nat
           /\ Cardinality(S \ {x}) <= Cardinality(S)
           /\ Cardinality(S) <= Cardinality(S \ {x}) + 1
<1>1. /\ IsFiniteSet(S \ {x})
      /\ Cardinality(S \ {x}) = IF x \in S THEN Cardinality(S) - 1 ELSE Cardinality(S)
  BY FS_RemoveElement
<1>2. Cardinality(S) \in Nat /\ Cardinality(S \ {x}) \in Nat
  BY <1>1, FS_CardinalityType
<1> QED
  BY <1>1, <1>2

LEMMA ResidentStep ==
    ASSUME TypeOK, Phase, ResidentCounted, [Next]_vars
    PROVE  ResidentCounted'
<1>a. faults \in Nat /\ key \in Sources \cup {NoKey} /\ NoKey \notin Sources
  BY SpecIs DEF TypeOK
<1>b. Resident \subseteq Sources
  BY DEF Resident
<1>c. ASSUME UNCHANGED <<spec, stages, disk, key>>, faults' \in Nat, faults <= faults',
             pc' \in Before => pc \in Before, pc' = "chunks" => pc = "chunks"
      PROVE  ResidentCounted'
  BY <1>a, <1>c, ResidentSame, WithoutOne
<1>d. ASSUME UNCHANGED <<spec, stages, disk, key, faults>>, pc' \in Before => pc \in Before,
             pc' = "chunks" => pc = "chunks"
      PROVE  ResidentCounted'
  BY <1>a, <1>c, <1>d
<1>1. CASE Prepare
  <2>1. CASE disk' = disk
    <3>1. faults' \in Nat /\ faults <= faults'
      <4>1. CASE \E ready \in BOOLEAN : Fetch(Range(spec.sources), ready)
        <5>1. Range(spec.sources) \subseteq Sources /\ IsFiniteSet(Range(spec.sources))
          BY SpecIs, RangeOfSeq, RangeFinite
        <5> QED
          BY <4>1, <5>1, FetchIs
      <4>2. CASE Fault(1) \/ faults' = faults
        BY <4>2, <1>a DEF Fault
      <4> QED
        BY <1>1, <4>1, <4>2 DEF Prepare, dataVars
    <3>2. UNCHANGED <<spec, stages, key>> /\ pc' # "chunks" /\ pc \in Before
      BY <1>1 DEF Prepare, specVars, loopVars, Before
    <3> QED
      BY <1>c, <2>1, <3>1, <3>2
  <2>2. CASE Object /\ ~spec.chunkBy
    BY <1>1, <2>2 DEF Prepare, specVars, ResidentCounted, Bounded
  <2> QED
    BY <1>1, <2>1, <2>2 DEF Prepare, dataVars
<1>2. CASE Load
  BY <1>2, <1>a DEF Load, loopVars, dataVars, Resident, Bounded, Fetches, ResidentCounted, Before,
     Phase
<1>3. CASE EnterChunk
  <2>1. Chunked /\ UNCHANGED <<spec, stages>> /\ pc' \notin Before /\ key' = Head(left) /\ key = NoKey
    BY <1>3 DEF EnterChunk, specVars, Before, Phase
  <2>2. Bounded' = Bounded /\ Chunked' = Chunked
    BY <2>1, SameStages
  <2> SUFFICES ASSUME Bounded
               PROVE  IsFiniteSet(Resident') /\ Cardinality(Resident' \ {key'}) <= faults'
    BY <2>1, <2>2 DEF ResidentCounted
  <2>3. IsFiniteSet(Resident) /\ Cardinality(Resident \ {key}) <= faults
    BY <1>3, <2>1 DEF ResidentCounted, EnterChunk
  <2>4. PICK ready : Fetch({Head(left)}, ready)
    BY <1>3 DEF EnterChunk, Bounded
  <2>5. /\ \A k \in Sources \ {Head(left)} : disk'[k] = disk[k]
        /\ faults <= faults' /\ faults' \in Nat
    BY <1>3, <2>4, EntersOne, FetchIs
  <2>6. Resident' \ {key'} = Resident \ {key'}
    BY <2>1, <2>5 DEF Resident
  <2>7. Resident' \subseteq Resident \cup {key'}
    BY <2>6
  <2>8. IsFiniteSet(Resident')
    BY <2>3, <2>7, FS_AddElement, FS_Subset
  <2>9. Resident \ {key} = Resident
    BY <2>1, <1>a, <1>b
  <2>10. /\ Cardinality(Resident \ {key'}) <= Cardinality(Resident)
         /\ Cardinality(Resident) \in Nat /\ Cardinality(Resident \ {key'}) \in Nat
    BY <2>3, WithoutOne
  <2> QED
    BY <1>a, <2>3, <2>5, <2>6, <2>8, <2>9, <2>10
<1>4. CASE RunStage \/ StageRaises
  <2>1. UNCHANGED <<spec, stages, key>> /\ pc' \notin Before /\ pc' # "chunks"
    BY <1>4 DEF RunStage, StageRaises, specVars, Before
  <2>2. faults' = faults /\ (key # NoKey => \A k \in Sources : k # key => disk'[k] = disk[k])
    <3>1. CASE \E s : Works(s)
      BY <3>1, WorksIs
    <3>2. CASE UNCHANGED dataVars
      BY <3>2 DEF dataVars
    <3> QED
      BY <1>4, <3>1, <3>2 DEF RunStage, StageRaises
  <2>3. Bounded' = Bounded /\ Chunked' = Chunked
    BY <2>1, SameStages
  <2> SUFFICES ASSUME Bounded, Chunked, key # NoKey
               PROVE  IsFiniteSet(Resident') /\ Cardinality(Resident' \ {key}) <= faults
    BY <2>1, <2>2, <2>3 DEF ResidentCounted
  <2>4. IsFiniteSet(Resident) /\ Cardinality(Resident \ {key}) <= faults
    BY DEF ResidentCounted
  <2>5. Resident' \ {key} = Resident \ {key}
    BY <2>2 DEF Resident
  <2>6. IsFiniteSet(Resident')
    <3>1. Resident' \subseteq Resident \cup {key}
      BY <2>5
    <3> QED
      BY <2>4, <3>1, FS_AddElement, FS_Subset
  <2> QED
    BY <2>4, <2>5, <2>6
<1>5. CASE ExitChunk
  <2>1. /\ key \in Sources /\ LeaveChunk(key) /\ key' = NoKey /\ UNCHANGED <<spec, stages>>
        /\ pc' \notin Before /\ Chunked
    BY <1>5, <1>a DEF ExitChunk, specVars, Before, Phase
  <2>2. Bounded' = Bounded /\ Chunked' = Chunked
    BY <2>1, SameStages
  <2> SUFFICES ASSUME Bounded
               PROVE  IsFiniteSet(Resident') /\ Cardinality(Resident' \ {key'}) <= faults'
    BY <2>1, <2>2 DEF ResidentCounted
  <2>3. IsFiniteSet(Resident) /\ Cardinality(Resident \ {key}) <= faults
    BY <1>5, <2>1 DEF ResidentCounted, ExitChunk
  <2>4. Resident' \ {key'} = Resident'
    BY <2>1, <1>a DEF Resident
  <2>5. Cardinality(Resident \ {key}) \in Nat /\ Cardinality(Resident) \in Nat
        /\ Cardinality(Resident) <= Cardinality(Resident \ {key}) + 1
    BY <2>3, WithoutOne
  <2>6. \A c \in Sources \ {key} : disk'[c] = disk[c]
    BY <2>1, LeaveIs
  <2>7. CASE faults' = faults /\ \A t \in Range(Trees) : disk'[key][t] = "none"
    <3>1. Resident' = Resident \ {key}
      BY <2>6, <2>7 DEF Resident
    <3> QED
      BY <2>3, <2>4, <2>5, <2>7, <3>1, FS_RemoveElement
  <2>8. CASE faults' = faults + 1 /\ disk' = disk
    <3>1. Resident' = Resident
      BY <2>8 DEF Resident
    <3> QED
      BY <1>a, <2>3, <2>4, <2>5, <2>8, <3>1
  <2> QED
    <3>1. \/ faults' = faults /\ \A t \in Range(Trees) : disk'[key][t] = "none"
          \/ faults' = faults + 1 /\ disk' = disk
      BY <2>1, LeaveIs DEF Bounded
    <3> QED
      BY <2>7, <2>8, <3>1
<1>6. CASE Publish
  <2>1. UNCHANGED <<spec, stages, disk, key>> /\ pc' \notin Before /\ pc' # "chunks"
    BY <1>6 DEF Publish, specVars, loopVars, dataVars, Before
  <2>2. faults' \in Nat /\ faults <= faults'
    <3>1. CASE Object /\ spec.outRoot
      <4>1. PICK n \in 0..4 : Fault(IF n < 4 THEN 1 ELSE 0)
        BY <1>6, <3>1 DEF Publish
      <4>2. (IF n < 4 THEN 1 ELSE 0) \in Nat
        OBVIOUS
      <4> QED
        BY <1>a, <4>1, <4>2 DEF Fault
    <3>2. CASE ~Object \/ ~spec.outRoot
      BY <1>6, <1>a, <3>2 DEF Publish, dataVars
    <3> QED
      BY <3>1, <3>2
  <2> QED
    BY <1>c, <2>1, <2>2
<1>7. CASE Refuse
  BY <1>7, <1>d DEF Refuse, specVars, loopVars, dataVars, Before
<1>8. CASE BadWiring
  BY <1>8, <1>d DEF BadWiring, JobDone, specVars, loopVars, dataVars, Before
<1>9. CASE JobStart
  <2>1. Resident' = Resident /\ Bounded' = Bounded /\ UNCHANGED <<key, faults>> /\ pc' \notin Before
    BY <1>9 DEF JobStart, specVars, dataVars, Resident, Bounded, Fetches, Before
  <2>2. Bounded => Resident = {} /\ IsFiniteSet(Resident) /\ Cardinality(Resident \ {key}) = 0
    BY <1>9, FS_EmptySet DEF ResidentCounted, JobStart, Before
  <2> QED
    BY <1>a, <2>1, <2>2 DEF ResidentCounted
<1>10. CASE Reduce
  BY <1>10, <1>d DEF Reduce, specVars, dataVars, Before
<1>11. CASE Abort
  BY <1>11, <1>d DEF Abort, JobDone, specVars, loopVars, dataVars, Before
<1>12. CASE Finish
  BY <1>12, <1>d DEF Finish, JobDone, specVars, loopVars, dataVars, Before
<1>13. CASE UNCHANGED vars
  BY <1>13, <1>d DEF vars, specVars, loopVars, dataVars
<1>14. CASE Die
  BY <1>14 DEF Die, ResidentCounted, Before
<1> QED
  BY <1>1, <1>2, <1>3, <1>4, <1>5, <1>6, <1>7, <1>8, <1>9, <1>10, <1>11, <1>12, <1>13, <1>14
  DEF Next

LEMMA ResidentGivesOne ==
    ASSUME TypeOK, ResidentCounted
    PROVE  OneResident
<1> SUFFICES ASSUME Fetches, spec.corpus = "told", Chunked, pc = "chunks" \/ key # NoKey
             PROVE  Cardinality(Resident) <= 1 + faults
  BY DEF OneResident, Resident
<1>1. IsFiniteSet(Resident) /\ Cardinality(Resident \ {key}) <= faults
  BY DEF ResidentCounted, Bounded, Chunked, Hooked
<1>2. /\ Cardinality(Resident \ {key}) \in Nat /\ Cardinality(Resident) \in Nat
      /\ Cardinality(Resident) <= Cardinality(Resident \ {key}) + 1
  BY <1>1, WithoutOne
<1> QED
  BY <1>1, <1>2 DEF TypeOK

(* Of a chunked job's sources, the pod holds one besides those that a fault *)
(* left there, as long as chunks are worked and the sources are where leave *)
(* removes them from: for any number of sources and faults.                 *)
THEOREM OneChunkAtATime == Spec => []OneResident
<1>1. TypeOK /\ Phase /\ ResidentCounted /\ [Next]_vars => ResidentCounted'
  BY ResidentStep
<1>2. TypeOK /\ ResidentCounted => OneResident
  BY ResidentGivesOne
<1> QED
  BY ResidentInit, <1>1, <1>2, TypeIsKept, PhaseIsKept, PTL DEF Spec

(***************************************************************************)
(* A job that is done.                                                     *)
(***************************************************************************)

LEMMA CountedInit == Init => Counted
  BY DEF Init, Counted, Running

LEMMA AheadIsNat ==
    ASSUME TypeOK
    PROVE  Ahead \in Nat
<1>1. Len(left) \in Nat /\ Len(ChunkStages) \in Nat /\ Len(Rest) \in Nat
  BY StagesAre, LenProperties DEF TypeOK
<1>2. \A m, n \in Nat : m * n \in Nat
  OBVIOUS
<1>3. Len(left) * Len(ChunkStages) \in Nat
  BY <1>1, <1>2
<1> QED
  BY ONLY <1>1, <1>3 DEF Ahead

(* A result can only spoil a run that was fine. *)
LEMMA FineBefore ==
    ASSUME TypeOK, NEW r \in ResultType, results' = Append(results, r)
    PROVE  /\ Len(results') = Len(results) + 1
           /\ AllFine' <=> AllFine /\ r.status \in {"ok", "skipped"}
<1>1. results \in Seq(ResultType)
  BY DEF TypeOK, ResultType
<1>2. /\ Len(results') = Len(results) + 1
      /\ \A i \in 1..Len(results) : results'[i] = results[i]
      /\ results'[Len(results) + 1] = r
      /\ DOMAIN results = 1..Len(results) /\ DOMAIN results' = 1..(Len(results) + 1)
      /\ Len(results) \in Nat
  BY <1>1, AppendProperties, LenProperties
<1>3. 1..(Len(results) + 1) = 1..Len(results) \cup {Len(results) + 1}
  BY <1>2
<1>4. AllFine' <=> \A i \in DOMAIN results' : results'[i].status \in {"ok", "skipped"}
  BY DEF AllFine
<1> QED
  BY ONLY <1>2, <1>3, <1>4 DEF AllFine

LEMMA CountedStep ==
    ASSUME TypeOK, Phase, Counted, Next
    PROVE  Counted'
<1>a. /\ rep \in RepType /\ results \in Seq(ResultType) /\ Len(results) \in Nat
      /\ queue \in Seq(Range(spec.stages)) /\ Len(queue) \in Nat
      /\ Ahead \in Nat /\ rep.index \in Nat /\ rep.total \in Nat
  BY AheadIsNat, LenProperties DEF TypeOK, RepType, ResultType
<1>b. /\ Len(ChunkStages) \in Nat /\ Len(Rest) \in Nat /\ Len(left) \in Nat
      /\ ChunkStages \in Seq(Range(spec.stages))
  BY StagesAre, LenProperties DEF TypeOK
<1>c. ASSUME pc' \notin Running, rep'.index = rep.index, rep'.total = rep.total
      PROVE  Counted'
  BY <1>c DEF Counted
<1>1. CASE Prepare
  BY <1>1, <1>c DEF Prepare, Running
<1>2. CASE Refuse
  BY <1>2, <1>c DEF Refuse, Running
<1>3. CASE Load
  BY <1>3, <1>c DEF Load, Running
<1>4. CASE BadWiring
  BY <1>4, <1>c, <1>a DEF BadWiring, JobDone, Running, RepType
<1>5. CASE JobStart
  <2>1. /\ rep'.total = TotalOf /\ rep'.index = 0 /\ Len(results') = 0 /\ key' = NoKey
        /\ UNCHANGED <<spec, stages>>
    BY <1>5, <1>a DEF JobStart, RepType, Phase, Before, specVars
  <2>2. Chunked' = Chunked /\ ChunkStages' = ChunkStages /\ Rest' = Rest
    BY <2>1, SameStages
  <2>3. CASE Chunked
    <3>1. pc' = "chunks" /\ left' = spec.sources /\ Len(queue') = 0
      BY <1>5, <2>3 DEF JobStart
    <3>2. Ahead' = Len(spec.sources) * Len(ChunkStages) + Len(Rest)
      BY <2>2, <2>3, <3>1 DEF Ahead
    <3>3. /\ Len(ChunkStages) * Len(spec.sources) = Len(spec.sources) * Len(ChunkStages)
          /\ Len(ChunkStages) * Len(spec.sources) \in Nat
      <4>1. Len(spec.sources) \in Nat
        BY SpecIs, LenProperties
      <4>2. \A m, n \in Nat : m * n = n * m /\ m * n \in Nat
        OBVIOUS
      <4> QED
        BY ONLY <4>1, <4>2, <1>b
    <3>4. Ahead' = TotalOf /\ TotalOf \in Nat
      BY ONLY <3>2, <3>3, <1>b, <2>3 DEF TotalOf
    <3> QED
      BY <2>1, <3>1, <3>4 DEF Counted
  <2>4. CASE ~Chunked
    <3>1. pc' = "stages" /\ queue' = stages
      BY <1>5, <2>4 DEF JobStart
    <3>2. Ahead' = 0 /\ TotalOf = Len(stages)
      BY <2>2, <2>4 DEF Ahead, TotalOf
    <3>3. Len(stages) \in Nat
      BY LenProperties DEF TypeOK
    <3> QED
      BY <2>1, <3>1, <3>2, <3>3 DEF Counted
  <2> QED
    BY <2>3, <2>4
<1>6. CASE EnterChunk
  <2>1. /\ rep'.total = rep.total /\ rep'.index = rep.index /\ results' = results
        /\ queue' = ChunkStages /\ left' = Tail(left) /\ key' = Head(left) /\ pc' = "stages"
        /\ pc = "chunks" /\ left # <<>> /\ UNCHANGED <<spec, stages>>
    BY <1>6, <1>a DEF EnterChunk, RepType, specVars
  <2>2. Chunked /\ queue = <<>>
    BY <2>1 DEF Phase
  <2>3. Chunked' = Chunked /\ ChunkStages' = ChunkStages /\ Rest' = Rest
    BY <2>1, SameStages
  <2>4. Head(left) # NoKey /\ Len(left) = Len(Tail(left)) + 1 /\ Len(Tail(left)) \in Nat
    BY <2>1, HeadAndTail, LenProperties, SpecIs DEF TypeOK
  <2>5. /\ Ahead = Len(left) * Len(ChunkStages) + Len(Rest)
        /\ Ahead' = Len(Tail(left)) * Len(ChunkStages) + Len(Rest)
    BY <2>1, <2>2, <2>3, <2>4 DEF Ahead
  <2>6. Len(left) * Len(ChunkStages) = Len(Tail(left)) * Len(ChunkStages) + Len(ChunkStages)
        /\ Len(Tail(left)) * Len(ChunkStages) \in Nat
    <3>1. \A m, n \in Nat : (m + 1) * n = m * n + n /\ m * n \in Nat
      OBVIOUS
    <3> QED
      BY ONLY <3>1, <2>4, <1>b
  <2>7. Len(queue) = 0 /\ Ahead = Len(ChunkStages) + Ahead' /\ Ahead' \in Nat
    BY ONLY <2>2, <2>5, <2>6, <1>b, EmptySeq
  <2>8. Len(queue') = Len(ChunkStages) /\ Len(results') = Len(results) /\ AllFine' = AllFine
    BY <2>1 DEF AllFine
  <2>9. pc \in Running /\ pc' \in Running
    BY <2>1 DEF Running
  <2> QED
    BY ONLY <2>1, <2>7, <2>8, <2>9, <1>a, <1>b, Counted DEF Counted
<1>7. CASE RunStage
  <2>1. /\ pc = "stages" /\ queue # <<>> /\ UNCHANGED <<spec, stages, pc, left, key>>
        /\ rep' = [rep EXCEPT !.index = @ + 1]
    BY <1>7 DEF RunStage, specVars
  <2>2. rep'.total = rep.total /\ rep'.index = rep.index + 1
    BY <2>1, <1>a DEF RepType
  <2>3. Ahead' = Ahead
    BY <2>1, SameStages DEF Ahead
  <2>4. PICK status \in {"skipped", "failed", "ok"} :
          /\ results' = Append(results, [stage |-> Head(queue), chunk |-> key, status |-> status])
          /\ queue' = IF Stops(Head(queue), status) THEN <<>> ELSE Tail(queue)
    BY <1>7 DEF RunStage
  <2>5. Head(queue) \in Range(spec.stages) /\ Len(queue) = Len(Tail(queue)) + 1
        /\ Len(Tail(queue)) \in Nat
    BY <2>1, <1>a, HeadAndTail, LenProperties
  <2>6. [stage |-> Head(queue), chunk |-> key, status |-> status] \in ResultType
    BY <2>5 DEF TypeOK, ResultType
  <2>7. /\ Len(results') = Len(results) + 1
        /\ AllFine' => AllFine /\ status \in {"ok", "skipped"}
    BY <2>4, <2>6, FineBefore
  <2>8. Len(<<>>) = 0
    BY EmptySeq
  <2>9. /\ Len(queue') \in Nat /\ Len(queue') + 1 <= Len(queue)
        /\ AllFine' => Len(queue') + 1 = Len(queue)
    <3>1. CASE Stops(Head(queue), status)
      <4>1. status = "failed"
        BY <3>1 DEF Stops
      <4> QED
        BY ONLY <2>4, <2>5, <2>7, <2>8, <3>1, <4>1
    <3>2. CASE ~Stops(Head(queue), status)
      BY ONLY <2>4, <2>5, <2>7, <3>2
    <3> QED
      BY <3>1, <3>2
  <2>10. pc \in Running /\ pc' \in Running
    BY <2>1 DEF Running
  <2> QED
    BY ONLY <2>2, <2>3, <2>7, <2>9, <2>10, <1>a, Counted DEF Counted
<1>8. CASE ExitChunk
  <2>1. /\ rep'.total = rep.total /\ rep'.index = rep.index /\ UNCHANGED <<results, queue, left>>
        /\ key # NoKey /\ pc = "stages" /\ pc' = "chunks" /\ UNCHANGED <<spec, stages>>
    BY <1>8, <1>a DEF ExitChunk, RepType, specVars
  <2>2. Chunked
    BY <2>1 DEF Phase
  <2>3. Ahead' = Ahead
    BY <2>1, <2>2, SameStages DEF Ahead
  <2>4. AllFine' = AllFine /\ Len(results') = Len(results) /\ Len(queue') = Len(queue)
    BY <2>1 DEF AllFine
  <2>5. pc \in Running /\ pc' \in Running
    BY <2>1 DEF Running
  <2> QED
    BY ONLY <2>1, <2>3, <2>4, <2>5, Counted DEF Counted
<1>9. CASE Reduce
  <2>1. /\ UNCHANGED <<rep, results, spec, stages, key>> /\ queue' = Rest /\ pc' = "stages"
        /\ pc = "chunks" /\ left = <<>>
    BY <1>9 DEF Reduce, specVars
  <2>2. Chunked /\ key = NoKey /\ queue = <<>>
    BY <2>1 DEF Phase
  <2>3. Chunked' = Chunked
    BY <2>1, SameStages
  <2>4. Len(left) = 0 /\ Len(queue) = 0 /\ Len(queue') = Len(Rest)
    BY <2>1, <2>2, EmptySeq
  <2>5. Ahead = Len(left) * Len(ChunkStages) + Len(Rest) /\ Ahead' = 0
    BY <2>1, <2>2, <2>3 DEF Ahead
  <2>6. Ahead = Len(Rest)
    <3>1. \A n \in Nat : 0 * n = 0
      OBVIOUS
    <3> QED
      BY ONLY <3>1, <2>4, <2>5, <1>b
  <2>7. AllFine' = AllFine /\ Len(results') = Len(results)
    BY <2>1 DEF AllFine
  <2>8. pc \in Running /\ pc' \in Running
    BY <2>1 DEF Running
  <2> QED
    BY ONLY <2>1, <2>4, <2>5, <2>6, <2>7, <2>8, <1>a, <1>b, Counted DEF Counted
<1>10. CASE Abort
  BY <1>10, <1>c, <1>a DEF Abort, JobDone, Running, RepType
<1>11. CASE Finish
  BY <1>11, <1>c, <1>a DEF Finish, JobDone, Running, RepType
<1>12. CASE Publish
  BY <1>12, <1>c DEF Publish, Running
<1>13. CASE StageRaises
  <2>1. /\ pc = "stages" /\ queue # <<>> /\ pc' = "raised"
        /\ rep'.total = rep.total /\ rep'.index = rep.index + 1
    BY <1>13, <1>a DEF StageRaises, RepType
  <2>2. Len(queue) # 0
    BY <2>1, <1>a, EmptySeq
  <2>3. rep.index = Len(results) /\ Len(results) + Len(queue) + Ahead <= rep.total
    BY <2>1 DEF Counted, Running
  <2>4. rep'.index <= rep'.total
    BY ONLY <2>1, <2>2, <2>3, <1>a
  <2> QED
    BY <2>1, <2>4 DEF Counted, Running
<1>14. CASE Die
  BY <1>14, <1>c, <1>a DEF Die, Running, RepType
<1> QED
  BY <1>1, <1>2, <1>3, <1>4, <1>5, <1>6, <1>7, <1>8, <1>9, <1>10, <1>11, <1>12, <1>13, <1>14
  DEF Next

LEMMA CountedStutter ==
    ASSUME Counted, UNCHANGED vars
    PROVE  Counted'
<1> USE DEF vars, specVars, loopVars, dataVars
<1>1. Ahead' = Ahead
  BY SameStages DEF Ahead
<1>2. AllFine' = AllFine
  BY DEF AllFine
<1> QED
  BY <1>1, <1>2 DEF Counted

(* The word "done" comes from Finish alone, over counts that are complete.  *)
LEMMA DoneStep ==
    ASSUME TypeOK, Phase, Counted, DoneIsWhole, [Next]_vars
    PROVE  DoneIsWhole'
<1>a. rep \in RepType
  BY DEF TypeOK, RepType
<1>1. CASE Finish
  <2>1. pc = "stages" /\ queue = <<>> /\ key = NoKey /\ results' = results
    BY <1>1 DEF Finish
  <2>2. /\ rep'.total = rep.total /\ rep'.index = rep.index
        /\ rep'.verdict = "done" => AllFine
    BY <1>1, <1>a DEF Finish, JobDone, RepType
  <2>3. Ahead = 0 /\ Len(queue) = 0
    BY <2>1, EmptySeq DEF Ahead
  <2>4. Len(results) \in Nat
    BY LenProperties DEF TypeOK
  <2>5. rep.index = Len(results) /\ (AllFine => Len(results) = rep.total)
    BY <2>1, <2>3, <2>4 DEF Counted, Running
  <2> QED
    BY <2>1, <2>2, <2>5 DEF DoneIsWhole, AllFine
<1>2. CASE UNCHANGED <<rep, results>>
  BY <1>2 DEF DoneIsWhole
<1>3. CASE rep'.verdict # "done"
  BY <1>3 DEF DoneIsWhole
<1>4. pc \in Before \cup Running \cup {"raised"} => rep.verdict = "none"
  BY DEF Phase
<1>5. CASE BadWiring
  BY <1>5, <1>3, <1>a DEF BadWiring, JobDone, RepType
<1>6. CASE Abort
  BY <1>6, <1>3, <1>a DEF Abort, JobDone, RepType
<1>7. CASE JobStart
  BY <1>7, <1>3, <1>4, <1>a DEF JobStart, RepType, Before
<1>8. CASE EnterChunk
  BY <1>8, <1>3, <1>4, <1>a DEF EnterChunk, RepType, Running
<1>9. CASE RunStage
  BY <1>9, <1>3, <1>4, <1>a DEF RunStage, RepType, Running
<1>10. CASE ExitChunk
  BY <1>10, <1>3, <1>4, <1>a DEF ExitChunk, RepType, Running
<1>11. CASE StageRaises
  BY <1>11, <1>3, <1>4, <1>a DEF StageRaises, RepType, Running
<1>12. CASE Die
  BY <1>12, <1>3, <1>4, <1>a DEF Die, RepType
<1> QED
  BY <1>1, <1>2, <1>5, <1>6, <1>7, <1>8, <1>9, <1>10, <1>11, <1>12
  DEF Next, Prepare, Refuse, Load, Reduce, Publish, vars

(* A job is said to be done only when every stage planned, for every chunk, *)
(* has come to a result and none of them failed.                            *)
THEOREM DoneMeansAllOfIt == Spec => []DoneIsWhole
<1>1. Init => DoneIsWhole
  BY DEF Init, DoneIsWhole
<1>2. TypeOK /\ Phase /\ Counted /\ [Next]_vars => Counted'
  BY CountedStep, CountedStutter
<1>3. TypeOK /\ Phase /\ Counted /\ DoneIsWhole /\ [Next]_vars => DoneIsWhole'
  BY DoneStep
<1> QED
  BY <1>1, <1>2, <1>3, CountedInit, TypeIsKept, PhaseIsKept, PTL DEF Spec

(***************************************************************************)
(* No stage of the job over a hole.                                        *)
(***************************************************************************)

(* What came through stays so as results are added. *)
LEMMA ThroughStays ==
    ASSUME NEW k, NEW s, NEW m \in Nat, NEW n \in Nat, m <= n,
           \A j \in 1..m : results'[j] = results[j], Through(k, s, m)
    PROVE  Through(k, s, n)'
  BY DEF Through

LEMMA HoleInit == Init => NoHoleYet /\ NothingOverAHole
  BY DEF Init, NoHoleYet, NothingOverAHole, Running

(* A step that leaves the results and the loop alone disturbs nothing.      *)
LEMMA HoleSame ==
    ASSUME NoHoleYet, NothingOverAHole, UNCHANGED <<spec, stages, results>>,
           \/ pc' \notin Running /\ key' = NoKey
           \/ UNCHANGED <<pc, key, queue, left, aborted>>
    PROVE  NoHoleYet' /\ NothingOverAHole'
<1>1. Chunked' = Chunked /\ ChunkStages' = ChunkStages
  BY SameStages
<1>2. NothingOverAHole'
  BY <1>1 DEF NothingOverAHole
<1>3. NoHoleYet'
  BY <1>1 DEF NoHoleYet, Through, Running
<1> QED
  BY <1>2, <1>3

LEMMA HoleStep ==
    ASSUME TypeOK, Phase, NoHoleYet, NothingOverAHole, [Next]_vars
    PROVE  NoHoleYet' /\ NothingOverAHole'
<1>a. /\ results \in Seq(ResultType) /\ Len(results) \in Nat /\ DOMAIN results = 1..Len(results)
      /\ queue \in Seq(Range(spec.stages)) /\ left \in Seq(Sources)
      /\ key \in Sources \cup {NoKey} /\ NoKey \notin Sources
      /\ Range(spec.sources) \subseteq Sources
  BY SpecIs, RangeOfSeq, LenProperties DEF TypeOK, ResultType
<1>b. Range(<<>>) = {}
  BY DEF Range
<1>0. CASE UNCHANGED vars
  BY <1>0, HoleSame DEF vars, specVars, loopVars
<1>1. CASE Prepare
  BY <1>1, HoleSame DEF Prepare, Phase, Before, Running, specVars, loopVars
<1>2. CASE Refuse
  BY <1>2, HoleSame DEF Refuse, Phase, Before, Running, specVars, loopVars
<1>3. CASE Load
  <2>1. results' = <<>> /\ pc' \notin Running /\ key' = NoKey /\ pc' # "chunks" /\ pc' # "stages"
    BY <1>3 DEF Load, Phase, Before, Running, loopVars
  <2> QED
    BY <2>1 DEF NoHoleYet, NothingOverAHole
<1>4. CASE BadWiring
  BY <1>4, HoleSame DEF BadWiring, JobDone, Phase, Before, Running, specVars, loopVars
<1>5. CASE JobStart
  <2>1. results' = <<>> /\ key' = NoKey /\ UNCHANGED <<spec, stages>>
    BY <1>5 DEF JobStart, Phase, Before, specVars
  <2>2. Chunked' = Chunked
    BY <2>1, SameStages
  <2>3. NothingOverAHole'
    BY <2>1 DEF NothingOverAHole
  <2>4. Chunked => pc' = "chunks" /\ left' = spec.sources /\ queue' = <<>>
    BY <1>5 DEF JobStart
  <2>5. NoHoleYet'
    BY <1>b, <2>1, <2>2, <2>4 DEF NoHoleYet
  <2> QED
    BY <2>3, <2>5
<1>6. CASE EnterChunk
  <2>1. /\ results' = results /\ queue' = ChunkStages /\ left' = Tail(left) /\ key' = Head(left)
        /\ pc' = "stages" /\ pc = "chunks" /\ left # <<>> /\ aborted' = aborted /\ ~aborted
        /\ UNCHANGED <<spec, stages>> /\ Chunked /\ key = NoKey
    BY <1>6 DEF EnterChunk, Phase, specVars
  <2>2. Chunked' = Chunked /\ ChunkStages' = ChunkStages
    BY <2>1, SameStages
  <2>3. NothingOverAHole'
    BY <2>1, <2>2 DEF NothingOverAHole
  <2>4. Range(left) = {key'} \cup Range(left')
    BY <2>1, <1>a, HeadAndTail
  <2>5. \A i \in DOMAIN results' : PerChunk(results'[i].stage)
    BY <2>1 DEF NoHoleYet
  <2>6. \A s \in Range(queue') : PerChunk(s)
    BY <2>1, StagesAre
  <2>7. \A k \in Range(spec.sources), s \in Range(ChunkStages) :
            k \in Range(left) \/ Through(k, s, Len(results))
    BY <2>1, <1>a DEF NoHoleYet, Running
  <2>8. \A k \in Range(spec.sources), s \in Range(ChunkStages) :
            k = key' \/ k \in Range(left') \/ Through(k, s, Len(results))'
    BY <2>1, <2>4, <2>7 DEF Through
  <2>9. NoHoleYet'
    BY <2>1, <2>2, <2>5, <2>6, <2>8 DEF NoHoleYet
  <2> QED
    BY <2>3, <2>9
<1>7. CASE RunStage
  <2>1. /\ pc = "stages" /\ queue # <<>> /\ UNCHANGED <<spec, stages, pc, left, key>>
    BY <1>7 DEF RunStage, specVars
  <2>2. Chunked' = Chunked /\ ChunkStages' = ChunkStages
    BY <2>1, SameStages
  <2>0. PICK s0 : s0 = Head(queue)
    OBVIOUS
  <2>3. PICK status \in {"skipped", "failed", "ok"} :
          /\ results' = Append(results, [stage |-> s0, chunk |-> key, status |-> status])
          /\ queue' = IF Stops(s0, status) THEN <<>> ELSE Tail(queue)
          /\ aborted' = (aborted \/ (Stops(s0, status) /\ key # NoKey))
    BY <1>7, <2>0 DEF RunStage
  <2>4. s0 \in Range(spec.stages) /\ Range(queue) = {s0} \cup Range(Tail(queue))
    BY <2>0, <2>1, <1>a, HeadAndTail
  <2> DEFINE r == [stage |-> s0, chunk |-> key, status |-> status]
  <2>5. r \in ResultType /\ r.stage = s0 /\ r.chunk = key /\ r.status = status
    BY <2>4, <1>a DEF ResultType
  <2> HIDE DEF r
  <2>6. /\ Len(results') = Len(results) + 1
        /\ \A i \in 1..Len(results) : results'[i] = results[i]
        /\ results'[Len(results) + 1] = r
        /\ DOMAIN results' = 1..(Len(results) + 1)
    <3>1. results' = Append(results, r)
      BY <2>3 DEF r
    <3> QED
      BY ONLY <3>1, <2>5, <1>a, AppendProperties, LenProperties
  <2>7. \A k, s : Through(k, s, Len(results)) => Through(k, s, Len(results))'
    BY <2>6, <1>a DEF Through
  <2>8. ASSUME ~Stops(s0, status) PROVE Through(key, s0, Len(results))'
    <3>1. status # "failed" \/ Registry[s0].optional
      BY <2>8 DEF Stops
    <3>2. Len(results) + 1 \in 1..Len(results')
      BY <2>6, <1>a
    <3>3. results'[Len(results) + 1].stage = s0 /\ results'[Len(results) + 1].chunk = key'
          /\ results'[Len(results) + 1].status = status
      BY <2>1, <2>5, <2>6
    <3> QED
      BY <3>1, <3>2, <3>3 DEF Through
  <2> SUFFICES ASSUME Chunked PROVE NoHoleYet' /\ NothingOverAHole'
    BY <2>2 DEF NoHoleYet, NothingOverAHole
  <2>9. key # NoKey => PerChunk(s0)
    BY <2>4 DEF NoHoleYet
  <2>10. \A s \in Range(queue') : s \in Range(queue)
    BY <2>3, <2>4, <1>b
  <2>11. key # NoKey => \A i \in DOMAIN results' : PerChunk(results'[i].stage)
    <3> SUFFICES ASSUME key # NoKey, NEW i \in DOMAIN results'
                 PROVE  PerChunk(results'[i].stage)
      OBVIOUS
    <3>1. CASE i \in 1..Len(results)
      BY <3>1, <2>6, <1>a DEF NoHoleYet
    <3>2. CASE i = Len(results) + 1
      BY <3>2, <2>5, <2>6, <2>9
    <3> QED
      BY <3>1, <3>2, <2>6, <1>a
  <2>12. ASSUME key # NoKey, ~aborted', NEW s \in Range(ChunkStages)
         PROVE  s \in Range(queue') \/ Through(key, s, Len(results))'
    <3>1. ~aborted /\ ~Stops(s0, status) /\ queue' = Tail(queue)
      BY <2>3, <2>12
    <3>2. s \in Range(queue) \/ Through(key, s, Len(results))
      BY <3>1, <2>1, <2>12 DEF NoHoleYet
    <3> QED
      <4>1. CASE s = s0
        BY <3>1, <4>1, <2>8
      <4>2. CASE s # s0
        <5>1. CASE s \in Range(queue)
          BY <3>1, <4>2, <5>1, <2>4
        <5>2. CASE Through(key, s, Len(results))
          BY <5>2, <2>1, <2>7
        <5> QED
          BY <3>2, <5>1, <5>2
      <4> QED
        BY <4>1, <4>2
  <2>13. ASSUME ~aborted', NEW k \in Range(spec.sources), NEW s \in Range(ChunkStages)
         PROVE  k = key \/ k \in Range(left) \/ Through(k, s, Len(results))'
    <3>1. ~aborted
      BY <2>3, <2>13
    <3> QED
      BY <3>1, <2>1, <2>7, <2>13 DEF NoHoleYet, Running
  <2>14. NoHoleYet'
    <3>1. \A s \in Range(queue') : key # NoKey => PerChunk(s)
      BY <2>10 DEF NoHoleYet
    <3>2. key' = key /\ left' = left /\ pc' = "stages" /\ spec' = spec
      BY <2>1
    <3> QED
      BY <3>1, <3>2, <2>2, <2>11, <2>12, <2>13 DEF NoHoleYet
  <2>15. NothingOverAHole'
    <3> SUFFICES ASSUME NEW i \in DOMAIN results', ~PerChunk(results'[i].stage),
                        results'[i].status \in {"ok", "failed"},
                        NEW k \in Range(spec.sources), NEW s \in Range(ChunkStages)
                 PROVE  Through(k, s, i - 1)'
      BY <2>1, <2>2 DEF NothingOverAHole, Through
    <3>1. CASE i \in 1..Len(results)
      <4>1. results'[i] = results[i] /\ i \in DOMAIN results /\ i - 1 \in Nat
        BY <3>1, <2>6, <1>a
      <4>2. Through(k, s, i - 1)
        BY <4>1 DEF NothingOverAHole, Through
      <4>3. \A j \in 1..(i - 1) : results'[j] = results[j]
        BY <3>1, <2>6, <1>a
      <4> QED
        BY <4>2, <4>3 DEF Through
    <3>2. CASE i = Len(results) + 1
      <4>1. key = NoKey
        BY <3>2, <2>5, <2>6, <2>9
      <4>2. left = <<>> /\ ~aborted
        BY <4>1, <2>1 DEF Phase
      <4>3. k # key /\ k \notin Range(left)
        BY <4>1, <4>2, <1>a, <1>b
      <4>4. Through(k, s, Len(results))
        BY <4>2, <4>3, <2>1 DEF NoHoleYet, Running
      <4>5. i - 1 = Len(results) /\ \A j \in 1..Len(results) : results'[j] = results[j]
        BY <3>2, <2>6, <1>a
      <4> QED
        BY <4>4, <4>5 DEF Through
    <3> QED
      BY <3>1, <3>2, <2>6, <1>a
  <2> QED
    BY <2>14, <2>15
<1>8. CASE ExitChunk
  <2>1. /\ UNCHANGED <<results, queue, left, aborted, spec, stages>>
        /\ pc = "stages" /\ queue = <<>> /\ key # NoKey /\ pc' = "chunks" /\ key' = NoKey
    BY <1>8 DEF ExitChunk, specVars
  <2>2. Chunked' = Chunked /\ ChunkStages' = ChunkStages /\ Chunked
    BY <2>1, SameStages DEF Phase
  <2>3. NothingOverAHole'
    BY <2>1, <2>2 DEF NothingOverAHole
  <2>4. /\ \A i \in DOMAIN results : PerChunk(results[i].stage)
        /\ \A s \in Range(queue) : PerChunk(s)
    BY <2>1, <2>2 DEF NoHoleYet
  <2>5. ASSUME ~aborted, NEW k \in Range(spec.sources), NEW s \in Range(ChunkStages)
        PROVE  k \in Range(left) \/ Through(k, s, Len(results))
    <3>1. Through(key, s, Len(results))
      BY <2>1, <2>2, <2>5, <1>b DEF NoHoleYet
    <3> QED
      BY <3>1, <2>1, <2>2, <2>5 DEF NoHoleYet, Running
  <2>6. NoHoleYet'
    BY <2>1, <2>2, <2>4, <2>5 DEF NoHoleYet, Through
  <2> QED
    BY <2>3, <2>6
<1>9. CASE Reduce
  <2>1. /\ UNCHANGED <<results, left, key, aborted, spec, stages>> /\ pc = "chunks"
        /\ key = NoKey /\ left = <<>> /\ pc' = "stages" /\ Chunked
    BY <1>9 DEF Reduce, specVars, Phase
  <2>2. Chunked' = Chunked /\ ChunkStages' = ChunkStages
    BY <2>1, SameStages
  <2>3. NothingOverAHole'
    BY <2>1, <2>2 DEF NothingOverAHole
  <2>4. NoHoleYet'
    BY <2>1, <2>2 DEF NoHoleYet, Through, Running
  <2> QED
    BY <2>3, <2>4
<1>10. CASE Abort
  <2> DEFINE more == [i \in DOMAIN Rest |->
                        [stage |-> Rest[i], chunk |-> NoKey, status |-> "unrun"]]
  <2>1. /\ results' = results \o more /\ pc' = "publish" /\ key' = NoKey
        /\ UNCHANGED <<spec, stages>>
    BY <1>10 DEF Abort, JobDone, Phase, specVars, loopVars
  <2>2. Chunked' = Chunked /\ ChunkStages' = ChunkStages
    BY <2>1, SameStages
  <2>3. NoHoleYet'
    BY <2>1 DEF NoHoleYet, Running
  <2>4. /\ DOMAIN Rest = 1..Len(Rest) /\ Len(Rest) \in Nat
        /\ \A i \in 1..Len(Rest) : Rest[i] \in Range(spec.stages)
    BY StagesAre, LenProperties
  <2>5. more \in Seq(ResultType) /\ Len(more) = Len(Rest)
        /\ \A i \in 1..Len(more) : more[i].status = "unrun"
    <3>1. more \in [1..Len(Rest) -> ResultType]
      BY <2>4 DEF ResultType
    <3>2. more \in Seq(ResultType)
      BY <3>1, <2>4, SeqDef
    <3>3. Len(more) = Len(Rest)
      BY <2>4, <3>1, <3>2, LenProperties
    <3> QED
      BY <2>4, <3>2, <3>3
  <2> HIDE DEF more
  <2>6. /\ Len(results') = Len(results) + Len(more) /\ results' \in Seq(ResultType)
        /\ \A i \in 1..Len(results') :
             results'[i] = IF i <= Len(results) THEN results[i] ELSE more[i - Len(results)]
    BY ONLY <2>1, <2>5, <1>a, ConcatProperties, ZenonT(40)
  <2>7. DOMAIN results' = 1..Len(results')
    BY <2>6, LenProperties
  <2>8. Len(more) \in Nat
    BY <2>4, <2>5
  <2>9. NothingOverAHole'
    <3>0. UNCHANGED <<spec, stages>>
      BY <2>1
    <3> SUFFICES ASSUME Chunked PROVE NothingOverAHole'
      BY <2>2 DEF NothingOverAHole
    <3> SUFFICES ASSUME NEW i \in DOMAIN results', ~PerChunk(results'[i].stage),
                        results'[i].status \in {"ok", "failed"},
                        NEW k \in Range(spec.sources), NEW s \in Range(ChunkStages)
                 PROVE  Through(k, s, i - 1)'
      BY <3>0, <2>2 DEF NothingOverAHole, Through
    <3>1. i \in 1..Len(results)
      <4> SUFFICES ASSUME ~(i <= Len(results)) PROVE FALSE
        BY <2>6, <2>7, <2>8, <1>a
      <4>1. i - Len(results) \in 1..Len(more)
        BY <2>6, <2>7, <2>8, <1>a
      <4>2. results'[i] = more[i - Len(results)]
        BY <2>6, <2>7
      <4> QED
        BY <4>1, <4>2, <2>5
    <3>2. results'[i] = results[i] /\ i \in DOMAIN results
      BY <3>1, <2>6, <2>7, <1>a
    <3>3. Through(k, s, i - 1)
      BY <3>2 DEF NothingOverAHole, Through
    <3>4. \A j \in 1..(i - 1) : results'[j] = results[j]
      BY <3>1, <2>6, <2>7, <2>8, <1>a
    <3> QED
      BY <3>3, <3>4 DEF Through
  <2> QED
    BY <2>3, <2>9
<1>11. CASE Finish
  BY <1>11, HoleSame DEF Finish, JobDone, Running, specVars, loopVars
<1>12. CASE Publish
  BY <1>12, HoleSame DEF Publish, Phase, Running, specVars, loopVars
<1>13. CASE StageRaises
  <2>1. /\ UNCHANGED <<spec, stages, results, key>> /\ queue' = <<>>
        /\ pc' \notin Running /\ pc' # "chunks" /\ pc' # "stages"
    BY <1>13 DEF StageRaises, specVars, Running
  <2>2. Chunked' = Chunked /\ ChunkStages' = ChunkStages
    BY <2>1, SameStages
  <2>3. NothingOverAHole'
    BY <2>1, <2>2 DEF NothingOverAHole
  <2>4. NoHoleYet'
    BY <1>b, <2>1, <2>2 DEF NoHoleYet
  <2> QED
    BY <2>3, <2>4
<1>14. CASE Die
  BY <1>14, HoleSame DEF Die, Running, specVars
<1> QED
  BY <1>0, <1>1, <1>2, <1>3, <1>4, <1>5, <1>6, <1>7, <1>8, <1>9, <1>10, <1>11, <1>12, <1>13, <1>14
  DEF Next

(* A stage of the job runs only over a corpus every chunk of which came     *)
(* through every stage that may not fail: "reduces over a hole" never.      *)
THEOREM NeverOverAHole == Spec => []NothingOverAHole
<1>1. TypeOK /\ Phase /\ (NoHoleYet /\ NothingOverAHole) /\ [Next]_vars
        => (NoHoleYet /\ NothingOverAHole)'
  BY HoleStep
<1>2. Spec => [](NoHoleYet /\ NothingOverAHole)
  BY HoleInit, <1>1, TypeIsKept, PhaseIsKept, PTL DEF Spec
<1> QED
  BY <1>2, PTL

(***************************************************************************)
(* A plan of passes (chunks.plan), for groups of any number and size.      *)
(***************************************************************************)

(* The size of a pass, and of one with a group more. *)
SumOf(pass, size) ==
    CHOOSE sum : sum = [n \in 0..Len(pass) |->
                           IF n = 0 THEN 0 ELSE sum[n - 1] + size[pass[n]]]

LEMMA SumIs ==
    ASSUME NEW G, NEW size \in [G -> Nat], NEW pass \in Seq(G)
    PROVE  /\ SumOf(pass, size) \in [0..Len(pass) -> Nat]
           /\ SumOf(pass, size)[0] = 0
           /\ \A n \in 1..Len(pass) :
                SumOf(pass, size)[n] = SumOf(pass, size)[n - 1] + size[pass[n]]
           /\ Total(pass, size) = SumOf(pass, size)[Len(pass)]
<1> DEFINE N == Len(pass)
           step == [n \in 1..N |-> [x \in Nat |-> x + size[pass[n]]]]
           Def(f) == [n \in 0..N |-> IF n = 0 THEN 0 ELSE f[n - 1] + size[pass[n]]]
           sum == SumOf(pass, size)
<1>1. N \in Nat /\ \A n \in 1..N : size[pass[n]] \in Nat
  OBVIOUS
<1>2. step \in [1..N -> [Nat -> Nat]]
  BY <1>1
<1>3. PICK f : f \in [0..N -> Nat] /\ f[0] = 0 /\ \A n \in 1..N : f[n] = step[n][f[n - 1]]
  <2>1. Steps(step, N, Nat) /\ 0 \in Nat
    BY <1>1, <1>2 DEF Steps
  <2> HIDE DEF step, N
  <2>2. \E f : Way(f, step, N, Nat, 0)
    BY <2>1, StepByStep
  <2> QED
    BY <2>2 DEF Way
<1>4. \A n \in 0..N : n # 0 => n \in 1..N /\ n - 1 \in 0..N
  BY <1>1
<1>5. \A n \in 0..N : n # 0 => f[n - 1] \in Nat /\ step[n][f[n - 1]] = f[n - 1] + size[pass[n]]
  <2>1. \A n \in 0..N : n # 0 => f[n - 1] \in Nat
    BY <1>3, <1>4
  <2> HIDE DEF N
  <2> QED
    BY <1>4, <2>1
<1>6. f = Def(f)
  <2>1. \A n \in 0..N : f[n] = IF n = 0 THEN 0 ELSE f[n - 1] + size[pass[n]]
    <3> HIDE DEF step
    <3> QED
      BY <1>3, <1>4, <1>5
  <2>2. f = [n \in 0..N |-> f[n]]
    BY <1>3
  <2> QED
    BY <2>1, <2>2
<1>7. sum = Def(sum)
  <2>1. sum = CHOOSE g : g = Def(g)
    BY DEF SumOf
  <2> HIDE DEF Def, sum
  <2> QED
    BY <1>6, <2>1
<1>8. Total(pass, size) = sum[N]
  BY DEF Total, SumOf
<1> HIDE DEF sum
<1>9. sum[0] = 0 /\ \A n \in 1..N : sum[n] = sum[n - 1] + size[pass[n]]
  <2>1. 0 \in 0..N /\ \A n \in 1..N : n \in 0..N /\ n # 0
    BY <1>1
  <2> QED
    BY <1>7, <2>1
<1> DEFINE Nats == {n \in 0..N : sum[n] \in Nat}
<1>10. \A n \in 0..N : n \in Nats
  <2>1. 0 \in Nats
    BY <1>1, <1>9
  <2>2. ASSUME NEW n \in 0..N, n \in Nats, n # N PROVE n + 1 \in Nats
    <3>1. n + 1 \in 1..N /\ n + 1 \in 0..N /\ (n + 1) - 1 = n
      BY <1>1, <2>2
    <3>2. sum[n + 1] = sum[n] + size[pass[n + 1]] /\ size[pass[n + 1]] \in Nat /\ sum[n] \in Nat
      BY <1>1, <1>9, <2>2, <3>1
    <3> QED
      BY <3>1, <3>2
  <2> HIDE DEF Nats, N
  <2>3. \A k \in 0..N : k \in Nats /\ k # N => k + 1 \in Nats
    BY ONLY <2>2
  <2> QED
    BY ONLY <1>1, <2>1, <2>3, UpTo
<1>11. sum \in [0..N -> Nat]
  <2>1. DOMAIN sum = 0..N /\ sum = [n \in 0..N |-> sum[n]]
    BY <1>7
  <2> QED
    BY <1>10, <2>1
<1> QED
  BY <1>8, <1>9, <1>11 DEF sum

LEMMA TotalIs ==
    ASSUME NEW G, NEW size \in [G -> Nat], NEW pass \in Seq(G), NEW g \in G
    PROVE  /\ Total(pass, size) \in Nat
           /\ Total(Append(pass, g), size) = Total(pass, size) + size[g]
<1> DEFINE N == Len(pass)
           more == Append(pass, g)
           a == SumOf(pass, size)
           b == SumOf(more, size)
           Same == {n \in 0..N : a[n] = b[n]}
<1>1. N \in Nat /\ more \in Seq(G) /\ Len(more) = N + 1
      /\ more[N + 1] = g /\ \A n \in 1..N : more[n] = pass[n]
  BY AppendProperties
<1> HIDE DEF more
<1>2. /\ a \in [0..N -> Nat] /\ a[0] = 0 /\ Total(pass, size) = a[N]
      /\ \A n \in 1..N : a[n] = a[n - 1] + size[pass[n]]
  BY SumIs
<1>3. /\ b[0] = 0 /\ Total(more, size) = b[N + 1]
      /\ \A n \in 1..(N + 1) : b[n] = b[n - 1] + size[more[n]]
  <2>1. /\ b[0] = 0 /\ Total(more, size) = b[Len(more)]
        /\ \A n \in 1..Len(more) : b[n] = b[n - 1] + size[more[n]]
    <3>1. more \in Seq(G)
      BY <1>1
    <3> QED
      BY ONLY <3>1, SumIs, size \in [G -> Nat]
  <2> HIDE DEF b
  <2> QED
    BY <1>1, <2>1
<1> HIDE DEF a, b
<1>4. \A n \in 0..N : n \in Same
  <2>1. 0 \in Same
    BY <1>1, <1>2, <1>3
  <2>2. ASSUME NEW n \in 0..N, n \in Same, n # N PROVE n + 1 \in Same
    <3>1. n + 1 \in 1..N /\ n + 1 \in 0..N /\ n + 1 \in 1..(N + 1) /\ (n + 1) - 1 = n
      BY <1>1, <2>2
    <3>2. a[n + 1] = a[n] + size[pass[n + 1]]
      BY <1>2, <3>1
    <3>3. b[n + 1] = b[n] + size[more[n + 1]]
      BY <1>3, <3>1
    <3> QED
      BY <1>1, <2>2, <3>1, <3>2, <3>3
  <2> HIDE DEF Same, N
  <2>3. \A k \in 0..N : k \in Same /\ k # N => k + 1 \in Same
    BY ONLY <2>2
  <2> QED
    BY ONLY <1>1, <2>1, <2>3, UpTo
<1>5. N \in 0..N /\ N + 1 \in 1..(N + 1) /\ (N + 1) - 1 = N
  BY <1>1
<1>6. a[N] = b[N] /\ a[N] \in Nat
  BY <1>2, <1>4, <1>5
<1>7. b[N + 1] = b[N] + size[g]
  BY <1>1, <1>3, <1>5
<1> QED
  BY <1>2, <1>3, <1>6, <1>7 DEF more


(* A sequence of passes, one after the other, with a pass more. *)
LEMMA FlatIs ==
    ASSUME NEW G, NEW passes \in Seq(Seq(G)), NEW pass \in Seq(G)
    PROVE  /\ FlattenSeq(passes) \in Seq(G)
           /\ FlattenSeq(Append(passes, pass)) = FlattenSeq(passes) \o pass
<1> DEFINE Flat(ss) == CHOOSE f : f = [i \in 1..Len(ss) |->
                           IF i = 1 THEN ss[1] ELSE f[i - 1] \o ss[i]]
<1>1. ASSUME NEW ss \in Seq(Seq(G)), ss # <<>>
      PROVE  /\ Flat(ss) \in [1..Len(ss) -> Seq(G)] /\ FlattenSeq(ss) = Flat(ss)[Len(ss)]
             /\ Flat(ss)[1] = ss[1]
             /\ \A i \in 2..Len(ss) : Flat(ss)[i] = Flat(ss)[i - 1] \o ss[i]
  <2> DEFINE N == Len(ss)
             step == [n \in 1..(N - 1) |-> [x \in Seq(G) |-> x \o ss[n + 1]]]
             Def(f) == [i \in 1..N |-> IF i = 1 THEN ss[1] ELSE f[i - 1] \o ss[i]]
             flat == Flat(ss)
  <2>1. N \in Nat \ {0} /\ \A i \in 1..N : ss[i] \in Seq(G)
    BY <1>1
  <2>2. step \in [1..(N - 1) -> [Seq(G) -> Seq(G)]]
    <3>1. \A n \in 1..(N - 1) : ss[n + 1] \in Seq(G)
      BY <2>1
    <3>2. \A n \in 1..(N - 1), x \in Seq(G) : x \o ss[n + 1] \in Seq(G)
      BY <3>1, ConcatProperties
    <3> QED
      BY <3>2
  <2>3. PICK f : /\ f \in [0..(N - 1) -> Seq(G)] /\ f[0] = ss[1]
                  /\ \A n \in 1..(N - 1) : f[n] = step[n][f[n - 1]]
    <3>1. Steps(step, N - 1, Seq(G)) /\ ss[1] \in Seq(G)
      BY <2>1, <2>2 DEF Steps
    <3> HIDE DEF step, N
    <3>2. \E f : Way(f, step, N - 1, Seq(G), ss[1])
      BY <3>1, StepByStep
    <3> QED
      BY <3>2 DEF Way
  <2> DEFINE g == [i \in 1..N |-> f[i - 1]]
  <2>4. \A i \in 1..N : i # 1 => /\ i - 1 \in 1..(N - 1) /\ i - 1 \in 0..(N - 1) /\ i - 1 # 0
                                 /\ (i - 1) - 1 \in 0..(N - 1) /\ i - 1 \in 1..N /\ (i - 1) + 1 = i
    BY <2>1
  <2>5. \A i \in 1..N : i # 1 => f[i - 1] = f[(i - 1) - 1] \o ss[i]
    <3> SUFFICES ASSUME NEW i \in 1..N, i # 1 PROVE f[i - 1] = f[(i - 1) - 1] \o ss[i]
      OBVIOUS
    <3> DEFINE k == i - 1
    <3>1. k \in 1..(N - 1) /\ k \in 0..(N - 1) /\ k # 0 /\ k - 1 \in 0..(N - 1) /\ k + 1 = i
      BY <2>4
    <3> HIDE DEF k, step
    <3>2. f[k] = step[k][f[k - 1]]
      BY <2>3, <3>1
    <3>3. f[k - 1] \in Seq(G)
      BY <2>3, <3>1
    <3>4. step[k][f[k - 1]] = f[k - 1] \o ss[k + 1]
      BY <3>1, <3>3 DEF step
    <3> QED
      BY <3>1, <3>2, <3>4 DEF k
  <2>6. f[0] = ss[1]
    BY <2>1, <2>3
  <2>7. g = Def(g)
    <3>1. \A i \in 1..N : g[i] = f[i - 1]
      OBVIOUS
    <3>2. 1 - 1 = 0 /\ 1 \in 1..N
      BY <2>1
    <3>3. \A i \in 1..N : g[i] = IF i = 1 THEN ss[1] ELSE g[i - 1] \o ss[i]
      BY <2>4, <2>5, <2>6, <3>1, <3>2
    <3>4. g = [i \in 1..N |-> g[i]]
      OBVIOUS
    <3> HIDE DEF g
    <3> QED
      BY <3>3, <3>4
  <2>8. flat = Def(flat)
    <3>1. flat = CHOOSE h : h = Def(h)
      OBVIOUS
    <3> HIDE DEF Def, flat, g
    <3> QED
      BY <2>7, <3>1
  <2>9. FlattenSeq(ss) = flat[N]
    <3>1. N # 0
      BY <2>1
    <3> QED
      BY <3>1 DEF FlattenSeq
  <2> HIDE DEF flat
  <2>10. /\ DOMAIN flat = 1..N /\ flat = [i \in 1..N |-> flat[i]]
         /\ flat[1] = ss[1] /\ \A i \in 2..N : flat[i] = flat[i - 1] \o ss[i]
    <3>1. 1 \in 1..N /\ \A i \in 2..N : i \in 1..N /\ i # 1
      BY <2>1
    <3> QED
      BY <2>8, <3>1
  <2> DEFINE Seqs == {n \in 0..(N - 1) : flat[n + 1] \in Seq(G)}
  <2>11. \A n \in 0..(N - 1) : n \in Seqs
    <3>1. 0 \in Seqs
      BY <2>1, <2>10
    <3>2. ASSUME NEW n \in 0..(N - 1), n \in Seqs, n # N - 1 PROVE n + 1 \in Seqs
      <4>1. (n + 1) + 1 \in 2..N /\ n + 1 \in 0..(N - 1) /\ ((n + 1) + 1) - 1 = n + 1
            /\ (n + 1) + 1 \in 1..N
        BY <2>1, <3>2
      <4>2. flat[(n + 1) + 1] = flat[n + 1] \o ss[(n + 1) + 1] /\ flat[n + 1] \in Seq(G)
        BY <2>10, <3>2, <4>1
      <4>3. ss[(n + 1) + 1] \in Seq(G)
        BY <2>1, <4>1
      <4>4. flat[(n + 1) + 1] \in Seq(G)
        BY <4>2, <4>3, ConcatProperties
      <4> QED
        BY <4>1, <4>4
    <3>3. N - 1 \in Nat
      BY <2>1
    <3> HIDE DEF Seqs, N
    <3>4. \A k \in 0..(N - 1) : k \in Seqs /\ k # N - 1 => k + 1 \in Seqs
      BY ONLY <3>2
    <3> QED
      BY ONLY <3>1, <3>3, <3>4, UpTo
  <2>12. flat \in [1..N -> Seq(G)]
    <3>1. \A i \in 1..N : i - 1 \in 0..(N - 1) /\ (i - 1) + 1 = i
      BY <2>1
    <3>2. \A i \in 1..N : flat[i] \in Seq(G)
      BY <2>11, <3>1
    <3> QED
      BY <2>10, <3>2
  <2> QED
    BY <2>9, <2>10, <2>12 DEF flat
<1> HIDE DEF Flat
<1> DEFINE N == Len(passes)
           more == Append(passes, pass)
<1>2. N \in Nat /\ more \in Seq(Seq(G)) /\ Len(more) = N + 1 /\ more # <<>>
      /\ more[N + 1] = pass /\ \A i \in 1..N : more[i] = passes[i]
  BY AppendProperties
<1> HIDE DEF more
<1>3. CASE passes = <<>>
  <2>1. N = 0 /\ FlattenSeq(passes) = passes
    BY <1>3 DEF FlattenSeq
  <2>2. FlattenSeq(more) = pass
    <3>1. Len(more) = 1 /\ more[1] = pass
      BY <1>2, <2>1
    <3> QED
      BY <1>1, <1>2, <3>1
  <2>3. <<>> \o pass = pass /\ <<>> \in Seq(G)
    OBVIOUS
  <2> QED
    BY <1>3, <2>1, <2>2, <2>3 DEF more
<1>4. CASE passes # <<>>
  <2> DEFINE a == Flat(passes)
             b == Flat(more)
             Same == {n \in 0..(N - 1) : a[n + 1] = b[n + 1]}
  <2>1. /\ a \in [1..N -> Seq(G)] /\ FlattenSeq(passes) = a[N] /\ a[1] = passes[1]
        /\ \A i \in 2..N : a[i] = a[i - 1] \o passes[i]
    BY <1>1, <1>4
  <2>2. /\ FlattenSeq(more) = b[N + 1] /\ b[1] = more[1]
        /\ \A i \in 2..(N + 1) : b[i] = b[i - 1] \o more[i]
    <3>1. /\ FlattenSeq(more) = b[Len(more)] /\ b[1] = more[1]
          /\ \A i \in 2..Len(more) : b[i] = b[i - 1] \o more[i]
      BY <1>1, <1>2
    <3> HIDE DEF b
    <3> QED
      BY <1>2, <3>1
  <2> HIDE DEF a, b
  <2>3. N >= 1
    BY <1>2, <1>4
  <2>4. \A n \in 0..(N - 1) : n \in Same
    <3>1. 0 \in Same
      <4>1. 0 \in 0..(N - 1) /\ 1 \in 1..N
        BY <1>2, <2>3
      <4> QED
        BY <1>2, <2>1, <2>2, <4>1
    <3>2. ASSUME NEW n \in 0..(N - 1), n \in Same, n # N - 1 PROVE n + 1 \in Same
      <4> DEFINE i == (n + 1) + 1
      <4>1. i \in 2..N /\ i \in 2..(N + 1) /\ i \in 1..N /\ i - 1 = n + 1 /\ n + 1 \in 0..(N - 1)
        BY <1>2, <3>2
      <4> HIDE DEF i
      <4>2. a[i] = a[i - 1] \o passes[i] /\ b[i] = b[i - 1] \o more[i] /\ more[i] = passes[i]
        BY <1>2, <2>1, <2>2, <4>1
      <4>3. a[i - 1] = b[i - 1]
        BY <3>2, <4>1
      <4> QED
        BY <4>1, <4>2, <4>3 DEF i
    <3>3. N - 1 \in Nat
      BY <1>2, <2>3
    <3> HIDE DEF Same, N
    <3>4. \A k \in 0..(N - 1) : k \in Same /\ k # N - 1 => k + 1 \in Same
      BY ONLY <3>2
    <3> QED
      BY ONLY <3>1, <3>3, <3>4, UpTo
  <2>5. N - 1 \in 0..(N - 1) /\ (N - 1) + 1 = N /\ N + 1 \in 2..(N + 1) /\ (N + 1) - 1 = N /\ N \in 1..N
    BY <1>2, <2>3
  <2>6. a[N] = b[N] /\ a[N] \in Seq(G)
    BY <2>1, <2>4, <2>5
  <2>7. b[N + 1] = b[N] \o pass
    BY <1>2, <2>2, <2>5
  <2> QED
    BY <2>1, <2>2, <2>6, <2>7 DEF more
<1> QED
  BY <1>3, <1>4

(* What is at hand while a plan is made, and how it is made. *)
Plans(G) == [done : Seq(Seq(G)), pass : Seq(G)]

PlanOf(groups, size, budget) ==
    CHOOSE at : at = [n \in 0..Len(groups) |->
        IF n = 0 THEN [done |-> <<>>, pass |-> <<>>]
        ELSE Take(at[n - 1], groups[n], size, budget)]

LEMMA TakeIs ==
    ASSUME NEW G, NEW at \in Plans(G), NEW g \in G, NEW size, NEW budget
    PROVE  LET next == Take(at, g, size, budget) IN
           /\ next \in Plans(G)
           /\ \/ /\ at.pass # <<>> /\ Total(at.pass, size) + size[g] > budget
                 /\ next.done = Append(at.done, at.pass) /\ next.pass = <<g>>
              \/ /\ at.pass = <<>> \/ ~(Total(at.pass, size) + size[g] > budget)
                 /\ next.done = at.done /\ next.pass = Append(at.pass, g)
<1>1. /\ at.done \in Seq(Seq(G)) /\ at.pass \in Seq(G)
      /\ at = [done |-> at.done, pass |-> at.pass]
  BY DEF Plans
<1>2. /\ Append(at.done, at.pass) \in Seq(Seq(G)) /\ Append(at.pass, g) \in Seq(G)
      /\ <<g>> \in Seq(G)
  BY <1>1, AppendProperties
<1>3. CASE at.pass # <<>> /\ Total(at.pass, size) + size[g] > budget
  <2>1. Take(at, g, size, budget) = [done |-> Append(at.done, at.pass), pass |-> <<g>>]
    BY <1>3 DEF Take, Closed
  <2> QED
    BY <1>2, <1>3, <2>1 DEF Plans
<1>4. CASE ~(at.pass # <<>> /\ Total(at.pass, size) + size[g] > budget)
  <2>1. Take(at, g, size, budget) = [at EXCEPT !.pass = Append(at.pass, g)]
    BY <1>4 DEF Take
  <2>2. Take(at, g, size, budget) = [done |-> at.done, pass |-> Append(at.pass, g)]
    BY <1>1, <2>1
  <2> QED
    BY <1>1, <1>2, <1>4, <2>2 DEF Plans
<1> QED
  BY <1>3, <1>4

LEMMA PlanIs ==
    ASSUME NEW G, NEW groups \in Seq(G), NEW size, NEW budget
    PROVE  LET at == PlanOf(groups, size, budget) IN
           /\ Passes(groups, size, budget) = Closed(at[Len(groups)])
           /\ at[0] = [done |-> <<>>, pass |-> <<>>]
           /\ \A n \in 1..Len(groups) : at[n] = Take(at[n - 1], groups[n], size, budget)
<1> DEFINE N == Len(groups)
           none == [done |-> <<>>, pass |-> <<>>]
           step == [n \in 1..N |-> [x \in Plans(G) |-> Take(x, groups[n], size, budget)]]
           Def(f) == [n \in 0..N |-> IF n = 0 THEN none ELSE Take(f[n - 1], groups[n], size, budget)]
           at == PlanOf(groups, size, budget)
<1>1. N \in Nat /\ \A n \in 1..N : groups[n] \in G
  OBVIOUS
<1>2. \A n \in 1..N : \A x \in Plans(G) : Take(x, groups[n], size, budget) \in Plans(G)
  BY <1>1, TakeIs
<1>3. none \in Plans(G)
  BY DEF Plans
<1> HIDE DEF none
<1>4. PICK f : f \in [0..N -> Plans(G)] /\ f[0] = none /\ \A n \in 1..N : f[n] = step[n][f[n - 1]]
  <2>1. Steps(step, N, Plans(G))
    BY <1>1, <1>2 DEF Steps
  <2> HIDE DEF step, N
  <2>2. \E f : Way(f, step, N, Plans(G), none)
    BY <1>3, <2>1, StepByStep
  <2> QED
    BY <2>2 DEF Way
<1>5. \A n \in 0..N : n # 0 => n \in 1..N /\ n - 1 \in 0..N
  BY <1>1
<1>6. \A n \in 0..N : f[n] = IF n = 0 THEN none ELSE Take(f[n - 1], groups[n], size, budget)
  <2> SUFFICES ASSUME NEW n \in 0..N, n # 0 PROVE f[n] = Take(f[n - 1], groups[n], size, budget)
    BY <1>4
  <2>1. n \in 1..N /\ f[n - 1] \in Plans(G) /\ f[n] = step[n][f[n - 1]]
    BY <1>4, <1>5
  <2> QED
    BY <2>1
<1>7. f = Def(f)
  <2>1. f = [n \in 0..N |-> f[n]]
    BY <1>4
  <2> QED
    BY <1>6, <2>1
<1>8. at = Def(at)
  <2>1. at = CHOOSE h : h = Def(h)
    BY DEF PlanOf, none
  <2> HIDE DEF Def, at
  <2> QED
    BY <1>7, <2>1
<1>9. Passes(groups, size, budget) = Closed(at[N])
  BY DEF Passes, PlanOf
<1> HIDE DEF at
<1>10. at[0] = none /\ \A n \in 1..N : at[n] = Take(at[n - 1], groups[n], size, budget)
  <2>1. 0 \in 0..N /\ \A n \in 1..N : n \in 0..N /\ n # 0
    BY <1>1
  <2> QED
    BY <1>8, <2>1
<1> QED
  BY <1>9, <1>10 DEF at, none

(* What is asked of the passes of a plan. *)
Fits(passes, size, budget) ==
    \A i \in DOMAIN passes :
        /\ passes[i] # <<>>
        /\ Len(passes[i]) > 1 => Total(passes[i], size) <= budget
        /\ i > 1 => Total(passes[i - 1], size) + size[passes[i][1]] > budget

LEMMA FitsMore ==
    ASSUME NEW G, NEW passes \in Seq(Seq(G)), NEW pass \in Seq(G), NEW size, NEW budget,
           Fits(passes, size, budget), pass # <<>>,
           Len(pass) > 1 => Total(pass, size) <= budget,
           Len(passes) > 0 => Total(passes[Len(passes)], size) + size[pass[1]] > budget
    PROVE  Fits(Append(passes, pass), size, budget)
<1> DEFINE N == Len(passes)
           more == Append(passes, pass)
<1>1. N \in Nat /\ DOMAIN passes = 1..N /\ DOMAIN more = 1..(N + 1) /\ more[N + 1] = pass
      /\ \A i \in 1..N : more[i] = passes[i]
  BY AppendProperties
<1> HIDE DEF more
<1> SUFFICES ASSUME NEW i \in 1..(N + 1)
             PROVE  /\ more[i] # <<>>
                    /\ Len(more[i]) > 1 => Total(more[i], size) <= budget
                    /\ i > 1 => Total(more[i - 1], size) + size[more[i][1]] > budget
  BY <1>1 DEF Fits, more
<1>2. CASE i = N + 1
  <2>1. i - 1 = N /\ (i > 1 => N \in 1..N /\ N > 0)
    BY <1>1, <1>2
  <2>2. more[i] = pass /\ (i > 1 => more[i - 1] = passes[N])
    BY <1>1, <1>2, <2>1
  <2> QED
    BY <2>1, <2>2
<1>3. CASE i \in 1..N
  <2>1. i > 1 => i - 1 \in 1..N
    BY <1>1, <1>3
  <2>2. more[i] = passes[i] /\ (i > 1 => more[i - 1] = passes[i - 1])
    BY <1>1, <1>3, <2>1
  <2> QED
    BY <1>1, <1>3, <2>1, <2>2 DEF Fits
<1> QED
  BY <1>1, <1>2, <1>3

LEMMA FitsLess ==
    ASSUME NEW G, NEW passes \in Seq(Seq(G)), NEW pass \in Seq(G), NEW size, NEW budget,
           Fits(Append(passes, pass), size, budget)
    PROVE  /\ Fits(passes, size, budget)
           /\ Len(pass) > 1 => Total(pass, size) <= budget
           /\ Len(passes) > 0 => Total(passes[Len(passes)], size) + size[pass[1]] > budget
<1> DEFINE N == Len(passes)
           more == Append(passes, pass)
<1>1. N \in Nat /\ DOMAIN passes = 1..N /\ DOMAIN more = 1..(N + 1) /\ more[N + 1] = pass
      /\ \A i \in 1..N : more[i] = passes[i]
  BY AppendProperties
<1>2. \A i \in 1..(N + 1) :
         /\ more[i] # <<>>
         /\ Len(more[i]) > 1 => Total(more[i], size) <= budget
         /\ i > 1 => Total(more[i - 1], size) + size[more[i][1]] > budget
  BY <1>1 DEF Fits
<1> HIDE DEF more
<1>3. \A i \in 1..N : i \in 1..(N + 1) /\ (i > 1 => i - 1 \in 1..N)
  BY <1>1
<1>4. N > 0 => N + 1 > 1 /\ (N + 1) - 1 = N /\ N \in 1..N
  BY <1>1
<1>5. N + 1 \in 1..(N + 1)
  BY <1>1
<1>6. Fits(passes, size, budget)
  <2> SUFFICES ASSUME NEW i \in 1..N
               PROVE  /\ passes[i] # <<>>
                      /\ Len(passes[i]) > 1 => Total(passes[i], size) <= budget
                      /\ i > 1 => Total(passes[i - 1], size) + size[passes[i][1]] > budget
    BY <1>1 DEF Fits
  <2>1. more[i] = passes[i] /\ (i > 1 => more[i - 1] = passes[i - 1])
    BY <1>1, <1>3
  <2> QED
    BY <1>2, <1>3, <2>1
<1>7. N > 0 => Total(passes[N], size) + size[pass[1]] > budget
  BY <1>1, <1>2, <1>4, <1>5
<1> QED
  BY <1>1, <1>2, <1>5, <1>6, <1>7

LEMMA PrefixGrows ==
    ASSUME NEW G, NEW groups \in Seq(G), NEW n \in 0..Len(groups), n # Len(groups)
    PROVE  SubSeq(groups, 1, n + 1) = SubSeq(groups, 1, n) \o <<groups[n + 1]>>
<1>1. 1 \in 1..Len(groups) /\ n + 1 \in 1..Len(groups) /\ (n + 1) - 1 = n
  OBVIOUS
<1> QED
  BY <1>1, SubSeqRecursiveSecond

\* An element appended to y is one appended to x \o y.
Moves(x, y, g) == x \o Append(y, g) = (x \o y) \o <<g>>

LEMMA OneMore ==
    ASSUME NEW G, NEW x \in Seq(G), NEW y \in Seq(G), NEW g \in G
    PROVE  Moves(x, y, g)
<1>1. <<g>> \in Seq(G) /\ Append(y, g) = y \o <<g>>
  BY AppendIsConcat
<1> DEFINE one == <<g>>
<1>2. one \in Seq(G)
  BY <1>1
<1> HIDE DEF one
<1>3. (x \o y) \o one = x \o (y \o one)
  BY <1>2, ConcatAssociative, SMTT(20)
<1> QED
  BY <1>1, <1>3 DEF one, Moves

(* A plan takes every group once and in order, exceeds the budget only for  *)
(* a group that alone does, and could nowhere have done with one pass less: *)
(* for groups of any number and size, and any budget.                       *)
THEOREM PlanIsSound ==
    ASSUME NEW G, NEW groups \in Seq(G), NEW size \in [G -> Nat], NEW budget \in Nat
    PROVE  PassesSound(groups, size, budget)
<1> DEFINE N == Len(groups)
           at == PlanOf(groups, size, budget)
           Sound(n) ==
               /\ at[n] \in Plans(G)
               /\ FlattenSeq(at[n].done) \o at[n].pass = SubSeq(groups, 1, n)
               /\ at[n].pass = <<>> => at[n].done = <<>>
               /\ n > 0 => at[n].pass # <<>>
               /\ at[n].pass # <<>> => Fits(Append(at[n].done, at[n].pass), size, budget)
           Done == {n \in 0..N : Sound(n)}
<1>1. N \in Nat /\ \A n \in 1..N : groups[n] \in G
  OBVIOUS
<1>2. /\ Passes(groups, size, budget) = Closed(at[N])
      /\ at[0] = [done |-> <<>>, pass |-> <<>>]
      /\ \A n \in 1..N : at[n] = Take(at[n - 1], groups[n], size, budget)
  BY PlanIs
<1> HIDE DEF at
<1>3. Fits(<<>>, size, budget)
  BY DEF Fits
<1>4. 0 \in Done
  <2>1. at[0] \in Plans(G) /\ at[0].done = <<>> /\ at[0].pass = <<>>
    BY <1>2 DEF Plans
  <2>2. FlattenSeq(<<>>) = <<>>
    BY DEF FlattenSeq
  <2>3. SubSeq(groups, 1, 0) = <<>>
    BY SubSeqEmpty
  <2>4. <<>> \o <<>> = <<>>
    OBVIOUS
  <2> QED
    <3>1. FlattenSeq(at[0].done) \o at[0].pass = SubSeq(groups, 1, 0)
      BY ONLY <2>1, <2>2, <2>3, <2>4
    <3>2. Sound(0)
      BY ONLY <2>1, <3>1
    <3>3. 0 \in 0..N
      BY <1>1
    <3> HIDE DEF Sound
    <3> QED
      BY <3>2, <3>3
<1>5. ASSUME NEW n \in 0..N, n \in Done, n # N PROVE n + 1 \in Done
  <2> DEFINE g == groups[n + 1]
             old == at[n]
             new == at[n + 1]
  <2>1. n + 1 \in 1..N /\ n + 1 \in 0..N /\ (n + 1) - 1 = n /\ n + 1 > 0
    BY <1>1, <1>5
  <2>2. g \in G
    BY <1>1, <2>1
  <2>3. /\ old \in Plans(G) /\ old.done \in Seq(Seq(G)) /\ old.pass \in Seq(G)
        /\ FlattenSeq(old.done) \o old.pass = SubSeq(groups, 1, n)
        /\ old.pass = <<>> => old.done = <<>>
        /\ old.pass # <<>> => Fits(Append(old.done, old.pass), size, budget)
    BY <1>5 DEF Plans
  <2>4. new = Take(old, g, size, budget)
    BY <1>2, <2>1
  <2>5. SubSeq(groups, 1, n + 1) = SubSeq(groups, 1, n) \o <<g>>
    BY <1>5, PrefixGrows
  <2> HIDE DEF g, old, new
  <2>6. /\ new \in Plans(G)
        /\ \/ /\ old.pass # <<>> /\ Total(old.pass, size) + size[g] > budget
              /\ new.done = Append(old.done, old.pass) /\ new.pass = <<g>>
           \/ /\ old.pass = <<>> \/ ~(Total(old.pass, size) + size[g] > budget)
              /\ new.done = old.done /\ new.pass = Append(old.pass, g)
    <3>1. LET next == Take(old, g, size, budget) IN
          /\ next \in Plans(G)
          /\ \/ /\ old.pass # <<>> /\ Total(old.pass, size) + size[g] > budget
                /\ next.done = Append(old.done, old.pass) /\ next.pass = <<g>>
             \/ /\ old.pass = <<>> \/ ~(Total(old.pass, size) + size[g] > budget)
                /\ next.done = old.done /\ next.pass = Append(old.pass, g)
      <4>1. old \in Plans(G)
        BY <2>3
      <4> QED
        BY ONLY <2>2, <4>1, TakeIs
    <3> QED
      BY ONLY <2>4, <3>1
  <2>7. <<g>> \in Seq(G) /\ <<g>> # <<>> /\ Len(<<g>>) = 1 /\ <<g>>[1] = g
    BY <2>2
  <2>8. /\ FlattenSeq(old.done) \in Seq(G)
        /\ FlattenSeq(Append(old.done, old.pass)) = FlattenSeq(old.done) \o old.pass
    BY <2>3, FlatIs
  <2>9. CASE /\ old.pass # <<>> /\ Total(old.pass, size) + size[g] > budget
             /\ new.done = Append(old.done, old.pass) /\ new.pass = <<g>>
    <3> DEFINE all == Append(old.done, old.pass)
    <3>1. /\ all \in Seq(Seq(G)) /\ all[Len(all)] = old.pass /\ Fits(all, size, budget)
      BY <2>3, <2>9, AppendProperties
    <3> HIDE DEF all
    <3>2. Fits(Append(all, <<g>>), size, budget)
      <4>1. Total(all[Len(all)], size) + size[<<g>>[1]] > budget
        BY ONLY <2>7, <2>9, <3>1
      <4>2. ~(Len(<<g>>) > 1)
        BY ONLY <2>7
      <4> QED
        BY ONLY <2>7, <3>1, <4>1, <4>2, FitsMore
    <3>3. FlattenSeq(new.done) \o new.pass = SubSeq(groups, 1, n + 1)
      BY <2>3, <2>5, <2>8, <2>9
    <3>4. Sound(n + 1)
      BY <2>1, <2>6, <2>7, <2>9, <3>2, <3>3 DEF all, new
    <3> QED
      BY <2>1, <3>4
  <2>10. CASE /\ old.pass = <<>> \/ ~(Total(old.pass, size) + size[g] > budget)
              /\ new.done = old.done /\ new.pass = Append(old.pass, g)
    <3>1. new.pass \in Seq(G) /\ new.pass # <<>> /\ Len(new.pass) = Len(old.pass) + 1
      BY <2>2, <2>3, <2>10, AppendProperties
    <3>3. FlattenSeq(new.done) \o new.pass = SubSeq(groups, 1, n + 1)
      <4> DEFINE flat == FlattenSeq(old.done)
                 open == old.pass
      <4>1. flat \in Seq(G) /\ open \in Seq(G) /\ g \in G
        BY <2>2, <2>3, <2>8
      <4>2. /\ FlattenSeq(new.done) \o new.pass = flat \o Append(open, g)
            /\ SubSeq(groups, 1, n + 1) = (flat \o open) \o <<g>>
        BY <2>3, <2>5, <2>10
      <4> HIDE DEF flat, open, g, new, old
      <4>3. Moves(flat, open, g)
        BY ONLY <4>1, OneMore
      <4> QED
        BY ONLY <4>2, <4>3 DEF Moves
    <3>4. Fits(Append(old.done, new.pass), size, budget)
      <4>1. CASE old.pass = <<>>
        <5>1. Len(new.pass) = 1 /\ Len(<<>>) = 0 /\ old.done = <<>>
          BY <2>3, <3>1, <4>1
        <5> QED
          <6>1. Fits(old.done, size, budget) /\ Len(old.done) = 0
            BY ONLY <1>3, <5>1
          <6>2. ~(Len(old.done) > 0) /\ ~(Len(new.pass) > 1)
            BY ONLY <5>1, <6>1
          <6> QED
            BY ONLY <2>3, <3>1, <6>1, <6>2, FitsMore
      <4>2. CASE old.pass # <<>>
        <5>1. /\ Fits(old.done, size, budget)
              /\ Len(old.done) > 0 =>
                   Total(old.done[Len(old.done)], size) + size[old.pass[1]] > budget
          BY <2>3, <4>2, FitsLess
        <5>2. new.pass[1] = old.pass[1]
          <6>1. 1 \in 1..Len(old.pass)
            BY <2>3, <4>2
          <6> QED
            BY <2>2, <2>3, <2>10, <6>1, AppendProperties
        <5>3. Total(new.pass, size) <= budget
          <6>1. /\ Total(old.pass, size) \in Nat
                /\ Total(new.pass, size) = Total(old.pass, size) + size[g]
            BY <2>2, <2>3, <2>10, TotalIs
          <6>2. size[g] \in Nat
            BY <2>2
          <6> QED
            BY <2>10, <4>2, <6>1, <6>2
        <5> QED
          BY <2>3, <3>1, <5>1, <5>2, <5>3, FitsMore
      <4> QED
        BY <4>1, <4>2
    <3>5. Sound(n + 1)
      BY <2>1, <2>6, <2>10, <3>1, <3>3, <3>4 DEF new
    <3> QED
      BY <2>1, <3>5
  <2> QED
    BY <2>6, <2>9, <2>10
<1>6. N \in Done
  <2> HIDE DEF Done, N
  <2>1. \A k \in 0..N : k \in Done /\ k # N => k + 1 \in Done
    BY ONLY <1>5
  <2>2. \A k \in 0..N : k \in Done
    BY ONLY <1>1, <1>4, <2>1, UpTo
  <2>3. N \in 0..N
    BY <1>1
  <2> QED
    BY <2>2, <2>3
<1> DEFINE passes == Passes(groups, size, budget)
<1>7. SubSeq(groups, 1, N) = groups
  BY SubSeqFull
<1>8. FlattenSeq(passes) = groups /\ Fits(passes, size, budget)
  <2>1. at[N].done \in Seq(Seq(G)) /\ at[N].pass \in Seq(G)
    BY <1>6 DEF Plans
  <2>2. CASE at[N].pass = <<>>
    <3>1. passes = <<>> /\ at[N].done = <<>>
      BY <1>2, <1>6, <2>2 DEF Closed
    <3>2. FlattenSeq(<<>>) = <<>> /\ <<>> \o <<>> = <<>>
      BY DEF FlattenSeq
    <3>3. groups = <<>>
      BY <1>6, <1>7, <2>2, <3>1, <3>2
    <3> QED
      BY <1>3, <3>1, <3>2, <3>3
  <2>3. CASE at[N].pass # <<>>
    <3>1. passes = Append(at[N].done, at[N].pass)
      BY <1>2, <2>3 DEF Closed
    <3>2. FlattenSeq(passes) = FlattenSeq(at[N].done) \o at[N].pass
      BY <2>1, <3>1, FlatIs
    <3> QED
      BY <1>6, <1>7, <2>3, <3>1, <3>2
  <2> QED
    BY <2>2, <2>3
<1> HIDE DEF passes
<1> QED
  BY <1>8 DEF PassesSound, Fits, passes

(* The plan of a job's passes is sound, whatever its sources and their sizes. *)
THEOREM PlansAlwaysFit == Spec => []PlanFits
<1>1. PlanFits
  <2> SUFFICES ASSUME NEW n \in 0..3, NEW groups \in [1..n -> 0..(Budget + 1)]
               PROVE  PassesSound(groups, [g \in 0..(Budget + 1) |-> g], Budget)
    BY DEF PlanFits
  <2> DEFINE G == 0..(Budget + 1)
             size == [g \in G |-> g]
  <2>1. groups \in Seq(G) /\ size \in [G -> Nat] /\ Budget \in Nat
    BY RunnerConstants
  <2> HIDE DEF G, size
  <2>2. PassesSound(groups, size, Budget)
    BY <2>1, PlanIsSound
  <2> QED
    BY <2>2 DEF G, size
<1> QED
  BY <1>1, PTL
=============================================================================
