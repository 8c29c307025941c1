---------------------------- MODULE ModelsProofs ----------------------------
(***************************************************************************)
(* Of the downloads of a pod that is ready (Models.tla): they are typed, a *)
(* path has one writer, and what is said of a path agrees with its file,   *)
(* for any manifests, POSTs and bounds.                                    *)
(***************************************************************************)
EXTENDS Models, TLAPS

USE ModelsConstants

LEMMA ThreadParts ==
    ASSUME NEW t \in Threads
    PROVE  t[1] \in Callers /\ t[2] \in Paths /\ t = <<t[1], t[2]>>
BY DEF Threads

LEMMA ThreadOf ==
    ASSUME NEW c \in Callers, NEW p \in Paths
    PROVE  <<c, p>> \in Threads /\ <<c, p>>[1] = c /\ <<c, p>>[2] = p
BY DEF Threads

LEMMA ListedType ==
    ASSUME NEW rev \in 1..MaxRev
    PROVE  /\ Listed(rev) \in [Paths -> {"absent", "url", "source"}]
           /\ \A p \in Paths : Listed(rev)[p] = "absent" <=> p \notin Serves[rev]
BY DEF Listed

(***************************************************************************)
(* Types.                                                                  *)
(***************************************************************************)

LEMMA TypeInit == Init => TypeOK
<1> SUFFICES ASSUME Init PROVE TypeOK
  OBVIOUS
<1>1. items \in [Paths -> {"absent", "url", "source"}]
  BY ListedType DEF Init
<1>2. files \subseteq Paths /\ unrecorded \subseteq files /\ forsaken \subseteq Paths
  BY DEF Init
<1> QED
  BY <1>1, <1>2 DEF Init, TypeOK, Active

LEMMA ToldType ==
    ASSUME TypeOK, NEW t \in Threads, NEW state \in {"present", "failed"},
           Told(t, state)
    PROVE  /\ states' \in [Paths -> {"none", "fetching", "present", "failed"}]
           /\ forsaken' \subseteq Paths
           /\ fpc' \in [Threads -> Active \cup {"off", "queued", "done"}]
           /\ item' \in [Threads -> {"absent", "url", "source"}]
           /\ tries' \in [Threads -> 0..(Attempts - 1)]
<1>1. t[2] \in Paths
  BY ThreadParts
<1>2. states' \in [Paths -> {"none", "fetching", "present", "failed"}]
      /\ forsaken' \subseteq Paths
  BY <1>1 DEF Told, Report, TypeOK
<1>3. fpc' \in [Threads -> Active \cup {"off", "queued", "done"}]
  BY DEF Told, TypeOK, Active
<1>4. item' \in [Threads -> {"absent", "url", "source"}]
  BY DEF Told, TypeOK
<1>5. tries' \in [Threads -> 0..(Attempts - 1)]
  BY DEF Told, TypeOK
<1> QED
  BY <1>2, <1>3, <1>4, <1>5

(* An attempt leaves the types as they are, and the manifest alone. *)
LEMMA AgainType ==
    ASSUME TypeOK, NEW t \in Threads, Again(t)
    PROVE  /\ states' \in [Paths -> {"none", "fetching", "present", "failed"}]
           /\ fpc' \in [Threads -> Active \cup {"off", "queued", "done"}]
           /\ item' \in [Threads -> {"absent", "url", "source"}]
           /\ tries' \in [Threads -> 0..(Attempts - 1)]
           /\ forsaken' \subseteq Paths
           /\ files' = files /\ unrecorded' = unrecorded
<1>1. CASE Fails(t)
  BY <1>1, ToldType DEF Fails, disk
<1>2. CASE /\ tries[t] + 1 < Attempts
           /\ tries' = [tries EXCEPT ![t] = @ + 1]
           /\ fpc' = [fpc EXCEPT ![t] = "refresh"]
           /\ UNCHANGED <<said, disk, item>>
  <2>1. tries' \in [Threads -> 0..(Attempts - 1)]
    BY <1>2 DEF TypeOK
  <2> QED
    BY <1>2, <2>1 DEF TypeOK, Active, said, disk
<1> QED
  BY <1>1, <1>2 DEF Again

LEMMA LandsType ==
    ASSUME TypeOK, NEW t \in Threads, Lands(t)
    PROVE  /\ files' \subseteq Paths /\ unrecorded' \subseteq files'
           /\ \E state \in {"present", "failed"} : Told(t, state)
BY ThreadParts DEF Lands, TypeOK

LEMMA TypeFetching ==
    ASSUME TypeOK, NEW t \in Threads, Fetching(t)
    PROVE  TypeOK'
<1> USE ThreadParts DEF TypeOK, Active
<1>1. CASE FetchEnter(t)
  BY <1>1 DEF FetchEnter, callVars, disk, said
<1>2. CASE FetchLook(t)
  <2>1. CASE /\ \E state \in {"present", "failed"} : Told(t, state)
             /\ unrecorded' \subseteq unrecorded /\ UNCHANGED stale
    <3>1. PICK state \in {"present", "failed"} : Told(t, state)
      BY <2>1
    <3> QED
      BY <1>2, <2>1, <3>1, ToldType, SMTT(20) DEF FetchLook, fetchElse, callVars
  <2>2. CASE /\ Report(t[2], "fetching")
             /\ item' = [item EXCEPT ![t] = items[t[2]]]
             /\ stale' = stale \ {t}
             /\ fpc' = [fpc EXCEPT ![t] = IF items[t[2]] = "source" THEN "source"
                                         ELSE "try"]
             /\ UNCHANGED <<tries, unrecorded>>
    <3>1. states' \in [Paths -> {"none", "fetching", "present", "failed"}]
          /\ forsaken' \subseteq Paths
      BY <2>2 DEF Report
    <3>2. fpc' \in [Threads -> Active \cup {"off", "queued", "done"}]
      BY <2>2
    <3>3. item' \in [Threads -> {"absent", "url", "source"}]
      BY <2>2
    <3> QED
      BY <1>2, <2>2, <3>1, <3>2, <3>3 DEF FetchLook, fetchElse, callVars
  <2> QED
    BY <1>2, <2>1, <2>2 DEF FetchLook
<1>3. CASE FetchSource(t)
  <2>1. CASE Lands(t)
    <3>1. PICK state \in {"present", "failed"} : Told(t, state)
      BY <2>1, LandsType
    <3>2. files' \subseteq Paths /\ unrecorded' \subseteq files'
      BY <2>1, LandsType
    <3>3. UNCHANGED <<fetchElse, items, stale>>
      BY <1>3 DEF FetchSource
    <3> QED
      BY <3>1, <3>2, <3>3, ToldType DEF fetchElse, callVars
  <2>2. CASE Fails(t)
    BY <1>3, <2>2, ToldType DEF FetchSource, fetchElse, callVars, Fails, disk
  <2> QED
    BY <1>3, <2>1, <2>2 DEF FetchSource
<1>4. CASE FetchTry(t)
  <2>1. CASE Fails(t)
    BY <1>4, <2>1, ToldType DEF FetchTry, fetchElse, callVars, Fails, disk
  <2>2. CASE Lands(t)
    <3>1. PICK state \in {"present", "failed"} : Told(t, state)
      BY <2>2, LandsType
    <3>2. files' \subseteq Paths /\ unrecorded' \subseteq files'
      BY <2>2, LandsType
    <3>3. UNCHANGED <<fetchElse, items, stale>>
      BY <1>4 DEF FetchTry
    <3> QED
      BY <3>1, <3>2, <3>3, ToldType DEF fetchElse, callVars
  <2>3. CASE Again(t)
    BY <1>4, <2>3, AgainType DEF FetchTry, fetchElse, callVars
  <2> QED
    BY <1>4, <2>1, <2>2, <2>3 DEF FetchTry
<1>5. CASE FetchRefresh(t)
  <2>1. Listed(srvRev) \in [Paths -> {"absent", "url", "source"}]
    BY ListedType
  <2>2. CASE Again(t) /\ UNCHANGED <<items, stale>>
    BY <1>5, <2>2, AgainType DEF FetchRefresh, fetchElse, callVars
  <2>3. CASE /\ items' \in {items, Listed(srvRev)} /\ stale' \subseteq Threads
             /\ item' = [item EXCEPT ![t] = items'[t[2]]]
             /\ fpc' = [fpc EXCEPT ![t] = "try"]
             /\ UNCHANGED <<said, disk, tries>>
    BY <1>5, <2>1, <2>3 DEF FetchRefresh, fetchElse, callVars, said, disk
  <2> QED
    BY <1>5, <2>2, <2>3 DEF FetchRefresh
<1>6. CASE FetchLeave(t)
  BY <1>6 DEF FetchLeave, callVars, said, disk
<1> QED
  BY <1>1, <1>2, <1>3, <1>4, <1>5, <1>6 DEF Fetching

LEMMA TypeStep == TypeOK /\ [Next]_vars => TypeOK'
<1> SUFFICES ASSUME TypeOK, [Next]_vars PROVE TypeOK'
  OBVIOUS
<1> USE DEF TypeOK, Active, said, disk
<1>1. CASE Rises
  BY <1>1 DEF Rises, callVars, fetchVars
<1>2. CASE OnReply
  BY <1>2 DEF OnReply, callVars, fetchVars
<1>3. ASSUME NEW r \in Requests, EnsurePost(r) PROVE TypeOK'
  BY <1>3 DEF EnsurePost, callElse, Callers
<1>4. ASSUME NEW c \in Callers, Works(c) PROVE TypeOK'
  <2>1. CASE GetManifest(c)
    <3>1. Listed(srvRev) \in [Paths -> {"absent", "url", "source"}]
      BY ListedType
    <3>2. Serves[srvRev] \subseteq Paths
      OBVIOUS
    <3> QED
      BY <2>1, <3>1, <3>2, ZenonT(40) DEF GetManifest, Refreshed, callElse
  <2>2. CASE FetchedAll(c)
    BY <2>2 DEF FetchedAll, callElse
  <2>3. CASE WatchWake
    BY <2>3 DEF WatchWake, callElse, Callers
  <2>4. ASSUME NEW r \in Requests, EnsureMerge(r) PROVE TypeOK'
    BY <2>4 DEF EnsureMerge, callElse, Callers
  <2>5. ASSUME NEW r \in Requests, EnsureLook(r) PROVE TypeOK'
    <3> DEFINE Noted(p) == /\ Report(p, "present") /\ UNCHANGED fpc
                           /\ unrecorded' \subseteq unrecorded
               Queued(p) == /\ fpc' = [fpc EXCEPT ![<<r, p>>] = "queued"]
                            /\ UNCHANGED <<said, unrecorded>>
               Rest(p) == /\ todo' = [todo EXCEPT ![r] = @ \ {p}]
                          /\ pc' = [pc EXCEPT ![r] = IF todo[r] = {p} THEN "fetch" ELSE "look"]
    <3>1. PICK p \in Paths : (Noted(p) \/ Queued(p)) /\ Rest(p)
      BY <2>5 DEF EnsureLook, Callers
    <3>2. /\ states' \in [Paths -> {"none", "fetching", "present", "failed"}]
          /\ forsaken' \subseteq Paths /\ unrecorded' \subseteq files
      <4>1. CASE Noted(p)
        BY <4>1 DEF Report
      <4>2. CASE Queued(p)
        BY <4>2
      <4> QED
        BY <3>1, <4>1, <4>2
    <3>3. fpc' \in [Threads -> Active \cup {"off", "queued", "done"}]
      BY <3>1
    <3>4. /\ todo' \in [Callers -> SUBSET Paths]
          /\ pc' \in [Callers -> {"idle", "manifest", "merge", "look", "fetch", "end"}]
      BY <3>1
    <3> QED
      BY <2>5, <3>2, <3>3, <3>4 DEF EnsureLook, callElse
  <2>7. CASE WatchLook
    <3>1. states' \in [Paths -> {"none", "fetching", "present", "failed"}]
      BY <2>7 DEF WatchLook
    <3>3. forsaken' \subseteq Paths /\ unrecorded' \subseteq files
      BY <2>7 DEF WatchLook
    <3>2. fpc' \in [Threads -> Active \cup {"off", "queued", "done"}]
      BY <2>7 DEF WatchLook
    <3> QED
      BY <2>7, <3>1, <3>2, <3>3 DEF WatchLook, callElse, Callers
  <2>8. CASE WatchDies
    <3>1. forsaken' \subseteq Paths /\ unrecorded' \subseteq files
      BY <2>8 DEF WatchDies
    <3>2. /\ todo' \in [Callers -> SUBSET Paths]
          /\ pc' \in [Callers -> {"idle", "manifest", "merge", "look", "fetch", "end"}]
      BY <2>8 DEF WatchDies
    <3> QED
      BY <2>8, <3>1, <3>2 DEF WatchDies, callElse
  <2>9. ASSUME NEW r \in Requests, EnsureGivesUp(r) PROVE TypeOK'
    <3>1. states' \in [Paths -> {"none", "fetching", "present", "failed"}]
          /\ forsaken' \subseteq Paths
      BY <2>9 DEF EnsureGivesUp, Callers
    <3>2. fpc' \in [Threads -> Active \cup {"off", "queued", "done"}]
      BY <2>9 DEF EnsureGivesUp
    <3>3. /\ todo' \in [Callers -> SUBSET Paths]
          /\ pc' \in [Callers -> {"idle", "manifest", "merge", "look", "fetch", "end"}]
      BY <2>9 DEF EnsureGivesUp
    <3> QED
      BY <2>9, <3>1, <3>2, <3>3 DEF EnsureGivesUp, callElse
  <2>6. ASSUME NEW p \in Paths, Fetching(<<c, p>>) PROVE TypeOK'
    BY <2>6, TypeFetching, ThreadOf
  <2> QED
    BY <1>4, <2>1, <2>2, <2>3, <2>4, <2>5, <2>6, <2>7, <2>8, <2>9 DEF Works
<1>5. CASE UNCHANGED vars
  BY <1>5 DEF vars, callVars, fetchVars
<1> QED
  BY <1>1, <1>2, <1>3, <1>4, <1>5 DEF Next

(* Every variable keeps its type, and no download makes more attempts than  *)
(* ATTEMPTS.                                                                *)
THEOREM ModelsType == Spec => []TypeOK
BY TypeInit, TypeStep, PTL DEF Spec

(***************************************************************************)
(* One writer: the slot of a path names the caller whose download it is.   *)
(***************************************************************************)

SlotInv == \A t \in Threads : fpc[t] \in Owning => inflight[t[2]] = t[1]

LEMMA SlotWriter == ASSUME SlotInv PROVE OneWriter
BY ThreadParts DEF SlotInv, OneWriter

LEMMA SlotFetching ==
    ASSUME TypeOK, SlotInv, NEW t \in Threads, Fetching(t)
    PROVE  SlotInv'
<1> USE ThreadParts DEF SlotInv, TypeOK, Active, Owning
<1>1. CASE FetchEnter(t)
  <2>1. CASE /\ inflight[t[2]] = Nobody
             /\ fpc' = [fpc EXCEPT ![t] = "own"]
             /\ inflight' = [inflight EXCEPT ![t[2]] = t[1]]
    BY <2>1
  <2>2. CASE fpc' = [fpc EXCEPT ![t] = "wait"] /\ UNCHANGED inflight
    BY <2>2
  <2> QED
    BY <1>1, <2>1, <2>2 DEF FetchEnter
<1>2. CASE FetchLeave(t)
  <2> SUFFICES ASSUME NEW u \in Threads, fpc'[u] \in Owning
               PROVE  inflight'[u[2]] = u[1]
    OBVIOUS
  <2>1. u # t /\ fpc[u] \in Owning /\ fpc[t] \in Owning
    BY <1>2 DEF FetchLeave
  <2>2. u[2] # t[2]
    <3>1. inflight[u[2]] = u[1] /\ inflight[t[2]] = t[1]
      BY <2>1
    <3>2. u[2] # t[2] \/ u[1] # t[1]
      BY <2>1
    <3> QED
      BY <3>1, <3>2
  <2> QED
    BY <1>2, <2>1, <2>2 DEF FetchLeave
<1>3. CASE FetchLook(t) \/ FetchSource(t) \/ FetchTry(t) \/ FetchRefresh(t)
  <2>1. /\ fpc[t] \in Owning
        /\ \E s \in Active : fpc' = [fpc EXCEPT ![t] = s]
        /\ inflight' = inflight
    BY <1>3 DEF FetchLook, FetchSource, FetchTry, FetchRefresh, fetchElse,
                Lands, Fails, Told, Again
  <2> QED
    BY <2>1
<1> QED
  BY <1>1, <1>2, <1>3 DEF Fetching

LEMMA SlotStep == TypeOK /\ SlotInv /\ [Next]_vars => SlotInv'
<1> SUFFICES ASSUME TypeOK, SlotInv, [Next]_vars PROVE SlotInv'
  OBVIOUS
<1>1. CASE UNCHANGED <<fpc, inflight>>
  BY <1>1 DEF SlotInv
<1>2. CASE Rises \/ OnReply \/ (\E r \in Requests : EnsurePost(r)) \/ UNCHANGED vars
  BY <1>1, <1>2 DEF Rises, OnReply, EnsurePost, callElse, fetchVars, vars
<1>3. ASSUME NEW c \in Callers, Works(c) PROVE SlotInv'
  <2>1. CASE GetManifest(c) \/ WatchWake \/ (\E r \in Requests : EnsureMerge(r))
    BY <1>1, <2>1 DEF GetManifest, WatchWake, EnsureMerge, callElse
  <2>2. CASE FetchedAll(c)
    BY <2>2 DEF FetchedAll, callElse, SlotInv, Owning, Active, TypeOK
  <2>3. CASE WatchLook
    BY <2>3 DEF WatchLook, callElse, SlotInv, Owning, Active, TypeOK
  <2>6. CASE WatchDies
    BY <1>1, <2>6 DEF WatchDies, callElse
  <2>7. ASSUME NEW r \in Requests, EnsureGivesUp(r) PROVE SlotInv'
    BY <2>7 DEF EnsureGivesUp, callElse, SlotInv, Owning, Active, TypeOK
  <2>4. ASSUME NEW r \in Requests, EnsureLook(r) PROVE SlotInv'
    <3>1. PICK p \in Paths : fpc' \in {fpc, [fpc EXCEPT ![<<r, p>>] = "queued"]}
      BY <2>4 DEF EnsureLook, Callers, TypeOK
    <3>2. <<r, p>> \in Threads
      BY DEF Threads, Callers
    <3>3. \A t \in Threads : fpc'[t] \in Owning => fpc'[t] = fpc[t]
      BY <3>1, <3>2 DEF Owning, Active, TypeOK
    <3> QED
      BY <2>4, <3>3 DEF EnsureLook, callElse, SlotInv
  <2>5. ASSUME NEW p \in Paths, Fetching(<<c, p>>) PROVE SlotInv'
    BY <2>5, SlotFetching, ThreadOf
  <2> QED
    BY <1>3, <2>1, <2>2, <2>3, <2>4, <2>5, <2>6, <2>7 DEF Works
<1> QED
  BY <1>2, <1>3 DEF Next

(* "Two writers on one .part would race on the rename": whoever asks, and   *)
(* whenever, one thread at most downloads a path.                           *)
THEOREM ModelsOneWriter == Spec => []OneWriter
<1>1. Init => SlotInv
  BY DEF Init, SlotInv, Owning, Active
<1> QED
  BY <1>1, SlotStep, SlotWriter, ModelsType, PTL DEF Spec

(***************************************************************************)
(* The state told of a path and its file.  A path with a file is listed    *)
(* and stays so, and who tries to fetch one has none to overwrite.         *)
(***************************************************************************)

(* What is listed stays so, and what a POST asks for with links of its own   *)
(* is listed: a refresh takes nothing away.                                 *)
NothingUnlisted == \A i, j \in 1..MaxRev : i <= j => Serves[i] \subseteq Serves[j]

KeepsListed ==
    /\ NothingUnlisted
    /\ \A r \in Requests : \A i \in 1..MaxRev : Given[r] \subseteq Serves[i]

Trying == {"try", "refresh", "source"}

ItemsListed == \A p \in Paths : items[p] # "absent" => p \in Serves[srvRev]
FilesListed == \A p \in files : items[p] # "absent"
ItemKept ==
    \A t \in Threads :
        /\ item[t] # "absent" => items[t[2]] # "absent"
        /\ fpc[t] = "source" => item[t] # "absent"
TryingFileless == \A t \in Threads : fpc[t] \in Trying => t[2] \notin files

ListInv == ItemsListed /\ FilesListed /\ ItemKept
FileInv == TryingFileless /\ StateTrue

(* The manifest only grows: the invariant's part about it survives. *)
LEMMA ListGrows ==
    ASSUME TypeOK, ListInv, UNCHANGED <<srvRev, files>>,
           items' \in [Paths -> {"absent", "url", "source"}],
           \A p \in Paths : items[p] # "absent" => items'[p] # "absent",
           \A p \in Paths : items'[p] # "absent" => p \in Serves[srvRev],
           \A t \in Threads : \/ item'[t] = item[t] /\ (fpc'[t] = "source" => fpc[t] = "source")
                              \/ item'[t] = items'[t[2]] /\ fpc'[t] # "source"
                              \/ item'[t] = "absent" /\ fpc'[t] # "source"
    PROVE  ListInv'
<1>1. ItemsListed'
  BY DEF ItemsListed
<1>2. FilesListed'
  BY DEF FilesListed, ListInv, TypeOK
<1>3. ItemKept'
  BY ThreadParts DEF ItemKept, ListInv, TypeOK
<1> QED
  BY <1>1, <1>2, <1>3 DEF ListInv

(* What a refresh brings is of this kind. *)
LEMMA RefreshGrows ==
    ASSUME TypeOK, ListInv
    PROVE  /\ Listed(srvRev) \in [Paths -> {"absent", "url", "source"}]
           /\ \A p \in Paths : items[p] # "absent" => Listed(srvRev)[p] # "absent"
           /\ \A p \in Paths : Listed(srvRev)[p] # "absent" => p \in Serves[srvRev]
BY ListedType DEF TypeOK, ListInv, ItemsListed

(* What one thread of a download does to what is told, and to its file. *)
LEMMA ToldFiles ==
    ASSUME TypeOK, SlotInv, FileInv, NEW t \in Threads, fpc[t] \in Owning,
           NEW state \in {"present", "failed"}, Told(t, state),
           files' \in {files, files \cup {t[2]}},
           state = "present" => t[2] \in files',
           state = "failed" /\ t[2] \in files' => t[2] \in unrecorded',
           \A p \in Paths : p # t[2] /\ p \in unrecorded => p \in unrecorded'
    PROVE  FileInv'
<1>1. t[2] \in Paths
  BY ThreadParts
<1>2. StateTrue'
  <2> SUFFICES ASSUME NEW p \in Paths
               PROVE  /\ states'[p] = "present" => p \in files'
                      /\ states'[p] = "failed" /\ p \in files'
                            => p \in unrecorded' \cup forsaken'
    BY DEF StateTrue
  <2>1. CASE p = t[2]
    BY <1>1, <2>1 DEF Told, Report, TypeOK
  <2>2. CASE p # t[2]
    BY <1>1, <2>2 DEF Told, Report, TypeOK, FileInv, StateTrue
  <2> QED
    BY <2>1, <2>2
<1>3. ASSUME NEW u \in Threads, fpc'[u] \in Trying PROVE u[2] \notin files'
  <2>1. u # t /\ fpc[u] \in Trying
    BY <1>3 DEF Told, TypeOK, Trying
  <2>2. u[2] # t[2]
    BY <2>1, ThreadParts DEF SlotInv, Owning, Active, Trying
  <2> QED
    BY <2>1, <2>2 DEF FileInv, TryingFileless
<1> QED
  BY <1>2, <1>3 DEF FileInv, TryingFileless

LEMMA ToldLists ==
    ASSUME TypeOK, ListInv, NEW t \in Threads, NEW state, Told(t, state),
           UNCHANGED <<srvRev, items>>,
           files' \in {files, files \cup {t[2]}},
           files' = files \/ items[t[2]] # "absent"
    PROVE  ListInv'
<1>1. ItemsListed'
  BY DEF ItemsListed, ListInv
<1>2. FilesListed'
  BY DEF FilesListed, ListInv
<1>3. ItemKept'
  BY DEF ItemKept, ListInv, Told, TypeOK
<1> QED
  BY <1>1, <1>2, <1>3 DEF ListInv

LEMMA FilesFetching ==
    ASSUME TypeOK, SlotInv, ListInv, FileInv, NEW t \in Threads, Fetching(t)
    PROVE  ListInv' /\ FileInv'
<1>0. t[1] \in Callers /\ t[2] \in Paths
  BY ThreadParts
<1>1. CASE FetchEnter(t)
  <2>1. /\ UNCHANGED <<srvRev, items, files, unrecorded, states, forsaken, item>>
        /\ \A u \in Threads : fpc'[u] \in Trying => fpc'[u] = fpc[u]
    BY <1>1 DEF FetchEnter, fetchVars, TypeOK, Trying, disk, said
  <2>2. ListInv'
    BY <2>1 DEF ListInv, ItemsListed, FilesListed, ItemKept, Trying
  <2>3. FileInv'
    BY <2>1 DEF FileInv, TryingFileless, StateTrue
  <2> QED
    BY <2>2, <2>3
<1>2. CASE FetchLook(t)
  <2>1. CASE /\ t[2] \in files /\ Told(t, "present")
             /\ unrecorded' = unrecorded \ {t[2]}
    BY <1>2, <2>1, ToldFiles, ToldLists DEF FetchLook, fetchElse, Owning, Active
  <2>3. CASE t[2] \in unrecorded /\ Told(t, "failed") /\ UNCHANGED unrecorded
    BY <1>2, <2>3, ToldFiles, ToldLists DEF FetchLook, fetchElse, Owning, Active
  <2>2. CASE /\ items[t[2]] = "absent" \/ t[2] \notin files
             /\ Report(t[2], "fetching")
             /\ item' = [item EXCEPT ![t] = items[t[2]]]
             /\ fpc' = [fpc EXCEPT ![t] = IF items[t[2]] = "source" THEN "source"
                                         ELSE "try"]
             /\ UNCHANGED unrecorded
    <3>1. UNCHANGED <<srvRev, items, files>>
      BY <1>2 DEF FetchLook, fetchElse
    <3>2. t[2] \notin files
      BY <2>2 DEF ListInv, FilesListed
    <3>3. ListInv'
      BY <2>2, <3>1 DEF ListInv, ItemsListed, FilesListed, ItemKept, TypeOK
    <3>4. StateTrue'
      BY <1>0, <2>2, <3>1 DEF Report, FileInv, StateTrue, TypeOK
    <3>5. TryingFileless'
      BY <2>2, <3>1, <3>2 DEF FileInv, TryingFileless, TypeOK
    <3> QED
      BY <3>3, <3>4, <3>5 DEF FileInv
  <2> QED
    BY <1>2, <2>1, <2>2, <2>3 DEF FetchLook
<1>3. ASSUME fpc[t] \in Trying, Fails(t), UNCHANGED <<srvRev, items>>
      PROVE  ListInv' /\ FileInv'
  <2>1. t[2] \notin files
    BY <1>3 DEF FileInv, TryingFileless
  <2> QED
    BY <1>3, <2>1, ToldFiles, ToldLists DEF Fails, Owning, Active, Trying, disk
<1>4. ASSUME fpc[t] \in Trying, item[t] # "absent", Lands(t), UNCHANGED <<srvRev, items>>
      PROVE  ListInv' /\ FileInv'
  <2>1. items[t[2]] # "absent" /\ fpc[t] \in Owning
    BY <1>4 DEF ListInv, ItemKept, Owning, Active, Trying
  <2>2. CASE Told(t, "present") /\ unrecorded' = unrecorded \ {t[2]}
    BY <1>4, <2>1, <2>2, ToldFiles, ToldLists DEF Lands
  <2>3. CASE Told(t, "failed") /\ unrecorded' = unrecorded \cup {t[2]}
    BY <1>4, <2>1, <2>3, ToldFiles, ToldLists DEF Lands
  <2> QED
    BY <1>4, <2>2, <2>3 DEF Lands
<1>5. CASE FetchSource(t)
  <2>1. item[t] # "absent"
    BY <1>5 DEF FetchSource, ListInv, ItemKept
  <2> QED
    BY <1>3, <1>4, <1>5, <2>1 DEF FetchSource, fetchElse, Trying
<1>6. ASSUME fpc[t] \in Trying, Again(t), UNCHANGED <<srvRev, items>>
      PROVE  ListInv' /\ FileInv'
  <2>1. CASE /\ fpc' = [fpc EXCEPT ![t] = "refresh"]
             /\ UNCHANGED <<states, forsaken, files, unrecorded, item>>
    <3>1. ListInv'
      BY <1>6, <2>1 DEF ListInv, ItemsListed, FilesListed, ItemKept, TypeOK
    <3>2. FileInv'
      BY <1>6, <2>1 DEF FileInv, TryingFileless, StateTrue, TypeOK, Trying
    <3> QED
      BY <3>1, <3>2
  <2> QED
    BY <1>3, <1>6, <2>1 DEF Again, said, disk
<1>7. CASE FetchTry(t)
  BY <1>3, <1>4, <1>6, <1>7 DEF FetchTry, fetchElse, Trying
<1>8. CASE FetchRefresh(t)
  <2>1. CASE Again(t) /\ UNCHANGED items
    BY <1>6, <1>8, <2>1 DEF FetchRefresh, fetchElse, Trying
  <2>2. CASE /\ items' \in {items, Listed(srvRev)}
             /\ item' = [item EXCEPT ![t] = items'[t[2]]]
             /\ fpc' = [fpc EXCEPT ![t] = "try"]
             /\ UNCHANGED <<states, forsaken, files, unrecorded>>
    <3>1. fpc[t] \in Trying /\ srvRev' = srvRev
      BY <1>8 DEF FetchRefresh, fetchElse, Trying
    <3>2. /\ items' \in [Paths -> {"absent", "url", "source"}]
          /\ \A p \in Paths : items[p] # "absent" => items'[p] # "absent"
          /\ \A p \in Paths : items'[p] # "absent" => p \in Serves[srvRev]
      BY <2>2, RefreshGrows DEF ListInv, ItemsListed, TypeOK
    <3>3. \A u \in Threads : \/ item'[u] = item[u] /\ fpc'[u] = fpc[u]
                             \/ item'[u] = items'[u[2]] /\ fpc'[u] # "source"
      BY <2>2 DEF TypeOK
    <3>4. ListInv'
      BY <2>2, <3>1, <3>2, <3>3, ListGrows
    <3>5. FileInv'
      BY <2>2, <3>1 DEF FileInv, TryingFileless, StateTrue, TypeOK, Trying
    <3> QED
      BY <3>4, <3>5
  <2> QED
    BY <1>8, <2>1, <2>2 DEF FetchRefresh, said, disk
<1>9. CASE FetchLeave(t)
  <2>1. /\ UNCHANGED <<srvRev, items, files, unrecorded, states, forsaken, item>>
        /\ \A u \in Threads : fpc'[u] \in Trying => fpc'[u] = fpc[u]
    BY <1>9 DEF FetchLeave, fetchVars, TypeOK, Trying, disk, said
  <2>2. ListInv'
    BY <2>1 DEF ListInv, ItemsListed, FilesListed, ItemKept, Trying
  <2>3. FileInv'
    BY <2>1 DEF FileInv, TryingFileless, StateTrue
  <2> QED
    BY <2>2, <2>3
<1> QED
  BY <1>1, <1>2, <1>5, <1>7, <1>8, <1>9 DEF Fetching

Excused(p) == p \in unrecorded \cup forsaken

(* A caller's own steps put threads in a queue or take them off, and tell of *)
(* a path what its file says.                                                *)
LEMMA FilesCalling ==
    ASSUME TypeOK, ListInv, FileInv, UNCHANGED <<srvRev, files, item>>,
           \/ UNCHANGED items
           \/ items' = Listed(srvRev)
           \/ KeepsListed /\ \E r \in Requests :
                  items' = [p \in Paths |-> IF p \in Given[r] THEN "url" ELSE items[p]],
           \A t \in Threads : fpc'[t] \in Trying => fpc'[t] = fpc[t],
           \A p \in Paths : \/ states'[p] = states[p] /\ Excused(p) = Excused(p)'
                            \/ states'[p] = "fetching"
                            \/ states'[p] = "present" /\ p \in files
                            \/ states'[p] \in {states[p], "failed"} /\ Excused(p)'
    PROVE  ListInv' /\ FileInv'
<1>1. /\ items' \in [Paths -> {"absent", "url", "source"}]
      /\ \A p \in Paths : items[p] # "absent" => items'[p] # "absent"
      /\ \A p \in Paths : items'[p] # "absent" => p \in Serves[srvRev]
  BY RefreshGrows DEF KeepsListed, ListInv, ItemsListed, TypeOK
<1>2. ListInv'
  BY <1>1, ListGrows DEF Trying
<1>3. TryingFileless'
  BY DEF FileInv, TryingFileless
<1>4. StateTrue'
  BY DEF FileInv, StateTrue, Excused
<1> QED
  BY <1>2, <1>3, <1>4 DEF FileInv

LEMMA FilesStep ==
    ASSUME KeepsListed
    PROVE  TypeOK /\ SlotInv /\ ListInv /\ FileInv /\ [Next]_vars => ListInv' /\ FileInv'
<1> SUFFICES ASSUME TypeOK, SlotInv, ListInv, FileInv, [Next]_vars
             PROVE  ListInv' /\ FileInv'
  OBVIOUS
<1>1. CASE Rises
  <2>1. /\ UNCHANGED <<items, files, unrecorded, states, forsaken, item, fpc>>
        /\ Serves[srvRev] \subseteq Serves[srvRev']
    BY <1>1 DEF Rises, fetchVars, KeepsListed, NothingUnlisted, TypeOK, said, disk
  <2>2. ListInv'
    BY <2>1 DEF ListInv, ItemsListed, FilesListed, ItemKept
  <2>3. FileInv'
    BY <2>1 DEF FileInv, TryingFileless, StateTrue
  <2> QED
    BY <2>2, <2>3
<1>2. CASE OnReply \/ UNCHANGED vars
  <2>1. UNCHANGED <<srvRev, items, files, unrecorded, states, forsaken, item, fpc>>
    BY <1>2 DEF OnReply, fetchVars, vars, said, disk
  <2> QED
    BY <2>1, FilesCalling DEF Excused
<1>3. ASSUME NEW r \in Requests, EnsurePost(r) PROVE ListInv' /\ FileInv'
  <2>1. /\ UNCHANGED <<srvRev, items, files, unrecorded, item, fpc>>
        /\ \A p \in Paths : IF p \in Asked[r] THEN states'[p] = "fetching"
                            ELSE states'[p] = states[p] /\ Excused(p) = Excused(p)'
    BY <1>3 DEF EnsurePost, callElse, disk, Excused
  <2> QED
    BY <2>1, FilesCalling
<1>4. ASSUME NEW c \in Callers, Works(c) PROVE ListInv' /\ FileInv'
  <2>1. CASE GetManifest(c)
    BY <2>1, FilesCalling DEF GetManifest, Refreshed, callElse, disk, said, Excused
  <2>2. CASE FetchedAll(c)
    BY <2>2, FilesCalling DEF FetchedAll, callElse, TypeOK, Trying, disk, said, Excused
  <2>3. CASE WatchWake
    BY <2>3, FilesCalling DEF WatchWake, callElse, disk, said, Excused
  <2>4. CASE WatchLook
    <3>1. UNCHANGED <<srvRev, items, files, item>>
      BY <2>4 DEF WatchLook, callElse
    <3>2. \A t \in Threads : fpc'[t] \in Trying => fpc'[t] = fpc[t]
      BY <2>4 DEF WatchLook, TypeOK, Trying
    <3>3. ASSUME NEW p \in Paths
          PROVE  \/ states'[p] = states[p] /\ Excused(p) = Excused(p)'
                 \/ states'[p] = "present" /\ p \in files
      <4>1. CASE p \in todo[Watcher] \cap files
        BY <2>4, <4>1 DEF WatchLook
      <4>2. CASE p \notin todo[Watcher] \cap files
        BY <2>4, <4>2 DEF WatchLook, Excused, TypeOK
      <4> QED
        BY <4>1, <4>2
    <3> QED
      BY <3>1, <3>2, <3>3, FilesCalling
  <2>8. CASE WatchDies
    <3>1. UNCHANGED <<srvRev, items, files, states, item, fpc>>
      BY <2>8 DEF WatchDies, callElse
    <3>2. \A p \in Paths : Excused(p) = Excused(p)'
      BY <2>8 DEF WatchDies, Excused
    <3> QED
      BY <3>1, <3>2, FilesCalling
  <2>9. ASSUME NEW r \in Requests, EnsureGivesUp(r) PROVE ListInv' /\ FileInv'
    <3>1. UNCHANGED <<srvRev, items, files, item>>
      BY <2>9 DEF EnsureGivesUp, callElse, disk
    <3>2. \A t \in Threads : fpc'[t] \in Trying => fpc'[t] = fpc[t]
      BY <2>9 DEF EnsureGivesUp, TypeOK, Trying
    <3>3. \A p \in Paths : \/ states'[p] = states[p] /\ Excused(p) = Excused(p)'
                           \/ states'[p] = "failed" /\ Excused(p)'
      BY <2>9 DEF EnsureGivesUp, Excused, disk
    <3> QED
      BY <3>1, <3>2, <3>3, FilesCalling
  <2>5. ASSUME NEW r \in Requests, EnsureMerge(r) PROVE ListInv' /\ FileInv'
    BY <2>5, FilesCalling DEF EnsureMerge, callElse, disk, said, Excused
  <2>6. ASSUME NEW r \in Requests, EnsureLook(r) PROVE ListInv' /\ FileInv'
    <3>1. PICK p \in Paths : \/ /\ p \in files /\ Report(p, "present") /\ UNCHANGED fpc
                                /\ unrecorded' \in {unrecorded, unrecorded \ {p}}
                             \/ /\ fpc' = [fpc EXCEPT ![<<r, p>>] = "queued"]
                                /\ UNCHANGED <<states, forsaken, unrecorded>>
      <4>1. PICK p \in todo[r] :
               \/ /\ p \in files /\ Report(p, "present") /\ UNCHANGED fpc
                  /\ unrecorded' = unrecorded \ {q \in {p} : items[q] # "absent"}
               \/ /\ fpc' = [fpc EXCEPT ![<<r, p>>] = "queued"]
                  /\ UNCHANGED <<said, unrecorded>>
        BY <2>6 DEF EnsureLook
      <4>2. p \in Paths
        BY DEF Callers, TypeOK
      <4> QED
        BY <4>1, <4>2 DEF said
    <3>2. \A t \in Threads : fpc'[t] \in Trying => fpc'[t] = fpc[t]
      BY <3>1 DEF TypeOK, Trying
    <3>3. ASSUME NEW q \in Paths
          PROVE  \/ states'[q] = states[q] /\ Excused(q) = Excused(q)'
                 \/ states'[q] = "present" /\ q \in files
      <4>1. CASE q = p /\ p \in files /\ Report(p, "present")
        BY <4>1 DEF Report, TypeOK
      <4>2. CASE /\ q # p /\ Report(p, "present")
                 /\ unrecorded' \in {unrecorded, unrecorded \ {p}}
        BY <4>2 DEF Report, TypeOK, Excused
      <4>3. CASE UNCHANGED <<states, forsaken, unrecorded>>
        BY <4>3 DEF Excused
      <4> QED
        BY <3>1, <4>1, <4>2, <4>3
    <3> QED
      BY <2>6, <3>2, <3>3, FilesCalling DEF EnsureLook, callElse
  <2>7. ASSUME NEW p \in Paths, Fetching(<<c, p>>) PROVE ListInv' /\ FileInv'
    BY <2>7, FilesFetching, ThreadOf
  <2> QED
    BY <1>4, <2>1, <2>2, <2>3, <2>4, <2>5, <2>6, <2>7, <2>8, <2>9 DEF Works
<1> QED
  BY <1>1, <1>2, <1>3, <1>4 DEF Next

(* What the worker is told of a path agrees with its file: "present" only   *)
(* with the file there; "failed" only without, or with a file whose sha     *)
(* could not be put on record, or that was asked for together with such a   *)
(* one; whoever fetches it, as long as pod-control's manifest takes nothing *)
(* back that a POST brought.                                                *)
THEOREM ModelsStateTrue == KeepsListed => (Spec => []StateTrue)
<1>1. Init => ListInv /\ FileInv
  <2> SUFFICES ASSUME Init PROVE ListInv /\ FileInv
    OBVIOUS
  <2>1. ListInv
    BY ListedType DEF Init, ListInv, ItemsListed, FilesListed, ItemKept
  <2>2. FileInv
    BY DEF Init, FileInv, TryingFileless, StateTrue, Trying
  <2> QED
    BY <2>1, <2>2
<1>2. Init => SlotInv
  BY DEF Init, SlotInv, Owning, Active
<1>3. FileInv => StateTrue
  BY DEF FileInv
<1>4. ASSUME KeepsListed PROVE Spec => []StateTrue
  <2>1. TypeOK /\ SlotInv /\ ListInv /\ FileInv /\ [Next]_vars => ListInv' /\ FileInv'
    BY <1>4, FilesStep
  <2> QED
    BY <1>1, <1>2, <1>3, <2>1, SlotStep, ModelsType, PTL DEF Spec
<1> QED
  BY <1>4
(***************************************************************************)
(* The additions: a path of the last revision the watcher was told of is   *)
(* on its way as soon as the watcher has looked.                           *)
(***************************************************************************)

(* The watcher's request for the manifest is answered: one that fails is not *)
(* made again before the next revision.                                     *)
WatcherAnswered == Watcher \notin Unanswered

Spoken == {"told", "try", "refresh", "source", "done"}

Seen(p) == states[p] # "none"

(* A download that has begun, or been waited for, has told of its path.     *)
SpokenSeen == \A t \in Threads : fpc[t] \in Spoken => Seen(t[2])

(* Where the watcher is, and what of the last revision is still to be seen. *)
WatcherKnows ==
    /\ want <= srvRev
    /\ pc[Watcher] \in {"idle", "manifest", "look", "fetch", "end"}
    /\ ~asked =>
         /\ pc[Watcher] = "look" => Serves[want] \subseteq todo[Watcher]
         /\ pc[Watcher] = "fetch" =>
              \A p \in Serves[want] : Seen(p) \/ fpc[<<Watcher, p>>] # "off"
         /\ pc[Watcher] = "idle" => \A p \in Serves[want] : Seen(p)

SeenInv == SpokenSeen /\ WatcherKnows

(* No one ever says again that nothing is known of a path. *)
LEMMA SeenStays ==
    ASSUME TypeOK, [Next]_vars
    PROVE  \A p \in Paths : Seen(p) => Seen(p)'
<1> SUFFICES ASSUME NEW p \in Paths, Seen(p) PROVE Seen(p)'
  OBVIOUS
<1> USE DEF Seen
<1>1. CASE Rises \/ OnReply \/ UNCHANGED vars
  BY <1>1 DEF Rises, OnReply, vars, said
<1>2. ASSUME NEW r \in Requests, EnsurePost(r) PROVE Seen(p)'
  BY <1>2 DEF EnsurePost
<1>3. ASSUME NEW t \in Threads, NEW state \in {"present", "failed", "fetching"},
             Report(t[2], state)
      PROVE  Seen(p)'
  BY <1>3 DEF Report, TypeOK
<1>4. ASSUME NEW t \in Threads, Fails(t) \/ Lands(t) \/ Again(t) PROVE Seen(p)'
  BY <1>3, <1>4 DEF Fails, Lands, Again, Told, said
<1>5. ASSUME NEW t \in Threads, Fetching(t) PROVE Seen(p)'
  <2>1. CASE FetchEnter(t) \/ FetchLeave(t)
    BY <2>1 DEF FetchEnter, FetchLeave, said
  <2>2. CASE FetchLook(t)
    BY <1>3, <2>2 DEF FetchLook, Told
  <2>3. CASE FetchSource(t) \/ FetchTry(t) \/ FetchRefresh(t)
    BY <1>4, <2>3 DEF FetchSource, FetchTry, FetchRefresh, said
  <2> QED
    BY <1>5, <2>1, <2>2, <2>3 DEF Fetching
<1>6. ASSUME NEW c \in Callers, Works(c) PROVE Seen(p)'
  <2>1. CASE GetManifest(c) \/ FetchedAll(c) \/ WatchWake
    BY <2>1 DEF GetManifest, FetchedAll, WatchWake, said
  <2>2. CASE WatchLook \/ WatchDies
    BY <2>2 DEF WatchLook, WatchDies
  <2>5. ASSUME NEW r \in Requests, EnsureGivesUp(r) PROVE Seen(p)'
    BY <2>5 DEF EnsureGivesUp
  <2>3. ASSUME NEW r \in Requests, EnsureMerge(r) \/ EnsureLook(r) PROVE Seen(p)'
    <3>1. CASE UNCHANGED states
      BY <3>1
    <3>2. ASSUME NEW q, Report(q, "present") PROVE Seen(p)'
      BY <3>2 DEF Report, TypeOK
    <3> QED
      BY <2>3, <3>1, <3>2 DEF EnsureMerge, EnsureLook, said
  <2>4. ASSUME NEW q \in Paths, Fetching(<<c, q>>) PROVE Seen(p)'
    BY <1>5, <2>4, ThreadOf
  <2> QED
    BY <1>6, <2>1, <2>2, <2>3, <2>4, <2>5 DEF Works
<1> QED
  BY <1>1, <1>2, <1>6 DEF Next

(* What the threads of the downloads do to SpokenSeen. *)
LEMMA SpokenFetching ==
    ASSUME TypeOK, SpokenSeen, NEW t \in Threads, Fetching(t),
           \A p \in Paths : Seen(p) => Seen(p)'
    PROVE  SpokenSeen'
<1> USE ThreadParts
<1>0. SUFFICES ASSUME NEW u \in Threads, fpc'[u] \in Spoken PROVE Seen(u[2])'
  BY DEF SpokenSeen
<1>1. CASE fpc[u] \in Spoken
  BY <1>1 DEF SpokenSeen
<1>2. CASE fpc[u] \notin Spoken
  <2>1. CASE FetchEnter(t)
    BY <1>0, <1>2, <2>1 DEF FetchEnter, Spoken, TypeOK
  <2>2. CASE FetchLook(t)
    <3>1. \E s \in Active : fpc' = [fpc EXCEPT ![t] = s]
      BY <2>2 DEF FetchLook, Told, Active
    <3>2. u = t
      BY <1>0, <1>2, <3>1 DEF TypeOK
    <3>3. states'[t[2]] \in {"present", "failed", "fetching"}
      BY <2>2 DEF FetchLook, Told, Report, TypeOK
    <3> QED
      BY <3>2, <3>3 DEF Seen
  <2>3. CASE FetchSource(t) \/ FetchTry(t) \/ FetchRefresh(t)
    <3>1. fpc[t] \in Spoken /\ \E s \in Active : fpc' = [fpc EXCEPT ![t] = s]
      BY <2>3 DEF FetchSource, FetchTry, FetchRefresh, Lands, Fails, Told, Again,
                  Spoken, Active
    <3> QED
      BY <1>0, <1>2, <3>1 DEF TypeOK
  <2>4. CASE FetchLeave(t)
    BY <1>0, <1>2, <2>4 DEF FetchLeave, SpokenSeen, Spoken, TypeOK
  <2> QED
    BY <2>1, <2>2, <2>3, <2>4 DEF Fetching
<1> QED
  BY <1>1, <1>2

LEMMA SpokenStep == TypeOK /\ SpokenSeen /\ [Next]_vars => SpokenSeen'
<1> SUFFICES ASSUME TypeOK, SpokenSeen, [Next]_vars PROVE SpokenSeen'
  OBVIOUS
<1>0. \A p \in Paths : Seen(p) => Seen(p)'
  BY SeenStays
<1>1. ASSUME \A t \in Threads : fpc'[t] \in Spoken => fpc[t] \in Spoken
      PROVE  SpokenSeen'
  BY <1>0, <1>1, ThreadParts DEF SpokenSeen
<1>2. CASE Rises \/ OnReply \/ UNCHANGED vars
  BY <1>1, <1>2 DEF Rises, OnReply, vars, fetchVars
<1>3. ASSUME NEW r \in Requests, EnsurePost(r) PROVE SpokenSeen'
  BY <1>1, <1>3 DEF EnsurePost
<1>4. ASSUME NEW c \in Callers, Works(c) PROVE SpokenSeen'
  <2>1. CASE GetManifest(c) \/ WatchWake
    BY <1>1, <2>1 DEF GetManifest, WatchWake
  <2>2. CASE FetchedAll(c) \/ WatchLook \/ WatchDies
    BY <1>1, <2>2 DEF FetchedAll, WatchLook, WatchDies, Spoken
  <2>5. ASSUME NEW r \in Requests, EnsureGivesUp(r) PROVE SpokenSeen'
    BY <1>1, <2>5 DEF EnsureGivesUp, Spoken
  <2>3. ASSUME NEW r \in Requests, EnsureMerge(r) \/ EnsureLook(r) PROVE SpokenSeen'
    BY <1>1, <2>3, ZenonT(40) DEF EnsureMerge, EnsureLook, Spoken, TypeOK
  <2>4. ASSUME NEW p \in Paths, Fetching(<<c, p>>) PROVE SpokenSeen'
    BY <1>0, <2>4, SpokenFetching, ThreadOf
  <2> QED
    BY <1>4, <2>1, <2>2, <2>3, <2>4, <2>5 DEF Works
<1> QED
  BY <1>2, <1>3, <1>4 DEF Next

(* A step that leaves the watcher where it is, and its threads under way. *)
LEMMA WatcherStays ==
    ASSUME TypeOK, WatcherKnows, \A p \in Paths : Seen(p) => Seen(p)',
           UNCHANGED <<srvRev, want, asked>>, pc'[Watcher] = pc[Watcher],
           todo'[Watcher] = todo[Watcher],
           \A p \in Paths : fpc'[<<Watcher, p>>] = "off" => fpc[<<Watcher, p>>] = "off"
    PROVE  WatcherKnows'
<1> DEFINE w == want
<1>1. Serves[w] \subseteq Paths
  BY DEF TypeOK
<1> QED
  BY <1>1 DEF WatcherKnows

LEMMA WatcherStep ==
    ASSUME NothingUnlisted, WatcherAnswered
    PROVE  TypeOK /\ SpokenSeen /\ WatcherKnows /\ [Next]_vars => WatcherKnows'
<1> SUFFICES ASSUME TypeOK, SpokenSeen, WatcherKnows, [Next]_vars PROVE WatcherKnows'
  OBVIOUS
<1>0. \A p \in Paths : Seen(p) => Seen(p)'
  BY SeenStays
<1>a. Serves[want] \subseteq Serves[srvRev] /\ Serves[want] \subseteq Paths
  BY DEF NothingUnlisted, WatcherKnows, TypeOK
<1>b. Watcher \in Callers /\ \A r \in Requests : r # Watcher /\ r \in Callers
  BY DEF Callers
<1>1. CASE Rises
  <2>1. want <= srvRev'
    BY <1>1 DEF Rises, WatcherKnows, TypeOK
  <2> QED
    BY <1>1, <2>1 DEF Rises, WatcherKnows, callVars, fetchVars, Seen, said
<1>2. CASE OnReply
  <2>1. want' <= srvRev'
    BY <1>2 DEF OnReply, TypeOK
  <2> QED
    BY <1>2, <2>1 DEF OnReply, WatcherKnows, callVars, fetchVars, said
<1>3. CASE UNCHANGED vars
  BY <1>3 DEF vars, callVars, fetchVars, WatcherKnows, Seen, said
<1>4. ASSUME NEW r \in Requests, EnsurePost(r) PROVE WatcherKnows'
  BY <1>0, <1>b, <1>4, WatcherStays DEF EnsurePost, callElse, TypeOK
<1>5. ASSUME NEW c \in Callers, Works(c) PROVE WatcherKnows'
  <2>1. CASE GetManifest(c) /\ c # Watcher
    <3>1. pc'[Watcher] = pc[Watcher] /\ todo'[Watcher] = todo[Watcher]
      BY <1>b, <2>1 DEF GetManifest, TypeOK
    <3>2. UNCHANGED <<srvRev, want, asked, fpc>>
      BY <2>1 DEF GetManifest, callElse
    <3> QED
      BY <1>0, <3>1, <3>2, WatcherStays
  <2>2. CASE GetManifest(Watcher)
    <3>1. /\ pc'[Watcher] = "look" /\ todo'[Watcher] = Serves[srvRev]
          /\ UNCHANGED <<srvRev, want, asked>>
      BY <1>b, <2>2 DEF GetManifest, Needs, WatcherAnswered, callElse, TypeOK
    <3> QED
      BY <1>a, <3>1 DEF WatcherKnows
  <2>3. CASE FetchedAll(c) /\ c # Watcher
    <3>1. pc'[Watcher] = pc[Watcher]
      BY <1>b, <2>3 DEF FetchedAll, TypeOK
    <3>2. UNCHANGED <<srvRev, want, asked, todo>>
      BY <2>3 DEF FetchedAll, callElse
    <3>3. \A p \in Paths : fpc'[<<Watcher, p>>] = fpc[<<Watcher, p>>]
      BY <1>b, <2>3, ThreadOf DEF FetchedAll
    <3> QED
      BY <1>0, <3>1, <3>2, <3>3, WatcherStays
  <2>4. CASE FetchedAll(Watcher)
    <3>1. /\ pc[Watcher] = "fetch" /\ pc'[Watcher] = "idle"
          /\ UNCHANGED <<srvRev, want, asked, states>>
          /\ \A p \in Paths : fpc[<<Watcher, p>>] \in {"off", "done"}
      BY <1>b, <2>4 DEF FetchedAll, callElse, TypeOK, said
    <3>2. \A p \in Paths : fpc[<<Watcher, p>>] = "done" => Seen(p)
      BY <1>b, ThreadOf DEF SpokenSeen, Spoken
    <3>3. ~asked => \A p \in Serves[want] : Seen(p)
      BY <1>a, <3>1, <3>2 DEF WatcherKnows
    <3> QED
      BY <3>1, <3>3 DEF WatcherKnows, Seen
  <2>5. CASE WatchWake
    BY <1>b, <2>5 DEF WatchWake, callElse, WatcherKnows, TypeOK, said
  <2>6. CASE WatchLook
    <3>1. /\ pc[Watcher] = "look" /\ pc'[Watcher] = "fetch"
          /\ UNCHANGED <<srvRev, want, asked>>
      BY <1>b, <2>6 DEF WatchLook, callElse, TypeOK
    <3>2. \A p \in todo[Watcher] : Seen(p)' \/ fpc'[<<Watcher, p>>] = "queued"
      BY <1>b, <2>6, ThreadOf DEF WatchLook, Seen, TypeOK
    <3>3. ~asked => \A p \in Serves[want] : Seen(p)' \/ fpc'[<<Watcher, p>>] # "off"
      BY <3>1, <3>2 DEF WatcherKnows
    <3> QED
      BY <3>1, <3>3 DEF WatcherKnows
  <2>a. CASE WatchDies
    <3>1. pc'[Watcher] = "end" /\ UNCHANGED <<srvRev, want, asked>>
      BY <1>b, <2>a DEF WatchDies, callElse, TypeOK
    <3> QED
      BY <3>1 DEF WatcherKnows
  <2>b. ASSUME NEW r \in Requests, EnsureGivesUp(r) PROVE WatcherKnows'
    <3>1. /\ UNCHANGED <<srvRev, want, asked>> /\ pc'[Watcher] = pc[Watcher]
          /\ todo'[Watcher] = todo[Watcher]
      BY <1>b, <2>b DEF EnsureGivesUp, callElse, TypeOK
    <3>2. \A p \in Paths : fpc'[<<Watcher, p>>] = fpc[<<Watcher, p>>]
      BY <1>b, <2>b, ThreadOf DEF EnsureGivesUp
    <3> QED
      BY <1>0, <3>1, <3>2, WatcherStays
  <2>7. ASSUME NEW r \in Requests, EnsureMerge(r) PROVE WatcherKnows'
    BY <1>0, <1>b, <2>7, WatcherStays DEF EnsureMerge, callElse, TypeOK
  <2>8. ASSUME NEW r \in Requests, EnsureLook(r) PROVE WatcherKnows'
    <3>1. PICK p \in Paths : fpc' \in {fpc, [fpc EXCEPT ![<<r, p>>] = "queued"]}
      BY <1>b, <2>8 DEF EnsureLook, TypeOK
    <3>2. \A q \in Paths : fpc'[<<Watcher, q>>] = fpc[<<Watcher, q>>]
      BY <1>b, <3>1, ThreadOf DEF TypeOK
    <3>3. /\ UNCHANGED <<srvRev, want, asked>> /\ pc'[Watcher] = pc[Watcher]
          /\ todo'[Watcher] = todo[Watcher]
      BY <1>b, <2>8 DEF EnsureLook, callElse, TypeOK
    <3> QED
      BY <1>0, <3>2, <3>3, WatcherStays
  <2>9. ASSUME NEW p \in Paths, Fetching(<<c, p>>) PROVE WatcherKnows'
    <3>1. \A t \in Threads : Fetching(t) =>
             \A u \in Threads : fpc'[u] = "off" => fpc[u] = "off"
      BY DEF Fetching, FetchEnter, FetchLook, FetchSource, FetchTry, FetchRefresh,
             FetchLeave, Lands, Fails, Again, Told, TypeOK
    <3>2. UNCHANGED <<srvRev, want, asked, pc, todo>>
      BY <2>9 DEF Fetching, FetchEnter, FetchLook, FetchSource, FetchTry,
             FetchRefresh, FetchLeave, fetchElse, callVars
    <3> QED
      BY <1>0, <1>b, <2>9, <3>1, <3>2, ThreadOf, WatcherStays
  <2> QED
    BY <1>5, <2>1, <2>2, <2>3, <2>4, <2>5, <2>6, <2>7, <2>8, <2>9,
       <2>a, <2>b DEF Works
<1> QED
  BY <1>1, <1>2, <1>3, <1>4, <1>5 DEF Next

(* "After ready: fetch models added mid-life": whenever the watcher rests,  *)
(* each path of the last revision it was told of is told of - there, on its *)
(* way or failed -, whoever fetches beside it, whenever a revision comes,   *)
(* and also when what it wanted was waited for and not fetched.  It needs a *)
(* manifest that only grows, and an answer when the watcher asks for it.    *)
THEOREM ModelsAdditionsSeen ==
    NothingUnlisted /\ WatcherAnswered => (Spec => []AdditionsSeen)
<1>1. Init => SeenInv
  <2> SUFFICES ASSUME Init PROVE SeenInv
    OBVIOUS
  <2>1. SpokenSeen
    BY DEF Init, SpokenSeen, Spoken
  <2>2. ~asked => \A p \in Serves[1] : Seen(p)
    <3>1. ~asked => files = Serves[1]
      BY DEF Init
    <3>2. \A p \in files : p \in Paths /\ states[p] = "present"
      BY DEF Init
    <3> QED
      BY <3>1, <3>2 DEF Seen
  <2>3. WatcherKnows
    BY <2>2 DEF Init, WatcherKnows, Callers
  <2> QED
    BY <2>1, <2>3 DEF SeenInv
<1>2. SeenInv => AdditionsSeen
  BY DEF SeenInv, WatcherKnows, AdditionsSeen, Seen
<1>3. ASSUME NothingUnlisted, WatcherAnswered PROVE Spec => []AdditionsSeen
  <2>1. TypeOK /\ SeenInv /\ [Next]_vars => SeenInv'
    BY <1>3, SpokenStep, WatcherStep DEF SeenInv
  <2> QED
    BY <1>1, <1>2, <2>1, ModelsType, PTL DEF Spec
<1> QED
  BY <1>3
=============================================================================
