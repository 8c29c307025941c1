---------------------------- MODULE JobLogProofs ----------------------------
(***************************************************************************)
(* Of one job's record on disk (JobLog.tla): it is typed whoever writes it *)
(* and whenever; and as long as nobody cancels, the subprocess and the     *)
(* reaper take turns, so that seqs grow, the snapshot is whole and has all *)
(* events, and a poller misses none - for any number of events, wherever   *)
(* the subprocess dies.                                                    *)
(***************************************************************************)
EXTENDS JobLog, FiniteSetTheorems, SequenceTheorems, WellFoundedInduction, TLAPS

USE JobLogConstants

(***************************************************************************)
(* Facts about data.                                                       *)
(***************************************************************************)

LEMMA LeastNatural ==
    ASSUME NEW T, T \subseteq Nat, T # {}
    PROVE  \E n \in T : \A m \in T : n <= m
<1>1. IsWellFoundedOn(OpToRel(<, Nat), Nat)
  BY NatLessThanWellFounded
<1>2. PICK n \in T : \A m \in T : ~(<<m, n>> \in OpToRel(<, Nat))
  <2> HIDE DEF OpToRel
  <2> QED
    BY ONLY <1>1, WFMin, T \subseteq Nat, T # {}
<1>3. \A m \in T : ~(m < n)
  BY <1>2, Zenon DEF OpToRel
<1> QED
  BY <1>3

(* Some lines of a log have a last one among them. *)
LEMMA LastOf ==
    ASSUME NEW n \in Nat, NEW S \in SUBSET (1..n), S # {}
    PROVE  LET i == CHOOSE i \in S : \A j \in S : j <= i IN
           i \in S /\ \A j \in S : j <= i
<1> DEFINE Above == {m \in Nat : \A j \in S : j <= m}
<1>1. n \in Above
  OBVIOUS
<1>2. PICK m \in Above : \A k \in Above : m <= k
  <2>1. Above \subseteq Nat
    OBVIOUS
  <2> HIDE DEF Above
  <2> QED
    BY <1>1, <2>1, LeastNatural
<1>3. m \in S
  <2> SUFFICES ASSUME m \notin S PROVE FALSE
    OBVIOUS
  <2>1. \A j \in S : j <= m - 1 /\ j >= 1
    BY <1>2
  <2>2. m - 1 \in Above
    <3>1. PICK j \in S : TRUE
      OBVIOUS
    <3>2. m - 1 >= 1
      BY <2>1, <3>1
    <3> QED
      BY <2>1, <3>2
  <2> QED
    BY <1>2, <2>2
<1>4. \E i \in S : \A j \in S : j <= i
  BY <1>2, <1>3
<1> QED
  BY <1>4

LEMMA FilesAre == Files = 1..5 /\ NoFile \notin Files
<1>1. Cardinality({"cancel"}) = 1 /\ IsFiniteSet({"cancel"})
  BY FS_Singleton
<1>2. Cardinality({"cancel"} \cup {"reaper"}) = 2 /\ IsFiniteSet({"cancel"} \cup {"reaper"})
  BY <1>1, FS_AddElement
<1>3. Cardinality(({"cancel"} \cup {"reaper"}) \cup {"child"}) = 3
  BY <1>2, FS_AddElement
<1>4. ({"cancel"} \cup {"reaper"}) \cup {"child"} = Writers
  BY DEF Writers
<1> QED
  BY <1>3, <1>4 DEF Files, NoFile

LEMMA EventIs ==
    ASSUME NEW w \in Writers, NEW n \in Nat, NEW job \in Terminal \cup {"", "running"}
    PROVE  Event(w, n, job) \in Events
BY DEF Event, Events

LEMMA LineIs ==
    /\ NoEvent \in Events
    /\ \A e \in Events, n \in Nat :
         /\ Line(e, n) \in Lines /\ Line(e, n).event = e /\ Line(e, n).seq = n
         /\ Line(e, n).end = TRUE
    /\ \A b \in BOOLEAN : /\ Lost(b) \in Lines /\ Lost(b).event = NoEvent
                          /\ ~Readable(Lost(b)) /\ Lost(b).end = b
BY DEF Line, Lost, Lines, NoEvent, Event, Events, Readable

LEMMA LinesAre ==
    ASSUME lines \in Seq(Lines)
    PROVE  /\ Len(lines) \in Nat /\ DOMAIN lines = 1..Len(lines)
           /\ \A i \in DOMAIN lines : lines[i] \in Lines
           /\ \A i \in DOMAIN lines : /\ lines[i].event \in Events /\ lines[i].seq \in Nat
                                      /\ lines[i].end \in BOOLEAN
<1>1. Len(lines) \in Nat /\ DOMAIN lines = 1..Len(lines)
  BY LenProperties
<1>2. \A i \in DOMAIN lines : lines[i] \in Lines
  BY ElementOfSeq, <1>1
<1>3. \A l \in Lines : l.event \in Events /\ l.seq \in Nat /\ l.end \in BOOLEAN
  BY DEF Lines
<1> QED
  BY <1>1, <1>2, <1>3

(* A file with a line at its end: one more, or what was not ended is lost. *)
LEMMA AppendedIs ==
    ASSUME lines \in Seq(Lines), NEW l \in Lines
    PROVE  /\ Appended(l) \in Seq(Lines)
           /\ \/ /\ DOMAIN Appended(l) = 1..(Len(lines) + 1)
                 /\ \A i \in DOMAIN lines : Appended(l)[i] = lines[i]
                 /\ Appended(l)[Len(lines) + 1] = l
                 /\ \A i \in DOMAIN lines : i < Len(lines) + 1
              \/ /\ DOMAIN Appended(l) = DOMAIN lines
                 /\ Len(lines) \in DOMAIN lines /\ ~lines[Len(lines)].end
                 /\ \A i \in DOMAIN lines : i # Len(lines) => Appended(l)[i] = lines[i]
                 /\ ~Readable(Appended(l)[Len(lines)])
                 /\ Appended(l)[Len(lines)].event = NoEvent
<1> DEFINE n == Len(lines)
<1>0. l.end \in BOOLEAN
  BY DEF Lines
<1>1. CASE lines # <<>> /\ ~lines[n].end
  <2>1. n \in 1..n /\ DOMAIN lines = 1..n
    BY <1>1
  <2>2. Appended(l) = [lines EXCEPT ![n] = Lost(l.end)]
    BY <1>1 DEF Appended
  <2>3. Lost(l.end) \in Lines /\ ~Readable(Lost(l.end)) /\ Lost(l.end).event = NoEvent
    BY <1>0, LineIs
  <2>4. /\ Appended(l) \in Seq(Lines) /\ DOMAIN Appended(l) = DOMAIN lines
        /\ Appended(l)[n] = Lost(l.end)
        /\ \A i \in DOMAIN lines : i # n => Appended(l)[i] = lines[i]
    BY <2>1, <2>2, <2>3, ExceptSeq
  <2> QED
    BY <1>1, <2>1, <2>3, <2>4
<1>2. CASE ~(lines # <<>> /\ ~lines[n].end)
  <2>1. Appended(l) = Append(lines, l)
    BY <1>2 DEF Appended
  <2> QED
    BY <2>1, AppendProperties
<1> QED
  BY <1>1, <1>2

(***************************************************************************)
(* Types.                                                                  *)
(***************************************************************************)

Places == {"idle", "wait", "seq", "append", "read", "open", "write", "replace", "emitted",
           "raised", "told", "off"}

DiskType ==
    /\ lines \in Seq(Lines)
    /\ content \in [Files -> Docs]
    /\ status \in Files /\ tmp \in (Files \cup {NoFile}) \ {status}

WriterType ==
    /\ pc \in [Writers -> Places]
    /\ ev \in [Writers -> Events] /\ seq \in [Writers -> Nat] /\ doc \in [Writers -> Docs]

OpenType ==
    /\ fd \in [Writers -> Files \cup {NoFile}]
    /\ \A w \in Writers : fd[w] # NoFile <=> pc[w] = "write"
    /\ \E f \in Files : f # status /\ f # tmp /\ \A w \in Writers : f # fd[w]

JobType ==
    /\ told \in 0..(Steps + 2) /\ failed \in BOOLEAN /\ over \in BOOLEAN
    /\ rc \in {0, 1} /\ known \in BOOLEAN
    /\ proc \in {"runs", "killed", "ended"}
    /\ ~over => told <= Steps + 1

PollType == poll \in {"since", "status", "home"} /\ cursor \in Nat /\ got \subseteq Events

Typed == DiskType /\ WriterType /\ OpenType /\ JobType /\ PollType

LEMMA TypeParts == Typed => TypeOK
BY DEF Typed, DiskType, WriterType, OpenType, JobType, PollType, TypeOK, Places

LEMMA DocsAre ==
    /\ Half \in Docs /\ ~Half.whole
    /\ \A d \in Docs : /\ d.whole \in BOOLEAN /\ d.seq \in Nat /\ d.merged \subseteq Events
                       /\ d.job \in Terminal \cup {"running", "unknown"}
BY DEF Half, Docs

LEMMA MergedIs ==
    ASSUME WriterType, NEW w \in Writers, NEW old \in Docs
    PROVE  /\ Merged(old, w) \in Docs /\ Merged(old, w).whole
           /\ Merged(old, w).merged = old.merged \cup {ev[w]}
<1>1. ev[w] \in Events /\ seq[w] \in Nat
  BY DEF WriterType
<1>2. ev[w].job \in Terminal \cup {"", "running"}
  BY <1>1 DEF Events
<1>3. old.merged \cup {ev[w]} \in SUBSET Events
  BY <1>1, DocsAre
<1>4. (IF ev[w].job # "" THEN ev[w].job ELSE old.job) \in Terminal \cup {"running", "unknown"}
  BY <1>2, DocsAre
<1> QED
  BY <1>1, <1>3, <1>4 DEF Merged, Docs

LEMMA TypeInit == Init => Typed
<1> SUFFICES ASSUME Init PROVE Typed
  OBVIOUS
<1>1. Submitted \in Events
  BY DEF Submitted, Event, Events
<1>2. DiskType
  <2>1. lines \in Seq(Lines)
    BY <1>1, LineIs DEF Init
  <2>2. [whole |-> TRUE, job |-> "running", seq |-> 1, merged |-> {Submitted}] \in Docs
    BY <1>1 DEF Docs
  <2>3. content \in [Files -> Docs]
    BY <2>2, DocsAre DEF Init
  <2> QED
    BY <2>1, <2>3, FilesAre DEF Init, DiskType
<1>3. WriterType
  BY LineIs, DocsAre DEF Init, WriterType, Places
<1>4. OpenType
  <2>1. 2 \in Files /\ 2 # status /\ 2 # tmp /\ \A w \in Writers : 2 # fd[w]
    BY FilesAre DEF Init, NoFile
  <2> QED
    BY <2>1 DEF Init, OpenType
<1>5. JobType /\ PollType
  <2>1. 0 \in 0..(Steps + 2) /\ 0 <= Steps + 1
    OBVIOUS
  <2> QED
    BY <2>1 DEF Init, JobType, PollType
<1> QED
  BY <1>2, <1>3, <1>4, <1>5 DEF Typed

LEMMA LastSeqIs ==
    ASSUME lines \in Seq(Lines)
    PROVE  /\ LastSeq \in Nat
           /\ \/ LastSeq = 0 /\ \A i \in DOMAIN lines : ~Readable(lines[i])
              \/ \E i \in DOMAIN lines :
                    /\ Readable(lines[i]) /\ LastSeq = lines[i].seq
                    /\ \A j \in DOMAIN lines : Readable(lines[j]) => j <= i
<1> DEFINE whole == {i \in DOMAIN lines : Readable(lines[i])}
           last == CHOOSE i \in whole : \A j \in whole : j <= i
<1>1. LastSeq = IF whole = {} THEN 0 ELSE lines[last].seq
  BY DEF LastSeq
<1>2. CASE whole = {}
  BY <1>1, <1>2
<1>3. CASE whole # {}
  <2>1. whole \in SUBSET (1..Len(lines)) /\ Len(lines) \in Nat
    BY LinesAre
  <2>2. last \in whole /\ \A j \in whole : j <= last
    <3> HIDE DEF whole
    <3> QED
      BY <1>3, <2>1, LastOf
  <2>3. last \in DOMAIN lines /\ Readable(lines[last]) /\ lines[last].seq \in Nat
    BY <2>2, LinesAre
  <2>4. \A j \in DOMAIN lines : Readable(lines[j]) => j <= last
    BY <2>2
  <2> HIDE DEF last, whole
  <2> QED
    BY <1>1, <1>3, <2>3, <2>4
<1> QED
  BY <1>2, <1>3

(* A writer that has no file open goes on to a place where it has none. *)
LEMMA OpenStays ==
    ASSUME Typed, NEW w \in Writers, NEW l \in Places \ {"write"}, pc[w] # "write",
           pc' = [pc EXCEPT ![w] = l], UNCHANGED <<status, tmp, fd>>
    PROVE  OpenType'
BY DEF Typed, WriterType, OpenType

LEMMA TypeEmitting ==
    ASSUME Typed, NEW w \in Writers, Emitting(w)
    PROVE  Typed'
<1> USE DEF Typed
<1>0. {"append", "read", "open", "write", "replace", "emitted", "raised"} \subseteq Places
  BY DEF Places
<1>a. \A l \in Places : [pc EXCEPT ![w] = l] \in [Writers -> Places]
  BY DEF WriterType
<1>1. CASE EmitSeq(w)
  <2>1. seq' \in [Writers -> Nat]
    BY <1>1, LastSeqIs DEF EmitSeq, NextSeq, WriterType, DiskType
  <2>2. WriterType'
    BY <1>0, <1>a, <1>1, <2>1 DEF EmitSeq, WriterType
  <2>3. OpenType'
    BY <1>0, <1>1, OpenStays DEF EmitSeq, logVars
  <2> QED
    BY <1>1, <2>2, <2>3 DEF EmitSeq, logVars, jobVars, childVars, pollVars, DiskType,
                            JobType, PollType
<1>2. CASE EmitAppend(w)
  <2>1. Line(ev[w], seq[w]) \in Lines
    BY LineIs DEF WriterType
  <2>2. lines' \in Seq(Lines)
    BY <1>2, <2>1, AppendedIs DEF EmitAppend, DiskType
  <2>3. WriterType'
    BY <1>0, <1>a, <1>2 DEF EmitAppend, WriterType
  <2>4. OpenType'
    BY <1>0, <1>2, OpenStays DEF EmitAppend
  <2> QED
    BY <1>2, <2>2, <2>3, <2>4 DEF EmitAppend, jobVars, childVars, pollVars, DiskType,
                                  JobType, PollType
<1>3. CASE EmitRead(w)
  <2>1. Merged(content[status], w) \in Docs
    BY MergedIs DEF DiskType
  <2>2. doc' \in [Writers -> Docs]
    BY <1>3, <2>1 DEF EmitRead, WriterType
  <2>3. WriterType'
    BY <1>0, <1>a, <1>3, <2>2 DEF EmitRead, WriterType
  <2>4. OpenType'
    BY <1>0, <1>3, OpenStays DEF EmitRead, logVars
  <2> QED
    BY <1>3, <2>3, <2>4 DEF EmitRead, logVars, jobVars, childVars, pollVars, DiskType,
                            JobType, PollType
<1>4. CASE EmitOpen(w)
  <2>1. PICK f : /\ f = IF tmp = NoFile THEN Unused ELSE tmp
                 /\ tmp' = f /\ fd' = [fd EXCEPT ![w] = f]
                 /\ content' = [content EXCEPT ![f] = Half]
    BY <1>4 DEF EmitOpen
  <2>2. Unused \in Files /\ Unused # status
    BY DEF Unused, OpenType
  <2>3. f \in Files /\ f # status /\ f # NoFile
    BY <2>1, <2>2, FilesAre DEF DiskType
  <2>4. content' \in [Files -> Docs] /\ status' = status /\ lines' = lines
    BY <1>4, <2>1, DocsAre, ZenonT(40) DEF EmitOpen, DiskType
  <2>5. DiskType'
    BY <2>1, <2>3, <2>4 DEF DiskType
  <2>6. WriterType'
    BY <1>0, <1>a, <1>4 DEF EmitOpen, WriterType
  <2>7. OpenType'
    <3>1. fd' \in [Writers -> Files \cup {NoFile}]
      BY <2>1, <2>3 DEF OpenType
    <3>2. \A v \in Writers : fd'[v] # NoFile <=> pc'[v] = "write"
      BY <1>4, <2>1, <2>3 DEF EmitOpen, OpenType, WriterType
    <3>3. PICK x, y \in Writers : \A v \in Writers : v \in {w, x, y}
      BY DEF Writers
    <3>4. /\ status \in 1..5 /\ f \in 1..5 /\ fd'[w] = f
          /\ fd'[x] \in 0..5 /\ fd'[y] \in 0..5
      BY <2>1, <2>3, <3>1, FilesAre DEF DiskType, OpenType, NoFile
    <3>5. \E g \in 1..5 : g # status /\ g # f /\ g # fd'[x] /\ g # fd'[y]
      BY <3>4
    <3>6. \E g \in Files : g # status /\ g # f /\ \A v \in Writers : g # fd'[v]
      BY <3>3, <3>4, <3>5, FilesAre
    <3> QED
      BY <2>1, <2>4, <3>1, <3>2, <3>6 DEF OpenType
  <2> QED
    BY <1>4, <2>5, <2>6, <2>7 DEF EmitOpen, jobVars, childVars, pollVars, JobType, PollType
<1>5. CASE EmitWrite(w)
  <2>1. PICK text \in {doc[w], Half} : content' = [content EXCEPT ![fd[w]] = text]
    BY <1>5 DEF EmitWrite
  <2>2. fd[w] \in Files /\ text \in Docs
    BY <1>5, <2>1, DocsAre DEF EmitWrite, OpenType, WriterType
  <2>3. DiskType'
    BY <1>5, <2>1, <2>2 DEF EmitWrite, DiskType
  <2>4. WriterType'
    BY <1>0, <1>a, <1>5 DEF EmitWrite, WriterType
  <2>5. OpenType'
    <3>1. fd' = [fd EXCEPT ![w] = NoFile] /\ pc' = [pc EXCEPT ![w] = "replace"]
          /\ UNCHANGED <<status, tmp>>
      BY <1>5 DEF EmitWrite
    <3> QED
      BY <3>1, FilesAre DEF OpenType, WriterType
  <2> QED
    BY <1>5, <2>3, <2>4, <2>5 DEF EmitWrite, jobVars, childVars, pollVars, JobType, PollType
<1>6. CASE EmitReplace(w)
  <2>1. WriterType'
    BY <1>0, <1>a, <1>6 DEF EmitReplace, WriterType
  <2>2. DiskType'
    BY <1>6, FilesAre DEF EmitReplace, DiskType
  <2>3. OpenType'
    <3>1. CASE tmp = NoFile /\ UNCHANGED <<status, tmp>> /\ pc' = [pc EXCEPT ![w] = "raised"]
      BY <1>0, <1>6, <3>1, OpenStays DEF EmitReplace
    <3>2. CASE /\ status' = tmp /\ tmp' = NoFile /\ pc' = [pc EXCEPT ![w] = "emitted"]
      <4>1. fd' = fd /\ pc[w] = "replace"
        BY <1>6 DEF EmitReplace
      <4> QED
        BY <3>2, <4>1, FilesAre DEF OpenType, WriterType
    <3> QED
      BY <1>6, <3>1, <3>2 DEF EmitReplace
  <2> QED
    BY <1>6, <2>1, <2>2, <2>3 DEF EmitReplace, jobVars, childVars, pollVars, JobType, PollType
<1> QED
  BY <1>1, <1>2, <1>3, <1>4, <1>5, <1>6 DEF Emitting

LEMMA TypeEmit ==
    ASSUME Typed, NEW w \in Writers, NEW e \in Events, Emit(w, e), pc[w] # "write",
           UNCHANGED logVars
    PROVE  DiskType' /\ WriterType' /\ OpenType'
<1>1. "seq" \in Places \ {"write"}
  BY DEF Places
<1>2. pc' \in [Writers -> Places] /\ ev' \in [Writers -> Events]
  BY <1>1 DEF Emit, Typed, WriterType
<1>3. OpenType'
  BY <1>1, OpenStays DEF Emit, logVars
<1> QED
  BY <1>2, <1>3 DEF Emit, logVars, Typed, DiskType, WriterType

LEMMA TypeRest ==
    ASSUME Typed,
           \/ ChildEmits \/ ChildExits \/ ChildDies
           \/ Track \/ Reap \/ CancelAsked \/ CancelKills \/ PollSince \/ PollStatus
    PROVE  Typed'
<1> USE DEF Typed
<1>0. {"child", "reaper", "cancel"} = Writers
      /\ {"off", "wait", "told", "raised"} \subseteq Places \ {"write"}
  BY DEF Writers, Places
<1>a. \A w \in Writers : \A l \in Places : [pc EXCEPT ![w] = l] \in [Writers -> Places]
  BY DEF WriterType
<1>1. CASE ChildEmits
  <2>a. told \in Nat /\ Steps \in Nat /\ told + 1 \in Nat
    BY DEF JobType
  <2>b. told' = told + 1 /\ told <= Steps + 1
    BY <1>1 DEF ChildEmits, JobType
  <2>c. told' \in 0..(Steps + 2) /\ (told <= Steps => told' <= Steps + 1)
    BY <2>a, <2>b
  <2>d. \E job \in {"running", "", "failed", "done"}, last \in BOOLEAN :
           /\ last \/ told = 0 \/ told \in 1..Steps
           /\ Emit("child", Event("child", told + 1, job))
           /\ failed' = (failed \/ job = "failed")
           /\ over' = last
    BY <1>1 DEF ChildEmits
  <2>1. /\ over' \in BOOLEAN /\ failed' \in BOOLEAN
        /\ ~over' => told = 0 \/ told \in 1..Steps
        /\ \E job \in {"running", "", "failed", "done"} :
               Emit("child", Event("child", told + 1, job))
    <3>2. \A a, b : (a \/ b) \in BOOLEAN
      OBVIOUS
    <3>3. failed' \in BOOLEAN
      BY <2>d, <3>2, Zenon
    <3>4. over' \in BOOLEAN
      BY <2>d, Zenon
    <3>5. ~over' => told = 0 \/ told \in 1..Steps
      <4>1. PICK last \in BOOLEAN : (last \/ told = 0 \/ told \in 1..Steps) /\ over' = last
        BY <2>d, Zenon
      <4>2. CASE last = TRUE
        BY <4>1, <4>2
      <4>3. CASE last = FALSE
        BY <4>1, <4>3
      <4> QED
        BY <4>2, <4>3
    <3>6. \E job \in {"running", "", "failed", "done"} :
               Emit("child", Event("child", told + 1, job))
      BY <2>d, Zenon
    <3> QED
      BY <3>3, <3>4, <3>5, <3>6, Zenon
  <2>2. \A job \in {"running", "", "failed", "done"} : Event("child", told + 1, job) \in Events
    BY <1>0, <2>a, EventIs DEF Terminal
  <2>3. pc["child"] # "write"
    BY <1>1 DEF ChildEmits, Emitted
  <2>4. DiskType' /\ WriterType' /\ OpenType'
    BY <1>0, <1>1, <2>1, <2>2, <2>3, TypeEmit DEF ChildEmits
  <2>5. told = 0 \/ told \in 1..Steps => told <= Steps
    BY <2>a
  <2>6. ~over' => told' <= Steps + 1
    BY <2>1, <2>c, <2>5
  <2>7. JobType'
    BY <1>1, <2>1, <2>c, <2>6 DEF ChildEmits, JobType
  <2> QED
    BY <1>1, <2>4, <2>7 DEF ChildEmits, pollVars, PollType
<1>2. CASE ChildExits
  <2>1. OpenType'
    BY <1>0, <1>2, OpenStays DEF ChildExits, Emitted, logVars
  <2>2. WriterType'
    BY <1>0, <1>a, <1>2 DEF ChildExits, WriterType
  <2> QED
    BY <1>2, <2>1, <2>2 DEF ChildExits, logVars, childVars, pollVars, DiskType, JobType, PollType
<1>3. CASE ChildDies
  <2>1. lines' \in Seq(Lines)
    BY <1>3, AppendedIs, LineIs, ZenonT(40) DEF ChildDies, DiskType
  <2>2. DiskType'
    BY <1>3, <2>1 DEF ChildDies, DiskType
  <2>3. WriterType'
    BY <1>0, <1>a, <1>3 DEF ChildDies, WriterType
  <2>4. OpenType'
    <3>1. fd' = [fd EXCEPT !["child"] = NoFile] /\ pc' = [pc EXCEPT !["child"] = "off"]
          /\ UNCHANGED <<status, tmp>>
      BY <1>3 DEF ChildDies
    <3> QED
      BY <3>1, <1>0, FilesAre DEF OpenType, WriterType
  <2> QED
    BY <1>3, <2>2, <2>3, <2>4 DEF ChildDies, childVars, pollVars, JobType, PollType
<1>4. CASE Track
  <2>1. OpenType'
    BY <1>0, <1>4, OpenStays DEF Track, logVars
  <2>2. WriterType'
    BY <1>0, <1>a, <1>4 DEF Track, WriterType
  <2> QED
    BY <1>4, <2>1, <2>2 DEF Track, logVars, childVars, pollVars, DiskType, JobType, PollType
<1>5. CASE Reap
  <2>1. CASE pc' = [pc EXCEPT !["reaper"] = "off"] /\ UNCHANGED <<ev, seq, doc, fd>>
    <3>1. OpenType'
      BY <1>0, <1>5, <2>1, OpenStays DEF Reap, logVars
    <3>2. WriterType'
      BY <1>0, <1>a, <2>1 DEF WriterType
    <3> QED
      BY <1>5, <3>1, <3>2 DEF Reap, logVars, childVars, pollVars, DiskType, JobType, PollType
  <2>2. CASE \E job \in Terminal : Emit("reaper", Event("reaper", 1, job))
    <3>1. DiskType' /\ WriterType' /\ OpenType'
      BY <1>0, <1>5, <2>2, TypeEmit, EventIs DEF Reap
    <3> QED
      BY <1>5, <3>1 DEF Reap, childVars, pollVars, JobType, PollType
  <2> QED
    BY <1>5, <2>1, <2>2 DEF Reap, Terminal
<1>6. CASE CancelAsked
  <2>1. DiskType' /\ WriterType' /\ OpenType'
    BY <1>0, <1>6, TypeEmit, EventIs DEF CancelAsked, Terminal
  <2> QED
    BY <1>6, <2>1 DEF CancelAsked, jobVars, childVars, pollVars, JobType, PollType
<1>7. CASE CancelKills
  <2>1. \E l \in {"told", "raised"} : pc' = [pc EXCEPT !["cancel"] = l]
    BY <1>7 DEF CancelKills
  <2>2. OpenType'
    BY <1>0, <1>7, <2>1, OpenStays DEF CancelKills, logVars
  <2>3. WriterType'
    BY <1>0, <1>a, <1>7, <2>1 DEF CancelKills, WriterType
  <2> QED
    BY <1>7, <2>2, <2>3 DEF CancelKills, logVars, childVars, pollVars, DiskType, JobType, PollType
<1>8. CASE PollSince
  <2>1. cursor' \in Nat
    <3>1. CASE Since(cursor) # {}
      <4>1. Since(cursor) \in SUBSET (1..Len(lines)) /\ Len(lines) \in Nat
        BY LinesAre DEF Since, DiskType
      <4> DEFINE last == CHOOSE i \in Since(cursor) : \A j \in Since(cursor) : j <= i
      <4>2. last \in Since(cursor)
        BY <3>1, <4>1, LastOf
      <4>3. cursor' = lines[last].seq
        BY <1>8, <3>1 DEF PollSince
      <4> HIDE DEF last
      <4> QED
        BY <4>2, <4>3, LinesAre DEF Since, DiskType
    <3>2. CASE Since(cursor) = {}
      BY <1>8, <3>2 DEF PollSince, PollType
    <3> QED
      BY <3>1, <3>2
  <2>2. got' \subseteq Events
    <3>1. \A i \in Since(cursor) : lines[i].event \in Events
      BY LinesAre DEF Since, DiskType
    <3> QED
      BY <1>8, <3>1 DEF PollSince, PollType
  <2>3. PollType'
    BY <1>8, <2>1, <2>2 DEF PollSince, PollType
  <2> QED
    BY <1>8, <2>3 DEF PollSince, logVars, emitVars, jobVars, childVars, DiskType, WriterType,
                      OpenType, JobType
<1>9. CASE PollStatus
  BY <1>9 DEF PollStatus, logVars, emitVars, jobVars, childVars, DiskType, WriterType, OpenType,
              JobType, PollType
<1> QED
  BY <1>1, <1>2, <1>3, <1>4, <1>5, <1>6, <1>7, <1>8, <1>9

LEMMA TypeStep == Typed /\ [Next]_vars => Typed'
<1> SUFFICES ASSUME Typed, [Next]_vars PROVE Typed'
  OBVIOUS
<1>1. CASE UNCHANGED vars
  BY <1>1 DEF vars, logVars, emitVars, jobVars, childVars, pollVars, Typed, DiskType, WriterType,
              OpenType, JobType, PollType
<1> QED
  BY <1>1, TypeEmitting, TypeRest DEF Next

(* Every variable keeps its type, whoever writes; a writer that opens a file *)
(* finds a name for it.                                                     *)
THEOREM JobLogTypes == Spec => []TypeOK
BY TypeInit, TypeStep, TypeParts, PTL DEF Spec

(***************************************************************************)
(* Nobody cancels: the subprocess and the reaper take turns, and of the    *)
(* file operations of one emit each finds what the one before it left.     *)
(***************************************************************************)

Busy(w) == ~Quiet(w)
Held == {"read", "open", "write", "replace"}

(* The reaper begins when the subprocess has ended. *)
Turn ==
    /\ proc = "runs" => pc["reaper"] \in {"idle", "wait"}
    /\ proc = "ended" => pc["child"] = "off"
    /\ proc # "killed"

(* The lines that read back grow, and the next one will be greater still.   *)
Growing ==
    \A i, j \in DOMAIN lines :
        i < j /\ Readable(lines[i]) /\ Readable(lines[j]) => lines[i].seq < lines[j].seq
EndsLost == \A i \in DOMAIN lines : ~lines[i].end => ~Readable(lines[i])
NextGrows ==
    \A w \in Writers : pc[w] = "append" =>
        /\ seq[w] > 0
        /\ \A i \in DOMAIN lines : Readable(lines[i]) => lines[i].seq < seq[w]
LogInv == Growing /\ EndsLost /\ NextGrows

(* The cursor is at a line, and what is not after it was given. *)
CursorAt == cursor = 0 \/ \E i \in DOMAIN lines : Readable(lines[i]) /\ lines[i].seq = cursor
Given == \A i \in DOMAIN lines :
             Readable(lines[i]) /\ lines[i].seq <= cursor => lines[i].event \in got
CursorInv == CursorAt /\ Given

(* Who is between the read and the rename holds the snapshot and one event  *)
(* more, and the temporary file is its own.                                 *)
DocOf(w) ==
    /\ pc[w] \in {"open", "write", "replace"} =>
         doc[w].whole /\ doc[w].merged = content[status].merged \cup {ev[w]}
    /\ pc[w] = "write" => fd[w] = tmp /\ ~content[tmp].whole
    /\ pc[w] = "replace" => tmp # NoFile /\ content[tmp] = doc[w]
FileInv == content[status].whole /\ \A w \in Writers : DocOf(w)

(* An event in the log is in the snapshot, or in the hands of its writer,   *)
(* or is the last of a subprocess that has ended.                           *)
Merging(e) ==
    \/ e \in content[status].merged
    \/ \E w \in Writers : pc[w] \in Held /\ e = ev[w]
    \/ proc = "ended" /\ e = ev["child"]
MergeInv == \A i \in DOMAIN lines : Readable(lines[i]) => Merging(lines[i].event)

AloneInv == Turn /\ LogInv /\ CursorInv /\ FileInv /\ MergeInv

LEMMA WritersAre ==
    /\ "child" \in Writers /\ "reaper" \in Writers /\ "cancel" \in Writers
    /\ \A w \in Writers : w \in {"child", "reaper", "cancel"}
BY DEF Writers

LEMMA OneBusy ==
    ASSUME Typed, Alone, Turn, NEW w \in Writers, NEW v \in Writers, Busy(w), Busy(v)
    PROVE  v = w
BY WritersAre DEF Busy, Quiet, Alone, Turn, Typed, JobType

(* A cancel that has begun is never as if it had not. *)
LEMMA AloneBack ==
    ASSUME Typed, [Next]_vars, Alone'
    PROVE  Alone
<1> USE WritersAre DEF Alone, Typed, WriterType
<1>1. ASSUME NEW w \in Writers, NEW l, pc[w] # "idle", l # "idle", pc' = [pc EXCEPT ![w] = l]
      PROVE  Alone
  BY <1>1
<1>2. ASSUME NEW w \in Writers \ {"cancel"}, NEW l, pc' = [pc EXCEPT ![w] = l]
      PROVE  Alone
  BY <1>2
<1>3. ASSUME NEW w \in Writers, Emitting(w) PROVE Alone
  BY <1>1, <1>3 DEF Emitting, EmitSeq, EmitAppend, EmitRead, EmitOpen, EmitWrite, EmitReplace
<1>4. CASE ChildEmits \/ ChildExits \/ ChildDies \/ Track \/ Reap
  BY <1>2, <1>4 DEF ChildEmits, ChildExits, ChildDies, Track, Reap, Emit
<1>5. CASE CancelAsked \/ CancelKills
  BY <1>5 DEF CancelAsked, CancelKills, Emit
<1>6. CASE PollSince \/ PollStatus \/ UNCHANGED vars
  BY <1>6 DEF PollSince, PollStatus, vars, emitVars
<1> QED
  BY <1>3, <1>4, <1>5, <1>6 DEF Next

LEMMA TurnStep ==
    ASSUME Typed, Alone, Turn, [Next]_vars, Alone'
    PROVE  Turn'
<1> USE WritersAre DEF Typed, WriterType
<1>1. ASSUME NEW w \in Writers, NEW l, Busy(w), pc' = [pc EXCEPT ![w] = l], UNCHANGED proc
      PROVE  Turn'
  BY <1>1 DEF Turn, Busy, Quiet, Alone
<1>2. ASSUME NEW w \in Writers, Emitting(w) PROVE Turn'
  BY <1>1, <1>2 DEF Emitting, EmitSeq, EmitAppend, EmitRead, EmitOpen, EmitWrite, EmitReplace,
                    Busy, Quiet, jobVars
<1>3. CASE ChildEmits
  BY <1>3 DEF ChildEmits, Emit, Turn, Alive
<1>4. CASE ChildExits \/ ChildDies
  BY <1>4 DEF ChildExits, ChildDies, Turn
<1>5. CASE Track
  BY <1>5 DEF Track, Turn
<1>6. CASE Reap
  BY <1>6 DEF Reap, Emit, Turn
<1>7. CASE CancelAsked \/ CancelKills
  BY <1>7 DEF CancelAsked, CancelKills, Emit, Alone
<1>8. CASE PollSince \/ PollStatus \/ UNCHANGED vars
  BY <1>8 DEF PollSince, PollStatus, vars, emitVars, jobVars, Turn
<1> QED
  BY <1>2, <1>3, <1>4, <1>5, <1>6, <1>7, <1>8 DEF Next

(* The log. *)

LEMMA LogGrows ==
    ASSUME Typed, Growing, EndsLost, NEW l \in Lines, lines' = Appended(l),
           Readable(l) => \A i \in DOMAIN lines : Readable(lines[i]) => lines[i].seq < l.seq,
           ~l.end => ~Readable(l)
    PROVE  /\ Growing' /\ EndsLost'
           /\ \A i \in DOMAIN lines :
                 Readable(lines[i]) => i \in DOMAIN lines' /\ lines'[i] = lines[i]
           /\ \A i \in DOMAIN lines' : Readable(lines'[i]) =>
                 (i \in DOMAIN lines /\ lines'[i] = lines[i]) \/ lines'[i] = l
<1>0. Len(lines) \in Nat /\ DOMAIN lines = 1..Len(lines) /\ lines \in Seq(Lines)
  BY LinesAre DEF Typed, DiskType
<1>1. CASE /\ DOMAIN lines' = 1..(Len(lines) + 1)
           /\ \A i \in DOMAIN lines : lines'[i] = lines[i]
           /\ lines'[Len(lines) + 1] = l
  <2>1. \A i \in DOMAIN lines' : i \in DOMAIN lines \/ i = Len(lines) + 1
    BY <1>0, <1>1
  <2>2. \A i, j \in DOMAIN lines' : i < j => i \in DOMAIN lines
    BY <1>0, <1>1
  <2>3. Growing'
    BY <1>1, <2>1, <2>2 DEF Growing
  <2>4. EndsLost'
    BY <1>1, <2>1 DEF EndsLost
  <2>5. DOMAIN lines \subseteq DOMAIN lines'
    BY <1>0, <1>1
  <2> QED
    BY <1>1, <2>1, <2>3, <2>4, <2>5
<1>2. CASE /\ DOMAIN lines' = DOMAIN lines
           /\ Len(lines) \in DOMAIN lines /\ ~lines[Len(lines)].end
           /\ \A i \in DOMAIN lines : i # Len(lines) => lines'[i] = lines[i]
           /\ ~Readable(lines'[Len(lines)])
  <2>1. Growing'
    BY <1>2 DEF Growing
  <2>2. EndsLost'
    BY <1>2 DEF EndsLost
  <2>3. ~Readable(lines[Len(lines)])
    BY <1>2 DEF EndsLost
  <2> QED
    BY <1>2, <2>1, <2>2, <2>3
<1> QED
  BY <1>0, <1>1, <1>2, AppendedIs

LEMMA LogStep ==
    ASSUME Typed, Alone, Turn, LogInv, [Next]_vars, Alone'
    PROVE  LogInv'
<1> USE WritersAre DEF LogInv
<1>1. ASSUME UNCHANGED <<lines, seq>>,
             \A w \in Writers : pc'[w] = "append" => pc[w] = "append"
      PROVE  LogInv'
  BY <1>1 DEF Growing, EndsLost, NextGrows
<1>2. ASSUME NEW w \in Writers, Emitting(w) PROVE LogInv'
  <2>1. CASE EmitSeq(w)
    <3>1. lines' = lines /\ seq' = [seq EXCEPT ![w] = LastSeq + 1]
          /\ pc' = [pc EXCEPT ![w] = "append"]
      BY <2>1 DEF EmitSeq, NextSeq, logVars
    <3>2. LastSeq \in Nat /\ \A i \in DOMAIN lines : Readable(lines[i]) => lines[i].seq <= LastSeq
      <4>1. lines \in Seq(Lines)
        BY DEF Typed, DiskType
      <4>2. \A i \in DOMAIN lines : i \in Nat /\ lines[i].seq \in Nat
        BY <4>1, LinesAre
      <4> QED
        BY <4>1, <4>2, LastSeqIs DEF Growing
    <3>3. seq'[w] = LastSeq + 1 /\ \A v \in Writers : v # w => seq'[v] = seq[v] /\ pc'[v] = pc[v]
      BY <3>1 DEF Typed, WriterType
    <3>4. \A i \in DOMAIN lines : lines[i].seq \in Nat
      BY LinesAre DEF Typed, DiskType
    <3>5. NextGrows'
      BY <3>1, <3>2, <3>3, <3>4 DEF NextGrows
    <3> QED
      BY <3>1, <3>5 DEF Growing, EndsLost
  <2>2. CASE EmitAppend(w)
    <3>1. /\ lines' = Appended(Line(ev[w], seq[w])) /\ pc' = [pc EXCEPT ![w] = "read"]
          /\ pc[w] = "append"
      BY <2>2 DEF EmitAppend
    <3>2. ev[w] \in Events /\ seq[w] \in Nat
      BY DEF Typed, WriterType
    <3>3. /\ Line(ev[w], seq[w]) \in Lines /\ Line(ev[w], seq[w]).seq = seq[w]
          /\ Line(ev[w], seq[w]).end = TRUE
      BY <3>2, LineIs
    <3>4. Growing' /\ EndsLost'
      BY <3>1, <3>3, LogGrows DEF NextGrows
    <3>5. \A v \in Writers : pc'[v] # "append"
      BY <3>1, OneBusy DEF Busy, Quiet, Typed, WriterType
    <3> QED
      BY <3>4, <3>5 DEF NextGrows
  <2>3. CASE EmitRead(w) \/ EmitOpen(w) \/ EmitWrite(w) \/ EmitReplace(w)
    <3>1. UNCHANGED <<lines, seq>>
      BY <2>3 DEF EmitRead, EmitOpen, EmitWrite, EmitReplace, logVars
    <3>2. \E l : l # "append" /\ pc' = [pc EXCEPT ![w] = l]
      BY <2>3 DEF EmitRead, EmitOpen, EmitWrite, EmitReplace
    <3> QED
      BY <1>1, <3>1, <3>2 DEF Typed, WriterType
  <2> QED
    BY <1>2, <2>1, <2>2, <2>3 DEF Emitting
<1>3. CASE ChildDies
  <2>1. pc' = [pc EXCEPT !["child"] = "off"] /\ seq' = seq
    BY <1>3 DEF ChildDies
  <2>2. \A v \in Writers : pc'[v] = "append" => pc[v] = "append"
    BY <2>1 DEF Typed, WriterType
  <2>3. CASE lines' = lines
    BY <1>1, <2>1, <2>2, <2>3
  <2>4. CASE lines' = Appended(Lost(FALSE)) /\ pc["child"] = "append"
    <3>1. Growing' /\ EndsLost'
      BY <2>4, LogGrows, LineIs
    <3>2. \A v \in Writers : pc'[v] # "append"
      BY <2>1, <2>4, OneBusy DEF Busy, Quiet, Typed, WriterType
    <3> QED
      BY <3>1, <3>2 DEF NextGrows
  <2> QED
    BY <1>3, <2>3, <2>4 DEF ChildDies
<1>4. CASE ChildEmits \/ ChildExits \/ Track \/ Reap
  <2>1. UNCHANGED <<lines, seq>>
    BY <1>4 DEF ChildEmits, ChildExits, Track, Reap, Emit, logVars
  <2>2. \E w \in Writers : \E l : l # "append" /\ pc' = [pc EXCEPT ![w] = l]
    BY <1>4 DEF ChildEmits, ChildExits, Track, Reap, Emit
  <2> QED
    BY <1>1, <2>1, <2>2 DEF Typed, WriterType
<1>5. CASE CancelAsked \/ CancelKills
  BY <1>5 DEF CancelAsked, CancelKills, Emit, Alone, Typed, WriterType
<1>6. CASE PollSince \/ PollStatus \/ UNCHANGED vars
  BY <1>1, <1>6 DEF PollSince, PollStatus, vars, emitVars, logVars
<1> QED
  BY <1>2, <1>3, <1>4, <1>5, <1>6 DEF Next

(* The poller. *)

LEMMA CursorKept ==
    ASSUME Typed, LogInv, CursorInv, NEW l \in Lines, lines' = Appended(l),
           ~l.end => ~Readable(l),
           Readable(l) => /\ l.seq > 0
                          /\ \A i \in DOMAIN lines : Readable(lines[i]) => lines[i].seq < l.seq,
           UNCHANGED <<cursor, got>>
    PROVE  CursorInv'
<1>1. /\ \A i \in DOMAIN lines :
            Readable(lines[i]) => i \in DOMAIN lines' /\ lines'[i] = lines[i]
      /\ \A i \in DOMAIN lines' : Readable(lines'[i]) =>
            (i \in DOMAIN lines /\ lines'[i] = lines[i]) \/ lines'[i] = l
  BY LogGrows DEF LogInv
<1>2. CursorAt'
  BY <1>1 DEF CursorInv, CursorAt
<1>3. Readable(l) => ~(l.seq <= cursor)
  <2>1. l.seq \in Nat /\ cursor \in Nat
    BY DEF Lines, Typed, PollType
  <2> QED
    BY <2>1 DEF CursorInv, CursorAt
<1>4. Given'
  BY <1>1, <1>3 DEF CursorInv, Given
<1> QED
  BY <1>2, <1>4 DEF CursorInv

LEMMA CursorStep ==
    ASSUME Typed, Alone, LogInv, CursorInv, [Next]_vars
    PROVE  CursorInv'
<1> USE WritersAre
<1>1. ASSUME UNCHANGED <<lines, cursor, got>> PROVE CursorInv'
  BY <1>1 DEF CursorInv, CursorAt, Given
<1>2. ASSUME NEW w \in Writers, Emitting(w) PROVE CursorInv'
  <2>1. CASE EmitAppend(w)
    <3>1. ev[w] \in Events /\ seq[w] \in Nat
      BY DEF Typed, WriterType
    <3>2. /\ Line(ev[w], seq[w]) \in Lines /\ Line(ev[w], seq[w]).seq = seq[w]
          /\ Line(ev[w], seq[w]).end = TRUE
      BY <3>1, LineIs
    <3>3. /\ seq[w] > 0
          /\ \A i \in DOMAIN lines : Readable(lines[i]) => lines[i].seq < seq[w]
      BY <2>1 DEF EmitAppend, LogInv, NextGrows
    <3>4. lines' = Appended(Line(ev[w], seq[w])) /\ UNCHANGED <<cursor, got>>
      BY <2>1 DEF EmitAppend, pollVars
    <3> QED
      BY <3>2, <3>3, <3>4, CursorKept
  <2>2. CASE ~EmitAppend(w)
    BY <1>1, <1>2, <2>2 DEF Emitting, EmitSeq, EmitRead, EmitOpen, EmitWrite, EmitReplace,
                            logVars, pollVars
  <2> QED
    BY <2>1, <2>2
<1>3. CASE ChildDies
  <2>1. UNCHANGED <<cursor, got>> /\ lines' \in {lines, Appended(Lost(FALSE))}
    BY <1>3 DEF ChildDies, pollVars
  <2> QED
    BY <1>1, <2>1, LineIs, CursorKept
<1>4. CASE PollSince
  <2>1. CASE Since(cursor) = {}
    BY <1>1, <1>4, <2>1 DEF PollSince, logVars
  <2>2. CASE Since(cursor) # {}
    <3> DEFINE new == Since(cursor)
               last == CHOOSE i \in new : \A j \in new : j <= i
    <3>1. new \in SUBSET (1..Len(lines)) /\ Len(lines) \in Nat
      BY LinesAre DEF Since, Typed, DiskType
    <3>2. last \in new /\ \A j \in new : j <= last
      BY <2>2, <3>1, LastOf
    <3>3. /\ cursor' = lines[last].seq /\ got' = got \cup {lines[i].event : i \in new}
          /\ lines' = lines
      BY <1>4, <2>2 DEF PollSince, logVars
    <3> HIDE DEF last
    <3>4. last \in DOMAIN lines /\ Readable(lines[last])
      BY <3>2 DEF Since
    <3>5. CursorAt'
      BY <3>3, <3>4 DEF CursorAt
    <3>6. \A i \in DOMAIN lines : Readable(lines[i]) => i \in new \/ lines[i].seq <= cursor
      <4>1. cursor \in Nat /\ \A i \in DOMAIN lines : lines[i].seq \in Nat
        BY LinesAre DEF Typed, DiskType, PollType
      <4> QED
        BY <4>1 DEF Since
    <3>7. Given'
      BY <3>3, <3>6 DEF CursorInv, Given
    <3> QED
      BY <3>5, <3>7 DEF CursorInv
  <2> QED
    BY <2>1, <2>2
<1>5. CASE \/ ChildEmits \/ ChildExits \/ Track \/ Reap \/ CancelAsked \/ CancelKills
           \/ PollStatus \/ UNCHANGED vars
  BY <1>1, <1>5 DEF ChildEmits, ChildExits, Track, Reap, CancelAsked, CancelKills, PollStatus,
                    vars, logVars, pollVars
<1> QED
  BY <1>2, <1>3, <1>4, <1>5 DEF Next

(* The snapshot. *)

(* A writer that is not between the read and the rename holds nothing. *)
LEMMA NotHeld ==
    ASSUME NEW w \in Writers, pc[w] \notin {"open", "write", "replace"}
    PROVE  DocOf(w)
BY DEF DocOf

(* What another writer, who is not at it, makes of a snapshot. *)
LEMMA FileByOne ==
    ASSUME Typed, Alone, Turn, NEW w \in Writers, NEW l \in Places, Busy(w),
           pc' = [pc EXCEPT ![w] = l], content[status].whole', DocOf(w)'
    PROVE  FileInv'
<1> SUFFICES ASSUME NEW v \in Writers, v # w PROVE DocOf(v)'
  BY DEF FileInv
<1>1. ~Busy(v)
  BY OneBusy
<1>2. pc'[v] = pc[v]
  BY DEF Typed, WriterType
<1> QED
  BY <1>1, <1>2 DEF DocOf, Busy, Quiet

LEMMA FileStep ==
    ASSUME Typed, Alone, Turn, FileInv, [Next]_vars, Alone'
    PROVE  FileInv'
<1> USE WritersAre
<1>0. {"append", "read", "open", "write", "replace", "emitted", "raised"} \subseteq Places
  BY DEF Places
<1>1. ASSUME NEW w \in Writers, Emitting(w) PROVE FileInv'
  <2>0. Busy(w)
    BY <1>1 DEF Emitting, EmitSeq, EmitAppend, EmitRead, EmitOpen, EmitWrite, EmitReplace,
                Busy, Quiet
  <2>a. \A l : pc' = [pc EXCEPT ![w] = l] => pc'[w] = l
    BY DEF Typed, WriterType
  <2>b. DocOf(w) /\ content[status].whole
    BY DEF FileInv
  <2>1. CASE EmitSeq(w) \/ EmitAppend(w)
    <3>1. /\ \E l \in {"append", "read"} : pc' = [pc EXCEPT ![w] = l]
          /\ UNCHANGED <<content, status>>
      BY <2>1 DEF EmitSeq, EmitAppend, logVars
    <3>2. DocOf(w)'
      BY <2>a, <3>1 DEF DocOf
    <3> QED
      BY <1>0, <2>0, <2>b, <3>1, <3>2, FileByOne
  <2>2. CASE EmitRead(w)
    <3>1. /\ pc' = [pc EXCEPT ![w] = "open"] /\ UNCHANGED <<content, status, ev>>
          /\ doc' = [doc EXCEPT ![w] = Merged(content[status], w)]
      BY <2>2 DEF EmitRead, logVars
    <3>2. doc'[w] = Merged(content[status], w)
      BY <3>1 DEF Typed, WriterType
    <3>3. content[status] \in Docs
      BY DEF Typed, DiskType
    <3>4. /\ doc'[w].whole /\ doc'[w].merged = content[status].merged \cup {ev[w]}
          /\ pc'[w] = "open"
      <4>1. pc'[w] = "open"
        BY <2>a, <3>1
      <4>2. LET d == Merged(content[status], w) IN
            d.whole /\ d.merged = content[status].merged \cup {ev[w]}
        BY <3>3, MergedIs DEF Typed
      <4> QED
        BY ONLY <3>2, <4>1, <4>2
    <3>5. DocOf(w)'
      BY <3>1, <3>4 DEF DocOf
    <3> QED
      BY <1>0, <2>0, <2>b, <3>1, <3>5, FileByOne
  <2>3. CASE EmitOpen(w)
    <3>1. PICK f : /\ f = IF tmp = NoFile THEN Unused ELSE tmp
                   /\ tmp' = f /\ fd' = [fd EXCEPT ![w] = f]
                   /\ content' = [content EXCEPT ![f] = Half]
      BY <2>3 DEF EmitOpen
    <3>2. Unused \in Files /\ Unused # status
      BY DEF Unused, Typed, OpenType
    <3>3. f \in Files /\ f # status /\ status \in Files
      BY <3>1, <3>2, FilesAre DEF Typed, DiskType
    <3>4. /\ content'[status] = content[status] /\ content'[f] = Half /\ fd'[w] = f
      BY <3>1, <3>3 DEF Typed, DiskType, OpenType
    <3>5. /\ pc' = [pc EXCEPT ![w] = "write"] /\ pc[w] = "open" /\ UNCHANGED <<status, ev, doc>>
      BY <2>3 DEF EmitOpen
    <3>6. DocOf(w)'
      BY <2>a, <2>b, <3>1, <3>4, <3>5, DocsAre DEF DocOf
    <3> QED
      BY <1>0, <2>0, <2>b, <3>4, <3>5, <3>6, FileByOne
  <2>4. CASE EmitWrite(w)
    <3>1. fd[w] = tmp /\ ~content[tmp].whole /\ pc[w] = "write"
      BY <2>4, <2>b DEF EmitWrite, DocOf
    <3>2. /\ content' = [content EXCEPT ![tmp] = doc[w]]
          /\ pc' = [pc EXCEPT ![w] = "replace"] /\ UNCHANGED <<status, tmp, ev, doc>>
      BY <2>4, <3>1 DEF EmitWrite
    <3>3. tmp \in Files /\ tmp # status /\ status \in Files /\ tmp # NoFile
      BY <3>1, FilesAre DEF Typed, DiskType, OpenType
    <3>4. content'[tmp] = doc[w] /\ content'[status] = content[status]
      BY <3>2, <3>3 DEF Typed, DiskType
    <3>5. DocOf(w)'
      BY <2>a, <2>b, <3>1, <3>2, <3>3, <3>4 DEF DocOf
    <3> QED
      BY <1>0, <2>0, <2>b, <3>2, <3>4, <3>5, FileByOne
  <2>5. CASE EmitReplace(w)
    <3>1. tmp # NoFile /\ content[tmp] = doc[w] /\ doc[w].whole
      BY <2>5, <2>b DEF EmitReplace, DocOf
    <3>2. status' = tmp /\ content' = content /\ pc' = [pc EXCEPT ![w] = "emitted"]
      BY <2>5, <3>1 DEF EmitReplace
    <3>3. DocOf(w)'
      BY <2>a, <3>2 DEF DocOf
    <3> QED
      BY <1>0, <2>0, <3>1, <3>2, <3>3, FileByOne
  <2> QED
    BY <1>1, <2>1, <2>2, <2>3, <2>4, <2>5 DEF Emitting
<1>2. ASSUME NEW w \in Writers, UNCHANGED <<content, status, tmp, doc>>,
             pc'[w] \notin {"open", "write", "replace"},
             \A v \in Writers : v # w => pc'[v] = pc[v] /\ ev'[v] = ev[v] /\ fd'[v] = fd[v]
      PROVE  FileInv'
  <2>1. ASSUME NEW v \in Writers PROVE DocOf(v)'
    <3>1. CASE v = w
      BY <1>2, <3>1 DEF DocOf
    <3>2. CASE v # w
      <4>1. DocOf(v)
        BY DEF FileInv
      <4>2. pc'[v] = pc[v] /\ ev'[v] = ev[v] /\ fd'[v] = fd[v]
        BY <1>2, <3>2
      <4> QED
        BY <1>2, <4>1, <4>2 DEF DocOf
    <3> QED
      BY <3>1, <3>2
  <2> QED
    BY <1>2, <2>1 DEF FileInv
<1>3. CASE ChildEmits \/ ChildExits \/ ChildDies
  <2>1. /\ pc'["child"] \notin {"open", "write", "replace"}
        /\ \A v \in Writers : v # "child" => pc'[v] = pc[v] /\ ev'[v] = ev[v] /\ fd'[v] = fd[v]
    BY <1>3 DEF ChildEmits, ChildExits, ChildDies, Emit, Typed, WriterType, OpenType
  <2>2. UNCHANGED <<content, status, tmp, doc>>
    BY <1>3 DEF ChildEmits, ChildExits, ChildDies, Emit, logVars
  <2> QED
    BY <1>2, <2>1, <2>2
<1>4. CASE Track \/ Reap
  <2>1. /\ pc'["reaper"] \notin {"open", "write", "replace"}
        /\ \A v \in Writers : v # "reaper" => pc'[v] = pc[v] /\ ev'[v] = ev[v] /\ fd'[v] = fd[v]
    BY <1>4 DEF Track, Reap, Emit, Typed, WriterType
  <2>2. UNCHANGED <<content, status, tmp, doc>>
    BY <1>4 DEF Track, Reap, Emit, logVars
  <2> QED
    BY <1>2, <2>1, <2>2
<1>5. CASE CancelAsked \/ CancelKills
  BY <1>5 DEF CancelAsked, CancelKills, Emit, Alone, Typed, WriterType
<1>6. CASE PollSince \/ PollStatus \/ UNCHANGED vars
  BY <1>6 DEF PollSince, PollStatus, vars, emitVars, logVars, FileInv, DocOf
<1> QED
  BY <1>1, <1>3, <1>4, <1>5, <1>6 DEF Next

LEMMA MergeKept ==
    ASSUME MergeInv, lines' = lines, content'[status'].merged = content[status].merged,
           \A w \in Writers : pc[w] \in Held =>
               \/ pc'[w] \in Held /\ ev'[w] = ev[w]
               \/ w = "child" /\ proc' = "ended" /\ ev'[w] = ev[w],
           proc = "ended" => proc' = "ended" /\ ev'["child"] = ev["child"]
    PROVE  MergeInv'
<1> SUFFICES ASSUME NEW i \in DOMAIN lines, Readable(lines[i]) PROVE Merging(lines[i].event)'
  BY DEF MergeInv
<1> DEFINE e == lines[i].event
<1>1. Merging(e)
  BY DEF MergeInv
<1> QED
  BY <1>1 DEF Merging

LEMMA MergeStep ==
    ASSUME Typed, Alone, Turn, LogInv, FileInv, MergeInv, [Next]_vars, Alone'
    PROVE  MergeInv'
<1> USE WritersAre
<1>1. ASSUME NEW w \in Writers, Emitting(w) PROVE MergeInv'
  <2>0. Busy(w)
    BY <1>1 DEF Emitting, EmitSeq, EmitAppend, EmitRead, EmitOpen, EmitWrite, EmitReplace,
                Busy, Quiet
  <2>a. ev' = ev /\ proc' = proc
    BY <1>1 DEF Emitting, EmitSeq, EmitAppend, EmitRead, EmitOpen, EmitWrite, EmitReplace,
                jobVars
  <2>b. \A l : pc' = [pc EXCEPT ![w] = l] =>
            pc'[w] = l /\ \A v \in Writers : v # w => pc'[v] = pc[v]
    BY DEF Typed, WriterType
  <2>1. CASE EmitSeq(w)
    <3>1. pc[w] \notin Held /\ UNCHANGED <<lines, content, status>>
          /\ pc' = [pc EXCEPT ![w] = "append"]
      BY <2>1 DEF EmitSeq, logVars, Held
    <3> QED
      BY <2>a, <2>b, <3>1, MergeKept
  <2>2. CASE EmitAppend(w)
    <3> DEFINE l == Line(ev[w], seq[w])
    <3>1. /\ lines' = Appended(l) /\ pc[w] = "append" /\ pc' = [pc EXCEPT ![w] = "read"]
          /\ UNCHANGED <<content, status>>
      BY <2>2 DEF EmitAppend
    <3>2. ev[w] \in Events /\ seq[w] \in Nat
      BY DEF Typed, WriterType
    <3>3. l \in Lines /\ l.event = ev[w] /\ l.seq = seq[w] /\ l.end = TRUE
      BY <3>2, LineIs
    <3> HIDE DEF l
    <3>4. \A i \in DOMAIN lines' : Readable(lines'[i]) =>
             (i \in DOMAIN lines /\ lines'[i] = lines[i]) \/ lines'[i] = l
      BY <3>1, <3>3, LogGrows DEF LogInv, NextGrows
    <3>5. \A e : Merging(e) => Merging(e)'
      BY <2>a, <2>b, <3>1 DEF Merging, Held
    <3>7. ASSUME NEW i \in DOMAIN lines', Readable(lines'[i])
          PROVE  \E e : e = lines'[i].event /\ Merging(e)'
      <4>1. CASE i \in DOMAIN lines /\ lines'[i] = lines[i]
        BY <3>5, <3>7, <4>1 DEF MergeInv
      <4>2. CASE lines'[i] = l
        <5>1. PICK e : e = ev[w]
          OBVIOUS
        <5>2. Merging(e)'
          BY <2>a, <2>b, <3>1, <5>1 DEF Merging, Held
        <5>3. e = lines'[i].event
          BY ONLY <3>3, <4>2, <5>1
        <5> QED
          BY ONLY <5>2, <5>3
      <4> QED
        BY <3>4, <3>7, <4>1, <4>2
    <3> QED
      BY <3>7 DEF MergeInv, Merging
  <2>3. CASE EmitRead(w)
    <3>1. UNCHANGED <<lines, content, status>> /\ pc' = [pc EXCEPT ![w] = "open"]
      BY <2>3 DEF EmitRead, logVars
    <3> QED
      BY <2>a, <2>b, <3>1, MergeKept DEF Held
  <2>4. CASE EmitOpen(w)
    <3>1. PICK f : /\ f = IF tmp = NoFile THEN Unused ELSE tmp
                   /\ content' = [content EXCEPT ![f] = Half]
      BY <2>4 DEF EmitOpen
    <3>2. Unused # status
      BY DEF Unused, Typed, OpenType
    <3>3. f # status /\ status \in Files
      BY <3>1, <3>2, FilesAre DEF Typed, DiskType
    <3>4. /\ content'[status] = content[status] /\ UNCHANGED <<lines, status>>
          /\ pc' = [pc EXCEPT ![w] = "write"]
      BY <2>4, <3>1, <3>3 DEF EmitOpen, Typed, DiskType
    <3> QED
      BY <2>a, <2>b, <3>4, MergeKept DEF Held
  <2>5. CASE EmitWrite(w)
    <3>1. fd[w] = tmp
      BY <2>5 DEF EmitWrite, FileInv, DocOf
    <3>2. /\ \E text : content' = [content EXCEPT ![tmp] = text]
          /\ pc' = [pc EXCEPT ![w] = "replace"] /\ UNCHANGED <<lines, status>>
      BY <2>5, <3>1 DEF EmitWrite
    <3>3. content'[status] = content[status]
      BY <3>2 DEF Typed, DiskType
    <3> QED
      BY <2>a, <2>b, <3>2, <3>3, MergeKept DEF Held
  <2>6. CASE EmitReplace(w)
    <3>1. /\ tmp # NoFile /\ content[tmp] = doc[w]
          /\ doc[w].merged = content[status].merged \cup {ev[w]}
      BY <2>6 DEF EmitReplace, FileInv, DocOf
    <3>2. /\ status' = tmp /\ content' = content /\ lines' = lines
          /\ pc' = [pc EXCEPT ![w] = "emitted"]
      BY <2>6, <3>1 DEF EmitReplace
    <3>3. content'[status'].merged = content[status].merged \cup {ev[w]}
      BY <3>1, <3>2
    <3>4. \A v \in Writers : v # w => pc'[v] = pc[v] /\ ev'[v] = ev[v]
      BY <2>a, <2>b, <3>2
    <3>5. \A e : Merging(e) => Merging(e)'
      BY <2>a, <3>3, <3>4 DEF Merging
    <3> QED
      BY <3>2, <3>5 DEF MergeInv
  <2> QED
    BY <1>1, <2>1, <2>2, <2>3, <2>4, <2>5, <2>6 DEF Emitting
<1>2. CASE ChildEmits
  <2>1. pc["child"] \notin Held /\ proc # "ended" /\ proc' = proc
    BY <1>2 DEF ChildEmits, Emitted, Held, Alive
  <2>2. \A v \in Writers : v # "child" => pc'[v] = pc[v] /\ ev'[v] = ev[v]
    BY <1>2 DEF ChildEmits, Emit, Typed, WriterType
  <2>3. UNCHANGED <<lines, content, status>>
    BY <1>2 DEF ChildEmits, logVars
  <2> QED
    BY <2>1, <2>2, <2>3, MergeKept
<1>3. CASE ChildExits
  <2>1. /\ pc["child"] \notin Held /\ UNCHANGED <<lines, content, status, ev>>
        /\ proc' = "ended" /\ pc' = [pc EXCEPT !["child"] = "off"]
    BY <1>3 DEF ChildExits, Emitted, Held, logVars
  <2>2. \A v \in Writers : v # "child" => pc'[v] = pc[v]
    BY <2>1 DEF Typed, WriterType
  <2> QED
    BY <2>1, <2>2, MergeKept
<1>4. CASE ChildDies
  <2>1. /\ UNCHANGED <<content, status, ev>> /\ proc' = "ended"
        /\ pc' = [pc EXCEPT !["child"] = "off"]
    BY <1>4 DEF ChildDies
  <2>2. \A v \in Writers : v # "child" => pc'[v] = pc[v]
    BY <2>1 DEF Typed, WriterType
  <2>3. CASE lines' = lines
    BY <2>1, <2>2, <2>3, MergeKept
  <2>4. CASE lines' = Appended(Lost(FALSE))
    <3>1. \A i \in DOMAIN lines' : Readable(lines'[i]) => i \in DOMAIN lines /\ lines'[i] = lines[i]
      <4> DEFINE l == Lost(FALSE)
      <4>1. l \in Lines /\ ~Readable(l)
        BY LineIs
      <4> HIDE DEF l
      <4>2. \A i \in DOMAIN lines' : Readable(lines'[i]) =>
               (i \in DOMAIN lines /\ lines'[i] = lines[i]) \/ lines'[i] = l
        <5>1. lines' = Appended(l)
          BY <2>4 DEF l
        <5> QED
          BY <4>1, <5>1, LogGrows DEF LogInv
      <4> QED
        BY ONLY <4>1, <4>2
    <3>2. \A e : Merging(e) => Merging(e)'
      BY <2>1, <2>2 DEF Merging
    <3>3. ASSUME NEW i \in DOMAIN lines', Readable(lines'[i])
          PROVE  \E e : e = lines'[i].event /\ Merging(e)'
      BY <3>1, <3>2, <3>3 DEF MergeInv
    <3> QED
      BY <3>3 DEF MergeInv, Merging
  <2> QED
    BY <1>4, <2>3, <2>4 DEF ChildDies
<1>5. CASE Track \/ Reap
  <2>1. pc["reaper"] \notin Held /\ proc' = proc
    BY <1>5 DEF Track, Reap, Held
  <2>2. \A v \in Writers : v # "reaper" => pc'[v] = pc[v] /\ ev'[v] = ev[v]
    BY <1>5 DEF Track, Reap, Emit, Typed, WriterType
  <2>3. UNCHANGED <<lines, content, status>>
    BY <1>5 DEF Track, Reap, logVars
  <2> QED
    BY <2>1, <2>2, <2>3, MergeKept
<1>6. CASE CancelAsked \/ CancelKills
  BY <1>6 DEF CancelAsked, CancelKills, Emit, Alone, Typed, WriterType
<1>7. CASE PollSince \/ PollStatus \/ UNCHANGED vars
  <2>1. UNCHANGED <<lines, content, status, pc, ev, proc>>
    BY <1>7 DEF PollSince, PollStatus, vars, emitVars, logVars, jobVars
  <2> QED
    BY <2>1, MergeKept
<1> QED
  BY <1>1, <1>2, <1>3, <1>4, <1>5, <1>6, <1>7 DEF Next

TurnsInv == Alone => AloneInv

LEMMA TurnsInit == Init => TurnsInv
<1> SUFFICES ASSUME Init PROVE AloneInv
  BY DEF TurnsInv
<1>1. /\ DOMAIN lines = {1} /\ lines[1].event = Submitted /\ lines[1].seq = 1
      /\ lines[1].end = TRUE
  BY DEF Init, Line
<1>2. content[status].whole /\ content[status].merged = {Submitted}
  BY FilesAre DEF Init
<1>3. Turn
  BY WritersAre DEF Init, Turn
<1>4. LogInv
  BY <1>1 DEF Init, LogInv, Growing, EndsLost, NextGrows
<1>5. CursorInv
  BY <1>1 DEF Init, CursorInv, CursorAt, Given
<1>6. FileInv
  BY <1>2 DEF Init, FileInv, DocOf
<1>7. MergeInv
  BY <1>1, <1>2 DEF MergeInv, Merging
<1> QED
  BY <1>3, <1>4, <1>5, <1>6, <1>7 DEF AloneInv

LEMMA TurnsStep == Typed /\ TurnsInv /\ [Next]_vars => TurnsInv'
<1> SUFFICES ASSUME Typed, TurnsInv, [Next]_vars, Alone' PROVE AloneInv'
  BY DEF TurnsInv
<1>1. Alone /\ AloneInv
  BY AloneBack DEF TurnsInv
<1> QED
  BY <1>1, TurnStep, LogStep, CursorStep, FileStep, MergeStep DEF AloneInv

LEMMA Turns == Spec => [](Typed /\ TurnsInv)
BY TypeInit, TypeStep, TurnsInit, TurnsStep, PTL DEF Spec

(* "Both hold one without colliding on seq": of two lines that read back    *)
(* the later one has the greater seq, however many there are and wherever   *)
(* the subprocess died, as long as nobody cancelled.                        *)
THEOREM SeqsOnlyGrow == Spec => []SeqsGrow
<1>1. TurnsInv => SeqsGrow
  BY DEF TurnsInv, AloneInv, LogInv, Growing, SeqsGrow
<1> QED
  BY <1>1, Turns, PTL

(* "A reader never observes a half-written document". *)
THEOREM SnapshotIsWhole == Spec => []StatusWhole
<1>1. TurnsInv => StatusWhole
  BY DEF TurnsInv, AloneInv, FileInv, StatusWhole
<1> QED
  BY <1>1, Turns, PTL

(* "Merge rather than replace": once no emit is under way the snapshot has  *)
(* merged every event of the log, but the one a subprocess died emitting.   *)
THEOREM SnapshotHasAll == Spec => []StatusMergesAll
<1>1. TurnsInv => StatusMergesAll
  <2> SUFFICES ASSUME Alone, AloneInv, \A w \in Writers : Quiet(w),
                      NEW i \in DOMAIN lines, lines[i].event # NoEvent,
                      lines[i].event \notin content[status].merged
               PROVE  proc = "ended" /\ lines[i].event = ev["child"]
    BY DEF TurnsInv, StatusMergesAll, Logged
  <2>1. Merging(lines[i].event)
    BY DEF AloneInv, MergeInv, Readable
  <2> QED
    BY <2>1 DEF Merging, Quiet, Held
<1> QED
  BY <1>1, Turns, PTL

(* A poller whose cursor is past an event was given it. *)
THEOREM PollerMissesNothing == Spec => []CursorMissesNothing
<1>1. TurnsInv => CursorMissesNothing
  BY DEF TurnsInv, AloneInv, CursorInv, Given, CursorMissesNothing
<1> QED
  BY <1>1, Turns, PTL
=============================================================================
